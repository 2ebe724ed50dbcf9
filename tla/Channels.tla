------------------------------ MODULE Channels ------------------------------
(***************************************************************************)
(* The chat channels and the main loop they feed: the Telegram poller with *)
(* its offset, the WebSocket chat of the iOS app with its broadcast        *)
(* channel, the command line, ChannelManager, which merges their streams   *)
(* and routes replies, and Agent::run, which takes one message at a time.  *)
(*                                                                         *)
(* All queues live in memory.  Telegram keeps an update until a request    *)
(* carries a larger offset; the offset lives in memory too, and starts at  *)
(* 0 again with the program.                                               *)
(***************************************************************************)
EXTENDS Naturals, Sequences, SequencesExt

CONSTANTS
    Users,       \* Telegram users
    Posts,       \* <<user, text>>: what users may send
    Identities,  \* user -> its names: user name and numeric id
    Allowed,     \* TELEGRAM_ALLOWED_USERS: "*", names and numeric ids
    MaxUpdates,  \* bound: updates that reach the bot
    MaxChats,    \* bound: messages of the iOS client
    MaxLines,    \* bound: lines on standard input
    MaxChunks,   \* bound: chunks of a reply
    MaxStatus,   \* bound: status updates while a message is handled
    Capacity,    \* of the iOS broadcast channel (256)
    MaxStops,    \* bound: ends of the program
    MaxFaults,   \* bound: failing requests
    None

ASSUME BoundsAssumption ==
    /\ {MaxChunks, Capacity} \subseteq Nat \ {0}
    /\ {MaxUpdates, MaxChats, MaxLines, MaxStatus, MaxStops, MaxFaults} \subseteq Nat

VARIABLES
    posted, confirmed,   \* Telegram: updates in order, and how many are confirmed
    up,                  \* the program runs
    offset, batch,       \* the poller: next offset, and the answer it works through
    queue,               \* what each channel's stream holds
    cur, pc, todo,       \* Agent::run: message, place in the loop, chunks left to send
    statuses,            \* status updates sent for the message
    got,                 \* chunks of the last reply to each update, as they arrived
    conn, rx, lagged,    \* the iOS client's connection and its receiver
    asked, seen,         \* messages of the client, and those with a reply on screen
    lines, stops, faults,
    taken,               \* history: updates taken in this run of the program
    times,               \* history: how often each update was taken
    again, lost, unseen  \* history: see the properties

tele == <<posted, confirmed, offset, batch>>
loop == <<cur, pc, todo, statuses>>
ios == <<conn, rx, lagged, asked, seen, unseen>>
hist == <<taken, times, again, lost>>
channelVars == <<tele, up, queue, loop, got, ios, lines, stops, faults, hist>>

ChannelNames == {"telegram", "ios", "cli"}
Texts == {"ask", "quit", "none"}
Updates == 1 .. MaxUpdates

ASSUME PostsAssumption == Posts \subseteq Users \X Texts
ASSUME NoMessageAssumption == None \notin [ch : ChannelNames, id : Nat]

ChannelsTypeOK ==
    /\ posted \in Seq([from : Users, text : Texts]) /\ confirmed \in 0 .. Len(posted)
    /\ up \in BOOLEAN
    /\ offset \in 0 .. MaxUpdates + 1 /\ batch \in Seq(Updates)
    /\ queue \in [ChannelNames -> Seq(Nat)]
    /\ cur \in [ch : ChannelNames, id : Nat] \cup {None}
    /\ pc \in {"wait", "handle", "reply", "triggers"}
    /\ todo \in Seq(1 .. MaxChunks) /\ statuses \in 0 .. MaxStatus
    /\ got \in [Updates -> Seq(1 .. MaxChunks)]
    /\ conn \in BOOLEAN /\ lagged \in BOOLEAN
    /\ rx \in Seq([k : {"status", "response"}, id : Nat]) /\ Len(rx) <= Capacity
    /\ asked \in 0 .. MaxChats /\ seen \subseteq 1 .. asked /\ unseen \subseteq 1 .. asked
    /\ lines \in 0 .. MaxLines /\ stops \in 0 .. MaxStops /\ faults \in 0 .. MaxFaults
    /\ taken \in Seq(Updates) /\ times \in [Updates -> Nat]
    /\ again \subseteq Updates /\ lost \subseteq Updates

Start ==
    /\ offset = 0 /\ batch = <<>>
    /\ queue = [ch \in ChannelNames |-> <<>>]
    /\ cur = None /\ pc = "wait" /\ todo = <<>> /\ statuses = 0
    /\ conn = FALSE /\ rx = <<>> /\ lagged = FALSE
    /\ taken = <<>>

ChannelsInit ==
    /\ Start /\ up = TRUE
    /\ posted = <<>> /\ confirmed = 0
    /\ got = [u \in Updates |-> <<>>]
    /\ asked = 0 /\ seen = {} /\ unseen = {}
    /\ lines = 0 /\ stops = 0 /\ faults = 0
    /\ times = [u \in Updates |-> 0]
    /\ again = {} /\ lost = {}

-----------------------------------------------------------------------------
(* Telegram's side *)

Arrive(f, t) ==
    /\ Len(posted) < MaxUpdates
    /\ posted' = Append(posted, [from |-> f, text |-> t])
    /\ UNCHANGED <<confirmed, up, offset, batch, queue, loop, got, ios, lines, stops, faults, hist>>

\* getUpdates: updates below the offset are confirmed and forgotten, the others
\* are the answer.
Confirms == IF offset > confirmed + 1 THEN offset - 1 ELSE confirmed
Answer == [i \in 1 .. (Len(posted) - Confirms) |-> Confirms + i]

-----------------------------------------------------------------------------
(* TelegramChannel::start: the poller *)

check_user_allowed(f) == "*" \in Allowed \/ Identities[f] \cap Allowed # {}

\* Updates without text, and those of strangers, go no further.
Wanted(u) == posted[u].text # "none" /\ check_user_allowed(posted[u].from)

PollOk ==
    /\ up /\ batch = <<>> /\ Len(posted) > Confirms
    /\ confirmed' = Confirms
    /\ batch' = Answer
    /\ UNCHANGED <<posted, up, offset, queue, loop, got, ios, lines, stops, faults, hist>>

\* An answer without updates after the long poll still confirms.
PollEmpty ==
    /\ up /\ batch = <<>> /\ Len(posted) = Confirms /\ confirmed # Confirms
    /\ confirmed' = Confirms
    /\ UNCHANGED <<posted, up, offset, batch, queue, loop, got, ios, lines, stops, faults, hist>>

\* The request arrives, but its answer does not or cannot be parsed: after five
\* seconds the poller asks again with the same offset.
PollError ==
    /\ up /\ batch = <<>> /\ faults < MaxFaults
    /\ faults' = faults + 1
    /\ confirmed' = Confirms
    /\ UNCHANGED <<posted, up, offset, batch, queue, loop, got, ios, lines, stops, hist>>

\* Mutant: the offset is that of the update itself.
Deliver_SameOffset ==
    /\ up /\ batch # <<>>
    /\ offset' = Head(batch) /\ batch' = Tail(batch)
    /\ queue' = IF Wanted(Head(batch))
                  THEN [queue EXCEPT !["telegram"] = Append(@, Head(batch))] ELSE queue
    /\ UNCHANGED <<posted, confirmed, up, loop, got, ios, lines, stops, faults, hist>>

\* Mutant: a stranger's update ends the work on the answer, whose end the offset
\* already points to.
Deliver_Breaks ==
    /\ up /\ batch # <<>>
    /\ offset' = Last(batch) + 1
    /\ batch' = IF Wanted(Head(batch)) THEN Tail(batch) ELSE <<>>
    /\ queue' = IF Wanted(Head(batch))
                  THEN [queue EXCEPT !["telegram"] = Append(@, Head(batch))] ELSE queue
    /\ UNCHANGED <<posted, confirmed, up, loop, got, ios, lines, stops, faults, hist>>

\* One update of the answer: the offset moves past it in any case.
Deliver ==
    /\ up /\ batch # <<>>
    /\ offset' = Head(batch) + 1 /\ batch' = Tail(batch)
    /\ queue' = IF Wanted(Head(batch))
                  THEN [queue EXCEPT !["telegram"] = Append(@, Head(batch))] ELSE queue
    /\ UNCHANGED <<posted, confirmed, up, loop, got, ios, lines, stops, faults, hist>>

-----------------------------------------------------------------------------
(* IosChannel and CliChannel *)

Connect ==
    /\ up /\ ~conn
    /\ conn' = TRUE /\ rx' = <<>> /\ lagged' = FALSE
    /\ UNCHANGED <<tele, up, queue, loop, got, asked, seen, unseen, lines, stops, faults, hist>>

\* The receiver goes with the socket: replies under way are not shown.
Disconnect ==
    /\ conn
    /\ conn' = FALSE /\ rx' = <<>> /\ lagged' = FALSE
    /\ unseen' = unseen \cup (1 .. asked \ seen)
    /\ UNCHANGED <<tele, up, queue, loop, got, asked, seen, lines, stops, faults, hist>>

\* handle_chat_socket receives a text that is a message and not blank.
ClientAsks ==
    /\ up /\ conn /\ asked < MaxChats
    /\ asked' = asked + 1
    /\ queue' = [queue EXCEPT !["ios"] = Append(@, asked + 1)]
    /\ UNCHANGED <<tele, up, loop, got, conn, rx, lagged, seen, unseen, lines, stops, faults, hist>>

\* Mutant: the receiver is bounded by refusing new events, without a Lagged error.
Outgoing_DropsNew(ev) ==
    IF conn /\ Len(rx) < Capacity
      THEN rx' = Append(rx, ev) /\ UNCHANGED <<lagged, unseen>>
      ELSE UNCHANGED <<rx, lagged, unseen>>

\* outgoing_tx.send: a full receiver loses its oldest event; nobody may listen.
Outgoing(ev) ==
    IF conn
      THEN LET full == Len(rx) = Capacity
           IN /\ rx' = Append(IF full THEN Tail(rx) ELSE rx, ev)
              /\ lagged' = (lagged \/ full)
              /\ unseen' = IF full /\ Head(rx).k = "response" THEN unseen \cup {Head(rx).id}
                                                              ELSE unseen
      ELSE UNCHANGED <<rx, lagged, unseen>>

\* recv reports Lagged once, which is only logged.
ClientLagged ==
    /\ conn /\ lagged /\ lagged' = FALSE
    /\ UNCHANGED <<tele, up, queue, loop, got, conn, rx, asked, seen, unseen, lines, stops, faults, hist>>

ClientReceives ==
    /\ conn /\ ~lagged /\ rx # <<>>
    /\ rx' = Tail(rx)
    /\ seen' = IF Head(rx).k = "response" THEN seen \cup {Head(rx).id} ELSE seen
    /\ UNCHANGED <<tele, up, queue, loop, got, conn, lagged, asked, unseen, lines, stops, faults, hist>>

\* CliChannel::start: a line that is not blank.
CliLine ==
    /\ up /\ lines < MaxLines
    /\ lines' = lines + 1
    /\ queue' = [queue EXCEPT !["cli"] = Append(@, lines + 1)]
    /\ UNCHANGED <<tele, up, loop, got, ios, stops, faults, hist>>

-----------------------------------------------------------------------------
(* Agent::run over the merged stream of start_all *)

Take(ch) ==
    /\ up /\ pc = "wait" /\ queue[ch] # <<>>
    /\ LET id == Head(queue[ch])
       IN /\ queue' = [queue EXCEPT ![ch] = Tail(@)]
          /\ cur' = [ch |-> ch, id |-> id] /\ pc' = "handle" /\ statuses' = 0
          /\ IF ch = "telegram" THEN /\ taken' = Append(taken, id)
                                     /\ times' = [times EXCEPT ![id] = @ + 1]
                                ELSE UNCHANGED <<taken, times>>
    /\ UNCHANGED <<tele, up, todo, got, ios, lines, stops, faults, again, lost>>

\* send_status for the message's channel: the iOS client gets an event, Telegram a
\* typing indicator, the command line a line.
StatusUpdate ==
    /\ pc = "handle" /\ statuses < MaxStatus
    /\ statuses' = statuses + 1
    /\ IF cur.ch = "ios" THEN Outgoing([k |-> "status", id |-> cur.id])
                         ELSE UNCHANGED <<rx, lagged, unseen>>
    /\ UNCHANGED <<tele, up, queue, cur, pc, todo, got, conn, asked, seen, lines, stops, faults, hist>>

IsQuit == cur.ch = "telegram" /\ posted[cur.id].text = "quit"

\* handle_message has a text or an error to send, of n chunks for Telegram.
Handled(n) ==
    /\ pc = "handle" /\ ~IsQuit
    /\ (cur.ch = "telegram") \/ n = 1
    /\ todo' = [i \in 1 .. n |-> i] /\ pc' = "reply"
    /\ got' = IF cur.ch = "telegram" THEN [got EXCEPT ![cur.id] = <<>>] ELSE got
    /\ UNCHANGED <<tele, up, queue, cur, statuses, ios, lines, stops, faults, hist>>

\* An empty text, as for NeedApproval, is not sent.
HandledEmpty ==
    /\ pc = "handle" /\ ~IsQuit
    /\ pc' = "triggers"
    /\ unseen' = IF cur.ch = "ios" THEN unseen \cup {cur.id} ELSE unseen
    /\ UNCHANGED <<tele, up, queue, cur, todo, statuses, got, conn, rx, lagged, asked, seen, lines, stops, faults, hist>>

Replying(ch) == pc = "reply" /\ cur.ch = ch

\* Mutant: a chunk that cannot be sent is skipped.
ChunkFails_Skips ==
    /\ Replying("telegram") /\ faults < MaxFaults
    /\ faults' = faults + 1
    /\ todo' = Tail(todo) /\ pc' = IF Len(todo) = 1 THEN "triggers" ELSE "reply"
    /\ UNCHANGED <<tele, up, queue, cur, statuses, got, ios, lines, stops, hist>>

\* The request fails, or Telegram refuses the chunk with Markdown and without: the
\* remaining chunks are dropped, and Agent::run ignores the error.
ChunkFails ==
    /\ Replying("telegram") /\ faults < MaxFaults
    /\ faults' = faults + 1
    /\ todo' = <<>> /\ pc' = "triggers"
    /\ UNCHANGED <<tele, up, queue, cur, statuses, got, ios, lines, stops, hist>>

\* send_message_chunk: with Markdown or, after a refusal, without.
ChunkSent ==
    /\ Replying("telegram")
    /\ got' = [got EXCEPT ![cur.id] = Append(@, Head(todo))]
    /\ todo' = Tail(todo) /\ pc' = IF Len(todo) = 1 THEN "triggers" ELSE "reply"
    /\ UNCHANGED <<tele, up, queue, cur, statuses, ios, lines, stops, faults, hist>>

\* IosChannel::respond; the error of sending to no receiver is ignored.
RespondIos ==
    /\ Replying("ios") /\ pc' = "triggers" /\ todo' = <<>>
    /\ Outgoing([k |-> "response", id |-> cur.id])
    /\ UNCHANGED <<tele, up, queue, cur, statuses, got, conn, asked, seen, lines, stops, faults, hist>>

RespondCli ==
    /\ Replying("cli") /\ pc' = "triggers" /\ todo' = <<>>
    /\ UNCHANGED <<tele, up, queue, cur, statuses, got, ios, lines, stops, faults, hist>>

\* check_event_triggers, and back to the top of the loop.
Triggers ==
    /\ pc = "triggers" /\ pc' = "wait" /\ cur' = None
    /\ UNCHANGED <<tele, up, queue, todo, statuses, got, ios, lines, stops, faults, hist>>

-----------------------------------------------------------------------------
(* The end of the program, and its next start *)

InStream == Range(queue["telegram"]) \cup (IF cur = None THEN {} ELSE IF cur.ch = "telegram" THEN {cur.id} ELSE {})

Die(unanswered) ==
    /\ stops < MaxStops /\ stops' = stops + 1 /\ up' = FALSE
    /\ offset' = 0 /\ batch' = <<>>
    /\ queue' = [ch \in ChannelNames |-> <<>>]
    /\ cur' = None /\ pc' = "wait" /\ todo' = <<>> /\ statuses' = 0
    /\ conn' = FALSE /\ rx' = <<>> /\ lagged' = FALSE
    /\ taken' = <<>>
    /\ lost' = lost \cup {u \in unanswered : u <= confirmed}
    /\ again' = again \cup {u \in Range(taken) : u > confirmed}
    /\ unseen' = unseen \cup (1 .. asked \ seen)
    /\ UNCHANGED <<posted, confirmed, got, asked, seen, lines, faults, times>>

\* A crash anywhere; Ctrl+C has the same effect, but only between two messages.
Crash == up /\ Die(InStream)

\* /quit, /exit, /shutdown: handle_message returns None.
Quit == up /\ pc = "handle" /\ IsQuit /\ Die(Range(queue["telegram"]))

StartAgain ==
    /\ ~up /\ up' = TRUE
    /\ UNCHANGED <<tele, queue, loop, got, ios, lines, stops, faults, hist>>

ChannelsNext ==
    \/ \E p \in Posts : Arrive(p[1], p[2])
    \/ PollOk \/ PollEmpty \/ PollError \/ Deliver
    \/ Connect \/ Disconnect \/ ClientAsks \/ ClientLagged \/ ClientReceives \/ CliLine
    \/ \E ch \in ChannelNames : Take(ch)
    \/ StatusUpdate \/ HandledEmpty \/ \E n \in 1 .. MaxChunks : Handled(n)
    \/ ChunkSent \/ ChunkFails \/ RespondIos \/ RespondCli \/ Triggers
    \/ Crash \/ Quit \/ StartAgain

ChannelsSpec == ChannelsInit /\ [][ChannelsNext]_channelVars

-----------------------------------------------------------------------------
(* Properties *)

\* An update that Telegram has forgotten, and that the poller should have passed on,
\* waits in the stream or has been taken by Agent::run, unless the program ended
\* with the update in memory (the unbounded queue of TelegramChannel::start).
LostHasACause ==
    \A u \in 1 .. confirmed :
        Wanted(u) /\ times[u] = 0 /\ u \notin Range(queue["telegram"]) => u \in lost

\* Agent::run takes an update a second time only when the program ended after the
\* first time and before a getUpdates with a larger offset; /quit included.
TwiceHasACause == \A u \in Updates : times[u] > 1 => u \in again

\* Telegram's updates are taken once: a lost one (LostHasACause) and one taken
\* twice (TwiceHasACause) both go back to the program's end at a bad moment.
TakenOnceHasACause == ChannelsTypeOK /\ LostHasACause /\ TwiceHasACause

\* A Telegram user reads the beginning of the reply, without a gap, however
\* requests fail (send_message).
ReplyHasNoGap == \A u \in Updates : \A i \in DOMAIN got[u] : got[u][i] = i

\* The reply to a message of the iOS client reaches its screen or is on its way,
\* unless there was none, the connection broke since the message, or the broadcast
\* channel dropped the reply (handle_chat_socket only logs Lagged).
UnseenHasACause ==
    \A m \in 1 .. asked :
        \/ m \in seen \cup unseen \cup Range(queue["ios"])
        \/ cur = [ch |-> "ios", id |-> m]
        \/ \E i \in DOMAIN rx : rx[i] = [k |-> "response", id |-> m]

\* Whatever fails on the way out, a Telegram user reads a beginning of the reply
\* (ReplyHasNoGap) and an iOS user misses one for a known reason
\* (UnseenHasACause).
UnreadHasACause == ReplyHasNoGap /\ UnseenHasACause
=============================================================================
