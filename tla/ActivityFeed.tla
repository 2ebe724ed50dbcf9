---------------------------- MODULE ActivityFeed ----------------------------
(***************************************************************************)
(* What a phone sees of agents at work: the status updates of a todo       *)
(* agent's turn become activity events (channels/todo_channel.rs), each is *)
(* broadcast and saved by a task of its own, and the activity socket of a  *)
(* todo (todos/activity.rs) replays the saved events, subscribes and       *)
(* forwards what follows.  The run's log (logging/agent_logger.rs) is      *)
(* written when the agent shuts down and old log files are removed.        *)
(* Permits, todo states and the approval registry are TodoAgents' subject. *)
(***************************************************************************)
EXTENDS Integers, FiniteSets, Sequences, Sift

CONSTANTS
    FeedAgents,     \* the runs (job ids)
    TodoOf,         \* the todo each run works on
    Watched,        \* the todo whose socket is modelled
    Capacity,       \* capacity of the activity broadcast channel
    MAX_LOG_FILES,
    Scenarios       \* bounds: the runs there are, their tool calls, whether a
                    \* phone connects, saves in flight over more than one emit,
                    \* failed saves, crashes, user messages and lost connections

ASSUME ActivityFeedAssumption ==
    /\ \A s \in Scenarios : /\ s.runs \subseteq FeedAgents
                            /\ {s.tools, s.inflight, s.trouble} \subseteq Nat
                            /\ s.phone \in BOOLEAN
    /\ "none" \notin FeedAgents  \* the job of a message typed on the phone
    /\ Capacity \in Nat \ {0}
    /\ MAX_LOG_FILES \in Nat

VARIABLES
    agent,      \* each run: where its turn is, and what its channel keeps
    sent,       \* everything broadcast on activity_tx, in order
    saving,     \* save tasks under way: places in sent
    rows,       \* the table job_actions: places in sent, in the order saved
    sock,       \* the activity socket of the watched todo
    logs,       \* log files (named by the start of their run) and cleanups
    bound,      \* the scenario; its `trouble' counts down
    lost        \* events whose save failed or died, for the properties

feedVars == <<agent, sent, saving, rows, sock, logs, bound, lost>>

-----------------------------------------------------------------------------
(* Events.  `tool' numbers the run's tool calls, `text' says whether a     *)
(* ToolCompleted carries the tool's output.                                *)

TodoActivityMessage ==
    {"started", "thinking", "tool_completed", "reasoning", "agent_response", "completed", "failed",
     "transcript", "approval_needed", "approval_resolved", "user_message"}

\* A line of a transcript, by the role it is told in.
Roles == {"user", "system", "assistant", "tool_start", "tool_end", "tool_result"}

FeedEvent ==
    [type : TodoActivityMessage, job : FeedAgents \cup {"none"},
     todo : {TodoOf[a] : a \in FeedAgents} \cup {Watched}, tool : Nat, ok : BOOLEAN,
     text : BOOLEAN, messages : Seq(Roles)]

EventOf(type, job, todo) ==
    [type |-> type, job |-> job, todo |-> todo, tool |-> 0, ok |-> TRUE, text |-> TRUE,
     messages |-> <<>>]

Event(type, a) == EventOf(type, a, TodoOf[a])

ToolEvent(a, n, ok, text) ==
    [Event("tool_completed", a) EXCEPT !.tool = n, !.ok = ok, !.text = text]

NoEvent == [type |-> "none"]

-----------------------------------------------------------------------------
(* Broadcasting and saving.                                                *)

\* A bare send: started and approval_resolved are not saved.
Broadcast(events) ==
    /\ sent' = sent \o events
    /\ UNCHANGED saving

\* Bug for mutation testing: a tool event without output is broadcast, not saved.
EmitUnmerged(events) ==
    /\ saving = {} \/ Cardinality(saving) + Len(events) <= bound.inflight
    /\ sent' = sent \o events
    /\ saving' = saving \cup {i \in Len(sent) + 1 .. Len(sent) + Len(events) :
                                  events[i - Len(sent)].text}

\* Each event is broadcast, then a task is spawned that saves it.
emit(events) ==
    /\ saving = {} \/ Cardinality(saving) + Len(events) <= bound.inflight
    /\ sent' = sent \o events
    /\ saving' = saving \cup (Len(sent) + 1 .. Len(sent) + Len(events))

Disturb == bound.trouble > 0 /\ bound' = [bound EXCEPT !.trouble = @ - 1]

\* Row order is the order in which the tasks reach the table.
save_job_action(i, ok) ==
    /\ i \in saving
    /\ saving' = saving \ {i}
    /\ IF ok THEN rows' = Append(rows, i) /\ UNCHANGED <<lost, bound>>
             ELSE lost' = lost \cup {i} /\ Disturb /\ UNCHANGED rows
    /\ UNCHANGED <<agent, sent, sock, logs>>

-----------------------------------------------------------------------------
(* A run.  pc: "none", "started", "loop" (the model is asked), "call" (a   *)
(* tool is next), "running", "returned", "asking" (the approval card is    *)
(* out), "waiting" (for the answer), "ending", "closing", "ended", "dead". *)
(* answer: "none", "approved" or "rejected".  For the properties: `early'  *)
(* (the answer came while asking) and `ran' (the tool calls executed).     *)

NewRun(n) ==
    [pc |-> "none", started_at |-> 0, left |-> n, used |-> 0, pending_tool_completed |-> NoEvent,
     responded |-> FALSE, entries |-> <<>>, answer |-> "none", announced |-> TRUE,
     early |-> FALSE, ran |-> <<>>]

\* flush_pending_tool: the buffered event goes out before anything else.
Flushed(a) ==
    IF agent[a].pending_tool_completed = NoEvent THEN <<>>
    ELSE <<agent[a].pending_tool_completed>>

role(level) ==
    CASE level = "User" -> "user"
      [] level \in {"System", "LlmError", "Failed"} -> "system"
      [] level = "Response" -> "assistant"
      [] level = "ToolStart" -> "tool_start"
      [] level = "ToolEnd" -> "tool_end"
      [] level = "ToolResult" -> "tool_result"

transcript_messages(a) ==
    [i \in 1 .. Len(agent[a].entries) |-> role(agent[a].entries[i])]

\* The run goes to pc `to' and its logger takes the entries `es'.
Goes(r, to, es) == [r EXCEPT !.pc = to, !.entries = @ \o es]

AgentOnly == UNCHANGED <<rows, sock, bound, lost>>

spawn_todo_agent(a) ==
    /\ agent[a].pc = "none"
    /\ Broadcast(<<Event("started", a)>>)
    /\ agent' = [agent EXCEPT ![a].pc = "started", ![a].started_at = Len(sent) + 1]
    /\ UNCHANGED logs /\ AgentOnly

\* start() logs the prompt; the turn begins with Thinking("Processing...").
Begin(a) ==
    /\ agent[a].pc = "started"
    /\ emit(<<Event("reasoning", a)>>)
    /\ agent' = [agent EXCEPT ![a] = Goes(agent[a], "loop", <<"User", "System">>)]
    /\ UNCHANGED logs /\ AgentOnly

\* A message that asks to quit ends the run without a response.
Quit(a) ==
    /\ agent[a].pc = "started"
    /\ agent' = [agent EXCEPT ![a] = Goes(agent[a], "ending", <<"User">>)]
    /\ UNCHANGED <<sent, saving, logs>> /\ AgentOnly

\* The model answers with tool calls: Thinking(headlines).
Thinking(a) ==
    /\ agent[a].pc = "loop"
    /\ agent[a].left > 0
    /\ emit(Flushed(a) \o <<Event("reasoning", a)>>)
    /\ agent' = [agent EXCEPT ![a] = [Goes(agent[a], "call", <<"System">>) EXCEPT
                                         !.pending_tool_completed = NoEvent]]
    /\ UNCHANGED logs /\ AgentOnly

\* Bug for mutation testing: the buffer is not flushed, the next tool's
\* ToolCompleted overwrites it.
ToolStartedNoFlush(a) ==
    /\ agent[a].pc = "call" \/ (agent[a].pc = "waiting" /\ agent[a].answer = "approved")
    /\ agent' = [agent EXCEPT ![a] = [Goes(agent[a], "running", <<"ToolStart">>) EXCEPT
                                         !.used = @ + 1, !.left = @ - 1, !.answer = "none"]]
    /\ UNCHANGED <<sent, saving, logs>> /\ AgentOnly

\* A tool of the reply, or the tool that was approved.
ToolStarted(a) ==
    /\ agent[a].pc = "call" \/ (agent[a].pc = "waiting" /\ agent[a].answer = "approved")
    /\ emit(Flushed(a))
    /\ agent' = [agent EXCEPT ![a] = [Goes(agent[a], "running", <<"ToolStart">>) EXCEPT
                                         !.used = @ + 1, !.left = @ - 1, !.answer = "none",
                                         !.pending_tool_completed = NoEvent]]
    /\ UNCHANGED logs /\ AgentOnly

\* Buffered until its result comes.
ToolCompleted(a, ok) ==
    /\ agent[a].pc = "running"
    /\ agent' = [agent EXCEPT ![a] = [Goes(agent[a], "returned", <<"ToolEnd">>) EXCEPT
                     !.pending_tool_completed = ToolEvent(a, agent[a].used, ok, FALSE),
                     !.ran = Append(@, <<agent[a].used, ok>>)]]
    /\ UNCHANGED <<sent, saving, logs>> /\ AgentOnly

\* Only for a tool that succeeded with output: merged with the buffered event.
ToolResult(a) ==
    /\ agent[a].pc = "returned"
    /\ agent[a].pending_tool_completed # NoEvent
    /\ agent[a].pending_tool_completed.ok
    /\ emit(<<[agent[a].pending_tool_completed EXCEPT !.text = TRUE]>>)
    /\ agent' = [agent EXCEPT ![a] = [Goes(agent[a], "returned", <<"ToolResult">>) EXCEPT
                                         !.pending_tool_completed = NoEvent]]
    /\ UNCHANGED logs /\ AgentOnly

\* The next call of the same reply, or the model again.
NextCall(a) ==
    /\ agent[a].pc = "returned"
    /\ \/ agent[a].left > 0 /\ agent' = [agent EXCEPT ![a].pc = "call"]
       \/ agent' = [agent EXCEPT ![a].pc = "loop"]
    /\ UNCHANGED <<sent, saving, logs>> /\ AgentOnly

\* ApprovalNeeded: flush, push the card, register ...
ApprovalNeeded(a) ==
    /\ agent[a].pc = "call"
    /\ emit(Flushed(a))
    /\ agent' = [agent EXCEPT ![a] = [Goes(agent[a], "asking", <<"System">>) EXCEPT
                                         !.pending_tool_completed = NoEvent,
                                         !.answer = "none"]]
    /\ UNCHANGED logs /\ AgentOnly

\* ... and after the todo's status is written, the event.
ApprovalEmit(a) ==
    /\ agent[a].pc = "asking"
    /\ emit(<<Event("approval_needed", a)>>)
    /\ agent' = [agent EXCEPT ![a].pc = "waiting"]
    /\ UNCHANGED logs /\ AgentOnly

\* resolve_approval sends the answer to the run ...
ResolveSend(a, approved) ==
    /\ agent[a].pc \in {"asking", "waiting"}
    /\ agent[a].answer = "none"
    /\ agent[a].announced
    /\ agent' = [agent EXCEPT ![a].answer = IF approved THEN "approved" ELSE "rejected",
                              ![a].announced = FALSE,
                              ![a].early = @ \/ agent[a].pc = "asking"]
    /\ UNCHANGED <<sent, saving, logs>> /\ AgentOnly

\* ... and then broadcasts that it did.
ResolveAnnounce(a) ==
    /\ ~agent[a].announced
    /\ agent[a].pc # "dead"
    /\ Broadcast(<<Event("approval_resolved", a)>>)
    /\ agent' = [agent EXCEPT ![a].announced = TRUE]
    /\ UNCHANGED logs /\ AgentOnly

\* A text from the model, or the notice that the tool was rejected.
respond(a) ==
    /\ agent[a].pc = "loop" \/ (agent[a].pc = "waiting" /\ agent[a].answer = "rejected")
    /\ emit(<<Event("agent_response", a), Event("completed", a)>>)
    /\ agent' = [agent EXCEPT ![a] = [Goes(agent[a], "ending", <<"Response">>) EXCEPT
                                         !.responded = TRUE]]
    /\ UNCHANGED logs /\ AgentOnly

\* shutdown: the buffered event, Failed when there was no response ...
shutdown(a) ==
    /\ agent[a].pc = "ending"
    /\ emit(Flushed(a) \o (IF agent[a].responded THEN <<>> ELSE <<Event("failed", a)>>))
    /\ agent' = [agent EXCEPT ![a].pc = "closing",
                              ![a].pending_tool_completed = NoEvent]
    /\ UNCHANGED logs /\ AgentOnly

\* Bug for mutation testing: the transcript of a run that succeeded is sent too.
FlushAlwaysTells(a) ==
    /\ agent[a].pc = "closing"
    /\ emit(<<[Event("transcript", a) EXCEPT !.messages = transcript_messages(a)]>>)
    /\ logs' = [logs EXCEPT !.files = @ \cup {agent[a].started_at},
                            !.written = @ \cup {agent[a].started_at},
                            !.spawned = @ + 1]
    /\ agent' = [agent EXCEPT ![a].pc = "ended"]
    /\ AgentOnly

\* ... then the log file, a task that removes old ones, and the transcript
\* of a failed run.
flush(a) ==
    /\ agent[a].pc = "closing"
    /\ emit(IF agent[a].responded THEN <<>>
            ELSE <<[Event("transcript", a) EXCEPT !.messages = transcript_messages(a)]>>)
    /\ logs' = [logs EXCEPT !.files = @ \cup {agent[a].started_at},
                            !.written = @ \cup {agent[a].started_at},
                            !.spawned = @ + 1]
    /\ agent' = [agent EXCEPT ![a].pc = "ended"]
    /\ AgentOnly

-----------------------------------------------------------------------------
(* cleanup_logs: list the directory, then delete by name; names sort by    *)
(* the start of the run.                                                   *)

ToDelete(files) ==
    {x \in files : Cardinality({y \in files : y < x}) < Cardinality(files) - MAX_LOG_FILES}

\* Bug for mutation testing: the newest names are taken, not the oldest.
CleanupListNewest ==
    LET newest == {x \in logs.files : Cardinality({y \in logs.files : y > x})
                                         < Cardinality(logs.files) - MAX_LOG_FILES}
    IN  /\ logs.spawned > 0
        /\ logs' = [logs EXCEPT !.spawned = @ - 1, !.deleting = (@ \cup {newest}) \ {{}}]
        /\ UNCHANGED <<agent, sent, saving, rows, sock, bound, lost>>

CleanupList ==
    /\ logs.spawned > 0
    /\ logs' = [logs EXCEPT !.spawned = @ - 1,
                            !.deleting = (@ \cup {ToDelete(logs.files)}) \ {{}}]
    /\ UNCHANGED <<agent, sent, saving, rows, sock, bound, lost>>

CleanupDelete(names) ==
    /\ names \in logs.deleting
    /\ logs' = [logs EXCEPT !.files = @ \ names, !.deleting = @ \ {names}]
    /\ UNCHANGED <<agent, sent, saving, rows, sock, bound, lost>>

-----------------------------------------------------------------------------
(* The socket.  `at' is the length of sent when it subscribed, `pos' the   *)
(* last event taken from the channel; `racing' is, for the properties, the *)
(* events in flight when the history was read or sent before subscribing,  *)
(* `missed' the events a lagging client lost.                              *)

NoSock == [phase |-> "off", seen |-> <<>>, at |-> 0, pos |-> 0, racing |-> {}, missed |-> {}]

get_activity_for_todo(todo) == Sift(rows, {i \in DOMAIN sent : sent[i].todo = todo})

\* Replay of the saved events; when the table cannot be read, of none.
Connect(ok) ==
    /\ sock.phase = "off"
    /\ sock' = [NoSock EXCEPT !.phase = "replay",
                              !.seen = IF ok THEN get_activity_for_todo(Watched) ELSE <<>>,
                              !.at = Len(sent),
                              !.racing = saving]
    /\ IF ok THEN UNCHANGED <<bound, lost>>
             ELSE Disturb /\ lost' = lost \cup {rows[i] : i \in 1 .. Len(rows)}
    /\ UNCHANGED <<agent, sent, saving, rows, logs>>

\* Bug for mutation testing: the receiver was created before the history
\* was read.
SubscribedBefore ==
    /\ sock.phase = "replay"
    /\ sock' = [sock EXCEPT !.phase = "live", !.pos = sock.at]
    /\ UNCHANGED <<agent, sent, saving, rows, logs, bound, lost>>

Subscribe ==
    /\ sock.phase = "replay"
    /\ sock' = [sock EXCEPT !.phase = "live",
                            !.at = Len(sent),
                            !.pos = Len(sent),
                            !.racing = @ \cup (sock.at + 1 .. Len(sent))]
    /\ UNCHANGED <<agent, sent, saving, rows, logs, bound, lost>>

\* Of other todos' events only "started" is held back.
relevant(e) == e.type = "started" => e.todo = Watched

Receive ==
    /\ sock.phase = "live"
    /\ sock.pos < Len(sent)
    /\ Len(sent) - sock.pos <= Capacity
    /\ sock' = [sock EXCEPT !.pos = @ + 1,
                            !.seen = IF relevant(sent[sock.pos + 1])
                                     THEN Append(@, sock.pos + 1) ELSE @]
    /\ UNCHANGED <<agent, sent, saving, rows, logs, bound, lost>>

\* RecvError::Lagged: the receiver continues with the oldest event kept.
Lagged ==
    /\ sock.phase = "live"
    /\ Len(sent) - sock.pos > Capacity
    /\ sock' = [sock EXCEPT !.pos = Len(sent) - Capacity,
                            !.missed = @ \cup (sock.pos + 1 .. Len(sent) - Capacity)]
    /\ UNCHANGED <<agent, sent, saving, rows, logs, bound, lost>>

\* A follow-up typed on the phone; the agent it asks for is TodoAgents' subject.
UserMessage ==
    /\ sock.phase = "live"
    /\ Disturb
    /\ emit(<<EventOf("user_message", "none", Watched)>>)
    /\ UNCHANGED <<agent, rows, sock, logs, lost>>

Disconnect ==
    /\ sock.phase \in {"replay", "live"}
    /\ Disturb
    /\ sock' = NoSock
    /\ UNCHANGED <<agent, sent, saving, rows, logs, lost>>

\* The process dies: runs, save tasks, cleanups and connections with it.
FeedCrash ==
    /\ \E a \in DOMAIN agent : agent[a].pc \notin {"none", "dead"}
    /\ Disturb
    /\ agent' = [a \in DOMAIN agent |->
                    IF agent[a].pc = "none" THEN agent[a] ELSE [agent[a] EXCEPT !.pc = "dead"]]
    /\ saving' = {}
    /\ lost' = lost \cup saving
    /\ sock' = IF sock.phase = "absent" THEN sock ELSE NoSock
    /\ logs' = [logs EXCEPT !.spawned = 0, !.deleting = {}]
    /\ UNCHANGED <<sent, rows>>

FeedStart(s) ==
    /\ agent = [a \in s.runs |-> NewRun(s.tools)]
    /\ sock = IF s.phone THEN NoSock ELSE [NoSock EXCEPT !.phase = "absent"]
    /\ bound = s
    /\ sent = <<>>
    /\ saving = {}
    /\ rows = <<>>
    /\ logs = [files |-> {}, written |-> {}, spawned |-> 0, deleting |-> {}]
    /\ lost = {}

FeedInit == \E s \in Scenarios : FeedStart(s)

RunStep(a) ==
    \/ spawn_todo_agent(a)
    \/ Begin(a)
    \/ Quit(a)
    \/ Thinking(a)
    \/ ToolStarted(a)
    \/ \E ok \in BOOLEAN : ToolCompleted(a, ok) \/ ResolveSend(a, ok)
    \/ ToolResult(a)
    \/ NextCall(a)
    \/ ApprovalNeeded(a)
    \/ ApprovalEmit(a)
    \/ ResolveAnnounce(a)
    \/ respond(a)
    \/ shutdown(a)
    \/ flush(a)

FeedNext ==
    \/ \E a \in DOMAIN agent : RunStep(a)
    \/ \E i \in saving, ok \in BOOLEAN : save_job_action(i, ok)
    \/ CleanupList
    \/ \E names \in logs.deleting : CleanupDelete(names)
    \/ \E ok \in BOOLEAN : Connect(ok)
    \/ Subscribe
    \/ Receive
    \/ Lagged
    \/ UserMessage
    \/ Disconnect
    \/ FeedCrash

FeedSpec == FeedInit /\ [][FeedNext]_feedVars

-----------------------------------------------------------------------------
(* Properties.                                                             *)

\* One connection never shows an event twice, although the history is read
\* and the subscription made at different times, and everything that comes
\* live is newer than all that was replayed and comes in the order sent.
ShownOnceInOrder ==
    sock.phase = "live" =>
        \A i, j \in 1 .. Len(sock.seen) :
            i < j => /\ sock.seen[i] # sock.seen[j]
                     /\ sock.seen[i] > sock.seen[j] => sock.seen[i] <= sock.at

\* An event of the watched todo that a connection has passed over and not
\* shown was never saved by design (started, approval_resolved), was in
\* flight while the connection was being set up, lost its save, or was
\* dropped because the client lagged.
MissedHasACause ==
    sock.phase = "live" =>
        \A i \in 1 .. sock.pos :
            (/\ sent[i].todo = Watched
             /\ \A j \in 1 .. Len(sock.seen) : sock.seen[j] # i)
            => \/ i <= sock.at /\ sent[i].type \in {"started", "approval_resolved"}
               \/ i \in sock.racing \cup lost \cup sock.missed

\* What a phone is shown of the watched todo is the feed, once and in order
\* (ShownOnceInOrder), and gaps have a known reason (MissedHasACause).
PhoneShowsTheFeed == ShownOnceInOrder /\ MissedHasACause

OfJob(s, a) == {i \in DOMAIN s : s[i].job = a}
Place(s, a, type) == {i \in OfJob(s, a) : s[i].type = type}
End(s, a) == Place(s, a, "completed") \cup Place(s, a, "failed")

\* What may come when a run has said completed or failed.
MayFollow(e, end) ==
    \/ e.type = "approval_resolved"
    \/ e.type = "tool_completed" /\ ~e.text
    \/ e.type = "transcript" /\ end.type = "failed"

\* The feed of a run reads in order: it starts with started; once it has
\* said completed or failed, only the transcript of a failed run, a late
\* approval_resolved and the event of a tool without output may follow; an
\* approval is not resolved before it is announced unless the user answered
\* the card before the event went out.
RunReadsInOrder ==
    \A a \in DOMAIN agent :
        /\ \A i \in OfJob(sent, a) : \E j \in Place(sent, a, "started") : j <= i
        /\ Cardinality(End(sent, a)) <= 1
        /\ \A i \in End(sent, a), j \in OfJob(sent, a) : i < j => MayFollow(sent[j], sent[i])
        /\ ~agent[a].early =>
              \A j \in Place(sent, a, "approval_resolved") :
                  Cardinality({i \in Place(sent, a, "approval_needed") : i < j})
                    >= Cardinality({i \in Place(sent, a, "approval_resolved") : i <= j})

ToolEvents(s, a) == Sift(s, {e \in FeedEvent : e.job = a /\ e.type = "tool_completed"})

\* When a run has ended, the feed holds one tool event for every tool call
\* it executed, in order and with its outcome, however the two status
\* updates of a call were buffered and merged; and the transcript of a run
\* that failed names every one of them.
ToolEventsMatchTools ==
    \A a \in DOMAIN agent :
        agent[a].pc = "ended" =>
            LET tools == ToolEvents(sent, a)
            IN  /\ [i \in DOMAIN tools |-> <<tools[i].tool, tools[i].ok>>] = agent[a].ran
                /\ \A i \in Place(sent, a, "transcript") :
                     Cardinality({k \in DOMAIN sent[i].messages :
                                     sent[i].messages[k] = "tool_end"}) = Len(agent[a].ran)

\* Whatever cleanups overlap, the log files of the newest MAX_LOG_FILES runs
\* among those written are on disk; "newest" goes by the start of the run,
\* so a long run's log may be removed as soon as it is written.
NewestLogsKept ==
    logs.written \ ToDelete(logs.written) \subseteq logs.files

\* Only events there are go out, and rows point to what was sent.
FeedTypeOK ==
    /\ \A i \in DOMAIN sent : sent[i].type \in TodoActivityMessage
    /\ \A k \in DOMAIN rows : rows[k] \in DOMAIN sent
    /\ saving \subseteq DOMAIN sent /\ lost \subseteq DOMAIN sent

\* The feed and the logs tell what a run did: in order (RunReadsInOrder), tool
\* by tool (ToolEventsMatchTools), and on disk afterwards (NewestLogsKept).
FeedTellsTheRun == FeedTypeOK /\ RunReadsInOrder /\ ToolEventsMatchTools /\ NewestLogsKept

=============================================================================
