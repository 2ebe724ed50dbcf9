------------------------------ MODULE ChatLog ------------------------------
(***************************************************************************)
(* Texts typed in a chat, the conversation rows they leave and how the     *)
(* rows are read back: agent/submission.rs (what a text asks for),         *)
(* handle_system_command, the persistence tasks of agent_loop.rs, the      *)
(* history of channels/ios.rs and the pages of store/libsql_backend.rs.    *)
(* Thread states, undo and hydration are AgentThreads' subject.            *)
(*                                                                         *)
(* A text is the sequence of its words in lower case.  A time is a pair of *)
(* a day and a second of the day.                                          *)
(***************************************************************************)
EXTENDS Integers, FiniteSets, Sequences, SequencesExt

CONSTANTS
    ThreadIds,  \* words that parse as a UUID
    PageLimit,  \* `limit' of a page and of the history
    Sittings    \* bounds: the texts typed, how many, and steps of the clock

ASSUME ChatLogAssumption ==
    /\ PageLimit \in Nat \ {0}
    /\ \A s \in Sittings : DOMAIN s = {"texts", "inputs", "ticks"} /\ {s.inputs, s.ticks} \subseteq Nat

VARIABLES
    typed,      \* texts typed so far, with what became of them
    persisting, \* persist_turn tasks under way
    convo,      \* the rows of conversation_messages
    clock,      \* the time: a pair <<day, second>>
    walk,       \* a client reading page after page
    sitting     \* the bounds; `inputs' and `ticks' count down

chatVars == <<typed, persisting, convo, clock, walk, sitting>>

-----------------------------------------------------------------------------
(* What a text asks for.                                                   *)

Submission ==
    {"UserInput", "ExecApproval", "ApprovalResponse", "Interrupt", "Compact", "Undo",
     "Redo", "Resume", "Clear", "SwitchThread", "NewThread", "Heartbeat", "Summarize",
     "Suggest", "Quit", "SystemCommand"}

\* NeedApproval, with nothing gated here, and Interrupted do not occur.
SubmissionResult == {"response", "error", "ok"}

SystemCommands == {<<"/help">>, <<"/version">>, <<"/tools">>, <<"/ping">>, <<"/debug">>}

ControlOf(w) ==
    CASE w = <<"/undo">> -> "Undo"
      [] w = <<"/redo">> -> "Redo"
      [] w \in {<<"/interrupt">>, <<"/stop">>} -> "Interrupt"
      [] w = <<"/compact">> -> "Compact"
      [] w = <<"/clear">> -> "Clear"
      [] w = <<"/heartbeat">> -> "Heartbeat"
      [] w \in {<<"/summarize">>, <<"/summary">>} -> "Summarize"
      [] w = <<"/suggest">> -> "Suggest"
      [] w \in {<<"/thread", "new">>, <<"/new">>} -> "NewThread"
      [] w \in SystemCommands -> "SystemCommand"
      [] w \in {<<"/quit">>, <<"/exit">>, <<"/shutdown">>} -> "Quit"
      [] OTHER -> "none"

ApprovalWords ==
    {<<"yes">>, <<"y">>, <<"approve">>, <<"ok">>, <<"always">>, <<"yes", "always">>,
     <<"no">>, <<"n">>, <<"deny">>, <<"reject">>, <<"cancel">>}

\* Everything that begins with "/model", "/models" too.
parse_model_command(w) == w[1] \in {"/model", "/models"}

\* Bug for mutation testing: only "new" is understood after /thread.
ThreadNewOnly(w) == FALSE

parse_thread_switch(w) == Len(w) = 2 /\ w[1] = "/thread" /\ w[2] \in ThreadIds

parse_resume(w) == Len(w) = 2 /\ w[1] = "/resume" /\ w[2] \in ThreadIds

parse_json_approval(w) == w = <<"{exec_approval}">>

parse_complex(w) ==
    IF parse_model_command(w) THEN "SystemCommand"
    ELSE IF parse_thread_switch(w) THEN "SwitchThread"
    ELSE IF parse_resume(w) THEN "Resume"
    ELSE IF parse_json_approval(w) THEN "ExecApproval"
    ELSE "UserInput"

parse(w) ==
    IF ControlOf(w) # "none" THEN ControlOf(w)
    ELSE IF w \in ApprovalWords THEN "ApprovalResponse"
    ELSE parse_complex(w)

\* rig providers list no models and refuse to switch: "/model x" is an error.
handle_system_command(w) ==
    IF w[1] \in {"/model", "/models"}
    THEN IF Len(w) = 1 THEN "response" ELSE "error"
    ELSE IF w = <<"/debug">> THEN "ok" ELSE "response"

starts_turn(sub) == sub = "UserInput"

-----------------------------------------------------------------------------
(* Writing.  A turn is persisted by a task of its own: the conversation    *)
(* row and the user's text, then the answer if there is one.               *)

ChatStart(s) ==
    /\ sitting = s
    /\ typed = <<>>
    /\ persisting = {}
    /\ convo = <<>>
    /\ clock = <<0, 0>>
    /\ walk = [on |-> FALSE]

ChatInit == \E s \in Sittings : ChatStart(s)

\* An approval word with nothing to approve is an error; whatever starts a
\* turn is answered (or fails) and persisted.
Submit(w, answered) ==
    /\ sitting.inputs > 0
    /\ sitting' = [sitting EXCEPT !.inputs = @ - 1]
    /\ LET sub == parse(w)
           result == CASE starts_turn(sub) -> IF answered THEN "response" ELSE "error"
                       [] sub = "SystemCommand" -> handle_system_command(w)
                       [] sub \in {"ApprovalResponse", "ExecApproval"} -> "error"
                       [] OTHER -> "ok"
       IN  /\ answered \/ starts_turn(sub)
           /\ typed' = Append(typed, [text |-> w, sub |-> sub, result |-> result])
           /\ persisting' = IF starts_turn(sub)
                            THEN persisting \cup {[turn |-> Len(typed) + 1, next |-> "user",
                                                   answered |-> answered]}
                            ELSE persisting
    /\ UNCHANGED <<convo, clock, walk>>

\* created_at is SQLite's datetime('now'): whole seconds.
add_conversation_message(t, who) ==
    convo' = Append(convo, [turn |-> t.turn, role |-> who, at |-> clock])

PersistUserText(t) ==
    /\ t.next = "user"
    /\ add_conversation_message(t, "user")
    /\ persisting' = (persisting \ {t}) \cup (IF t.answered THEN {[t EXCEPT !.next = "assistant"]}
                                            ELSE {})
    /\ UNCHANGED <<typed, clock, walk, sitting>>

PersistAnswer(t) ==
    /\ t.next = "assistant"
    /\ add_conversation_message(t, "assistant")
    /\ persisting' = persisting \ {t}
    /\ UNCHANGED <<typed, clock, walk, sitting>>

\* A failing statement ends the task.
PersistFails(t) ==
    /\ t \in persisting
    /\ persisting' = persisting \ {t}
    /\ UNCHANGED <<typed, convo, clock, walk, sitting>>

Tick(newday) ==
    /\ sitting.ticks > 0
    /\ sitting' = [sitting EXCEPT !.ticks = @ - 1]
    /\ clock' = IF newday THEN <<clock[1] + 1, 0>> ELSE <<clock[1], clock[2] + 1>>
    /\ UNCHANGED <<typed, persisting, convo, walk>>

-----------------------------------------------------------------------------
(* Reading.  Rows are named by their place in convo.                       *)

Rows == 1 .. Len(convo)

Later(t, u) == t[1] > u[1] \/ (t[1] = u[1] /\ t[2] > u[2])

\* What "ORDER BY created_at ASC" may return of the rows S: all of them, none
\* before an older one.  SQL leaves open how rows of one second come.
Ascending(S) ==
    {q \in [1 .. Cardinality(S) -> S] :
        /\ \A i \in S : \E k \in DOMAIN q : q[k] = i
        /\ \A k, l \in DOMAIN q : k < l => ~Later(convo[q[k]].at, convo[q[l]].at)}

Descending(S) == {Reverse(q) : q \in Ascending(S)}

First(q, n) == SubSeq(q, 1, IF Len(q) < n THEN Len(q) ELSE n)

list_conversation_messages == Ascending(Rows)

\* The tail of all rows.
history_handler(all) ==
    LET start == IF Len(all) > PageLimit THEN Len(all) - PageLimit ELSE 0
    IN  [messages |-> SubSeq(all, start + 1, Len(all)), has_more |-> Len(all) > PageLimit]

NoTime == <<0 - 1, 0>>

\* `before' is formatted with a "T" between day and time, created_at has a
\* space there: as texts, every row of before's day is smaller.
TextLess(at, before) == at[1] <= before[1]

RowsBefore(before) == {i \in Rows : before = NoTime \/ TextLess(convo[i].at, before)}

\* Bug for mutation testing: the extra row that tells whether there is more
\* is not fetched.
PageWithoutExtra(before) ==
    {[messages |-> Reverse(First(q, PageLimit)), has_more |-> FALSE] :
        q \in Descending(RowsBefore(before))}

\* Bug for mutation testing: the rows stay in the order they were fetched in.
PageBackwards(before) ==
    {LET all == First(q, PageLimit + 1)
     IN  [messages |-> First(all, PageLimit), has_more |-> Len(all) > PageLimit] :
        q \in Descending(RowsBefore(before))}

\* The pages the statement may give: "DESC LIMIT" with one row to spare,
\* truncated and reversed.
list_conversation_messages_paginated(before) ==
    {LET all == First(q, PageLimit + 1)
     IN  [messages |-> Reverse(First(all, PageLimit)), has_more |-> Len(all) > PageLimit] :
        q \in Descending(RowsBefore(before))}

NoHistory == [messages |-> <<>>, has_more |-> FALSE]

\* `there' is, for the properties, what there was when the walk began, `again'
\* the rows that an earlier page showed too, and `history' what the history
\* endpoint gave at the time of the first page.
FirstPage ==
    /\ ~walk.on
    /\ convo # <<>>
    /\ \E all \in list_conversation_messages, page \in list_conversation_messages_paginated(NoTime) :
          walk' = [on |-> TRUE, there |-> Rows, page |-> page, before |-> NoTime,
                   shown |-> ToSet(page.messages), again |-> {},
                   history |-> history_handler(all)]
    /\ UNCHANGED <<typed, persisting, convo, clock, sitting>>

\* The client asks for what is before the first row it was just given.
NextPage ==
    /\ walk.on
    /\ walk.page.has_more
    /\ LET before == convo[walk.page.messages[1]].at
       IN  \E page \in list_conversation_messages_paginated(before) :
             walk' = [walk EXCEPT !.page = page, !.before = before,
                                  !.shown = @ \cup ToSet(page.messages),
                                  !.again = walk.shown \cap ToSet(page.messages),
                                  !.history = NoHistory]
    /\ UNCHANGED <<typed, persisting, convo, clock, sitting>>

ChatNext ==
    \/ \E w \in sitting.texts, answered \in BOOLEAN : Submit(w, answered)
    \/ \E t \in persisting : PersistUserText(t) \/ PersistAnswer(t) \/ PersistFails(t)
    \/ \E newday \in BOOLEAN : Tick(newday)
    \/ FirstPage
    \/ NextPage

ChatSpec == ChatInit /\ [][ChatNext]_chatVars

-----------------------------------------------------------------------------
(* Properties.                                                             *)

\* Rows are shown in the order they were stored in, but for rows of one
\* second: then, and only then, an answer may stand before its question.
InOrder(q) ==
    \A k, l \in DOMAIN q : k < l => q[k] < q[l] \/ convo[q[k]].at = convo[q[l]].at

\* The same times from top to bottom: where a second has one row it is the
\* same row, where it has more the two may show different ones.
SameButForTies(page, history) ==
    /\ page.has_more = history.has_more
    /\ Len(page.messages) = Len(history.messages)
    /\ \A k \in 1 .. Len(page.messages) :
         convo[page.messages[k]].at = convo[history.messages[k]].at

\* Reading page after page until there is no more has shown every row there
\* was at the start, though every page breaks ties anew; a page repeats rows
\* only from the day of its `before'; it is ordered as the log is, ties aside,
\* and the first page and the tail of the history, which come from statements
\* of opposite orders, tell the same times and whether there is more.
PagesSkipNothing ==
    walk.on => /\ ~walk.page.has_more => walk.there \subseteq walk.shown
               /\ \A i \in walk.again : convo[i].at[1] = walk.before[1]
               /\ InOrder(walk.page.messages) /\ InOrder(walk.history.messages)
               /\ walk.before = NoTime => SameButForTies(walk.page, walk.history)

\* The commands /help lists, with well-formed arguments.
Advertised(w) ==
    \/ w \in {<<"/help">>, <<"/version">>, <<"/tools">>, <<"/debug">>, <<"/ping">>, <<"/undo">>,
              <<"/redo">>, <<"/compact">>, <<"/clear">>, <<"/interrupt">>, <<"/new">>,
              <<"/summarize">>, <<"/suggest">>, <<"/quit">>}
    \/ w[1] = "/model"
    \/ Len(w) = 2 /\ w[1] \in {"/thread", "/resume"} /\ w[2] \in ThreadIds

\* The conversation holds what was said to the model and its answers: no
\* command that /help lists and no approval word is ever stored as chat, and
\* an answer always has its question in front of it, however the tasks of
\* different turns overlap.
LogHoldsChatOnly ==
    \A i \in Rows :
        LET w == typed[convo[i].turn].text
        IN  /\ ~Advertised(w)
            /\ w \notin ApprovalWords
            /\ convo[i].role = "assistant" =>
                 \E j \in 1 .. i - 1 : convo[j].turn = convo[i].turn /\ convo[j].role = "user"

\* Every text is some submission, and rows belong to texts that were typed.
ChatTypeOK ==
    /\ \A i \in DOMAIN typed : /\ typed[i].sub \in Submission
                                /\ typed[i].result \in SubmissionResult
    /\ \A i \in DOMAIN convo : convo[i].turn \in DOMAIN typed

\* The log holds the chat and nothing else (LogHoldsChatOnly), and a client
\* that pages through it sees all of it (PagesSkipNothing).
LogReadsBack == ChatTypeOK /\ LogHoldsChatOnly /\ PagesSkipNothing

=============================================================================
