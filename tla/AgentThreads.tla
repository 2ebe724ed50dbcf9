---------------------------- MODULE AgentThreads ----------------------------
(***************************************************************************)
(* The conversations of one user: the session manager, the threads with    *)
(* their turns and undo history, the main loop of the agent that handles   *)
(* one message at a time, the fire-and-forget tasks that write turns to    *)
(* the database, and the task that prunes stale sessions.                  *)
(*                                                                         *)
(* A step of the handler is the code between two points where the pruner   *)
(* or a writer can change what it looks at; threads are changed by nobody  *)
(* but the handler.  A message is its role and the number of the input it  *)
(* belongs to; an answer carries the number of the input it answers.       *)
(***************************************************************************)
EXTENDS Naturals, Sequences, FiniteSets, SequencesExt, Sift

CONSTANTS
    Ext,            \* thread ids as clients send them, one per chat window
    Parse,          \* Uuid::parse_str of each, or NoThread
    Canon,          \* to_string of that Uuid (of no use when NoThread)
    Fresh,          \* ids Uuid::new_v4 hands out
    Sess,           \* Arcs of sessions: one in the map, one with the handler
    Calls, Gated, Explicit,     \* tool calls; requires_approval; and
    ToolOf,                     \*   requires_explicit_approval; their tools
    Batches,        \* the lists of calls the model answers with
    Keeps,          \* keep_recent of the compaction strategies
    MaxCheckpoints, MaxIter, NudgeBefore,
    MaxInputs, MaxReqs, MaxRedo, Budget,    \* bounds
    NoThread, NoSess, NoExt, NoCall

Thr    == Fresh \cup ({Parse[e] : e \in Ext} \ {NoThread})
Keys   == Ext \cup {Canon[e] : e \in Ext}
Inputs == 1..MaxInputs
Reqs   == 1..MaxReqs

ASSUME ExtAssumption ==
    /\ Parse \in [Ext -> Thr \cup {NoThread}]
    /\ \A e \in Ext : Parse[e] \notin Fresh
    /\ \A e \in Ext : Canon[e] \in Ext /\ Parse[e] # NoThread => Parse[Canon[e]] = Parse[e]
    /\ \A d, e \in Ext : Parse[d] # NoThread /\ Parse[e] # NoThread =>
                             (Canon[d] = Canon[e] <=> Parse[d] = Parse[e])
    /\ NoThread \notin Thr /\ NoSess \notin Sess /\ NoExt \notin Ext
    /\ Sess # {} /\ \A s \in Sess : \E r \in Sess : r # s
ASSUME CallAssumption ==
    /\ Explicit \subseteq Gated /\ Gated \subseteq Calls
    /\ Batches \subseteq Seq(Calls) \ {<<>>}
ASSUME BoundAssumption ==
    /\ MaxCheckpoints \in Nat /\ MaxIter \in Nat /\ NudgeBefore \in Nat
    /\ MaxInputs \in Nat /\ MaxReqs \in Nat /\ MaxRedo \in Nat
    /\ Keeps \subseteq Nat \ {0} /\ Budget \in Nat

VARIABLES
    cur,        \* SessionManager::sessions: the user's session, or NoSess
    ses,        \* what each session holds
    map,        \* SessionManager::thread_map
    undo,       \* SessionManager::undo_managers; none is an empty one
    db,         \* conversation_messages of each thread, by created_at
    tasks,      \* persist_turn's task of each input
    h,          \* the main loop: the message in hand and its locals
    p,          \* the pruner
    nin, nreq,  \* inputs and approval requests so far
    spent       \* prunes, restarts and failing statements so far
VARIABLES       \* history
    revoked,    \* requests the user denied, interrupted, undid or cleared
    ran,        \* requests whose tool ran
    shown,      \* the prompt a chat window shows and can still answer
    due,        \* windows and the inputs answered in one go, in memory, whose rows
                \*   no failing statement or crash has kept from the database
    overlap,    \* threads of which two writers were at work at once
    raced       \* a prune overlapped with a message of the user

memory  == <<cur, ses, map, undo>>
counts  == <<nin, nreq>>
asked   == <<revoked, ran, shown>>
history == <<asked, due, overlap, raced>>
vars == <<memory, db, tasks, h, p, counts, spent, history>>

ThreadState == {"Idle", "Processing", "AwaitingApproval", "Interrupted"}

-----------------------------------------------------------------------------
(* Threads, turns and messages *)

NoReq  == [id |-> 0, in |-> 0, call |-> NoCall]
NewThread  == [st |-> "Idle", turns |-> <<>>, pend |-> NoReq]
NewSession == [there |-> {}, th |-> [t \in Thr |-> NewThread],
               auto |-> {}, stale |-> FALSE]
NoTask == [pc |-> "none", t |-> NoThread, resp |-> FALSE]
NewUndo == [u |-> <<>>, r |-> <<>>]
Waiting == [pc |-> "idle", ext |-> NoExt, s |-> NoSess, t |-> NoThread,
            hist |-> <<>>, in |-> 0, save |-> FALSE, calls |-> <<>>, iter |-> 0,
            texec |-> FALSE]

User(i)      == [role |-> "user", n |-> i]
Assistant(i) == [role |-> "assistant", n |-> i]

\* Thread::messages
messages(turns) ==
    FlattenSeq([k \in DOMAIN turns |->
        IF turns[k].out = 0 THEN <<User(turns[k].in)>>
        ELSE <<User(turns[k].in), Assistant(turns[k].out)>>])

\* Mutant: an unanswered turn is given the next answer there is.
restore_from_messages_Any(m) ==
    LET users == SelectSeq([k \in DOMAIN m |-> k], LAMBDA k : m[k].role = "user")
        later(k) == SelectSeq(SubSeq(m, k, Len(m)), LAMBDA x : x.role = "assistant")
    IN  [j \in DOMAIN users |-> [in |-> m[users[j]].n,
            out |-> IF later(users[j]) = <<>> THEN 0 ELSE Head(later(users[j])).n]]

\* Thread::restore_from_messages: a turn per user message, completed by the
\* assistant message that follows it, if one does.
restore_from_messages(m) ==
    LET users == Sift([k \in DOMAIN m |-> k], {k \in DOMAIN m : m[k].role = "user"})
        answer(k) == IF k < Len(m) /\ m[k + 1].role = "assistant" THEN m[k + 1].n ELSE 0
    IN  [j \in DOMAIN users |-> [in |-> m[users[j]].n, out |-> answer(users[j])]]

\* What a thread becomes; a turn is answered, open or failed by its `out'.
start_turn(th, i) == [th EXCEPT !.st = "Processing", !.turns = Append(@, [in |-> i, out |-> 0])]
complete_turn(th, i) ==
    [th EXCEPT !.st = "Idle", !.turns = IF @ = <<>> THEN @ ELSE [@ EXCEPT ![Len(@)].out = i]]
fail_turn(th) == [th EXCEPT !.st = "Idle"]
await_approval(th, q) == [th EXCEPT !.st = "AwaitingApproval", !.pend = q]
clear_pending_approval(th) == [th EXCEPT !.st = "Idle", !.pend = NoReq]
interrupt(th) == [th EXCEPT !.st = "Interrupted"]

truncate_turns(turns, keep) ==
    IF Len(turns) > keep THEN SubSeq(turns, Len(turns) - keep + 1, Len(turns)) ELSE turns

\* ContextCompactor::compact with the strategy the context size calls for; a
\* summary that fails leaves the thread as it is.
Compacted(turns) == {turns} \cup {truncate_turns(turns, k) : k \in Keeps}

Checkpoint_KeepRedo(mgr, m) ==
    LET all == Append(mgr.u, m)
    IN  [u |-> IF Len(all) > MaxCheckpoints THEN Tail(all) ELSE all, r |-> mgr.r]

\* UndoManager::checkpoint
Checkpoint(mgr, m) ==
    LET all == Append(mgr.u, m)
    IN  [u |-> IF Len(all) > MaxCheckpoints THEN Tail(all) ELSE all, r |-> <<>>]

\* UndoManager::undo, redo and restore: undo leaves the checkpoint on the stack.
Undone(mgr, m) == [mgr EXCEPT !.r = Append(@, m)]
Redone(mgr) == [mgr EXCEPT !.r = Front(@)]
RestoredTo(mgr, j) == [u |-> SubSeq(mgr.u, 1, j - 1), r |-> <<>>]

Spend == spent < Budget /\ spent' = spent + 1

-----------------------------------------------------------------------------
(* The session manager *)

\* Ids new_v4 may still return: whatever has been seen somewhere is taken.
Unused == Fresh \ ((UNION {ses[s].there : s \in Sess}) \cup {map[k] : k \in Keys}
                   \cup {t \in Thr : db[t] # <<>> \/ undo[t] # NewUndo}
                   \cup {tasks[i].t : i \in Inputs} \cup p.thr \cup {h.t})
NewId == CHOOSE f \in Unused : TRUE

\* get_or_create_session: the id, and the sessions with it in place.
SessId == IF cur # NoSess THEN cur ELSE CHOOSE s \in Sess : s # h.s
SesWith == IF cur # NoSess THEN ses ELSE [ses EXCEPT ![SessId] = NewSession]

\* Session::create_thread.  It also sets active_thread, which no handler reads.
create_thread(sn, t) == [sn EXCEPT !.there = @ \cup {t}, !.th[t] = NewThread, !.stale = FALSE]

switch_thread(sn) == [sn EXCEPT !.stale = FALSE]

Go(pc) == h' = [h EXCEPT !.pc = pc]

Init ==
    /\ cur = NoSess /\ ses = [s \in Sess |-> NewSession]
    /\ map = [k \in Keys |-> NoThread] /\ undo = [t \in Thr |-> NewUndo]
    /\ db = [t \in Thr |-> <<>>] /\ tasks = [i \in Inputs |-> NoTask]
    /\ h = Waiting /\ p = [pc |-> "idle", thr |-> {}]
    /\ nin = 0 /\ nreq = 0 /\ spent = 0
    /\ revoked = {} /\ ran = {} /\ shown = [e \in Ext |-> 0]
    /\ due = {} /\ overlap = {} /\ raced = FALSE

-----------------------------------------------------------------------------
(* A message arrives, its thread is hydrated and resolved.  What the message *)
(* asks for is only looked at once that is done.                             *)

Receive(e) ==
    /\ h.pc = "idle" /\ Unused # {}
    /\ p.pc = "idle" \/ ~raced
    /\ h' = [Waiting EXCEPT !.pc = IF Parse[e] = NoThread THEN "resolve" ELSE "hydrate", !.ext = e]
    /\ raced' = (raced \/ p.pc # "idle")
    /\ UNCHANGED <<memory, db, tasks, p, counts, spent, asked, due, overlap>>

\* maybe_hydrate_thread, up to the query; a failing query counts as no history.
HydrateRead(ok) ==
    /\ h.pc = "hydrate"
    /\ cur' = SessId /\ ses' = SesWith
    /\ \/ /\ ok /\ Parse[h.ext] \in SesWith[SessId].there
          /\ h' = [h EXCEPT !.pc = "resolve", !.s = SessId] /\ UNCHANGED spent
       \/ /\ Parse[h.ext] \notin SesWith[SessId].there
          /\ h' = [h EXCEPT !.pc = "insert", !.s = SessId,
                            !.hist = IF ok THEN db[Parse[h.ext]] ELSE <<>>]
          /\ IF ok THEN UNCHANGED spent ELSE Spend
    /\ UNCHANGED <<map, undo, db, tasks, p, counts, history>>

HydrateInsert ==
    /\ h.pc = "insert"
    /\ LET t == Parse[h.ext] IN
       ses' = [ses EXCEPT ![h.s] = [create_thread(@, t) EXCEPT
                                        !.th[t].turns = restore_from_messages(h.hist)]]
    /\ h' = [h EXCEPT !.pc = "regmap", !.hist = <<>>]
    /\ UNCHANGED <<cur, map, undo, db, tasks, p, counts, spent, history>>

\* register_thread: the key holds the thread id in its canonical form.
RegisterMap ==
    /\ h.pc = "regmap" /\ Go("regsess")
    /\ map' = [map EXCEPT ![Canon[h.ext]] = Parse[h.ext]]
    /\ UNCHANGED <<cur, ses, undo, db, tasks, p, counts, spent, history>>

RegisterSession ==
    /\ h.pc = "regsess" /\ Go("resolve")
    /\ cur' = IF cur = NoSess THEN h.s ELSE cur
    /\ UNCHANGED <<ses, map, undo, db, tasks, p, counts, spent, history>>

ResolveSession ==
    /\ h.pc = "resolve"
    /\ cur' = SessId /\ ses' = SesWith
    /\ h' = [h EXCEPT !.pc = "find", !.s = SessId]
    /\ UNCHANGED <<map, undo, db, tasks, p, counts, spent, history>>

ResolveFind ==
    /\ h.pc = "find"
    /\ IF map[h.ext] \in ses[h.s].there
       THEN /\ h' = [h EXCEPT !.pc = "dispatch", !.t = map[h.ext]]
            /\ UNCHANGED ses
       ELSE /\ Unused # {}
            /\ h' = [h EXCEPT !.pc = "mapthread", !.t = NewId]
            /\ ses' = [ses EXCEPT ![h.s] = create_thread(@, NewId)]
    /\ UNCHANGED <<cur, map, undo, db, tasks, p, counts, spent, history>>

ResolveMap ==
    /\ h.pc = "mapthread" /\ Go("undomgr")
    /\ map' = [map EXCEPT ![h.ext] = h.t]
    /\ UNCHANGED <<cur, ses, undo, db, tasks, p, counts, spent, history>>

ResolveUndo ==
    /\ h.pc = "undomgr" /\ Go("dispatch")
    /\ undo' = [undo EXCEPT ![h.t] = NewUndo]
    /\ UNCHANGED <<cur, ses, map, db, tasks, p, counts, spent, history>>

-----------------------------------------------------------------------------
(* Commands *)

T == ses[h.s].th[h.t]

\* The message is done with: the thread is left as th, the answer goes out and
\* the handler drops its Arc, the last one of a session pruned meanwhile.
Finish(th) ==
    /\ h' = Waiting
    /\ ses' = [s \in Sess |-> IF s = cur THEN [ses EXCEPT ![h.s].th[h.t] = th][s] ELSE NewSession]

\* A handler that answers and changes nothing.
Decline ==
    /\ Finish(T)
    /\ UNCHANGED <<cur, map, undo, db, tasks, p, counts, spent, history>>

\* The user takes the pending request, if the thread awaits one, back.
Revoke ==
    LET q == IF T.st = "AwaitingApproval" THEN T.pend.id ELSE 0
    IN  /\ revoked' = revoked \cup ({q} \ {0})
        /\ shown' = [e \in Ext |-> IF shown[e] = q THEN 0 ELSE shown[e]]
        /\ UNCHANGED <<ran, due, overlap, raced>>

Restore(m) ==
    /\ Finish([T EXCEPT !.st = "Idle", !.turns = restore_from_messages(m)])
    /\ Revoke
    /\ UNCHANGED <<cur, map, db, tasks, p, counts, spent>>

ProcessUndo ==
    /\ h.pc = "dispatch" /\ undo[h.t].u # <<>> /\ Len(undo[h.t].r) < MaxRedo
    /\ undo' = [undo EXCEPT ![h.t] = Undone(@, messages(T.turns))]
    /\ Restore(Last(undo[h.t].u))

ProcessRedo ==
    /\ h.pc = "dispatch" /\ undo[h.t].r # <<>>
    /\ undo' = [undo EXCEPT ![h.t] = Redone(@)]
    /\ Restore(Last(undo[h.t].r))

\* /resume names a checkpoint of the stack.
ProcessResume(j) ==
    /\ h.pc = "dispatch" /\ j \in DOMAIN undo[h.t].u
    /\ undo' = [undo EXCEPT ![h.t] = RestoredTo(@, j)]
    /\ Restore(undo[h.t].u[j])

\* Messages are handled one at a time, so no turn is found Processing.
ProcessInterrupt ==
    /\ h.pc = "dispatch" /\ T.st \in {"Processing", "AwaitingApproval"}
    /\ Finish(interrupt(T)) /\ Revoke
    /\ UNCHANGED <<cur, map, undo, db, tasks, p, counts, spent>>

ProcessCompact ==
    /\ h.pc = "dispatch"
    /\ \E turns \in Compacted(T.turns) : Finish([T EXCEPT !.turns = turns])
    /\ UNCHANGED <<cur, map, undo, db, tasks, p, counts, spent, history>>

ProcessClear ==
    /\ h.pc = "dispatch"
    /\ Finish([T EXCEPT !.st = "Idle", !.turns = <<>>]) /\ Revoke
    /\ undo' = [undo EXCEPT ![h.t] = NewUndo]
    /\ UNCHANGED <<cur, map, db, tasks, p, counts, spent>>

\* /new and /thread look the user's session up anew.
OnSession(sn) ==
    /\ cur' = SessId
    /\ ses' = [s \in Sess |-> IF s = SessId THEN sn ELSE NewSession]
    /\ h' = Waiting
    /\ UNCHANGED <<map, undo, db, tasks, p, counts, spent, history>>

ProcessNewThread ==
    /\ h.pc = "dispatch" /\ Cardinality(Unused) > 1
    /\ OnSession(create_thread(SesWith[SessId], NewId))

ProcessSwitchThread(t) ==
    /\ h.pc = "dispatch" /\ t \in SesWith[SessId].there
    /\ OnSession(switch_thread(SesWith[SessId]))

\* Nothing to undo, redo, resume, interrupt or switch to; an input while the
\* thread awaits approval, or that the safety layer blocks; a command that only
\* reads.
ProcessOther == h.pc = "dispatch" /\ Decline

-----------------------------------------------------------------------------
(* A user's input and the turn it starts *)

\* A thread that is busy, or waits for an answer, refuses inputs (ProcessOther).
TakesInput == T.st \in {"Idle", "Interrupted"}

\* process_user_input up to the loop: compaction, checkpoint, start_turn.
BeginTurn ==
    /\ h.pc = "dispatch" /\ TakesInput /\ nin < MaxInputs
    /\ nin' = nin + 1
    /\ \E turns \in Compacted(T.turns) :
          /\ undo' = [undo EXCEPT ![h.t] = Checkpoint(@, messages(turns))]
          /\ ses' = [ses EXCEPT ![h.s].th[h.t] = start_turn([@ EXCEPT !.turns = turns], nin + 1)]
    /\ h' = [h EXCEPT !.pc = "loop", !.in = nin + 1, !.save = TRUE]
    /\ UNCHANGED <<cur, map, db, tasks, p, nreq, spent, history>>

\* Mutant: the answer is never handed over.
Persist_UserOnly(withResp) ==
    IF ~h.save THEN UNCHANGED <<tasks, overlap>>
    ELSE /\ tasks' = [tasks EXCEPT ![h.in] = [pc |-> "user", t |-> h.t, resp |-> FALSE]]
         /\ overlap' = IF \E i \in Inputs : tasks[i].t = h.t THEN overlap \cup {h.t} ELSE overlap

\* persist_turn: only process_user_input hands over the input to write.
Persist(withResp) ==
    IF ~h.save THEN UNCHANGED <<tasks, overlap>>
    ELSE /\ tasks' = [tasks EXCEPT ![h.in] = [pc |-> "user", t |-> h.t, resp |-> withResp]]
         /\ overlap' = IF \E i \in Inputs : tasks[i].t = h.t THEN overlap \cup {h.t} ELSE overlap

\* Mutant: an error leaves the thread as it is.
LoopError_NoReset ==
    /\ h.pc = "loop"
    /\ Finish(T)
    /\ Persist(FALSE)
    /\ UNCHANGED <<cur, map, undo, db, p, counts, spent, asked, due, raced>>

\* The model fails, or was asked MAX_TOOL_ITERATIONS times: fail_turn.
LoopError ==
    /\ h.pc = "loop"
    /\ Finish(fail_turn(T))
    /\ Persist(FALSE)
    /\ UNCHANGED <<cur, map, undo, db, p, counts, spent,
                   asked, due, raced>>

\* A model that only talks is told, a few times, to use its tools.
Nudge ==
    /\ h.pc = "loop" /\ h.iter < MaxIter /\ ~h.texec /\ h.iter + 1 < NudgeBefore
    /\ h' = [h EXCEPT !.iter = @ + 1]
    /\ UNCHANGED <<memory, db, tasks, p, counts, spent, history>>

\* Its text is the answer otherwise: complete_turn.
LoopText ==
    /\ h.pc = "loop" /\ h.iter < MaxIter /\ (h.texec \/ h.iter + 1 >= NudgeBefore)
    /\ Finish(complete_turn(T, h.in))
    /\ Persist(TRUE)
    /\ due' = IF h.save THEN due \cup {<<h.ext, h.in>>} ELSE due
    /\ UNCHANGED <<cur, map, undo, db, p, counts, spent,
                   asked, raced>>

\* "Always" covers a tool, except for commands that need an explicit answer.
NeedsApproval(c) ==
    c \in Gated /\ (ToolOf[c] \notin ses[h.s].auto \/ c \in Explicit)

\* Mutant: rounds of tool calls are not counted.
LoopCalls_NoCount(b) ==
    /\ h.pc = "loop" /\ h.iter < MaxIter
    /\ nreq < MaxReqs \/ \A i \in DOMAIN b : ~NeedsApproval(b[i])
    /\ h' = [h EXCEPT !.pc = "tools", !.calls = b, !.texec = TRUE]
    /\ UNCHANGED <<memory, db, tasks, p, counts, spent, history>>

LoopCalls(b) ==
    /\ h.pc = "loop" /\ h.iter < MaxIter
    /\ nreq < MaxReqs \/ \A i \in DOMAIN b : ~NeedsApproval(b[i])
    /\ h' = [h EXCEPT !.pc = "tools", !.calls = b, !.texec = TRUE, !.iter = @ + 1]
    /\ UNCHANGED <<memory, db, tasks, p, counts, spent, history>>

\* A call without need of approval runs; its result, or error, feeds the model.
ToolRuns ==
    /\ h.pc = "tools" /\ ~NeedsApproval(Head(h.calls))
    /\ h' = [h EXCEPT !.calls = Tail(@), !.pc = IF Len(h.calls) > 1 THEN @ ELSE "loop"]
    /\ UNCHANGED <<memory, db, tasks, p, counts, spent, history>>

\* The other one ends the loop, and the calls behind it in the list are dropped:
\* await_approval, and the prompt goes out.
ToolGated ==
    /\ h.pc = "tools" /\ NeedsApproval(Head(h.calls))
    /\ nreq' = nreq + 1
    /\ Finish(await_approval(T, [id |-> nreq + 1, in |-> h.in, call |-> Head(h.calls)]))
    /\ shown' = [shown EXCEPT ![h.ext] =
                    IF h.s = cur /\ map[h.ext] = h.t THEN nreq + 1 ELSE @]
    /\ UNCHANGED <<cur, map, undo, db, tasks, p, nin, spent,
                   revoked, ran, due, overlap, raced>>

-----------------------------------------------------------------------------
(* process_approval: the answer to a prompt, with its id or, as 0, without *)

\* Mutant: what the thread's state is does not matter.
Pending_NoState == T.pend # NoReq

Pending == T.st = "AwaitingApproval" /\ T.pend # NoReq
Matches(id) == id \in {0, T.pend.id}

\* Mutant: take_pending_approval with no await_approval after it.
AnswerMissed_Drop(id) ==
    /\ h.pc = "dispatch" /\ (~Pending \/ ~Matches(id))
    /\ Finish([T EXCEPT !.pend = NoReq])
    /\ UNCHANGED <<cur, map, undo, db, tasks, p, counts, spent, history>>

\* Nothing is pending, or the id is another one's: that request is put back.
AnswerMissed(id) ==
    /\ h.pc = "dispatch" /\ (~Pending \/ ~Matches(id))
    /\ Decline

Denied(id) ==
    /\ h.pc = "dispatch" /\ Pending /\ Matches(id)
    /\ Finish(clear_pending_approval(T)) /\ Revoke
    /\ UNCHANGED <<cur, map, undo, db, tasks, p, counts, spent>>

\* The tool runs, and the loop goes on from the context the request kept.
Approved(id, always) ==
    /\ h.pc = "dispatch" /\ Pending /\ Matches(id)
    /\ ses' = [ses EXCEPT ![h.s].th[h.t] = [T EXCEPT !.st = "Processing", !.pend = NoReq],
                          ![h.s].auto = IF always THEN @ \cup {ToolOf[T.pend.call]} ELSE @]
    /\ h' = [h EXCEPT !.pc = "loop", !.in = T.pend.in, !.texec = TRUE]
    /\ ran' = ran \cup {T.pend.id}
    /\ shown' = [e \in Ext |-> IF shown[e] = T.pend.id THEN 0 ELSE shown[e]]
    /\ UNCHANGED <<cur, map, undo, db, tasks, p, counts, spent,
                   revoked, due, overlap, raced>>

-----------------------------------------------------------------------------
(* persist_turn's task *)

Write(i, row, next, ok) ==
    /\ IF ok THEN UNCHANGED <<spent, due>>
             ELSE Spend /\ due' = {d \in due : d[2] # i}
    /\ db' = IF ok THEN [db EXCEPT ![tasks[i].t] = Append(@, row)] ELSE db
    /\ tasks' = [tasks EXCEPT ![i] = IF ok THEN next ELSE NoTask]
    /\ UNCHANGED <<memory, h, p, counts, asked, overlap, raced>>

PersistUser(i, ok) ==
    /\ tasks[i].pc = "user"
    /\ Write(i, User(i), IF tasks[i].resp THEN [tasks[i] EXCEPT !.pc = "assistant"] ELSE NoTask, ok)

PersistAssistant(i, ok) ==
    /\ tasks[i].pc = "assistant"
    /\ Write(i, Assistant(i), NoTask, ok)

-----------------------------------------------------------------------------
(* prune_stale_sessions, and time *)

\* The idle timeout passes, which is longer than it takes to handle a message.
Tick ==
    /\ spent < Budget /\ p.pc = "idle" /\ h.pc = "idle"
    /\ cur # NoSess /\ ~ses[cur].stale
    /\ ses' = [ses EXCEPT ![cur].stale = TRUE]
    /\ UNCHANGED <<cur, map, undo, db, tasks, h, p, counts, spent, history>>

Forget == shown' = [e \in Ext |-> 0]

PruneScan ==
    /\ p.pc = "idle" /\ cur # NoSess /\ ses[cur].stale
    /\ p' = [p EXCEPT !.pc = "collect"] /\ Spend
    /\ raced' = (raced \/ h.pc # "idle")
    /\ UNCHANGED <<memory, db, tasks, h, counts, asked, due, overlap>>

\* try_lock fails while a handler holds the session.
PruneCollect ==
    /\ p.pc = "collect"
    /\ \/ p' = [pc |-> "remove", thr |-> IF cur = NoSess THEN {} ELSE ses[cur].there]
       \/ h.pc # "idle" /\ p' = [pc |-> "remove", thr |-> {}]
    /\ UNCHANGED <<memory, db, tasks, h, counts, spent, history>>

PruneRemove ==
    /\ p.pc = "remove" /\ p' = [p EXCEPT !.pc = "unmap"]
    /\ cur' = NoSess /\ Forget
    /\ ses' = [s \in Sess |-> IF s = h.s THEN ses[s] ELSE NewSession]
    /\ UNCHANGED <<map, undo, db, tasks, h, counts, spent,
                   revoked, ran, due, overlap, raced>>

PruneMap ==
    /\ p.pc = "unmap" /\ p' = [p EXCEPT !.pc = "unundo"]
    /\ map' = [k \in Keys |-> NoThread] /\ Forget
    /\ UNCHANGED <<cur, ses, undo, db, tasks, h, counts, spent,
                   revoked, ran, due, overlap, raced>>

PruneUndo ==
    /\ p.pc = "unundo" /\ p' = [pc |-> "idle", thr |-> {}]
    /\ undo' = [t \in Thr |-> IF t \in p.thr THEN NewUndo ELSE undo[t]]
    /\ UNCHANGED <<cur, ses, map, db, tasks, h, counts, spent, history>>

\* The process ends, at any point, and starts again.
Restart ==
    /\ Spend
    /\ cur' = NoSess /\ ses' = [s \in Sess |-> NewSession]
    /\ map' = [k \in Keys |-> NoThread] /\ undo' = [t \in Thr |-> NewUndo]
    /\ tasks' = [i \in Inputs |-> NoTask]
    /\ h' = Waiting /\ p' = [pc |-> "idle", thr |-> {}] /\ Forget
    /\ due' = {d \in due : tasks[d[2]].pc = "none"}
    /\ UNCHANGED <<db, counts, revoked, ran, overlap, raced>>

-----------------------------------------------------------------------------
Command ==
    \/ ProcessUndo \/ ProcessRedo \/ (\E j \in 1..MaxCheckpoints : ProcessResume(j))
    \/ ProcessInterrupt \/ ProcessCompact \/ ProcessClear
    \/ ProcessNewThread \/ (\E t \in Thr : ProcessSwitchThread(t)) \/ ProcessOther
    \/ \E id \in 0..(MaxReqs + 1) :     \* the last one is nobody's
          AnswerMissed(id) \/ Denied(id) \/ \E always \in BOOLEAN : Approved(id, always)

Handler ==
    \/ \E ok \in BOOLEAN : HydrateRead(ok)
    \/ HydrateInsert \/ RegisterMap \/ RegisterSession
    \/ ResolveSession \/ ResolveFind \/ ResolveMap \/ ResolveUndo
    \/ Command \/ BeginTurn
    \/ LoopError \/ Nudge \/ LoopText \/ (\E b \in Batches : LoopCalls(b))
    \/ ToolRuns \/ ToolGated

Writer(i) == \E ok \in BOOLEAN : PersistUser(i, ok) \/ PersistAssistant(i, ok)
Pruner == PruneScan \/ PruneCollect \/ PruneRemove \/ PruneMap \/ PruneUndo

Next ==
    \/ (\E e \in Ext : Receive(e))
    \/ Handler \/ (\E i \in Inputs : Writer(i)) \/ Pruner \/ Tick \/ Restart

Spec == Init /\ [][Next]_vars

\* The runtime runs the main loop and the tasks it spawned; model calls and
\* tools end, with an error or a timeout if need be.
FairSpec == Spec /\ WF_vars(Handler) /\ \A i \in Inputs : WF_vars(Writer(i))

-----------------------------------------------------------------------------
(* Properties *)

Turns == [in : Inputs, out : 0..MaxInputs]
MessageSet == [role : {"user", "assistant"}, n : Inputs]
PC == {"idle", "hydrate", "insert", "regmap", "regsess", "resolve", "find", "mapthread",
       "undomgr", "dispatch", "loop", "tools"}

ThreadOK(t) ==
    /\ t.st \in ThreadState
    /\ t.turns \in Seq(Turns)
    /\ t.pend \in [id : 0..MaxReqs, in : 0..MaxInputs, call : Calls \cup {NoCall}]

\* Type invariant; an undo stack never outgrows max_checkpoints.
TypeOK ==
    /\ cur \in Sess \cup {NoSess}
    /\ \A s \in Sess :
          /\ ses[s].there \subseteq Thr
          /\ ses[s].stale \in BOOLEAN /\ ses[s].auto \subseteq {ToolOf[c] : c \in Gated}
          /\ \A t \in Thr : ThreadOK(ses[s].th[t])
    /\ map \in [Keys -> Thr \cup {NoThread}]
    /\ \A t \in Thr : /\ undo[t].u \in Seq(Seq(MessageSet)) /\ undo[t].r \in Seq(Seq(MessageSet))
                      /\ Len(undo[t].u) <= MaxCheckpoints
    /\ db \in [Thr -> Seq(MessageSet)]
    /\ tasks \in [Inputs -> [pc : {"none", "user", "assistant"}, t : Thr \cup {NoThread}, resp : BOOLEAN]]
    /\ h \in [pc : PC, ext : Ext \cup {NoExt}, s : Sess \cup {NoSess}, t : Thr \cup {NoThread},
              hist : Seq(MessageSet), in : 0..MaxInputs, save : BOOLEAN,
              calls : Seq(Calls), iter : 0..MaxIter, texec : BOOLEAN]
    /\ p \in [pc : {"idle", "collect", "remove", "unmap", "unundo"}, thr : SUBSET Thr]
    /\ nin \in 0..MaxInputs /\ nreq \in 0..MaxReqs
    /\ spent \in 0..Budget
    /\ revoked \subseteq Reqs /\ ran \subseteq Reqs /\ shown \in [Ext -> 0..MaxReqs]
    /\ due \subseteq Ext \X Inputs /\ overlap \subseteq Thr /\ raced \in BOOLEAN

\* A tool call the user took back - denied, interrupted, undone or cleared while
\* it was waiting - never runs, although undo, clear and interrupt leave the
\* request on the thread (approval.rs:104, session.rs:339).
RevokedNeverRuns == revoked \cap ran = {}

\* Between messages no thread is left Processing: such a thread would refuse
\* every further input (agent_loop.rs:434).  Since messages are handled one at a
\* time this also says that /interrupt never meets a turn that is running.
NeverLeftProcessing ==
    h.pc = "idle" => \A s \in Sess, t \in Thr : ses[s].th[t].st # "Processing"

\* A prompt the user sees stays answerable - its window resolves to a thread that
\* awaits exactly that request - until it is answered or taken back, or a prune
\* or a restart loses it: inputs, wrong ids, compactions, other windows' messages
\* and hydration do not (approval.rs:117, session_manager.rs:81).
PromptIsAnswerable ==
    h.pc = "idle" /\ ~raced =>
        \A e \in Ext : shown[e] # 0 =>
            /\ cur # NoSess /\ map[e] \in ses[cur].there
            /\ ses[cur].th[map[e]].st = "AwaitingApproval"
            /\ ses[cur].th[map[e]].pend.id = shown[e]

Belongs(turns) ==
    /\ \A k \in DOMAIN turns : turns[k].out \in {0, turns[k].in}
    /\ \A j, k \in DOMAIN turns : j < k => turns[j].in < turns[k].in

\* In every thread, through undo, redo, resume, compaction, approval and
\* hydration, turns are in the order of their inputs and an answer is with the
\* input it answers; only two writers of one thread at once, whose rows may
\* interleave, can spoil what is hydrated (agent_loop.rs:657, session.rs:338).
AnswersBelong ==
    \A s \in Sess, t \in Thr : t \notin overlap => Belongs(ses[s].th[t].turns)

\* A turn answered in one go is in the history a client reloads (ios.rs:396)
\* unless the client's thread id is not in canonical form, its writer is still at
\* work, failed or died, or a prune overlapped with the user's messages.
\* Undo, clear, approvals, compaction and other turns do not take it away.
MissingHasACause ==
    \A d \in due : LET e == d[1]  i == d[2] IN
        \/ Parse[e] = NoThread \/ Canon[e] # e \/ tasks[i].pc # "none" \/ raced
        \/ {User(i), Assistant(i)} \subseteq Range(db[Parse[e]])

\* Conversations stay what they were: in memory (AnswersBelong) and in the
\* history a client reloads (MissingHasACause).
HistoryIsRight == TypeOK /\ AnswersBelong /\ MissingHasACause

Newest(turns) == IF turns = <<>> THEN 0 ELSE turns[Len(turns)].in

\* /redo never takes the conversation back: the newest turn it restores is at
\* least as new as the one it replaces, since a new turn empties the redo stack
\* (undo.rs:81), unless a prune that overlapped left a stack behind.
RedoLosesNothing ==
    [][ProcessRedo /\ ~raced
           => Newest(ses'[h.s].th[h.t].turns) >= Newest(T.turns)]_vars

\* Every message is answered and the loop returns for the next one, whatever the
\* model keeps asking for (MAX_TOOL_ITERATIONS, tool_executor.rs:76).
MessageIsHandled == h.pc # "idle" ~> h.pc = "idle"

\* A conversation only goes forward: /redo does not throw a newer turn away
\* (RedoLosesNothing) and no message stops the loop (MessageIsHandled).
TurnsMoveForward == RedoLosesNothing /\ MessageIsHandled
=============================================================================
