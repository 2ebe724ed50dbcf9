------------------------------ MODULE Routines ------------------------------
(***************************************************************************)
(* Routines: the table rows, the event cache, the cron ticker, the event   *)
(* check after each message, fire_manual, the tasks that run a routine and *)
(* the tools with which agents create, update and delete routines.         *)
(*                                                                         *)
(* An action is one stretch between two database statements.  A task works *)
(* on the Routine it was spawned with, the cache on the Routines of its    *)
(* last refresh: both are snapshots of rows that change meanwhile.         *)
(***************************************************************************)
EXTENDS Naturals, FiniteSets

CONSTANTS
    Routines,   \* routine ids (never used twice)
    Tasks,      \* bound: tasks that run routines at one time
    Callers,    \* agents that may call the routine tools at one time
    Period,     \* the schedules: the distance between their fire times
    Cooldown,   \* guardrails.cooldown
    MaxRuns,    \* guardrails.max_concurrent (1)
    MaxGlobal,  \* config.max_concurrent_routines
    MaxTime,    \* bound: the last instant of the clock
    Cycle,      \* how far the clock then falls back, and all times with it
    Scenarios,  \* bounds: how often each disturbance may happen
    None        \* no row, no time

Disturbances == {"create", "message", "manual", "edit", "fault", "crash"}
Schedules == DOMAIN Period
Triggers == {"cron", "event", "manual"}

Routine == [on : BOOLEAN, trig : Triggers, sched : Schedules,
            next : Nat \cup {None}, last : Nat \cup {None}]

ASSUME PeriodAssumption == Period \in [Schedules -> Nat \ {0}]
ASSUME ClockAssumption ==
    /\ Cycle \in 1 .. MaxTime /\ Cooldown <= MaxTime + 1 - Cycle
    /\ \A s \in Schedules : Cycle % Period[s] = 0
ASSUME GuardAssumption == {Cooldown, MaxRuns, MaxGlobal, MaxTime} \subseteq Nat
ASSUME FiniteAssumption == IsFiniteSet(Tasks)
ASSUME ScenarioAssumption == Scenarios \subseteq [Disturbances -> Nat]
ASSUME NullAssumption == None \notin Nat /\ None \notin Routine

VARIABLES
    now,       \* the clock
    row,       \* the routines table: a Routine or None
    born,      \* ids that have been used
    open,      \* rows of routine_runs with status 'running', for each routine
    cache,     \* event_cache: the cached Routine or None
    running,   \* running_count
    task,      \* the spawned tasks
    due,       \* the cron pass: Routines of the list it has not looked at yet
    ev,        \* the event check: None, or the cached matches still to look at
    tool,      \* the tool calls
    raced,     \* history: routines fired while an earlier fire was unrecorded
    lapse,     \* history: a cache refresh failed, or tool calls overlapped
    spent      \* what is left of the scenario, and whether a fault happened

vars == <<now, row, born, open, cache, running, task, due, ev, tool,
          raced, lapse, spent>>

Snapshots == [Routines -> Routine \cup {None}]
NoSnapshot == [r \in Routines |-> None]
TaskPc == {"spawned", "executing", "finishing", "completed"}
Idle == [pc |-> "idle"]

TypeOK ==
    /\ now \in 0 .. MaxTime
    /\ row \in Snapshots /\ cache \in Snapshots /\ due \in Snapshots
    /\ born \subseteq Routines /\ raced \subseteq Routines
    /\ open \in [Routines -> Nat]
    /\ running \in Nat
    /\ \A t \in Tasks : \/ task[t] = Idle
                        \/ task[t].pc \in TaskPc /\ task[t].snap \in Routine
    /\ ev = None \/ ev \subseteq Routines
    /\ \A k \in Callers : tool[k].pc \in {"idle", "got", "refresh", "store"}
    /\ lapse \in BOOLEAN

Init ==
    /\ now = 0 /\ born = {} /\ raced = {} /\ ev = None /\ lapse = FALSE
    /\ row = NoSnapshot /\ cache = NoSnapshot /\ due = NoSnapshot
    /\ open = [r \in Routines |-> 0]
    /\ running = 0
    /\ task = [t \in Tasks |-> Idle]
    /\ tool = [k \in Callers |-> Idle]
    /\ \E s \in Scenarios : spent = [left |-> s, faulty |-> FALSE]

-----------------------------------------------------------------------------
(* The statements of the store *)

create_routine(r, rt) == row' = [row EXCEPT ![r] = rt]

\* get_routine and get_routine_by_name: names and ids are one here.
get_routine(r) == row[r]

\* The columns of an update; the runtime columns are not among them.
update_routine(r, new) ==
    row' = IF row[r] = None THEN row
           ELSE [row EXCEPT ![r] = [@ EXCEPT !.on = new.on, !.trig = new.trig,
                                             !.sched = new.sched]]

\* The runtime columns, and only they.
update_routine_runtime(r, last, next) ==
    row' = IF row[r] = None THEN row
           ELSE [row EXCEPT ![r] = [@ EXCEPT !.last = last, !.next = next]]

delete_routine(r) == row' = [row EXCEPT ![r] = None]

\* Enabled event routines.
list_event_routines ==
    [r \in Routines |-> IF row[r] # None /\ row[r].on /\ row[r].trig = "event"
                           THEN row[r] ELSE None]

\* A row of list_due_cron_routines; a cron routine without a fire time is due.
IsDue(r) == /\ row[r] # None /\ row[r].on /\ row[r].trig = "cron"
            /\ row[r].next = None \/ row[r].next <= now

\* Mutant: misses the rows without a fire time.
list_due_cron_routines_NotNull ==
    [r \in Routines |-> IF IsDue(r) /\ row[r].next # None THEN row[r] ELSE None]

list_due_cron_routines == [r \in Routines |-> IF IsDue(r) THEN row[r] ELSE None]

create_routine_run(r) == open' = [open EXCEPT ![r] = @ + 1]
complete_routine_run(r) == open' = [open EXCEPT ![r] = @ - 1]
count_running_routine_runs(r) == open[r]

-----------------------------------------------------------------------------
(* Helpers *)

Spend(k) ==
    /\ spent.left[k] > 0
    /\ spent' = [left |-> [spent.left EXCEPT ![k] = @ - 1],
                 faulty |-> spent.faulty \/ k \in {"fault", "crash"}]
Faulty == spent.faulty
Db(ok) == IF ok THEN UNCHANGED spent ELSE Spend("fault")

\* next_cron_fire: the first fire time of the schedule after now.
next_cron_fire(s) == (now \div Period[s] + 1) * Period[s]

Live(r, pcs) == {t \in Tasks : task[t].pc \in pcs /\ task[t].r = r}

\* Against last_run_at of the snapshot in hand.
check_cooldown(snap) == snap.last # None => now - snap.last >= Cooldown

\* Mutant: off by one.
check_concurrent_OffByOne(r) == count_running_routine_runs(r) <= MaxRuns

\* The running rows against guardrails.max_concurrent.
check_concurrent(r) == count_running_routine_runs(r) < MaxRuns

\* spawn_fire, and fire_manual once its checks have passed: a task that has not
\* yet recorded its run.
spawn_fire(r, snap) ==
    /\ \E t \in Tasks : task[t] = Idle
    /\ task' = [task EXCEPT ![CHOOSE t \in Tasks : task[t] = Idle] =
                  [pc |-> "spawned", r |-> r, snap |-> snap]]
    /\ raced' = IF Live(r, {"spawned"}) # {} THEN raced \cup {r} ELSE raced

\* The count fails: a query that fails keeps the routine from firing, a row that
\* cannot be read counts as zero.
FailedCount(r, snap) ==
    \/ UNCHANGED <<task, raced>>
    \/ check_cooldown(snap) /\ running < MaxGlobal /\ spawn_fire(r, snap)

-----------------------------------------------------------------------------
(* Triggers *)

\* What is Cycle ago.  A time at or before 0 is as long ago as any program step asks.
Earlier(x) == IF x = None THEN None ELSE IF x < Cycle THEN 0 ELSE x - Cycle
Ago(snaps) ==
    [r \in Routines |-> IF snaps[r] = None THEN None
                        ELSE [snaps[r] EXCEPT !.next = Earlier(@), !.last = Earlier(@)]]

\* Time goes on for ever.  Only differences of times matter, so that a clock at its
\* end falls back by Cycle, and every time that is still compared with it does too
\* (a task does not look at the times of its snapshot).
Tick ==
    /\ IF now < MaxTime
         THEN now' = now + 1 /\ UNCHANGED <<row, cache, due, tool>>
         ELSE /\ now' = MaxTime + 1 - Cycle
              /\ row' = Ago(row) /\ cache' = Ago(cache) /\ due' = Ago(due)
              /\ tool' = [k \in Callers |->
                             IF tool[k].pc = "store"
                               THEN [pc |-> "store", list |-> Ago(tool[k].list)]
                               ELSE tool[k]]
    /\ UNCHANGED <<born, open, running, task, ev, raced, lapse, spent>>

\* The ticker's list, read once for the whole pass.
CronList ==
    /\ due = NoSnapshot
    /\ due' = list_due_cron_routines
    /\ UNCHANGED <<now, row, born, open, cache, running, task, ev, tool,
                   raced, lapse, spent>>

\* One routine of the list.  At the global limit the rest of the list is skipped.
CronCheck(r) ==
    /\ due[r] # None
    /\ IF running >= MaxGlobal
         THEN due' = NoSnapshot /\ UNCHANGED <<task, raced, spent>>
         ELSE /\ due' = [due EXCEPT ![r] = None]
              /\ \/ /\ check_cooldown(due[r]) /\ check_concurrent(r)
                    /\ spawn_fire(r, due[r]) /\ UNCHANGED spent
                 \/ /\ ~(check_cooldown(due[r]) /\ check_concurrent(r))
                    /\ UNCHANGED <<task, raced, spent>>
                 \/ Spend("fault") /\ FailedCount(r, due[r])
    /\ UNCHANGED <<now, row, born, open, cache, running, ev, tool, lapse>>

\* check_event_triggers: a message that matches the routines S of the cache.  The
\* read guard is held until every match has been looked at.
EventMatch(S) ==
    /\ ev = None /\ S # {} /\ Spend("message")
    /\ \A r \in S : cache[r] # None
    /\ ev' = S
    /\ UNCHANGED <<now, row, born, open, cache, running, task, due, tool,
                   raced, lapse>>

EventCheck(r) ==
    /\ ev # None /\ r \in ev
    /\ ev' = IF ev = {r} THEN None ELSE ev \ {r}
    /\ LET ready == /\ check_cooldown(cache[r]) /\ check_concurrent(r)
                    /\ running < MaxGlobal
       IN \/ ready /\ spawn_fire(r, cache[r]) /\ UNCHANGED spent
          \/ ~ready /\ UNCHANGED <<task, raced, spent>>
          \/ Spend("fault") /\ FailedCount(r, cache[r])
    /\ UNCHANGED <<now, row, born, open, cache, running, due, tool, lapse>>

fire_manual(r) ==
    /\ get_routine(r) # None /\ get_routine(r).on /\ check_concurrent(r)
    /\ Spend("manual")
    /\ spawn_fire(r, get_routine(r))
    /\ UNCHANGED <<now, row, born, open, cache, running, due, ev, tool,
                   lapse>>

-----------------------------------------------------------------------------
(* execute_routine *)

\* create_routine_run.  For a routine that is gone the outcome depends on whether
\* the SQLite build enforces foreign keys.
RunRecord(t, ok) ==
    /\ task[t].pc = "spawned"
    /\ LET r == task[t].r IN
       IF ok
         THEN /\ create_routine_run(r)
              /\ running' = running + 1
              /\ task' = [task EXCEPT ![t].pc = "executing"]
              /\ UNCHANGED spent
         ELSE /\ IF row[r] = None THEN UNCHANGED spent ELSE Spend("fault")
              /\ task' = [task EXCEPT ![t] = Idle]
              /\ UNCHANGED <<open, running>>
    /\ UNCHANGED <<now, row, born, cache, due, ev, tool, raced, lapse>>

\* Mutant: returns on an error of the execution.
RunEnd_EarlyReturn(t) ==
    /\ task[t].pc = "executing"
    /\ running' = running - 1
    /\ task' = [task EXCEPT ![t] = Idle]
    /\ UNCHANGED <<now, row, born, open, cache, due, ev, tool, raced, lapse, spent>>

\* execute_lightweight or execute_full_job comes back, whatever its result: an
\* error becomes the status Failed.
RunEnd(t) ==
    /\ task[t].pc = "executing"
    /\ running' = running - 1
    /\ task' = [task EXCEPT ![t].pc = "finishing"]
    /\ UNCHANGED <<now, row, born, open, cache, due, ev, tool, raced, lapse, spent>>

\* The run's row is completed; a failure is only logged.
RunComplete(t, ok) ==
    /\ task[t].pc = "finishing"
    /\ Db(ok)
    /\ IF ok THEN complete_routine_run(task[t].r) ELSE UNCHANGED open
    /\ task' = [task EXCEPT ![t].pc = "completed"]
    /\ UNCHANGED <<now, row, born, cache, running, due, ev, tool, raced, lapse>>

\* The next fire time, by the trigger the task was spawned with.
NextFireOf(snap) == IF snap.trig = "cron" THEN next_cron_fire(snap.sched) ELSE None

\* The runtime state is written from the task's snapshot; the notification ends
\* the task.
RunRuntime(t, ok) ==
    /\ task[t].pc = "completed"
    /\ Db(ok)
    /\ IF ok THEN update_routine_runtime(task[t].r, now, NextFireOf(task[t].snap))
             ELSE UNCHANGED row
    /\ task' = [task EXCEPT ![t] = Idle]
    /\ UNCHANGED <<now, born, open, cache, running, due, ev, tool, raced, lapse>>

-----------------------------------------------------------------------------
(* The tools *)

Overlaps(k) == \E j \in Callers \ {k} : tool[j].pc # "idle"

\* routine_create.  Only an event routine refreshes the cache.
ToolCreate(k, r, trig, s) ==
    /\ tool[k].pc = "idle" /\ r \notin born
    /\ r = CHOOSE q \in Routines : q \notin born  \* a new id: any will do
    /\ Spend("create")
    /\ trig # "cron" => s = CHOOSE x \in Schedules : TRUE  \* no schedule to choose
    /\ born' = born \cup {r}
    /\ create_routine(r, [on |-> TRUE, trig |-> trig, sched |-> s, last |-> None,
                          next |-> IF trig = "cron" THEN next_cron_fire(s) ELSE None])
    /\ tool' = [tool EXCEPT ![k].pc = IF trig = "event" THEN "refresh" ELSE "idle"]
    /\ lapse' = (lapse \/ Overlaps(k))
    /\ UNCHANGED <<now, open, cache, running, task, due, ev, raced>>

\* The changes routine_update and routine_delete are asked for.
Changes == [kind : {"enable", "disable", "delete"}] \cup
           [kind : {"schedule"}, sched : Schedules]

\* The columns a routine_update changes, on the Routine it has read.  It computes
\* next_fire_at for a new schedule, too, but update_routine does not write it.
Edited(rt, what) ==
    [on    |-> IF what.kind \in {"enable", "disable"} THEN what.kind = "enable" ELSE rt.on,
     trig  |-> IF what.kind = "schedule" THEN "cron" ELSE rt.trig,
     sched |-> IF what.kind = "schedule" THEN what.sched ELSE rt.sched]

\* get_routine_by_name: what update and delete start from.
ToolGet(k, r, what) ==
    /\ tool[k].pc = "idle" /\ get_routine(r) # None
    /\ Spend("edit")
    /\ tool' = [tool EXCEPT ![k] = 
                  [pc |-> "got", r |-> r, what |-> what,
                   edit |-> Edited(get_routine(r), what)]]
    /\ lapse' = (lapse \/ Overlaps(k))
    /\ UNCHANGED <<now, row, born, open, cache, running, task, due, ev, raced>>

\* Mutant: a deletion leaves the cache alone.
ToolWrite_NoRefresh(k, ok) ==
    /\ tool[k].pc = "got" /\ ok
    /\ IF tool[k].what.kind = "delete" THEN delete_routine(tool[k].r)
                                       ELSE update_routine(tool[k].r, tool[k].edit)
    /\ tool' = [tool EXCEPT ![k] =
                  IF tool[k].what.kind = "delete" THEN Idle ELSE [pc |-> "refresh"]]
    /\ UNCHANGED <<now, born, open, cache, running, task, due, ev, raced, lapse, spent>>

\* The statement of routine_update or routine_delete; an error ends the call
\* without a refresh.
ToolWrite(k, ok) ==
    /\ tool[k].pc = "got"
    /\ Db(ok)
    /\ IF ~ok THEN UNCHANGED row
       ELSE IF tool[k].what.kind = "delete" THEN delete_routine(tool[k].r)
       ELSE update_routine(tool[k].r, tool[k].edit)
    /\ tool' = [tool EXCEPT ![k] = IF ok THEN [pc |-> "refresh"] ELSE Idle]
    /\ UNCHANGED <<now, born, open, cache, running, task, due, ev, raced, lapse>>

\* refresh_event_cache reads the rows; an error keeps the old cache.
RefreshList(k, ok) ==
    /\ tool[k].pc = "refresh"
    /\ Db(ok)
    /\ tool' = [tool EXCEPT ![k] = IF ok THEN [pc |-> "store", list |-> list_event_routines] ELSE Idle]
    /\ lapse' = (lapse \/ ~ok)
    /\ UNCHANGED <<now, row, born, open, cache, running, task, due, ev, raced>>

\* It then waits for the write lock and replaces the cache.
RefreshStore(k) ==
    /\ tool[k].pc = "store" /\ ev = None
    /\ cache' = tool[k].list
    /\ tool' = [tool EXCEPT ![k] = Idle]
    /\ UNCHANGED <<now, row, born, open, running, task, due, ev, raced, lapse, spent>>

-----------------------------------------------------------------------------
\* The process dies and starts again with a new cache; nothing completes the runs
\* it leaves.
Restart(ok) ==
    /\ Spend("crash")
    /\ running' = 0 /\ due' = NoSnapshot /\ ev' = None
    /\ cache' = IF ok THEN list_event_routines ELSE NoSnapshot
    /\ lapse' = (lapse \/ ~ok)
    /\ task' = [t \in Tasks |-> Idle]
    /\ tool' = [k \in Callers |-> Idle]
    /\ UNCHANGED <<now, row, born, open, raced>>

RunStep(t) == \/ RunEnd(t)
              \/ \E ok \in BOOLEAN : \/ RunRecord(t, ok)
                                     \/ RunComplete(t, ok)
                                     \/ RunRuntime(t, ok)

Next ==
    \/ Tick \/ CronList
    \/ \E ok \in BOOLEAN : Restart(ok)
    \/ \E r \in Routines : CronCheck(r) \/ EventCheck(r) \/ fire_manual(r)
    \/ \E S \in SUBSET Routines : EventMatch(S)
    \/ \E t \in Tasks : RunStep(t)
    \/ \E k \in Callers :
         \/ \E r \in Routines, g \in Triggers, s \in Schedules : ToolCreate(k, r, g, s)
         \/ \E r \in Routines, w \in Changes : ToolGet(k, r, w)
         \/ \E ok \in BOOLEAN : ToolWrite(k, ok) \/ RefreshList(k, ok)
         \/ RefreshStore(k)

Spec == Init /\ [][Next]_vars

\* The ticker and the spawned tasks are tokio tasks; the users of the tools, the
\* messages and the disturbances are not fair.
FairSpec == /\ Spec
            /\ WF_vars(CronList)
            /\ \A r \in Routines : WF_vars(CronCheck(r)) /\ WF_vars(EventCheck(r))
            /\ \A t \in Tasks : WF_vars(RunStep(t))

-----------------------------------------------------------------------------
(* Properties *)

\* max_concurrent (check_concurrent): more runs of a routine than it allows are
\* under way only when the routine was fired again before the task of an earlier
\* fire had recorded its run, the one window in which the check cannot see it,
\* or when a statement failed.
OverlapHasACause ==
    \A r \in Routines :
        Cardinality(Live(r, {"executing", "finishing"})) > MaxRuns =>
            r \in raced \/ Faulty

\* A 'running' row that no task will complete keeps its routine from ever firing
\* again (count_running_routine_runs): it takes a crash or a failed statement.
StuckHasACause ==
    \A r \in Routines :
        open[r] > Cardinality(Live(r, {"executing", "finishing"})) => Faulty

\* Between tool calls the event cache holds the enabled event routines of the
\* table, unless a refresh failed or two tool calls overlapped.
CacheFollowsRows ==
    (\A k \in Callers : tool[k].pc = "idle") /\ ~lapse =>
        \A r \in Routines :
            cache[r] = None <=> list_event_routines[r] = None

\* What the engine goes by agrees with what there is: the rows of routine_runs with
\* the tasks at work (neither too few rows, OverlapHasACause, nor rows no task stands
\* behind, StuckHasACause), and the event cache with the routines (CacheFollowsRows).
EngineFollowsTable ==
    TypeOK /\ OverlapHasACause /\ StuckHasACause /\ CacheFollowsRows

\* The cron pass that has r on its list meets the global limit, and it is the runs of
\* other routines that fill it: it breaks off before r's turn.
CrowdedOut(r) ==
    /\ due[r] # None
    /\ Cardinality({t \in Tasks : task[t].pc = "executing" /\ task[t].r # r}) >= MaxGlobal

\* A due cron routine whose cooldown is over fires and gets a new fire time, or is
\* disabled, changed or deleted, unless a crash or failed statement left a run open,
\* or the pass that lists it breaks off at the global limit.  Nothing puts it first
\* the next time (the rows are not ordered): CrowdedOut may hold again with every
\* pass, and then the routine never runs.
DueIsServed ==
    \A r \in Routines :
        (IsDue(r) /\ check_cooldown(row[r])) ~>
            (Faulty \/ ~IsDue(r) \/ ~check_cooldown(row[r]) \/ CrowdedOut(r))
=============================================================================
