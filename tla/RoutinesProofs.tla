---------------------------- MODULE RoutinesProofs ----------------------------
(***************************************************************************)
(* TLAPS proofs about Routines, for every number of routines, tasks and    *)
(* callers, every schedule and guardrail and every scenario.               *)
(***************************************************************************)
EXTENDS Routines, FiniteSetTheorems, TLAPS

RunningTask == [pc : TaskPc, r : Routines, snap : Routine]
Edits == [on : BOOLEAN, trig : Triggers, sched : Schedules]
ToolState ==
    [pc : {"idle", "refresh"}] \cup
    [pc : {"got"}, r : Routines, what : Changes, edit : Edits] \cup
    [pc : {"store"}, list : Snapshots]

\* The variables' types, the records of tasks and tool calls included.
Types ==
    /\ now \in 0 .. MaxTime
    /\ row \in Snapshots /\ cache \in Snapshots /\ due \in Snapshots
    /\ born \subseteq Routines /\ raced \subseteq Routines
    /\ open \in [Routines -> Nat]
    /\ task \in [Tasks -> {Idle} \cup RunningTask]
    /\ ev = None \/ ev \subseteq Routines
    /\ tool \in [Callers -> ToolState]
    /\ lapse \in BOOLEAN
    /\ spent \in [left : [Disturbances -> Nat], faulty : BOOLEAN]

\* The tasks whose run has a row of its own, and those between the two counts.
Recorded(r) == Live(r, {"executing", "finishing"})
Spawned(r) == Live(r, {"spawned"})
Executing == {t \in Tasks : task[t].pc = "executing"}

\* running_count counts the tasks that execute.
CountIsRight == running = Cardinality(Executing)

\* Every recorded task has its running row; a further one takes a fault.
OpenCovers ==
    \A r \in Routines :
        /\ open[r] >= Cardinality(Recorded(r))
        /\ ~Faulty => open[r] = Cardinality(Recorded(r))

\* Unless a routine was raced or a statement failed, the tasks that will have a row
\* and those that have one stay within max_concurrent together.
SpawnedWithinLimit ==
    ~Faulty => \A r \in Routines \ raced :
                  Cardinality(Spawned(r)) + Cardinality(Recorded(r)) <= MaxRuns

\* The event check looks at cached routines, and only ids in use have rows.
Held ==
    /\ ev # None => \A r \in ev : cache[r] # None
    /\ \A r \in Routines : row[r] # None => r \in born

\* A cache lists the routines that the table lists.
UpToDate(list) == \A r \in Routines : list[r] = None <=> list_event_routines[r] = None

\* Without a lapse one tool call at a time is under way.  Until it has written, the
\* cache is up to date; after it has read, its list is.
OneToolAtATime ==
    ~lapse =>
        /\ \A k, l \in Callers : tool[k].pc # "idle" /\ tool[l].pc # "idle" => k = l
        /\ \A k \in Callers : tool[k].pc = "got" => UpToDate(cache)
        /\ \A k \in Callers : tool[k].pc = "store" => UpToDate(tool[k].list)
        /\ (\A k \in Callers : tool[k].pc = "idle") => UpToDate(cache)

CountInv == CountIsRight /\ OpenCovers /\ SpawnedWithinLimit
RoutinesInv == Types /\ CountInv /\ Held /\ OneToolAtATime
-----------------------------------------------------------------------------
(* Counting tasks. *)

\* A disturbance is taken off the scenario; a fault or a crash is remembered.
LEMMA SpendOK ==
  ASSUME Types, NEW k \in Disturbances, Spend(k)
  PROVE  /\ spent' \in [left : [Disturbances -> Nat], faulty : BOOLEAN]
         /\ k \in {"fault", "crash"} => spent'.faulty
         /\ ~spent'.faulty => ~spent.faulty
<1>1. spent' = [left |-> [spent.left EXCEPT ![k] = @ - 1],
                faulty |-> spent.faulty \/ k \in {"fault", "crash"}]
  BY Zenon DEF Spend
<1>2. spent.left \in [Disturbances -> Nat] /\ spent.left[k] > 0 /\ spent.left[k] \in Nat
  BY DEF Types, Spend
<1>3. [spent.left EXCEPT ![k] = @ - 1] \in [Disturbances -> Nat]
  BY <1>2
<1>4. spent.faulty \in BOOLEAN
  BY DEF Types
<1> QED BY <1>1, <1>3, <1>4

\* A statement that fails is a fault.
LEMMA DbOK ==
  ASSUME Types, NEW ok \in BOOLEAN, Db(ok)
  PROVE  /\ spent' \in [left : [Disturbances -> Nat], faulty : BOOLEAN]
         /\ ~spent'.faulty => ok /\ ~spent.faulty
<1>1. CASE ok
  BY <1>1 DEF Db, Types
<1>2. CASE ~ok
  BY <1>2, SpendOK DEF Db, Disturbances
<1> QED BY <1>1, <1>2

\* One task moves: the sets it enters and leaves.
LEMMA OneTaskMoves ==
  ASSUME Types, NEW t \in Tasks, NEW new \in {Idle} \cup RunningTask,
         task' = [task EXCEPT ![t] = new]
  PROVE  /\ task' \in [Tasks -> {Idle} \cup RunningTask]
         /\ new.pc = "executing" => Executing' = Executing \cup {t}
         /\ new.pc # "executing" => Executing' = Executing \ {t}
         /\ \A r \in Routines :
              /\ new.pc \in {"executing", "finishing"} /\ new.r = r =>
                   Recorded(r)' = Recorded(r) \cup {t}
              /\ ~(new.pc \in {"executing", "finishing"} /\ new.r = r) =>
                   Recorded(r)' = Recorded(r) \ {t}
              /\ new.pc = "spawned" /\ new.r = r => Spawned(r)' = Spawned(r) \cup {t}
              /\ ~(new.pc = "spawned" /\ new.r = r) => Spawned(r)' = Spawned(r) \ {t}
<1>1. task \in [Tasks -> {Idle} \cup RunningTask]
  BY DEF Types
<1>2. task' \in [Tasks -> {Idle} \cup RunningTask]
  BY <1>1
<1>3. \A u \in Tasks : task'[u] = IF u = t THEN new ELSE task[u]
  BY <1>1
<1>4. /\ new.pc = "executing" => Executing' = Executing \cup {t}
      /\ new.pc # "executing" => Executing' = Executing \ {t}
  BY <1>3 DEF Executing
<1>5. ASSUME NEW r \in Routines
      PROVE  /\ new.pc \in {"executing", "finishing"} /\ new.r = r =>
                  Recorded(r)' = Recorded(r) \cup {t}
             /\ ~(new.pc \in {"executing", "finishing"} /\ new.r = r) =>
                  Recorded(r)' = Recorded(r) \ {t}
             /\ new.pc = "spawned" /\ new.r = r => Spawned(r)' = Spawned(r) \cup {t}
             /\ ~(new.pc = "spawned" /\ new.r = r) => Spawned(r)' = Spawned(r) \ {t}
  BY <1>3 DEF Recorded, Spawned, Live
<1> QED BY <1>2, <1>4, <1>5

\* The sets of tasks are finite.
LEMMA TasksFinite ==
  /\ \A r : /\ IsFiniteSet(Recorded(r)) /\ IsFiniteSet(Spawned(r))
            /\ Cardinality(Recorded(r)) \in Nat /\ Cardinality(Spawned(r)) \in Nat
  /\ IsFiniteSet(Executing) /\ Cardinality(Executing) \in Nat
<1>1. /\ \A r : Recorded(r) \in SUBSET Tasks /\ Spawned(r) \in SUBSET Tasks
      /\ Executing \in SUBSET Tasks
  BY DEF Recorded, Spawned, Live, Executing
<1> HIDE DEF Recorded, Spawned, Executing
<1> QED BY <1>1, FiniteAssumption, FS_Subset, FS_CardinalityType

\* A step that moves no task and counts nothing keeps the counts.
LEMMA SameCounts ==
  ASSUME CountInv, UNCHANGED <<task, open, running, raced>>, ~Faulty' => ~Faulty
  PROVE  CountInv'
  BY DEF CountInv, CountIsRight, OpenCovers, SpawnedWithinLimit, Recorded, Spawned, Live,
     Executing

\* A routine fires: it is counted before it has a row.
LEMMA SpawnCounts ==
  ASSUME Types, CountInv, NEW r \in Routines, NEW snap \in Routine, spawn_fire(r, snap),
         UNCHANGED <<open, running>>,
         ~Faulty' => ~Faulty /\ open[r] < MaxRuns
  PROVE  /\ task' \in [Tasks -> {Idle} \cup RunningTask]
         /\ raced' \subseteq Routines
         /\ CountInv'
<1> DEFINE new == [pc |-> "spawned", r |-> r, snap |-> snap]
<1>1. PICK t \in Tasks : task[t] = Idle /\ task' = [task EXCEPT ![t] = new]
  <2>1. \E t \in Tasks : task[t] = Idle
    BY DEF spawn_fire
  <2> QED BY <2>1 DEF spawn_fire
<1>2. new \in {Idle} \cup RunningTask /\ new.pc = "spawned" /\ new.r = r
  BY DEF RunningTask, TaskPc
<1>3. raced' = IF Spawned(r) # {} THEN raced \cup {r} ELSE raced
  BY DEF spawn_fire, Spawned
<1> HIDE DEF new
<1>4. /\ task' \in [Tasks -> {Idle} \cup RunningTask]
      /\ \A q \in Routines :
           /\ Recorded(q)' = Recorded(q) \ {t}
           /\ Spawned(q)' = IF q = r THEN Spawned(q) \cup {t} ELSE Spawned(q) \ {t}
      /\ Executing' = Executing \ {t}
  BY <1>1, <1>2, OneTaskMoves, ZenonT(60)
<1>5. t \notin Executing /\ \A q : t \notin Recorded(q) /\ t \notin Spawned(q)
  BY <1>1 DEF Executing, Recorded, Spawned, Live, Idle
<1>6. /\ Executing' = Executing
      /\ \A q \in Routines : Recorded(q)' = Recorded(q)
      /\ \A q \in Routines \ {r} : Spawned(q)' = Spawned(q)
      /\ Spawned(r)' = Spawned(r) \cup {t}
  <2>1. \A S : t \notin S => S \ {t} = S
    OBVIOUS
  <2> QED BY <1>4, <1>5, <2>1, Zenon
<1>7. Cardinality(Spawned(r)') = Cardinality(Spawned(r)) + 1
  BY <1>5, <1>6, TasksFinite, FS_AddElement
<1>8. CountIsRight' /\ OpenCovers'
  BY <1>6 DEF CountInv, CountIsRight, OpenCovers
<1>9. SpawnedWithinLimit'
  <2> SUFFICES ASSUME ~Faulty', NEW q \in Routines \ raced'
               PROVE  Cardinality(Spawned(q)') + Cardinality(Recorded(q)') <= MaxRuns
    BY DEF SpawnedWithinLimit
  <2>1. CASE q = r
    <3>1. Spawned(r) = {} /\ Cardinality(Spawned(r)) = 0
      BY <1>3, <2>1, FS_EmptySet
    <3>2. open[r] = Cardinality(Recorded(r)) /\ open[r] < MaxRuns
      BY DEF CountInv, OpenCovers
    <3> QED
      BY <1>6, <1>7, <2>1, <3>1, <3>2, TasksFinite, GuardAssumption
  <2>2. CASE q # r
    BY <1>3, <1>6, <2>2 DEF CountInv, SpawnedWithinLimit
  <2> QED BY <2>1, <2>2
<1> QED
  BY <1>3, <1>4, <1>8, <1>9 DEF CountInv, Types

\* A task records its run.
LEMMA RecordCounts ==
  ASSUME Types, CountInv, NEW t \in Tasks, RunRecord(t, TRUE)
  PROVE  /\ task' \in [Tasks -> {Idle} \cup RunningTask]
         /\ open' \in [Routines -> Nat] /\ CountInv'
<1> DEFINE new == [task[t] EXCEPT !.pc = "executing"]
<1>a. task[t] \in RunningTask /\ task[t].pc = "spawned"
  BY DEF RunRecord, Types, Idle
<1> PICK r \in Routines : r = task[t].r
  BY <1>a DEF RunningTask
<1>1. r \in Routines /\ new \in RunningTask /\ new.pc = "executing" /\ new.r = r
  BY <1>a DEF RunningTask, TaskPc
<1>2. task' = [task EXCEPT ![t] = new]
  BY DEF RunRecord
<1>3. t \notin Executing /\ \A q : t \notin Recorded(q) /\ (t \in Spawned(q) <=> q = r)
  BY <1>a DEF Executing, Recorded, Spawned, Live
<1> HIDE DEF new
<1>4. /\ task' \in [Tasks -> {Idle} \cup RunningTask]
      /\ Executing' = Executing \cup {t}
      /\ Recorded(r)' = Recorded(r) \cup {t}
      /\ \A q \in Routines \ {r} : Recorded(q)' = Recorded(q) \ {t}
      /\ \A q \in Routines : Spawned(q)' = Spawned(q) \ {t}
  BY <1>1, <1>2, OneTaskMoves
<1>5. /\ Cardinality(Executing') = Cardinality(Executing) + 1
      /\ Cardinality(Recorded(r)') = Cardinality(Recorded(r)) + 1
      /\ Cardinality(Spawned(r)') = Cardinality(Spawned(r)) - 1
      /\ \A q \in Routines \ {r} : Recorded(q)' = Recorded(q) /\ Spawned(q)' = Spawned(q)
  <2>1. Cardinality(Executing') = Cardinality(Executing) + 1
    BY <1>3, <1>4, TasksFinite, FS_AddElement
  <2>2. Cardinality(Recorded(r)') = Cardinality(Recorded(r)) + 1
    BY <1>3, <1>4, TasksFinite, FS_AddElement
  <2>3. Cardinality(Spawned(r)') = Cardinality(Spawned(r)) - 1
    <3>1. Spawned(r)' = Spawned(r) \ {t} /\ t \in Spawned(r)
      BY <1>3, <1>4
    <3>2. IsFiniteSet(Spawned(r)) /\ Cardinality(Spawned(r)) \in Nat
      BY TasksFinite
    <3> HIDE DEF Spawned
    <3>3. Cardinality(Spawned(r) \ {t}) = Cardinality(Spawned(r)) - 1
      BY <3>1, <3>2, FS_RemoveElement
    <3> QED BY <3>1, <3>3, Zenon
  <2>4. \A S : t \notin S => S \ {t} = S
    OBVIOUS
  <2> QED BY <1>3, <1>4, <2>1, <2>2, <2>3, <2>4, Zenon
<1>6. CountIsRight'
  BY <1>5 DEF RunRecord, CountInv, CountIsRight
<1>7. /\ open' = [open EXCEPT ![r] = @ + 1] /\ open \in [Routines -> Nat]
      /\ raced' = raced /\ Faulty' = Faulty
  BY DEF RunRecord, create_routine_run, Faulty, Types
<1>8. OpenCovers'
  <2> SUFFICES ASSUME NEW q \in Routines
               PROVE  /\ open'[q] >= Cardinality(Recorded(q)')
                      /\ ~Faulty' => open'[q] = Cardinality(Recorded(q)')
    BY DEF OpenCovers
  <2>1. open[q] >= Cardinality(Recorded(q)) /\ (~Faulty => open[q] = Cardinality(Recorded(q)))
    BY DEF CountInv, OpenCovers
  <2>2. CASE q = r
    <3>1. open'[q] = open[q] + 1
      BY <1>7, <2>2
    <3>2. Cardinality(Recorded(q)') = Cardinality(Recorded(q)) + 1
      BY <1>5, <2>2
    <3> QED BY <1>7, <2>1, <3>1, <3>2, TasksFinite
  <2>3. CASE q # r
    BY <1>5, <1>7, <2>1, <2>3
  <2> QED BY <2>2, <2>3
<1>9. SpawnedWithinLimit'
  <2> SUFFICES ASSUME ~Faulty', NEW q \in Routines \ raced'
               PROVE  Cardinality(Spawned(q)') + Cardinality(Recorded(q)') <= MaxRuns
    BY DEF SpawnedWithinLimit
  <2>1. Cardinality(Spawned(q)) + Cardinality(Recorded(q)) <= MaxRuns
    BY <1>7 DEF CountInv, SpawnedWithinLimit
  <2>2. CASE q = r
    <3>1. /\ Cardinality(Recorded(q)') = Cardinality(Recorded(q)) + 1
          /\ Cardinality(Spawned(q)') = Cardinality(Spawned(q)) - 1
      BY <1>5, <2>2
    <3> QED BY <2>1, <3>1, TasksFinite, GuardAssumption
  <2>3. CASE q # r
    BY <1>5, <2>1, <2>3
  <2> QED BY <2>2, <2>3
<1>10. open' \in [Routines -> Nat]
  BY <1>7
<1> QED BY <1>4, <1>6, <1>8, <1>9, <1>10 DEF CountInv

\* The execution comes back.
LEMMA EndCounts ==
  ASSUME Types, CountInv, NEW t \in Tasks, RunEnd(t)
  PROVE  task' \in [Tasks -> {Idle} \cup RunningTask] /\ CountInv' /\ running' \in Nat
<1> DEFINE new == [task[t] EXCEPT !.pc = "finishing"]
<1>1. task[t] \in RunningTask /\ task[t].pc = "executing"
  BY DEF RunEnd, Types, Idle
<1> PICK r \in Routines : r = task[t].r
  BY <1>1 DEF RunningTask
<1>2. r \in Routines /\ new \in RunningTask /\ new.pc = "finishing" /\ new.r = r
  BY <1>1 DEF RunningTask, TaskPc
<1>3. task' = [task EXCEPT ![t] = new]
  BY DEF RunEnd
<1>4. /\ t \in Executing
      /\ \A q : t \notin Spawned(q) /\ (t \in Recorded(q) <=> q = r)
  BY <1>1 DEF Executing, Recorded, Spawned, Live
<1> HIDE DEF new
<1>5. /\ task' \in [Tasks -> {Idle} \cup RunningTask]
      /\ Executing' = Executing \ {t}
      /\ Recorded(r)' = Recorded(r) \cup {t}
      /\ \A q \in Routines \ {r} : Recorded(q)' = Recorded(q) \ {t}
      /\ \A q \in Routines : Spawned(q)' = Spawned(q) \ {t}
  BY <1>2, <1>3, OneTaskMoves
<1>6. /\ Cardinality(Executing') = Cardinality(Executing) - 1
      /\ Cardinality(Executing') \in Nat
  <2>1. Cardinality(Executing') = Cardinality(Executing) - 1
    BY <1>4, <1>5, TasksFinite, FS_RemoveElement
  <2>2. Executing' \in SUBSET Tasks
    BY DEF Executing
  <2> QED BY <2>1, <2>2, FiniteAssumption, FS_Subset, FS_CardinalityType
<1>7. \A q \in Routines : Recorded(q)' = Recorded(q) /\ Spawned(q)' = Spawned(q)
  <2>1. \A S : (t \notin S => S \ {t} = S) /\ (t \in S => S \cup {t} = S)
    OBVIOUS
  <2>2. Recorded(r)' = Recorded(r)
    BY <1>4, <1>5, <2>1, Zenon
  <2>3. \A q \in Routines \ {r} : Recorded(q)' = Recorded(q)
    BY <1>4, <1>5, <2>1, Zenon
  <2>4. \A q \in Routines : Spawned(q)' = Spawned(q)
    BY <1>4, <1>5, <2>1, Zenon
  <2> QED BY <2>2, <2>3, <2>4
<1>8. CountIsRight' /\ running' \in Nat
  BY <1>6 DEF RunEnd, CountInv, CountIsRight
<1>9. OpenCovers' /\ SpawnedWithinLimit'
  BY <1>7 DEF RunEnd, CountInv, OpenCovers, SpawnedWithinLimit, Faulty
<1> QED BY <1>5, <1>8, <1>9 DEF CountInv

\* The run's row is completed, or stays running for good.
LEMMA CompleteCounts ==
  ASSUME Types, CountInv, NEW t \in Tasks, NEW ok \in BOOLEAN, RunComplete(t, ok)
  PROVE  /\ task' \in [Tasks -> {Idle} \cup RunningTask]
         /\ open' \in [Routines -> Nat] /\ CountInv'
<1> DEFINE new == [task[t] EXCEPT !.pc = "completed"]
<1>1. task[t] \in RunningTask /\ task[t].pc = "finishing"
  BY DEF RunComplete, Types, Idle
<1> PICK r \in Routines : r = task[t].r
  BY <1>1 DEF RunningTask
<1>2. r \in Routines /\ new \in RunningTask /\ new.pc = "completed" /\ new.r = r
  BY <1>1 DEF RunningTask, TaskPc
<1>3. task' = [task EXCEPT ![t] = new]
  BY DEF RunComplete
<1> HIDE DEF new
<1>4. /\ task' \in [Tasks -> {Idle} \cup RunningTask]
      /\ \A q \in Routines : /\ Recorded(q)' = Recorded(q) \ {t}
                             /\ Spawned(q)' = Spawned(q) \ {t}
      /\ Executing' = Executing \ {t}
  BY <1>2, <1>3, OneTaskMoves
<1>5. /\ t \notin Executing /\ \A q : t \notin Spawned(q)
      /\ \A q : t \in Recorded(q) <=> q = r
  BY <1>1 DEF Executing, Recorded, Spawned, Live
<1>6. /\ Executing' = Executing /\ \A q \in Routines : Spawned(q)' = Spawned(q)
      /\ \A q \in Routines \ {r} : Recorded(q)' = Recorded(q)
      /\ Recorded(r)' = Recorded(r) \ {t}
  <2>1. \A S : t \notin S => S \ {t} = S
    OBVIOUS
  <2>2. \A q \in Routines : Recorded(q)' = Recorded(q) \ {t} /\ Spawned(q)' = Spawned(q) \ {t}
    BY <1>4
  <2>3. \A q \in Routines \ {r} : Recorded(q)' = Recorded(q)
    BY <1>5, <2>1, <2>2, Zenon
  <2> QED BY <1>2, <1>4, <1>5, <2>1, <2>2, <2>3, Zenon
<1>7. /\ Cardinality(Recorded(r)') = Cardinality(Recorded(r)) - 1
      /\ Cardinality(Recorded(r)) # 0
  BY <1>5, <1>6, TasksFinite, FS_RemoveElement, FS_EmptySet
<1>8. open' = (IF ok THEN [open EXCEPT ![r] = @ - 1] ELSE open) /\ open \in [Routines -> Nat]
  BY DEF RunComplete, complete_routine_run, Types
<1>9. ~Faulty' => ok /\ ~Faulty
  BY DbOK DEF RunComplete, Faulty
<1>10. open[r] >= Cardinality(Recorded(r)) /\ (~Faulty => open[r] = Cardinality(Recorded(r)))
  BY <1>2 DEF CountInv, OpenCovers
<1>11. open' \in [Routines -> Nat]
  <2>1. open[r] \in Nat /\ open[r] - 1 \in Nat
    BY <1>2, <1>7, <1>8, <1>10, TasksFinite
  <2> QED BY <1>2, <1>8, <2>1
<1>12. OpenCovers'
  <2> SUFFICES ASSUME NEW q \in Routines
               PROVE  /\ open'[q] >= Cardinality(Recorded(q)')
                      /\ ~Faulty' => open'[q] = Cardinality(Recorded(q)')
    BY DEF OpenCovers
  <2>1. CASE q = r
    <3>1. open'[q] = IF ok THEN open[r] - 1 ELSE open[r]
      BY <1>2, <1>8, <2>1
    <3>2. open[r] \in Nat /\ Cardinality(Recorded(r)) \in Nat
      BY <1>2, <1>8, TasksFinite
    <3>3. Cardinality(Recorded(q)') = Cardinality(Recorded(r)) - 1
      BY <1>7, <2>1
    <3> QED BY <1>9, <1>10, <3>1, <3>2, <3>3
  <2>2. CASE q # r
    BY <1>6, <1>8, <1>9, <2>2 DEF CountInv, OpenCovers
  <2> QED BY <2>1, <2>2
<1>13. CountIsRight'
  BY <1>6 DEF RunComplete, CountInv, CountIsRight
<1>14. SpawnedWithinLimit'
  <2> SUFFICES ASSUME ~Faulty', NEW q \in Routines \ raced'
               PROVE  Cardinality(Spawned(q)') + Cardinality(Recorded(q)') <= MaxRuns
    BY DEF SpawnedWithinLimit
  <2>1. Cardinality(Spawned(q)) + Cardinality(Recorded(q)) <= MaxRuns
    BY <1>9 DEF RunComplete, CountInv, SpawnedWithinLimit
  <2>2. /\ Spawned(q)' = Spawned(q)
        /\ \/ Cardinality(Recorded(q)') = Cardinality(Recorded(q))
           \/ Cardinality(Recorded(q)') = Cardinality(Recorded(q)) - 1
    <3>1. CASE q = r
      BY <1>6, <1>7, <3>1
    <3>2. CASE q # r
      BY <1>6, <3>2
    <3> QED BY <3>1, <3>2
  <2> QED BY <2>1, <2>2, TasksFinite, GuardAssumption
<1> QED BY <1>4, <1>11, <1>12, <1>13, <1>14 DEF CountInv

\* A task that is not recorded, or no longer, goes away.
LEMMA LeaveCounts ==
  ASSUME Types, CountInv, NEW t \in Tasks, task[t].pc \in {"spawned", "completed"},
         task' = [task EXCEPT ![t] = Idle], UNCHANGED <<open, running, raced>>,
         ~Faulty' => ~Faulty
  PROVE  task' \in [Tasks -> {Idle} \cup RunningTask] /\ CountInv'
<1>1. /\ task' \in [Tasks -> {Idle} \cup RunningTask]
      /\ \A q \in Routines : /\ Recorded(q)' = Recorded(q) \ {t}
                             /\ Spawned(q)' = Spawned(q) \ {t}
      /\ Executing' = Executing \ {t}
  <2>1. Idle.pc = "idle"
    BY DEF Idle
  <2> QED BY <2>1, OneTaskMoves
<1>2. t \notin Executing /\ \A q : t \notin Recorded(q)
  BY DEF Executing, Recorded, Live
<1>3. /\ Executing' = Executing /\ \A q \in Routines : Recorded(q)' = Recorded(q)
      /\ \A q \in Routines : Cardinality(Spawned(q)') <= Cardinality(Spawned(q))
      /\ \A q \in Routines : Cardinality(Spawned(q)') \in Nat
  BY <1>1, <1>2, TasksFinite, FS_Subset, FS_RemoveElement, FS_CardinalityType
<1>4. CountIsRight' /\ OpenCovers'
  BY <1>3 DEF CountInv, CountIsRight, OpenCovers
<1>5. SpawnedWithinLimit'
  <2> SUFFICES ASSUME ~Faulty', NEW q \in Routines \ raced'
               PROVE  Cardinality(Spawned(q)') + Cardinality(Recorded(q)') <= MaxRuns
    BY DEF SpawnedWithinLimit
  <2>1. Cardinality(Spawned(q)) + Cardinality(Recorded(q)) <= MaxRuns
    BY DEF CountInv, SpawnedWithinLimit
  <2> QED BY <1>3, <2>1, TasksFinite, GuardAssumption
<1> QED BY <1>1, <1>4, <1>5 DEF CountInv

\* A routine that its checks let through fires, or it does not.
LEMMA FireCounts ==
  ASSUME Types, CountInv, NEW r \in Routines, NEW snap \in Routine,
         \/ check_concurrent(r) /\ spawn_fire(r, snap) /\ spent' = spent
         \/ UNCHANGED <<task, raced, spent>>
         \/ Spend("fault") /\ FailedCount(r, snap),
         UNCHANGED <<open, running>>
  PROVE  /\ task' \in [Tasks -> {Idle} \cup RunningTask] /\ raced' \subseteq Routines
         /\ spent' \in [left : [Disturbances -> Nat], faulty : BOOLEAN]
         /\ CountInv'
<1>1. CASE check_concurrent(r) /\ spawn_fire(r, snap) /\ spent' = spent
  <2>1. ~Faulty' => ~Faulty /\ open[r] < MaxRuns
    BY <1>1 DEF Faulty, check_concurrent, count_running_routine_runs
  <2> QED BY <1>1, <2>1, SpawnCounts DEF Types
<1>2. CASE UNCHANGED <<task, raced, spent>>
  BY <1>2, SameCounts DEF Types, Faulty
<1>3. CASE Spend("fault") /\ FailedCount(r, snap)
  <2>1. /\ spent' \in [left : [Disturbances -> Nat], faulty : BOOLEAN]
        /\ Faulty'
    BY <1>3, SpendOK DEF Disturbances, Faulty
  <2>2. CASE UNCHANGED <<task, raced>>
    BY <2>1, <2>2, SameCounts DEF Types
  <2>3. CASE spawn_fire(r, snap)
    BY <2>1, <2>3, SpawnCounts
  <2> QED BY <1>3, <2>1, <2>2, <2>3 DEF FailedCount
<1> QED BY <1>1, <1>2, <1>3
-----------------------------------------------------------------------------
(* Rows and tools. *)

\* The fire times of a schedule are instants.
LEMMA FireTime ==
  ASSUME Types, NEW s \in Schedules
  PROVE  next_cron_fire(s) \in Nat
<1>1. now \in Nat /\ Period[s] \in Nat /\ Period[s] > 0
  BY PeriodAssumption, GuardAssumption DEF Types
<1>2. \A n, p \in Nat : p > 0 => n \div p \in Nat
  OBVIOUS
<1>3. \A n, p \in Nat : n * p \in Nat
  OBVIOUS
<1>4. now \div Period[s] + 1 \in Nat
  BY <1>1, <1>2
<1> QED BY <1>1, <1>3, <1>4 DEF next_cron_fire

\* What the table lists for the event cache.
LEMMA Listed ==
  ASSUME NEW r \in Routines
  PROVE  list_event_routines[r] = None <=>
            ~(row[r] # None /\ row[r].on /\ row[r].trig = "event")
  BY DEF list_event_routines

\* The lists are snapshots of the table.
LEMMA ListsAreSnapshots ==
  ASSUME Types
  PROVE  /\ list_event_routines \in Snapshots /\ list_due_cron_routines \in Snapshots
         /\ NoSnapshot \in Snapshots
  BY DEF Types, Snapshots, list_event_routines, list_due_cron_routines, NoSnapshot

\* The statements write routines, and only to rows that are there.
LEMMA UpdateOK ==
  ASSUME Types, NEW r \in Routines, NEW new \in Edits, update_routine(r, new)
  PROVE  row' \in Snapshots /\ \A q \in Routines : row'[q] # None => row[q] # None
<1>1. CASE row[r] = None
  BY <1>1 DEF update_routine, Types
<1>2. CASE row[r] # None
  <2> DEFINE rt == [row[r] EXCEPT !.on = new.on, !.trig = new.trig, !.sched = new.sched]
  <2>1. row[r] \in Routine
    BY <1>2 DEF Types, Snapshots
  <2>2. rt \in Routine
    BY <2>1 DEF Routine, Edits
  <2>3. row' = [row EXCEPT ![r] = rt]
    BY <1>2 DEF update_routine
  <2> HIDE DEF rt
  <2> QED BY <1>2, <2>2, <2>3 DEF Types, Snapshots
<1> QED BY <1>1, <1>2

\* The runtime columns do not tell what the event cache lists.
LEMMA RuntimeOK ==
  ASSUME Types, NEW r \in Routines, NEW last \in Nat \cup {None}, NEW next \in Nat \cup {None},
         update_routine_runtime(r, last, next)
  PROVE  /\ row' \in Snapshots /\ \A q \in Routines : row'[q] # None => row[q] # None
         /\ \A q \in Routines :
              list_event_routines'[q] = None <=> list_event_routines[q] = None
<1>1. CASE row[r] = None
  BY <1>1 DEF update_routine_runtime, Types, list_event_routines
<1>2. CASE row[r] # None
  <2> DEFINE rt == [row[r] EXCEPT !.last = last, !.next = next]
  <2>1. row[r] \in Routine
    BY <1>2 DEF Types, Snapshots
  <2>2. rt \in Routine /\ rt.on = row[r].on /\ rt.trig = row[r].trig
    BY <2>1 DEF Routine
  <2>3. row' = [row EXCEPT ![r] = rt] /\ rt # None
    BY <1>2, <2>2, NullAssumption DEF update_routine_runtime
  <2> HIDE DEF rt
  <2>4. \A q \in Routines : row'[q] = IF q = r THEN rt ELSE row[q]
    BY <2>3 DEF Types, Snapshots
  <2>5. ASSUME NEW q \in Routines
        PROVE  list_event_routines'[q] = None <=> list_event_routines[q] = None
    BY <1>2, <2>2, <2>3, <2>4 DEF list_event_routines
  <2> QED BY <1>2, <2>2, <2>3, <2>4, <2>5 DEF Types, Snapshots
<1> QED BY <1>1, <1>2

\* What routine_update computes are columns of a routine.
LEMMA EditedType ==
  ASSUME NEW rt \in Routine, NEW w \in Changes
  PROVE  Edited(rt, w) \in Edits
<1>1. w.kind = "schedule" => w.sched \in Schedules
  BY DEF Changes
<1> QED BY <1>1 DEF Edited, Edits, Routine, Triggers

\* A step that changes neither rows nor tools nor the cache.
LEMMA SameTools ==
  ASSUME Held, OneToolAtATime, UNCHANGED <<row, born, cache, tool, lapse>>,
         ev' = None \/ (ev # None /\ ev' \subseteq ev)
  PROVE  Held' /\ OneToolAtATime'
  BY DEF Held, OneToolAtATime, UpToDate, list_event_routines

-----------------------------------------------------------------------------
(* The steps. *)

\* Initially.
LEMMA RoutinesInit == Init => RoutinesInv
<1> SUFFICES ASSUME Init PROVE RoutinesInv
  OBVIOUS
<1>1. Types
  <2>1. PICK s \in Scenarios : spent = [left |-> s, faulty |-> FALSE]
    BY DEF Init
  <2>2. spent \in [left : [Disturbances -> Nat], faulty : BOOLEAN]
    BY <2>1, ScenarioAssumption
  <2>3. tool \in [Callers -> ToolState] /\ task \in [Tasks -> {Idle} \cup RunningTask]
    BY DEF Init, ToolState, Idle
  <2>4. NoSnapshot \in Snapshots
    BY DEF NoSnapshot, Snapshots
  <2>5. now \in 0 .. MaxTime /\ open \in [Routines -> Nat]
    BY GuardAssumption DEF Init
  <2> QED BY <2>2, <2>3, <2>4, <2>5 DEF Types, Init
<1>2. /\ \A r \in Routines : Recorded(r) = {} /\ Spawned(r) = {}
      /\ Executing = {}
  BY DEF Init, Idle, Recorded, Spawned, Executing, Live
<1>3. CountInv
  <2>1. CountIsRight
    BY <1>2, FS_EmptySet DEF CountIsRight, Init
  <2>2. OpenCovers
    BY <1>2, FS_EmptySet DEF OpenCovers, Init
  <2>3. SpawnedWithinLimit
    BY <1>2, FS_EmptySet, GuardAssumption DEF SpawnedWithinLimit
  <2> QED BY <2>1, <2>2, <2>3 DEF CountInv
<1>4. Held /\ OneToolAtATime
  BY DEF Init, Held, OneToolAtATime, UpToDate, list_event_routines, Idle, NoSnapshot
<1> QED BY <1>1, <1>3, <1>4 DEF RoutinesInv

\* A trigger looks at a routine: the cron pass, the event check, a manual fire.
LEMMA TriggersKeep ==
  ASSUME RoutinesInv, NEW r \in Routines, CronCheck(r) \/ EventCheck(r) \/ fire_manual(r)
  PROVE  RoutinesInv'
<1> USE DEF RoutinesInv
<1>1. CASE CronCheck(r)
  <2>1. due[r] \in Routine
    BY <1>1 DEF CronCheck, Types, Snapshots
  <2>2. due' \in Snapshots
    BY <1>1, ListsAreSnapshots DEF CronCheck, Types, Snapshots
  <2>3. \/ check_concurrent(r) /\ spawn_fire(r, due[r]) /\ spent' = spent
        \/ UNCHANGED <<task, raced, spent>>
        \/ Spend("fault") /\ FailedCount(r, due[r])
    BY <1>1 DEF CronCheck
  <2>4. /\ task' \in [Tasks -> {Idle} \cup RunningTask] /\ raced' \subseteq Routines
        /\ spent' \in [left : [Disturbances -> Nat], faulty : BOOLEAN] /\ CountInv'
    BY <1>1, <2>1, <2>3, FireCounts DEF CronCheck
  <2>5. Held' /\ OneToolAtATime'
    BY <1>1, SameTools DEF CronCheck
  <2> QED BY <1>1, <2>2, <2>4, <2>5 DEF CronCheck, Types
<1>2. CASE EventCheck(r)
  <2>1. cache[r] \in Routine
    BY <1>2 DEF EventCheck, Types, Snapshots, Held
  <2>2. \/ check_concurrent(r) /\ spawn_fire(r, cache[r]) /\ spent' = spent
        \/ UNCHANGED <<task, raced, spent>>
        \/ Spend("fault") /\ FailedCount(r, cache[r])
    BY <1>2 DEF EventCheck
  <2>3. /\ task' \in [Tasks -> {Idle} \cup RunningTask] /\ raced' \subseteq Routines
        /\ spent' \in [left : [Disturbances -> Nat], faulty : BOOLEAN] /\ CountInv'
    BY <1>2, <2>1, <2>2, FireCounts DEF EventCheck
  <2>4. ev' = None \/ (ev # None /\ ev' \subseteq ev)
    BY <1>2 DEF EventCheck
  <2>5. Held' /\ OneToolAtATime'
    BY <1>2, <2>4, SameTools DEF EventCheck
  <2> QED BY <1>2, <2>3, <2>4, <2>5 DEF EventCheck, Types
<1>3. CASE fire_manual(r)
  <2>1. row[r] \in Routine
    BY <1>3 DEF fire_manual, Types, Snapshots, get_routine
  <2>2. /\ spent' \in [left : [Disturbances -> Nat], faulty : BOOLEAN]
        /\ ~Faulty' => ~Faulty
    BY <1>3, SpendOK DEF fire_manual, Disturbances, Faulty
  <2>3. /\ check_concurrent(r) => open[r] < MaxRuns
        /\ check_concurrent(r) /\ spawn_fire(r, row[r]) /\ UNCHANGED <<open, running>>
    BY <1>3 DEF fire_manual, check_concurrent, count_running_routine_runs, get_routine
  <2>4. task' \in [Tasks -> {Idle} \cup RunningTask] /\ raced' \subseteq Routines /\ CountInv'
    BY <2>1, <2>2, <2>3, SpawnCounts
  <2>5. Held' /\ OneToolAtATime'
    BY <1>3, SameTools DEF fire_manual, Types
  <2> QED BY <1>3, <2>2, <2>4, <2>5 DEF fire_manual, Types
<1> QED BY <1>1, <1>2, <1>3

\* Times that fall back stay times, and no routine comes, goes or changes its kind.
LEMMA AgoKeeps ==
  ASSUME NEW snaps \in Snapshots
  PROVE  /\ Ago(snaps) \in Snapshots
         /\ \A r \in Routines :
              /\ Ago(snaps)[r] = None <=> snaps[r] = None
              /\ snaps[r] # None => /\ Ago(snaps)[r].on = snaps[r].on
                                    /\ Ago(snaps)[r].trig = snaps[r].trig
<1>1. ASSUME NEW x \in Nat \cup {None} PROVE Earlier(x) \in Nat \cup {None}
  BY <1>1, ClockAssumption, GuardAssumption, NullAssumption DEF Earlier
<1>2. ASSUME NEW rt \in Routine
      PROVE  LET new == [rt EXCEPT !.next = Earlier(@), !.last = Earlier(@)]
             IN new \in Routine /\ new # None /\ new.on = rt.on /\ new.trig = rt.trig
  <2> DEFINE new == [rt EXCEPT !.next = Earlier(@), !.last = Earlier(@)]
  <2>1. Earlier(rt.next) \in Nat \cup {None} /\ Earlier(rt.last) \in Nat \cup {None}
    BY <1>1 DEF Routine
  <2>2. new \in Routine /\ new.on = rt.on /\ new.trig = rt.trig
    BY <2>1 DEF Routine
  <2>3. new # None
    BY <2>2, NullAssumption
  <2> QED BY <2>2, <2>3
<1>3. ASSUME NEW r \in Routines
      PROVE  /\ Ago(snaps)[r] \in Routine \cup {None}
             /\ Ago(snaps)[r] = None <=> snaps[r] = None
             /\ snaps[r] # None => /\ Ago(snaps)[r].on = snaps[r].on
                                   /\ Ago(snaps)[r].trig = snaps[r].trig
  <2>1. CASE snaps[r] = None
    BY <2>1 DEF Ago
  <2>2. CASE snaps[r] # None
    <3>1. snaps[r] \in Routine
      BY <2>2 DEF Snapshots
    <3>2. Ago(snaps)[r] = [snaps[r] EXCEPT !.next = Earlier(@), !.last = Earlier(@)]
      BY <2>2 DEF Ago
    <3> QED BY <1>2, <2>2, <3>1, <3>2
  <2> QED BY <2>1, <2>2
<1>4. Ago(snaps) \in [Routines -> Routine \cup {None}]
  BY <1>3 DEF Ago
<1> QED BY <1>3, <1>4 DEF Snapshots

\* The clock falls back.
LEMMA ClockTurns ==
  ASSUME RoutinesInv, Tick, ~(now < MaxTime)
  PROVE  RoutinesInv'
<1> USE DEF RoutinesInv
<1>1. /\ now' = MaxTime + 1 - Cycle
      /\ row' = Ago(row) /\ cache' = Ago(cache) /\ due' = Ago(due)
      /\ tool' = [k \in Callers |-> IF tool[k].pc = "store"
                                       THEN [pc |-> "store", list |-> Ago(tool[k].list)]
                                       ELSE tool[k]]
      /\ UNCHANGED <<born, open, running, task, ev, raced, lapse, spent>>
  BY DEF Tick
<1>2. now' \in 0 .. MaxTime
  BY <1>1, ClockAssumption, GuardAssumption
<1>3. row' \in Snapshots /\ cache' \in Snapshots /\ due' \in Snapshots
  BY <1>1, AgoKeeps DEF Types
<1>4. /\ \A r \in Routines : cache'[r] = None <=> cache[r] = None
      /\ \A r \in Routines : row'[r] = None <=> row[r] = None
  BY <1>1, AgoKeeps DEF Types
<1>5. \A r \in Routines : list_event_routines'[r] = None <=> list_event_routines[r] = None
  <2> TAKE r \in Routines
  <2>1. row \in Snapshots
    BY DEF Types
  <2>2. row[r] # None => row'[r].on = row[r].on /\ row'[r].trig = row[r].trig
    BY <1>1, <2>1, AgoKeeps
  <2>3. /\ list_event_routines[r] = None
             <=> ~(row[r] # None /\ row[r].on /\ row[r].trig = "event")
        /\ list_event_routines'[r] = None
             <=> ~(row'[r] # None /\ row'[r].on /\ row'[r].trig = "event")
    BY DEF list_event_routines
  <2> QED BY <1>4, <2>2, <2>3
<1>6. ASSUME NEW k \in Callers
      PROVE  /\ tool'[k] \in ToolState /\ tool'[k].pc = tool[k].pc
             /\ tool[k].pc = "store" => \A r \in Routines :
                    tool'[k].list[r] = None <=> tool[k].list[r] = None
  <2>1. CASE tool[k].pc # "store"
    BY <1>1, <2>1 DEF Types
  <2>2. CASE tool[k].pc = "store"
    <3>1. tool[k].list \in Snapshots
      BY <2>2 DEF Types, ToolState
    <3>2. tool'[k] = [pc |-> "store", list |-> Ago(tool[k].list)]
      BY <1>1, <2>2
    <3>3. Ago(tool[k].list) \in Snapshots
          /\ \A r \in Routines : Ago(tool[k].list)[r] = None <=> tool[k].list[r] = None
      BY <3>1, AgoKeeps
    <3> QED BY <2>2, <3>2, <3>3 DEF ToolState
  <2> QED BY <2>1, <2>2
<1>7. tool' \in [Callers -> ToolState]
  BY <1>1, <1>6
<1>8. Types'
  BY <1>1, <1>2, <1>3, <1>7 DEF Types
<1>9. CountInv'
  BY <1>1, SameCounts DEF Faulty
<1>10. Held'
  BY <1>1, <1>4 DEF Held, Types
<1>11. OneToolAtATime'
  <2>1. UpToDate(cache) => UpToDate(cache)'
    BY <1>4, <1>5 DEF UpToDate
  <2>2. ASSUME NEW k \in Callers, tool[k].pc = "store", UpToDate(tool[k].list)
        PROVE  UpToDate(tool[k].list)'
    BY <1>5, <1>6, <2>2 DEF UpToDate
  <2> QED BY <1>1, <1>6, <2>1, <2>2 DEF OneToolAtATime
<1> QED BY <1>8, <1>9, <1>10, <1>11

\* The clock, the cron list and a message.
LEMMA PassesKeep ==
  ASSUME RoutinesInv, \/ Tick \/ CronList \/ \E S \in SUBSET Routines : EventMatch(S)
                      \/ UNCHANGED vars
  PROVE  RoutinesInv'
<1> USE DEF RoutinesInv
<1>1. CASE Tick
  <2> SUFFICES ASSUME now < MaxTime PROVE RoutinesInv'
    BY <1>1, ClockTurns
  <2>1. CountInv' /\ Held' /\ OneToolAtATime'
    BY <1>1, SameCounts, SameTools DEF Tick, Faulty, Types
  <2>2. now' \in 0 .. MaxTime
    BY <1>1, GuardAssumption DEF Tick, Types
  <2> QED BY <1>1, <2>1, <2>2 DEF Tick, Types
<1>2. CASE CronList
  <2>1. CountInv' /\ Held' /\ OneToolAtATime'
    BY <1>2, SameCounts, SameTools DEF CronList, Faulty, Types
  <2> QED BY <1>2, <2>1, ListsAreSnapshots DEF CronList, Types
<1>3. ASSUME NEW S \in SUBSET Routines, EventMatch(S) PROVE RoutinesInv'
  <2>1. /\ spent' \in [left : [Disturbances -> Nat], faulty : BOOLEAN]
        /\ ~Faulty' => ~Faulty
    BY <1>3, SpendOK DEF EventMatch, Disturbances, Faulty
  <2>2. CountInv'
    BY <1>3, <2>1, SameCounts DEF EventMatch
  <2>3. Held' /\ OneToolAtATime'
    BY <1>3 DEF EventMatch, Held, OneToolAtATime, UpToDate, list_event_routines
  <2> QED BY <1>3, <2>1, <2>2, <2>3 DEF EventMatch, Types
<1>4. CASE UNCHANGED vars
  <2>1. CountInv' /\ Held' /\ OneToolAtATime'
    BY <1>4, SameCounts, SameTools DEF vars, Faulty, Types
  <2> QED BY <1>4, <2>1 DEF vars, Types
<1> QED BY <1>1, <1>2, <1>3, <1>4

\* The task that runs a routine.
LEMMA RunsKeep ==
  ASSUME RoutinesInv, NEW t \in Tasks, RunStep(t)
  PROVE  RoutinesInv'
<1> USE DEF RoutinesInv
<1>1. CASE RunEnd(t)
  <2>1. task' \in [Tasks -> {Idle} \cup RunningTask] /\ CountInv'
    BY <1>1, EndCounts
  <2>2. Held' /\ OneToolAtATime'
    BY <1>1, SameTools DEF RunEnd, Types
  <2> QED BY <1>1, <2>1, <2>2 DEF RunEnd, Types
<1>2. CASE RunRecord(t, TRUE)
  <2>1. /\ task' \in [Tasks -> {Idle} \cup RunningTask]
        /\ open' \in [Routines -> Nat] /\ CountInv'
    BY <1>2, RecordCounts
  <2>2. Held' /\ OneToolAtATime'
    BY <1>2, SameTools DEF RunRecord, Types
  <2> QED BY <1>2, <2>1, <2>2 DEF RunRecord, Types
<1>3. CASE RunRecord(t, FALSE)
  <2>1. /\ spent' \in [left : [Disturbances -> Nat], faulty : BOOLEAN]
        /\ ~Faulty' => ~Faulty
    <3>1. UNCHANGED spent \/ Spend("fault")
      BY <1>3 DEF RunRecord
    <3> QED BY <3>1, SpendOK DEF Disturbances, Faulty, Types
  <2>2. /\ task[t].pc = "spawned" /\ task' = [task EXCEPT ![t] = Idle]
        /\ UNCHANGED <<open, running, raced>>
    BY <1>3 DEF RunRecord
  <2>3. task' \in [Tasks -> {Idle} \cup RunningTask] /\ CountInv'
    BY <2>1, <2>2, LeaveCounts
  <2>4. Held' /\ OneToolAtATime'
    BY <1>3, SameTools DEF RunRecord, Types
  <2> QED BY <1>3, <2>1, <2>2, <2>3, <2>4 DEF RunRecord, Types
<1>4. ASSUME NEW ok \in BOOLEAN, RunComplete(t, ok) PROVE RoutinesInv'
  <2>1. /\ task' \in [Tasks -> {Idle} \cup RunningTask]
        /\ open' \in [Routines -> Nat] /\ CountInv'
    BY <1>4, CompleteCounts
  <2>2. spent' \in [left : [Disturbances -> Nat], faulty : BOOLEAN]
    BY <1>4, DbOK DEF RunComplete
  <2>3. Held' /\ OneToolAtATime'
    BY <1>4, SameTools DEF RunComplete, Types
  <2> QED BY <1>4, <2>1, <2>2, <2>3 DEF RunComplete, Types
<1>5. ASSUME NEW ok \in BOOLEAN, RunRuntime(t, ok) PROVE RoutinesInv'
  <2>1. /\ spent' \in [left : [Disturbances -> Nat], faulty : BOOLEAN]
        /\ ~Faulty' => ~Faulty
    BY <1>5, DbOK DEF RunRuntime, Faulty
  <2>2. /\ task[t].pc = "completed" /\ task' = [task EXCEPT ![t] = Idle]
        /\ UNCHANGED <<open, running, raced>>
    BY <1>5 DEF RunRuntime
  <2>3. task' \in [Tasks -> {Idle} \cup RunningTask] /\ CountInv'
    BY <2>1, <2>2, LeaveCounts
  <2>4. task[t] \in RunningTask
    BY <2>2 DEF Types, Idle
  <2>5. /\ row' \in Snapshots /\ \A q \in Routines : row'[q] # None => row[q] # None
        /\ \A q \in Routines :
             list_event_routines'[q] = None <=> list_event_routines[q] = None
    <3>1. CASE ok
      <4>1. task[t].r \in Routines /\ task[t].snap \in Routine
        BY <2>4 DEF RunningTask
      <4>2. NextFireOf(task[t].snap) \in Nat \cup {None} /\ now \in Nat
        BY <4>1, FireTime, GuardAssumption DEF NextFireOf, Routine, Types
      <4>3. update_routine_runtime(task[t].r, now, NextFireOf(task[t].snap))
        BY <1>5, <3>1 DEF RunRuntime
      <4> QED BY <4>1, <4>2, <4>3, RuntimeOK
    <3>2. CASE ~ok
      BY <1>5, <3>2 DEF RunRuntime, Types, list_event_routines
    <3> QED BY <3>1, <3>2
  <2>6. Held' /\ OneToolAtATime'
    BY <1>5, <2>5 DEF RunRuntime, Held, OneToolAtATime, UpToDate
  <2> QED BY <1>5, <2>1, <2>3, <2>5, <2>6 DEF RunRuntime, Types
<1>6. \/ RunEnd(t) \/ RunRecord(t, TRUE) \/ RunRecord(t, FALSE)
      \/ \E ok \in BOOLEAN : RunComplete(t, ok) \/ RunRuntime(t, ok)
  BY DEF RunStep
<1> QED BY <1>1, <1>2, <1>3, <1>4, <1>5, <1>6
\* routine_create: the row is new, so nobody lists or caches it yet.
LEMMA CreateKeeps ==
  ASSUME RoutinesInv, NEW k \in Callers, NEW r \in Routines, NEW g \in Triggers,
         NEW s \in Schedules, ToolCreate(k, r, g, s)
  PROVE  RoutinesInv'
<1> USE DEF RoutinesInv
<1> DEFINE rt == [on |-> TRUE, trig |-> g, sched |-> s, last |-> None,
                  next |-> IF g = "cron" THEN next_cron_fire(s) ELSE None]
           call == [pc |-> IF g = "event" THEN "refresh" ELSE "idle"]
<1>1. rt \in Routine /\ rt.trig = g
  BY FireTime DEF Routine
<1>2. /\ row' = [row EXCEPT ![r] = rt] /\ r \notin born /\ born' = born \cup {r}
      /\ tool[k].pc = "idle" /\ lapse' = (lapse \/ Overlaps(k))
  BY DEF ToolCreate, create_routine
<1>3. tool' = [tool EXCEPT ![k] = call]
  <2>1. tool[k] \in ToolState
    BY DEF Types
  <2>2. tool[k] \in [pc : {"idle", "refresh"}]
    BY <1>2, <2>1 DEF ToolState
  <2>3. [tool[k] EXCEPT !.pc = call.pc] = call
    BY <2>2
  <2> QED BY <2>3 DEF ToolCreate
<1>4. call \in ToolState /\ call.pc = (IF g = "event" THEN "refresh" ELSE "idle")
  BY DEF ToolState
<1> HIDE DEF rt, call
<1>5. row' \in Snapshots /\ tool' \in [Callers -> ToolState]
  BY <1>1, <1>2, <1>3, <1>4 DEF Types, Snapshots
<1>6. /\ spent' \in [left : [Disturbances -> Nat], faulty : BOOLEAN]
      /\ CountInv'
  <2>1. /\ spent' \in [left : [Disturbances -> Nat], faulty : BOOLEAN]
        /\ ~Faulty' => ~Faulty
    BY SpendOK DEF ToolCreate, Disturbances, Faulty
  <2> QED BY <2>1, SameCounts DEF ToolCreate
<1>7. Held'
  BY <1>2, <1>5 DEF ToolCreate, Held, Snapshots
<1>8. OneToolAtATime'
  <2> SUFFICES ASSUME ~lapse'
               PROVE  /\ \A j, l \in Callers : tool'[j].pc # "idle" /\
                             tool'[l].pc # "idle" => j = l
                      /\ \A j \in Callers : tool'[j].pc \notin {"got", "store"}
                      /\ (\A j \in Callers : tool'[j].pc = "idle") => UpToDate(cache)'
    BY DEF OneToolAtATime
  <2>1. ~lapse /\ \A j \in Callers : tool[j].pc = "idle"
    BY <1>2 DEF Overlaps, Types
  <2>2. /\ \A j \in Callers \ {k} : tool'[j].pc = "idle"
        /\ tool'[k].pc = (IF g = "event" THEN "refresh" ELSE "idle")
    BY <1>3, <1>4, <2>1 DEF Types
  <2>3. ASSUME g # "event" PROVE UpToDate(cache)'
    <3>1. UpToDate(cache) /\ cache' = cache
      BY <2>1 DEF OneToolAtATime, ToolCreate
    <3>2. row[r] = None
      BY <1>2 DEF Held
    <3>3. ASSUME NEW q \in Routines
          PROVE  list_event_routines'[q] = None <=> list_event_routines[q] = None
      BY <1>1, <1>2, <2>3, <3>2 DEF list_event_routines, Types, Snapshots
    <3> QED BY <3>1, <3>3 DEF UpToDate
  <2> QED BY <2>2, <2>3
<1> QED BY <1>2, <1>5, <1>6, <1>7, <1>8 DEF ToolCreate, Types

\* The start of routine_update and routine_delete.
LEMMA GetKeeps ==
  ASSUME RoutinesInv, NEW k \in Callers, NEW r \in Routines, NEW w \in Changes,
         ToolGet(k, r, w)
  PROVE  RoutinesInv'
<1> USE DEF RoutinesInv
<1> DEFINE call == [pc |-> "got", r |-> r, what |-> w, edit |-> Edited(row[r], w)]
<1>1. row[r] \in Routine /\ tool[k].pc = "idle"
  BY DEF ToolGet, get_routine, Types, Snapshots
<1>2. call \in ToolState /\ call.pc = "got"
  BY <1>1, EditedType DEF ToolState
<1>3. tool' = [tool EXCEPT ![k] = call] /\ lapse' = (lapse \/ Overlaps(k))
  BY DEF ToolGet, get_routine
<1> HIDE DEF call
<1>4. tool' \in [Callers -> ToolState]
  BY <1>2, <1>3 DEF Types
<1>5. /\ spent' \in [left : [Disturbances -> Nat], faulty : BOOLEAN]
      /\ ~Faulty' => ~Faulty
  BY SpendOK DEF ToolGet, Disturbances, Faulty
<1>6. CountInv' /\ Held'
  BY <1>5, SameCounts DEF ToolGet, Held
<1>7. OneToolAtATime'
  <2> SUFFICES ASSUME ~lapse'
               PROVE  /\ \A j \in Callers : tool'[j].pc # "idle" <=> j = k
                      /\ tool'[k].pc = "got"
                      /\ UpToDate(cache)'
    BY DEF OneToolAtATime
  <2>1. ~lapse /\ \A j \in Callers : tool[j].pc = "idle"
    BY <1>1, <1>3 DEF Overlaps, Types
  <2>2. UpToDate(cache)'
    BY <2>1 DEF OneToolAtATime, UpToDate, ToolGet, list_event_routines
  <2> QED BY <1>2, <1>3, <2>1, <2>2 DEF Types
<1> QED BY <1>3, <1>4, <1>5, <1>6, <1>7 DEF ToolGet, Types

\* Their statement.
LEMMA WriteKeeps ==
  ASSUME RoutinesInv, NEW k \in Callers, NEW ok \in BOOLEAN, ToolWrite(k, ok)
  PROVE  RoutinesInv'
<1> USE DEF RoutinesInv
<1>1. /\ tool[k].pc = "got" /\ tool[k] \in ToolState
      /\ tool[k].r \in Routines /\ tool[k].edit \in Edits
  BY DEF ToolWrite, Types, ToolState
<1>2. /\ spent' \in [left : [Disturbances -> Nat], faulty : BOOLEAN]
      /\ ~Faulty' => ~Faulty
  BY DbOK DEF ToolWrite, Faulty
<1>3. row' \in Snapshots /\ \A q \in Routines : row'[q] # None => row[q] # None
  <2>1. CASE ~ok
    BY <2>1 DEF ToolWrite, Types
  <2>2. CASE ok /\ tool[k].what.kind = "delete"
    BY <1>1, <2>2 DEF ToolWrite, delete_routine, Types, Snapshots
  <2>3. CASE ok /\ tool[k].what.kind # "delete"
    BY <1>1, <2>3, UpdateOK DEF ToolWrite
  <2> QED BY <2>1, <2>2, <2>3
<1>4. /\ \A j \in Callers \ {k} : tool'[j] = tool[j]
      /\ tool'[k].pc = IF ok THEN "refresh" ELSE "idle"
      /\ tool' \in [Callers -> ToolState]
  BY DEF ToolWrite, Types, ToolState, Idle
<1>5. CountInv' /\ Held'
  BY <1>2, <1>3, SameCounts DEF ToolWrite, Held
<1>6. OneToolAtATime'
  <2> SUFFICES ASSUME ~lapse
               PROVE  /\ \A j \in Callers \ {k} : tool'[j].pc = "idle"
                      /\ ~ok => UpToDate(cache)'
    BY <1>4 DEF OneToolAtATime, ToolWrite
  <2>1. \A j \in Callers \ {k} : tool[j].pc = "idle"
    BY <1>1 DEF OneToolAtATime
  <2>2. ASSUME ~ok PROVE UpToDate(cache)'
    BY <1>1, <2>2 DEF OneToolAtATime, ToolWrite, UpToDate, list_event_routines
  <2> QED BY <1>4, <2>1, <2>2
<1> QED BY <1>2, <1>3, <1>4, <1>5, <1>6 DEF ToolWrite, Types

\* The refresh reads the rows.
LEMMA ListKeeps ==
  ASSUME RoutinesInv, NEW k \in Callers, NEW ok \in BOOLEAN, RefreshList(k, ok)
  PROVE  RoutinesInv'
<1> USE DEF RoutinesInv
<1> DEFINE call == [pc |-> "store", list |-> list_event_routines]
<1>1. /\ spent' \in [left : [Disturbances -> Nat], faulty : BOOLEAN]
      /\ ~Faulty' => ~Faulty
  BY DbOK DEF RefreshList, Faulty
<1>2. call \in ToolState /\ call.pc = "store" /\ UpToDate(call.list)
  BY ListsAreSnapshots DEF ToolState, UpToDate
<1>3. /\ tool[k].pc = "refresh" /\ lapse' = (lapse \/ ~ok)
      /\ tool' = [tool EXCEPT ![k] = IF ok THEN call ELSE Idle]
  BY DEF RefreshList
<1> HIDE DEF call
<1>4. Idle \in ToolState /\ Idle.pc = "idle"
  BY DEF Idle, ToolState
<1>5. /\ \A j \in Callers \ {k} : tool'[j] = tool[j]
      /\ ok => tool'[k] = call
      /\ tool' \in [Callers -> ToolState]
  BY <1>2, <1>3, <1>4 DEF Types
<1>6. CountInv' /\ Held'
  BY <1>1, SameCounts DEF RefreshList, Held
<1>7. OneToolAtATime'
  <2> SUFFICES ASSUME ~lapse, ok
               PROVE  /\ \A j \in Callers \ {k} : tool'[j].pc = "idle"
                      /\ tool'[k].pc = "store" /\ UpToDate(tool[k].list)'
    BY <1>3 DEF OneToolAtATime, Types
  <2>1. \A j \in Callers \ {k} : tool[j].pc = "idle"
    BY <1>3 DEF OneToolAtATime
  <2>2. UpToDate(tool[k].list)'
    BY <1>2, <1>5 DEF UpToDate, RefreshList, list_event_routines
  <2> QED BY <1>2, <1>5, <2>1, <2>2
<1> QED BY <1>1, <1>3, <1>5, <1>6, <1>7 DEF RefreshList, Types

\* It replaces the cache.
LEMMA StoreKeeps ==
  ASSUME RoutinesInv, NEW k \in Callers, RefreshStore(k)
  PROVE  RoutinesInv'
<1> USE DEF RoutinesInv
<1>1. tool[k].pc = "store" /\ tool[k].list \in Snapshots /\ cache' = tool[k].list
  BY DEF RefreshStore, Types, ToolState
<1>2. Idle \in ToolState /\ Idle.pc = "idle"
  BY DEF Idle, ToolState
<1>3. /\ \A j \in Callers \ {k} : tool'[j] = tool[j]
      /\ tool'[k].pc = "idle" /\ tool' \in [Callers -> ToolState]
  BY <1>2 DEF RefreshStore, Types
<1>4. CountInv' /\ Held'
  BY SameCounts DEF RefreshStore, Held, Faulty
<1>5. OneToolAtATime'
  <2> SUFFICES ASSUME ~lapse
               PROVE  (\A j \in Callers : tool'[j].pc = "idle") /\ UpToDate(cache)'
    BY DEF OneToolAtATime, RefreshStore
  <2>1. \A j \in Callers \ {k} : tool[j].pc = "idle"
    BY <1>1 DEF OneToolAtATime
  <2>2. UpToDate(tool[k].list) /\ row' = row
    BY <1>1 DEF OneToolAtATime, RefreshStore
  <2> QED BY <1>1, <1>3, <2>1, <2>2 DEF UpToDate, list_event_routines
<1> QED BY <1>1, <1>3, <1>4, <1>5 DEF RefreshStore, Types

\* A restart empties everything but the tables.
LEMMA RestartKeeps ==
  ASSUME RoutinesInv, NEW ok \in BOOLEAN, Restart(ok)
  PROVE  RoutinesInv'
<1> USE DEF RoutinesInv
<1>1. /\ spent' \in [left : [Disturbances -> Nat], faulty : BOOLEAN]
      /\ Faulty'
  BY SpendOK DEF Restart, Disturbances, Faulty
<1>2. /\ tool' \in [Callers -> ToolState] /\ task' \in [Tasks -> {Idle} \cup RunningTask]
      /\ cache' \in Snapshots /\ due' \in Snapshots
  BY ListsAreSnapshots DEF Restart, ToolState, Idle
<1>3. \A r \in Routines : Recorded(r)' = {}
  BY DEF Restart, Idle, Recorded, Live
<1>4. Executing' = {}
  BY DEF Restart, Idle, Executing
<1>5. CountIsRight'
  BY <1>4, FS_EmptySet DEF Restart, CountIsRight
<1>6. OpenCovers'
  <2>1. open' \in [Routines -> Nat]
    BY DEF Restart, Types
  <2>2. \A r \in Routines : Cardinality(Recorded(r)') = 0
    BY <1>3, FS_EmptySet, Zenon
  <2>3. \A r \in Routines : open'[r] >= Cardinality(Recorded(r)')
    BY <2>1, <2>2
  <2> QED BY <1>1, <2>3 DEF OpenCovers
<1>7. SpawnedWithinLimit'
  BY <1>1 DEF SpawnedWithinLimit
<1>8. Held' /\ OneToolAtATime'
  BY DEF Restart, Held, OneToolAtATime, UpToDate, list_event_routines, Idle
<1> QED BY <1>1, <1>2, <1>5, <1>6, <1>7, <1>8 DEF Restart, CountInv, Types

\* Every step keeps the invariant.
LEMMA RoutinesStep == RoutinesInv /\ [Next]_vars => RoutinesInv'
<1> SUFFICES ASSUME RoutinesInv, [Next]_vars PROVE RoutinesInv'
  OBVIOUS
<1>1. CASE \/ Tick \/ CronList \/ \E S \in SUBSET Routines : EventMatch(S)
           \/ UNCHANGED vars
  BY <1>1, PassesKeep
<1>2. CASE \E ok \in BOOLEAN : Restart(ok)
  BY <1>2, RestartKeeps
<1>3. CASE \E r \in Routines : CronCheck(r) \/ EventCheck(r) \/ fire_manual(r)
  BY <1>3, TriggersKeep
<1>4. CASE \E t \in Tasks : RunStep(t)
  BY <1>4, RunsKeep
<1>5. ASSUME NEW k \in Callers,
             \/ \E r \in Routines, g \in Triggers, s \in Schedules : ToolCreate(k, r, g, s)
             \/ \E r \in Routines, w \in Changes : ToolGet(k, r, w)
             \/ \E ok \in BOOLEAN : ToolWrite(k, ok) \/ RefreshList(k, ok)
             \/ RefreshStore(k)
      PROVE  RoutinesInv'
  BY <1>5, CreateKeeps, GetKeeps, WriteKeeps, ListKeeps, StoreKeeps
<1> QED BY <1>1, <1>2, <1>3, <1>4, <1>5 DEF Next

\* The inductive invariant.
THEOREM RoutinesInvariant == Spec => []RoutinesInv
BY RoutinesInit, RoutinesStep, PTL DEF Spec

\* More runs of a routine than max_concurrent have raced or met a fault; a running row
\* without a task takes a fault; between tool calls the cache lists what the table lists.
THEOREM EngineKnowsTheTable == Spec => []EngineFollowsTable
<1>1. ASSUME RoutinesInv PROVE EngineFollowsTable
  <2> USE <1>1 DEF RoutinesInv
  <2>1. TypeOK
    <3>1. running \in Nat
      BY TasksFinite DEF CountInv, CountIsRight
    <3>2. \A t \in Tasks : \/ task[t] = Idle
                           \/ task[t].pc \in TaskPc /\ task[t].snap \in Routine
      BY DEF Types, RunningTask
    <3>3. \A k \in Callers : tool[k].pc \in {"idle", "got", "refresh", "store"}
      BY DEF Types, ToolState
    <3> QED BY <3>1, <3>2, <3>3 DEF TypeOK, Types
  <2>2. OverlapHasACause
    <3> SUFFICES ASSUME NEW r \in Routines, r \notin raced, ~Faulty
                 PROVE  ~(Cardinality(Recorded(r)) > MaxRuns)
      BY DEF OverlapHasACause, Recorded
    <3>1. Cardinality(Spawned(r)) + Cardinality(Recorded(r)) <= MaxRuns
      BY DEF CountInv, SpawnedWithinLimit
    <3> QED BY <3>1, TasksFinite, GuardAssumption
  <2>3. StuckHasACause
    <3> SUFFICES ASSUME NEW r \in Routines, ~Faulty
                 PROVE  ~(open[r] > Cardinality(Recorded(r)))
      BY DEF StuckHasACause, Recorded
    <3>1. open[r] = Cardinality(Recorded(r)) /\ open[r] \in Nat
      BY DEF CountInv, OpenCovers, Types
    <3> QED BY <3>1
  <2>4. CacheFollowsRows
    BY DEF CacheFollowsRows, OneToolAtATime, UpToDate
  <2> QED BY <2>1, <2>2, <2>3, <2>4 DEF EngineFollowsTable
<1> QED BY <1>1, RoutinesInvariant, PTL
=============================================================================
