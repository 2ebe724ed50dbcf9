-------------------------------- MODULE Jobs --------------------------------
(***************************************************************************)
(* The worker: job contexts and their memories (ContextManager), the state *)
(* machine of a job, tools run in a job's name (Worker), background        *)
(* subtasks (Scheduler), and the FullJob of a routine, which uses them.    *)
(*                                                                         *)
(* The two maps of ContextManager have a lock each, so creating and        *)
(* removing a job are two steps.  Nothing inserts into the scheduler's map *)
(* of tracked jobs: schedule finds it empty, and stop finds no job in it.  *)
(***************************************************************************)
EXTENDS Naturals, FiniteSets

CONSTANTS
    JobIds,     \* job ids (fresh UUIDs: each is created once)
    Clients,    \* callers of ContextManager
    FullJobs,   \* routine runs that execute a FullJob
    Calls,      \* tool calls under way in the name of jobs
    Subtasks,   \* subtask ids (fresh UUIDs)
    MaxJobs,    \* max_jobs
    MaxActions, \* bound: actions recorded for a job
    MaxFaults,  \* bound: failing statements
    None

ASSUME MaxJobsAssumption == MaxJobs \in Nat
ASSUME JobIdsAssumption == IsFiniteSet(JobIds)
ASSUME BoundsAssumption == MaxActions \in Nat /\ MaxFaults \in Nat

VARIABLES
    contexts,  \* job id -> its state, or None
    memories,  \* job id -> the number of recorded actions, or None
    used,      \* ids that have been created
    client,    \* what each caller of ContextManager is doing
    fj,        \* the FullJobs: place in the code, status of the todo, the job
    call,      \* the tool calls: the job, or None
    sub,       \* the tokio task of each subtask, and the job it works for
    listed,    \* subtasks that are in the scheduler's map
    faults,    \* statements that have failed
    hasty      \* history: jobs removed before their memory was inserted

vars == <<contexts, memories, used, client, fj, call, sub, listed, faults, hasty>>

JobState == {"Pending", "InProgress", "Completed", "Failed", "Stuck", "Cancelled"}
Idle == [pc |-> "idle", job |-> None]

\* A missing context or memory is neither a state, nor a number, nor a job.
ASSUME NoneAssumption == None \notin JobIds \cup JobState \cup Nat

TypeOK ==
    /\ contexts \in [JobIds -> JobState \cup {None}]
    /\ memories \in [JobIds -> (0 .. MaxActions) \cup {None}]
    /\ used \subseteq JobIds /\ hasty \subseteq JobIds
    /\ client \in [Clients -> [pc : {"idle", "create", "remove"}, job : JobIds \cup {None}]]
    /\ fj \in [FullJobs -> [pc : {"todo", "status", "create", "memory", "schedule", "done"},
                            todo : {"None", "Created", "AgentWorking"},
                            job : JobIds \cup {None}]]
    /\ call \in [Calls -> JobIds \cup {None}]
    /\ sub \in [Subtasks -> [pc : {"unborn", "spawned", "tool", "done"},
                             wrap : {"none", "waiting", "over"},
                             job : JobIds \cup {None}]]
    /\ listed \subseteq Subtasks
    /\ faults \in 0 .. MaxFaults

Init ==
    /\ contexts = [j \in JobIds |-> None]
    /\ memories = [j \in JobIds |-> None]
    /\ used = {} /\ hasty = {} /\ listed = {} /\ faults = 0
    /\ client = [k \in Clients |-> Idle]
    /\ fj = [f \in FullJobs |-> [pc |-> "todo", todo |-> "None", job |-> None]]
    /\ call = [c \in Calls |-> None]
    /\ sub = [s \in Subtasks |-> [pc |-> "unborn", wrap |-> "none", job |-> None]]

-----------------------------------------------------------------------------
(* JobState and WorkerJobContext *)

can_transition_to(from, to) ==
    <<from, to>> \in {<<"Pending", "InProgress">>, <<"Pending", "Cancelled">>,
                      <<"InProgress", "Completed">>, <<"InProgress", "Failed">>,
                      <<"InProgress", "Stuck">>, <<"InProgress", "Cancelled">>,
                      <<"Completed", "Failed">>,
                      <<"Stuck", "InProgress">>, <<"Stuck", "Failed">>,
                      <<"Stuck", "Cancelled">>}

is_terminal(s) == s \in {"Completed", "Failed", "Cancelled"}
is_active(s) == s \in JobState /\ ~is_terminal(s)

\* The ids active_jobs lists and active_count counts.
active_jobs == {j \in JobIds : is_active(contexts[j])}

\* A refused transition is an error and changes nothing.
transition_to(j, new) ==
    contexts' = IF can_transition_to(contexts[j], new) THEN [contexts EXCEPT ![j] = new]
                                                       ELSE contexts

-----------------------------------------------------------------------------
(* ContextManager *)

\* Mutant: one job too many.
insert_context_OffByOne(j) ==
    /\ j \notin used /\ Cardinality(active_jobs) <= MaxJobs
    /\ contexts' = [contexts EXCEPT ![j] = "Pending"]
    /\ used' = used \cup {j}

\* A new context.
with_user == "Pending"

\* The first half of create_job_for_user and of register_job: the check and the
\* insertion under the lock of contexts.
insert_context(j) ==
    /\ j \notin used /\ Cardinality(active_jobs) < MaxJobs
    /\ contexts' = [contexts EXCEPT ![j] = with_user]
    /\ used' = used \cup {j}

insert_memory(j) == memories' = [memories EXCEPT ![j] = 0]

get_context(j) == contexts[j]

\* The number of actions after one more.
create_action(memory) == memory + 1

\* NotFound, which every caller ignores, if the job has no memory.
update_memory(j) ==
    memories' = IF memories[j] = None THEN memories
                ELSE [memories EXCEPT ![j] = create_action(@)]

\* A full manager answers MaxJobsExceeded; nothing changes.
CreateJob(k, j) ==
    /\ client[k] = Idle /\ insert_context(j)
    /\ client' = [client EXCEPT ![k] = [pc |-> "create", job |-> j]]
    /\ UNCHANGED <<memories, fj, call, sub, listed, faults, hasty>>

CreateMemory(k) ==
    /\ client[k].pc = "create"
    /\ insert_memory(client[k].job)
    /\ client' = [client EXCEPT ![k] = Idle]
    /\ UNCHANGED <<contexts, used, fj, call, sub, listed, faults, hasty>>

\* update_context with transition_to, mark_stuck or attempt_recovery.
UpdateContext(j, new) ==
    /\ contexts[j] # None
    /\ can_transition_to(contexts[j], new)
    /\ transition_to(j, new)
    /\ UNCHANGED <<memories, used, client, fj, call, sub, listed, faults, hasty>>

RemoveContext(k, j) ==
    /\ client[k] = Idle /\ contexts[j] # None
    /\ contexts' = [contexts EXCEPT ![j] = None]
    /\ client' = [client EXCEPT ![k] = [pc |-> "remove", job |-> j]]
    /\ UNCHANGED <<memories, used, fj, call, sub, listed, faults, hasty>>

\* Mutant: removes the memory of a finished job only if it recorded something.
RemoveMemory_KeepsEmpty(k) ==
    /\ client[k].pc = "remove"
    /\ LET j == client[k].job
       IN /\ memories' = IF memories[j] = 0 THEN memories ELSE [memories EXCEPT ![j] = None]
          /\ hasty' = IF memories[j] = None THEN hasty \cup {j} ELSE hasty
    /\ client' = [client EXCEPT ![k] = Idle]
    /\ UNCHANGED <<contexts, used, fj, call, sub, listed, faults>>

\* A memory that is not there yet is NotFound, and is inserted later.
RemoveMemory(k) ==
    /\ client[k].pc = "remove"
    /\ LET j == client[k].job
       IN /\ memories' = [memories EXCEPT ![j] = None]
          /\ hasty' = IF memories[j] = None THEN hasty \cup {j} ELSE hasty
    /\ client' = [client EXCEPT ![k] = Idle]
    /\ UNCHANGED <<contexts, used, fj, call, sub, listed, faults>>

-----------------------------------------------------------------------------
(* Worker::execute_tool and execute_tools_parallel *)

\* A tool that does not exist, an unknown or cancelled job and invalid parameters
\* end the call before the tool runs.
ToolStart(c, j) ==
    /\ call[c] = None
    /\ get_context(j) \notin {None, "Cancelled"}
    /\ call' = [call EXCEPT ![c] = j]
    /\ UNCHANGED <<contexts, memories, used, client, fj, sub, listed, faults, hasty>>

\* The tool has answered, failed or timed out; create_action and record_action
\* run in one closure.  A job without memory loses the record.
ToolRecord(c) ==
    /\ call[c] # None
    /\ memories[call[c]] # None => memories[call[c]] < MaxActions  \* bound
    /\ update_memory(call[c])
    /\ call' = [call EXCEPT ![c] = None]
    /\ UNCHANGED <<contexts, used, client, fj, sub, listed, faults, hasty>>

-----------------------------------------------------------------------------
(* Scheduler: subtasks *)

\* The task starts at once, a ToolExec for job j or a Background handler (None);
\* spawn_subtask then waits for the lock of its map.
SubSpawn(s, j) ==
    /\ sub[s].pc = "unborn"
    /\ sub' = [sub EXCEPT ![s] = [pc |-> "spawned", wrap |-> "none", job |-> j]]
    /\ UNCHANGED <<contexts, memories, used, client, fj, call, listed, faults, hasty>>

\* execute_tool_task up to the tool.  An unknown tool and invalid parameters are a
\* tool that fails at once.
SubTool(s) ==
    /\ sub[s].pc = "spawned"
    /\ LET j == sub[s].job
           refused == IF j = None THEN FALSE ELSE get_context(j) \in {None, "Cancelled"}
       IN sub' = [sub EXCEPT ![s].pc = IF refused THEN "done" ELSE "tool"]
    /\ UNCHANGED <<contexts, memories, used, client, fj, call, listed, faults, hasty>>

SubDone(s) ==
    /\ sub[s].pc = "tool"
    /\ sub' = [sub EXCEPT ![s].pc = "done"]
    /\ UNCHANGED <<contexts, memories, used, client, fj, call, listed, faults, hasty>>

\* The wrapper that awaits the task goes into the map; the poller starts.
SubList(s) ==
    /\ sub[s].pc # "unborn" /\ sub[s].wrap = "none"
    /\ sub' = [sub EXCEPT ![s].wrap = "waiting"]
    /\ listed' = listed \cup {s}
    /\ UNCHANGED <<contexts, memories, used, client, fj, call, faults, hasty>>

SubWrapped(s) ==
    /\ sub[s].pc = "done" /\ sub[s].wrap = "waiting"
    /\ sub' = [sub EXCEPT ![s].wrap = "over"]
    /\ UNCHANGED <<contexts, memories, used, client, fj, call, listed, faults, hasty>>

\* Mutant: the poller gives up when it finds the wrapper still waiting.
SubClean_Once(s) ==
    /\ s \in listed
    /\ listed' = IF sub[s].wrap = "over" THEN listed \ {s} ELSE listed
    /\ sub' = [sub EXCEPT ![s].wrap = "over"]
    /\ sub[s].wrap = "waiting"
    /\ UNCHANGED <<contexts, memories, used, client, fj, call, faults, hasty>>

\* The poller's look at a finished wrapper.
SubClean(s) ==
    /\ s \in listed /\ sub[s].wrap = "over"
    /\ listed' = listed \ {s}
    /\ UNCHANGED <<contexts, memories, used, client, fj, call, sub, faults, hasty>>

\* Aborts the wrappers; the tasks they wait for go on.
stop_all ==
    /\ listed # {}
    /\ sub' = [s \in Subtasks |-> IF s \in listed THEN [sub[s] EXCEPT !.wrap = "over"]
                                                  ELSE sub[s]]
    /\ listed' = {}
    /\ UNCHANGED <<contexts, memories, used, client, fj, call, faults, hasty>>

-----------------------------------------------------------------------------
(* execute_full_job: each failing step ends it and leaves what is done *)

FjStep(f, from, new) == fj[f].pc = from /\ fj' = [fj EXCEPT ![f] = new]

FjFail(f) ==
    /\ fj[f].pc \in {"todo", "status"} /\ faults < MaxFaults
    /\ faults' = faults + 1
    /\ fj' = [fj EXCEPT ![f].pc = "done"]
    /\ UNCHANGED <<contexts, memories, used, client, call, sub, listed, hasty>>

FjTodo(f) ==
    /\ FjStep(f, "todo", [pc |-> "status", todo |-> "Created", job |-> None])
    /\ UNCHANGED <<contexts, memories, used, client, call, sub, listed, faults, hasty>>

FjWorking(f) ==
    /\ FjStep(f, "status", [pc |-> "create", todo |-> "AgentWorking", job |-> None])
    /\ UNCHANGED <<contexts, memories, used, client, call, sub, listed, faults, hasty>>

FjCreate(f) ==
    /\ \/ \E j \in JobIds : /\ insert_context(j)
                            /\ FjStep(f, "create", [fj[f] EXCEPT !.pc = "memory", !.job = j])
       \/ /\ Cardinality(active_jobs) >= MaxJobs
          /\ FjStep(f, "create", [fj[f] EXCEPT !.pc = "done"])
          /\ UNCHANGED <<contexts, used>>
    /\ UNCHANGED <<memories, client, call, sub, listed, faults, hasty>>

FjMemory(f) ==
    /\ FjStep(f, "memory", [fj[f] EXCEPT !.pc = "schedule"])
    /\ insert_memory(fj[f].job)
    /\ UNCHANGED <<contexts, used, client, call, sub, listed, faults, hasty>>

\* schedule: the transition to InProgress, and nothing that would work on the job.
schedule(f) ==
    /\ FjStep(f, "schedule", [fj[f] EXCEPT !.pc = "done"])
    /\ transition_to(fj[f].job, "InProgress")
    /\ UNCHANGED <<memories, used, client, call, sub, listed, faults, hasty>>

-----------------------------------------------------------------------------
SubStep(s) == SubTool(s) \/ SubDone(s) \/ SubList(s) \/ SubWrapped(s) \/ SubClean(s)

Next ==
    \/ \E k \in Clients : \/ \E j \in JobIds : CreateJob(k, j) \/ RemoveContext(k, j)
                          \/ CreateMemory(k) \/ RemoveMemory(k)
    \/ \E j \in JobIds, new \in JobState : UpdateContext(j, new)
    \/ \E c \in Calls : ToolRecord(c) \/ \E j \in JobIds : ToolStart(c, j)
    \/ \E s \in Subtasks : SubStep(s) \/ \E j \in JobIds \cup {None} : SubSpawn(s, j)
    \/ stop_all
    \/ \E f \in FullJobs : \/ FjFail(f) \/ FjTodo(f) \/ FjWorking(f)
                           \/ FjCreate(f) \/ FjMemory(f) \/ schedule(f)

Spec == Init /\ [][Next]_vars

\* The tasks and pollers of subtasks are tokio tasks, and a tool ends by its
\* timeout.
FairSpec == Spec /\ \A s \in Subtasks : WF_vars(SubStep(s))

-----------------------------------------------------------------------------
(* Properties *)

\* max_jobs: however creations, removals, recoveries and FullJobs interleave, no
\* more jobs are active than ContextManager allows.
ActiveBounded == Cardinality(active_jobs) <= MaxJobs

\* A memory without its job is being removed, or belongs to a job that was removed
\* between the two halves of its creation (remove_job, create_job_for_user).
OrphanMemoryHasACause ==
    \A j \in JobIds :
        memories[j] # None /\ contexts[j] = None =>
            j \in hasty \/ \E k \in Clients : client[k] = [pc |-> "remove", job |-> j]

\* The two maps of ContextManager, each under a lock of its own, account for the
\* jobs there are (ActiveBounded) and for their memories (OrphanMemoryHasACause).
JobsAreAccountedFor == TypeOK /\ ActiveBounded /\ OrphanMemoryHasACause

\* Every subtask leaves the scheduler's map (the poller of spawn_subtask), also when
\* it ends before it is listed or when stop_all drains the map.
SubtasksAreForgotten == \A s \in Subtasks : s \in listed ~> s \notin listed
=============================================================================
