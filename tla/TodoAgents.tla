----------------------------- MODULE TodoAgents -----------------------------
(***************************************************************************)
(* The todo-agent subsystem: the AgentQueue (dispatch channel, semaphore,  *)
(* crash recovery, startable scan), the agents it spawns with their        *)
(* TodoChannel, the TodoApprovalRegistry, the ActionHandler that resumes   *)
(* an agent when the user decides an approval card, the follow-up tasks of *)
(* the activity WebSocket and the user's own edits of todos.               *)
(*                                                                         *)
(* One action is one stretch of code between two points where another task *)
(* can observe or change the shared state (an .await on the database, on   *)
(* the semaphore, on a lock or on the agent's inbox).  Reading a todo back *)
(* and broadcasting it (TodoUpdated, AgentStatus, activity events) changes *)
(* nothing another action reads and is left out.                           *)
(***************************************************************************)
EXTENDS Naturals, Sequences, FiniteSets

CONSTANTS
    Todos,          \* todo ids
    Startable,      \* the todos created in the AgentStartable bucket, not agent-internal
    Agents,         \* identities of agent runs; one is reused once nothing refers to it
    Cards,          \* identities of approval cards; reused likewise
    MaxConcurrency, \* AgentQueue::max_concurrency
    MaxTickets,     \* bound: length of the (unbounded) dispatch channel
    UserStatuses,   \* statuses the user's Update action may set
    Scenarios,      \* bound: each says how often each disturbance may happen
    NoAgent, NoCard, NoTodo

Disturbances ==
    {"followup", "edit", "restart", "ctrlc", "panic", "dbfault", "empty", "approval"}

Status ==
    {"Created", "AgentQueued", "AgentWorking", "AwaitingApproval",
     "ReadyForReview", "WaitingOnYou", "Snoozed", "Completed"}

ASSUME ConcurrencyAssumption == MaxConcurrency \in Nat \ {0}
ASSUME FiniteAssumption == IsFiniteSet(Agents)
ASSUME SubsetAssumption == Startable \subseteq Todos /\ UserStatuses \subseteq Status
ASSUME BoundsAssumption == MaxTickets \in Nat /\ Scenarios \subseteq [Disturbances -> Nat]
ASSUME NullAssumption == NoAgent \notin Agents /\ NoCard \notin Cards /\ NoTodo \notin Todos

VARIABLES
    (* the database *)
    status,     \* status column of each todo; "None" before insert, "Deleted" after
    cardSt,     \* the approval cards that carry a todo_id: status,
    cardTodo,   \*   todo_id,
    cardTool,   \*   and whether a tool call (TRUE) or queue entry is asked for
    (* AgentQueue *)
    chan,       \* tx / rx, the dispatch channel
    context,    \* followup_context, as the set of todos with an entry
    permits,    \* available_permits() of the semaphore
    dpc, dtodo, \* the dispatch_loop task: where it is, the todo in its hands
    (* the spawned agents and their TodoChannels *)
    apc,        \* where the agent's task is
    atodo,      \* its todo
    acard,      \* the card of its pending approval
    inbox,      \* msg_rx
    responded,  \* TodoChannel::responded; respond() also closes msg_tx
    followup,   \* started with an override_content
    slot,       \* does its permit slot hold a permit?
    (* TodoApprovalRegistry and ActionHandler *)
    registry,   \* card -> agent whose inbox and permit slot the entry names
    rpc,        \* the resolve_approval call for each card: where it is,
    rok,        \*   the user's decision,
    ragent,     \*   the agent of the entry it took
    (* the pickup loop and the WebSocket tasks *)
    ppc, plist, \* pickup loop: where it is, todos left of the list it works through
    toWork,     \* todos with a spawned, not yet run status task of a follow-up
    toEnqueue,  \* todos with a spawned, not yet run enqueue task of a follow-up
    etodo, estatus, \* an Update/Snooze between its get_todo and its update_todo
    budget      \* disturbances left

cards     == <<cardSt, cardTodo, cardTool>>
dispatch  == <<dpc, dtodo>>
agents    == <<apc, atodo, acard, inbox, responded, followup>>
resolvers == <<rpc, rok, ragent>>
pickup    == <<ppc, plist>>
tasks     == <<toWork, toEnqueue>>
edit      == <<etodo, estatus>>
vars == <<status, cards, chan, context, permits, dispatch, agents, slot, registry,
          resolvers, pickup, tasks, edit, budget>>

CardStates == {"free", "pending", "approved", "dismissed", "expired"}
AgentPCs == {"done", "waiting", "running", "pushed", "registered", "release",
             "respond", "exit", "unregister"}
Messages == [kind : {"start", "approve", "reject"}, card : Cards \cup {NoCard}]

-----------------------------------------------------------------------------
(* Helpers *)

\* One disturbance of kind k.
Spend(k) == budget[k] > 0 /\ budget' = [budget EXCEPT ![k] = @ - 1]

\* The outcome of one database call: it succeeds, or a fault is spent.
Db(ok) == IF ok THEN UNCHANGED budget ELSE Spend("dbfault")

\* One UPDATE todos SET status; it affects no row when the todo does not exist.
update_todo_status(t, s, ok) ==
    /\ Db(ok)
    /\ status' = IF ok /\ status[t] \in Status THEN [status EXCEPT ![t] = s] ELSE status

\* tx.send on the unbounded dispatch channel, bounded here by MaxTickets.
Send(t) == Len(chan) < MaxTickets /\ chan' = Append(chan, t)

\* AgentQueue::enqueue: status AgentQueued, then the ticket; no ticket on an error.
enqueue(t, ok) ==
    /\ update_todo_status(t, "AgentQueued", ok)
    /\ IF ok THEN Send(t) ELSE UNCHANGED chan

\* list_todos_by_status; its callers treat an error as an empty list.
Listed(s, ok) == IF ok THEN {t \in Todos : status[t] = s} ELSE {}

\* Someone else still holds a clone of the agent's sender and permit slot.
Referenced(a) == \E c \in Cards : registry[c] = a \/ ragent[c] = a

FreeAgent(a) == apc[a] = "done" /\ ~Referenced(a)

FreeCard(c) ==
    /\ cardSt[c] # "pending"
    /\ registry[c] = NoAgent
    /\ rpc[c] = "idle"
    /\ \A a \in Agents : acard[a] # c

\* CardQueue::push of a card carrying a todo_id.
PushCard(c, t, isTool) ==
    /\ FreeCard(c)
    /\ cardSt' = [cardSt EXCEPT ![c] = "pending"]
    /\ cardTodo' = [cardTodo EXCEPT ![c] = t]
    /\ cardTool' = [cardTool EXCEPT ![c] = isTool]

\* The agents whose slot holds a permit, and whether dispatch_loop carries one.
Holders == {a \in Agents : slot[a]}
DispatcherHolds == dpc \in {"load", "claim", "spawn"}

\* Dropping what the slot of agent a holds.
Release(a) ==
    /\ slot' = [slot EXCEPT ![a] = FALSE]
    /\ permits' = IF slot[a] THEN permits + 1 ELSE permits

\* The agent's task is over.
Ended(a) ==
    /\ apc' = [apc EXCEPT ![a] = "done"]
    /\ atodo' = [atodo EXCEPT ![a] = NoTodo]
    /\ acard' = [acard EXCEPT ![a] = NoCard]
    /\ inbox' = [inbox EXCEPT ![a] = <<>>]
    /\ responded' = [responded EXCEPT ![a] = FALSE]
    /\ followup' = [followup EXCEPT ![a] = FALSE]

\* The resolve_approval call for card c is over.
Resolved(c) ==
    /\ rpc' = [rpc EXCEPT ![c] = "idle"]
    /\ rok' = [rok EXCEPT ![c] = FALSE]
    /\ ragent' = [ragent EXCEPT ![c] = NoAgent]

\* Only the agent's place in its code changes.
AgentGoesTo(a, pc) ==
    /\ apc' = [apc EXCEPT ![a] = pc]
    /\ UNCHANGED <<atodo, acard, inbox, responded, followup>>

-----------------------------------------------------------------------------
Init ==
    /\ status = [t \in Todos |-> "None"]
    /\ cardSt = [c \in Cards |-> "free"]
    /\ cardTodo = [c \in Cards |-> NoTodo]
    /\ cardTool = [c \in Cards |-> FALSE]
    /\ chan = <<>>
    /\ context = {}
    /\ permits = MaxConcurrency
    /\ dpc = "recv" /\ dtodo = NoTodo
    /\ apc = [a \in Agents |-> "done"]
    /\ atodo = [a \in Agents |-> NoTodo]
    /\ acard = [a \in Agents |-> NoCard]
    /\ inbox = [a \in Agents |-> <<>>]
    /\ responded = [a \in Agents |-> FALSE]
    /\ followup = [a \in Agents |-> FALSE]
    /\ slot = [a \in Agents |-> FALSE]
    /\ registry = [c \in Cards |-> NoAgent]
    /\ rpc = [c \in Cards |-> "idle"]
    /\ rok = [c \in Cards |-> FALSE]
    /\ ragent = [c \in Cards |-> NoAgent]
    /\ ppc = "start" /\ plist = {}
    /\ toWork = {} /\ toEnqueue = {}
    /\ etodo = NoTodo /\ estatus = "Created"
    /\ budget \in Scenarios

-----------------------------------------------------------------------------
(* AgentQueue: dispatch_loop *)

\* rx.recv(): take the next ticket.
DispatchRecv ==
    /\ dpc = "recv" /\ dpc' = "acquire"
    /\ chan # <<>>
    /\ dtodo' = Head(chan)
    /\ chan' = Tail(chan)
    /\ UNCHANGED <<status, cards, context, permits, agents, slot, registry, resolvers,
                   pickup, tasks, edit, budget>>

\* semaphore.acquire_owned()
DispatchAcquire ==
    /\ dpc = "acquire" /\ dpc' = "load"
    /\ permits > 0
    /\ permits' = permits - 1
    /\ UNCHANGED <<status, cards, chan, context, dtodo, agents, slot, registry,
                   resolvers, pickup, tasks, edit, budget>>

\* Mutant: a skipped ticket keeps the permit.
DispatchLoad_KeepPermit(ok) ==
    /\ dpc = "load"
    /\ Db(ok)
    /\ IF ok /\ status[dtodo] = "AgentQueued"
         THEN dpc' = "claim" /\ UNCHANGED dtodo
         ELSE dpc' = "recv" /\ dtodo' = NoTodo
    /\ UNCHANGED <<status, cards, chan, context, permits, agents, slot, registry,
                   resolvers, pickup, tasks, edit>>

\* get_todo and the status check; a todo that is gone, no longer AgentQueued or
\* not readable gives the permit back and drops the ticket.
DispatchLoad(ok) ==
    /\ dpc = "load"
    /\ Db(ok)
    /\ IF ok /\ status[dtodo] = "AgentQueued"
         THEN dpc' = "claim" /\ UNCHANGED <<dtodo, permits>>
         ELSE dpc' = "recv" /\ dtodo' = NoTodo /\ permits' = permits + 1
    /\ UNCHANGED <<status, cards, chan, context, agents, slot, registry, resolvers,
                   pickup, tasks, edit>>

\* update_todo_status(AgentWorking); the check above is not repeated.
DispatchClaim(ok) ==
    /\ dpc = "claim"
    /\ update_todo_status(dtodo, "AgentWorking", ok)
    /\ IF ok
         THEN dpc' = "spawn" /\ UNCHANGED <<dtodo, permits>>
         ELSE dpc' = "recv" /\ dtodo' = NoTodo /\ permits' = permits + 1
    /\ UNCHANGED <<cards, chan, context, agents, slot, registry, resolvers, pickup,
                   tasks, edit>>

\* take_followup_context, spawn_todo_agent and TodoChannel::start, which leaves
\* the first message in the new agent's inbox.
DispatchSpawn(a) ==
    /\ dpc = "spawn" /\ dpc' = "recv"
    /\ FreeAgent(a)
    /\ apc' = [apc EXCEPT ![a] = "waiting"]
    /\ atodo' = [atodo EXCEPT ![a] = dtodo]
    /\ inbox' = [inbox EXCEPT ![a] = <<[kind |-> "start", card |-> NoCard]>>]
    /\ followup' = [followup EXCEPT ![a] = dtodo \in context]
    /\ slot' = [slot EXCEPT ![a] = TRUE]
    /\ context' = context \ {dtodo}
    /\ dtodo' = NoTodo
    /\ UNCHANGED <<status, cards, chan, permits, acard, responded, registry, resolvers,
                   pickup, tasks, edit, budget>>

-----------------------------------------------------------------------------
(* The pickup loop: scan_startable every 30 seconds, recover at startup and  *)
(* every 15 minutes.  Each pass reads a list once and then works through it. *)

\* Mutant: recover() looks only at the AgentQueued todos.
PickupRecover_NoReset(ok) ==
    /\ ppc \in {"start", "idle"} /\ ppc' = "reset"
    /\ Db(ok)
    /\ plist' = {}
    /\ UNCHANGED <<status, cards, chan, context, permits, dispatch, agents, slot,
                   registry, resolvers, tasks, edit>>

\* recover(): read the AgentWorking todos.
PickupRecover(ok) ==
    /\ ppc \in {"start", "idle"} /\ ppc' = "reset"
    /\ Db(ok)
    /\ plist' = Listed("AgentWorking", ok)
    /\ UNCHANGED <<status, cards, chan, context, permits, dispatch, agents, slot,
                   registry, resolvers, tasks, edit>>

\* recover(): one AgentWorking todo of the list back to AgentQueued.
PickupReset(t, ok) ==
    /\ ppc = "reset"
    /\ t \in plist /\ plist' = plist \ {t}
    /\ update_todo_status(t, "AgentQueued", ok)
    /\ UNCHANGED <<cards, chan, context, permits, dispatch, agents, slot, registry,
                   resolvers, ppc, tasks, edit>>

\* recover(): read the AgentQueued todos.
PickupListQueued(ok) ==
    /\ ppc = "reset" /\ ppc' = "resend"
    /\ plist = {}
    /\ Db(ok)
    /\ plist' = Listed("AgentQueued", ok)
    /\ UNCHANGED <<status, cards, chan, context, permits, dispatch, agents, slot,
                   registry, resolvers, tasks, edit>>

\* recover(): tx.send one of them (the order, by priority, is left open).  A copy of a
\* ticket that waits in a channel at its bound is not added.
PickupResend(t) ==
    /\ ppc = "resend"
    /\ t \in plist /\ plist' = plist \ {t}
    /\ \/ Send(t)
       \/ /\ Len(chan) = MaxTickets /\ UNCHANGED chan
          /\ \E i \in DOMAIN chan : chan[i] = t
    /\ UNCHANGED <<status, cards, context, permits, dispatch, agents, slot, registry,
                   resolvers, ppc, tasks, edit, budget>>

\* scan_startable(), at the end of recover() or on a tick: read the Created
\* todos and keep the AgentStartable ones that are not agent-internal.
PickupScan(ok) ==
    /\ \/ ppc = "resend" /\ plist = {}
       \/ ppc = "idle"
    /\ ppc' = "scan"
    /\ Db(ok)
    /\ plist' = Listed("Created", ok) \cap Startable
    /\ UNCHANGED <<status, cards, chan, context, permits, dispatch, agents, slot,
                   registry, resolvers, tasks, edit>>

\* scan_startable(): AgentQueued and tx.send for one todo of the list.
PickupEnqueue(t, ok) ==
    /\ ppc = "scan"
    /\ t \in plist /\ plist' = plist \ {t}
    /\ enqueue(t, ok)
    /\ UNCHANGED <<cards, context, permits, dispatch, agents, slot, registry,
                   resolvers, ppc, tasks, edit>>

PickupDone ==
    /\ ppc = "scan" /\ ppc' = "idle"
    /\ plist = {}
    /\ UNCHANGED <<status, cards, chan, context, permits, dispatch, agents, slot,
                   registry, resolvers, plist, tasks, edit, budget>>

-----------------------------------------------------------------------------
(* The agent task: Agent::run over a TodoChannel *)

\* message_stream.next() yields a message.  The first message starts the agentic
\* loop; an approval for the pending request resumes it; a rejection (or an
\* approval of another request) produces a text response.
AgentReceive(a) ==
    /\ apc[a] = "waiting"
    /\ inbox[a] # <<>>
    /\ LET m == Head(inbox[a])
           runs == m.kind = "start" \/ (m.kind = "approve" /\ m.card = acard[a])
       IN apc' = [apc EXCEPT ![a] = IF runs THEN "running" ELSE "respond"]
    /\ inbox' = [inbox EXCEPT ![a] = Tail(@)]
    /\ acard' = [acard EXCEPT ![a] = NoCard]
    /\ UNCHANGED <<status, cards, chan, context, permits, dispatch, atodo, responded,
                   followup, slot, registry, resolvers, pickup, tasks, edit, budget>>

\* The agentic loop ends with a text, or with an error that is reported as one.
AgentFinish(a) ==
    /\ apc[a] = "running"
    /\ AgentGoesTo(a, "respond")
    /\ UNCHANGED <<status, cards, chan, context, permits, dispatch, slot, registry,
                   resolvers, pickup, tasks, edit, budget>>

\* The loop ends with an empty text: Agent::run sends nothing and waits again.
AgentEmpty(a) ==
    /\ apc[a] = "running"
    /\ Spend("empty")
    /\ AgentGoesTo(a, "waiting")
    /\ UNCHANGED <<status, cards, chan, context, permits, dispatch, slot, registry,
                   resolvers, pickup, tasks, edit>>

\* The first message of a follow-up agent is the user's own text: /quit (or /exit,
\* /shutdown) leaves the loop.
AgentQuit(a) ==
    /\ apc[a] = "waiting"
    /\ followup[a]
    /\ inbox[a] # <<>> /\ Head(inbox[a]).kind = "start"
    /\ apc' = [apc EXCEPT ![a] = "exit"]
    /\ inbox' = [inbox EXCEPT ![a] = Tail(@)]
    /\ UNCHANGED <<status, cards, chan, context, permits, dispatch, atodo, acard,
                   responded, followup, slot, registry, resolvers, pickup, tasks,
                   edit, budget>>

\* Mutant: the permit is not an RAII guard.
AgentPanic_KeepPermit(a) ==
    /\ apc[a] = "running"
    /\ Spend("panic")
    /\ Ended(a)
    /\ UNCHANGED <<status, cards, chan, context, permits, dispatch, slot, registry,
                   resolvers, pickup, tasks, edit>>

\* The task panics in a tool or in the model's client: nothing but RAII runs.
AgentPanic(a) ==
    /\ apc[a] = "running"
    /\ Spend("panic")
    /\ Ended(a)
    /\ Release(a)
    /\ UNCHANGED <<status, cards, chan, context, dispatch, registry, resolvers, pickup,
                   tasks, edit>>

\* A tool needs approval, TodoChannel::send_status(ApprovalNeeded): push the card.
AgentNeedApproval(a, c) ==
    /\ apc[a] = "running"
    /\ Spend("approval")
    /\ PushCard(c, atodo[a], TRUE)
    /\ apc' = [apc EXCEPT ![a] = "pushed"]
    /\ acard' = [acard EXCEPT ![a] = c]
    /\ UNCHANGED <<status, chan, context, permits, dispatch, atodo, inbox, responded,
                   followup, slot, registry, resolvers, pickup, tasks, edit>>

\* ... then register the agent for that card, if its sender is still open.
AgentRegister(a) ==
    /\ apc[a] = "pushed"
    /\ AgentGoesTo(a, "registered")
    /\ registry' = IF responded[a] THEN registry ELSE [registry EXCEPT ![acard[a]] = a]
    /\ UNCHANGED <<status, cards, chan, context, permits, dispatch, slot, resolvers,
                   pickup, tasks, edit, budget>>

\* ... then AwaitingApproval in the database; a failure is only logged.
AgentAwait(a, ok) ==
    /\ apc[a] = "registered"
    /\ AgentGoesTo(a, "release")
    /\ update_todo_status(atodo[a], "AwaitingApproval", ok)
    /\ UNCHANGED <<cards, chan, context, permits, dispatch, slot, registry, resolvers,
                   pickup, tasks, edit>>

\* Mutant: the permit is kept while the agent waits for the user.
AgentRelease_KeepPermit(a) ==
    /\ apc[a] = "release"
    /\ AgentGoesTo(a, "waiting")
    /\ UNCHANGED <<status, cards, chan, context, permits, dispatch, slot, registry,
                   resolvers, pickup, tasks, edit, budget>>

\* ... then give up the permit, whichever permit the slot holds by now.
AgentRelease(a) ==
    /\ apc[a] = "release"
    /\ AgentGoesTo(a, "waiting")
    /\ Release(a)
    /\ UNCHANGED <<status, cards, chan, context, dispatch, registry, resolvers, pickup,
                   tasks, edit, budget>>

\* TodoChannel::respond: ReadyForReview whatever the status is now, then close
\* the channel's own sender.
AgentRespond(a, ok) ==
    /\ apc[a] = "respond"
    /\ apc' = [apc EXCEPT ![a] = "waiting"]
    /\ responded' = [responded EXCEPT ![a] = TRUE]
    /\ update_todo_status(atodo[a], "ReadyForReview", ok)
    /\ UNCHANGED <<cards, chan, context, permits, dispatch, atodo, acard, inbox,
                   followup, slot, registry, resolvers, pickup, tasks, edit>>

\* The inbox is drained and every sender is gone: the stream ends.
AgentStreamEnd(a) ==
    /\ apc[a] = "waiting"
    /\ inbox[a] = <<>>
    /\ responded[a]
    /\ ~Referenced(a)
    /\ AgentGoesTo(a, "exit")
    /\ UNCHANGED <<status, cards, chan, context, permits, dispatch, slot, registry,
                   resolvers, pickup, tasks, edit, budget>>

\* TodoChannel::shutdown: an agent that never responded puts its todo to Created.
AgentExit(a, ok) ==
    /\ apc[a] = "exit"
    /\ AgentGoesTo(a, "unregister")
    /\ IF responded[a]
         THEN ok /\ UNCHANGED <<status, budget>>
         ELSE update_todo_status(atodo[a], "Created", ok)
    /\ UNCHANGED <<cards, chan, context, permits, dispatch, slot, registry, resolvers,
                   pickup, tasks, edit>>

\* ... remove_for_todo (every entry of the todo), close the stream, drop the
\* permit; the task ends.
AgentUnregister(a) ==
    /\ apc[a] = "unregister"
    /\ Ended(a)
    /\ Release(a)
    /\ registry' = [c \in Cards |-> IF cardTodo[c] = atodo[a] THEN NoAgent ELSE registry[c]]
    /\ UNCHANGED <<status, cards, chan, context, dispatch, resolvers, pickup, tasks,
                   edit, budget>>

-----------------------------------------------------------------------------
(* Approval cards: the user's decision and ActionHandler::resolve_approval *)

\* CardQueue::approve / dismiss of a pending card; the handler follows.
UserDecides(c, ok) ==
    /\ cardSt[c] = "pending"
    /\ cardSt' = [cardSt EXCEPT ![c] = IF ok THEN "approved" ELSE "dismissed"]
    /\ rpc' = [rpc EXCEPT ![c] = "take"]
    /\ rok' = [rok EXCEPT ![c] = ok]
    /\ UNCHANGED <<status, cardTodo, cardTool, chan, context, permits, dispatch, agents,
                   slot, registry, ragent, pickup, tasks, edit, budget>>

\* A queue-entry card lives 60 minutes; tool cards have no expiry.
CardExpires(c) ==
    /\ cardSt[c] = "pending"
    /\ ~cardTool[c]
    /\ cardSt' = [cardSt EXCEPT ![c] = "expired"]
    /\ UNCHANGED <<status, cardTodo, cardTool, chan, context, permits, dispatch, agents,
                   slot, registry, resolvers, pickup, tasks, edit, budget>>

\* Mutant: looks the entry up without removing it.
ResolveTake_Get(c) ==
    /\ rpc[c] = "take"
    /\ ragent' = [ragent EXCEPT ![c] = registry[c]]
    /\ rpc' = [rpc EXCEPT ![c] = IF registry[c] # NoAgent THEN "acquire"
                                 ELSE IF rok[c] THEN "enqueue" ELSE "idle"]
    /\ UNCHANGED <<status, cards, chan, context, permits, dispatch, agents, slot,
                   registry, rok, pickup, tasks, edit, budget>>

\* registry.take(card): a waiting agent is found, or the card is treated as a
\* queue-entry card.
ResolveTake(c) ==
    /\ rpc[c] = "take"
    /\ registry' = [registry EXCEPT ![c] = NoAgent]
    /\ ragent' = [ragent EXCEPT ![c] = registry[c]]
    /\ rpc' = [rpc EXCEPT ![c] = IF registry[c] # NoAgent THEN "acquire"
                                 ELSE IF rok[c] THEN "enqueue" ELSE "idle"]
    /\ UNCHANGED <<status, cards, chan, context, permits, dispatch, agents, slot, rok,
                   pickup, tasks, edit, budget>>

\* Re-acquire a permit and store it in the agent's slot; a permit the slot still
\* holds is dropped by the assignment.
ResolveAcquire(c) ==
    /\ rpc[c] = "acquire"
    /\ rpc' = [rpc EXCEPT ![c] = "send"]
    /\ permits > 0
    /\ permits' = IF slot[ragent[c]] THEN permits ELSE permits - 1
    /\ slot' = [slot EXCEPT ![ragent[c]] = TRUE]
    /\ UNCHANGED <<status, cards, chan, context, dispatch, agents, registry, rok,
                   ragent, pickup, tasks, edit, budget>>

\* Mutant: answers "approved" whatever the user decided.
ExecApproval_Always(c) == [kind |-> "approve", card |-> c]

\* The ExecApproval message that answers card c.
ExecApproval(c) == [kind |-> IF rok[c] THEN "approve" ELSE "reject", card |-> c]

\* Mutant: sends the answer twice.
ResolveSend_Twice(c) ==
    /\ rpc[c] = "send"
    /\ Resolved(c)
    /\ IF apc[ragent[c]] # "done"
         THEN /\ inbox' = [inbox EXCEPT ![ragent[c]] = @ \o <<ExecApproval(c), ExecApproval(c)>>]
              /\ UNCHANGED <<slot, permits>>
         ELSE Release(ragent[c]) /\ UNCHANGED inbox
    /\ UNCHANGED <<status, cards, chan, context, dispatch, apc, atodo, acard, responded,
                   followup, registry, pickup, tasks, edit, budget>>

\* Mutant: the permit acquired for an agent that has exited is not given back.
ResolveSend_Leak(c) ==
    /\ rpc[c] = "send"
    /\ Resolved(c)
    /\ inbox' = IF apc[ragent[c]] # "done"
                  THEN [inbox EXCEPT ![ragent[c]] = Append(@, ExecApproval(c))] ELSE inbox
    /\ UNCHANGED <<status, cards, chan, context, permits, dispatch, apc, atodo, acard,
                   responded, followup, slot, registry, pickup, tasks, edit, budget>>

\* Send the ExecApproval; it fails when the agent is gone, and then the slot goes
\* away with the last reference to it.
ResolveSend(c) ==
    /\ rpc[c] = "send"
    /\ Resolved(c)
    /\ IF apc[ragent[c]] # "done"
         THEN /\ inbox' = [inbox EXCEPT ![ragent[c]] = Append(@, ExecApproval(c))]
              /\ UNCHANGED <<slot, permits>>
         ELSE Release(ragent[c]) /\ UNCHANGED inbox
    /\ UNCHANGED <<status, cards, chan, context, dispatch, apc, atodo, acard, responded,
                   followup, registry, pickup, tasks, edit, budget>>

\* No entry and approved: AgentQueue::enqueue(todo_id).
ResolveEnqueue(c, ok) ==
    /\ rpc[c] = "enqueue"
    /\ Resolved(c)
    /\ enqueue(cardTodo[c], ok)
    /\ UNCHANGED <<cards, context, permits, dispatch, agents, slot, registry, pickup,
                   tasks, edit>>

-----------------------------------------------------------------------------
(* The todo and activity WebSockets: what the user does *)

\* TodoAction::Create; an AgentStartable todo also gets its queue-entry card.
\* (CreateSubtask is the creation of a todo outside Startable.)
CreateTodo(t, c) ==
    /\ status[t] = "None"
    /\ status' = [status EXCEPT ![t] = "Created"]
    /\ IF t \in Startable THEN PushCard(c, t, FALSE) ELSE UNCHANGED cards
    /\ UNCHANGED <<chan, context, permits, dispatch, agents, slot, registry, resolvers,
                   pickup, tasks, edit, budget>>

\* TodoAction::Complete and Delete: one write.
CompleteOrDelete(t, s) ==
    /\ status[t] \in Status
    /\ s \in {"Completed", "Deleted"}
    /\ Spend("edit")
    /\ status' = [status EXCEPT ![t] = s]
    /\ UNCHANGED <<cards, chan, context, permits, dispatch, agents, slot, registry,
                   resolvers, pickup, tasks, edit>>

\* TodoAction::Update and Snooze read the whole row; an Update without a status
\* keeps the one it read ...
EditRead(t, s) ==
    /\ etodo = NoTodo
    /\ status[t] \in Status
    /\ s \in UserStatuses \cup {status[t], "Snoozed"}
    /\ Spend("edit")
    /\ etodo' = t /\ estatus' = s
    /\ UNCHANGED <<status, cards, chan, context, permits, dispatch, agents, slot,
                   registry, resolvers, pickup, tasks>>

\* ... and write the whole row back, the status included.
EditWrite(ok) ==
    /\ etodo # NoTodo
    /\ update_todo_status(etodo, estatus, ok)
    /\ etodo' = NoTodo /\ estatus' = "Created"
    /\ UNCHANGED <<cards, chan, context, permits, dispatch, agents, slot, registry,
                   resolvers, pickup, tasks>>

\* A user_message on the activity socket spawns two tasks that race.
UserFollowUp(t) ==
    /\ status[t] \in Status
    /\ Spend("followup")
    /\ toWork' = toWork \cup {t}
    /\ toEnqueue' = toEnqueue \cup {t}
    /\ UNCHANGED <<status, cards, chan, context, permits, dispatch, agents, slot,
                   registry, resolvers, pickup, edit>>

FollowUpWorking(t, ok) ==
    /\ t \in toWork /\ toWork' = toWork \ {t}
    /\ update_todo_status(t, "AgentWorking", ok)
    /\ UNCHANGED <<cards, chan, context, permits, dispatch, agents, slot, registry,
                   resolvers, pickup, toEnqueue, edit>>

\* enqueue_followup: the context goes in first, whether or not enqueue succeeds.
FollowUpEnqueue(t, ok) ==
    /\ t \in toEnqueue /\ toEnqueue' = toEnqueue \ {t}
    /\ context' = context \cup {t}
    /\ enqueue(t, ok)
    /\ UNCHANGED <<cards, permits, dispatch, agents, slot, registry, resolvers, pickup,
                   toWork, edit>>

-----------------------------------------------------------------------------
(* The process *)

\* Ctrl+C reaches every agent that is waiting for a message, and no other.
CtrlC ==
    /\ Spend("ctrlc")
    /\ apc' = [a \in Agents |-> IF apc[a] = "waiting" THEN "exit" ELSE apc[a]]
    /\ UNCHANGED <<status, cards, chan, context, permits, dispatch, atodo, acard, inbox,
                   responded, followup, slot, registry, resolvers, pickup, tasks, edit>>

\* The process dies and starts again: only the database survives.  The pickup loop
\* begins at place p.
RestartAt(p) ==
    /\ Spend("restart")
    /\ chan' = <<>>
    /\ context' = {}
    /\ permits' = MaxConcurrency
    /\ dpc' = "recv" /\ dtodo' = NoTodo
    /\ apc' = [a \in Agents |-> "done"]
    /\ atodo' = [a \in Agents |-> NoTodo]
    /\ acard' = [a \in Agents |-> NoCard]
    /\ inbox' = [a \in Agents |-> <<>>]
    /\ responded' = [a \in Agents |-> FALSE]
    /\ followup' = [a \in Agents |-> FALSE]
    /\ slot' = [a \in Agents |-> FALSE]
    /\ registry' = [c \in Cards |-> NoAgent]
    /\ rpc' = [c \in Cards |-> "idle"]
    /\ rok' = [c \in Cards |-> FALSE]
    /\ ragent' = [c \in Cards |-> NoAgent]
    /\ ppc' = p /\ plist' = {}
    /\ toWork' = {} /\ toEnqueue' = {}
    /\ etodo' = NoTodo /\ estatus' = "Created"
    /\ UNCHANGED <<status, cards>>

\* Mutant: the pickup loop does not start with recover().
Restart_NoRecover == RestartAt("idle")

\* spawn_todo_pickup_loop starts with recover().
Restart == RestartAt("start")

-----------------------------------------------------------------------------
Dispatch ==
    \/ DispatchRecv
    \/ DispatchAcquire
    \/ \E ok \in BOOLEAN : DispatchLoad(ok) \/ DispatchClaim(ok)
    \/ \E a \in Agents : DispatchSpawn(a)

Pickup ==
    \/ \E ok \in BOOLEAN : PickupRecover(ok) \/ PickupListQueued(ok) \/ PickupScan(ok)
    \/ \E t \in Todos : PickupResend(t)
    \/ \E t \in Todos, ok \in BOOLEAN : PickupReset(t, ok) \/ PickupEnqueue(t, ok)
    \/ PickupDone

AgentStep(a) ==
    \/ AgentReceive(a)
    \/ AgentFinish(a)
    \/ AgentRegister(a)
    \/ AgentRelease(a)
    \/ AgentStreamEnd(a)
    \/ AgentUnregister(a)
    \/ \E ok \in BOOLEAN : AgentAwait(a, ok) \/ AgentRespond(a, ok) \/ AgentExit(a, ok)

AgentDisturbed(a) ==
    \/ AgentEmpty(a)
    \/ AgentQuit(a)
    \/ AgentPanic(a)
    \/ \E c \in Cards : AgentNeedApproval(a, c)

Resolve(c) ==
    \/ ResolveTake(c)
    \/ ResolveAcquire(c)
    \/ ResolveSend(c)
    \/ \E ok \in BOOLEAN : ResolveEnqueue(c, ok)

FollowUpTask(t) == \E ok \in BOOLEAN : FollowUpWorking(t, ok) \/ FollowUpEnqueue(t, ok)

User ==
    \/ \E c \in Cards, ok \in BOOLEAN : UserDecides(c, ok)
    \/ \E c \in Cards : CardExpires(c)
    \/ \E t \in Todos, c \in Cards : CreateTodo(t, c)
    \/ \E t \in Todos, s \in {"Completed", "Deleted"} : CompleteOrDelete(t, s)
    \/ \E t \in Todos, s \in Status : EditRead(t, s)
    \/ \E t \in Todos : UserFollowUp(t)

Next ==
    \/ Dispatch
    \/ Pickup
    \/ \E a \in Agents : AgentStep(a) \/ AgentDisturbed(a)
    \/ \E c \in Cards : Resolve(c)
    \/ \E t \in Todos : FollowUpTask(t)
    \/ \E ok \in BOOLEAN : EditWrite(ok)
    \/ User
    \/ CtrlC
    \/ Restart

Spec == Init /\ [][Next]_vars

(* Fairness.  Every task the server runs keeps running; tokio's semaphore is   *)
(* FIFO, so whoever waits for a permit gets one if permits keep coming back;   *)
(* the two timers of the pickup loop keep firing.  The user, the model's       *)
(* answers and the disturbances are not fair.                                  *)
Fairness ==
    /\ WF_vars(Dispatch) /\ SF_vars(DispatchAcquire)
    /\ WF_vars(Pickup) /\ SF_vars(\E ok \in BOOLEAN : PickupRecover(ok))
    /\ \A a \in Agents : WF_vars(AgentStep(a))
    /\ \A c \in Cards : WF_vars(Resolve(c)) /\ SF_vars(ResolveAcquire(c))
    /\ \A t \in Todos : WF_vars(FollowUpTask(t))
    /\ WF_vars(\E ok \in BOOLEAN : EditWrite(ok))

FairSpec == Spec /\ Fairness

-----------------------------------------------------------------------------
(* Invariants *)

\* What update_todo_status touches.
TypeStatus ==
    /\ status \in [Todos -> Status \cup {"None", "Deleted"}]
    /\ budget \in [Disturbances -> Nat]

\* The agents and their channels.
TypeAgents ==
    /\ apc \in [Agents -> AgentPCs]
    /\ atodo \in [Agents -> Todos \cup {NoTodo}]
    /\ acard \in [Agents -> Cards \cup {NoCard}]
    /\ inbox \in [Agents -> Seq(Messages)]
    /\ responded \in [Agents -> BOOLEAN]
    /\ followup \in [Agents -> BOOLEAN]

\* The types of all variables but permits.
TypeCore ==
    /\ TypeStatus
    /\ cardSt \in [Cards -> CardStates]
    /\ cardTodo \in [Cards -> Todos \cup {NoTodo}]
    /\ cardTool \in [Cards -> BOOLEAN]
    /\ chan \in Seq(Todos)
    /\ context \subseteq Todos
    /\ dpc \in {"recv", "acquire", "load", "claim", "spawn"}
    /\ dtodo \in Todos \cup {NoTodo}
    /\ TypeAgents
    /\ slot \in [Agents -> BOOLEAN]
    /\ registry \in [Cards -> Agents \cup {NoAgent}]
    /\ rpc \in [Cards -> {"idle", "take", "acquire", "send", "enqueue"}]
    /\ rok \in [Cards -> BOOLEAN]
    /\ ragent \in [Cards -> Agents \cup {NoAgent}]
    /\ ppc \in {"start", "idle", "reset", "resend", "scan"}
    /\ plist \subseteq Todos
    /\ toWork \subseteq Todos /\ toEnqueue \subseteq Todos
    /\ etodo \in Todos \cup {NoTodo}
    /\ estatus \in Status

\* Every variable of the todo-agent subsystem holds a value of its type; in particular
\* the semaphore never counts more free permits than AgentQueue::new gave it.
TypeOK == TypeCore /\ permits \in 0..MaxConcurrency

\* No permit is lost or invented, whichever of dispatch_loop, send_status, shutdown,
\* a panic or resolve_approval moves it: the free permits, the ones in agents'
\* slots and the one dispatch_loop carries always add up to max_concurrency.
PermitsConserved ==
    permits + Cardinality(Holders) + (IF DispatcherHolds THEN 1 ELSE 0) = MaxConcurrency

\* A permit outlives its agent only while a resolve_approval call still carries the
\* agent's slot, so an agent's exit by any route gives its concurrency back.
NoPermitOfTheDead ==
    \A a \in Agents : apc[a] = "done" /\ slot[a]
        => \E c \in Cards : ragent[c] = a /\ rpc[c] = "send"

\* A registry entry, or a resolve_approval call that took one, leads to the very
\* agent run that asked about that card and still waits for the answer, or to one
\* that is on its way out or gone; it never leads to another run, although
\* shutdown removes entries by todo and not by run.
EntryLeadsToAsker ==
    \A a \in Agents, c \in Cards :
        (registry[c] = a \/ ragent[c] = a)
            => \/ /\ apc[a] \in {"registered", "release", "waiting"}
                  /\ acard[a] = c
               \/ apc[a] \in {"exit", "unregister", "done"}

\* The inbox, an mpsc channel of capacity 8, never holds more than one message, so
\* neither TodoChannel::start nor resolve_approval ever blocks on sending.
InboxNeverFull == \A a \in Agents : Len(inbox[a]) <= 1

\* In a scenario without database faults and edits an AgentQueued todo always has a
\* ticket: it is in the dispatch channel, in dispatch_loop's hands, or in the part of
\* recover() that will resend it.  Nothing waits for the 15-minute pass.
QueuedHasTicket ==
    \A t \in Todos : status[t] = "AgentQueued" =>
        \/ \E i \in DOMAIN chan : chan[i] = t
        \/ dtodo = t /\ dpc \in {"acquire", "load", "claim"}
        \/ ppc \in {"start", "reset"}
        \/ ppc = "resend" /\ t \in plist

\* Whoever waits is waited for: a queued todo has its ticket (QueuedHasTicket) and
\* an entry of the approval registry leads to the agent that asked
\* (EntryLeadsToAsker), whose inbox has room for the answer (InboxNeverFull); all
\* of it in states of the right type (TypeOK).
WaitingIsServed == TypeOK /\ QueuedHasTicket /\ EntryLeadsToAsker /\ InboxNeverFull

-----------------------------------------------------------------------------
(* Action properties *)

\* The approved tool call of an agent runs only after the user approved the card
\* of that very request: not after a dismissal, not on another agent's approval.
ToolRunsOnlyIfApproved ==
    [][\A a \in Agents :
          acard[a] # NoCard /\ apc[a] = "waiting" /\ apc'[a] = "running"
              => cardSt[acard[a]] = "approved"
                 /\ cardTodo[acard[a]] = atodo[a]]_vars

-----------------------------------------------------------------------------
(* Liveness *)

\* A queued todo does not stay queued: it is dispatched, or leaves the queue because
\* its status is overwritten.
QueuedIsDispatched ==
    \A t \in Todos : status[t] = "AgentQueued" ~> status[t] # "AgentQueued"

\* A todo marked AgentWorking moves on although its agent may have panicked, died
\* with the process or never existed (a follow-up's status write): the agent
\* finishes it or the periodic recover() takes it back.
WorkingMovesOn ==
    \A t \in Todos : status[t] = "AgentWorking" ~> status[t] # "AgentWorking"

\* Once resolve_approval has taken an agent's entry, the agent gets the answer (or is
\* gone): the permit it must wait for is eventually granted.
TakenEntryIsAnswered ==
    \A a \in Agents, c \in Cards : ragent[c] = a ~> acard[a] # c
=============================================================================
