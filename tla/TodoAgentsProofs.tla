-------------------------- MODULE TodoAgentsProofs --------------------------
(***************************************************************************)
(* TLAPS proofs about TodoAgents, for every set of todos, agents and cards,*)
(* every max_concurrency and every budget of disturbances: first the       *)
(* permits, then the way of an answer from the card to the agent that      *)
(* asked, then the tickets of the queued todos.  At the end, proofs about  *)
(* AgentTools, the tools that these agents and the chat agent run.         *)
(***************************************************************************)
EXTENDS TodoAgents, AgentTools, SiftLemmas, TLAPS, FiniteSetTheorems, SequenceTheorems

\* Whoever works on a todo, asks about one or decides a card names a real todo,
\* and a card that awaits a decision has no resolve_approval call yet.
WellFormed ==
    /\ dpc # "recv" => dtodo \in Todos
    /\ \A a \in Agents : apc[a] # "done" => atodo[a] \in Todos
    /\ \A c \in Cards : cardSt[c] = "pending" \/ rpc[c] # "idle" => cardTodo[c] \in Todos
    /\ \A c \in Cards : cardSt[c] = "pending" => rpc[c] = "idle"

\* A resolve_approval call that is past registry.take knows its agent.
ResolverHasAgent ==
    \A c \in Cards : rpc[c] \in {"acquire", "send"} => ragent[c] \in Agents

\* The inductive invariant behind permit conservation: an agent run that is
\* spawned finds its slot empty because a dead run's slot is only ever full in
\* the hands of a resolver, and a resolver only ever fills an agent's slot.
PermitInv ==
    /\ TypeOK
    /\ WellFormed
    /\ PermitsConserved
    /\ NoPermitOfTheDead
    /\ ResolverHasAgent

Refers(c, a) == registry[c] = a \/ ragent[c] = a

\* What the registry, the resolve_approval calls and the inboxes know of an agent:
\* whoever refers to it does so for the card it asked about, and nobody does once
\* its answer is in its inbox.
EntryInv ==
    /\ \A a \in Agents, c \in Cards : Refers(c, a) =>
           \/ apc[a] = "done"
           \/ acard[a] = c /\ apc[a] \in {"registered", "release", "waiting", "exit", "unregister"}
    /\ \A c \in Cards : ragent[c] # NoAgent =>
           registry[c] = NoAgent /\ rpc[c] \in {"acquire", "send"}
    /\ \A a \in Agents : apc[a] = "pushed" =>
           acard[a] \in Cards /\ \A b \in Agents : ~Refers(acard[a], b)
    /\ \A a, b \in Agents : acard[a] \in Cards /\ acard[a] = acard[b] => a = b
    /\ \A a \in Agents : Len(inbox[a]) <= 1
    /\ \A a \in Agents : apc[a] \in {"running", "pushed"} => inbox[a] = <<>>
    /\ \A a \in Agents, c \in Cards : Refers(c, a) => inbox[a] = <<>>

\* What an answer stands for: the card was decided that way, and it is a card about
\* the agent's own todo.
AnswerInv ==
    /\ \A c \in Cards : rpc[c] # "idle" =>
           cardSt[c] = IF rok[c] THEN "approved" ELSE "dismissed"
    /\ \A a \in Agents : apc[a] = "done" => acard[a] = NoCard
    /\ \A a \in Agents : acard[a] \in Cards => cardTodo[acard[a]] = atodo[a]
    /\ \A a \in Agents : inbox[a] # <<>> =>
           /\ Head(inbox[a]).kind = "start" => acard[a] = NoCard
           /\ Head(inbox[a]).kind = "approve" =>
                  /\ Head(inbox[a]).card \in Cards
                  /\ Head(inbox[a]).card = acard[a] => cardSt[acard[a]] = "approved"

\* Nothing but the server's own tasks writes a status, and the database answers.
Undisturbed == budget["edit"] = 0 /\ budget["dbfault"] = 0 /\ etodo = NoTodo

Held(s) == {x \in Agents : s[x]}

-----------------------------------------------------------------------------
\* Filling the empty slot of an agent adds exactly one holder.
LEMMA FillSlot ==
    ASSUME NEW s \in [Agents -> BOOLEAN], NEW a \in Agents, ~s[a]
    PROVE  /\ Cardinality(Held(s)) \in Nat
           /\ Cardinality(Held([s EXCEPT ![a] = TRUE])) = Cardinality(Held(s)) + 1
<1>1. IsFiniteSet(Held(s))
  BY FiniteAssumption, FS_Subset DEF Held
<1>2. Held([s EXCEPT ![a] = TRUE]) = Held(s) \cup {a}
  BY DEF Held
<1>3. a \notin Held(s)
  BY DEF Held
<1> QED
  BY <1>1, <1>2, <1>3, FS_AddElement, FS_CardinalityType

\* Emptying the full slot of an agent removes exactly one holder.
LEMMA EmptySlot ==
    ASSUME NEW s \in [Agents -> BOOLEAN], NEW a \in Agents, s[a]
    PROVE  /\ Cardinality(Held(s)) \in Nat
           /\ Cardinality(Held([s EXCEPT ![a] = FALSE])) = Cardinality(Held(s)) - 1
<1>1. IsFiniteSet(Held(s))
  BY FiniteAssumption, FS_Subset DEF Held
<1>2. Held([s EXCEPT ![a] = FALSE]) = Held(s) \ {a}
  BY DEF Held
<1>3. a \in Held(s)
  BY DEF Held
<1> QED
  BY <1>1, <1>2, <1>3, FS_RemoveElement, FS_CardinalityType

\* Writing a slot the value it already has changes nothing, and no set of slots
\* has a cardinality outside Nat.
LEMMA SameSlot ==
    ASSUME NEW s \in [Agents -> BOOLEAN]
    PROVE  /\ Cardinality(Held(s)) \in Nat
           /\ \A a \in Agents, b \in BOOLEAN : s[a] = b => [s EXCEPT ![a] = b] = s
<1>1. Cardinality(Held(s)) \in Nat
  BY FiniteAssumption, FS_Subset, FS_CardinalityType DEF Held
<1>2. \A a \in Agents, b \in BOOLEAN : s[a] = b => [s EXCEPT ![a] = b] = s
  OBVIOUS
<1> QED
  BY <1>1, <1>2

-----------------------------------------------------------------------------
\* Spending a disturbance keeps the budget in its type.
LEMMA SpendType ==
    ASSUME budget \in [Disturbances -> Nat], NEW k \in Disturbances, Spend(k)
    PROVE  budget' \in [Disturbances -> Nat]
  BY DEF Spend

\* So does a database call, whatever its outcome.
LEMMA DbType ==
    ASSUME budget \in [Disturbances -> Nat], NEW ok \in BOOLEAN, Db(ok)
    PROVE  budget' \in [Disturbances -> Nat]
  BY SpendType DEF Db, Disturbances

\* A status write keeps the status column in its type, also for a missing row.
LEMMA StatusType ==
    ASSUME TypeStatus, NEW t, NEW s \in Status, NEW ok \in BOOLEAN,
           update_todo_status(t, s, ok)
    PROVE  TypeStatus'
  BY DbType DEF TypeStatus, update_todo_status

\* Enqueuing a real todo keeps the dispatch channel in its type as well.
LEMMA EnqueueType ==
    ASSUME TypeStatus, chan \in Seq(Todos), NEW t \in Todos, NEW ok \in BOOLEAN,
           enqueue(t, ok)
    PROVE  TypeStatus' /\ chan' \in Seq(Todos)
<1>1. TypeStatus'
  BY StatusType DEF enqueue, Status
<1>2. chan' \in Seq(Todos)
  BY DEF enqueue, Send
<1> QED
  BY <1>1, <1>2

\* The end of an agent's task.
LEMMA EndedType ==
    ASSUME TypeAgents, NEW a \in Agents, Ended(a)
    PROVE  TypeAgents'
  BY DEF TypeAgents, Ended, AgentPCs

\* The two kinds of message the inboxes hold.
LEMMA MessageType ==
    /\ <<[kind |-> "start", card |-> NoCard]>> \in Seq(Messages)
    /\ \A c \in Cards : ExecApproval(c) \in Messages
  BY DEF Messages, ExecApproval

\* Delivering a message keeps the inboxes in their type.
LEMMA DeliverType ==
    ASSUME NEW f \in [Agents -> Seq(Messages)], NEW a, NEW m \in Messages
    PROVE  [f EXCEPT ![a] = Append(@, m)] \in [Agents -> Seq(Messages)]
<1>1. CASE a \in Agents
  <2>1. Append(f[a], m) \in Seq(Messages)
    BY <1>1
  <2> QED
    BY <2>1
<1>2. CASE a \notin Agents
  BY <1>2
<1> QED
  BY <1>1, <1>2

\* Every step keeps every variable but permits in its type.
LEMMA TypeStep == TypeCore /\ WellFormed /\ [Next]_vars => TypeCore'
<1> SUFFICES ASSUME TypeCore, WellFormed, [Next]_vars PROVE TypeCore'
  OBVIOUS
<1>1. ASSUME DispatchRecv PROVE TypeCore'
  BY <1>1 DEF TypeCore, TypeStatus, TypeAgents, DispatchRecv, cards, agents, resolvers,
     pickup, tasks, edit
<1>2. ASSUME DispatchAcquire PROVE TypeCore'
  BY <1>2 DEF TypeCore, TypeStatus, TypeAgents, DispatchAcquire, cards, agents,
     resolvers, pickup, tasks, edit
<1>3. ASSUME NEW ok \in BOOLEAN, DispatchLoad(ok) PROVE TypeCore'
  BY <1>3, DbType DEF TypeCore, TypeStatus, TypeAgents, DispatchLoad, cards, agents,
     resolvers, pickup, tasks, edit
<1>4. ASSUME NEW ok \in BOOLEAN, DispatchClaim(ok) PROVE TypeCore'
  <2>1. TypeStatus'
    BY <1>4, StatusType DEF TypeCore, DispatchClaim, Status
  <2> QED
    BY <1>4, <2>1 DEF TypeCore, TypeAgents, DispatchClaim, cards, agents, resolvers, pickup,
       tasks, edit
<1>5. ASSUME NEW a \in Agents, DispatchSpawn(a) PROVE TypeCore'
  BY <1>5, MessageType DEF TypeCore, TypeStatus, TypeAgents, DispatchSpawn, AgentPCs,
     cards, resolvers, pickup, tasks, edit
<1>6. ASSUME NEW ok \in BOOLEAN, PickupRecover(ok) PROVE TypeCore'
  BY <1>6, DbType DEF TypeCore, TypeStatus, TypeAgents, PickupRecover, Listed, cards,
     dispatch, agents, resolvers, tasks, edit
<1>7. ASSUME NEW t \in Todos, NEW ok \in BOOLEAN, PickupReset(t, ok) PROVE TypeCore'
  <2>1. TypeStatus'
    BY <1>7, StatusType DEF TypeCore, PickupReset, Status
  <2> QED
    BY <1>7, <2>1 DEF TypeCore, TypeAgents, PickupReset, cards, dispatch, agents, resolvers,
       tasks, edit
<1>8. ASSUME NEW ok \in BOOLEAN, PickupListQueued(ok) PROVE TypeCore'
  BY <1>8, DbType DEF TypeCore, TypeStatus, TypeAgents, PickupListQueued, Listed, cards,
     dispatch, agents, resolvers, tasks, edit
<1>9. ASSUME NEW t \in Todos, PickupResend(t) PROVE TypeCore'
  <2>1. CASE UNCHANGED chan
    BY <1>9, <2>1 DEF TypeCore, TypeStatus, TypeAgents, PickupResend, cards, dispatch,
       agents, resolvers, tasks, edit
  <2>2. CASE Send(t)
    BY <1>9, <2>2 DEF TypeCore, TypeStatus, TypeAgents, PickupResend, Send, cards,
       dispatch, agents, resolvers, tasks, edit
  <2> QED
    BY <1>9, <2>1, <2>2 DEF PickupResend
<1>10. ASSUME NEW ok \in BOOLEAN, PickupScan(ok) PROVE TypeCore'
  BY <1>10, DbType DEF TypeCore, TypeStatus, TypeAgents, PickupScan, Listed, cards,
     dispatch, agents, resolvers, tasks, edit
<1>11. ASSUME NEW t \in Todos, NEW ok \in BOOLEAN, PickupEnqueue(t, ok)
      PROVE  TypeCore'
  <2>1. TypeStatus' /\ chan' \in Seq(Todos)
    BY <1>11, EnqueueType DEF TypeCore, PickupEnqueue
  <2> QED
    BY <1>11, <2>1 DEF TypeCore, TypeStatus, TypeAgents, PickupEnqueue, cards, dispatch,
       agents, resolvers, tasks, edit
<1>12. ASSUME PickupDone PROVE TypeCore'
  BY <1>12 DEF TypeCore, TypeStatus, TypeAgents, PickupDone, cards, dispatch, agents,
     resolvers, tasks, edit
<1>13. ASSUME NEW a \in Agents, AgentReceive(a) PROVE TypeCore'
  BY <1>13 DEF TypeCore, TypeStatus, TypeAgents, AgentReceive, AgentPCs, cards,
     dispatch, resolvers, pickup, tasks, edit
<1>14. ASSUME NEW a \in Agents, AgentFinish(a) PROVE TypeCore'
  BY <1>14 DEF TypeCore, TypeStatus, TypeAgents, AgentFinish, AgentGoesTo, AgentPCs,
     cards, dispatch, resolvers, pickup, tasks, edit
<1>15. ASSUME NEW a \in Agents, AgentEmpty(a) PROVE TypeCore'
  BY <1>15, SpendType DEF TypeCore, TypeStatus, TypeAgents, AgentEmpty, AgentGoesTo,
     Disturbances, AgentPCs, cards, dispatch, resolvers, pickup, tasks, edit
<1>16. ASSUME NEW a \in Agents, AgentQuit(a) PROVE TypeCore'
  BY <1>16 DEF TypeCore, TypeStatus, TypeAgents, AgentQuit, AgentPCs, cards, dispatch,
     resolvers, pickup, tasks, edit
<1>17. ASSUME NEW a \in Agents, AgentPanic(a) PROVE TypeCore'
  <2>1. budget' \in [Disturbances -> Nat] /\ TypeAgents'
    BY <1>17, SpendType, EndedType DEF TypeCore, TypeStatus, AgentPanic, Disturbances
  <2> QED
    BY <1>17, <2>1 DEF TypeCore, TypeStatus, TypeAgents, AgentPanic, Release, AgentPCs,
       cards, dispatch, resolvers, pickup, tasks, edit
<1>18. ASSUME NEW a \in Agents, NEW c \in Cards, AgentNeedApproval(a, c)
      PROVE  TypeCore'
  BY <1>18, SpendType DEF TypeCore, TypeStatus, TypeAgents, AgentNeedApproval, PushCard,
     Disturbances, AgentPCs, CardStates, dispatch, resolvers, pickup, tasks, edit
<1>19. ASSUME NEW a \in Agents, AgentRegister(a) PROVE TypeCore'
  BY <1>19 DEF TypeCore, TypeStatus, TypeAgents, AgentRegister, AgentGoesTo, AgentPCs,
     cards, dispatch, resolvers, pickup, tasks, edit
<1>20. ASSUME NEW a \in Agents, NEW ok \in BOOLEAN, AgentAwait(a, ok)
      PROVE  TypeCore'
  <2>1. TypeStatus'
    BY <1>20, StatusType DEF TypeCore, TypeStatus, AgentAwait, Status
  <2> QED
    BY <1>20, <2>1 DEF TypeCore, TypeAgents, AgentAwait, AgentGoesTo, AgentPCs, cards,
       dispatch, resolvers, pickup, tasks, edit
<1>21. ASSUME NEW a \in Agents, AgentRelease(a) PROVE TypeCore'
  BY <1>21 DEF TypeCore, TypeStatus, TypeAgents, AgentRelease, Release, AgentGoesTo,
     AgentPCs, cards, dispatch, resolvers, pickup, tasks, edit
<1>22. ASSUME NEW a \in Agents, NEW ok \in BOOLEAN, AgentRespond(a, ok)
      PROVE  TypeCore'
  <2>1. TypeStatus'
    BY <1>22, StatusType DEF TypeCore, TypeStatus, AgentRespond, Status
  <2> QED
    BY <1>22, <2>1 DEF TypeCore, TypeAgents, AgentRespond, AgentPCs, cards, dispatch,
       resolvers, pickup, tasks, edit
<1>23. ASSUME NEW a \in Agents, AgentStreamEnd(a) PROVE TypeCore'
  BY <1>23 DEF TypeCore, TypeStatus, TypeAgents, AgentStreamEnd, AgentGoesTo, AgentPCs,
     cards, dispatch, resolvers, pickup, tasks, edit
<1>24. ASSUME NEW a \in Agents, NEW ok \in BOOLEAN, AgentExit(a, ok) PROVE TypeCore'
  <2>1. TypeStatus'
    BY <1>24, StatusType DEF TypeCore, TypeStatus, AgentExit, Status
  <2> QED
    BY <1>24, <2>1 DEF TypeCore, TypeStatus, TypeAgents, AgentExit, AgentGoesTo, AgentPCs,
       cards, dispatch, resolvers, pickup, tasks, edit
<1>25. ASSUME NEW a \in Agents, AgentUnregister(a) PROVE TypeCore'
  BY <1>25 DEF TypeCore, TypeStatus, TypeAgents, AgentUnregister, Release, Ended,
     AgentPCs, cards, dispatch, resolvers, pickup, tasks, edit
<1>26. ASSUME NEW c \in Cards, NEW ok \in BOOLEAN, UserDecides(c, ok)
      PROVE  TypeCore'
  BY <1>26 DEF TypeCore, TypeStatus, TypeAgents, UserDecides, CardStates, dispatch,
     agents, pickup, tasks, edit
<1>27. ASSUME NEW c \in Cards, CardExpires(c) PROVE TypeCore'
  BY <1>27 DEF TypeCore, TypeStatus, TypeAgents, CardExpires, CardStates, dispatch,
     agents, resolvers, pickup, tasks, edit
<1>28. ASSUME NEW c \in Cards, ResolveTake(c) PROVE TypeCore'
  BY <1>28 DEF TypeCore, TypeStatus, TypeAgents, ResolveTake, cards, dispatch, agents,
     pickup, tasks, edit
<1>29. ASSUME NEW c \in Cards, ResolveAcquire(c) PROVE TypeCore'
  BY <1>29 DEF TypeCore, TypeStatus, TypeAgents, ResolveAcquire, cards, dispatch,
     agents, pickup, tasks, edit
<1>30. ASSUME NEW c \in Cards, ResolveSend(c) PROVE TypeCore'
  <2>1. slot' \in [Agents -> BOOLEAN]
    BY <1>30 DEF TypeCore, ResolveSend, Release
  <2>2. inbox' \in [Agents -> Seq(Messages)]
    <3>1. ExecApproval(c) \in Messages
      BY MessageType
    <3>2. [inbox EXCEPT ![ragent[c]] = Append(@, ExecApproval(c))] \in [Agents -> Seq(Messages)]
      BY <3>1, DeliverType DEF TypeCore, TypeAgents
    <3>3. \/ inbox' = [inbox EXCEPT ![ragent[c]] = Append(@, ExecApproval(c))]
          \/ inbox' = inbox
      BY <1>30 DEF ResolveSend
    <3> QED
      BY <3>2, <3>3 DEF TypeCore, TypeAgents
  <2> QED
    BY <1>30, <2>1, <2>2 DEF TypeCore, TypeStatus, TypeAgents, ResolveSend, Resolved, cards,
       dispatch, pickup, tasks, edit
<1>31. ASSUME NEW c \in Cards, NEW ok \in BOOLEAN, ResolveEnqueue(c, ok)
      PROVE  TypeCore'
  <2>1. TypeStatus' /\ chan' \in Seq(Todos)
    BY <1>31, EnqueueType DEF TypeCore, ResolveEnqueue, WellFormed
  <2> QED
    BY <1>31, <2>1 DEF TypeCore, TypeStatus, TypeAgents, ResolveEnqueue, Resolved, cards,
       dispatch, agents, pickup, tasks, edit
<1>32. ASSUME NEW t \in Todos, NEW c \in Cards, CreateTodo(t, c) PROVE TypeCore'
  <2>1. TypeStatus'
    BY <1>32 DEF TypeCore, TypeStatus, CreateTodo, Status
  <2>2. /\ cardSt' \in [Cards -> CardStates] /\ cardTodo' \in [Cards -> Todos \cup {NoTodo}]
        /\ cardTool' \in [Cards -> BOOLEAN]
    BY <1>32 DEF TypeCore, CreateTodo, PushCard, CardStates, cards
  <2> QED
    BY <1>32, <2>1, <2>2 DEF TypeCore, TypeAgents, CreateTodo, dispatch, agents, resolvers,
       pickup, tasks, edit
<1>33. ASSUME NEW t \in Todos, NEW s \in {"Completed", "Deleted"}, CompleteOrDelete(t, s)
      PROVE  TypeCore'
  <2>1. budget' \in [Disturbances -> Nat]
    BY <1>33, SpendType DEF TypeCore, TypeStatus, CompleteOrDelete, Disturbances
  <2>2. TypeStatus'
    BY <1>33, <2>1 DEF TypeCore, TypeStatus, CompleteOrDelete, Status
  <2> QED
    BY <1>33, <2>2 DEF TypeCore, TypeAgents, CompleteOrDelete, cards, dispatch, agents,
       resolvers, pickup, tasks, edit
<1>34. ASSUME NEW t \in Todos, NEW s \in Status, EditRead(t, s) PROVE TypeCore'
  <2>1. TypeStatus'
    BY <1>34, SpendType DEF TypeCore, TypeStatus, EditRead, Disturbances
  <2> QED
    BY <1>34, <2>1 DEF TypeCore, TypeAgents, EditRead, cards, dispatch, agents, resolvers,
       pickup, tasks
<1>35. ASSUME NEW ok \in BOOLEAN, EditWrite(ok) PROVE TypeCore'
  <2>1. TypeStatus'
    BY <1>35, StatusType DEF TypeCore, EditWrite, Status
  <2> QED
    BY <1>35, <2>1 DEF TypeCore, TypeStatus, TypeAgents, EditWrite, Status, cards,
       dispatch, agents, resolvers, pickup, tasks
<1>36. ASSUME NEW t \in Todos, UserFollowUp(t) PROVE TypeCore'
  BY <1>36, SpendType DEF TypeCore, TypeStatus, TypeAgents, UserFollowUp, Disturbances,
     cards, dispatch, agents, resolvers, pickup, edit
<1>37. ASSUME NEW t \in Todos, NEW ok \in BOOLEAN, FollowUpWorking(t, ok)
      PROVE  TypeCore'
  <2>1. TypeStatus'
    BY <1>37, StatusType DEF TypeCore, FollowUpWorking, Status
  <2> QED
    BY <1>37, <2>1 DEF TypeCore, TypeStatus, TypeAgents, FollowUpWorking, cards, dispatch,
       agents, resolvers, pickup, edit
<1>38. ASSUME NEW t \in Todos, NEW ok \in BOOLEAN, FollowUpEnqueue(t, ok)
      PROVE  TypeCore'
  <2>1. TypeStatus' /\ chan' \in Seq(Todos)
    BY <1>38, EnqueueType DEF TypeCore, FollowUpEnqueue
  <2> QED
    BY <1>38, <2>1 DEF TypeCore, TypeStatus, TypeAgents, FollowUpEnqueue, cards, dispatch,
       agents, resolvers, pickup, edit
<1>39. ASSUME CtrlC PROVE TypeCore'
  BY <1>39, SpendType DEF TypeCore, TypeStatus, TypeAgents, CtrlC, Disturbances,
     AgentPCs, cards, dispatch, resolvers, pickup, tasks, edit
<1>40. ASSUME Restart PROVE TypeCore'
  BY <1>40, SpendType, SMTT(30) DEF TypeCore, TypeStatus, TypeAgents, Restart, RestartAt, Disturbances,
     AgentPCs, Status, cards
<1>41. CASE UNCHANGED vars
  BY <1>41 DEF TypeCore, TypeStatus, TypeAgents, vars, cards, dispatch, agents,
     resolvers, pickup, tasks, edit
<1> QED
  BY <1>1, <1>2, <1>3, <1>4, <1>5, <1>6, <1>7, <1>8, <1>9, <1>10, <1>11, <1>12, <1>13,
     <1>14, <1>15, <1>16, <1>17, <1>18, <1>19, <1>20, <1>21, <1>22, <1>23, <1>24, <1>25,
     <1>26, <1>27, <1>28, <1>29, <1>30, <1>31, <1>32, <1>33, <1>34, <1>35, <1>36, <1>37,
     <1>38, <1>39, <1>40, <1>41 DEF Next, Dispatch, Pickup, AgentStep, AgentDisturbed,
     Resolve, FollowUpTask, User

\* Every step keeps the todo references real.
LEMMA WellFormedStep == TypeCore /\ WellFormed /\ [Next]_vars => WellFormed'
<1> SUFFICES ASSUME TypeCore, WellFormed, [Next]_vars PROVE WellFormed'
  OBVIOUS
<1> USE DEF TypeCore, TypeAgents
<1>1. ASSUME DispatchRecv PROVE WellFormed'
  BY <1>1 DEF WellFormed, DispatchRecv, cards, agents, resolvers
<1>2. ASSUME DispatchAcquire PROVE WellFormed'
  BY <1>2 DEF WellFormed, DispatchAcquire, cards, agents, resolvers
<1>3. ASSUME NEW ok \in BOOLEAN, DispatchLoad(ok) PROVE WellFormed'
  BY <1>3 DEF WellFormed, DispatchLoad, cards, agents, resolvers
<1>4. ASSUME NEW ok \in BOOLEAN, DispatchClaim(ok) PROVE WellFormed'
  BY <1>4 DEF WellFormed, DispatchClaim, cards, agents, resolvers
<1>5. ASSUME NEW a \in Agents, DispatchSpawn(a) PROVE WellFormed'
  BY <1>5 DEF WellFormed, DispatchSpawn, cards, resolvers
<1>6. ASSUME NEW ok \in BOOLEAN, PickupRecover(ok) PROVE WellFormed'
  BY <1>6 DEF WellFormed, PickupRecover, cards, dispatch, agents, resolvers
<1>7. ASSUME NEW t \in Todos, NEW ok \in BOOLEAN, PickupReset(t, ok)
      PROVE  WellFormed'
  BY <1>7 DEF WellFormed, PickupReset, cards, dispatch, agents, resolvers
<1>8. ASSUME NEW ok \in BOOLEAN, PickupListQueued(ok) PROVE WellFormed'
  BY <1>8 DEF WellFormed, PickupListQueued, cards, dispatch, agents, resolvers
<1>9. ASSUME NEW t \in Todos, PickupResend(t) PROVE WellFormed'
  BY <1>9 DEF WellFormed, PickupResend, cards, dispatch, agents, resolvers
<1>10. ASSUME NEW ok \in BOOLEAN, PickupScan(ok) PROVE WellFormed'
  BY <1>10 DEF WellFormed, PickupScan, cards, dispatch, agents, resolvers
<1>11. ASSUME NEW t \in Todos, NEW ok \in BOOLEAN, PickupEnqueue(t, ok)
      PROVE  WellFormed'
  BY <1>11 DEF WellFormed, PickupEnqueue, cards, dispatch, agents, resolvers
<1>12. ASSUME PickupDone PROVE WellFormed'
  BY <1>12 DEF WellFormed, PickupDone, cards, dispatch, agents, resolvers
<1>13. ASSUME NEW a \in Agents, AgentReceive(a) PROVE WellFormed'
  BY <1>13 DEF WellFormed, AgentReceive, cards, dispatch, resolvers
<1>14. ASSUME NEW a \in Agents, AgentFinish(a) PROVE WellFormed'
  BY <1>14 DEF WellFormed, AgentFinish, AgentGoesTo, cards, dispatch, resolvers
<1>15. ASSUME NEW a \in Agents, AgentEmpty(a) PROVE WellFormed'
  BY <1>15 DEF WellFormed, AgentEmpty, AgentGoesTo, cards, dispatch, resolvers
<1>16. ASSUME NEW a \in Agents, AgentQuit(a) PROVE WellFormed'
  BY <1>16 DEF WellFormed, AgentQuit, cards, dispatch, resolvers
<1>17. ASSUME NEW a \in Agents, AgentPanic(a) PROVE WellFormed'
  BY <1>17 DEF WellFormed, AgentPanic, Ended, cards, dispatch, resolvers
<1>18. ASSUME NEW a \in Agents, NEW c \in Cards, AgentNeedApproval(a, c)
      PROVE  WellFormed'
  BY <1>18 DEF WellFormed, AgentNeedApproval, PushCard, FreeCard, dispatch, resolvers
<1>19. ASSUME NEW a \in Agents, AgentRegister(a) PROVE WellFormed'
  BY <1>19 DEF WellFormed, AgentRegister, AgentGoesTo, cards, dispatch, resolvers
<1>20. ASSUME NEW a \in Agents, NEW ok \in BOOLEAN, AgentAwait(a, ok)
      PROVE  WellFormed'
  BY <1>20 DEF WellFormed, AgentAwait, AgentGoesTo, cards, dispatch, resolvers
<1>21. ASSUME NEW a \in Agents, AgentRelease(a) PROVE WellFormed'
  BY <1>21 DEF WellFormed, AgentRelease, AgentGoesTo, cards, dispatch, resolvers
<1>22. ASSUME NEW a \in Agents, NEW ok \in BOOLEAN, AgentRespond(a, ok)
      PROVE  WellFormed'
  BY <1>22 DEF WellFormed, AgentRespond, cards, dispatch, resolvers
<1>23. ASSUME NEW a \in Agents, AgentStreamEnd(a) PROVE WellFormed'
  BY <1>23 DEF WellFormed, AgentStreamEnd, AgentGoesTo, cards, dispatch, resolvers
<1>24. ASSUME NEW a \in Agents, NEW ok \in BOOLEAN, AgentExit(a, ok)
      PROVE  WellFormed'
  BY <1>24 DEF WellFormed, AgentExit, AgentGoesTo, cards, dispatch, resolvers
<1>25. ASSUME NEW a \in Agents, AgentUnregister(a) PROVE WellFormed'
  BY <1>25 DEF WellFormed, AgentUnregister, Ended, cards, dispatch, resolvers
<1>26. ASSUME NEW c \in Cards, NEW ok \in BOOLEAN, UserDecides(c, ok)
      PROVE  WellFormed'
  BY <1>26 DEF WellFormed, UserDecides, dispatch, agents
<1>27. ASSUME NEW c \in Cards, CardExpires(c) PROVE WellFormed'
  BY <1>27 DEF WellFormed, CardExpires, dispatch, agents, resolvers
<1>28. ASSUME NEW c \in Cards, ResolveTake(c) PROVE WellFormed'
  BY <1>28 DEF WellFormed, ResolveTake, cards, dispatch, agents
<1>29. ASSUME NEW c \in Cards, ResolveAcquire(c) PROVE WellFormed'
  BY <1>29 DEF WellFormed, ResolveAcquire, cards, dispatch, agents
<1>30. ASSUME NEW c \in Cards, ResolveSend(c) PROVE WellFormed'
  BY <1>30 DEF WellFormed, ResolveSend, Resolved, cards, dispatch
<1>31. ASSUME NEW c \in Cards, NEW ok \in BOOLEAN, ResolveEnqueue(c, ok)
      PROVE  WellFormed'
  BY <1>31 DEF WellFormed, ResolveEnqueue, Resolved, cards, dispatch, agents
<1>32. ASSUME NEW t \in Todos, NEW c \in Cards, CreateTodo(t, c) PROVE WellFormed'
  BY <1>32 DEF WellFormed, CreateTodo, PushCard, FreeCard, cards, dispatch, agents,
     resolvers
<1>33. ASSUME NEW t \in Todos, NEW s \in {"Completed", "Deleted"}, CompleteOrDelete(t, s)
      PROVE  WellFormed'
  BY <1>33 DEF WellFormed, CompleteOrDelete, cards, dispatch, agents, resolvers
<1>34. ASSUME NEW t \in Todos, NEW s \in Status, EditRead(t, s) PROVE WellFormed'
  BY <1>34 DEF WellFormed, EditRead, cards, dispatch, agents, resolvers
<1>35. ASSUME NEW ok \in BOOLEAN, EditWrite(ok) PROVE WellFormed'
  BY <1>35 DEF WellFormed, EditWrite, cards, dispatch, agents, resolvers
<1>36. ASSUME NEW t \in Todos, UserFollowUp(t) PROVE WellFormed'
  BY <1>36 DEF WellFormed, UserFollowUp, cards, dispatch, agents, resolvers
<1>37. ASSUME NEW t \in Todos, NEW ok \in BOOLEAN, FollowUpWorking(t, ok)
      PROVE  WellFormed'
  BY <1>37 DEF WellFormed, FollowUpWorking, cards, dispatch, agents, resolvers
<1>38. ASSUME NEW t \in Todos, NEW ok \in BOOLEAN, FollowUpEnqueue(t, ok)
      PROVE  WellFormed'
  BY <1>38 DEF WellFormed, FollowUpEnqueue, cards, dispatch, agents, resolvers
<1>39. ASSUME CtrlC PROVE WellFormed'
  BY <1>39 DEF WellFormed, CtrlC, cards, dispatch, resolvers
<1>40. ASSUME Restart PROVE WellFormed'
  BY <1>40 DEF WellFormed, Restart, RestartAt, cards
<1>41. CASE UNCHANGED vars
  BY <1>41 DEF WellFormed, vars, cards, dispatch, agents, resolvers
<1> QED
  BY <1>1, <1>2, <1>3, <1>4, <1>5, <1>6, <1>7, <1>8, <1>9, <1>10, <1>11, <1>12, <1>13,
     <1>14, <1>15, <1>16, <1>17, <1>18, <1>19, <1>20, <1>21, <1>22, <1>23, <1>24, <1>25,
     <1>26, <1>27, <1>28, <1>29, <1>30, <1>31, <1>32, <1>33, <1>34, <1>35, <1>36, <1>37,
     <1>38, <1>39, <1>40, <1>41 DEF Next, Dispatch, Pickup, AgentStep, AgentDisturbed,
     Resolve, FollowUpTask, User

\* Every step keeps the permits of dead agents in a resolver's hands, and resolvers
\* pointed at agents.
LEMMA HolderStep ==
    TypeCore /\ WellFormed /\ NoPermitOfTheDead /\ ResolverHasAgent /\ [Next]_vars
        => (NoPermitOfTheDead /\ ResolverHasAgent)'
<1> SUFFICES ASSUME TypeCore, WellFormed, NoPermitOfTheDead, ResolverHasAgent, [Next]_vars
             PROVE  (NoPermitOfTheDead /\ ResolverHasAgent)'
  OBVIOUS
<1> USE DEF TypeCore, TypeAgents
<1>1. ASSUME DispatchRecv PROVE (NoPermitOfTheDead /\ ResolverHasAgent)'
  BY <1>1 DEF NoPermitOfTheDead, ResolverHasAgent, DispatchRecv, agents, resolvers
<1>2. ASSUME DispatchAcquire PROVE (NoPermitOfTheDead /\ ResolverHasAgent)'
  BY <1>2 DEF NoPermitOfTheDead, ResolverHasAgent, DispatchAcquire, agents, resolvers
<1>3. ASSUME NEW ok \in BOOLEAN, DispatchLoad(ok)
      PROVE  (NoPermitOfTheDead /\ ResolverHasAgent)'
  BY <1>3 DEF NoPermitOfTheDead, ResolverHasAgent, DispatchLoad, agents, resolvers
<1>4. ASSUME NEW ok \in BOOLEAN, DispatchClaim(ok)
      PROVE  (NoPermitOfTheDead /\ ResolverHasAgent)'
  BY <1>4 DEF NoPermitOfTheDead, ResolverHasAgent, DispatchClaim, agents, resolvers
<1>5. ASSUME NEW a \in Agents, DispatchSpawn(a)
      PROVE  (NoPermitOfTheDead /\ ResolverHasAgent)'
  BY <1>5 DEF NoPermitOfTheDead, ResolverHasAgent, DispatchSpawn, resolvers
<1>6. ASSUME NEW ok \in BOOLEAN, PickupRecover(ok)
      PROVE  (NoPermitOfTheDead /\ ResolverHasAgent)'
  BY <1>6 DEF NoPermitOfTheDead, ResolverHasAgent, PickupRecover, agents, resolvers
<1>7. ASSUME NEW t \in Todos, NEW ok \in BOOLEAN, PickupReset(t, ok)
      PROVE  (NoPermitOfTheDead /\ ResolverHasAgent)'
  BY <1>7 DEF NoPermitOfTheDead, ResolverHasAgent, PickupReset, agents, resolvers
<1>8. ASSUME NEW ok \in BOOLEAN, PickupListQueued(ok)
      PROVE  (NoPermitOfTheDead /\ ResolverHasAgent)'
  BY <1>8 DEF NoPermitOfTheDead, ResolverHasAgent, PickupListQueued, agents, resolvers
<1>9. ASSUME NEW t \in Todos, PickupResend(t)
      PROVE  (NoPermitOfTheDead /\ ResolverHasAgent)'
  BY <1>9 DEF NoPermitOfTheDead, ResolverHasAgent, PickupResend, agents, resolvers
<1>10. ASSUME NEW ok \in BOOLEAN, PickupScan(ok)
      PROVE  (NoPermitOfTheDead /\ ResolverHasAgent)'
  BY <1>10 DEF NoPermitOfTheDead, ResolverHasAgent, PickupScan, agents, resolvers
<1>11. ASSUME NEW t \in Todos, NEW ok \in BOOLEAN, PickupEnqueue(t, ok)
      PROVE  (NoPermitOfTheDead /\ ResolverHasAgent)'
  BY <1>11 DEF NoPermitOfTheDead, ResolverHasAgent, PickupEnqueue, agents, resolvers
<1>12. ASSUME PickupDone PROVE (NoPermitOfTheDead /\ ResolverHasAgent)'
  BY <1>12 DEF NoPermitOfTheDead, ResolverHasAgent, PickupDone, agents, resolvers
<1>13. ASSUME NEW a \in Agents, AgentReceive(a)
      PROVE  (NoPermitOfTheDead /\ ResolverHasAgent)'
  BY <1>13 DEF NoPermitOfTheDead, ResolverHasAgent, AgentReceive, resolvers
<1>14. ASSUME NEW a \in Agents, AgentFinish(a)
      PROVE  (NoPermitOfTheDead /\ ResolverHasAgent)'
  BY <1>14 DEF NoPermitOfTheDead, ResolverHasAgent, AgentFinish, AgentGoesTo, resolvers
<1>15. ASSUME NEW a \in Agents, AgentEmpty(a)
      PROVE  (NoPermitOfTheDead /\ ResolverHasAgent)'
  BY <1>15 DEF NoPermitOfTheDead, ResolverHasAgent, AgentEmpty, AgentGoesTo, resolvers
<1>16. ASSUME NEW a \in Agents, AgentQuit(a)
      PROVE  (NoPermitOfTheDead /\ ResolverHasAgent)'
  BY <1>16 DEF NoPermitOfTheDead, ResolverHasAgent, AgentQuit, resolvers
<1>17. ASSUME NEW a \in Agents, AgentPanic(a)
      PROVE  (NoPermitOfTheDead /\ ResolverHasAgent)'
  BY <1>17 DEF NoPermitOfTheDead, ResolverHasAgent, AgentPanic, Release, Ended,
     resolvers
<1>18. ASSUME NEW a \in Agents, NEW c \in Cards, AgentNeedApproval(a, c)
      PROVE  (NoPermitOfTheDead /\ ResolverHasAgent)'
  BY <1>18 DEF NoPermitOfTheDead, ResolverHasAgent, AgentNeedApproval, resolvers
<1>19. ASSUME NEW a \in Agents, AgentRegister(a)
      PROVE  (NoPermitOfTheDead /\ ResolverHasAgent)'
  BY <1>19 DEF NoPermitOfTheDead, ResolverHasAgent, AgentRegister, AgentGoesTo,
     resolvers
<1>20. ASSUME NEW a \in Agents, NEW ok \in BOOLEAN, AgentAwait(a, ok)
      PROVE  (NoPermitOfTheDead /\ ResolverHasAgent)'
  BY <1>20 DEF NoPermitOfTheDead, ResolverHasAgent, AgentAwait, AgentGoesTo, resolvers
<1>21. ASSUME NEW a \in Agents, AgentRelease(a)
      PROVE  (NoPermitOfTheDead /\ ResolverHasAgent)'
  BY <1>21 DEF NoPermitOfTheDead, ResolverHasAgent, AgentRelease, Release, AgentGoesTo,
     resolvers
<1>22. ASSUME NEW a \in Agents, NEW ok \in BOOLEAN, AgentRespond(a, ok)
      PROVE  (NoPermitOfTheDead /\ ResolverHasAgent)'
  BY <1>22 DEF NoPermitOfTheDead, ResolverHasAgent, AgentRespond, resolvers
<1>23. ASSUME NEW a \in Agents, AgentStreamEnd(a)
      PROVE  (NoPermitOfTheDead /\ ResolverHasAgent)'
  BY <1>23 DEF NoPermitOfTheDead, ResolverHasAgent, AgentStreamEnd, AgentGoesTo,
     resolvers
<1>24. ASSUME NEW a \in Agents, NEW ok \in BOOLEAN, AgentExit(a, ok)
      PROVE  (NoPermitOfTheDead /\ ResolverHasAgent)'
  BY <1>24 DEF NoPermitOfTheDead, ResolverHasAgent, AgentExit, AgentGoesTo, resolvers
<1>25. ASSUME NEW a \in Agents, AgentUnregister(a)
      PROVE  (NoPermitOfTheDead /\ ResolverHasAgent)'
  BY <1>25 DEF NoPermitOfTheDead, ResolverHasAgent, AgentUnregister, Release, Ended,
     resolvers
<1>26. ASSUME NEW c \in Cards, NEW ok \in BOOLEAN, UserDecides(c, ok)
      PROVE  (NoPermitOfTheDead /\ ResolverHasAgent)'
  BY <1>26 DEF NoPermitOfTheDead, ResolverHasAgent, UserDecides, WellFormed, agents
<1>27. ASSUME NEW c \in Cards, CardExpires(c)
      PROVE  (NoPermitOfTheDead /\ ResolverHasAgent)'
  BY <1>27 DEF NoPermitOfTheDead, ResolverHasAgent, CardExpires, agents, resolvers
<1>28. ASSUME NEW c \in Cards, ResolveTake(c)
      PROVE  (NoPermitOfTheDead /\ ResolverHasAgent)'
  BY <1>28 DEF NoPermitOfTheDead, ResolverHasAgent, ResolveTake, agents
<1>29. ASSUME NEW c \in Cards, ResolveAcquire(c)
      PROVE  (NoPermitOfTheDead /\ ResolverHasAgent)'
  BY <1>29 DEF NoPermitOfTheDead, ResolverHasAgent, ResolveAcquire, agents
<1>30. ASSUME NEW c \in Cards, ResolveSend(c)
      PROVE  (NoPermitOfTheDead /\ ResolverHasAgent)'
  BY <1>30 DEF NoPermitOfTheDead, ResolverHasAgent, ResolveSend, Release, Resolved
<1>31. ASSUME NEW c \in Cards, NEW ok \in BOOLEAN, ResolveEnqueue(c, ok)
      PROVE  (NoPermitOfTheDead /\ ResolverHasAgent)'
  BY <1>31 DEF NoPermitOfTheDead, ResolverHasAgent, ResolveEnqueue, Resolved, agents
<1>32. ASSUME NEW t \in Todos, NEW c \in Cards, CreateTodo(t, c)
      PROVE  (NoPermitOfTheDead /\ ResolverHasAgent)'
  BY <1>32 DEF NoPermitOfTheDead, ResolverHasAgent, CreateTodo, agents, resolvers
<1>33. ASSUME NEW t \in Todos, NEW s \in {"Completed", "Deleted"}, CompleteOrDelete(t, s)
      PROVE  (NoPermitOfTheDead /\ ResolverHasAgent)'
  BY <1>33 DEF NoPermitOfTheDead, ResolverHasAgent, CompleteOrDelete, agents, resolvers
<1>34. ASSUME NEW t \in Todos, NEW s \in Status, EditRead(t, s)
      PROVE  (NoPermitOfTheDead /\ ResolverHasAgent)'
  BY <1>34 DEF NoPermitOfTheDead, ResolverHasAgent, EditRead, agents, resolvers
<1>35. ASSUME NEW ok \in BOOLEAN, EditWrite(ok)
      PROVE  (NoPermitOfTheDead /\ ResolverHasAgent)'
  BY <1>35 DEF NoPermitOfTheDead, ResolverHasAgent, EditWrite, agents, resolvers
<1>36. ASSUME NEW t \in Todos, UserFollowUp(t)
      PROVE  (NoPermitOfTheDead /\ ResolverHasAgent)'
  BY <1>36 DEF NoPermitOfTheDead, ResolverHasAgent, UserFollowUp, agents, resolvers
<1>37. ASSUME NEW t \in Todos, NEW ok \in BOOLEAN, FollowUpWorking(t, ok)
      PROVE  (NoPermitOfTheDead /\ ResolverHasAgent)'
  BY <1>37 DEF NoPermitOfTheDead, ResolverHasAgent, FollowUpWorking, agents, resolvers
<1>38. ASSUME NEW t \in Todos, NEW ok \in BOOLEAN, FollowUpEnqueue(t, ok)
      PROVE  (NoPermitOfTheDead /\ ResolverHasAgent)'
  BY <1>38 DEF NoPermitOfTheDead, ResolverHasAgent, FollowUpEnqueue, agents, resolvers
<1>39. ASSUME CtrlC PROVE (NoPermitOfTheDead /\ ResolverHasAgent)'
  BY <1>39 DEF NoPermitOfTheDead, ResolverHasAgent, CtrlC, resolvers
<1>40. ASSUME Restart PROVE (NoPermitOfTheDead /\ ResolverHasAgent)'
  BY <1>40 DEF NoPermitOfTheDead, ResolverHasAgent, Restart, RestartAt
<1>41. CASE UNCHANGED vars
  BY <1>41 DEF NoPermitOfTheDead, ResolverHasAgent, vars, agents, resolvers
<1> QED
  BY <1>1, <1>2, <1>3, <1>4, <1>5, <1>6, <1>7, <1>8, <1>9, <1>10, <1>11, <1>12, <1>13,
     <1>14, <1>15, <1>16, <1>17, <1>18, <1>19, <1>20, <1>21, <1>22, <1>23, <1>24, <1>25,
     <1>26, <1>27, <1>28, <1>29, <1>30, <1>31, <1>32, <1>33, <1>34, <1>35, <1>36, <1>37,
     <1>38, <1>39, <1>40, <1>41 DEF Next, Dispatch, Pickup, AgentStep, AgentDisturbed,
     Resolve, FollowUpTask, User

-----------------------------------------------------------------------------
\* Dropping what a slot holds conserves permits.
LEMMA ReleaseConserves ==
    ASSUME slot \in [Agents -> BOOLEAN], permits \in Nat, PermitsConserved,
           NEW a \in Agents, Release(a), dpc' = dpc
    PROVE  PermitsConserved' /\ permits' \in Nat
<1> USE DEF PermitsConserved, Holders, DispatcherHolds, Held
<1>1. CASE slot[a]
  BY <1>1, EmptySlot DEF Release
<1>2. CASE ~slot[a]
  <2>1. slot' = slot
    BY <1>2, SameSlot DEF Release
  <2> QED
    BY <1>2, <2>1 DEF Release
<1> QED
  BY <1>1, <1>2

\* Every step conserves permits.
LEMMA ConservationStep == PermitInv /\ [Next]_vars => PermitsConserved' /\ permits' \in Nat
<1> DEFINE Goal == PermitsConserved' /\ permits' \in Nat
<1> SUFFICES ASSUME PermitInv, [Next]_vars PROVE Goal
  OBVIOUS
<1>0. /\ slot \in [Agents -> BOOLEAN] /\ permits \in Nat /\ PermitsConserved
      /\ NoPermitOfTheDead /\ ResolverHasAgent
  BY DEF PermitInv, TypeOK, TypeCore
<1> HIDE DEF PermitInv
<1> USE <1>0 DEF PermitsConserved, Holders, DispatcherHolds, Held
<1>1. ASSUME DispatchRecv PROVE Goal
  BY <1>1 DEF Goal, DispatchRecv
<1>2. ASSUME DispatchAcquire PROVE Goal
  BY <1>2, SameSlot DEF Goal, DispatchAcquire
<1>3. ASSUME NEW ok \in BOOLEAN, DispatchLoad(ok) PROVE Goal
  BY <1>3, SameSlot DEF Goal, DispatchLoad
<1>4. ASSUME NEW ok \in BOOLEAN, DispatchClaim(ok) PROVE Goal
  BY <1>4, SameSlot DEF Goal, DispatchClaim
<1>5. ASSUME NEW a \in Agents, DispatchSpawn(a) PROVE Goal
  <2>1. ~slot[a]
    BY <1>5 DEF DispatchSpawn, FreeAgent, Referenced, NoPermitOfTheDead
  <2> QED
    BY <1>5, <2>1, FillSlot DEF DispatchSpawn
<1>6. ASSUME NEW ok \in BOOLEAN, PickupRecover(ok) PROVE Goal
  BY <1>6 DEF Goal, PickupRecover, dispatch
<1>7. ASSUME NEW t \in Todos, NEW ok \in BOOLEAN, PickupReset(t, ok) PROVE Goal
  BY <1>7 DEF Goal, PickupReset, dispatch
<1>8. ASSUME NEW ok \in BOOLEAN, PickupListQueued(ok) PROVE Goal
  BY <1>8 DEF Goal, PickupListQueued, dispatch
<1>9. ASSUME NEW t \in Todos, PickupResend(t) PROVE Goal
  BY <1>9 DEF Goal, PickupResend, dispatch
<1>10. ASSUME NEW ok \in BOOLEAN, PickupScan(ok) PROVE Goal
  BY <1>10 DEF Goal, PickupScan, dispatch
<1>11. ASSUME NEW t \in Todos, NEW ok \in BOOLEAN, PickupEnqueue(t, ok) PROVE Goal
  BY <1>11 DEF Goal, PickupEnqueue, dispatch
<1>12. ASSUME PickupDone PROVE Goal
  BY <1>12 DEF Goal, PickupDone, dispatch
<1>13. ASSUME NEW a \in Agents, AgentReceive(a) PROVE Goal
  BY <1>13 DEF Goal, AgentReceive, dispatch
<1>14. ASSUME NEW a \in Agents, AgentFinish(a) PROVE Goal
  BY <1>14 DEF Goal, AgentFinish, dispatch
<1>15. ASSUME NEW a \in Agents, AgentEmpty(a) PROVE Goal
  BY <1>15 DEF Goal, AgentEmpty, dispatch
<1>16. ASSUME NEW a \in Agents, AgentQuit(a) PROVE Goal
  BY <1>16 DEF Goal, AgentQuit, dispatch
<1>17. ASSUME NEW a \in Agents, AgentPanic(a) PROVE Goal
  BY <1>17, ReleaseConserves DEF Goal, AgentPanic, dispatch, dispatch
<1>18. ASSUME NEW a \in Agents, NEW c \in Cards, AgentNeedApproval(a, c) PROVE Goal
  BY <1>18 DEF Goal, AgentNeedApproval, dispatch
<1>19. ASSUME NEW a \in Agents, AgentRegister(a) PROVE Goal
  BY <1>19 DEF Goal, AgentRegister, dispatch
<1>20. ASSUME NEW a \in Agents, NEW ok \in BOOLEAN, AgentAwait(a, ok) PROVE Goal
  BY <1>20 DEF Goal, AgentAwait, dispatch
<1>21. ASSUME NEW a \in Agents, AgentRelease(a) PROVE Goal
  BY <1>21, ReleaseConserves DEF Goal, AgentRelease, dispatch, dispatch
<1>22. ASSUME NEW a \in Agents, NEW ok \in BOOLEAN, AgentRespond(a, ok) PROVE Goal
  BY <1>22 DEF Goal, AgentRespond, dispatch
<1>23. ASSUME NEW a \in Agents, AgentStreamEnd(a) PROVE Goal
  BY <1>23 DEF Goal, AgentStreamEnd, dispatch
<1>24. ASSUME NEW a \in Agents, NEW ok \in BOOLEAN, AgentExit(a, ok) PROVE Goal
  BY <1>24 DEF Goal, AgentExit, dispatch
<1>25. ASSUME NEW a \in Agents, AgentUnregister(a) PROVE Goal
  BY <1>25, ReleaseConserves DEF Goal, AgentUnregister, dispatch, dispatch
<1>26. ASSUME NEW c \in Cards, NEW ok \in BOOLEAN, UserDecides(c, ok) PROVE Goal
  BY <1>26 DEF Goal, UserDecides, dispatch
<1>27. ASSUME NEW c \in Cards, CardExpires(c) PROVE Goal
  BY <1>27 DEF Goal, CardExpires, dispatch
<1>28. ASSUME NEW c \in Cards, ResolveTake(c) PROVE Goal
  BY <1>28 DEF Goal, ResolveTake, dispatch
<1>29. ASSUME NEW c \in Cards, ResolveAcquire(c) PROVE Goal
  <2>1. ragent[c] \in Agents
    BY <1>29 DEF ResolveAcquire, ResolverHasAgent
  <2>2. CASE slot[ragent[c]]
    <3>1. slot' = slot
      BY <1>29, <2>1, <2>2, SameSlot DEF ResolveAcquire
    <3> QED
      BY <1>29, <2>2, <3>1 DEF ResolveAcquire, dispatch
  <2>3. CASE ~slot[ragent[c]]
    BY <1>29, <2>1, <2>3, FillSlot DEF ResolveAcquire, dispatch
  <2> QED
    BY <2>2, <2>3
<1>30. ASSUME NEW c \in Cards, ResolveSend(c) PROVE Goal
  <2>1. ragent[c] \in Agents
    BY <1>30 DEF ResolveSend, ResolverHasAgent
  <2>2. CASE apc[ragent[c]] = "done"
    BY <1>30, <2>1, <2>2, ReleaseConserves DEF ResolveSend, dispatch
  <2>3. CASE apc[ragent[c]] # "done"
    BY <1>30, <2>3 DEF ResolveSend, dispatch
  <2> QED
    BY <2>2, <2>3
<1>31. ASSUME NEW c \in Cards, NEW ok \in BOOLEAN, ResolveEnqueue(c, ok) PROVE Goal
  BY <1>31 DEF Goal, ResolveEnqueue, dispatch
<1>32. ASSUME NEW t \in Todos, NEW c \in Cards, CreateTodo(t, c) PROVE Goal
  BY <1>32 DEF Goal, CreateTodo, dispatch
<1>33. ASSUME NEW t \in Todos, NEW s \in {"Completed", "Deleted"}, CompleteOrDelete(t, s)
      PROVE  Goal
  BY <1>33 DEF Goal, CompleteOrDelete, dispatch
<1>34. ASSUME NEW t \in Todos, NEW s \in Status, EditRead(t, s) PROVE Goal
  BY <1>34 DEF Goal, EditRead, dispatch
<1>35. ASSUME NEW ok \in BOOLEAN, EditWrite(ok) PROVE Goal
  BY <1>35 DEF Goal, EditWrite, dispatch
<1>36. ASSUME NEW t \in Todos, UserFollowUp(t) PROVE Goal
  BY <1>36 DEF Goal, UserFollowUp, dispatch
<1>37. ASSUME NEW t \in Todos, NEW ok \in BOOLEAN, FollowUpWorking(t, ok) PROVE Goal
  BY <1>37 DEF Goal, FollowUpWorking, dispatch
<1>38. ASSUME NEW t \in Todos, NEW ok \in BOOLEAN, FollowUpEnqueue(t, ok) PROVE Goal
  BY <1>38 DEF Goal, FollowUpEnqueue, dispatch
<1>39. ASSUME CtrlC PROVE Goal
  BY <1>39 DEF Goal, CtrlC, dispatch
<1>40. ASSUME Restart PROVE Goal
  <2>1. Holders' = {}
    BY <1>40 DEF Restart, RestartAt
  <2>2. Cardinality(Holders') = 0
    BY ONLY <2>1, FS_EmptySet
  <2>3. ~DispatcherHolds' /\ permits' = MaxConcurrency /\ MaxConcurrency \in Nat
    BY <1>40, ConcurrencyAssumption DEF Restart, RestartAt
  <2> QED
    BY ONLY <2>2, <2>3 DEF PermitsConserved, Goal
<1>41. CASE UNCHANGED vars
  BY <1>41 DEF Goal, vars, dispatch
<1> QED
  BY <1>1, <1>2, <1>3, <1>4, <1>5, <1>6, <1>7, <1>8, <1>9, <1>10, <1>11, <1>12, <1>13,
     <1>14, <1>15, <1>16, <1>17, <1>18, <1>19, <1>20, <1>21, <1>22, <1>23, <1>24, <1>25,
     <1>26, <1>27, <1>28, <1>29, <1>30, <1>31, <1>32, <1>33, <1>34, <1>35, <1>36, <1>37,
     <1>38, <1>39, <1>40, <1>41 DEF Next, Dispatch, Pickup, AgentStep, AgentDisturbed,
     Resolve, FollowUpTask, User

-----------------------------------------------------------------------------
\* The initial states satisfy the inductive invariant.
LEMMA PermitInit == Init => PermitInv
<1> SUFFICES ASSUME Init PROVE PermitInv
  OBVIOUS
<1>1. TypeOK
  BY ConcurrencyAssumption, BoundsAssumption DEF Init, TypeOK, TypeCore, TypeStatus,
     TypeAgents, Status, CardStates, AgentPCs
<1>2. WellFormed
  BY DEF Init, WellFormed
<1>3. PermitsConserved
  <2>1. Cardinality(Holders) = 0
    <3>1. Holders = {}
      BY DEF Init, Holders
    <3> QED
      BY ONLY <3>1, FS_EmptySet
  <2> QED
    BY <2>1, ConcurrencyAssumption DEF Init, PermitsConserved, DispatcherHolds
<1>4. NoPermitOfTheDead /\ ResolverHasAgent
  BY DEF Init, NoPermitOfTheDead, ResolverHasAgent
<1> QED
  BY <1>1, <1>2, <1>3, <1>4 DEF PermitInv

\* Every step preserves it.
LEMMA PermitStep == PermitInv /\ [Next]_vars => PermitInv'
<1> SUFFICES ASSUME PermitInv, [Next]_vars PROVE PermitInv'
  OBVIOUS
<1>1. TypeCore'
  BY TypeStep DEF PermitInv, TypeOK
<1>2. WellFormed'
  BY WellFormedStep DEF PermitInv, TypeOK
<1>3. NoPermitOfTheDead' /\ ResolverHasAgent'
  BY HolderStep DEF PermitInv, TypeOK
<1>4. PermitsConserved' /\ permits' \in Nat
  BY ConservationStep
<1>5. permits' \in 0..MaxConcurrency
  <2>1. Cardinality(Holders') \in Nat
    BY FiniteAssumption, FS_Subset, FS_CardinalityType DEF Holders
  <2> HIDE DEF Holders
  <2> QED
    BY <2>1, <1>4, ConcurrencyAssumption DEF PermitsConserved
<1> QED
  BY <1>1, <1>2, <1>3, <1>4, <1>5 DEF PermitInv, TypeOK

\* Every behaviour of the todo-agent subsystem keeps the inductive invariant.
THEOREM PermitInvariant == Spec => []PermitInv
  BY PermitInit, PermitStep, PTL DEF Spec

\* Every variable keeps its type; in particular AgentQueue's semaphore never counts
\* more than max_concurrency free permits.
THEOREM TypeCorrect == Spec => []TypeOK
<1>1. PermitInv => TypeOK
  BY DEF PermitInv
<1> QED
  BY <1>1, PermitInvariant, PTL

\* For every max_concurrency and any number of agents, cards, restarts, panics and
\* database faults, dispatch_loop, send_status, shutdown and resolve_approval neither
\* lose nor invent a permit.
THEOREM PermitsAreConserved == Spec => []PermitsConserved
<1>1. PermitInv => PermitsConserved
  BY DEF PermitInv
<1> QED
  BY <1>1, PermitInvariant, PTL

\* Whatever ends an agent, its permit is back, or in the hands of a resolve_approval
\* call that is about to give it back.
THEOREM PermitsReturn == Spec => []NoPermitOfTheDead
<1>1. PermitInv => NoPermitOfTheDead
  BY DEF PermitInv
<1> QED
  BY <1>1, PermitInvariant, PTL

-----------------------------------------------------------------------------
(* Answers reach the agent that asked *)

\* Steps that touch neither agents nor the registry nor a resolve_approval call.
LEMMA EntryFrame ==
    ASSUME EntryInv, UNCHANGED <<apc, acard, inbox, registry, rpc, ragent>>
    PROVE  EntryInv'
  BY DEF EntryInv, Refers

\* Every step keeps what is known of the agents that asked.
LEMMA EntryStep ==
    TypeCore /\ WellFormed /\ ResolverHasAgent /\ EntryInv /\ [Next]_vars => EntryInv'
<1> SUFFICES ASSUME TypeCore, WellFormed, ResolverHasAgent, EntryInv, [Next]_vars
             PROVE  EntryInv'
  OBVIOUS
<1>0. /\ apc \in [Agents -> AgentPCs] /\ acard \in [Agents -> Cards \cup {NoCard}]
      /\ inbox \in [Agents -> Seq(Messages)] /\ registry \in [Cards -> Agents \cup {NoAgent}]
      /\ ragent \in [Cards -> Agents \cup {NoAgent}]
      /\ rpc \in [Cards -> {"idle", "take", "acquire", "send", "enqueue"}]
  BY DEF TypeCore, TypeAgents
<1>1. CASE UNCHANGED <<agents, registry, resolvers>>
  BY <1>1, EntryFrame DEF agents, resolvers
<1>2. CASE \/ DispatchRecv \/ DispatchAcquire \/ Pickup \/ UNCHANGED vars
           \/ \E ok \in BOOLEAN : DispatchLoad(ok) \/ DispatchClaim(ok) \/ EditWrite(ok)
           \/ \E t \in Todos : FollowUpTask(t)
  BY <1>1, <1>2 DEF DispatchRecv, DispatchAcquire, Pickup, DispatchLoad, DispatchClaim,
     EditWrite, FollowUpTask, FollowUpWorking, FollowUpEnqueue, PickupRecover,
     PickupListQueued, PickupScan, PickupResend, PickupReset, PickupEnqueue, PickupDone, vars
<1>3. CASE \/ \E c \in Cards : CardExpires(c)
           \/ \E t \in Todos, c \in Cards : CreateTodo(t, c)
           \/ \E t \in Todos, s \in {"Completed", "Deleted"} : CompleteOrDelete(t, s)
           \/ \E t \in Todos, s \in Status : EditRead(t, s)
           \/ \E t \in Todos : UserFollowUp(t)
  BY <1>1, <1>3 DEF CardExpires, CreateTodo, CompleteOrDelete, EditRead, UserFollowUp
<1>4. ASSUME NEW a \in Agents, DispatchSpawn(a) PROVE EntryInv'
  BY <1>0, <1>4 DEF DispatchSpawn, FreeAgent, Referenced, EntryInv, Refers, resolvers
<1>5. ASSUME NEW a \in Agents, AgentReceive(a) PROVE EntryInv'
  <2>1. inbox[a] \in Seq(Messages) /\ inbox[a] # <<>> /\ Len(inbox[a]) <= 1
    BY <1>0, <1>5 DEF AgentReceive, EntryInv
  <2>2. Tail(inbox[a]) = <<>>
    BY <2>1
  <2>3. inbox' = [inbox EXCEPT ![a] = <<>>] /\ acard' = [acard EXCEPT ![a] = NoCard]
        /\ UNCHANGED <<registry, ragent, rpc>>
    BY <1>5, <2>2 DEF AgentReceive, resolvers
  <2>4. /\ \A b \in Agents : b # a => apc'[b] = apc[b]
        /\ apc'[a] \in {"running", "respond"}
    BY <1>0, <1>5 DEF AgentReceive
  <2>5. \A c \in Cards : ~Refers(c, a)
    BY <2>1 DEF EntryInv
  <2> QED
    BY <1>0, <2>3, <2>4, <2>5, NullAssumption DEF EntryInv, Refers
<1>6. ASSUME NEW a \in Agents, AgentFinish(a) \/ AgentEmpty(a) PROVE EntryInv'
  <2>1. /\ apc[a] = "running" /\ UNCHANGED <<acard, inbox, registry, ragent, rpc>>
        /\ apc' = [apc EXCEPT ![a] = "respond"] \/ apc' = [apc EXCEPT ![a] = "waiting"]
    BY <1>6 DEF AgentFinish, AgentEmpty, AgentGoesTo, resolvers
  <2>2. /\ \A b \in Agents : b # a => apc'[b] = apc[b]
        /\ apc'[a] \in {"respond", "waiting"}
    BY <1>0, <2>1
  <2>3. \A c \in Cards, b \in Agents : Refers(c, b)' <=> Refers(c, b)
    BY <2>1 DEF Refers
  <2>4. \A c \in Cards : ~Refers(c, a)
    BY <2>1 DEF EntryInv
  <2> QED
    BY <2>1, <2>2, <2>3, <2>4 DEF EntryInv
<1>7. ASSUME NEW a \in Agents, AgentQuit(a) PROVE EntryInv'
  BY <1>0, <1>7 DEF AgentQuit, EntryInv, Refers, resolvers
<1>8. ASSUME NEW a \in Agents, AgentPanic(a) PROVE EntryInv'
  BY <1>0, <1>8, NullAssumption DEF AgentPanic, Ended, EntryInv, Refers, resolvers
<1>9. ASSUME NEW a \in Agents, NEW c \in Cards, AgentNeedApproval(a, c) PROVE EntryInv'
  <2>1. /\ apc[a] = "running" /\ UNCHANGED <<inbox, registry, ragent, rpc>>
        /\ apc' = [apc EXCEPT ![a] = "pushed"] /\ acard' = [acard EXCEPT ![a] = c]
        /\ registry[c] = NoAgent /\ rpc[c] = "idle" /\ \A b \in Agents : acard[b] # c
    BY <1>9 DEF AgentNeedApproval, PushCard, FreeCard, resolvers
  <2>2. /\ \A b \in Agents : b # a => apc'[b] = apc[b] /\ acard'[b] = acard[b]
        /\ apc'[a] = "pushed" /\ acard'[a] = c
    BY <1>0, <2>1
  <2>3. ragent[c] = NoAgent /\ \A d \in Cards : ~Refers(d, a)
    BY <2>1 DEF EntryInv
  <2>4. \A b \in Agents : ~Refers(c, b)
    BY <2>1, <2>3, NullAssumption DEF Refers
  <2>5. \A d \in Cards, b \in Agents : Refers(d, b)' <=> Refers(d, b)
    BY <2>1 DEF Refers
  <2> QED
    BY <2>1, <2>2, <2>3, <2>4, <2>5 DEF EntryInv
<1>10. ASSUME NEW a \in Agents, AgentRegister(a) PROVE EntryInv'
  BY <1>0, <1>10 DEF AgentRegister, AgentGoesTo, EntryInv, Refers, resolvers
<1>11. ASSUME NEW a \in Agents, NEW ok \in BOOLEAN,
              AgentAwait(a, ok) \/ AgentRespond(a, ok) \/ AgentExit(a, ok)
       PROVE EntryInv'
  BY <1>0, <1>11 DEF AgentAwait, AgentRespond, AgentExit, AgentGoesTo, EntryInv, Refers,
     resolvers
<1>12. ASSUME NEW a \in Agents, AgentRelease(a) \/ AgentStreamEnd(a) PROVE EntryInv'
  BY <1>0, <1>12 DEF AgentRelease, AgentStreamEnd, AgentGoesTo, EntryInv, Refers, resolvers
<1>13. ASSUME NEW a \in Agents, AgentUnregister(a) PROVE EntryInv'
  BY <1>0, <1>13, NullAssumption DEF AgentUnregister, Ended, EntryInv, Refers, resolvers
<1>14. ASSUME NEW c \in Cards, NEW ok \in BOOLEAN, UserDecides(c, ok) PROVE EntryInv'
  BY <1>0, <1>14 DEF UserDecides, EntryInv, Refers, WellFormed, agents
<1>15. ASSUME NEW c \in Cards, ResolveTake(c) PROVE EntryInv'
  BY <1>0, <1>15 DEF ResolveTake, EntryInv, Refers, agents
<1>16. ASSUME NEW c \in Cards, ResolveAcquire(c) PROVE EntryInv'
  BY <1>0, <1>16 DEF ResolveAcquire, EntryInv, Refers, agents
<1>17. ASSUME NEW c \in Cards, ResolveSend(c) PROVE EntryInv'
  <2>0. PICK r \in Agents : r = ragent[c]
    BY <1>17 DEF ResolveSend, ResolverHasAgent
  <2>1. rpc[c] = "send" /\ registry[c] = NoAgent
    BY <1>17, <2>0, NullAssumption DEF ResolveSend, EntryInv
  <2>2. /\ UNCHANGED <<apc, acard, registry>> /\ ragent' = [ragent EXCEPT ![c] = NoAgent]
        /\ rpc' = [rpc EXCEPT ![c] = "idle"]
    BY <1>17 DEF ResolveSend, Resolved
  <2>3. \/ inbox' = inbox
        \/ apc[r] # "done" /\ inbox' = [inbox EXCEPT ![r] = Append(@, ExecApproval(c))]
    <3>1. CASE apc[ragent[c]] # "done"
      BY <1>17, <2>0, <3>1 DEF ResolveSend
    <3>2. CASE apc[ragent[c]] = "done"
      BY <1>17, <3>2 DEF ResolveSend
    <3> QED
      BY <3>1, <3>2
  <2>4. inbox[r] = <<>> /\ (apc[r] # "done" =>
            acard[r] = c /\ apc[r] \notin {"running", "pushed"})
    BY <2>0 DEF EntryInv, Refers
  <2>5. /\ \A b \in Agents : b # r => inbox'[b] = inbox[b]
        /\ Len(inbox'[r]) <= 1
        /\ inbox'[r] # <<>> => apc[r] # "done"
    <3>1. CASE inbox' = inbox
      BY <2>4, <3>1
    <3>2. CASE apc[r] # "done" /\ inbox' = [inbox EXCEPT ![r] = Append(@, ExecApproval(c))]
      <4>1. inbox' = [inbox EXCEPT ![r] = Append(<<>>, ExecApproval(c))]
        BY <2>4, <3>2
      <4>2. Len(Append(<<>>, ExecApproval(c))) = 1
        BY DEF ExecApproval
      <4> QED
        BY <1>0, <3>2, <4>1, <4>2
    <3> QED
      BY <2>3, <3>1, <3>2
  <2>6. \A d \in Cards, a \in Agents : Refers(d, a)' => d # c /\ Refers(d, a)
    BY <1>0, <2>1, <2>2, NullAssumption DEF Refers
  <2>7. ASSUME apc[r] # "done" PROVE \A d \in Cards : ~Refers(d, r)'
    BY <2>1, <2>4, <2>6, <2>7 DEF EntryInv
  <2> QED
    <3>1. \A d \in Cards : ragent'[d] # NoAgent =>
              registry'[d] = NoAgent /\ rpc'[d] \in {"acquire", "send"}
      BY <1>0, <2>2 DEF EntryInv
    <3>2. \A a \in Agents : apc'[a] = "pushed" =>
              (acard[a] \in Cards /\ \A b \in Agents : ~Refers(acard[a], b))'
      BY <2>2, <2>6 DEF EntryInv
    <3>3. \A a \in Agents, d \in Cards : Refers(d, a)' =>
             \/ apc'[a] = "done"
             \/ acard'[a] = d /\ apc'[a] \in {"registered", "release", "waiting", "exit", "unregister"}
      BY <2>2, <2>6 DEF EntryInv
    <3>4. \A a \in Agents, d \in Cards : Refers(d, a)' => inbox'[a] = <<>>
      BY <2>3, <2>4, <2>5, <2>6, <2>7 DEF EntryInv
    <3>5. \A a \in Agents : apc'[a] \in {"running", "pushed"} => inbox'[a] = <<>>
      BY <2>2, <2>3, <2>4, <2>5 DEF EntryInv
    <3>6. \A a \in Agents : Len(inbox'[a]) <= 1
      BY <2>5 DEF EntryInv
    <3> QED
      BY <2>2, <3>1, <3>2, <3>3, <3>4, <3>5, <3>6 DEF EntryInv
<1>18. ASSUME NEW c \in Cards, NEW ok \in BOOLEAN, ResolveEnqueue(c, ok) PROVE EntryInv'
  BY <1>0, <1>18 DEF ResolveEnqueue, Resolved, EntryInv, Refers, agents
<1>19. ASSUME CtrlC PROVE EntryInv'
  BY <1>0, <1>19 DEF CtrlC, EntryInv, Refers, resolvers
<1>20. ASSUME Restart PROVE EntryInv'
  BY <1>20, NullAssumption DEF Restart, RestartAt, EntryInv, Refers
<1> QED
  BY <1>2, <1>3, <1>4, <1>5, <1>6, <1>7, <1>8, <1>9, <1>10, <1>11, <1>12, <1>13, <1>14,
     <1>15, <1>16, <1>17, <1>18, <1>19, <1>20 DEF Next, Dispatch, AgentStep, AgentDisturbed,
     Resolve, User

\* Steps that touch neither agents nor cards nor a resolve_approval call.
LEMMA AnswerFrame ==
    ASSUME AnswerInv, UNCHANGED <<apc, atodo, acard, inbox, rpc, rok, cardSt, cardTodo>>
    PROVE  AnswerInv'
  BY DEF AnswerInv

\* A card that is pushed is one no agent, inbox or resolve_approval call is about.
LEMMA PushedIsNew ==
    ASSUME TypeCore, AnswerInv, NEW c \in Cards, NEW t \in Todos, NEW isTool \in BOOLEAN,
           PushCard(c, t, isTool)
    PROVE  /\ \A d \in Cards : rpc[d] # "idle" => cardSt'[d] = cardSt[d]
           /\ \A a \in Agents : acard[a] \in Cards =>
                 cardSt'[acard[a]] = cardSt[acard[a]] /\
                     cardTodo'[acard[a]] = cardTodo[acard[a]]
           /\ cardTodo'[c] = t /\ cardSt'[c] = "pending"
  BY DEF PushCard, FreeCard, TypeCore

\* Every step keeps answers true to the user's decision.
LEMMA AnswerStep ==
    TypeCore /\ WellFormed /\ ResolverHasAgent /\ EntryInv /\ AnswerInv /\ [Next]_vars =>
        AnswerInv'
<1> SUFFICES ASSUME TypeCore, WellFormed, ResolverHasAgent, EntryInv, AnswerInv, [Next]_vars
             PROVE  AnswerInv'
  OBVIOUS
<1>0. /\ apc \in [Agents -> AgentPCs] /\ acard \in [Agents -> Cards \cup {NoCard}]
      /\ atodo \in [Agents -> Todos \cup {NoTodo}]
      /\ inbox \in [Agents -> Seq(Messages)] /\ rok \in [Cards -> BOOLEAN]
      /\ rpc \in [Cards -> {"idle", "take", "acquire", "send", "enqueue"}]
      /\ cardSt \in [Cards -> CardStates] /\ cardTodo \in [Cards -> Todos \cup {NoTodo}]
  BY DEF TypeCore, TypeAgents
<1>1. CASE UNCHANGED <<agents, cards, resolvers>>
  BY <1>1, AnswerFrame DEF agents, cards, resolvers
<1>2. CASE \/ DispatchRecv \/ DispatchAcquire \/ Pickup \/ UNCHANGED vars
           \/ \E ok \in BOOLEAN : DispatchLoad(ok) \/ DispatchClaim(ok) \/ EditWrite(ok)
           \/ \E t \in Todos : FollowUpTask(t)
  BY <1>1, <1>2 DEF DispatchRecv, DispatchAcquire, Pickup, DispatchLoad, DispatchClaim,
     EditWrite, FollowUpTask, FollowUpWorking, FollowUpEnqueue, PickupRecover,
     PickupListQueued, PickupScan, PickupResend, PickupReset, PickupEnqueue, PickupDone, vars
<1>3. CASE \/ \E t \in Todos, s \in {"Completed", "Deleted"} : CompleteOrDelete(t, s)
           \/ \E t \in Todos, s \in Status : EditRead(t, s)
           \/ \E t \in Todos : UserFollowUp(t)
  BY <1>1, <1>3 DEF CompleteOrDelete, EditRead, UserFollowUp
<1>4. ASSUME NEW a \in Agents, DispatchSpawn(a) PROVE AnswerInv'
  <2>1. Head(<<[kind |-> "start", card |-> NoCard]>>).kind = "start"
    OBVIOUS
  <2>2. /\ apc[a] = "done" /\ UNCHANGED <<acard, rpc, rok, cardSt, cardTodo>>
        /\ \A b \in Agents : b # a => /\ inbox'[b] = inbox[b] /\ atodo'[b] = atodo[b]
                                      /\ apc'[b] = apc[b]
        /\ apc'[a] = "waiting" /\ inbox'[a] = <<[kind |-> "start", card |-> NoCard]>>
    BY <1>0, <1>4 DEF DispatchSpawn, FreeAgent, cards, resolvers
  <2>3. acard[a] = NoCard
    BY <2>2 DEF AnswerInv
  <2> QED
    BY <2>1, <2>2, <2>3, NullAssumption DEF AnswerInv
<1>5. ASSUME NEW a \in Agents, AgentReceive(a) PROVE AnswerInv'
  <2>1. inbox[a] \in Seq(Messages) /\ inbox[a] # <<>> /\ Len(inbox[a]) <= 1
    BY <1>0, <1>5 DEF AgentReceive, EntryInv
  <2>2. Tail(inbox[a]) = <<>>
    BY <2>1
  <2>3. inbox' = [inbox EXCEPT ![a] = <<>>] /\ acard' = [acard EXCEPT ![a] = NoCard]
        /\ UNCHANGED <<atodo, rpc, rok, cardSt, cardTodo>>
    BY <1>5, <2>2 DEF AgentReceive, resolvers, cards
  <2>4. /\ \A b \in Agents : b # a => apc'[b] = apc[b]
        /\ apc'[a] \in {"running", "respond"}
    BY <1>0, <1>5 DEF AgentReceive
  <2> QED
    BY <1>0, <2>3, <2>4, NullAssumption DEF AnswerInv
<1>6. ASSUME NEW a \in Agents, NEW pc, apc' = [apc EXCEPT ![a] = pc],
             UNCHANGED <<atodo, acard, inbox, rpc, rok, cardSt, cardTodo>>, pc # "done"
      PROVE  AnswerInv'
  BY <1>0, <1>6 DEF AnswerInv
<1>7. ASSUME NEW a \in Agents,
             \/ AgentFinish(a) \/ AgentEmpty(a) \/ AgentRegister(a) \/ AgentRelease(a)
             \/ AgentStreamEnd(a) \/ \E ok \in BOOLEAN : AgentAwait(a, ok) \/ AgentExit(a, ok)
      PROVE  AnswerInv'
  <2>1. UNCHANGED <<atodo, acard, inbox, rpc, rok, cardSt, cardTodo>>
    BY <1>7 DEF AgentFinish, AgentEmpty, AgentRegister, AgentRelease, AgentStreamEnd,
       AgentAwait, AgentExit, AgentGoesTo, cards, resolvers
  <2>2. \E pc : apc' = [apc EXCEPT ![a] = pc] /\ pc # "done"
    BY <1>7 DEF AgentFinish, AgentEmpty, AgentRegister, AgentRelease, AgentStreamEnd,
       AgentAwait, AgentExit, AgentGoesTo
  <2> QED
    BY <1>6, <2>1, <2>2
<1>8. ASSUME NEW a \in Agents, NEW ok \in BOOLEAN, AgentRespond(a, ok) PROVE AnswerInv'
  BY <1>6, <1>8 DEF AgentRespond, cards, resolvers
<1>9. ASSUME NEW a \in Agents, AgentQuit(a) PROVE AnswerInv'
  <2>1. inbox[a] \in Seq(Messages) /\ inbox[a] # <<>> /\ Len(inbox[a]) <= 1
    BY <1>0, <1>9 DEF AgentQuit, EntryInv
  <2>2. Tail(inbox[a]) = <<>>
    BY <2>1
  <2>3. inbox' = [inbox EXCEPT ![a] = <<>>] /\ apc' = [apc EXCEPT ![a] = "exit"]
        /\ UNCHANGED <<atodo, acard, rpc, rok, cardSt, cardTodo>>
    BY <1>9, <2>2 DEF AgentQuit, resolvers, cards
  <2> QED
    BY <1>0, <2>3 DEF AnswerInv
<1>10. ASSUME NEW a \in Agents, Ended(a), UNCHANGED <<rpc, rok, cardSt, cardTodo>>
       PROVE  AnswerInv'
  BY <1>0, <1>10, NullAssumption DEF Ended, AnswerInv
<1>11. ASSUME NEW a \in Agents, AgentPanic(a) \/ AgentUnregister(a) PROVE AnswerInv'
  BY <1>10, <1>11 DEF AgentPanic, AgentUnregister, cards, resolvers
<1>12. ASSUME NEW a \in Agents, NEW c \in Cards, AgentNeedApproval(a, c) PROVE AnswerInv'
  <2>1. /\ apc[a] = "running" /\ atodo[a] \in Todos /\ PushCard(c, atodo[a], TRUE)
        /\ apc' = [apc EXCEPT ![a] = "pushed"] /\ acard' = [acard EXCEPT ![a] = c]
        /\ UNCHANGED <<atodo, inbox, rpc, rok>>
    BY <1>12 DEF AgentNeedApproval, WellFormed, resolvers
  <2>2. /\ \A d \in Cards : rpc[d] # "idle" => cardSt'[d] = cardSt[d]
        /\ \A b \in Agents : acard[b] \in Cards =>
              cardSt'[acard[b]] = cardSt[acard[b]] /\ cardTodo'[acard[b]] = cardTodo[acard[b]]
        /\ cardTodo'[c] = atodo[a]
    BY <2>1, PushedIsNew
  <2>3. inbox[a] = <<>>
    BY <2>1 DEF EntryInv
  <2>4. \A b \in Agents :
            /\ inbox[b] # <<>>
            /\ Head(inbox[b]).kind = "approve"
            /\ Head(inbox[b]).card = acard[b]
            => acard[b] \in Cards
    BY <1>0 DEF AnswerInv
  <2> QED
    BY <1>0, <2>1, <2>2, <2>3, <2>4, NullAssumption DEF AnswerInv
<1>13. ASSUME NEW c \in Cards, NEW ok \in BOOLEAN, UserDecides(c, ok) PROVE AnswerInv'
  BY <1>0, <1>13 DEF UserDecides, AnswerInv, agents
<1>14. ASSUME NEW c \in Cards, CardExpires(c) PROVE AnswerInv'
  BY <1>0, <1>14 DEF CardExpires, AnswerInv, WellFormed, agents, resolvers
<1>15. ASSUME NEW t \in Todos, NEW c \in Cards, CreateTodo(t, c) PROVE AnswerInv'
  <2>1. UNCHANGED <<apc, atodo, acard, inbox, rpc, rok>>
    BY <1>15 DEF CreateTodo, agents, resolvers
  <2>2. CASE UNCHANGED cards
    BY <2>1, <2>2, AnswerFrame DEF cards
  <2>3. CASE PushCard(c, t, FALSE)
    <3>1. /\ \A d \in Cards : rpc[d] # "idle" => cardSt'[d] = cardSt[d]
          /\ \A b \in Agents : acard[b] \in Cards =>
                cardSt'[acard[b]] = cardSt[acard[b]] /\
                    cardTodo'[acard[b]] = cardTodo[acard[b]]
      BY <2>3, PushedIsNew
    <3> QED
      BY <2>1, <3>1 DEF AnswerInv
  <2> QED
    BY <1>15, <2>2, <2>3 DEF CreateTodo
<1>16. ASSUME NEW c \in Cards, ResolveTake(c) PROVE AnswerInv'
  BY <1>0, <1>16 DEF ResolveTake, AnswerInv, agents, cards
<1>17. ASSUME NEW c \in Cards, ResolveAcquire(c) PROVE AnswerInv'
  BY <1>0, <1>17 DEF ResolveAcquire, AnswerInv, agents, cards
<1>18. ASSUME NEW c \in Cards, ResolveSend(c) PROVE AnswerInv'
  <2>1. PICK r \in Agents : r = ragent[c]
    BY <1>18 DEF ResolveSend, ResolverHasAgent
  <2>2. /\ rpc[c] = "send" /\ UNCHANGED <<apc, atodo, acard, cardSt, cardTodo>>
        /\ rpc' = [rpc EXCEPT ![c] = "idle"] /\ rok' = [rok EXCEPT ![c] = FALSE]
    BY <1>18 DEF ResolveSend, Resolved, cards
  <2>3. inbox[r] = <<>>
    BY <2>1 DEF EntryInv, Refers
  <2>4. CASE inbox' = inbox
    BY <1>0, <2>2, <2>4 DEF AnswerInv
  <2>5. CASE inbox' = [inbox EXCEPT ![r] = Append(@, ExecApproval(c))]
    <3>1. inbox' = [inbox EXCEPT ![r] = <<ExecApproval(c)>>]
      BY <2>3, <2>5
    <3>2. /\ Head(<<ExecApproval(c)>>).kind = IF rok[c] THEN "approve" ELSE "reject"
          /\ Head(<<ExecApproval(c)>>).card = c
      BY DEF ExecApproval
    <3>3. rok[c] => cardSt[c] = "approved"
      BY <2>2 DEF AnswerInv
    <3> HIDE DEF ExecApproval
    <3> QED
      BY <1>0, <2>2, <3>1, <3>2, <3>3 DEF AnswerInv
  <2>6. inbox' = inbox \/ inbox' = [inbox EXCEPT ![r] = Append(@, ExecApproval(c))]
    <3>1. CASE apc[ragent[c]] # "done"
      BY <1>18, <2>1, <3>1 DEF ResolveSend
    <3>2. CASE apc[ragent[c]] = "done"
      BY <1>18, <3>2 DEF ResolveSend
    <3> QED
      BY <3>1, <3>2
  <2> QED
    BY <2>4, <2>5, <2>6
<1>19. ASSUME NEW c \in Cards, NEW ok \in BOOLEAN, ResolveEnqueue(c, ok) PROVE AnswerInv'
  BY <1>0, <1>19 DEF ResolveEnqueue, Resolved, AnswerInv, agents, cards
<1>20. ASSUME CtrlC PROVE AnswerInv'
  BY <1>0, <1>20 DEF CtrlC, AnswerInv, cards, resolvers
<1>21. ASSUME Restart PROVE AnswerInv'
  BY <1>21, NullAssumption DEF Restart, RestartAt, AnswerInv
<1> QED
  BY <1>2, <1>3, <1>4, <1>5, <1>7, <1>8, <1>9, <1>11, <1>12, <1>13, <1>14, <1>15, <1>16,
     <1>17, <1>18, <1>19, <1>20, <1>21 DEF Next, Dispatch, AgentStep, AgentDisturbed,
     Resolve, User

\* Only a message starts or resumes an agent that waits.
LEMMA RunsOnAnswer ==
    ASSUME TypeCore, AnswerInv, [Next]_vars, NEW a \in Agents,
           acard[a] # NoCard, apc[a] = "waiting", apc'[a] = "running"
    PROVE  cardSt[acard[a]] = "approved" /\ cardTodo[acard[a]] = atodo[a]
<1>0. acard[a] \in Cards /\ apc \in [Agents -> AgentPCs]
  BY DEF TypeCore, TypeAgents
<1>1. CASE AgentReceive(a)
  BY <1>0, <1>1 DEF AgentReceive, AnswerInv
<1>2. ASSUME NEW b \in Agents, b # a, AgentStep(b) \/ AgentDisturbed(b) PROVE FALSE
  <2>1. \E pc : apc' = [apc EXCEPT ![b] = pc]
    BY <1>2 DEF AgentStep, AgentDisturbed, AgentReceive, AgentFinish, AgentEmpty,
       AgentRegister, AgentRelease, AgentStreamEnd, AgentUnregister, AgentAwait,
       AgentRespond, AgentExit, AgentQuit, AgentPanic, AgentNeedApproval, AgentGoesTo, Ended
  <2> QED
    BY <1>0, <1>2, <2>1
<1>3. ASSUME ~AgentReceive(a), AgentStep(a) \/ AgentDisturbed(a) PROVE FALSE
  BY <1>0, <1>3 DEF AgentStep, AgentDisturbed, AgentFinish, AgentEmpty, AgentRegister,
     AgentRelease, AgentStreamEnd, AgentUnregister, AgentAwait, AgentRespond, AgentExit,
     AgentQuit, AgentPanic, AgentNeedApproval, AgentGoesTo, Ended
<1>4. ASSUME NEW b \in Agents, DispatchSpawn(b) PROVE FALSE
  BY <1>0, <1>4 DEF DispatchSpawn
<1>5. CASE CtrlC \/ Restart
  BY <1>0, <1>5 DEF CtrlC, Restart, RestartAt
<1>6. CASE \/ DispatchRecv \/ DispatchAcquire \/ Pickup \/ UNCHANGED vars
           \/ \E ok \in BOOLEAN : DispatchLoad(ok) \/ DispatchClaim(ok) \/ EditWrite(ok)
           \/ \E t \in Todos : FollowUpTask(t)
  <2>1. apc' = apc
    BY <1>6 DEF DispatchRecv, DispatchAcquire, Pickup, DispatchLoad, DispatchClaim,
       EditWrite, FollowUpTask, FollowUpWorking, FollowUpEnqueue, PickupRecover,
       PickupListQueued, PickupScan, PickupResend, PickupReset, PickupEnqueue, PickupDone,
       vars, agents
  <2> QED
    BY <2>1
<1>7. CASE User \/ \E c \in Cards : Resolve(c)
  <2>1. apc' = apc
    BY <1>7 DEF User, Resolve, UserDecides, CardExpires, CreateTodo, CompleteOrDelete,
       EditRead, UserFollowUp, ResolveTake, ResolveAcquire, ResolveSend, ResolveEnqueue,
       agents
  <2> QED
    BY <2>1
<1> QED
  BY <1>1, <1>2, <1>3, <1>4, <1>5, <1>6, <1>7 DEF Next, Dispatch

\* In every behaviour the registry, the resolve_approval calls and the inboxes know
\* the agents they are about, and an answer is what the user decided.
THEOREM AnswerInvariant == Spec => [](PermitInv /\ EntryInv /\ AnswerInv)
<1>1. Init => EntryInv /\ AnswerInv
  BY NullAssumption DEF Init, EntryInv, Refers, AnswerInv
<1>2. PermitInv /\ EntryInv /\ AnswerInv /\ [Next]_vars => EntryInv' /\ AnswerInv'
  BY EntryStep, AnswerStep DEF PermitInv, TypeOK
<1> QED
  BY <1>1, <1>2, PermitInit, PermitStep, PTL DEF Spec

\* A tool call of an agent runs only after the user approved the card of that very
\* request, whatever other agents, dismissals, panics and restarts interfere
\* (agent_queue.rs, todos/approval_registry.rs).
THEOREM ToolsWaitForTheUser == Spec => ToolRunsOnlyIfApproved
<1> DEFINE Step == \A a \in Agents :
                     acard[a] # NoCard /\ apc[a] = "waiting" /\ apc'[a] = "running"
                         => cardSt[acard[a]] = "approved" /\ cardTodo[acard[a]] = atodo[a]
<1>1. PermitInv /\ EntryInv /\ AnswerInv /\ [Next]_vars => [Step]_vars
  BY RunsOnAnswer DEF PermitInv, TypeOK
<1> HIDE DEF Step
<1>2. Spec => [][Step]_vars
  BY <1>1, AnswerInvariant, PTL DEF Spec
<1> QED
  BY <1>2 DEF ToolRunsOnlyIfApproved, Step

-----------------------------------------------------------------------------
(* A queued todo has its ticket *)

InChan(t) == \E i \in DOMAIN chan : chan[i] = t

\* A ticket that is sent joins the ones in the channel.
LEMMA SentTicket ==
    ASSUME chan \in Seq(Todos), NEW t \in Todos, Send(t)
    PROVE  InChan(t)' /\ \A u \in Todos : InChan(u) => InChan(u)'
<1>1. /\ Len(chan') = Len(chan) + 1 /\ chan' \in Seq(Todos)
      /\ \A i \in 1..Len(chan) : chan'[i] = chan[i]
      /\ chan'[Len(chan) + 1] = t
  BY AppendProperties DEF Send
<1>2. DOMAIN chan = 1..Len(chan) /\ DOMAIN chan' = 1..Len(chan') /\ Len(chan) \in Nat
  BY <1>1
<1>3. InChan(t)'
  BY <1>1, <1>2 DEF InChan
<1>4. ASSUME NEW u \in Todos, InChan(u) PROVE InChan(u)'
  BY <1>1, <1>2, <1>4 DEF InChan
<1> QED
  BY <1>3, <1>4

\* A ticket leaves the channel only into the hands of dispatch_loop.
LEMMA TakenTicket ==
    ASSUME chan \in Seq(Todos), chan # <<>>, chan' = Tail(chan), NEW t \in Todos, InChan(t)
    PROVE  t = Head(chan) \/ InChan(t)'
<1>1. /\ Len(chan') = Len(chan) - 1 /\ chan' \in Seq(Todos) /\ Len(chan) \in Nat
      /\ \A i \in 1..Len(chan') : chan'[i] = chan[i + 1]
      /\ Head(chan) = chan[1]
  BY HeadTailProperties
<1>2. PICK i \in 1..Len(chan) : chan[i] = t
  BY DEF InChan
<1>3. CASE i # 1
  <2>1. i - 1 \in 1..Len(chan') /\ chan'[i - 1] = t
    BY <1>1, <1>2, <1>3
  <2>2. DOMAIN chan' = 1..Len(chan')
    BY <1>1
  <2> QED
    BY <2>1, <2>2 DEF InChan
<1> QED
  BY <1>1, <1>2, <1>3

\* Steps that queue no todo and leave every ticket where it is.
LEMMA TicketFrame ==
    ASSUME QueuedHasTicket, UNCHANGED <<chan, dpc, dtodo, ppc, plist>>,
           \A t \in Todos : status'[t] = "AgentQueued" => status[t] = "AgentQueued"
    PROVE  QueuedHasTicket'
  BY DEF QueuedHasTicket

\* A status write other than AgentQueued queues no todo.
LEMMA StatusLeaves ==
    ASSUME TypeStatus, NEW t, NEW s \in Status \ {"AgentQueued"}, NEW ok \in BOOLEAN,
           update_todo_status(t, s, ok)
    PROVE  \A u \in Todos : status'[u] = "AgentQueued" => status[u] = "AgentQueued"
  BY DEF TypeStatus, update_todo_status

\* AgentQueue::enqueue sends the ticket of what it queues.
LEMMA EnqueueTicket ==
    ASSUME TypeStatus, chan \in Seq(Todos), QueuedHasTicket, NEW t \in Todos, enqueue(t, TRUE),
           UNCHANGED <<dpc, dtodo, ppc>>, ppc # "resend" \/ plist' = plist
    PROVE  QueuedHasTicket'
<1>1. InChan(t)' /\ \A u \in Todos : InChan(u) => InChan(u)'
  BY SentTicket DEF enqueue
<1>2. \A u \in Todos : status'[u] = "AgentQueued" => u = t \/ status[u] = "AgentQueued"
  BY DEF enqueue, update_todo_status, TypeStatus
<1> QED
  BY <1>1, <1>2 DEF QueuedHasTicket, InChan

\* Without edits and database faults nothing is spent on either.
LEMMA UndisturbedStep == TypeCore /\ Undisturbed /\ [Next]_vars => Undisturbed'
<1> SUFFICES ASSUME TypeCore, Undisturbed, [Next]_vars PROVE Undisturbed'
  OBVIOUS
<1>0. budget \in [Disturbances -> Nat] /\ \A k \in Disturbances : budget[k] > 0 =>
          budget[k] # 0
  BY DEF TypeCore, TypeStatus
<1>1. ASSUME NEW k \in Disturbances, Spend(k)
      PROVE  k \notin {"edit", "dbfault"} /\ budget'["edit"] = 0 /\ budget'["dbfault"] = 0
  BY <1>0, <1>1 DEF Spend, Undisturbed, Disturbances
<1>2. ASSUME NEW ok \in BOOLEAN, Db(ok) PROVE ok /\ budget' = budget
  BY <1>1, <1>2 DEF Db, Disturbances
<1>3. ASSUME NEW t, NEW s, NEW ok \in BOOLEAN, update_todo_status(t, s, ok)
      PROVE  ok /\ budget' = budget
  BY <1>2, <1>3 DEF update_todo_status
<1>4. ASSUME NEW t \in Todos, NEW s, EditRead(t, s) \/ CompleteOrDelete(t, s) PROVE FALSE
  BY <1>1, <1>4 DEF EditRead, CompleteOrDelete, Disturbances
<1>5. ASSUME NEW ok \in BOOLEAN, EditWrite(ok) PROVE FALSE
  BY <1>5 DEF EditWrite, Undisturbed
<1>6. CASE Dispatch
  <2>1. CASE DispatchRecv \/ DispatchAcquire \/ \E a \in Agents : DispatchSpawn(a)
    BY <2>1 DEF DispatchRecv, DispatchAcquire, DispatchSpawn, edit, Undisturbed
  <2>2. ASSUME NEW ok \in BOOLEAN, DispatchLoad(ok) \/ DispatchClaim(ok) PROVE Undisturbed'
    BY <1>2, <1>3, <2>2 DEF DispatchLoad, DispatchClaim, edit, Undisturbed
  <2> QED
    BY <1>6, <2>1, <2>2 DEF Dispatch
<1>7. CASE Pickup
  <2>1. ASSUME NEW ok \in BOOLEAN, PickupRecover(ok) \/ PickupListQueued(ok) \/ PickupScan(ok)
        PROVE  Undisturbed'
    BY <1>2, <2>1 DEF PickupRecover, PickupListQueued, PickupScan, edit, Undisturbed
  <2>2. ASSUME NEW t \in Todos, NEW ok \in BOOLEAN, PickupReset(t, ok) \/ PickupEnqueue(t, ok)
        PROVE  Undisturbed'
    BY <1>3, <2>2 DEF PickupReset, PickupEnqueue, enqueue, edit, Undisturbed
  <2>3. CASE PickupDone \/ \E t \in Todos : PickupResend(t)
    BY <2>3 DEF PickupDone, PickupResend, edit, Undisturbed
  <2> QED
    BY <1>7, <2>1, <2>2, <2>3 DEF Pickup
<1>8. ASSUME NEW a \in Agents, AgentStep(a) PROVE Undisturbed'
  <2>1. CASE \/ AgentReceive(a) \/ AgentFinish(a) \/ AgentRegister(a) \/ AgentRelease(a)
             \/ AgentStreamEnd(a) \/ AgentUnregister(a)
    BY <2>1 DEF AgentReceive, AgentFinish, AgentRegister, AgentRelease, AgentStreamEnd,
       AgentUnregister, edit, Undisturbed
  <2>2. ASSUME NEW ok \in BOOLEAN, AgentAwait(a, ok) \/ AgentRespond(a, ok) \/ AgentExit(a, ok)
        PROVE  Undisturbed'
    BY <1>3, <2>2 DEF AgentAwait, AgentRespond, AgentExit, edit, Undisturbed
  <2> QED
    BY <1>8, <2>1, <2>2 DEF AgentStep
<1>9. ASSUME NEW a \in Agents, AgentDisturbed(a) PROVE Undisturbed'
  <2>1. (\E k \in Disturbances : Spend(k)) \/ budget' = budget
    BY <1>9 DEF AgentDisturbed, AgentEmpty, AgentQuit, AgentPanic, AgentNeedApproval,
       Disturbances
  <2>2. etodo' = etodo
    BY <1>9 DEF AgentDisturbed, AgentEmpty, AgentQuit, AgentPanic, AgentNeedApproval, edit
  <2> QED
    BY <1>1, <2>1, <2>2 DEF Undisturbed
<1>10. ASSUME NEW c \in Cards, Resolve(c) PROVE Undisturbed'
  <2>1. CASE ResolveTake(c) \/ ResolveAcquire(c) \/ ResolveSend(c)
    BY <2>1 DEF ResolveTake, ResolveAcquire, ResolveSend, edit, Undisturbed
  <2>2. ASSUME NEW ok \in BOOLEAN, ResolveEnqueue(c, ok) PROVE Undisturbed'
    BY <1>3, <2>2 DEF ResolveEnqueue, enqueue, edit, Undisturbed
  <2> QED
    BY <1>10, <2>1, <2>2 DEF Resolve
<1>11. ASSUME NEW t \in Todos, FollowUpTask(t) PROVE Undisturbed'
  BY <1>3, <1>11 DEF FollowUpTask, FollowUpWorking, FollowUpEnqueue, enqueue, edit, Undisturbed
<1>12. CASE User
  <2>1. ASSUME NEW c \in Cards, NEW ok \in BOOLEAN, UserDecides(c, ok) \/ CardExpires(c)
        PROVE  Undisturbed'
    BY <2>1 DEF UserDecides, CardExpires, edit, Undisturbed
  <2>2. ASSUME NEW t \in Todos, NEW c \in Cards, CreateTodo(t, c) PROVE Undisturbed'
    BY <2>2 DEF CreateTodo, edit, Undisturbed
  <2>3. ASSUME NEW t \in Todos, UserFollowUp(t) PROVE Undisturbed'
    BY <1>1, <2>3 DEF UserFollowUp, edit, Undisturbed, Disturbances
  <2> QED
    BY <1>4, <1>12, <2>1, <2>2, <2>3 DEF User
<1>13. CASE CtrlC \/ Restart
  BY <1>1, <1>13 DEF CtrlC, Restart, RestartAt, edit, Undisturbed, Disturbances
<1>14. CASE UNCHANGED vars
  BY <1>14 DEF vars, edit, Undisturbed
<1> QED
  BY <1>5, <1>6, <1>7, <1>8, <1>9, <1>10, <1>11, <1>12, <1>13, <1>14 DEF Next

\* Without edits and database faults a queued todo keeps its ticket, or recover() is
\* about to send a new one.
LEMMA TicketStep ==
    TypeCore /\ WellFormed /\ Undisturbed /\ QueuedHasTicket /\ [Next]_vars => QueuedHasTicket'
<1> SUFFICES ASSUME TypeCore, WellFormed, Undisturbed, QueuedHasTicket, [Next]_vars
             PROVE  QueuedHasTicket'
  OBVIOUS
<1>0. TypeStatus /\ chan \in Seq(Todos) /\ dtodo \in Todos \cup {NoTodo} /\
          plist \subseteq Todos
  BY DEF TypeCore
<1>1. ASSUME NEW ok \in BOOLEAN, Db(ok) PROVE ok
  BY <1>0, <1>1 DEF Db, Spend, Undisturbed, TypeStatus
<1>2. ASSUME NEW t \in Todos, NEW ok \in BOOLEAN, enqueue(t, ok), UNCHANGED <<dpc, dtodo, ppc>>,
             ppc # "resend" \/ plist' = plist
      PROVE  QueuedHasTicket'
  <2>1. ok = TRUE
    BY <1>1, <1>2 DEF enqueue, update_todo_status
  <2> QED
    BY <1>0, <1>2, <2>1, EnqueueTicket
<1>3. CASE UNCHANGED <<status, chan, dispatch, pickup>>
  BY <1>3, TicketFrame DEF dispatch, pickup
<1>4. ASSUME NEW t, NEW s \in Status \ {"AgentQueued"}, NEW ok \in BOOLEAN,
             update_todo_status(t, s, ok), UNCHANGED <<chan, dispatch, pickup>>
      PROVE  QueuedHasTicket'
  BY <1>0, <1>4, StatusLeaves, TicketFrame DEF dispatch, pickup
<1>5. CASE DispatchRecv
  <2>1. /\ chan # <<>> /\ chan' = Tail(chan) /\ dtodo' = Head(chan) /\ dpc = "recv" /\
               dpc' = "acquire"
        /\ UNCHANGED <<status, ppc, plist>>
    BY <1>5 DEF DispatchRecv, pickup
  <2>2. \A t \in Todos : InChan(t) => t = dtodo' \/ InChan(t)'
    BY <1>0, <2>1, TakenTicket
  <2> QED
    BY <2>1, <2>2 DEF QueuedHasTicket, InChan
<1>6. CASE DispatchAcquire
  BY <1>6 DEF DispatchAcquire, QueuedHasTicket, pickup
<1>7. ASSUME NEW ok \in BOOLEAN, DispatchLoad(ok) PROVE QueuedHasTicket'
  <2>1. ok /\ dpc = "load" /\ UNCHANGED <<status, chan, ppc, plist>>
    BY <1>1, <1>7 DEF DispatchLoad, pickup
  <2>2. \/ dpc' = "claim" /\ dtodo' = dtodo
        \/ status[dtodo] # "AgentQueued"
    BY <1>7, <2>1 DEF DispatchLoad
  <2> QED
    BY <2>1, <2>2 DEF QueuedHasTicket
<1>8. ASSUME NEW ok \in BOOLEAN, DispatchClaim(ok) PROVE QueuedHasTicket'
  <2>1. ok /\ dpc = "claim" /\ UNCHANGED <<chan, ppc, plist>>
        /\ update_todo_status(dtodo, "AgentWorking", ok)
    BY <1>1, <1>8 DEF DispatchClaim, update_todo_status, pickup
  <2>2. \A u \in Todos : status'[u] = "AgentQueued" => status[u] = "AgentQueued" /\ u # dtodo
    BY <1>0, <2>1 DEF update_todo_status, TypeStatus, Status
  <2> QED
    BY <2>1, <2>2 DEF QueuedHasTicket
<1>9. ASSUME NEW a \in Agents, DispatchSpawn(a) PROVE QueuedHasTicket'
  BY <1>9 DEF DispatchSpawn, QueuedHasTicket, pickup
<1>10. ASSUME NEW ok \in BOOLEAN, PickupRecover(ok) PROVE QueuedHasTicket'
  BY <1>10 DEF PickupRecover, QueuedHasTicket, dispatch
<1>11. ASSUME NEW t \in Todos, NEW ok \in BOOLEAN, PickupReset(t, ok) PROVE QueuedHasTicket'
  BY <1>11 DEF PickupReset, QueuedHasTicket, dispatch
<1>12. ASSUME NEW ok \in BOOLEAN, PickupListQueued(ok) PROVE QueuedHasTicket'
  <2>1. ok
    BY <1>1, <1>12 DEF PickupListQueued
  <2> QED
    BY <1>12, <2>1 DEF PickupListQueued, Listed, QueuedHasTicket, dispatch
<1>13. ASSUME NEW t \in Todos, PickupResend(t) PROVE QueuedHasTicket'
  <2>1. /\ ppc = "resend" /\ plist' = plist \ {t} /\ UNCHANGED <<status, dpc, dtodo, ppc>>
        /\ Send(t) \/ (chan' = chan /\ \E i \in DOMAIN chan : chan[i] = t)
    BY <1>13 DEF PickupResend, dispatch
  <2>2. InChan(t)' /\ \A u \in Todos : InChan(u) => InChan(u)'
    BY <1>0, <2>1, SentTicket DEF InChan
  <2> QED
    BY <2>1, <2>2 DEF QueuedHasTicket, InChan
<1>14. ASSUME NEW ok \in BOOLEAN, PickupScan(ok) PROVE QueuedHasTicket'
  BY <1>14 DEF PickupScan, QueuedHasTicket, dispatch
<1>15. ASSUME NEW t \in Todos, NEW ok \in BOOLEAN, PickupEnqueue(t, ok) PROVE QueuedHasTicket'
  BY <1>2, <1>15 DEF PickupEnqueue, dispatch
<1>16. CASE PickupDone
  BY <1>16 DEF PickupDone, QueuedHasTicket, dispatch
<1>17. ASSUME NEW a \in Agents, AgentStep(a) PROVE QueuedHasTicket'
  <2>1. CASE \/ AgentReceive(a) \/ AgentFinish(a) \/ AgentRegister(a) \/ AgentRelease(a)
             \/ AgentStreamEnd(a) \/ AgentUnregister(a)
    BY <1>3, <2>1 DEF AgentReceive, AgentFinish, AgentRegister, AgentRelease, AgentStreamEnd,
       AgentUnregister
  <2>2. ASSUME NEW ok \in BOOLEAN, AgentAwait(a, ok) \/ AgentRespond(a, ok)
        PROVE  QueuedHasTicket'
    BY <1>4, <2>2 DEF AgentAwait, AgentRespond, Status
  <2>3. ASSUME NEW ok \in BOOLEAN, AgentExit(a, ok) PROVE QueuedHasTicket'
    BY <1>3, <1>4, <2>3 DEF AgentExit, Status
  <2> QED
    BY <1>17, <2>1, <2>2, <2>3 DEF AgentStep
<1>18. ASSUME NEW a \in Agents, AgentDisturbed(a) PROVE QueuedHasTicket'
  BY <1>3, <1>18 DEF AgentDisturbed, AgentEmpty, AgentQuit, AgentPanic, AgentNeedApproval
<1>19. ASSUME NEW c \in Cards, Resolve(c) PROVE QueuedHasTicket'
  <2>1. CASE ResolveTake(c) \/ ResolveAcquire(c) \/ ResolveSend(c)
    BY <1>3, <2>1 DEF ResolveTake, ResolveAcquire, ResolveSend
  <2>2. ASSUME NEW ok \in BOOLEAN, ResolveEnqueue(c, ok) PROVE QueuedHasTicket'
    <3>1. cardTodo[c] \in Todos
      BY <2>2 DEF ResolveEnqueue, WellFormed
    <3> QED
      BY <1>2, <2>2, <3>1 DEF ResolveEnqueue, dispatch, pickup
  <2> QED
    BY <1>19, <2>1, <2>2 DEF Resolve
<1>20. ASSUME NEW t \in Todos, FollowUpTask(t) PROVE QueuedHasTicket'
  <2>1. ASSUME NEW ok \in BOOLEAN, FollowUpWorking(t, ok) PROVE QueuedHasTicket'
    BY <1>4, <2>1 DEF FollowUpWorking, Status
  <2>2. ASSUME NEW ok \in BOOLEAN, FollowUpEnqueue(t, ok) PROVE QueuedHasTicket'
    BY <1>2, <2>2 DEF FollowUpEnqueue, dispatch, pickup
  <2> QED
    BY <1>20, <2>1, <2>2 DEF FollowUpTask
<1>21. ASSUME NEW ok \in BOOLEAN, EditWrite(ok) PROVE QueuedHasTicket'
  BY <1>21 DEF EditWrite, Undisturbed
<1>22. CASE User
  <2>1. ASSUME NEW c \in Cards, NEW ok \in BOOLEAN, UserDecides(c, ok) \/ CardExpires(c)
        PROVE  QueuedHasTicket'
    BY <1>3, <2>1 DEF UserDecides, CardExpires
  <2>2. ASSUME NEW t \in Todos, NEW c \in Cards, CreateTodo(t, c) PROVE QueuedHasTicket'
    <3>1. /\ UNCHANGED <<chan, dpc, dtodo, ppc, plist>>
          /\ \A u \in Todos : status'[u] = "AgentQueued" => status[u] = "AgentQueued"
      BY <1>0, <2>2 DEF CreateTodo, dispatch, pickup, TypeStatus
    <3> QED
      BY <3>1, TicketFrame
  <2>3. ASSUME NEW t \in Todos, NEW s, EditRead(t, s) \/ CompleteOrDelete(t, s) PROVE FALSE
    BY <1>0, <2>3 DEF EditRead, CompleteOrDelete, Spend, Undisturbed, TypeStatus
  <2>4. ASSUME NEW t \in Todos, UserFollowUp(t) PROVE QueuedHasTicket'
    BY <1>3, <2>4 DEF UserFollowUp
  <2> QED
    BY <1>22, <2>1, <2>2, <2>3, <2>4 DEF User
<1>23. CASE CtrlC
  BY <1>3, <1>23 DEF CtrlC
<1>24. CASE Restart
  BY <1>24 DEF Restart, RestartAt, QueuedHasTicket
<1>25. CASE UNCHANGED vars
  BY <1>3, <1>25 DEF vars
<1> QED
  BY <1>5, <1>6, <1>7, <1>8, <1>9, <1>10, <1>11, <1>12, <1>13, <1>14, <1>15, <1>16, <1>17,
     <1>18, <1>19, <1>20, <1>21, <1>22, <1>23, <1>24, <1>25 DEF Next, Dispatch, Pickup

\* Whoever waits is waited for, in every run without the user's edits and database
\* faults: a queued todo has its ticket or recover() is about to send one
\* (agent_queue.rs), an entry of the registry leads to the very run that asked, and
\* its inbox has room for the answer.
THEOREM WaitersAreServed ==
    ASSUME \A b \in Scenarios : b["edit"] = 0 /\ b["dbfault"] = 0
    PROVE  Spec => []WaitingIsServed
<1>1. Init => QueuedHasTicket /\ Undisturbed
  BY DEF Init, QueuedHasTicket, Undisturbed
<1>2. PermitInv /\ Undisturbed /\ QueuedHasTicket /\ [Next]_vars =>
          Undisturbed' /\ QueuedHasTicket'
  BY TicketStep, UndisturbedStep DEF PermitInv, TypeOK
<1>3. PermitInv /\ EntryInv /\ QueuedHasTicket => WaitingIsServed
  BY DEF PermitInv, EntryInv, Refers, WaitingIsServed, EntryLeadsToAsker, InboxNeverFull
<1> QED
  BY <1>1, <1>2, <1>3, PermitInvariant, AnswerInvariant, PTL DEF Spec

\* The part of it that edits and database faults do not touch.
THEOREM EntriesLeadToAskers == Spec => [](EntryLeadsToAsker /\ InboxNeverFull)
<1>1. EntryInv => EntryLeadsToAsker /\ InboxNeverFull
  BY DEF EntryInv, Refers, EntryLeadsToAsker, InboxNeverFull
<1> QED
  BY <1>1, AnswerInvariant, PTL

-----------------------------------------------------------------------------
(* AgentTools: the tools that agents run on shared files and commands.         *)

\* Where a call can be, and what it carries from step to step.
CallPcs == {"append", "patch", "truncate", "write", "look", "spawn", "wait"}
\* An agent whose task a panic has unwound.
Dead == [pc |-> "dead"]
\* A call under way, and a command that shell has started.
ActiveCall == [pc : CallPcs, call : Calls, id : Ids, buf : Seq(Nat), age : Nat]
CommandState ==
  [state : {"attached", "loose", "dead", "exited"}, left : Nat, call : Calls]

\* The types of the variables of AgentTools.
ToolTypes ==
  /\ files \in [Files -> Seq(Nat) \cup {None}]
  /\ boot \in Seq(Files) /\ seeding \in BOOLEAN /\ (seeding => boot # <<>>)
  /\ agent \in [Callers -> ActiveCall \cup {Idle, Dead}]
  /\ proc \in [Ids -> CommandState \cup {None}]
  /\ told \in [Ids -> {"none", "ok", "error", "timeout"}]
  /\ made \in 0 .. MaxCalls
  /\ kept \subseteq Files \X Nat
  /\ known \in [Callers -> [Files -> [lines : Nat, stale : BOOLEAN]]]

\* A call is where a call of its kind can be, under a number of its own.
CallFits(r) ==
  r.pc \in CallPcs =>
    /\ r.id \in 1 .. made /\ told[r.id] = "none"
    /\ r.pc = "append" => Entry(r.call) = "append"
    /\ r.pc \in {"truncate", "write"} => WritesNothing(r.call) \/ r.id \in Range(r.buf)
    /\ r.pc \in {"truncate", "write", "patch"} => r.call.tool # "shell"
    /\ r.pc = "patch" => r.call.tool = "apply_patch"
    /\ r.pc = "look" => r.call.tool \in {"memory_read", "read_file"}
    /\ r.pc \in {"spawn", "wait"} => r.call.tool = "shell"

\* The calls are under different numbers, and so are the commands.
CallsFit ==
  /\ \A a \in Callers : CallFits(agent[a])
  /\ \A a, b \in Callers :
        On(a, CallPcs) /\ On(b, CallPcs) /\ a # b => Id(a) # Id(b)
  /\ \A a \in Callers : On(a, {"write"}) => files[File(a)] # None
  /\ \A i \in Ids : /\ proc[i] # None => i <= made /\ proc[i].call.tool = "shell"
                    /\ i > made => told[i] = "none"

\* Nobody calls anything before the seeds are there, and no line is in a seed that is
\* created and not written yet but one that a command has put there meanwhile.
SeedsFit ==
  /\ ~Running => \A a \in Callers : agent[a] = Idle
  /\ seeding => /\ files[Head(boot)] # None
                /\ \A p \in kept : p[1] = Head(boot) => p[1] \in disturbed

\* Whoever will rewrite a file has its lines in hand.
HasRead(r, f) ==
  /\ r.pc \in {"truncate", "write"} /\ r.call.file = f
  /\ r.pc = "write" \/ Entry(r.call) # "truncate"

\* A line that was reported as written is in its file, or in the hands of all who
\* will write it, unless two calls have met on the file.
LineFits(p) ==
  \/ p[1] \in disturbed
  \/ /\ p[2] \in Range(Content(p[1])) \/ \E a \in Callers : On(a, {"write"}) /\ File(a) = p[1]
     /\ \A a \in Callers : HasRead(agent[a], p[1]) => p[2] \in Range(agent[a].buf)

LinesFit == \A p \in kept : LineFits(p)

\* What may come of a command after its call was told a timeout.
MayAct(c) == Limit(c) >= OuterLimit \/ c.forks
TooLong(c) == c.work >= Limit(c) \/ c.work >= OuterLimit \/ c.out > Pipe \/ c.err > Pipe

\* A call that waits is within its limits, and its command has worked as long as the
\* call has waited unless it is stuck in a full pipe.
WaitFits(r) ==
  /\ r.pc = "spawn" => r.age = 0
  /\ r.pc = "wait" =>
       /\ r.age <= OuterLimit /\ r.age <= Limit(r.call)
       /\ proc[r.id] \in CommandState /\ proc[r.id].call = r.call
       /\ \/ proc[r.id].state # "attached"
          \/ r.call.out > Pipe \/ r.call.err > Pipe
          \/ proc[r.id].left + r.age = r.call.work

\* What was reported of a command is so.
ReportsFit ==
  /\ \A a \in Callers : WaitFits(agent[a])
  /\ \A i \in Ids :
        told[i] = "timeout" =>
          /\ proc[i] \in CommandState /\ proc[i].state # "attached" /\ TooLong(proc[i].call)
          /\ proc[i].state = "dead" \/ MayAct(proc[i].call)
  /\ \A i \in late : i \in Ids /\ told[i] = "timeout" /\ MayAct(proc[i].call)

\* What an agent knows of a file nobody has written since is no more than is there.
KnownFits ==
  \A a \in Callers, f \in Files :
     known[a][f].stale \/ known[a][f].lines <= Len(Content(f))

\* The inductive invariant of AgentTools.
ToolInv ==
  /\ ToolTypes /\ CallsFit /\ SeedsFit /\ LinesFit /\ EmptyFileHasACause
  /\ ReportsFit /\ KnownFits /\ PanicHasACause

\* Where execute_chat_tool takes a call of each tool.
LEMMA EntryType ==
  ASSUME NEW c \in Calls
  PROVE  /\ Entry(c) \in {"refused", "append", "truncate", "patch", "look", "spawn"}
         /\ Entry(c) = "append" => c.tool = "memory_write"
         /\ Entry(c) = "patch" => c.tool = "apply_patch"
         /\ Entry(c) = "look" => c.tool \in {"memory_read", "read_file"}
         /\ Entry(c) = "spawn" <=> c.tool = "shell" /\ ~c.refused
         /\ Entry(c) = "truncate" => c.tool # "shell"
         /\ c.file \in Files
BY CallAssumption DEF Entry

\* Nothing has happened before the first start, and everything holds of it.
LEMMA ToolsStart == ToolsInit => ToolInv
<1> SUFFICES ASSUME ToolsInit PROVE ToolInv
  OBVIOUS
<1>1. ToolTypes
  <2>1. files \in [Files -> Seq(Nat) \cup {None}] /\ kept \subseteq Files \X Nat
    BY DEF ToolsInit
  <2>2. boot \in Seq(Files) /\ seeding \in BOOLEAN /\ (seeding => boot # <<>>)
    BY SeedAssumption DEF ToolsInit
  <2>3. /\ agent \in [Callers -> ActiveCall \cup {Idle, Dead}]
        /\ proc \in [Ids -> CommandState \cup {None}]
        /\ told \in [Ids -> {"none", "ok", "error", "timeout"}]
    BY DEF ToolsInit
  <2>4. made \in 0 .. MaxCalls
    BY LimitAssumption DEF ToolsInit
  <2>5. known \in [Callers -> [Files -> [lines : Nat, stale : BOOLEAN]]]
    BY DEF ToolsInit, Fresh
  <2> QED BY <2>1, <2>2, <2>3, <2>4, <2>5 DEF ToolTypes
<1>2. CallsFit /\ SeedsFit /\ LinesFit
  BY DEF ToolsInit, Running, CallsFit, CallFits, CallPcs, SeedsFit, LinesFit, Idle, On, Ids
<1>3. EmptyFileHasACause
  <2>1. <<>> \in Seq(Nat)
    OBVIOUS
  <2> QED BY <2>1, NoneAssumption DEF ToolsInit, EmptyFileHasACause
<1>4. ReportsFit
  BY DEF ToolsInit, ReportsFit, WaitFits, Idle
<1>5. KnownFits /\ PanicHasACause
  BY NoneAssumption DEF ToolsInit, KnownFits, PanicHasACause, Fresh, Content
<1> QED BY <1>1, <1>2, <1>3, <1>4, <1>5 DEF ToolInv

\* What a step of agent a needs to know of its call.
LEMMA CallAtHand ==
  ASSUME ToolInv, NEW a \in Callers, On(a, CallPcs)
  PROVE  /\ agent[a] \in ActiveCall /\ agent[a].call \in Calls /\ Id(a) \in Ids
         /\ File(a) \in Files /\ agent[a].buf \in Seq(Nat) /\ Id(a) \in Nat
         /\ Id(a) \in 1 .. made /\ agent[a].age \in Nat
         /\ files[File(a)] \in Seq(Nat) \cup {None}
         /\ Content(File(a)) \in Seq(Nat)
<1>1. agent[a] \in ActiveCall
  <2>1. agent[a] \in ActiveCall \cup {Idle, Dead}
    BY DEF ToolInv, ToolTypes
  <2>2. Idle.pc \notin CallPcs /\ Dead.pc \notin CallPcs
    BY DEF Idle, Dead, CallPcs
  <2> QED BY <2>1, <2>2 DEF On
<1>2. agent[a].id \in 1 .. made /\ made \in Nat /\ made <= MaxCalls
  BY LimitAssumption DEF ToolInv, ToolTypes, CallsFit, CallFits, On
<1>3. agent[a].call.file \in Files
  BY <1>1, CallAssumption DEF ActiveCall
<1>4. files[agent[a].call.file] \in Seq(Nat) \cup {None}
  BY <1>3 DEF ToolInv, ToolTypes
<1> QED BY <1>1, <1>2, <1>3, <1>4, LimitAssumption DEF ActiveCall, Id, File, Ids, Content

\* An agent that goes on with its call.
LEMMA CallGoesOn ==
  ASSUME ToolTypes, NEW a \in Callers, agent[a] \in ActiveCall,
         NEW pc \in CallPcs, agent' = [agent EXCEPT ![a].pc = pc]
  PROVE  /\ agent'[a] \in ActiveCall
         /\ agent'[a].pc = pc /\ agent'[a].buf = agent[a].buf
         /\ agent'[a].call = agent[a].call /\ agent'[a].id = agent[a].id
         /\ agent'[a].age = agent[a].age
         /\ \A c \in Callers \ {a} : agent'[c] = agent[c]
         /\ agent' \in [Callers -> ActiveCall \cup {Idle, Dead}]
<1> PICK r : r = agent'[a]
  OBVIOUS
<1>1. agent \in [Callers -> ActiveCall \cup {Idle, Dead}]
  BY DEF ToolTypes
<1>2. /\ r = agent'[a] /\ agent' = [agent EXCEPT ![a] = r]
      /\ r = [agent[a] EXCEPT !.pc = pc]
  BY <1>1
<1>3. /\ r \in ActiveCall /\ r.pc = pc /\ r.buf = agent[a].buf
      /\ r.call = agent[a].call /\ r.id = agent[a].id /\ r.age = agent[a].age
  BY <1>2 DEF ActiveCall
<1> QED BY <1>1, <1>2, <1>3

\* The same, once it knows what it will write.
LEMMA CallHasRead ==
  ASSUME ToolTypes, NEW a \in Callers, agent[a] \in ActiveCall,
         NEW b \in Seq(Nat), agent' = [agent EXCEPT ![a].pc = "truncate", ![a].buf = b]
  PROVE  /\ agent'[a] \in ActiveCall
         /\ agent'[a].pc = "truncate" /\ agent'[a].buf = b
         /\ agent'[a].call = agent[a].call /\ agent'[a].id = agent[a].id
         /\ agent'[a].age = agent[a].age
         /\ \A c \in Callers \ {a} : agent'[c] = agent[c]
         /\ agent' \in [Callers -> ActiveCall \cup {Idle, Dead}]
<1> PICK r : r = agent'[a]
  OBVIOUS
<1>1. agent \in [Callers -> ActiveCall \cup {Idle, Dead}]
  BY DEF ToolTypes
<1>2. /\ r = agent'[a] /\ agent' = [agent EXCEPT ![a] = r]
      /\ r = [agent[a] EXCEPT !.pc = "truncate", !.buf = b]
  BY <1>1
<1>3. /\ r \in ActiveCall /\ r.pc = "truncate" /\ r.buf = b
      /\ r.call = agent[a].call /\ r.id = agent[a].id /\ r.age = agent[a].age
  BY <1>2 DEF ActiveCall, CallPcs
<1> QED BY <1>1, <1>2, <1>3

\* An agent whose call has returned.
LEMMA CallReturns ==
  ASSUME ToolInv, NEW a \in Callers, On(a, CallPcs), NEW r \in {"ok", "error", "timeout"},
         Return(a, r)
  PROVE  /\ agent'[a] = Idle /\ \A c \in Callers \ {a} : agent'[c] = agent[c]
         /\ agent' \in [Callers -> ActiveCall \cup {Idle, Dead}]
         /\ told'[Id(a)] = r /\ \A i \in Ids \ {Id(a)} : told'[i] = told[i]
         /\ told' \in [Ids -> {"none", "ok", "error", "timeout"}]
<1>1. Id(a) \in Ids
  BY CallAtHand
<1> QED BY <1>1 DEF Return, ToolInv, ToolTypes

\* What every agent was told of a file that is written is stale, and nothing else is.
LEMMA StaleType ==
  ASSUME ToolTypes, NEW f \in Files, Stale(f)
  PROVE  /\ known' \in [Callers -> [Files -> [lines : Nat, stale : BOOLEAN]]]
         /\ \A a \in Callers : known'[a][f].stale
         /\ \A a \in Callers, g \in Files : g # f => known'[a][g] = known[a][g]
<1>1. ASSUME NEW a \in Callers
      PROVE  /\ known'[a] = [known[a] EXCEPT ![f].stale = TRUE]
             /\ known[a] \in [Files -> [lines : Nat, stale : BOOLEAN]]
  BY DEF Stale, ToolTypes
<1>2. ASSUME NEW a \in Callers
      PROVE  /\ known'[a] \in [Files -> [lines : Nat, stale : BOOLEAN]]
             /\ known'[a][f].stale
             /\ \A g \in Files : g # f => known'[a][g] = known[a][g]
  <2>1. [known[a][f] EXCEPT !.stale = TRUE] \in [lines : Nat, stale : BOOLEAN]
    <3>1. known[a][f] \in [lines : Nat, stale : BOOLEAN]
      BY <1>1
    <3> QED BY <3>1
  <2>2. known'[a] = [known[a] EXCEPT ![f] = [known[a][f] EXCEPT !.stale = TRUE]]
    BY <1>1
  <2> QED BY <1>1, <2>1, <2>2
<1>3. known' = [a \in Callers |-> [known[a] EXCEPT ![f].stale = TRUE]]
  BY DEF Stale
<1> QED BY <1>1, <1>2, <1>3

\* A call begins under a number nobody has had.
LEMMA BeginTypes ==
  ASSUME ToolInv, NEW a \in Callers, NEW c \in Calls, Begin(a, c)
  PROVE  /\ ToolTypes' /\ made + 1 \in Ids /\ made' = made + 1 /\ made \in Nat
         /\ Entry(c) # "refused" =>
              agent'[a] = Started(c, made + 1)
         /\ \A b \in Callers \ {a} : agent'[b] = agent[b]
<1>1. made \in Nat /\ made + 1 \in Ids /\ made' = made + 1 /\ made' \in 0 .. MaxCalls
  BY LimitAssumption DEF ToolInv, ToolTypes, Begin, Ids
<1>2. /\ agent' \in [Callers -> ActiveCall \cup {Idle, Dead}]
      /\ Entry(c) # "refused" =>
              agent'[a] = Started(c, made + 1)
      /\ \A b \in Callers \ {a} : agent'[b] = agent[b]
  <2>1. CASE Entry(c) = "refused"
    BY <2>1 DEF Begin, ToolInv, ToolTypes
  <2>2. CASE Entry(c) # "refused"
    <3> DEFINE w == Started(c, made + 1)
    <3>0. <<>> \in Seq(Nat) /\ <<made + 1>> \in Seq(Nat)
      BY <1>1
    <3>1. w \in ActiveCall
      BY <1>1, <2>2, <3>0, EntryType DEF Started, ActiveCall, CallPcs
    <3>2. agent' = [agent EXCEPT ![a] = w]
      BY <2>2 DEF Begin
    <3> QED BY <3>1, <3>2 DEF ToolInv, ToolTypes
  <2> QED BY <2>1, <2>2
<1>3. told' \in [Ids -> {"none", "ok", "error", "timeout"}]
  BY <1>1 DEF Begin, ToolInv, ToolTypes
<1> QED BY <1>1, <1>2, <1>3 DEF Begin, ToolInv, ToolTypes, disk

\* What Replaced makes of a file.
LEMMA ReplacedType ==
  ASSUME NEW s \in Seq(Nat), NEW old \in Nat, NEW new \in Nat, NEW all
  PROVE  /\ Replaced(s, old, new, all) \in Seq(Nat)
         /\ \A x \in Range(s) \ {old} : x \in Range(Replaced(s, old, new, all))
         /\ old \in Range(s) => new \in Range(Replaced(s, old, new, all))
<1> DEFINE r == Replaced(s, old, new, all)
<1>1. /\ DOMAIN r = 1 .. Len(s)
      /\ \A i \in 1 .. Len(s) :
            r[i] = IF s[i] = old /\ (all \/ \A j \in 1 .. i - 1 : s[j] # old) THEN new ELSE s[i]
  BY DEF Replaced
<1>2. Range(r) = {r[i] : i \in 1 .. Len(s)} /\ Range(s) = {s[i] : i \in 1 .. Len(s)}
  BY <1>1 DEF Range
<1>3. r \in Seq(Nat)
  <2>1. \A i \in 1 .. Len(s) : s[i] \in Nat
    OBVIOUS
  <2>2. r \in [1 .. Len(s) -> Nat]
    BY <2>1 DEF Replaced
  <2> QED BY <2>2
<1>4. ASSUME NEW x \in Range(s) \ {old} PROVE x \in Range(r)
  <2>1. PICK i \in 1 .. Len(s) : s[i] = x
    BY <1>2
  <2> QED BY <1>1, <1>2, <2>1
<1>5. ASSUME old \in Range(s) PROVE new \in Range(r)
  <2> DEFINE At == {i \in 1 .. Len(s) : s[i] = old}
  <2>1. At \subseteq Nat /\ At # {}
    BY <1>2, <1>5
  <2>2. PICK n \in At : \A j \in At : n <= j
    BY <2>1, Least
  <2>3. n \in 1 .. Len(s) /\ s[n] = old /\ \A j \in 1 .. n - 1 : s[j] # old
    BY <2>2
  <2>4. r[n] = new
    BY <1>1, <2>3
  <2> QED BY <1>2, <2>3, <2>4
<1> QED BY <1>3, <1>4, <1>5

\* The lines of two texts put one after the other.
LEMMA RangeOfJoined ==
  ASSUME NEW s \in Seq(Nat), NEW t \in Seq(Nat)
  PROVE  s \o t \in Seq(Nat) /\ Range(s \o t) = Range(s) \cup Range(t)
<1> DEFINE u == s \o t
<1>1. /\ u \in Seq(Nat) /\ Len(u) = Len(s) + Len(t)
      /\ \A i \in 1 .. Len(s) : u[i] = s[i]
      /\ \A i \in 1 .. Len(t) : u[Len(s) + i] = t[i]
  OBVIOUS
<1>0. ASSUME NEW v \in Seq(Nat) PROVE Range(v) = {v[i] : i \in 1 .. Len(v)}
  BY DEF Range
<1>2. /\ Range(u) = {u[i] : i \in 1 .. Len(u)} /\ Range(s) = {s[i] : i \in 1 .. Len(s)}
      /\ Range(t) = {t[i] : i \in 1 .. Len(t)}
  BY <1>0, <1>1
<1> HIDE DEF u
<1>3. ASSUME NEW x \in Range(u) PROVE x \in Range(s) \cup Range(t)
  <2>1. PICK i \in 1 .. Len(u) : u[i] = x
    BY <1>2
  <2>2. CASE i <= Len(s)
    <3>1. i \in 1 .. Len(s)
      BY <2>2
    <3> QED BY <1>1, <1>2, <2>1, <3>1
  <2>3. CASE i > Len(s)
    <3>1. i - Len(s) \in 1 .. Len(t) /\ Len(s) + (i - Len(s)) = i
      BY <1>1, <2>3
    <3> QED BY <1>1, <1>2, <2>1, <3>1
  <2> QED BY <2>2, <2>3, <1>1
<1>4. ASSUME NEW x \in Range(s) PROVE x \in Range(u)
  <2>1. PICK i \in 1 .. Len(s) : s[i] = x
    BY <1>2
  <2>2. i \in 1 .. Len(u)
    BY <1>1
  <2> QED BY <1>1, <1>2, <2>1, <2>2
<1>5. ASSUME NEW x \in Range(t) PROVE x \in Range(u)
  <2>1. PICK i \in 1 .. Len(t) : t[i] = x
    BY <1>2
  <2>2. Len(s) + i \in 1 .. Len(u)
    BY <1>1
  <2> QED BY <1>1, <1>2, <2>1, <2>2
<1> QED BY <1>1, <1>3, <1>4, <1>5 DEF u

\* fs::write puts all that it was given into the file.
LEMMA OverlayHolds ==
  ASSUME NEW s \in Seq(Nat), NEW old \in Seq(Nat)
  PROVE  /\ Overlay(s, old) \in Seq(Nat) /\ Range(s) \subseteq Range(Overlay(s, old))
         /\ s # <<>> => Overlay(s, old) # <<>>
         /\ Len(Overlay(s, old)) >= Len(old)
<1> DEFINE t == SubSeq(old, Len(s) + 1, Len(old))
<1>1. t \in Seq(Nat)
  OBVIOUS
<1>2. s \o t \in Seq(Nat) /\ Range(s \o t) = Range(s) \cup Range(t)
  BY <1>1, RangeOfJoined
<1>3. Len(s \o t) = Len(s) + Len(t)
  BY <1>1
<1>4. s # <<>> => s \o t # <<>>
  BY <1>1, <1>3
<1>5. Len(t) = IF Len(s) + 1 <= Len(old) THEN Len(old) - Len(s) ELSE 0
  OBVIOUS
<1>6. Len(s \o t) >= Len(old)
  BY <1>3, <1>5
<1> QED BY <1>2, <1>4, <1>6 DEF Overlay

\* ensure_dirs takes nothing out of a file.
LEMMA SeedTypes ==
  ASSUME ToolInv, Seed \/ SeedWrite \/ SeedFails
  PROVE  /\ ToolTypes' /\ Head(boot) \in Files
         /\ \A f \in Files : f # Head(boot) => files'[f] = files[f]
         /\ \A f \in Files : files[f] # None => files'[f] # None
         /\ \A f \in Files : Len(Content(f)) <= Len(Content(f))'
         /\ UNCHANGED <<agent, made, told, proc, kept, disturbed, blank, known>>
<1>1. boot \in Seq(Files) /\ boot # <<>>
  BY DEF ToolInv, ToolTypes, Seed, SeedWrite, SeedFails, Running
<1>2. Head(boot) \in Files /\ Tail(boot) \in Seq(Files)
  BY <1>1
<1>3. files \in [Files -> Seq(Nat) \cup {None}]
  BY DEF ToolInv, ToolTypes
<1>4. <<>> \in Seq(Nat) /\ <<0>> \in Seq(Nat)
  OBVIOUS
<1>5. CASE files' = files
  <2>1. \A f \in Files : Content(f) \in Seq(Nat)
    BY <1>3, <1>4 DEF Content
  <2>2. \A f \in Files : Len(Content(f)) \in Nat /\ Content(f)' = Content(f)
    BY <1>5, <2>1 DEF Content
  <2>3. \A f \in Files : Len(Content(f)) <= Len(Content(f))'
    BY <2>2
  <2>4. boot' \in Seq(Files) /\ seeding' \in BOOLEAN /\ (seeding' => boot' # <<>>)
    <3>1. /\ boot' \in {boot, Tail(boot), <<>>} /\ seeding' \in {seeding, TRUE, FALSE}
          /\ seeding' => boot' = boot
      BY DEF Seed, SeedWrite, SeedFails
    <3>2. <<>> \in Seq(Files) /\ seeding \in BOOLEAN
      BY DEF ToolInv, ToolTypes
    <3> QED BY <1>1, <1>2, <3>1, <3>2
  <2> QED BY <1>2, <1>5, <2>3, <2>4 DEF ToolInv, ToolTypes, Seed, SeedWrite, SeedFails
<1>6. ASSUME NEW c \in Seq(Nat), files' = [files EXCEPT ![Head(boot)] = c],
             Len(Content(Head(boot))) <= Len(c)
      PROVE  /\ files' \in [Files -> Seq(Nat) \cup {None}]
             /\ \A f \in Files : f # Head(boot) => files'[f] = files[f]
             /\ \A f \in Files : files[f] # None => files'[f] # None
             /\ \A f \in Files : Len(Content(f)) <= Len(Content(f))'
  <2>1. /\ files' \in [Files -> Seq(Nat) \cup {None}] /\ files'[Head(boot)] = c
        /\ \A f \in Files : f # Head(boot) => files'[f] = files[f]
    BY <1>2, <1>3, <1>6
  <2>2. c # None
    BY NoneAssumption
  <2>3. ASSUME NEW f \in Files PROVE Len(Content(f)) <= Len(Content(f))'
    <3>1. CASE f = Head(boot)
      BY <1>6, <2>1, <2>2, <3>1 DEF Content
    <3>2. CASE f # Head(boot)
      <4>1. Content(f) \in Seq(Nat) /\ Content(f)' = Content(f)
        BY <1>3, <1>4, <2>1, <3>2 DEF Content
      <4>2. Len(Content(f)) \in Nat
        BY <4>1
      <4> QED BY <4>1, <4>2
    <3> QED BY <3>1, <3>2
  <2> QED BY <2>1, <2>2, <2>3
<1>7. CASE Seed /\ files[Head(boot)] = None
  <2>1. files' = [files EXCEPT ![Head(boot)] = <<>>]
    BY <1>7 DEF Seed
  <2>2. Content(Head(boot)) = <<>>
    BY <1>7 DEF Content
  <2>3. Len(Content(Head(boot))) <= Len(<<>>)
    BY <2>2
  <2>4. /\ files' \in [Files -> Seq(Nat) \cup {None}]
        /\ \A f \in Files : f # Head(boot) => files'[f] = files[f]
        /\ \A f \in Files : files[f] # None => files'[f] # None
        /\ \A f \in Files : Len(Content(f)) <= Len(Content(f))'
    BY <1>4, <1>6, <2>1, <2>3
  <2> QED BY <1>1, <1>2, <1>7, <2>4 DEF Seed, ToolInv, ToolTypes
<1>8. CASE SeedWrite
  <2>1. files[Head(boot)] \in Seq(Nat)
    BY <1>2, <1>3, <1>8 DEF SeedWrite, ToolInv, SeedsFit
  <2> DEFINE c == Overlay(<<0>>, files[Head(boot)])
  <2>2. c \in Seq(Nat) /\ Len(c) >= Len(files[Head(boot)])
    BY <1>4, <2>1, OverlayHolds
  <2>3. Content(Head(boot)) = files[Head(boot)]
    BY <1>8 DEF SeedWrite, ToolInv, SeedsFit, Content
  <2>4. files' = [files EXCEPT ![Head(boot)] = c]
    BY <1>8 DEF SeedWrite
  <2> HIDE DEF c
  <2>5. Len(Content(Head(boot))) <= Len(c)
    BY <2>1, <2>2, <2>3
  <2>6. /\ files' \in [Files -> Seq(Nat) \cup {None}]
        /\ \A f \in Files : f # Head(boot) => files'[f] = files[f]
        /\ \A f \in Files : files[f] # None => files'[f] # None
        /\ \A f \in Files : Len(Content(f)) <= Len(Content(f))'
    BY <1>6, <2>2, <2>4, <2>5
  <2> QED BY <1>1, <1>2, <1>8, <2>6 DEF SeedWrite, ToolInv, ToolTypes
<1> QED BY <1>5, <1>7, <1>8 DEF Seed, SeedFails

\* Workspace::append has the whole file and its own line in hand.
LEMMA AppendReads ==
  ASSUME ToolInv, NEW a \in Callers, AppendRead(a)
  PROVE  /\ ToolTypes'
         /\ On(a, CallPcs) /\ agent[a].pc = "append" /\ agent'[a] \in ActiveCall
         /\ agent'[a].pc = "truncate" /\ agent'[a].call = agent[a].call
         /\ agent'[a].id = agent[a].id
         /\ Range(agent'[a].buf) = Range(Content(File(a))) \cup {Id(a)}
         /\ \A c \in Callers \ {a} : agent'[c] = agent[c]
<1>1. On(a, CallPcs) /\ agent[a].pc = "append"
  BY DEF AppendRead, On, CallPcs
<1>2. /\ agent[a] \in ActiveCall /\ Id(a) \in Nat /\ File(a) \in Files
      /\ Content(File(a)) \in Seq(Nat)
  BY <1>1, CallAtHand
<1> DEFINE b == Content(File(a)) \o <<Id(a)>>
<1>3. b \in Seq(Nat) /\ Range(b) = Range(Content(File(a))) \cup {Id(a)}
  <2>1. <<Id(a)>> \in Seq(Nat) /\ Range(<<Id(a)>>) = {Id(a)}
    BY <1>2 DEF Range
  <2> QED BY <1>2, <2>1, RangeOfJoined
<1>4. agent' = [agent EXCEPT ![a].pc = "truncate", ![a].buf = b]
  BY DEF AppendRead
<1> HIDE DEF b
<1>6. /\ agent'[a] \in ActiveCall /\ agent'[a].pc = "truncate" /\ agent'[a].buf = b
      /\ agent'[a].call = agent[a].call /\ agent'[a].id = agent[a].id
      /\ \A c \in Callers \ {a} : agent'[c] = agent[c]
      /\ agent' \in [Callers -> ActiveCall \cup {Idle, Dead}]
  <2>1. ToolTypes
    BY DEF ToolInv
  <2> QED BY <1>2, <1>3, <1>4, <2>1, CallHasRead
<1>7. ToolTypes'
  BY <1>6 DEF AppendRead, ToolInv, ToolTypes
<1> QED BY <1>1, <1>3, <1>6, <1>7

\* What Removed makes of a file.
LEMMA RemovedType ==
  ASSUME NEW s \in Seq(Nat), NEW old \in Nat, old \in Range(s), NEW all
  PROVE  /\ Removed(s, old, all) \in Seq(Nat)
         /\ \A x \in Range(s) \ {old} : x \in Range(Removed(s, old, all))
<1>0. ASSUME NEW v \in Seq(Nat) PROVE Range(v) = {v[i] : i \in 1 .. Len(v)}
  BY DEF Range
<1>1. CASE all
  <2> DEFINE t == Sift(s, Nat \ {old})
  <2>1. t \in Seq(Nat \cap (Nat \ {old}))
    BY SiftType
  <2>2. {t[k] : k \in DOMAIN t} = {s[j] : j \in DOMAIN s} \cap (Nat \ {old})
    BY SiftMembers
  <2> HIDE DEF t
  <2>3. t \in Seq(Nat)
    BY <2>1
  <2>4. Range(t) = {t[k] : k \in DOMAIN t} /\ Range(s) = {s[j] : j \in DOMAIN s}
    BY DEF Range
  <2>5. Range(s) \subseteq Nat
    BY <1>0
  <2>6. Removed(s, old, all) = t
    BY <1>1 DEF Removed, t
  <2> QED BY <2>2, <2>3, <2>4, <2>5, <2>6
<1>2. CASE ~all
  <2> DEFINE At == {j \in 1 .. Len(s) : s[j] = old}
             i == Min(At)
             u == SubSeq(s, 1, i - 1)
             v == SubSeq(s, i + 1, Len(s))
  <2>1. At \subseteq Nat /\ At # {}
    BY <1>0
  <2>2. \E x \in At : \A y \in At : x <= y
    BY <2>1, Least
  <2>3. i \in At
    BY <2>2 DEF Min
  <2>4. i \in 1 .. Len(s) /\ s[i] = old /\ Len(s) \in Nat
    BY <2>3
  <2>5. Removed(s, old, all) = u \o v
    BY <1>2 DEF Removed
  <2> HIDE DEF i, At
  <2>6. /\ u \in Seq(Nat) /\ Len(u) = i - 1 /\ \A j \in 1 .. i - 1 : u[j] = s[j]
    BY <2>4
  <2>7. /\ v \in Seq(Nat) /\ Len(v) = Len(s) - i
        /\ \A j \in 1 .. Len(s) - i : v[j] = s[i + j]
    BY <2>4
  <2> HIDE DEF u, v
  <2>8. u \o v \in Seq(Nat) /\ Range(u \o v) = Range(u) \cup Range(v)
    BY <2>6, <2>7, RangeOfJoined
  <2>9. ASSUME NEW x \in Range(s) \ {old} PROVE x \in Range(u) \cup Range(v)
    <3>1. PICK j \in 1 .. Len(s) : s[j] = x
      BY <1>0
    <3>2. j # i
      BY <2>4, <3>1
    <3>3. CASE j < i
      <4>1. j \in 1 .. Len(u) /\ u[j] = x
        BY <2>4, <2>6, <3>1, <3>3
      <4> QED BY <1>0, <2>6, <4>1
    <3>4. CASE j > i
      <4>1. j - i \in 1 .. Len(s) - i /\ i + (j - i) = j
        BY <2>4, <3>4
      <4>2. v[j - i] = x
        BY <2>7, <3>1, <4>1
      <4> QED BY <1>0, <2>7, <4>1, <4>2
    <3> QED BY <2>4, <3>2, <3>3, <3>4
  <2> QED BY <2>5, <2>8, <2>9
<1> QED BY <1>1, <1>2

\* apply_patch has the whole file in hand but for what it replaces.
LEMMA PatchReads ==
  ASSUME ToolInv, NEW a \in Callers, NEW old \in Ids \cup {0}, PatchRead(a, old),
         old \in Range(Content(File(a)))
  PROVE  /\ ToolTypes'
         /\ On(a, CallPcs) /\ agent[a].pc = "patch" /\ agent'[a] \in ActiveCall
         /\ agent'[a].pc = "truncate" /\ agent'[a].call = agent[a].call
         /\ agent'[a].id = agent[a].id
         /\ Range(Content(File(a))) \ {old} \subseteq Range(agent'[a].buf)
         /\ WritesNothing(agent[a].call) \/ Id(a) \in Range(agent'[a].buf)
         /\ \A c \in Callers \ {a} : agent'[c] = agent[c]
<1>1. On(a, CallPcs) /\ agent[a].pc = "patch"
  BY DEF PatchRead, On, CallPcs
<1>2. /\ agent[a] \in ActiveCall /\ Id(a) \in Nat /\ File(a) \in Files
      /\ Content(File(a)) \in Seq(Nat)
  BY <1>1, CallAtHand
<1> DEFINE b == Patched(Content(File(a)), agent[a].call, old, Id(a))
<1>3. /\ b \in Seq(Nat) /\ Range(Content(File(a))) \ {old} \subseteq Range(b)
      /\ WritesNothing(agent[a].call) \/ Id(a) \in Range(b)
  <2>1. old \in Nat
    BY LimitAssumption DEF Ids
  <2>2. CASE WritesNothing(agent[a].call)
    <3>1. b = Removed(Content(File(a)), old, agent[a].call.all)
      BY <2>2 DEF Patched
    <3>2. /\ Removed(Content(File(a)), old, agent[a].call.all) \in Seq(Nat)
          /\ \A x \in Range(Content(File(a))) \ {old} :
               x \in Range(Removed(Content(File(a)), old, agent[a].call.all))
      BY <1>2, <2>1, RemovedType
    <3> QED BY <2>2, <3>1, <3>2
  <2>3. CASE ~WritesNothing(agent[a].call)
    <3>1. b = Replaced(Content(File(a)), old, Id(a), agent[a].call.all)
      BY <2>3 DEF Patched
    <3>2. /\ Replaced(Content(File(a)), old, Id(a), agent[a].call.all) \in Seq(Nat)
          /\ \A x \in Range(Content(File(a))) \ {old} :
               x \in Range(Replaced(Content(File(a)), old, Id(a), agent[a].call.all))
          /\ Id(a) \in Range(Replaced(Content(File(a)), old, Id(a), agent[a].call.all))
      BY <1>2, <2>1, ReplacedType
    <3> QED BY <3>1, <3>2
  <2> QED BY <2>2, <2>3
<1>4. agent' = [agent EXCEPT ![a].pc = "truncate", ![a].buf = b]
  BY DEF PatchRead
<1> HIDE DEF b
<1>6. /\ agent'[a] \in ActiveCall /\ agent'[a].pc = "truncate" /\ agent'[a].buf = b
      /\ agent'[a].call = agent[a].call /\ agent'[a].id = agent[a].id
      /\ \A c \in Callers \ {a} : agent'[c] = agent[c]
      /\ agent' \in [Callers -> ActiveCall \cup {Idle, Dead}]
  <2>1. ToolTypes
    BY DEF ToolInv
  <2> QED BY <1>2, <1>3, <1>4, <2>1, CallHasRead
<1>7. ToolTypes'
  BY <1>6 DEF PatchRead, ToolInv, ToolTypes
<1> QED BY <1>1, <1>3, <1>6, <1>7

\* apply_patch that finds nothing to replace returns an error and nothing else.
LEMMA PatchFails ==
  ASSUME ToolInv, NEW a \in Callers, NEW old, PatchRead(a, old),
         old \notin Range(Content(File(a)))
  PROVE  ToolTypes' /\ On(a, CallPcs) /\ Return(a, "error")
<1>1. On(a, CallPcs) /\ Return(a, "error")
  BY DEF PatchRead, On, CallPcs
<1>2. /\ agent' \in [Callers -> ActiveCall \cup {Idle, Dead}]
      /\ told' \in [Ids -> {"none", "ok", "error", "timeout"}]
  BY <1>1, CallReturns
<1> QED BY <1>1, <1>2 DEF PatchRead, ToolInv, ToolTypes

\* The opening of fs::write empties its file and no other.
LEMMA Truncates ==
  ASSUME ToolInv, NEW a \in Callers, Truncate(a)
  PROVE  /\ ToolTypes'
         /\ On(a, CallPcs) /\ agent[a].pc = "truncate" /\ agent'[a] \in ActiveCall
         /\ agent'[a].pc = "write" /\ agent'[a].call = agent[a].call
         /\ agent'[a].id = agent[a].id /\ agent'[a].buf = agent[a].buf
         /\ \A c \in Callers \ {a} : agent'[c] = agent[c]
         /\ files'[File(a)] = <<>> /\ \A f \in Files \ {File(a)} : files'[f] = files[f]
<1>1. On(a, CallPcs) /\ agent[a].pc = "truncate"
  BY DEF Truncate, On, CallPcs
<1>2. agent[a] \in ActiveCall /\ agent[a].buf \in Seq(Nat) /\ File(a) \in Files
  BY <1>1, CallAtHand
<1>3. "write" \in CallPcs /\ agent' = [agent EXCEPT ![a].pc = "write"]
  BY DEF CallPcs, Truncate
<1>4. /\ agent'[a] \in ActiveCall
      /\ agent'[a].pc = "write" /\ agent'[a].call = agent[a].call
      /\ agent'[a].id = agent[a].id /\ agent'[a].buf = agent[a].buf
      /\ \A c \in Callers \ {a} : agent'[c] = agent[c]
      /\ agent' \in [Callers -> ActiveCall \cup {Idle, Dead}]
  BY <1>2, <1>3, CallGoesOn DEF ToolInv
<1>5. /\ files' \in [Files -> Seq(Nat) \cup {None}]
      /\ files'[File(a)] = <<>> /\ \A f \in Files \ {File(a)} : files'[f] = files[f]
  <2>1. <<>> \in Seq(Nat)
    OBVIOUS
  <2> QED BY <1>2, <2>1 DEF Truncate, ToolInv, ToolTypes
<1>6. known' \in [Callers -> [Files -> [lines : Nat, stale : BOOLEAN]]]
  BY <1>2, StaleType DEF Truncate, ToolInv
<1>7. kept' \subseteq Files \X Nat
  BY DEF Truncate, ToolInv, ToolTypes
<1>8. ToolTypes'
  BY <1>4, <1>5, <1>6, <1>7 DEF Truncate, ToolInv, ToolTypes
<1> QED BY <1>1, <1>4, <1>5, <1>8

\* The write of fs::write puts what the call has in hand into its file and no other.
LEMMA Writes ==
  ASSUME ToolInv, NEW a \in Callers, Write(a)
  PROVE  /\ ToolTypes' /\ On(a, CallPcs) /\ agent[a].pc = "write" /\ Return(a, "ok")
         /\ files'[File(a)] \in Seq(Nat) /\ (agent[a].buf # <<>> => files'[File(a)] # <<>>)
         /\ Range(agent[a].buf) \subseteq Range(files'[File(a)])
         /\ \A f \in Files \ {File(a)} : files'[f] = files[f]
<1>1. On(a, CallPcs) /\ agent[a].pc = "write" /\ Return(a, "ok")
  BY DEF Write, On, CallPcs
<1>2. /\ agent[a] \in ActiveCall /\ agent[a].buf \in Seq(Nat) /\ File(a) \in Files
      /\ Id(a) \in Nat /\ files[File(a)] \in Seq(Nat) \cup {None}
  BY <1>1, CallAtHand
<1>3. files[File(a)] \in Seq(Nat)
  BY <1>1, <1>2 DEF ToolInv, CallsFit, On
<1> DEFINE c == Overlay(agent[a].buf, files[File(a)])
<1>5. c \in Seq(Nat) /\ Range(agent[a].buf) \subseteq Range(c) /\ (agent[a].buf # <<>> => c # <<>>)
  BY <1>2, <1>3, OverlayHolds
<1>6. files' = [files EXCEPT ![File(a)] = c]
  BY DEF Write
<1> HIDE DEF c
<1>7. /\ files' \in [Files -> Seq(Nat) \cup {None}]
      /\ files'[File(a)] = c /\ \A f \in Files \ {File(a)} : files'[f] = files[f]
  BY <1>2, <1>5, <1>6 DEF ToolInv, ToolTypes
<1>8. known' \in [Callers -> [Files -> [lines : Nat, stale : BOOLEAN]]]
  BY <1>2, StaleType DEF Write, ToolInv
<1>9. kept' \subseteq Files \X Nat
  BY <1>2 DEF Write, ToolInv, ToolTypes
<1>10. /\ agent' \in [Callers -> ActiveCall \cup {Idle, Dead}]
       /\ told' \in [Ids -> {"none", "ok", "error", "timeout"}]
  BY <1>1, CallReturns
<1>11. ToolTypes'
  BY <1>7, <1>8, <1>9, <1>10 DEF Write, ToolInv, ToolTypes
<1> QED BY <1>1, <1>5, <1>7, <1>11

\* A write that fails has cut its file, and no other.
LEMMA WritesFail ==
  ASSUME ToolInv, NEW a \in Callers, NEW n \in 0 .. MaxCalls, WriteFails(a, n)
  PROVE  /\ ToolTypes' /\ On(a, CallPcs) /\ agent[a].pc = "write" /\ Return(a, "error")
         /\ files'[File(a)] \in Seq(Nat) /\ File(a) \in Files
         /\ \A f \in Files \ {File(a)} : files'[f] = files[f]
<1>1. On(a, CallPcs) /\ agent[a].pc = "write" /\ Return(a, "error")
  BY DEF WriteFails, On, CallPcs
<1>2. /\ agent[a] \in ActiveCall /\ agent[a].buf \in Seq(Nat) /\ File(a) \in Files
      /\ files[File(a)] \in Seq(Nat) \cup {None}
  BY <1>1, CallAtHand
<1>3. files[File(a)] \in Seq(Nat)
  BY <1>1, <1>2 DEF ToolInv, CallsFit, On
<1>4. SubSeq(agent[a].buf, 1, n) \in Seq(Nat)
  <2>1. n \in Nat /\ n < Len(agent[a].buf)
    BY LimitAssumption DEF WriteFails
  <2> QED BY <1>2, <2>1
<1> DEFINE c == Overlay(SubSeq(agent[a].buf, 1, n), files[File(a)])
<1>5. c \in Seq(Nat)
  BY <1>3, <1>4, OverlayHolds
<1>6. files' = [files EXCEPT ![File(a)] = c]
  BY DEF WriteFails
<1> HIDE DEF c
<1>7. /\ files' \in [Files -> Seq(Nat) \cup {None}]
      /\ files'[File(a)] = c /\ \A f \in Files \ {File(a)} : files'[f] = files[f]
  BY <1>2, <1>5, <1>6 DEF ToolInv, ToolTypes
<1>8. known' \in [Callers -> [Files -> [lines : Nat, stale : BOOLEAN]]]
  BY <1>2, StaleType DEF WriteFails, ToolInv
<1>9. kept' \subseteq Files \X Nat
  BY DEF WriteFails, ToolInv, ToolTypes
<1>10. /\ agent' \in [Callers -> ActiveCall \cup {Idle, Dead}]
       /\ told' \in [Ids -> {"none", "ok", "error", "timeout"}]
  BY <1>1, CallReturns
<1>11. ToolTypes'
  BY <1>7, <1>8, <1>9, <1>10 DEF WriteFails, ToolInv, ToolTypes
<1> QED BY <1>1, <1>2, <1>5, <1>7, <1>11

\* A file that cannot be opened or read is left as it was.
LEMMA OpensFail ==
  ASSUME ToolInv, NEW a \in Callers, OpenFails(a)
  PROVE  /\ ToolTypes' /\ On(a, CallPcs) /\ agent[a].pc # "write" /\ Return(a, "error")
         /\ UNCHANGED <<files, kept, disturbed, torn, blank, boot, seeding, proc, made, late>>
         /\ UNCHANGED <<known, panics>>
<1>1. /\ On(a, CallPcs) /\ agent[a].pc # "write" /\ Return(a, "error")
      /\ UNCHANGED <<files, kept, disturbed, torn, blank, boot, seeding, proc, made, late>>
      /\ UNCHANGED <<known, panics>>
  BY DEF OpenFails, On, CallPcs, disk
<1>2. /\ agent' \in [Callers -> ActiveCall \cup {Idle, Dead}]
      /\ told' \in [Ids -> {"none", "ok", "error", "timeout"}]
  BY <1>1, CallReturns
<1> QED BY <1>1, <1>2 DEF ToolInv, ToolTypes

\* A read tells its own agent the number of lines its file has.
LEMMA Reads ==
  ASSUME ToolInv, NEW a \in Callers, Read(a)
  PROVE  /\ ToolTypes' /\ On(a, CallPcs) /\ agent[a].pc = "look"
         /\ \E r \in {"ok", "error"} : Return(a, r)
         /\ \A b \in Callers, f \in Files :
              \/ known'[b][f] = known[b][f]
              \/ known'[b][f].lines = Len(files[f]) /\ files[f] # None
<1>1. On(a, CallPcs) /\ agent[a].pc = "look"
  BY DEF Read, On, CallPcs
<1>2. PICK r \in {"ok", "error"} : Return(a, r)
  BY DEF Read
<1>3. File(a) \in Files /\ files[File(a)] \in Seq(Nat) \cup {None}
  BY <1>1, CallAtHand
<1>4. /\ agent' \in [Callers -> ActiveCall \cup {Idle, Dead}]
      /\ told' \in [Ids -> {"none", "ok", "error", "timeout"}]
  BY <1>1, <1>2, CallReturns
<1>5. known \in [Callers -> [Files -> [lines : Nat, stale : BOOLEAN]]]
  BY DEF ToolInv, ToolTypes
<1>6. /\ known' \in [Callers -> [Files -> [lines : Nat, stale : BOOLEAN]]]
      /\ \A b \in Callers, f \in Files :
              \/ known'[b][f] = known[b][f]
              \/ known'[b][f].lines = Len(files[f]) /\ files[f] # None
  <2>1. CASE ReadFails(a)
    BY <1>5, <2>1 DEF Read
  <2>2. CASE ~ReadFails(a)
    <3> DEFINE k == [lines |-> Len(files[File(a)]), stale |-> FALSE]
    <3>1. files[File(a)] # None /\ files[File(a)] \in Seq(Nat)
      BY <1>3, <2>2 DEF ReadFails
    <3>2. k \in [lines : Nat, stale : BOOLEAN] /\ k.lines = Len(files[File(a)])
      BY <3>1
    <3>3. known' = [known EXCEPT ![a][File(a)] = k]
      BY <2>2 DEF Read
    <3> HIDE DEF k
    <3> QED BY <1>3, <1>5, <3>1, <3>2, <3>3
  <2> QED BY <2>1, <2>2
<1>7. ToolTypes'
  BY <1>4, <1>6 DEF Read, disk, ToolInv, ToolTypes
<1> QED BY <1>1, <1>2, <1>6, <1>7

\* shell starts its command under the number of its call.
LEMMA Spawns ==
  ASSUME ToolInv, NEW a \in Callers, Spawn(a)
  PROVE  /\ ToolTypes' /\ On(a, CallPcs) /\ agent[a].pc = "spawn" /\ agent'[a] \in ActiveCall
         /\ agent'[a].pc = "wait" /\ agent'[a].call = agent[a].call
         /\ agent'[a].id = agent[a].id /\ agent'[a].age = agent[a].age
         /\ \A c \in Callers \ {a} : agent'[c] = agent[c]
         /\ proc'[Id(a)] = [state |-> "attached", left |-> agent[a].call.work,
                            call |-> agent[a].call]
         /\ \A i \in Ids \ {Id(a)} : proc'[i] = proc[i]
         /\ agent[a].call.tool = "shell" /\ agent[a].call.work \in Nat
<1>1. On(a, CallPcs) /\ agent[a].pc = "spawn"
  BY DEF Spawn, On, CallPcs
<1>2. agent[a] \in ActiveCall /\ agent[a].call \in Calls /\ Id(a) \in Ids
  BY <1>1, CallAtHand
<1>3. agent[a].call.tool = "shell" /\ agent[a].call.work \in Nat
  <2>1. agent[a].call.tool = "shell"
    BY <1>1 DEF ToolInv, CallsFit, CallFits, CallPcs
  <2> QED BY <1>2, <2>1, CallAssumption
<1>4. "wait" \in CallPcs /\ agent' = [agent EXCEPT ![a].pc = "wait"]
  BY DEF CallPcs, Spawn
<1>5. /\ agent'[a] \in ActiveCall
      /\ agent'[a].pc = "wait" /\ agent'[a].call = agent[a].call
      /\ agent'[a].id = agent[a].id /\ agent'[a].age = agent[a].age
      /\ \A c \in Callers \ {a} : agent'[c] = agent[c]
      /\ agent' \in [Callers -> ActiveCall \cup {Idle, Dead}]
  BY <1>2, <1>4, CallGoesOn DEF ToolInv
<1> DEFINE p == [state |-> "attached", left |-> agent[a].call.work, call |-> agent[a].call]
<1>6. p \in CommandState
  BY <1>2, <1>3 DEF CommandState
<1>7. proc' = [proc EXCEPT ![Id(a)] = p]
  BY DEF Spawn
<1>8. /\ proc' \in [Ids -> CommandState \cup {None}] /\ proc'[Id(a)] = p
      /\ \A i \in Ids \ {Id(a)} : proc'[i] = proc[i]
  BY <1>2, <1>6, <1>7 DEF ToolInv, ToolTypes
<1>9. ToolTypes'
  BY <1>5, <1>8 DEF Spawn, disk, ToolInv, ToolTypes
<1> QED BY <1>1, <1>3, <1>5, <1>8, <1>9

\* shell returns once its command has exited.
LEMMA ShellEnds ==
  ASSUME ToolInv, NEW a \in Callers, ShellDone(a)
  PROVE  ToolTypes' /\ On(a, CallPcs) /\ agent[a].pc = "wait" /\ Return(a, "ok")
<1>1. On(a, CallPcs) /\ agent[a].pc = "wait" /\ Return(a, "ok")
  BY DEF ShellDone, On, CallPcs
<1>2. /\ agent' \in [Callers -> ActiveCall \cup {Idle, Dead}]
      /\ told' \in [Ids -> {"none", "ok", "error", "timeout"}]
  BY <1>1, CallReturns
<1> QED BY <1>1, <1>2 DEF ShellDone, disk, ToolInv, ToolTypes

\* What is left of a command when its call times out.
LEMMA TimesOut ==
  ASSUME ToolInv, NEW a \in Callers, InnerTimeout(a) \/ OuterTimeout(a)
  PROVE  /\ ToolTypes' /\ On(a, CallPcs) /\ agent[a].pc = "wait" /\ Return(a, "timeout")
         /\ proc[Id(a)] \in CommandState /\ proc[Id(a)].state = "attached"
         /\ proc'[Id(a)] \in CommandState
         /\ proc'[Id(a)].call = proc[Id(a)].call /\ proc'[Id(a)].state \in {"loose", "dead"}
         /\ proc[Id(a)].call = agent[a].call /\ proc'[Id(a)].call.tool = "shell"
         /\ \A i \in Ids \ {Id(a)} : proc'[i] = proc[i]
         /\ \/ proc'[Id(a)].state = "dead" /\ agent[a].age >= Limit(agent[a].call)
            \/ agent[a].call.forks /\ agent[a].age >= Limit(agent[a].call)
            \/ agent[a].age >= OuterLimit
         /\ UNCHANGED <<disk, boot, seeding, made, crashes, late, known, panics>>
<1>1. On(a, CallPcs) /\ agent[a].pc = "wait" /\ Return(a, "timeout")
  BY DEF InnerTimeout, OuterTimeout, Waits, On, CallPcs
<1>2. Id(a) \in Ids
  BY <1>1, CallAtHand
<1>3. proc[Id(a)].state = "attached"
  BY DEF InnerTimeout, OuterTimeout, Waits
<1>4. /\ proc[Id(a)] \in CommandState /\ proc[Id(a)].call = agent[a].call
      /\ agent[a].call.tool = "shell"
  BY <1>1 DEF ToolInv, ReportsFit, WaitFits, CallsFit, CallFits, CallPcs, Id
<1>5. PICK st \in {"loose", "dead"} : proc' = [proc EXCEPT ![Id(a)].state = st]
  BY DEF InnerTimeout, OuterTimeout
<1>6. /\ proc' \in [Ids -> CommandState \cup {None}] /\ proc'[Id(a)] \in CommandState
      /\ proc'[Id(a)].call = proc[Id(a)].call /\ proc'[Id(a)].state = st
      /\ \A i \in Ids \ {Id(a)} : proc'[i] = proc[i]
  <2> PICK p : p = [proc[Id(a)] EXCEPT !.state = st]
    OBVIOUS
  <2>1. p \in CommandState /\ p.call = proc[Id(a)].call /\ p.state = st
    BY <1>4 DEF CommandState
  <2>2. proc' = [proc EXCEPT ![Id(a)] = p]
    BY <1>5
  <2> QED BY <1>2, <2>1, <2>2 DEF ToolInv, ToolTypes
<1>7. /\ agent' \in [Callers -> ActiveCall \cup {Idle, Dead}]
      /\ told' \in [Ids -> {"none", "ok", "error", "timeout"}]
  BY <1>1, CallReturns
<1>8. UNCHANGED <<disk, boot, seeding, made, crashes, late, known, panics>>
  BY DEF InnerTimeout, OuterTimeout
<1>9. \/ proc'[Id(a)].state = "dead" /\ agent[a].age >= Limit(agent[a].call)
      \/ agent[a].call.forks /\ agent[a].age >= Limit(agent[a].call)
      \/ agent[a].age >= OuterLimit
  <2>1. CASE InnerTimeout(a) /\ ~agent[a].call.forks
    <3>1. proc' = [proc EXCEPT ![Id(a)].state = "dead"] /\ agent[a].age >= Limit(agent[a].call)
      BY <2>1 DEF InnerTimeout
    <3> QED BY <1>2, <1>4, <3>1 DEF CommandState, ToolInv, ToolTypes
  <2>2. CASE InnerTimeout(a) /\ agent[a].call.forks
    BY <2>2 DEF InnerTimeout
  <2>3. CASE OuterTimeout(a)
    BY <2>3 DEF OuterTimeout
  <2> QED BY <2>1, <2>2, <2>3
<1>10. ToolTypes'
  BY <1>6, <1>7, <1>8 DEF disk, ToolInv, ToolTypes
<1> QED BY <1>1, <1>3, <1>4, <1>6, <1>8, <1>9, <1>10

\* Time passes for the calls that wait and for the commands that work.
LEMMA Ticks ==
  ASSUME ToolInv, Tick
  PROVE  /\ ToolTypes'
         /\ \A b \in Callers :
              IF agent[b].pc = "wait"
                THEN /\ agent'[b] \in ActiveCall /\ agent'[b].pc = "wait"
                     /\ agent'[b].call = agent[b].call /\ agent'[b].id = agent[b].id
                     /\ agent'[b].age = agent[b].age + 1 /\ agent[b].age \in Nat
                ELSE agent'[b] = agent[b]
         /\ \A i \in Ids :
              IF Alive(i) /\ proc[i].left > 0
                THEN /\ proc[i] \in CommandState /\ proc'[i] \in CommandState
                     /\ proc'[i].state = proc[i].state
                     /\ proc'[i].call = proc[i].call /\ proc'[i].left = proc[i].left - 1
                ELSE proc'[i] = proc[i]
         /\ UNCHANGED <<disk, boot, seeding, made, crashes, told, late, known, panics>>
<1>1. UNCHANGED <<disk, boot, seeding, made, crashes, told, late, known, panics>>
  BY DEF Tick
<1>2. ASSUME NEW b \in Callers
      PROVE  IF agent[b].pc = "wait"
                THEN /\ agent'[b] \in ActiveCall /\ agent'[b].pc = "wait"
                     /\ agent'[b].call = agent[b].call /\ agent'[b].id = agent[b].id
                     /\ agent'[b].age = agent[b].age + 1 /\ agent[b].age \in Nat
                ELSE agent'[b] = agent[b]
  <2>1. CASE agent[b].pc = "wait"
    <3>1. agent[b] \in ActiveCall
      BY <2>1, CallAtHand DEF On, CallPcs
    <3>2. agent'[b] = [agent[b] EXCEPT !.age = agent[b].age + 1]
      BY <2>1 DEF Tick, On
    <3> QED BY <2>1, <3>1, <3>2 DEF ActiveCall
  <2>2. CASE agent[b].pc # "wait"
    BY <2>2 DEF Tick, On
  <2> QED BY <2>1, <2>2
<1>3. agent' \in [Callers -> ActiveCall \cup {Idle, Dead}]
  <2>1. \A b \in Callers : agent'[b] \in ActiveCall \cup {Idle, Dead}
    BY <1>2 DEF ToolInv, ToolTypes
  <2>2. agent' = [b \in Callers |-> agent'[b]]
    BY DEF Tick
  <2> QED BY <2>1, <2>2
<1>4. ASSUME NEW i \in Ids
      PROVE  IF Alive(i) /\ proc[i].left > 0
                THEN /\ proc[i] \in CommandState /\ proc'[i] \in CommandState
                     /\ proc'[i].state = proc[i].state
                     /\ proc'[i].call = proc[i].call /\ proc'[i].left = proc[i].left - 1
                ELSE proc'[i] = proc[i]
  <2>1. CASE Alive(i) /\ proc[i].left > 0
    <3>1. proc[i] \in CommandState
      BY <2>1 DEF Alive, ToolInv, ToolTypes
    <3>2. proc'[i] = [proc[i] EXCEPT !.left = proc[i].left - 1]
      BY <2>1 DEF Tick
    <3>3. proc[i].left - 1 \in Nat
      BY <2>1, <3>1 DEF CommandState
    <3> QED BY <2>1, <3>1, <3>2, <3>3 DEF CommandState
  <2>2. CASE ~(Alive(i) /\ proc[i].left > 0)
    BY <2>2 DEF Tick
  <2> QED BY <2>1, <2>2
<1>5. proc' \in [Ids -> CommandState \cup {None}]
  <2>1. \A i \in Ids : proc'[i] \in CommandState \cup {None}
    BY <1>4 DEF ToolInv, ToolTypes
  <2>2. proc' = [i \in Ids |-> proc'[i]]
    BY DEF Tick
  <2> QED BY <2>1, <2>2
<1>6. ToolTypes'
  BY <1>1, <1>3, <1>5 DEF disk, ToolInv, ToolTypes
<1> QED BY <1>1, <1>2, <1>4, <1>6

\* What the end of the program leaves.
LEMMA GoesDown ==
  ASSUME ToolInv, Down
  PROVE  /\ boot' = Seeds /\ seeding' = FALSE /\ (boot' \in Seq(Files))
         /\ agent' = [b \in Callers |-> Idle] /\ known' = Fresh
         /\ kept' \subseteq kept
         /\ \A i \in Ids :
              \/ proc'[i] = proc[i] /\ (proc[i] # None => proc[i].state # "attached")
              \/ /\ proc[i] \in CommandState /\ proc'[i] \in CommandState
                 /\ proc'[i].call = proc[i].call /\ proc'[i].state = "loose"
                 /\ proc[i].state = "attached" /\ proc[i] # None
         /\ proc' \in [Ids -> CommandState \cup {None}]
         /\ known' \in [Callers -> [Files -> [lines : Nat, stale : BOOLEAN]]]
<1>1. /\ boot' = Seeds /\ seeding' = FALSE /\ agent' = [b \in Callers |-> Idle] /\ known' = Fresh
      /\ kept' \subseteq kept
  BY DEF Down
<1>2. boot' \in Seq(Files)
  BY <1>1, SeedAssumption
<1>3. ASSUME NEW i \in Ids
      PROVE   \/ proc'[i] = proc[i] /\ (proc[i] # None => proc[i].state # "attached")
              \/ /\ proc[i] \in CommandState /\ proc'[i] \in CommandState
                 /\ proc'[i].call = proc[i].call /\ proc'[i].state = "loose"
                 /\ proc[i].state = "attached" /\ proc[i] # None
  <2>1. CASE proc[i] # None /\ proc[i].state = "attached"
    <3>1. proc[i] \in CommandState
      BY <2>1 DEF ToolInv, ToolTypes
    <3>2. proc'[i] = [proc[i] EXCEPT !.state = "loose"]
      BY <2>1 DEF Down
    <3> QED BY <2>1, <3>1, <3>2 DEF CommandState
  <2>2. CASE ~(proc[i] # None /\ proc[i].state = "attached")
    BY <2>2 DEF Down
  <2> QED BY <2>1, <2>2
<1>4. proc' \in [Ids -> CommandState \cup {None}]
  <2>1. \A i \in Ids : proc'[i] \in CommandState \cup {None}
    BY <1>3 DEF ToolInv, ToolTypes
  <2>2. proc' = [i \in Ids |-> proc'[i]]
    BY DEF Down
  <2> QED BY <2>1, <2>2
<1>5. known' \in [Callers -> [Files -> [lines : Nat, stale : BOOLEAN]]]
  BY <1>1 DEF Fresh
<1> QED BY <1>1, <1>2, <1>3, <1>4, <1>5

\* The end of the program keeps the types.
LEMMA DownTypes ==
  ASSUME ToolInv, Down
  PROVE  ToolTypes'
<1>1. agent' \in [Callers -> ActiveCall \cup {Idle, Dead}]
  BY GoesDown
<1>2. kept' \subseteq Files \X Nat
  BY GoesDown DEF ToolInv, ToolTypes
<1>3. UNCHANGED <<files, made, told>>
  BY DEF Down
<1> QED BY <1>1, <1>2, <1>3, GoesDown DEF ToolInv, ToolTypes

\* A read that panics keeps the types, whoever called it.
LEMMA ReadPanicTypes ==
  ASSUME ToolInv, NEW a \in Callers, ReadPanic(a)
  PROVE  ToolTypes'
<1>1. CASE a = Chat
  BY <1>1, DownTypes DEF ReadPanic
<1>2. CASE a # Chat
  BY <1>2 DEF ReadPanic, disk, ToolInv, ToolTypes, Dead
<1> QED BY <1>1, <1>2

\* What a command that ends does to its file.
LEMMA CommandWrites ==
  ASSUME ToolInv, NEW i \in Ids, CommandEnds(i)
  PROVE  LET p == proc[i]
             f == p.call.file
         IN /\ ToolTypes'
            /\ p \in CommandState /\ p.state \in {"attached", "loose"} /\ f \in Files
            /\ p.left = 0 /\ ~Stuck(i)
            /\ proc'[i] \in CommandState /\ proc'[i].call = p.call /\ proc'[i].left = 0
            /\ \A j \in Ids \ {i} : proc'[j] = proc[j]
            /\ \A g \in Files \ {f} : files'[g] = files[g]
            /\ UNCHANGED <<torn, blank, boot, seeding, agent, made, crashes, told, panics>>
            /\ \/ proc'[i].state = "dead" /\ UNCHANGED <<files, kept, disturbed, late, known>>
               \/ /\ proc'[i].state = "exited"
                  /\ files'[f] \in Seq(Nat) /\ files'[f] # <<>>
                  /\ Range(files'[f]) = Range(Content(f)) \cup {i}
                  /\ kept' = kept \cup {<<f, i>>}
                  /\ disturbed' = IF Busy(f, None) \/ (seeding /\ f = Head(boot))
                                    THEN disturbed \cup {f} ELSE disturbed
                  /\ late' = (IF told[i] = "timeout" THEN late \cup {i} ELSE late)
                  /\ Stale(f)
<1> DEFINE p == proc[i]
           f == p.call.file
           sigpipe == p.state = "loose" /\ p.call.out + p.call.err > 0
<1>1. /\ p \in CommandState /\ p.state \in {"attached", "loose"} /\ p.left = 0 /\ ~Stuck(i)
  BY DEF CommandEnds, CanEnd, Alive, ToolInv, ToolTypes
<1>2. f \in Files /\ i \in Nat
  BY <1>1, CallAssumption, LimitAssumption DEF CommandState, Ids
<1>3. UNCHANGED <<torn, blank, boot, seeding, agent, made, crashes, told, panics>>
  BY DEF CommandEnds
<1>4. CASE sigpipe
  <2>1. /\ proc' = [proc EXCEPT ![i].state = "dead"]
        /\ UNCHANGED <<files, kept, disturbed, late, known>>
    BY <1>4 DEF CommandEnds
  <2>2. /\ proc' \in [Ids -> CommandState \cup {None}] /\ proc'[i] \in CommandState
        /\ proc'[i].call = p.call /\ proc'[i].left = 0 /\ proc'[i].state = "dead"
        /\ \A j \in Ids \ {i} : proc'[j] = proc[j]
    <3> PICK q : q = [proc[i] EXCEPT !.state = "dead"]
      OBVIOUS
    <3>1. q \in CommandState /\ q.call = p.call /\ q.left = 0 /\ q.state = "dead"
      BY <1>1 DEF CommandState
    <3>2. proc' = [proc EXCEPT ![i] = q]
      BY <2>1
    <3> QED BY <3>1, <3>2 DEF ToolInv, ToolTypes
  <2>3. ToolTypes'
    BY <1>3, <2>1, <2>2 DEF ToolInv, ToolTypes
  <2> QED BY <1>1, <1>2, <1>3, <2>1, <2>2, <2>3
<1>5. CASE ~sigpipe
  <2>1. /\ proc' = [proc EXCEPT ![i].state = "exited"]
        /\ files' = [files EXCEPT ![f] = Append(Content(f), i)]
        /\ kept' = kept \cup {<<f, i>>}
        /\ disturbed' = IF Busy(f, None) \/ (seeding /\ f = Head(boot))
                          THEN disturbed \cup {f} ELSE disturbed
        /\ late' = (IF told[i] = "timeout" THEN late \cup {i} ELSE late)
        /\ Stale(f)
    BY <1>5 DEF CommandEnds
  <2>2. /\ proc' \in [Ids -> CommandState \cup {None}] /\ proc'[i] \in CommandState
        /\ proc'[i].call = p.call /\ proc'[i].left = 0 /\ proc'[i].state = "exited"
        /\ \A j \in Ids \ {i} : proc'[j] = proc[j]
    <3> PICK q : q = [proc[i] EXCEPT !.state = "exited"]
      OBVIOUS
    <3>1. q \in CommandState /\ q.call = p.call /\ q.left = 0 /\ q.state = "exited"
      BY <1>1 DEF CommandState
    <3>2. proc' = [proc EXCEPT ![i] = q]
      BY <2>1
    <3> QED BY <3>1, <3>2 DEF ToolInv, ToolTypes
  <2>3. Content(f) \in Seq(Nat)
    BY <1>2 DEF ToolInv, ToolTypes, Content
  <2> DEFINE c == Append(Content(f), i)
  <2>4. c \in Seq(Nat) /\ c # <<>> /\ Range(c) = Range(Content(f)) \cup {i}
    <3>1. c = Content(f) \o <<i>> /\ <<i>> \in Seq(Nat) /\ Range(<<i>>) = {i}
      BY <1>2, <2>3 DEF Range
    <3>2. c \in Seq(Nat) /\ Range(c) = Range(Content(f)) \cup {i}
      BY <2>3, <3>1, RangeOfJoined
    <3>3. Len(c) = Len(Content(f)) + 1
      BY <1>2, <2>3
    <3> QED BY <2>3, <3>2, <3>3
  <2>5. files' = [files EXCEPT ![f] = c]
    BY <2>1
  <2> HIDE DEF c
  <2>6. /\ files' \in [Files -> Seq(Nat) \cup {None}] /\ files'[f] = c
        /\ \A g \in Files \ {f} : files'[g] = files[g]
    BY <1>2, <2>4, <2>5 DEF ToolInv, ToolTypes
  <2>7. known' \in [Callers -> [Files -> [lines : Nat, stale : BOOLEAN]]]
    BY <1>2, <2>1, StaleType DEF ToolInv
  <2>8. kept' \subseteq Files \X Nat
    BY <1>2, <2>1 DEF ToolInv, ToolTypes
  <2>9. ToolTypes'
    BY <1>3, <2>2, <2>6, <2>7, <2>8 DEF ToolInv, ToolTypes
  <2> QED BY <1>1, <1>2, <1>3, <2>1, <2>2, <2>4, <2>6, <2>9
<1> QED BY <1>4, <1>5

\* Every step keeps every variable in its type.
LEMMA ToolTypesStep ==
  ASSUME ToolInv, [ToolsNext]_toolVars
  PROVE  ToolTypes'
<1>1. CASE Seed \/ SeedWrite \/ SeedFails
  BY <1>1, SeedTypes
<1>2. CASE Tick
  BY <1>2, Ticks
<1>3. CASE Crash
  BY <1>3, DownTypes DEF Crash
<1>4. ASSUME NEW a \in Callers, NEW c \in Calls, Begin(a, c) PROVE ToolTypes'
  BY <1>4, BeginTypes
<1>5. ASSUME NEW a \in Callers, NEW old \in Ids \cup {0}, PatchRead(a, old) PROVE ToolTypes'
  BY <1>5, PatchReads, PatchFails
<1>6. ASSUME NEW a \in Callers,
             \/ AppendRead(a) \/ Truncate(a) \/ Write(a) \/ Read(a) \/ ReadPanic(a)
             \/ Spawn(a) \/ ShellDone(a) \/ InnerTimeout(a) \/ OuterTimeout(a)
             \/ OpenFails(a) \/ (\E n \in 0 .. MaxCalls : WriteFails(a, n))
      PROVE  ToolTypes'
  BY <1>6, AppendReads, Truncates, Writes, OpensFail, WritesFail, Reads, ReadPanicTypes, Spawns, ShellEnds, TimesOut
<1>7. ASSUME NEW i \in Ids, CommandEnds(i) PROVE ToolTypes'
  BY <1>7, CommandWrites
<1>8. CASE UNCHANGED toolVars
  BY <1>8 DEF ToolInv, ToolTypes, toolVars, disk
<1> QED BY <1>1, <1>2, <1>3, <1>4, <1>5, <1>6, <1>7, <1>8 DEF ToolsNext

\* A step that takes at most one agent on, with the call it has.
LEMMA FitGoesOn ==
  ASSUME ToolInv, NEW a \in Callers, On(a, CallPcs),
         CallFits(agent[a])', agent'[a].id = agent[a].id,
         \A b \in Callers \ {a} : agent'[b] = agent[b],
         UNCHANGED <<told, made>>
  PROVE  /\ \A b \in Callers : CallFits(agent[b])'
         /\ \A b, c \in Callers :
              On(b, CallPcs)' /\ On(c, CallPcs)' /\ b # c => Id(b)' # Id(c)'
<1>1. ASSUME NEW b \in Callers PROVE CallFits(agent[b])'
  BY <1>1 DEF ToolInv, CallsFit, CallFits
<1>2. ASSUME NEW b \in Callers, On(b, CallPcs)' PROVE On(b, CallPcs) /\ Id(b)' = Id(b)
  BY <1>2 DEF On, Id
<1> QED BY <1>1, <1>2 DEF ToolInv, CallsFit

\* A call that returns leaves the others as they are, and its number to the past.
LEMMA FitReturns ==
  ASSUME ToolInv, NEW a \in Callers, On(a, CallPcs), NEW r \in {"ok", "error", "timeout"},
         Return(a, r), UNCHANGED made
  PROVE  /\ \A b \in Callers : CallFits(agent[b])'
         /\ \A b, c \in Callers :
              On(b, CallPcs)' /\ On(c, CallPcs)' /\ b # c => Id(b)' # Id(c)'
         /\ \A b \in Callers : On(b, CallPcs)' => b # a /\ agent'[b] = agent[b]
         /\ \A i \in Ids : i > made => told'[i] = "none"
<1>1. /\ agent'[a] = Idle /\ \A c \in Callers \ {a} : agent'[c] = agent[c]
      /\ \A i \in Ids \ {Id(a)} : told'[i] = told[i]
      /\ Id(a) \in 1 .. made
  BY CallReturns, CallAtHand
<1>2. ASSUME NEW b \in Callers, On(b, CallPcs)'
      PROVE b # a /\ agent'[b] = agent[b] /\ On(b, CallPcs) /\ Id(b)' = Id(b)
  BY <1>1, <1>2 DEF On, Id, Idle, CallPcs
<1>3. ASSUME NEW b \in Callers PROVE CallFits(agent[b])'
  <2>1. CASE agent'[b].pc \in CallPcs
    <3>1. b # a /\ agent'[b] = agent[b] /\ On(b, CallPcs)
      BY <1>2, <2>1 DEF On
    <3>2. Id(b) # Id(a) /\ Id(b) \in Ids
      BY <3>1, CallAtHand DEF ToolInv, CallsFit
    <3>3. told'[agent[b].id] = told[agent[b].id]
      BY <1>1, <3>2 DEF Id
    <3> QED BY <2>1, <3>1, <3>3 DEF ToolInv, CallsFit, CallFits
  <2> QED BY <2>1 DEF CallFits
<1>4. \A i \in Ids : i > made => told'[i] = "none"
  <2>1. ASSUME NEW i \in Ids, i > made PROVE i # Id(a)
    BY <1>1, <2>1, LimitAssumption DEF Ids, ToolInv, ToolTypes
  <2> QED BY <1>1, <2>1 DEF ToolInv, CallsFit
<1> QED BY <1>2, <1>3, <1>4 DEF ToolInv, CallsFit

\* Nobody starts to write, and no file goes away.
LEMMA OpenFilesStay ==
  ASSUME ToolInv,
         \A b \in Callers : On(b, {"write"})' => On(b, {"write"}) /\ agent'[b].call = agent[b].call,
         \A f \in Files : files[f] # None => files'[f] # None
  PROVE  \A b \in Callers : On(b, {"write"})' => files'[File(b)'] # None
<1> SUFFICES ASSUME NEW b \in Callers, On(b, {"write"})'
             PROVE  files'[File(b)'] # None
  OBVIOUS
<1>1. On(b, {"write"}) /\ File(b)' = File(b)
  BY DEF File
<1>2. File(b) \in Files
  BY <1>1, CallAtHand DEF On, CallPcs
<1> QED BY <1>1, <1>2 DEF ToolInv, CallsFit

\* A call that goes on keeps its number and its tool.
LEMMA CallsFitGoesOn ==
  ASSUME ToolInv, NEW a \in Callers, AppendRead(a) \/ Truncate(a) \/ Spawn(a)
  PROVE  CallsFit'
<1>1. /\ On(a, CallPcs) /\ agent'[a] \in ActiveCall /\ agent'[a].id = agent[a].id
      /\ agent'[a].call = agent[a].call
      /\ \A b \in Callers \ {a} : agent'[b] = agent[b]
      /\ UNCHANGED <<told, made>>
  <2>1. UNCHANGED <<told, made>>
    BY DEF AppendRead, Truncate, Spawn
  <2>2. CASE AppendRead(a)
    BY <2>1, <2>2, AppendReads
  <2>3. CASE Truncate(a)
    BY <2>1, <2>3, Truncates
  <2>4. CASE Spawn(a)
    BY <2>1, <2>4, Spawns
  <2> QED BY <2>2, <2>3, <2>4
<1>2. CallFits(agent[a])'
  <2>1. CallFits(agent[a])
    BY DEF ToolInv, CallsFit
  <2>2. CASE AppendRead(a)
    <3>1. agent[a].id \in Range(agent'[a].buf) /\ agent'[a].pc = "truncate" /\ agent[a].pc = "append"
      BY <2>2, AppendReads DEF Id
    <3>2. agent[a].call.tool # "shell"
      BY <2>1, <3>1, <1>1, CallAtHand, EntryType DEF CallFits, CallPcs
    <3> QED BY <1>1, <2>1, <3>1, <3>2 DEF CallFits, CallPcs
  <2>3. CASE Truncate(a)
    BY <1>1, <2>1, <2>3, Truncates DEF CallFits, CallPcs
  <2>4. CASE Spawn(a)
    BY <1>1, <2>1, <2>4, Spawns DEF CallFits, CallPcs
  <2> QED BY <2>2, <2>3, <2>4
<1>3. \A b \in Callers : On(b, {"write"})' => files'[File(b)'] # None
  <2>1. CASE AppendRead(a) \/ Spawn(a)
    <3>0. agent'[a].pc # "write"
      BY <2>1, AppendReads, Spawns
    <3>1. \A b \in Callers : On(b, {"write"})' => On(b, {"write"}) /\ agent'[b].call = agent[b].call
      BY <1>1, <3>0 DEF On
    <3> QED BY <2>1, <3>1, OpenFilesStay DEF AppendRead, Spawn, disk
  <2>2. CASE Truncate(a)
    <3>1. /\ files'[File(a)] # None /\ \A f \in Files \ {File(a)} : files'[f] = files[f]
          /\ File(a)' = File(a)
      <4>1. <<>> \in Seq(Nat)
        OBVIOUS
      <4>2. <<>> # None
        BY <4>1, NoneAssumption
      <4>3. files'[File(a)] = <<>> /\ \A f \in Files \ {File(a)} : files'[f] = files[f]
        BY <2>2, Truncates
      <4>4. File(a)' = File(a)
        BY <1>1 DEF File
      <4> QED BY <4>2, <4>3, <4>4
    <3>2. ASSUME NEW b \in Callers \ {a}, On(b, {"write"})' PROVE files'[File(b)'] # None
      <4>1. On(b, {"write"}) /\ File(b)' = File(b) /\ File(b) \in Files
        BY <1>1, <3>2, CallAtHand DEF On, File, CallPcs
      <4>2. files[File(b)] # None
        BY <4>1 DEF ToolInv, CallsFit
      <4> QED BY <3>1, <4>1, <4>2
    <3> QED BY <3>1, <3>2
  <2> QED BY <2>1, <2>2
<1>4. ASSUME NEW i \in Ids
      PROVE  /\ proc'[i] # None => i <= made' /\ proc'[i].call.tool = "shell"
             /\ i > made' => told'[i] = "none"
  <2>1. CASE AppendRead(a) \/ Truncate(a)
    BY <2>1 DEF AppendRead, Truncate, ToolInv, CallsFit
  <2>2. CASE Spawn(a)
    <3>1. Id(a) \in 1 .. made /\ made \in Nat
      BY <1>1, CallAtHand, LimitAssumption DEF ToolInv, ToolTypes
    <3>2. proc'[Id(a)].call.tool = "shell" /\ \A j \in Ids \ {Id(a)} : proc'[j] = proc[j]
      <4>1. /\ proc'[Id(a)] = [state |-> "attached", left |-> agent[a].call.work,
                               call |-> agent[a].call]
            /\ agent[a].call.tool = "shell"
            /\ \A j \in Ids \ {Id(a)} : proc'[j] = proc[j]
        BY <2>2, Spawns
      <4>2. proc'[Id(a)].call = agent[a].call
        BY <4>1
      <4> QED BY <4>1, <4>2
    <3>3. made' = made /\ told' = told
      BY <1>1
    <3>4. CASE i = Id(a)
      BY <3>1, <3>2, <3>3, <3>4, LimitAssumption DEF Ids
    <3>5. CASE i # Id(a)
      BY <3>2, <3>3, <3>5 DEF ToolInv, CallsFit
    <3> QED BY <3>4, <3>5
  <2> QED BY <2>1, <2>2
<1> QED BY <1>1, <1>2, <1>3, <1>4, FitGoesOn DEF CallsFit

\* A call that returns leaves the calls in order.
LEMMA CallsFitReturns ==
  ASSUME ToolInv, NEW a \in Callers,
         \/ Write(a) \/ Read(a) \/ ShellDone(a) \/ InnerTimeout(a) \/ OuterTimeout(a)
         \/ OpenFails(a) \/ \E n \in 0 .. MaxCalls : WriteFails(a, n)
  PROVE  CallsFit'
<1>1. PICK r \in {"ok", "error", "timeout"} : On(a, CallPcs) /\ Return(a, r)
  BY Writes, OpensFail, WritesFail, Reads, ShellEnds, TimesOut
<1>2. made' = made
  BY TimesOut, OpensFail DEF Write, WriteFails, Read, ShellDone
<1>3. /\ \A b \in Callers : CallFits(agent[b])'
      /\ \A b, c \in Callers :
           On(b, CallPcs)' /\ On(c, CallPcs)' /\ b # c => Id(b)' # Id(c)'
      /\ \A b \in Callers : On(b, CallPcs)' => b # a /\ agent'[b] = agent[b]
      /\ \A i \in Ids : i > made => told'[i] = "none"
  BY <1>1, <1>2, FitReturns
<1>4. \A b \in Callers : On(b, {"write"})' => files'[File(b)'] # None
  <2>1. \A f \in Files : files[f] # None => files'[f] # None
    <3>1. CASE Write(a)
      BY <3>1, Writes, NoneAssumption
    <3>2. CASE \E n \in 0 .. MaxCalls : WriteFails(a, n)
      BY <3>2, WritesFail, NoneAssumption
    <3>3. CASE ~Write(a) /\ ~\E n \in 0 .. MaxCalls : WriteFails(a, n)
      BY <3>3, TimesOut, OpensFail DEF Read, ShellDone, disk
    <3> QED BY <3>1, <3>2, <3>3
  <2>2. \A b \in Callers : On(b, {"write"})' => On(b, {"write"}) /\ agent'[b].call = agent[b].call
    BY <1>3 DEF On, CallPcs
  <2> QED BY <2>1, <2>2, OpenFilesStay
<1>5. ASSUME NEW i \in Ids, proc'[i] # None PROVE  i <= made /\ proc'[i].call.tool = "shell"
  <2>1. CASE \/ Write(a) \/ Read(a) \/ ShellDone(a) \/ OpenFails(a)
             \/ \E n \in 0 .. MaxCalls : WriteFails(a, n)
    <3>1. proc' = proc
      BY <2>1, OpensFail DEF Write, WriteFails, Read, ShellDone
    <3> QED BY <1>5, <3>1 DEF ToolInv, CallsFit
  <2>2. CASE InnerTimeout(a) \/ OuterTimeout(a)
    <3>1. /\ On(a, CallPcs) /\ proc'[Id(a)].call.tool = "shell"
          /\ \A j \in Ids \ {Id(a)} : proc'[j] = proc[j]
      BY <2>2, TimesOut
    <3>2. Id(a) <= made
      BY <3>1, CallAtHand, LimitAssumption DEF ToolInv, ToolTypes
    <3> QED BY <1>5, <3>1, <3>2 DEF ToolInv, CallsFit
  <2> QED BY <2>1, <2>2
<1> QED BY <1>2, <1>3, <1>4, <1>5 DEF CallsFit

\* So does apply_patch, whether it finds what it looks for or not.
LEMMA CallsFitPatch ==
  ASSUME ToolInv, NEW a \in Callers, NEW old \in Ids \cup {0}, PatchRead(a, old)
  PROVE  CallsFit'
<1>1. UNCHANGED <<files, proc, made>>
  BY DEF PatchRead
<1>2. \A i \in Ids : proc'[i] # None => i <= made' /\ proc'[i].call.tool = "shell"
  BY <1>1 DEF ToolInv, CallsFit
<1>3. CASE old \in Range(Content(File(a)))
  <2>1. /\ On(a, CallPcs) /\ agent[a].pc = "patch" /\ agent'[a].id = agent[a].id
        /\ agent'[a].pc = "truncate" /\ agent'[a].call = agent[a].call
        /\ WritesNothing(agent[a].call) \/ agent[a].id \in Range(agent'[a].buf)
        /\ \A b \in Callers \ {a} : agent'[b] = agent[b]
    BY <1>3, PatchReads DEF Id
  <2>2. UNCHANGED told
    BY <1>3 DEF PatchRead
  <2>3. CallFits(agent[a])'
    BY <1>1, <2>1, <2>2 DEF ToolInv, CallsFit, CallFits, CallPcs
  <2>4. \A b \in Callers : On(b, {"write"})' => files'[File(b)'] # None
    <3>1. \A b \in Callers : On(b, {"write"})' => On(b, {"write"}) /\ agent'[b].call = agent[b].call
      BY <2>1 DEF On
    <3> QED BY <1>1, <3>1, OpenFilesStay
  <2>5. \A i \in Ids : i > made' => told'[i] = "none"
    BY <1>1, <2>2 DEF ToolInv, CallsFit
  <2> QED BY <1>1, <1>2, <2>1, <2>2, <2>3, <2>4, <2>5, FitGoesOn DEF CallsFit
<1>4. CASE old \notin Range(Content(File(a)))
  <2>1. On(a, CallPcs) /\ Return(a, "error")
    BY <1>4, PatchFails
  <2>2. /\ \A b \in Callers : CallFits(agent[b])'
        /\ \A b, c \in Callers :
             On(b, CallPcs)' /\ On(c, CallPcs)' /\ b # c => Id(b)' # Id(c)'
        /\ \A b \in Callers : On(b, CallPcs)' => b # a /\ agent'[b] = agent[b]
        /\ \A i \in Ids : i > made => told'[i] = "none"
    BY <1>1, <2>1, FitReturns
  <2>3. \A b \in Callers : On(b, {"write"})' => files'[File(b)'] # None
    <3>1. \A b \in Callers : On(b, {"write"})' => On(b, {"write"}) /\ agent'[b].call = agent[b].call
      BY <2>2 DEF On, CallPcs
    <3> QED BY <1>1, <3>1, OpenFilesStay
  <2> QED BY <1>1, <1>2, <2>2, <2>3 DEF CallsFit
<1> QED BY <1>3, <1>4

\* So does a call that begins.
LEMMA CallsFitBegin ==
  ASSUME ToolInv, NEW a \in Callers, NEW c \in Calls, Begin(a, c)
  PROVE  CallsFit'
<1>1. /\ made \in Nat /\ made + 1 \in Ids /\ made' = made + 1
      /\ Entry(c) # "refused" =>
              agent'[a] = Started(c, made + 1)
      /\ \A b \in Callers \ {a} : agent'[b] = agent[b]
  BY BeginTypes
<1>2. /\ Entry(c) = "refused" => agent' = agent /\ \A i \in Ids \ {made + 1} : told'[i] = told[i]
      /\ Entry(c) # "refused" => told' = told
      /\ UNCHANGED <<files, proc>> /\ agent[a].pc = "idle"
  BY DEF Begin, disk, On, ToolInv, ToolTypes
<1>3. \A i \in Ids : i # made + 1 => told'[i] = told[i]
  BY <1>2
<1>4. ASSUME NEW b \in Callers, On(b, CallPcs)'
      PROVE  \/ b # a /\ agent'[b] = agent[b] /\ On(b, CallPcs) /\ Id(b) \in 1 .. made
             \/ b = a /\ Entry(c) # "refused" /\ Id(b)' = made + 1
  <2>1. CASE b = a
    <3>1. Entry(c) # "refused"
      BY <1>2, <1>4, <2>1 DEF On, CallPcs
    <3> QED BY <1>1, <2>1, <3>1 DEF Id, Started
  <2>2. CASE b # a
    <3>1. agent'[b] = agent[b] /\ On(b, CallPcs)
      BY <1>1, <1>4, <2>2 DEF On
    <3> QED BY <2>2, <3>1, CallAtHand
  <2> QED BY <2>1, <2>2
<1>5. ASSUME NEW b \in Callers, On(b, CallPcs)' PROVE CallFits(agent[b])'
  <2>1. CASE b # a
    <3>1. agent'[b] = agent[b] /\ On(b, CallPcs) /\ agent[b].id \in 1 .. made
      BY <1>4, <1>5, <2>1 DEF Id
    <3>2. agent[b].id \in 1 .. made' /\ told'[agent[b].id] = told[agent[b].id]
      <4>1. agent[b].id \in Ids /\ agent[b].id # made + 1
        BY <1>1, <3>1, LimitAssumption DEF Ids, ToolInv, ToolTypes
      <4> QED BY <1>1, <1>3, <3>1, <4>1
    <3> QED BY <3>1, <3>2 DEF ToolInv, CallsFit, CallFits, On
  <2>2. CASE b = a
    <3>1. Entry(c) # "refused"
      BY <1>4, <1>5, <2>2
    <3>2. /\ agent'[a].pc = Entry(c) /\ agent'[a].call = c /\ agent'[a].id = made + 1
          /\ WritesNothing(c) \/ agent'[a].buf = <<made + 1>>
      BY <1>1, <3>1 DEF Started
    <3>3. told'[made + 1] = "none"
      BY <1>1, <1>2, <3>1 DEF ToolInv, CallsFit
    <3>4. made + 1 \in 1 .. made'
      BY <1>1
    <3>5. WritesNothing(c) \/ made + 1 \in Range(agent'[a].buf)
      BY <3>2 DEF Range
    <3> QED BY <2>2, <3>2, <3>3, <3>4, <3>5, EntryType DEF CallFits
  <2> QED BY <2>1, <2>2
<1>6. ASSUME NEW b \in Callers, NEW d \in Callers, On(b, CallPcs)', On(d, CallPcs)', b # d
      PROVE  Id(b)' # Id(d)'
  <2>1. ASSUME NEW e \in Callers, On(e, CallPcs)', e # a
        PROVE  Id(e)' = Id(e) /\ Id(e) \in 1 .. made /\ On(e, CallPcs)
    BY <1>4, <2>1 DEF Id
  <2>2. CASE b # a /\ d # a
    BY <1>6, <2>1, <2>2 DEF ToolInv, CallsFit
  <2>3. CASE b = a \/ d = a
    BY <1>1, <1>4, <1>6, <2>1, <2>3
  <2> QED BY <2>2, <2>3
<1>7. \A b \in Callers : On(b, {"write"})' => files'[File(b)'] # None
  <2>1. ASSUME NEW b \in Callers, On(b, {"write"})'
        PROVE  On(b, {"write"}) /\ agent'[b].call = agent[b].call
    <3>1. CASE b # a
      BY <1>1, <2>1, <3>1 DEF On
    <3>2. CASE b = a
      BY <1>1, <1>2, <2>1, <3>2, EntryType DEF On, Started
    <3> QED BY <3>1, <3>2
  <2> QED BY <1>2, <2>1, OpenFilesStay
<1>8. ASSUME NEW i \in Ids
      PROVE  /\ proc'[i] # None => i <= made' /\ proc'[i].call.tool = "shell"
             /\ i > made' => told'[i] = "none"
  <2>1. i \in Nat
    BY LimitAssumption DEF Ids
  <2>2. proc'[i] # None => i <= made /\ proc'[i].call.tool = "shell"
    BY <1>2 DEF ToolInv, CallsFit
  <2>3. i > made' => i > made /\ i # made + 1
    BY <1>1, <2>1
  <2> QED BY <1>1, <1>3, <2>1, <2>2, <2>3 DEF ToolInv, CallsFit
<1> QED BY <1>5, <1>6, <1>7, <1>8 DEF CallsFit, CallFits, On

\* What nobody's call changes.
LEMMA CallsFitElse ==
  ASSUME ToolInv,
         \/ Seed \/ SeedWrite \/ SeedFails \/ Tick \/ Crash \/ UNCHANGED toolVars
         \/ \E a \in Callers : ReadPanic(a)
         \/ \E i \in Ids : CommandEnds(i)
  PROVE  CallsFit'
<1>1. UNCHANGED <<told, made>>
  <2>1. Down => UNCHANGED <<told, made>>
    BY DEF Down
  <2> QED BY <2>1 DEF Seed, SeedWrite, SeedFails, Tick, Crash, toolVars, disk, ReadPanic, CommandEnds
<1>2. ASSUME NEW b \in Callers
      PROVE  /\ On(b, CallPcs)' => /\ On(b, CallPcs) /\ agent'[b].pc = agent[b].pc
                                   /\ agent'[b].id = agent[b].id /\ agent'[b].call = agent[b].call
             /\ On(b, {"truncate", "write"})' => agent'[b].buf = agent[b].buf
  <2>1. CASE agent' = agent
    BY <2>1 DEF On
  <2>2. CASE Tick
    BY <2>2, Ticks DEF On
  <2>3. CASE Down
    BY <2>3, GoesDown DEF On, Idle, CallPcs
  <2>4. ASSUME NEW a \in Callers, ReadPanic(a), a # Chat
        PROVE  /\ On(b, CallPcs)' => /\ On(b, CallPcs) /\ agent'[b].pc = agent[b].pc
                                     /\ agent'[b].id = agent[b].id
                                     /\ agent'[b].call = agent[b].call
               /\ On(b, {"truncate", "write"})' => agent'[b].buf = agent[b].buf
    <3>1. agent' = [agent EXCEPT ![a] = [pc |-> "dead"]]
      BY <2>4 DEF ReadPanic
    <3>2. agent'[a].pc = "dead" /\ (b # a => agent'[b] = agent[b])
      BY <3>1 DEF ToolInv, ToolTypes
    <3> QED BY <3>2 DEF On, CallPcs
  <2> QED BY <2>1, <2>2, <2>3, <2>4 DEF Seed, SeedWrite, SeedFails, Crash, toolVars, disk, ReadPanic,
                                        CommandEnds
<1>3. ASSUME NEW b \in Callers PROVE CallFits(agent[b])'
  <2>1. CASE On(b, CallPcs)'
    <3>1. CallFits(agent[b])
      BY DEF ToolInv, CallsFit
    <3> QED BY <1>1, <1>2, <2>1, <3>1 DEF CallFits, On
  <2>2. CASE ~On(b, CallPcs)'
    BY <2>2 DEF CallFits, On
  <2> QED BY <2>1, <2>2
<1>4. \A b, c \in Callers : On(b, CallPcs)' /\ On(c, CallPcs)' /\ b # c => Id(b)' # Id(c)'
  <2>1. \A b \in Callers : On(b, CallPcs)' => On(b, CallPcs) /\ Id(b)' = Id(b)
    BY <1>2 DEF Id
  <2> QED BY <2>1 DEF ToolInv, CallsFit
<1>5. \A f \in Files : files[f] # None => files'[f] # None
  <2>1. CASE files' = files
    BY <2>1
  <2>2. CASE Seed \/ SeedWrite \/ SeedFails
    BY <2>2, SeedTypes
  <2>3. ASSUME NEW i \in Ids, CommandEnds(i)
        PROVE  \A f \in Files : files[f] # None => files'[f] # None
    BY <2>3, CommandWrites, NoneAssumption
  <2> QED BY <2>1, <2>2, <2>3, Ticks, GoesDown DEF Down, Crash, toolVars, disk, ReadPanic
<1>6. \A b \in Callers : On(b, {"write"})' => files'[File(b)'] # None
  <2>1. \A b \in Callers : On(b, {"write"})' => On(b, {"write"}) /\ agent'[b].call = agent[b].call
    BY <1>2 DEF On, CallPcs
  <2> QED BY <1>5, <2>1, OpenFilesStay
<1>7. ASSUME NEW i \in Ids, proc'[i] # None PROVE proc[i] # None /\ proc'[i].call = proc[i].call
  <2>1. CASE proc' = proc
    BY <1>7, <2>1
  <2>2. CASE Tick
    BY <1>7, <2>2, Ticks DEF Alive
  <2>3. CASE Down
    BY <1>7, <2>3, GoesDown
  <2>4. ASSUME NEW j \in Ids, CommandEnds(j) PROVE proc[i] # None /\ proc'[i].call = proc[i].call
    BY <1>7, <2>4, CommandWrites DEF CommandEnds, CanEnd, Alive
  <2> QED BY <2>1, <2>2, <2>3, <2>4 DEF Seed, SeedWrite, SeedFails, Crash, toolVars, disk, ReadPanic
<1>8. \A i \in Ids : /\ proc'[i] # None => i <= made' /\ proc'[i].call.tool = "shell"
                     /\ i > made' => told'[i] = "none"
  BY <1>1, <1>7 DEF ToolInv, CallsFit
<1> QED BY <1>3, <1>4, <1>6, <1>8 DEF CallsFit

\* No call takes a file away.
LEMMA FilesStay ==
  ASSUME ToolInv, [ToolsNext]_toolVars
  PROVE  \A f \in Files : files[f] # None => files'[f] # None
<1>1. CASE Seed \/ SeedWrite \/ SeedFails
  BY <1>1, SeedTypes
<1>2. ASSUME NEW a \in Callers, Truncate(a)
      PROVE  \A f \in Files : files[f] # None => files'[f] # None
  <2>1. <<>> \in Seq(Nat)
    OBVIOUS
  <2> QED BY <1>2, <2>1, Truncates, NoneAssumption
<1>3. ASSUME NEW a \in Callers, Write(a)
      PROVE  \A f \in Files : files[f] # None => files'[f] # None
  BY <1>3, Writes, NoneAssumption
<1>8. ASSUME NEW a \in Callers, NEW n \in 0 .. MaxCalls, WriteFails(a, n)
      PROVE  \A f \in Files : files[f] # None => files'[f] # None
  BY <1>8, WritesFail, NoneAssumption
<1>4. ASSUME NEW i \in Ids, CommandEnds(i)
      PROVE  \A f \in Files : files[f] # None => files'[f] # None
  BY <1>4, CommandWrites, NoneAssumption
<1>5. ASSUME NEW a \in Callers, ReadPanic(a) PROVE files' = files
  BY <1>5 DEF ReadPanic, Down, disk
<1>6. ASSUME NEW a \in Callers,
             \/ AppendRead(a) \/ OpenFails(a) \/ Read(a) \/ Spawn(a) \/ ShellDone(a) \/ InnerTimeout(a)
             \/ OuterTimeout(a) \/ (\E c \in Calls : Begin(a, c))
             \/ (\E old \in Ids \cup {0} : PatchRead(a, old))
      PROVE  files' = files
  BY <1>6 DEF AppendRead, OpenFails, Read, Spawn, ShellDone, InnerTimeout, OuterTimeout, Begin, PatchRead,
              disk
<1>7. CASE Tick \/ Crash \/ UNCHANGED toolVars
  BY <1>7 DEF Tick, Crash, Down, toolVars, disk
<1> QED BY <1>1, <1>2, <1>3, <1>4, <1>5, <1>6, <1>7, <1>8 DEF ToolsNext

\* Whatever ensure_dirs does, nobody calls anything before it has ended.
LEMMA SeedsFitBoot ==
  ASSUME ToolInv, Seed \/ SeedWrite \/ SeedFails
  PROVE  SeedsFit'
<1>1. /\ boot # <<>> /\ Head(boot) \in Files /\ files \in [Files -> Seq(Nat) \cup {None}]
      /\ UNCHANGED <<agent, kept, disturbed>>
  BY SeedTypes DEF ToolInv, ToolTypes, Seed, SeedWrite, SeedFails, Running
<1>2. \A a \in Callers : agent'[a] = Idle
  BY <1>1 DEF ToolInv, SeedsFit, Running
<1>3. CASE Seed /\ files[Head(boot)] = None
  <2>1. boot' = boot /\ files'[Head(boot)] = <<>>
    BY <1>1, <1>3 DEF Seed
  <2>2. <<>> \in Seq(Nat)
    OBVIOUS
  <2>3. ASSUME NEW p \in kept, p[1] = Head(boot) PROVE p[1] \in disturbed
    <3>1. LineFits(p)
      BY DEF ToolInv, LinesFit
    <3>2. Content(p[1]) = <<>> /\ Range(<<>>) = {}
      BY <1>3, <2>3 DEF Content, Range
    <3>3. \A a \in Callers : ~On(a, {"write"})
      BY <1>1, <1>2 DEF On, Idle
    <3> QED BY <3>1, <3>2, <3>3 DEF LineFits
  <2> QED BY <1>1, <1>2, <2>1, <2>2, <2>3, NoneAssumption DEF SeedsFit
<1>4. CASE ~(Seed /\ files[Head(boot)] = None)
  <2>1. ~seeding'
    BY <1>4 DEF Seed, SeedWrite, SeedFails
  <2> QED BY <1>2, <2>1 DEF SeedsFit
<1> QED BY <1>3, <1>4

\* While ensure_dirs works only time, and commands that a crash has left, go on.
LEMMA SeedsFitStep ==
  ASSUME ToolInv, [ToolsNext]_toolVars
  PROVE  SeedsFit'
<1>1. CASE Seed \/ SeedWrite \/ SeedFails
  BY <1>1, SeedsFitBoot
<1>2. CASE Down
  <2>1. seeding' = FALSE /\ \A a \in Callers : agent'[a] = Idle
    BY <1>2, GoesDown
  <2> QED BY <2>1 DEF SeedsFit
<1>3. CASE UNCHANGED <<boot, seeding>> /\ Running
  BY <1>3 DEF SeedsFit, Running, ToolInv, ToolTypes
<1>4. CASE UNCHANGED <<boot, seeding>> /\ ~Running /\ ~(Seed \/ SeedWrite \/ SeedFails) /\ ~Down
  <2>1. \A a \in Callers : agent[a] = Idle /\ agent[a].pc = "idle"
    BY <1>4 DEF ToolInv, SeedsFit, Idle
  <2>2. \A a \in Callers :
          /\ ~AppendRead(a) /\ ~Truncate(a) /\ ~Write(a) /\ ~Read(a) /\ ~ReadPanic(a)
          /\ ~OpenFails(a) /\ (\A n \in 0 .. MaxCalls : ~WriteFails(a, n))
          /\ ~Spawn(a) /\ ~ShellDone(a) /\ ~InnerTimeout(a) /\ ~OuterTimeout(a)
          /\ (\A old \in Ids \cup {0} : ~PatchRead(a, old)) /\ (\A c \in Calls : ~Begin(a, c))
    BY <1>4, <2>1 DEF AppendRead, Truncate, Write, Read, ReadPanic, OpenFails, WriteFails, Spawn,
         ShellDone, Waits, InnerTimeout, OuterTimeout, PatchRead, Begin, On
  <2>3. CASE Tick
    <3>1. UNCHANGED <<files, kept, disturbed>>
      BY <2>3 DEF Tick, disk
    <3>2. \A a \in Callers : agent'[a] = Idle
      BY <2>1, <2>3 DEF Tick, On
    <3> QED BY <1>4, <3>1, <3>2 DEF ToolInv, SeedsFit
  <2>4. ASSUME NEW i \in Ids, CommandEnds(i) PROVE SeedsFit'
    <3> DEFINE f == proc[i].call.file
    <3>1. agent' = agent
      BY <2>4, CommandWrites
    <3>2. ASSUME seeding
          PROVE  /\ files'[Head(boot)] # None
                 /\ \A p \in kept' : p[1] = Head(boot) => p[1] \in disturbed'
      <4>1. files'[Head(boot)] # None
        <5>1. Head(boot) \in Files
          BY <3>2 DEF ToolInv, ToolTypes
        <5> QED BY <3>2, <5>1, FilesStay DEF ToolInv, SeedsFit
      <4>2. CASE UNCHANGED <<files, kept, disturbed>>
        BY <3>2, <4>1, <4>2 DEF ToolInv, SeedsFit
      <4>3. CASE /\ kept' = kept \cup {<<f, i>>}
                 /\ disturbed' = IF Busy(f, None) \/ (seeding /\ f = Head(boot))
                                   THEN disturbed \cup {f} ELSE disturbed
        <5>1. disturbed \subseteq disturbed' /\ (f = Head(boot) => f \in disturbed')
          BY <3>2, <4>3
        <5>2. \A p \in kept : p[1] = Head(boot) => p[1] \in disturbed
          BY <3>2 DEF ToolInv, SeedsFit
        <5>3. ASSUME NEW p \in kept', p[1] = Head(boot) PROVE p[1] \in disturbed'
          <6>1. CASE p \in kept
            BY <5>1, <5>2, <5>3, <6>1
          <6>2. CASE p = <<f, i>>
            BY <5>1, <5>3, <6>2
          <6> QED BY <4>3, <6>1, <6>2
        <5> QED BY <4>1, <5>3
      <4> QED BY <2>4, <4>2, <4>3, CommandWrites
    <3> QED BY <1>4, <2>1, <3>1, <3>2 DEF SeedsFit
  <2>5. CASE UNCHANGED toolVars
    BY <2>5 DEF toolVars, disk, Running, ToolInv, SeedsFit
  <2> QED BY <1>4, <2>2, <2>3, <2>4, <2>5 DEF ToolsNext, Crash
<1>5. ASSUME NEW a \in Callers,
             \/ AppendRead(a) \/ Truncate(a) \/ Write(a) \/ Read(a) \/ Spawn(a) \/ ShellDone(a)
             \/ OpenFails(a) \/ (\E n \in 0 .. MaxCalls : WriteFails(a, n))
             \/ (\E old \in Ids \cup {0} : PatchRead(a, old)) \/ (\E c \in Calls : Begin(a, c))
      PROVE  UNCHANGED <<boot, seeding>>
  BY <1>5 DEF AppendRead, Truncate, Write, Read, PatchRead, Begin, Spawn, ShellDone, OpenFails,
              WriteFails
<1>6. \A a \in Callers : ReadPanic(a) => Down \/ UNCHANGED <<boot, seeding>>
  BY DEF ReadPanic
<1>7. Tick \/ (\E i \in Ids : CommandEnds(i)) \/ UNCHANGED toolVars => UNCHANGED <<boot, seeding>>
  BY DEF Tick, CommandEnds, toolVars
<1>8. \A a \in Callers : InnerTimeout(a) \/ OuterTimeout(a) => UNCHANGED <<boot, seeding>>
  BY TimesOut
<1> QED BY <1>1, <1>2, <1>3, <1>4, <1>5, <1>6, <1>7, <1>8 DEF ToolsNext, Crash

\* A line of a file that the step does not touch.
LEMMA LineStays ==
  ASSUME ToolInv, NEW p \in kept, disturbed \subseteq disturbed',
         files'[p[1]] = files[p[1]],
         \A b \in Callers : HasRead(agent'[b], p[1]) =>
            HasRead(agent[b], p[1]) /\ agent'[b].buf = agent[b].buf,
         \A b \in Callers : On(b, {"write"}) /\ File(b) = p[1] =>
            agent'[b].pc = "write" /\ agent'[b].call = agent[b].call
  PROVE  LineFits(p)'
<1>1. LineFits(p)
  BY DEF ToolInv, LinesFit
<1>2. CASE p[1] \in disturbed
  BY <1>2 DEF LineFits
<1>3. CASE p[1] \notin disturbed
  <2>1. p[2] \in Range(Content(p[1]))' \/ \E a \in Callers : On(a, {"write"})' /\ File(a)' = p[1]
    <3>1. p[2] \in Range(Content(p[1])) \/ \E a \in Callers : On(a, {"write"}) /\ File(a) = p[1]
      BY <1>1, <1>3 DEF LineFits
    <3>2. Content(p[1])' = Content(p[1])
      BY DEF Content
    <3>3. ASSUME NEW a \in Callers, On(a, {"write"}), File(a) = p[1]
          PROVE  On(a, {"write"})' /\ File(a)' = p[1]
      BY <3>3 DEF On, File
    <3> QED BY <3>1, <3>2, <3>3
  <2>2. \A a \in Callers : HasRead(agent[a], p[1])' => p[2] \in Range(agent'[a].buf)
    BY <1>1, <1>3 DEF LineFits, HasRead
  <2> QED BY <2>1, <2>2 DEF LineFits
<1> QED BY <1>2, <1>3

\* Nobody has f open or in hand but a, unless the step disturbs f.
LEMMA DisturbKnows ==
  ASSUME ToolInv, NEW a, NEW f, Disturb(f, a)
  PROVE  /\ disturbed \subseteq disturbed'
         /\ f \notin disturbed' =>
              \A b \in Callers \ {a} : ~(On(b, {"truncate", "write"}) /\ File(b) = f)
BY DEF Disturb, Busy

\* An append that nobody disturbs takes every line of its file with it.
LEMMA LinesFitAppend ==
  ASSUME ToolInv, NEW a \in Callers, AppendRead(a)
  PROVE  LinesFit'
<1> DEFINE f == File(a)
<1>1. /\ On(a, CallPcs) /\ agent[a].pc = "append" /\ agent'[a].pc = "truncate"
      /\ agent'[a].call = agent[a].call
      /\ Range(agent'[a].buf) = Range(Content(f)) \cup {Id(a)}
      /\ \A c \in Callers \ {a} : agent'[c] = agent[c]
  BY AppendReads
<1>2. UNCHANGED <<files, kept>> /\ Disturb(f, a)
  BY DEF AppendRead
<1>3. ASSUME NEW p \in kept' PROVE LineFits(p)'
  <2>1. p \in kept /\ disturbed \subseteq disturbed'
    BY <1>2, DisturbKnows
  <2>2. CASE p[1] # f
    <3>1. ASSUME NEW b \in Callers, HasRead(agent'[b], p[1])
          PROVE HasRead(agent[b], p[1]) /\ agent'[b].buf = agent[b].buf
      BY <1>1, <2>2, <3>1 DEF HasRead, File
    <3>2. \A b \in Callers : On(b, {"write"}) /\ File(b) = p[1] =>
            agent'[b].pc = "write" /\ agent'[b].call = agent[b].call
      BY <1>1, <2>2 DEF On, File
    <3> QED BY <1>2, <2>1, <3>1, <3>2, LineStays
  <2>3. CASE p[1] = f /\ p[1] \notin disturbed'
    <3>1. \A b \in Callers \ {a} : ~(On(b, {"truncate", "write"}) /\ File(b) = f)
      BY <1>2, <2>3, DisturbKnows
    <3>2. p[2] \in Range(Content(f))
      <4>1. \A b \in Callers : ~(On(b, {"write"}) /\ File(b) = f)
        BY <1>1, <3>1 DEF On
      <4>2. LineFits(p)
        BY <2>1 DEF ToolInv, LinesFit
      <4> QED BY <2>1, <2>3, <4>1, <4>2 DEF LineFits
    <3>3. ASSUME NEW b \in Callers, HasRead(agent[b], p[1])' PROVE p[2] \in Range(agent'[b].buf)
      <4>1. CASE b = a
        BY <1>1, <3>2, <4>1
      <4>2. CASE b # a
        BY <1>1, <2>3, <3>1, <3>3, <4>2 DEF HasRead, On, File
      <4> QED BY <4>1, <4>2
    <3>4. p[2] \in Range(Content(p[1]))'
      BY <1>2, <2>3, <3>2 DEF Content
    <3> QED BY <3>3, <3>4 DEF LineFits
  <2>4. CASE p[1] \in disturbed'
    BY <2>4 DEF LineFits
  <2> QED BY <2>2, <2>3, <2>4
<1> QED BY <1>3 DEF LinesFit

\* So does apply_patch, but for the line it is to replace.
LEMMA LinesFitPatch ==
  ASSUME ToolInv, NEW a \in Callers, NEW old \in Ids \cup {0}, PatchRead(a, old),
         old \in Range(Content(File(a)))
  PROVE  LinesFit'
<1> DEFINE f == File(a)
<1>1. /\ On(a, CallPcs) /\ agent[a].pc = "patch" /\ agent'[a].pc = "truncate"
      /\ agent'[a].call = agent[a].call
      /\ Range(Content(f)) \ {old} \subseteq Range(agent'[a].buf)
      /\ \A c \in Callers \ {a} : agent'[c] = agent[c]
  BY PatchReads
<1>2. UNCHANGED files /\ kept' = kept \ {<<f, old>>} /\ Disturb(f, a)
  BY DEF PatchRead
<1>3. ASSUME NEW p \in kept' PROVE LineFits(p)'
  <2>1. p \in kept /\ disturbed \subseteq disturbed' /\ p # <<f, old>>
    BY <1>2, DisturbKnows
  <2>2. CASE p[1] # f
    <3>1. ASSUME NEW b \in Callers, HasRead(agent'[b], p[1])
          PROVE HasRead(agent[b], p[1]) /\ agent'[b].buf = agent[b].buf
      BY <1>1, <2>2, <3>1 DEF HasRead, File
    <3>2. \A b \in Callers : On(b, {"write"}) /\ File(b) = p[1] =>
            agent'[b].pc = "write" /\ agent'[b].call = agent[b].call
      BY <1>1, <2>2 DEF On, File
    <3> QED BY <1>2, <2>1, <3>1, <3>2, LineStays
  <2>3. CASE p[1] = f /\ p[1] \notin disturbed'
    <3>1. \A b \in Callers \ {a} : ~(On(b, {"truncate", "write"}) /\ File(b) = f)
      BY <1>2, <2>3, DisturbKnows
    <3>2. p[2] \in Range(Content(f)) /\ p[2] # old
      <4>1. \A b \in Callers : ~(On(b, {"write"}) /\ File(b) = f)
        BY <1>1, <3>1 DEF On
      <4>2. LineFits(p)
        BY <2>1 DEF ToolInv, LinesFit
      <4>3. p = <<p[1], p[2]>>
        BY <2>1 DEF ToolInv, ToolTypes
      <4> QED BY <2>1, <2>3, <4>1, <4>2, <4>3 DEF LineFits
    <3>3. ASSUME NEW b \in Callers, HasRead(agent[b], p[1])' PROVE p[2] \in Range(agent'[b].buf)
      <4>1. CASE b = a
        BY <1>1, <3>2, <4>1
      <4>2. CASE b # a
        BY <1>1, <2>3, <3>1, <3>3, <4>2 DEF HasRead, On, File
      <4> QED BY <4>1, <4>2
    <3>4. p[2] \in Range(Content(p[1]))'
      BY <1>2, <2>3, <3>2 DEF Content
    <3> QED BY <3>3, <3>4 DEF LineFits
  <2>4. CASE p[1] \in disturbed'
    BY <2>4 DEF LineFits
  <2> QED BY <2>2, <2>3, <2>4
<1> QED BY <1>3 DEF LinesFit

\* Who empties a file without replacing it has all its lines in hand.
LEMMA LinesFitTruncate ==
  ASSUME ToolInv, NEW a \in Callers, Truncate(a)
  PROVE  LinesFit'
<1> DEFINE f == File(a)
<1>1. /\ agent[a].pc = "truncate" /\ agent'[a].pc = "write"
      /\ agent'[a].call = agent[a].call /\ agent'[a].buf = agent[a].buf
      /\ \A c \in Callers \ {a} : agent'[c] = agent[c]
      /\ \A g \in Files \ {f} : files'[g] = files[g]
  BY Truncates
<1>2. /\ kept' = IF Entry(agent[a].call) = "truncate" THEN {p \in kept : p[1] # f} ELSE kept
      /\ Disturb(f, a)
  BY DEF Truncate
<1>3. ASSUME NEW p \in kept' PROVE LineFits(p)'
  <2>1. p \in kept /\ disturbed \subseteq disturbed' /\ p[1] \in Files
    BY <1>2, DisturbKnows DEF ToolInv, ToolTypes
  <2>2. CASE p[1] # f
    <3>1. ASSUME NEW b \in Callers, HasRead(agent'[b], p[1])
          PROVE HasRead(agent[b], p[1]) /\ agent'[b].buf = agent[b].buf
      BY <1>1, <2>2, <3>1 DEF HasRead, File
    <3>2. \A b \in Callers : On(b, {"write"}) /\ File(b) = p[1] =>
            agent'[b].pc = "write" /\ agent'[b].call = agent[b].call
      BY <1>1, <2>2 DEF On, File
    <3>3. files'[p[1]] = files[p[1]]
      BY <1>1, <2>1, <2>2
    <3> QED BY <2>1, <3>1, <3>2, <3>3, LineStays
  <2>3. CASE p[1] = f /\ p[1] \notin disturbed
    <3>1. Entry(agent[a].call) # "truncate"
      BY <1>2, <2>3
    <3>2. \A b \in Callers : HasRead(agent[b], f) => p[2] \in Range(agent[b].buf)
      BY <2>1, <2>3 DEF ToolInv, LinesFit, LineFits
    <3>3. HasRead(agent[a], f)
      BY <1>1, <3>1 DEF HasRead, File
    <3>4. ASSUME NEW b \in Callers, HasRead(agent[b], p[1])' PROVE p[2] \in Range(agent'[b].buf)
      <4>1. CASE b = a
        BY <1>1, <3>2, <3>3, <4>1
      <4>2. CASE b # a
        BY <1>1, <2>3, <3>2, <3>4, <4>2 DEF HasRead
      <4> QED BY <4>1, <4>2
    <3>5. On(a, {"write"})' /\ File(a)' = p[1]
      BY <1>1, <2>3 DEF On, File
    <3> QED BY <3>4, <3>5 DEF LineFits
  <2>4. CASE p[1] \in disturbed
    BY <2>1, <2>4 DEF LineFits
  <2> QED BY <2>2, <2>3, <2>4
<1> QED BY <1>3 DEF LinesFit

\* A write puts the lines in hand back, and nobody else has the file open unless
\* the write disturbs it.
LEMMA LinesFitWrite ==
  ASSUME ToolInv, NEW a \in Callers, Write(a)
  PROVE  LinesFit'
<1> DEFINE f == File(a)
<1>1. /\ On(a, CallPcs) /\ agent[a].pc = "write" /\ agent'[a] = Idle
      /\ \A c \in Callers \ {a} : agent'[c] = agent[c]
      /\ files'[f] \in Seq(Nat) /\ Range(agent[a].buf) \subseteq Range(files'[f])
      /\ \A g \in Files \ {f} : files'[g] = files[g]
  BY Writes, CallReturns
<1>2. /\ kept' = IF WritesNothing(agent[a].call) THEN kept ELSE kept \cup {<<f, Id(a)>>}
      /\ Disturb(f, a)
  BY DEF Write
<1>3. f \in Files /\ (WritesNothing(agent[a].call) \/ Id(a) \in Range(agent[a].buf))
  BY <1>1, CallAtHand DEF ToolInv, CallsFit, CallFits, CallPcs, Id
<1>4. ASSUME NEW p \in kept' PROVE LineFits(p)'
  <2>1. disturbed \subseteq disturbed' /\ p[1] \in Files
    BY <1>2, <1>3, DisturbKnows DEF ToolInv, ToolTypes
  <2>2. CASE p[1] # f
    <3>0. p \in kept
      BY <1>2, <2>2
    <3>1. ASSUME NEW b \in Callers, HasRead(agent'[b], p[1])
          PROVE HasRead(agent[b], p[1]) /\ agent'[b].buf = agent[b].buf
      BY <1>1, <2>2, <3>1 DEF HasRead, File, Idle
    <3>2. \A b \in Callers : On(b, {"write"}) /\ File(b) = p[1] =>
            agent'[b].pc = "write" /\ agent'[b].call = agent[b].call
      BY <1>1, <2>2 DEF On, File
    <3>3. files'[p[1]] = files[p[1]]
      BY <1>1, <2>1, <2>2
    <3> QED BY <2>1, <3>0, <3>1, <3>2, <3>3, LineStays
  <2>3. CASE p[1] = f /\ p[1] \notin disturbed'
    <3>1. \A b \in Callers \ {a} : ~(On(b, {"truncate", "write"}) /\ File(b) = f)
      BY <1>2, <2>3, DisturbKnows
    <3>2. p[2] \in Range(agent[a].buf)
      <4>1. CASE p = <<f, Id(a)>> /\ ~WritesNothing(agent[a].call)
        BY <1>3, <4>1
      <4>2. CASE p \in kept
        <5>1. HasRead(agent[a], f)
          BY <1>1 DEF HasRead, File
        <5> QED BY <2>1, <2>3, <4>2, <5>1 DEF ToolInv, LinesFit, LineFits
      <4> QED BY <1>2, <4>1, <4>2
    <3>3. ASSUME NEW b \in Callers, HasRead(agent[b], p[1])' PROVE FALSE
      BY <1>1, <2>3, <3>1, <3>3 DEF HasRead, On, File, Idle
    <3>4. p[2] \in Range(Content(p[1]))'
      BY <1>1, <2>3, <3>2, NoneAssumption DEF Content
    <3> QED BY <3>3, <3>4 DEF LineFits
  <2>4. CASE p[1] \in disturbed'
    BY <2>4 DEF LineFits
  <2> QED BY <2>2, <2>3, <2>4
<1> QED BY <1>4 DEF LinesFit

\* A write that fails takes the lines of its file away, and no others.
LEMMA LinesFitFails ==
  ASSUME ToolInv, NEW a \in Callers, NEW n \in 0 .. MaxCalls, WriteFails(a, n)
  PROVE  LinesFit'
<1> DEFINE f == File(a)
<1>1. /\ On(a, CallPcs) /\ agent[a].pc = "write" /\ agent'[a] = Idle
      /\ \A c \in Callers \ {a} : agent'[c] = agent[c]
      /\ \A g \in Files \ {f} : files'[g] = files[g]
  BY WritesFail, CallReturns
<1>2. kept' = {p \in kept : p[1] # f} /\ Disturb(f, a)
  BY DEF WriteFails
<1>3. ASSUME NEW p \in kept' PROVE LineFits(p)'
  <2>1. p \in kept /\ p[1] # f /\ p[1] \in Files /\ disturbed \subseteq disturbed'
    BY <1>2, DisturbKnows DEF ToolInv, ToolTypes
  <2>2. ASSUME NEW b \in Callers, HasRead(agent'[b], p[1])
        PROVE HasRead(agent[b], p[1]) /\ agent'[b].buf = agent[b].buf
    BY <1>1, <2>2 DEF HasRead, Idle
  <2>3. \A b \in Callers : On(b, {"write"}) /\ File(b) = p[1] =>
          agent'[b].pc = "write" /\ agent'[b].call = agent[b].call
    BY <1>1, <2>1 DEF On, File
  <2>4. files'[p[1]] = files[p[1]]
    BY <1>1, <2>1
  <2> QED BY <2>1, <2>2, <2>3, <2>4, LineStays
<1> QED BY <1>3 DEF LinesFit

\* A command appends to what is there, and nobody has the file open unless it
\* disturbs it.
LEMMA LinesFitCommand ==
  ASSUME ToolInv, NEW i \in Ids, CommandEnds(i)
  PROVE  LinesFit'
<1> DEFINE f == proc[i].call.file
<1>1. /\ f \in Files /\ agent' = agent /\ \A g \in Files \ {f} : files'[g] = files[g]
  BY CommandWrites
<1>2. CASE UNCHANGED <<files, kept, disturbed>>
  <2>1. ASSUME NEW p \in kept PROVE LineFits(p)'
    BY <1>1, <1>2, LineStays DEF On
  <2> QED BY <1>2, <2>1 DEF LinesFit
<1>3. CASE /\ files'[f] \in Seq(Nat)
           /\ Range(files'[f]) = Range(Content(f)) \cup {i}
           /\ kept' = kept \cup {<<f, i>>}
           /\ disturbed' = IF Busy(f, None) \/ (seeding /\ f = Head(boot))
                             THEN disturbed \cup {f} ELSE disturbed
  <2>1. ASSUME NEW p \in kept' PROVE LineFits(p)'
    <3>1. disturbed \subseteq disturbed' /\ p[1] \in Files
      BY <1>1, <1>3 DEF ToolInv, ToolTypes
    <3>2. CASE p[1] # f
      <4>1. p \in kept
        BY <1>3, <3>2
      <4>2. files'[p[1]] = files[p[1]]
        BY <1>1, <3>1, <3>2
      <4> QED BY <1>1, <3>1, <4>1, <4>2, LineStays DEF On
    <3>3. CASE p[1] = f /\ p[1] \notin disturbed'
      <4>1. \A b \in Callers : ~(On(b, {"truncate", "write"}) /\ File(b) = f)
        BY <1>3, <3>3, NoneAssumption DEF Busy
      <4>2. p[2] \in Range(files'[f])
        <5>1. CASE p = <<f, i>>
          BY <1>3, <5>1
        <5>2. CASE p \in kept
          <6>1. \A b \in Callers : ~(On(b, {"write"}) /\ File(b) = f)
            BY <4>1 DEF On
          <6>2. LineFits(p)
            BY <5>2 DEF ToolInv, LinesFit
          <6> QED BY <1>3, <3>1, <3>3, <6>1, <6>2 DEF LineFits
        <5> QED BY <1>3, <5>1, <5>2
      <4>3. ASSUME NEW b \in Callers, HasRead(agent[b], p[1])' PROVE FALSE
        BY <1>1, <3>3, <4>1, <4>3 DEF HasRead, On, File
      <4>4. p[2] \in Range(Content(p[1]))'
        BY <1>3, <3>3, <4>2, NoneAssumption DEF Content
      <4> QED BY <4>3, <4>4 DEF LineFits
    <3>4. CASE p[1] \in disturbed'
      BY <3>4 DEF LineFits
    <3> QED BY <3>2, <3>3, <3>4
  <2> QED BY <2>1 DEF LinesFit
<1> QED BY <1>2, <1>3, CommandWrites

\* The end of the program leaves open files truncated, and no other.
LEMMA LinesFitDown ==
  ASSUME ToolInv, Down
  PROVE  LinesFit'
<1>1. /\ \A b \in Callers : agent'[b].pc = "idle"
      /\ UNCHANGED <<files, disturbed>>
      /\ \A p \in kept' : p \in kept /\ \A b \in Callers : ~(On(b, {"write"}) /\ File(b) = p[1])
  BY DEF Down, Idle
<1>2. ASSUME NEW p \in kept' PROVE LineFits(p)'
  <2>1. p \in kept /\ LineFits(p)
    BY <1>1 DEF ToolInv, LinesFit
  <2>2. p[1] \in disturbed' \/ p[2] \in Range(Content(p[1]))'
    BY <1>1, <2>1 DEF LineFits, Content
  <2>3. \A b \in Callers : ~HasRead(agent[b], p[1])'
    BY <1>1 DEF HasRead
  <2> QED BY <2>2, <2>3 DEF LineFits
<1> QED BY <1>2 DEF LinesFit

\* The steps that have nothing to do with what the files hold.
LEMMA LinesFitElse ==
  ASSUME ToolInv, UNCHANGED <<files, kept, disturbed>>,
         \A b \in Callers :
            \/ agent'[b] = agent[b]
            \/ /\ agent[b].pc # "write"
               /\ \/ agent'[b].pc \notin {"truncate", "write"}
                  \/ agent'[b].pc = "truncate" /\ Entry(agent'[b].call) = "truncate"
  PROVE  LinesFit'
<1>1. ASSUME NEW p \in kept PROVE LineFits(p)'
  <2>1. ASSUME NEW b \in Callers, HasRead(agent'[b], p[1])
        PROVE HasRead(agent[b], p[1]) /\ agent'[b].buf = agent[b].buf
    BY <2>1 DEF HasRead
  <2>2. \A b \in Callers : On(b, {"write"}) /\ File(b) = p[1] =>
            agent'[b].pc = "write" /\ agent'[b].call = agent[b].call
    BY DEF On
  <2> QED BY <2>1, <2>2, LineStays
<1> QED BY <1>1 DEF LinesFit

\* Every step keeps the lines of undisturbed files, on disk or in the hands of whoever
\* writes them.
LEMMA LinesFitStep ==
  ASSUME ToolInv, [ToolsNext]_toolVars
  PROVE  LinesFit'
<1>1. CASE Seed \/ SeedWrite \/ SeedFails
  <2>1. /\ UNCHANGED <<agent, kept, disturbed>>
        /\ \A f \in Files : f # Head(boot) => files'[f] = files[f]
        /\ \A p \in kept : p[1] \in Files
    BY <1>1, SeedTypes DEF ToolInv, ToolTypes
  <2>2. CASE files' = files
    BY <2>1, <2>2, LinesFitElse
  <2>3. CASE files' # files
    <3>1. \A p \in kept : p[1] = Head(boot) => p[1] \in disturbed
      <4>1. CASE SeedWrite
        BY <4>1 DEF SeedWrite, ToolInv, SeedsFit
      <4>2. CASE Seed
        <5>1. seeding' /\ boot' = boot
          BY <2>3, <4>2 DEF Seed
        <5> QED BY <1>1, <2>1, <5>1, SeedsFitBoot DEF SeedsFit
      <4> QED BY <1>1, <2>3, <4>1, <4>2 DEF SeedFails
    <3>2. ASSUME NEW p \in kept' PROVE LineFits(p)'
      <4>1. CASE p[1] = Head(boot)
        BY <2>1, <3>1, <4>1 DEF LineFits
      <4>2. CASE p[1] # Head(boot)
        BY <2>1, <4>2, LineStays DEF On
      <4> QED BY <4>1, <4>2
    <3> QED BY <3>2 DEF LinesFit
  <2> QED BY <2>2, <2>3
<1>2. ASSUME NEW a \in Callers, NEW c \in Calls, Begin(a, c) PROVE LinesFit'
  <2>0. /\ Entry(c) # "refused" =>
              agent'[a] = Started(c, made + 1)
        /\ \A b \in Callers \ {a} : agent'[b] = agent[b]
    BY <1>2, BeginTypes
  <2>1. /\ Entry(c) # "refused" => agent'[a].pc = Entry(c) /\ agent'[a].call = c
        /\ Entry(c) = "refused" => agent' = agent
        /\ UNCHANGED <<files, kept, disturbed>>
    BY <1>2, <2>0 DEF Begin, disk, Started
  <2>2. agent[a].pc = "idle" /\ Entry(c) # "write"
    BY <1>2, EntryType DEF Begin, On
  <2> QED BY <2>0, <2>1, <2>2, LinesFitElse
<1>3. ASSUME NEW a \in Callers, NEW old \in Ids \cup {0}, PatchRead(a, old) PROVE LinesFit'
  <2>1. CASE old \in Range(Content(File(a)))
    BY <1>3, <2>1, LinesFitPatch
  <2>2. CASE old \notin Range(Content(File(a)))
    <3>1. On(a, CallPcs) /\ Return(a, "error") /\ UNCHANGED <<files, kept, disturbed>>
          /\ agent[a].pc = "patch"
      BY <1>3, <2>2 DEF PatchRead, On, CallPcs
    <3>2. agent'[a].pc = "idle" /\ \A b \in Callers \ {a} : agent'[b] = agent[b]
      BY <3>1, CallReturns DEF Idle
    <3> QED BY <3>1, <3>2, LinesFitElse
  <2> QED BY <2>1, <2>2
<1>4. ASSUME NEW a \in Callers,
             Read(a) \/ ShellDone(a) \/ InnerTimeout(a) \/ OuterTimeout(a) \/ OpenFails(a)
      PROVE  LinesFit'
  <2>1. PICK r \in {"ok", "error", "timeout"} : On(a, CallPcs) /\ Return(a, r)
    BY <1>4, Reads, ShellEnds, TimesOut, OpensFail
  <2>2. agent'[a].pc = "idle" /\ \A b \in Callers \ {a} : agent'[b] = agent[b]
    BY <2>1, CallReturns DEF Idle
  <2>3. UNCHANGED <<files, kept, disturbed>> /\ agent[a].pc # "write"
    BY <1>4, Reads, ShellEnds, TimesOut, OpensFail DEF Read, ShellDone, disk
  <2> QED BY <2>2, <2>3, LinesFitElse
<1>5. ASSUME NEW a \in Callers, Spawn(a) PROVE LinesFit'
  <2>1. UNCHANGED <<files, kept, disturbed>>
    BY <1>5 DEF Spawn, disk
  <2> QED BY <1>5, <2>1, Spawns, LinesFitElse
<1>6. ASSUME NEW a \in Callers, ReadPanic(a) PROVE LinesFit'
  <2>1. CASE a = Chat
    BY <1>6, <2>1, LinesFitDown DEF ReadPanic
  <2>2. CASE a # Chat
    <3>1. /\ UNCHANGED <<files, kept, disturbed>> /\ agent[a].pc = "look"
          /\ agent' = [agent EXCEPT ![a] = [pc |-> "dead"]]
      BY <1>6, <2>2 DEF ReadPanic, disk, On
    <3>2. agent'[a].pc = "dead" /\ \A b \in Callers \ {a} : agent'[b] = agent[b]
      BY <3>1 DEF ToolInv, ToolTypes
    <3> QED BY <3>1, <3>2, LinesFitElse
  <2> QED BY <2>1, <2>2
<1>7. CASE Tick
  <2>1. UNCHANGED <<files, kept, disturbed>>
    BY <1>7 DEF Tick, disk
  <2> QED BY <1>7, <2>1, Ticks, LinesFitElse
<1>8. CASE Crash
  BY <1>8, LinesFitDown DEF Crash
<1>9. CASE UNCHANGED toolVars
  BY <1>9, LinesFitElse DEF toolVars, disk
<1> QED BY <1>1, <1>2, <1>3, <1>4, <1>5, <1>6, <1>7, <1>8, <1>9, LinesFitAppend, LinesFitTruncate,
           LinesFitWrite, LinesFitFails, LinesFitCommand DEF ToolsNext

\* A step that leaves the files, the seeds and the writers alone empties nothing.
LEMMA EmptyFilesElse ==
  ASSUME ToolInv, UNCHANGED <<files, torn, blank, boot, seeding>>,
         \A b \in Callers : agent[b].pc = "write" => agent'[b].pc = "write"
                                                     /\ agent'[b].call = agent[b].call
  PROVE  EmptyFileHasACause'
<1>1. ASSUME NEW b \in Callers, NEW f, On(b, {"write"}) /\ File(b) = f
      PROVE  On(b, {"write"})' /\ File(b)' = f
  BY <1>1 DEF On, File
<1> QED BY <1>1 DEF ToolInv, EmptyFileHasACause

\* The end of the program notes the files it leaves empty.
LEMMA EmptyFilesDown ==
  ASSUME ToolInv, Down
  PROVE  EmptyFileHasACause'
<1>1. /\ files' = files /\ blank' = blank
      /\ torn' = torn \cup {File(a) : a \in {b \in Callers : On(b, {"write"})}}
                      \cup (IF seeding THEN {Head(boot)} ELSE {})
  BY DEF Down
<1>2. ASSUME NEW f \in Files, files[f] = <<>> PROVE f \in torn' \cup blank'
  <2>1. \/ f \in torn \cup blank
        \/ seeding /\ f = Head(boot)
        \/ \E a \in Callers : On(a, {"write"}) /\ File(a) = f
    BY <1>2 DEF ToolInv, EmptyFileHasACause
  <2> QED BY <1>1, <2>1
<1> QED BY <1>1, <1>2 DEF EmptyFileHasACause

\* Every step keeps EmptyFileHasACause.
LEMMA EmptyFilesStep ==
  ASSUME ToolInv, [ToolsNext]_toolVars
  PROVE  EmptyFileHasACause'
<1>1. CASE Seed \/ SeedWrite \/ SeedFails
  <2>1. /\ Head(boot) \in Files /\ files \in [Files -> Seq(Nat) \cup {None}]
        /\ \A f \in Files : f # Head(boot) => files'[f] = files[f]
        /\ UNCHANGED <<agent, blank>>
    BY <1>1, SeedTypes DEF ToolInv, ToolTypes
  <2>2. torn \subseteq torn'
    BY <1>1 DEF Seed, SeedWrite, SeedFails
  <2>3. ASSUME NEW f \in Files, files'[f] = <<>>
        PROVE  f \in torn' \cup blank \/ (seeding' /\ f = Head(boot'))
               \/ \E a \in Callers : On(a, {"write"}) /\ File(a) = f
    <3>1. CASE f = Head(boot) /\ Seed /\ files[Head(boot)] = None
      BY <3>1 DEF Seed
    <3>2. CASE f = Head(boot) /\ SeedWrite
      <4>1. files[f] \in Seq(Nat) /\ <<0>> \in Seq(Nat) /\ <<0>> # <<>>
        BY <2>1, <3>2 DEF SeedWrite, ToolInv, SeedsFit
      <4>2. Overlay(<<0>>, files[f]) # <<>>
        BY <4>1, OverlayHolds
      <4>3. files'[f] = Overlay(<<0>>, files[f])
        BY <2>1, <3>2 DEF SeedWrite
      <4> QED BY <2>3, <4>2, <4>3
    <3>3. CASE f = Head(boot) /\ SeedFails /\ seeding
      BY <3>3 DEF SeedFails
    <3>4. CASE ~(f = Head(boot) /\ (SeedWrite \/ (Seed /\ files[Head(boot)] = None) \/ (SeedFails /\ seeding)))
      <4>1. files'[f] = files[f]
        BY <1>1, <2>1, <3>4 DEF Seed, SeedFails
      <4>2. ~(seeding /\ f = Head(boot))
        BY <1>1, <3>4 DEF Seed
      <4> QED BY <2>2, <2>3, <4>1, <4>2 DEF ToolInv, EmptyFileHasACause
    <3> QED BY <3>1, <3>2, <3>3, <3>4
  <2> QED BY <2>1, <2>3 DEF EmptyFileHasACause, On, File
<1>2. ASSUME NEW a \in Callers, Truncate(a) PROVE EmptyFileHasACause'
  <2>1. /\ agent[a].pc = "truncate" /\ agent'[a].pc = "write" /\ agent'[a].call = agent[a].call
        /\ \A c \in Callers \ {a} : agent'[c] = agent[c]
        /\ \A g \in Files \ {File(a)} : files'[g] = files[g]
        /\ UNCHANGED <<torn, blank, boot, seeding>>
    BY <1>2, Truncates DEF Truncate
  <2>2. ASSUME NEW f \in Files, files'[f] = <<>>
        PROVE  f \in torn \cup blank \/ (seeding /\ f = Head(boot))
               \/ \E b \in Callers : On(b, {"write"})' /\ File(b)' = f
    <3>1. CASE f = File(a)
      BY <2>1, <3>1 DEF On, File
    <3>2. CASE f # File(a)
      <4>1. \/ f \in torn \cup blank \/ (seeding /\ f = Head(boot))
            \/ \E b \in Callers : On(b, {"write"}) /\ File(b) = f
        BY <2>1, <2>2, <3>2 DEF ToolInv, EmptyFileHasACause
      <4>2. \A b \in Callers : On(b, {"write"}) => On(b, {"write"})' /\ File(b)' = File(b)
        BY <2>1 DEF On, File
      <4> QED BY <4>1, <4>2
    <3> QED BY <3>1, <3>2
  <2> QED BY <2>1, <2>2 DEF EmptyFileHasACause
<1>3. ASSUME NEW a \in Callers, Write(a) PROVE EmptyFileHasACause'
  <2>1. /\ On(a, CallPcs) /\ agent[a].pc = "write" /\ Return(a, "ok")
        /\ agent[a].buf # <<>> => files'[File(a)] # <<>>
        /\ \A g \in Files \ {File(a)} : files'[g] = files[g]
        /\ torn' = torn \ {File(a)} /\ UNCHANGED <<boot, seeding>>
        /\ blank' = IF agent[a].buf = <<>> THEN blank \cup {File(a)} ELSE blank \ {File(a)}
    BY <1>3, Writes DEF Write
  <2>2. \A c \in Callers \ {a} : agent'[c] = agent[c]
    BY <2>1, CallReturns
  <2>3. ASSUME NEW f \in Files, files'[f] = <<>>
        PROVE  f \in torn' \cup blank' \/ (seeding /\ f = Head(boot))
               \/ \E b \in Callers : On(b, {"write"})' /\ File(b)' = f
    <3>1. CASE f = File(a)
      BY <2>1, <2>3, <3>1
    <3>2. CASE f # File(a)
      <4>1. \/ f \in torn \cup blank \/ (seeding /\ f = Head(boot))
            \/ \E b \in Callers : On(b, {"write"}) /\ File(b) = f
        BY <2>1, <2>3, <3>2 DEF ToolInv, EmptyFileHasACause
      <4>2. \A b \in Callers : On(b, {"write"}) /\ File(b) = f => On(b, {"write"})' /\ File(b)' = f
        BY <2>2, <3>2 DEF On, File
      <4>3. f \in torn \cup blank => f \in torn' \cup blank'
        BY <2>1, <3>2
      <4> QED BY <4>1, <4>2, <4>3
    <3> QED BY <3>1, <3>2
  <2> QED BY <2>1, <2>3 DEF EmptyFileHasACause
<1>12. ASSUME NEW a \in Callers, NEW n \in 0 .. MaxCalls, WriteFails(a, n)
       PROVE  EmptyFileHasACause'
  <2>1. /\ On(a, CallPcs) /\ agent[a].pc = "write" /\ Return(a, "error")
        /\ \A g \in Files \ {File(a)} : files'[g] = files[g]
        /\ torn' = torn \cup {File(a)} /\ UNCHANGED <<boot, seeding, blank>>
    BY <1>12, WritesFail DEF WriteFails
  <2>2. \A c \in Callers \ {a} : agent'[c] = agent[c]
    BY <2>1, CallReturns
  <2>3. ASSUME NEW f \in Files, files'[f] = <<>>
        PROVE  f \in torn' \cup blank' \/ (seeding /\ f = Head(boot))
               \/ \E b \in Callers : On(b, {"write"})' /\ File(b)' = f
    <3>1. CASE f = File(a)
      BY <2>1, <2>3, <3>1
    <3>2. CASE f # File(a)
      <4>1. \/ f \in torn \cup blank \/ (seeding /\ f = Head(boot))
            \/ \E b \in Callers : On(b, {"write"}) /\ File(b) = f
        BY <2>1, <2>3, <3>2 DEF ToolInv, EmptyFileHasACause
      <4>2. \A b \in Callers : On(b, {"write"}) /\ File(b) = f => On(b, {"write"})' /\ File(b)' = f
        BY <2>2, <3>2 DEF On, File
      <4>3. f \in torn \cup blank => f \in torn' \cup blank'
        BY <2>1, <3>2
      <4> QED BY <4>1, <4>2, <4>3
    <3> QED BY <3>1, <3>2
  <2> QED BY <2>1, <2>3 DEF EmptyFileHasACause
<1>4. ASSUME NEW i \in Ids, CommandEnds(i) PROVE EmptyFileHasACause'
  <2>1. /\ UNCHANGED <<torn, blank, boot, seeding, agent>>
        /\ \A f \in Files : files'[f] = <<>> => files[f] = <<>>
    BY <1>4, CommandWrites
  <2> QED BY <2>1 DEF ToolInv, EmptyFileHasACause, On, File
<1>5. ASSUME NEW a \in Callers, NEW c \in Calls, Begin(a, c) PROVE EmptyFileHasACause'
  <2>1. agent[a].pc = "idle" /\ UNCHANGED <<files, torn, blank, boot, seeding>>
    BY <1>5 DEF Begin, disk, On
  <2>2. \A b \in Callers \ {a} : agent'[b] = agent[b]
    BY <1>5, BeginTypes
  <2> QED BY <2>1, <2>2, EmptyFilesElse
<1>6. ASSUME NEW a \in Callers, AppendRead(a) \/ Spawn(a) PROVE EmptyFileHasACause'
  <2>1. UNCHANGED <<files, torn, blank, boot, seeding>>
    BY <1>6 DEF AppendRead, Spawn, disk
  <2> QED BY <1>6, <2>1, AppendReads, Spawns, EmptyFilesElse
<1>7. ASSUME NEW a \in Callers,
             \/ Read(a) \/ ShellDone(a) \/ InnerTimeout(a) \/ OuterTimeout(a) \/ OpenFails(a)
             \/ \E old \in Ids \cup {0} : PatchRead(a, old)
      PROVE  EmptyFileHasACause'
  <2>1. UNCHANGED <<files, torn, blank, boot, seeding>>
    BY <1>7, TimesOut, OpensFail DEF Read, ShellDone, PatchRead, disk
  <2>2. agent[a].pc # "write"
    BY <1>7, Reads, ShellEnds, TimesOut, OpensFail DEF PatchRead, On
  <2>3. \A b \in Callers \ {a} : agent'[b] = agent[b]
    BY <1>7, Reads, ShellEnds, TimesOut, OpensFail, PatchReads, PatchFails, CallReturns
  <2> QED BY <2>1, <2>2, <2>3, EmptyFilesElse
<1>8. ASSUME NEW a \in Callers, ReadPanic(a) PROVE EmptyFileHasACause'
  <2>1. CASE a = Chat
    BY <1>8, <2>1, EmptyFilesDown DEF ReadPanic
  <2>2. CASE a # Chat
    <3>1. /\ UNCHANGED <<files, torn, blank, boot, seeding>> /\ agent[a].pc = "look"
          /\ agent' = [agent EXCEPT ![a] = [pc |-> "dead"]]
      BY <1>8, <2>2 DEF ReadPanic, disk, On
    <3>2. \A b \in Callers \ {a} : agent'[b] = agent[b]
      BY <3>1 DEF ToolInv, ToolTypes
    <3> QED BY <3>1, <3>2, EmptyFilesElse
  <2> QED BY <2>1, <2>2
<1>9. CASE Tick
  <2>1. UNCHANGED <<files, torn, blank, boot, seeding>>
    BY <1>9 DEF Tick, disk
  <2> QED BY <1>9, <2>1, Ticks, EmptyFilesElse
<1>10. CASE Crash
  BY <1>10, EmptyFilesDown DEF Crash
<1>11. CASE UNCHANGED toolVars
  BY <1>11, EmptyFilesElse DEF toolVars, disk
<1> QED BY <1>1, <1>2, <1>3, <1>4, <1>5, <1>6, <1>7, <1>8, <1>9, <1>10, <1>11, <1>12
      DEF ToolsNext

\* What agents know of the files: by the step that changes either.
LEMMA KnownFitsStep ==
  ASSUME ToolInv, [ToolsNext]_toolVars
  PROVE  KnownFits'
<1> DEFINE Fit(b, g) == known[b][g].stale \/ known[b][g].lines <= Len(Content(g))
<1>0. \A b \in Callers, g \in Files : Fit(b, g)
  BY DEF ToolInv, KnownFits
<1>1. ASSUME NEW f \in Files, Stale(f), \A g \in Files \ {f} : files'[g] = files[g]
      PROVE  KnownFits'
  <2>1. ASSUME NEW b \in Callers, NEW g \in Files PROVE Fit(b, g)'
    <3>1. CASE g = f
      BY <1>1, <3>1, StaleType DEF ToolInv
    <3>2. CASE g # f
      <4>1. known'[b][g] = known[b][g] /\ files'[g] = files[g]
        BY <1>1, <3>2, StaleType DEF ToolInv
      <4> QED BY <1>0, <4>1 DEF Content
    <3> QED BY <3>1, <3>2
  <2> QED BY <2>1 DEF KnownFits
<1>2. CASE Seed \/ SeedWrite \/ SeedFails
  <2>1. ASSUME NEW b \in Callers, NEW g \in Files PROVE Fit(b, g)'
    <3>1. known' = known /\ Len(Content(g)) <= Len(Content(g))' /\ known[b][g].lines \in Nat
      BY <1>2, SeedTypes DEF ToolInv, ToolTypes
    <3>2. files[g] \in Seq(Nat) \cup {None} /\ files'[g] \in Seq(Nat) \cup {None}
      BY <1>2, SeedTypes DEF ToolInv, ToolTypes
    <3>3. Content(g) \in Seq(Nat) /\ Content(g)' \in Seq(Nat)
      BY <3>2 DEF Content
    <3>4. Len(Content(g)) \in Nat /\ Len(Content(g))' \in Nat
      BY <3>3
    <3> QED BY <1>0, <3>1, <3>4
  <2> QED BY <2>1 DEF KnownFits
<1>3. ASSUME NEW a \in Callers, Truncate(a) PROVE KnownFits'
  <2>1. Stale(File(a)) /\ File(a) \in Files /\ \A g \in Files \ {File(a)} : files'[g] = files[g]
    BY <1>3, Truncates, CallAtHand DEF Truncate
  <2> QED BY <1>1, <2>1
<1>4. ASSUME NEW a \in Callers, Write(a) PROVE KnownFits'
  <2>1. Stale(File(a)) /\ File(a) \in Files /\ \A g \in Files \ {File(a)} : files'[g] = files[g]
    BY <1>4, Writes, CallAtHand DEF Write
  <2> QED BY <1>1, <2>1
<1>11. ASSUME NEW a \in Callers, NEW n \in 0 .. MaxCalls, WriteFails(a, n) PROVE KnownFits'
  <2>1. Stale(File(a)) /\ File(a) \in Files /\ \A g \in Files \ {File(a)} : files'[g] = files[g]
    BY <1>11, WritesFail DEF WriteFails
  <2> QED BY <1>1, <2>1
<1>5. ASSUME NEW i \in Ids, CommandEnds(i) PROVE KnownFits'
  <2>1. CASE UNCHANGED <<files, known>>
    BY <1>0, <2>1 DEF KnownFits, Content
  <2>2. CASE Stale(proc[i].call.file)
    BY <1>1, <1>5, <2>2, CommandWrites
  <2> QED BY <1>5, <2>1, <2>2, CommandWrites
<1>6. ASSUME NEW a \in Callers, Read(a) PROVE KnownFits'
  <2>1. files' = files
    BY <1>6 DEF Read, disk
  <2>2. ASSUME NEW b \in Callers, NEW g \in Files PROVE Fit(b, g)'
    <3>1. CASE known'[b][g] = known[b][g]
      BY <1>0, <2>1, <3>1 DEF Content
    <3>2. CASE known'[b][g].lines = Len(files[g]) /\ files[g] # None
      <4>1. files[g] \in Seq(Nat)
        BY <3>2 DEF ToolInv, ToolTypes
      <4>2. Content(g)' = files[g] /\ Len(files[g]) \in Nat
        BY <2>1, <3>2, <4>1 DEF Content
      <4> QED BY <3>2, <4>2
    <3> QED BY <1>6, <3>1, <3>2, Reads
  <2> QED BY <2>2 DEF KnownFits
<1>7. CASE Down
  <2>1. /\ \A b \in Callers, g \in Files : known'[b][g].lines = 0
        /\ files' = files
    BY <1>7 DEF Down, Fresh
  <2>2. ASSUME NEW g \in Files PROVE Content(g)' \in Seq(Nat) /\ Len(Content(g)') \in Nat
    BY <2>1 DEF Content, ToolInv, ToolTypes
  <2> QED BY <2>1, <2>2 DEF KnownFits
<1>8. CASE UNCHANGED <<files, known>>
  BY <1>0, <1>8 DEF KnownFits, Content
<1>9. ASSUME NEW a \in Callers,
             \/ AppendRead(a) \/ Spawn(a) \/ ShellDone(a) \/ InnerTimeout(a) \/ OuterTimeout(a)
             \/ (\E c \in Calls : Begin(a, c)) \/ (\E old \in Ids \cup {0} : PatchRead(a, old))
             \/ (ReadPanic(a) /\ a # Chat) \/ OpenFails(a)
      PROVE  UNCHANGED <<files, known>>
  BY <1>9 DEF AppendRead, Spawn, ShellDone, InnerTimeout, OuterTimeout, Begin, PatchRead,
              ReadPanic, OpenFails, disk
<1>10. Tick \/ UNCHANGED toolVars => UNCHANGED <<files, known>>
  BY DEF Tick, toolVars, disk
<1> QED BY <1>2, <1>3, <1>4, <1>5, <1>6, <1>7, <1>8, <1>9, <1>10, <1>11
      DEF ToolsNext, Crash, ReadPanic

\* A read panics only behind the lines the file has, and those are not fewer than its
\* agent knows of.
LEMMA PanicStep ==
  ASSUME ToolInv, [ToolsNext]_toolVars
  PROVE  PanicHasACause'
<1>1. CASE panics' = panics
  BY <1>1 DEF ToolInv, PanicHasACause
<1>2. ASSUME NEW a \in Callers, ReadPanic(a) PROVE PanicHasACause'
  <2> DEFINE n == Len(files[File(a)])
             o == agent[a].call.offset
             k == known[a][File(a)]
  <2>1. /\ On(a, CallPcs) /\ agent[a].pc = "look" /\ files[File(a)] # None /\ ReadPanics(o, n)
        /\ panics' = panics \cup {[offset |-> o, known |-> k]}
    BY <1>2 DEF ReadPanic, ReadFails, On, CallPcs
  <2>2. /\ files[File(a)] \in Seq(Nat) /\ File(a) \in Files /\ agent[a].call \in Calls
        /\ agent[a].call.tool \in {"memory_read", "read_file"}
    BY <2>1, CallAtHand DEF ToolInv, CallsFit, CallFits, CallPcs
  <2>3. n \in Nat /\ o \in Nat /\ k.lines \in Nat
    BY <2>2, CallAssumption DEF ToolInv, ToolTypes
  <2>4. k.stale \/ k.lines <= n
    BY <2>1, <2>2 DEF ToolInv, KnownFits, Content
  <2>5. o > n + 1
    BY <2>1, <2>3 DEF ReadPanics, StartLine
  <2>6. k.stale \/ o > k.lines + 1
    BY <2>3, <2>4, <2>5
  <2> HIDE DEF o, k
  <2>7. ASSUME NEW p \in panics' PROVE p.known.stale \/ p.offset > p.known.lines + 1
    BY <2>1, <2>6, <2>7 DEF ToolInv, PanicHasACause
  <2> QED BY <2>7 DEF PanicHasACause
<1>3. ASSUME NEW a \in Callers,
             \/ AppendRead(a) \/ Truncate(a) \/ Write(a) \/ Read(a) \/ Spawn(a) \/ ShellDone(a)
             \/ OpenFails(a) \/ (\E n \in 0 .. MaxCalls : WriteFails(a, n))
             \/ (\E old \in Ids \cup {0} : PatchRead(a, old)) \/ (\E c \in Calls : Begin(a, c))
      PROVE  panics' = panics
  BY <1>3 DEF AppendRead, Truncate, Write, Read, PatchRead, Begin, Spawn, ShellDone, OpenFails,
              WriteFails
<1>4. \/ Seed \/ SeedWrite \/ SeedFails \/ Tick \/ Crash \/ (\E i \in Ids : CommandEnds(i))
      \/ UNCHANGED toolVars
      => panics' = panics
  BY DEF Seed, SeedWrite, SeedFails, Tick, Crash, CommandEnds, toolVars
<1>5. \A a \in Callers : InnerTimeout(a) \/ OuterTimeout(a) => panics' = panics
  BY TimesOut
<1> QED BY <1>1, <1>2, <1>3, <1>4, <1>5 DEF ToolsNext

\* An agent that waits with its command untouched, or waits no more.
LEMMA WaitStays ==
  ASSUME ToolInv, NEW b \in Callers,
         agent'[b] = agent[b] \/ agent'[b].pc \notin {"spawn", "wait"},
         agent[b].pc = "wait" => proc'[Id(b)] = proc[Id(b)]
  PROVE  WaitFits(agent[b])'
<1>1. WaitFits(agent[b])
  BY DEF ToolInv, ReportsFit
<1> QED BY <1>1 DEF WaitFits, Id

\* What was told of a command stays true while its state does.
LEMMA ToldStays ==
  ASSUME ToolInv, NEW i \in Ids, told[i] = "timeout", proc'[i] = proc[i]
  PROVE  /\ proc'[i] \in CommandState /\ proc'[i].state # "attached" /\ TooLong(proc'[i].call)
         /\ proc'[i].state = "dead" \/ MayAct(proc'[i].call)
BY DEF ToolInv, ReportsFit

\* A step that neither starts nor stops a command keeps what is known of them all.
LEMMA ReportsFitElse ==
  ASSUME ToolInv, UNCHANGED <<proc, late>>,
         \A b \in Callers : agent'[b] = agent[b] \/ agent'[b].pc \notin {"spawn", "wait"},
         \A i \in Ids : told'[i] = "timeout" <=> told[i] = "timeout"
  PROVE  ReportsFit'
<1>1. \A b \in Callers : WaitFits(agent[b])'
  BY WaitStays
<1> QED BY <1>1 DEF ReportsFit, ToolInv

\* The limits of a shell call are numbers.
LEMMA LimitType ==
  ASSUME NEW c \in Calls, c.tool = "shell"
  PROVE  Limit(c) \in Nat /\ OuterLimit \in Nat /\ Pipe \in Nat /\ {c.work, c.out, c.err} \subseteq Nat
BY CallAssumption, LimitAssumption DEF Limit

\* A command that starts has all its work before it.
LEMMA ReportsFitSpawn ==
  ASSUME ToolInv, NEW a \in Callers, Spawn(a)
  PROVE  ReportsFit'
<1>1. /\ On(a, CallPcs) /\ agent[a].pc = "spawn" /\ agent'[a].pc = "wait"
      /\ agent'[a].call = agent[a].call /\ agent'[a].id = agent[a].id
      /\ agent'[a].age = agent[a].age
      /\ \A c \in Callers \ {a} : agent'[c] = agent[c]
      /\ proc'[Id(a)] = [state |-> "attached", left |-> agent[a].call.work,
                         call |-> agent[a].call]
      /\ \A i \in Ids \ {Id(a)} : proc'[i] = proc[i]
      /\ agent[a].call.tool = "shell" /\ agent[a].call.work \in Nat
  BY Spawns
<1>2. UNCHANGED <<told, late>>
  BY DEF Spawn
<1>3. Id(a) \in Ids /\ agent[a].call \in Calls /\ told[Id(a)] = "none"
  BY <1>1, CallAtHand DEF ToolInv, CallsFit, CallFits, CallPcs, Id
<1>4. ASSUME NEW b \in Callers PROVE WaitFits(agent[b])'
  <2>1. CASE b = a
    <3>1. agent[a].age = 0
      BY <1>1 DEF ToolInv, ReportsFit, WaitFits
    <3>2. 0 <= OuterLimit /\ 0 <= Limit(agent[a].call)
      BY <1>1, <1>3, LimitType
    <3>3. /\ proc'[Id(a)] \in CommandState /\ proc'[Id(a)].call = agent[a].call
          /\ proc'[Id(a)].left = agent[a].call.work
      BY <1>1, <1>3 DEF CommandState
    <3>4. proc'[Id(a)].left + 0 = agent[a].call.work
      BY <1>1, <3>3
    <3> QED BY <1>1, <2>1, <3>1, <3>2, <3>3, <3>4 DEF WaitFits, Id
  <2>2. CASE b # a
    <3>1. agent[b].pc = "wait" => Id(b) # Id(a) /\ Id(b) \in Ids
      BY <1>1, <2>2, CallAtHand DEF ToolInv, CallsFit, On, CallPcs
    <3> QED BY <1>1, <2>2, <3>1, WaitStays
  <2> QED BY <2>1, <2>2
<1>5. ASSUME NEW i \in Ids, told[i] = "timeout" PROVE proc'[i] = proc[i]
  BY <1>1, <1>3, <1>5
<1> QED BY <1>2, <1>4, <1>5, ToldStays DEF ReportsFit, ToolInv

\* A call times out no sooner than its limit, and lets its command live only if the
\* outer limit came first or the shell had forked.
LEMMA ReportsFitTimeout ==
  ASSUME ToolInv, NEW a \in Callers, InnerTimeout(a) \/ OuterTimeout(a)
  PROVE  ReportsFit'
<1> DEFINE c == agent[a].call
<1>1. /\ On(a, CallPcs) /\ agent[a].pc = "wait" /\ Return(a, "timeout")
      /\ proc[Id(a)] \in CommandState /\ proc[Id(a)].state = "attached"
      /\ proc'[Id(a)] \in CommandState
      /\ proc'[Id(a)].call = c /\ proc'[Id(a)].state \in {"loose", "dead"}
      /\ proc[Id(a)].call = c
      /\ \A i \in Ids \ {Id(a)} : proc'[i] = proc[i]
      /\ \/ proc'[Id(a)].state = "dead" /\ agent[a].age >= Limit(c)
         \/ c.forks /\ agent[a].age >= Limit(c)
         \/ agent[a].age >= OuterLimit
      /\ late' = late
  BY TimesOut
<1>2. /\ \A b \in Callers \ {a} : agent'[b] = agent[b]
      /\ agent'[a].pc = "idle"
      /\ \A i \in Ids \ {Id(a)} : told'[i] = told[i]
  BY <1>1, CallReturns DEF Idle
<1>3. /\ Id(a) \in Ids /\ c \in Calls /\ agent[a].age \in Nat /\ c.tool = "shell"
      /\ told[Id(a)] = "none" /\ WaitFits(agent[a])
  BY <1>1, CallAtHand DEF ToolInv, CallsFit, CallFits, CallPcs, Id, ReportsFit
<1>4. ASSUME NEW b \in Callers PROVE WaitFits(agent[b])'
  <2>1. b # a /\ agent[b].pc = "wait" => Id(b) # Id(a) /\ Id(b) \in Ids
    BY <1>1, CallAtHand DEF ToolInv, CallsFit, On, CallPcs
  <2>2. CASE b = a
    BY <1>2, <2>2 DEF WaitFits
  <2>3. CASE b # a
    BY <1>1, <1>2, <2>1, <2>3, WaitStays
  <2> QED BY <2>2, <2>3
<1>5. TooLong(c)
  <2>1. agent[a].age >= Limit(c) \/ agent[a].age >= OuterLimit
    BY <1>1
  <2>2. c.out > Pipe \/ c.err > Pipe \/ proc[Id(a)].left + agent[a].age = c.work
    BY <1>1, <1>3 DEF WaitFits, Id
  <2>3. proc[Id(a)].left \in Nat
    BY <1>1 DEF CommandState
  <2>4. Limit(c) \in Nat /\ OuterLimit \in Nat /\ c.work \in Nat
    BY <1>3, LimitType
  <2> HIDE DEF c
  <2>5. CASE proc[Id(a)].left + agent[a].age = c.work
    <3>1. c.work >= agent[a].age
      BY <1>3, <2>3, <2>5
    <3> QED BY <1>3, <2>1, <2>4, <3>1 DEF TooLong
  <2> QED BY <2>2, <2>5 DEF TooLong
<1>6. proc'[Id(a)].state = "dead" \/ MayAct(c)
  <2>1. agent[a].age <= Limit(c)
    BY <1>1, <1>3 DEF WaitFits
  <2>2. Limit(c) \in Nat /\ OuterLimit \in Nat
    BY <1>3, LimitType
  <2>3. agent[a].age >= OuterLimit => Limit(c) >= OuterLimit
    BY <1>3, <2>1, <2>2
  <2> QED BY <1>1, <2>3 DEF MayAct
<1> HIDE DEF c
<1>7. ASSUME NEW i \in Ids, told'[i] = "timeout"
      PROVE  /\ proc'[i] \in CommandState /\ proc'[i].state # "attached" /\ TooLong(proc'[i].call)
             /\ proc'[i].state = "dead" \/ MayAct(proc'[i].call)
  <2>1. CASE i = Id(a)
    BY <1>1, <1>5, <1>6, <2>1
  <2>2. CASE i # Id(a)
    BY <1>1, <1>2, <1>7, <2>2, ToldStays
  <2> QED BY <2>1, <2>2
<1>8. ASSUME NEW i \in late' PROVE i \in Ids /\ told'[i] = "timeout" /\ MayAct(proc'[i].call)
  <2>1. i \in Ids /\ told[i] = "timeout" /\ MayAct(proc[i].call)
    BY <1>1, <1>8 DEF ToolInv, ReportsFit
  <2>2. i # Id(a)
    BY <1>3, <2>1
  <2> QED BY <1>1, <1>2, <2>1, <2>2
<1> QED BY <1>4, <1>7, <1>8 DEF ReportsFit, MayAct, TooLong, Limit

\* A command that is not stuck in a full pipe works as long as its call waits.
LEMMA ReportsFitTick ==
  ASSUME ToolInv, Tick
  PROVE  ReportsFit'
<1>1. \A i \in Ids :
        IF Alive(i) /\ proc[i].left > 0
          THEN /\ proc[i] \in CommandState /\ proc'[i] \in CommandState
               /\ proc'[i].state = proc[i].state
               /\ proc'[i].call = proc[i].call /\ proc'[i].left = proc[i].left - 1
          ELSE proc'[i] = proc[i]
  BY Ticks
<1>2. UNCHANGED <<told, late>>
  BY DEF Tick
<1>3. ASSUME NEW b \in Callers PROVE WaitFits(agent[b])'
  <2>1. CASE agent[b].pc # "wait"
    BY <2>1, Ticks, WaitStays
  <2>2. CASE agent[b].pc = "wait"
    <3> DEFINE c == agent[b].call
               i == Id(b)
    <3>1. /\ agent'[b].pc = "wait" /\ agent'[b].call = c /\ agent'[b].id = agent[b].id
          /\ agent'[b].age = agent[b].age + 1 /\ agent[b].age \in Nat
      BY <2>2, Ticks
    <3>2. i \in Ids /\ c \in Calls /\ c.tool = "shell" /\ WaitFits(agent[b])
      BY <2>2, CallAtHand DEF ToolInv, CallsFit, CallFits, CallPcs, On, ReportsFit
    <3>3. proc[i].state = "attached" /\ agent[b].age < OuterLimit /\ agent[b].age < Limit(c)
      BY <2>2 DEF Tick, On, Waits
    <3>4. Limit(c) \in Nat /\ OuterLimit \in Nat
      BY <3>2, LimitType
    <3>5. agent'[b].age <= OuterLimit /\ agent'[b].age <= Limit(c)
      BY <3>1, <3>3, <3>4
    <3>6. proc[i] \in CommandState /\ proc[i].call = c
      BY <2>2, <3>2 DEF WaitFits, Id
    <3>7. proc'[i] \in CommandState /\ proc'[i].call = c
      BY <1>1, <3>2, <3>6
    <3>8. c.out > Pipe \/ c.err > Pipe \/ proc[i].left + agent[b].age = c.work
      BY <2>2, <3>2, <3>3 DEF WaitFits, Id
    <3>9. CASE proc[i].left + agent[b].age = c.work /\ ~(c.out > Pipe \/ c.err > Pipe)
      <4>1. ~Stuck(i) /\ ~CanEnd(i)
        BY <3>2, <3>6, <3>9 DEF Stuck, Tick
      <4>2. proc[i] # None
        BY <3>6, NoneAssumption DEF CommandState
      <4>3. Alive(i)
        BY <3>3, <4>2 DEF Alive
      <4>4. proc[i].left \in Nat /\ proc[i].left # 0
        BY <3>6, <4>1, <4>3 DEF CanEnd, CommandState
      <4>5. proc'[i].left = proc[i].left - 1
        BY <1>1, <3>2, <4>3, <4>4
      <4>6. proc'[i].left + agent'[b].age = c.work
        BY <3>1, <3>9, <4>4, <4>5
      <4> QED BY <3>1, <3>5, <3>7, <4>6 DEF WaitFits, Id, Limit
    <3>10. CASE c.out > Pipe \/ c.err > Pipe
      BY <3>1, <3>5, <3>7, <3>10 DEF WaitFits, Id, Limit
    <3> QED BY <3>8, <3>9, <3>10
  <2> QED BY <2>1, <2>2
<1>4. ASSUME NEW i \in Ids, told[i] = "timeout"
      PROVE  /\ proc'[i] \in CommandState /\ proc'[i].state = proc[i].state
             /\ proc'[i].call = proc[i].call
  BY <1>1, <1>4 DEF ToolInv, ReportsFit
<1>5. ASSUME NEW i \in late PROVE MayAct(proc'[i].call)
  BY <1>4, <1>5 DEF ToolInv, ReportsFit
<1> QED BY <1>2, <1>3, <1>4, <1>5 DEF ReportsFit, ToolInv

\* A command ends by itself only if no limit has killed it.
LEMMA ReportsFitCommand ==
  ASSUME ToolInv, NEW j \in Ids, CommandEnds(j)
  PROVE  ReportsFit'
<1>1. /\ proc[j] \in CommandState /\ proc[j].state \in {"attached", "loose"}
      /\ proc'[j] \in CommandState /\ proc'[j].call = proc[j].call
      /\ proc'[j].state \in {"exited", "dead"}
      /\ \A i \in Ids \ {j} : proc'[i] = proc[i]
      /\ UNCHANGED <<agent, told>>
  BY CommandWrites
<1>0. late' = late \/ (late' = late \cup {j} /\ told[j] = "timeout")
  <2>1. late' = late \/ late' = (IF told[j] = "timeout" THEN late \cup {j} ELSE late)
    BY CommandWrites
  <2> QED BY <2>1
<1>2. ASSUME NEW b \in Callers PROVE WaitFits(agent[b])'
  <2>1. WaitFits(agent[b])
    BY DEF ToolInv, ReportsFit
  <2>2. CASE agent[b].pc = "wait"
    <3>1. Id(b) \in Ids
      BY <2>2, CallAtHand DEF On, CallPcs
    <3>2. CASE Id(b) = j
      BY <1>1, <2>1, <2>2, <3>2 DEF WaitFits, Id
    <3>3. CASE Id(b) # j
      BY <1>1, <2>2, <3>1, <3>3, WaitStays
    <3> QED BY <3>2, <3>3
  <2>3. CASE agent[b].pc # "wait"
    BY <1>1, <2>3, WaitStays
  <2> QED BY <2>2, <2>3
<1>3. told[j] = "timeout" => TooLong(proc[j].call) /\ MayAct(proc[j].call)
  BY <1>1 DEF ToolInv, ReportsFit
<1>4. ASSUME NEW i \in Ids, told[i] = "timeout"
      PROVE  /\ proc'[i] \in CommandState /\ proc'[i].state # "attached" /\ TooLong(proc'[i].call)
             /\ proc'[i].state = "dead" \/ MayAct(proc'[i].call)
  <2>1. CASE i = j
    BY <1>1, <1>3, <1>4, <2>1
  <2>2. CASE i # j
    BY <1>1, <1>4, <2>2, ToldStays
  <2> QED BY <2>1, <2>2
<1>5. ASSUME NEW i \in late' PROVE i \in Ids /\ told[i] = "timeout" /\ MayAct(proc'[i].call)
  <2>1. CASE i = j
    BY <1>0, <1>1, <1>3, <1>5, <2>1 DEF ToolInv, ReportsFit
  <2>2. CASE i # j
    BY <1>0, <1>1, <1>5, <2>2 DEF ToolInv, ReportsFit
  <2> QED BY <2>1, <2>2
<1> QED BY <1>1, <1>2, <1>4, <1>5 DEF ReportsFit

\* The end of the program reports nothing.
LEMMA ReportsFitDown ==
  ASSUME ToolInv, Down
  PROVE  ReportsFit'
<1>1. /\ \A b \in Callers : agent'[b].pc = "idle"
      /\ UNCHANGED <<told, late>>
  BY DEF Down, Idle
<1>2. \A b \in Callers : WaitFits(agent[b])'
  BY <1>1 DEF WaitFits
<1>3. ASSUME NEW i \in Ids, told[i] = "timeout" PROVE proc'[i] = proc[i]
  BY <1>3, GoesDown DEF ToolInv, ReportsFit
<1> QED BY <1>1, <1>2, <1>3, ToldStays DEF ReportsFit, ToolInv

\* Every step keeps what is known of the commands and their reports.
LEMMA ReportsFitStep ==
  ASSUME ToolInv, [ToolsNext]_toolVars
  PROVE  ReportsFit'
<1>1. ASSUME NEW a \in Callers, NEW c \in Calls, Begin(a, c) PROVE ReportsFit'
  <2>1. /\ made + 1 \in Ids /\ made \in Nat
        /\ Entry(c) # "refused" =>
              agent'[a] = Started(c, made + 1)
        /\ \A b \in Callers \ {a} : agent'[b] = agent[b]
    BY <1>1, BeginTypes
  <2>2. /\ UNCHANGED <<proc, late>> /\ agent[a].pc = "idle"
        /\ Entry(c) = "refused" => agent' = agent
        /\ told' = told \/ told' = [told EXCEPT ![made + 1] = "error"]
    BY <1>1 DEF Begin, disk, On
  <2>3. \A i \in Ids : told'[i] = "timeout" <=> told[i] = "timeout"
    <3>1. told[made + 1] = "none"
      <4>1. made + 1 > made
        BY <2>1
      <4> QED BY <2>1, <4>1 DEF ToolInv, CallsFit
    <3> QED BY <2>2, <3>1 DEF ToolInv, ToolTypes
  <2>4. ASSUME NEW b \in Callers PROVE WaitFits(agent[b])'
    <3>1. CASE b # a \/ Entry(c) = "refused"
      BY <2>1, <2>2, <3>1, WaitStays
    <3>2. CASE b = a /\ Entry(c) # "refused"
      <4>1. agent'[a].pc # "wait" /\ agent'[a].age = 0
        BY <2>1, <3>2, EntryType DEF Started
      <4> QED BY <3>2, <4>1 DEF WaitFits
    <3> QED BY <3>1, <3>2
  <2> QED BY <2>2, <2>3, <2>4 DEF ReportsFit, ToolInv
<1>2. ASSUME NEW a \in Callers,
             \/ Write(a) \/ Read(a) \/ ShellDone(a) \/ OpenFails(a)
             \/ \E n \in 0 .. MaxCalls : WriteFails(a, n)
             \/ \E old \in Ids \cup {0} : PatchRead(a, old) /\ old \notin Range(Content(File(a)))
      PROVE  ReportsFit'
  <2>1. PICK r \in {"ok", "error"} : On(a, CallPcs) /\ Return(a, r)
    BY <1>2, Writes, OpensFail, WritesFail, Reads, ShellEnds, PatchFails
  <2>2. /\ agent'[a].pc = "idle" /\ \A b \in Callers \ {a} : agent'[b] = agent[b]
        /\ told'[Id(a)] = r /\ \A i \in Ids \ {Id(a)} : told'[i] = told[i]
    BY <2>1, CallReturns DEF Idle
  <2>3. told[Id(a)] = "none"
    BY <2>1 DEF ToolInv, CallsFit, CallFits, On, Id
  <2>4. UNCHANGED <<proc, late>>
    BY <1>2, OpensFail DEF Write, WriteFails, Read, ShellDone, PatchRead
  <2> QED BY <2>1, <2>2, <2>3, <2>4, ReportsFitElse
<1>3. ASSUME NEW a \in Callers, NEW old \in Ids \cup {0}, PatchRead(a, old),
             old \in Range(Content(File(a)))
      PROVE  ReportsFit'
  <2>1. UNCHANGED <<proc, late, told>>
    BY <1>3 DEF PatchRead
  <2> QED BY <1>3, <2>1, PatchReads, ReportsFitElse
<1>4. ASSUME NEW a \in Callers, AppendRead(a) \/ Truncate(a) PROVE ReportsFit'
  <2>1. UNCHANGED <<proc, late, told>>
    BY <1>4 DEF AppendRead, Truncate
  <2> QED BY <1>4, <2>1, AppendReads, Truncates, ReportsFitElse
<1>5. ASSUME NEW a \in Callers, ReadPanic(a) PROVE ReportsFit'
  <2>1. CASE a = Chat
    BY <1>5, <2>1, ReportsFitDown DEF ReadPanic
  <2>2. CASE a # Chat
    <3>1. /\ UNCHANGED <<proc, late, told>>
          /\ agent' = [agent EXCEPT ![a] = [pc |-> "dead"]]
      BY <1>5, <2>2 DEF ReadPanic
    <3>2. agent'[a].pc = "dead" /\ \A b \in Callers \ {a} : agent'[b] = agent[b]
      BY <3>1 DEF ToolInv, ToolTypes
    <3> QED BY <3>1, <3>2, ReportsFitElse
  <2> QED BY <2>1, <2>2
<1>6. CASE Seed \/ SeedWrite \/ SeedFails \/ UNCHANGED toolVars
  BY <1>6, ReportsFitElse DEF Seed, SeedWrite, SeedFails, toolVars
<1>7. CASE Crash
  BY <1>7, ReportsFitDown DEF Crash
<1> QED BY <1>1, <1>2, <1>3, <1>4, <1>5, <1>6, <1>7, ReportsFitSpawn, ReportsFitTimeout,
           ReportsFitTick, ReportsFitCommand DEF ToolsNext

\* The invariant is inductive.
LEMMA ToolsStep == ToolInv /\ [ToolsNext]_toolVars => ToolInv'
<1> SUFFICES ASSUME ToolInv, [ToolsNext]_toolVars PROVE ToolInv'
  OBVIOUS
<1>1. CallsFit'
  BY CallsFitGoesOn, CallsFitReturns, CallsFitPatch, CallsFitBegin, CallsFitElse DEF ToolsNext
<1> QED BY <1>1, ToolTypesStep, SeedsFitStep, LinesFitStep, EmptyFilesStep, ReportsFitStep,
           KnownFitsStep, PanicStep DEF ToolInv

\* The invariant always holds.
LEMMA ToolsAlways == ToolsSpec => []ToolInv
  BY ToolsStart, ToolsStep, PTL DEF ToolsSpec

\* FilesHaveACause: for any agents, files, seeds and calls, a line reported as written is
\* in its file until a call replaces or removes it or a crash or a failing write cuts the
\* file, unless two calls met on it; and a file is empty only where a crash, a failing
\* write, a writer at work or a call that asked for it explains it (Workspace::append,
\* apply_patch, fs::write, ensure_dirs).
THEOREM FilesAreExplained == ToolsSpec => []FilesHaveACause
<1>1. ToolInv => FilesHaveACause
  BY DEF ToolInv, LinesFit, LineFits, FilesHaveACause, LostLineHasACause
<1> QED BY <1>1, ToolsAlways, PTL

\* ReportsHaveACause: for any limits and commands, a command reported as timed out acts
\* later, times out at all, or a read panics, only for the reasons stated
\* (execute_direct, execute_chat_tool, memory_read, read_file).
THEOREM ReportsAreExplained == ToolsSpec => []ReportsHaveACause
<1>1. ToolInv => ReportsHaveACause
  BY DEF ToolInv, ReportsFit, MayAct, TooLong, ReportsHaveACause, LateCommandHasACause,
         TimeoutHasACause
<1> QED BY <1>1, ToolsAlways, PTL

=============================================================================
