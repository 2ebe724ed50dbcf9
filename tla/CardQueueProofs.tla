--------------------------- MODULE CardQueueProofs ---------------------------
(***************************************************************************)
(* TLAPS proofs about CardQueue, for every set of cards and callers, every *)
(* pruning limit and every number of refines, restarts and failing         *)
(* database statements; and about Channels, for any users, messages,       *)
(* chunks, receivers, failing requests and ends of the program.            *)
(***************************************************************************)
EXTENDS CardQueue, Channels, SiftLemmas, TLAPS, SequenceTheorems

\* The types of the variables the proof is about.
SendTypes ==
    /\ mem \in [Cards -> Status \cup {"Absent"}]
    /\ db \in [Cards -> Status \cup {"Absent"}]
    /\ db \in [Cards -> Status \cup {"Absent"}]
    /\ push \in [Cards -> {"new", "inserted", "done"}]
    /\ kpc \in [Callers -> {"idle", "send", "mark", "llm", "persist"}]
    /\ kcard \in [Callers -> Cards \cup {NoCard}]
    /\ sent \in [Cards -> Nat]
    /\ sentRun \in [Cards -> Nat]

\* Caller k has an approval of card c in its hands.
Sending(k, c) == kpc[k] = "send" /\ kcard[k] = c

\* A caller that is not idle has a card; the one that sends a card is alone with it,
\* and the card is no longer pending.
SenderIsAlone ==
    /\ \A k \in Callers : kpc[k] # "idle" => kcard[k] \in Cards
    /\ \A k \in Callers, c \in Cards : Sending(k, c) =>
          /\ mem[c] # "Pending"
          /\ push[c] = "done"
          /\ sentRun[c] = 0
          /\ \A j \in Callers : Sending(j, c) => j = k

\* A card that was sent in this run was pushed, is not pending and was sent once.
SentIsDecided ==
    \A c \in Cards : sentRun[c] # 0 =>
        mem[c] # "Pending" /\ push[c] = "done" /\ sentRun[c] = 1

\* A card is pushed once: before its push is over it is not in memory, and before
\* its push begins it is not in the table.
PushedOnce ==
    \A c \in Cards :
        /\ push[c] # "done" => mem[c] = "Absent"
        /\ push[c] = "new" => db[c] = "Absent"

SendInv == SendTypes /\ SenderIsAlone /\ SentIsDecided /\ PushedOnce

-----------------------------------------------------------------------------
\* The initial states satisfy the invariant.
LEMMA SendInit == Init => SendInv
  BY DEF Init, SendInv, SendTypes, SenderIsAlone, SentIsDecided, PushedOnce, Sending,
     Status

\* Every step preserves it.
LEMMA SendStep == SendInv /\ [Next]_vars => SendInv'
<1> SUFFICES ASSUME SendInv, [Next]_vars PROVE SendInv'
  OBVIOUS
<1> USE DEF SendInv
<1>1. ASSUME NEW c \in Cards, NEW ok \in BOOLEAN, PushInsert(c, ok) PROVE SendInv'
  <2>1. SendTypes'
    BY <1>1 DEF SendTypes, PushInsert, Status, callers
  <2>2. SenderIsAlone'
    BY <1>1 DEF SendTypes, SenderIsAlone, SentIsDecided, PushedOnce, Sending, PushInsert,
       callers
  <2>3. SentIsDecided'
    BY <1>1 DEF SendTypes, SenderIsAlone, SentIsDecided, PushedOnce, Sending, PushInsert,
       callers
  <2>4. PushedOnce'
    BY <1>1 DEF SendTypes, SenderIsAlone, PushedOnce, Sending, PushInsert, callers
  <2> QED
    BY <2>1, <2>2, <2>3, <2>4
<1>2. ASSUME NEW c \in Cards, PushQueue(c) PROVE SendInv'
  <2>1. SendTypes'
    BY <1>2 DEF SendTypes, PushQueue, Status, callers
  <2>2. SenderIsAlone'
    BY <1>2 DEF SendTypes, SenderIsAlone, SentIsDecided, PushedOnce, Sending, PushQueue,
       callers
  <2>3. SentIsDecided'
    BY <1>2 DEF SendTypes, SenderIsAlone, SentIsDecided, PushedOnce, Sending, PushQueue,
       callers
  <2>4. PushedOnce'
    BY <1>2 DEF SendTypes, SenderIsAlone, PushedOnce, Sending, PushQueue, callers
  <2> QED
    BY <2>1, <2>2, <2>3, <2>4
<1>3. ASSUME NEW k \in Callers, NEW c \in Cards, NEW ok \in BOOLEAN, approve(k, c, ok)
      PROVE  SendInv'
  <2>1. SendTypes'
    BY <1>3 DEF SendTypes, approve, Decide, Persist, Goes, Status, callers
  <2>2. SenderIsAlone'
    BY <1>3 DEF SendTypes, SenderIsAlone, SentIsDecided, PushedOnce, Sending, approve,
       Decide, Persist, Goes, callers
  <2>3. SentIsDecided'
    BY <1>3 DEF SendTypes, SenderIsAlone, SentIsDecided, PushedOnce, Sending, approve,
       Decide, Persist, Goes, callers
  <2>4. PushedOnce'
    BY <1>3 DEF SendTypes, SenderIsAlone, PushedOnce, Sending, approve, Decide, Persist,
       Goes, callers
  <2> QED
    BY <2>1, <2>2, <2>3, <2>4
<1>4. ASSUME NEW k \in Callers, NEW c \in Cards, NEW ok \in BOOLEAN, dismiss(k, c, ok)
      PROVE  SendInv'
  <2>1. SendTypes'
    BY <1>4 DEF SendTypes, dismiss, Decide, Persist, Goes, Status, callers
  <2>2. SenderIsAlone'
    BY <1>4 DEF SendTypes, SenderIsAlone, SentIsDecided, PushedOnce, Sending, dismiss,
       Decide, Persist, Goes, callers
  <2>3. SentIsDecided'
    BY <1>4 DEF SendTypes, SenderIsAlone, SentIsDecided, PushedOnce, Sending, dismiss,
       Decide, Persist, Goes, callers
  <2>4. PushedOnce'
    BY <1>4 DEF SendTypes, SenderIsAlone, PushedOnce, Sending, dismiss, Decide, Persist,
       Goes, callers
  <2> QED
    BY <2>1, <2>2, <2>3, <2>4
<1>5. ASSUME NEW k \in Callers, NEW c \in Cards, NEW ok \in BOOLEAN, edit(k, c, ok)
      PROVE  SendInv'
  <2>1. SendTypes'
    BY <1>5 DEF SendTypes, edit, Decide, Persist, Goes, Status, callers
  <2>2. SenderIsAlone'
    BY <1>5 DEF SendTypes, SenderIsAlone, SentIsDecided, PushedOnce, Sending, edit, Decide,
       Persist, Goes, callers
  <2>3. SentIsDecided'
    BY <1>5 DEF SendTypes, SenderIsAlone, SentIsDecided, PushedOnce, Sending, edit, Decide,
       Persist, Goes, callers
  <2>4. PushedOnce'
    BY <1>5 DEF SendTypes, SenderIsAlone, PushedOnce, Sending, edit, Decide, Persist, Goes,
       callers
  <2> QED
    BY <2>1, <2>2, <2>3, <2>4
<1>6. ASSUME NEW k \in Callers, NEW ok \in BOOLEAN, SendReply(k, ok) PROVE SendInv'
  <2>1. SendTypes'
    BY <1>6 DEF SendTypes, SendReply, Goes, callers
  <2>2. SenderIsAlone'
    BY <1>6 DEF SendTypes, SenderIsAlone, SentIsDecided, PushedOnce, Sending, SendReply, Goes,
       callers
  <2>3. SentIsDecided'
    BY <1>6 DEF SendTypes, SenderIsAlone, SentIsDecided, PushedOnce, Sending, SendReply, Goes,
       callers
  <2>4. PushedOnce'
    BY <1>6 DEF SendTypes, SenderIsAlone, PushedOnce, Sending, SendReply, Goes, callers
  <2> QED
    BY <2>1, <2>2, <2>3, <2>4
<1>7. ASSUME NEW k \in Callers, NEW ok \in BOOLEAN, MarkSent(k, ok) PROVE SendInv'
  <2>1. SendTypes'
    BY <1>7 DEF SendTypes, MarkSent, Persist, Goes, InQueue, Status, callers
  <2>2. SenderIsAlone'
    BY <1>7 DEF SendTypes, SenderIsAlone, SentIsDecided, PushedOnce, Sending, MarkSent,
       Persist, Goes, InQueue, callers
  <2>3. SentIsDecided'
    BY <1>7 DEF SendTypes, SenderIsAlone, SentIsDecided, PushedOnce, Sending, MarkSent,
       Persist, Goes, InQueue, callers
  <2>4. PushedOnce'
    BY <1>7 DEF SendTypes, SenderIsAlone, PushedOnce, Sending, MarkSent, Persist, Goes,
       InQueue, callers
  <2> QED
    BY <2>1, <2>2, <2>3, <2>4
<1>8. ASSUME NEW k \in Callers, NEW c \in Cards, RefineStart(k, c) PROVE SendInv'
  <2>1. SendTypes'
    BY <1>8 DEF SendTypes, RefineStart, Goes, callers
  <2>2. SenderIsAlone'
    BY <1>8 DEF SendTypes, SenderIsAlone, SentIsDecided, PushedOnce, Sending, RefineStart,
       Goes, callers
  <2>3. SentIsDecided'
    BY <1>8 DEF SendTypes, SenderIsAlone, SentIsDecided, PushedOnce, Sending, RefineStart,
       Goes, callers
  <2>4. PushedOnce'
    BY <1>8 DEF SendTypes, SenderIsAlone, PushedOnce, Sending, RefineStart, Goes, callers
  <2> QED
    BY <2>1, <2>2, <2>3, <2>4
<1>9. ASSUME NEW k \in Callers, NEW ok \in BOOLEAN, RefineApply(k, ok) PROVE SendInv'
  <2>1. SendTypes'
    BY <1>9 DEF SendTypes, RefineApply, Goes, callers
  <2>2. SenderIsAlone'
    BY <1>9 DEF SendTypes, SenderIsAlone, SentIsDecided, PushedOnce, Sending, RefineApply,
       Goes, callers
  <2>3. SentIsDecided'
    BY <1>9 DEF SendTypes, SenderIsAlone, SentIsDecided, PushedOnce, Sending, RefineApply,
       Goes, callers
  <2>4. PushedOnce'
    BY <1>9 DEF SendTypes, SenderIsAlone, PushedOnce, Sending, RefineApply, Goes, callers
  <2> QED
    BY <2>1, <2>2, <2>3, <2>4
<1>10. ASSUME NEW k \in Callers, NEW ok \in BOOLEAN, RefinePersist(k, ok) PROVE SendInv'
  <2>1. SendTypes'
    BY <1>10 DEF SendTypes, RefinePersist, Persist, Goes, Status, callers
  <2>2. SenderIsAlone'
    BY <1>10 DEF SendTypes, SenderIsAlone, SentIsDecided, PushedOnce, Sending,
       RefinePersist, Persist, Goes, callers
  <2>3. SentIsDecided'
    BY <1>10 DEF SendTypes, SenderIsAlone, SentIsDecided, PushedOnce, Sending,
       RefinePersist, Persist, Goes, callers
  <2>4. PushedOnce'
    BY <1>10 DEF SendTypes, SenderIsAlone, PushedOnce, Sending, RefinePersist, Persist,
       Goes, callers
  <2> QED
    BY <2>1, <2>2, <2>3, <2>4
<1>11. ASSUME NEW c \in Cards, Tick(c) PROVE SendInv'
  <2>1. SendTypes'
    BY <1>11 DEF SendTypes, Tick, callers
  <2>2. SenderIsAlone'
    BY <1>11 DEF SendTypes, SenderIsAlone, SentIsDecided, PushedOnce, Sending, Tick,
       callers
  <2>3. SentIsDecided'
    BY <1>11 DEF SendTypes, SenderIsAlone, SentIsDecided, PushedOnce, Sending, Tick,
       callers
  <2>4. PushedOnce'
    BY <1>11 DEF SendTypes, SenderIsAlone, PushedOnce, Sending, Tick, callers
  <2> QED
    BY <2>1, <2>2, <2>3, <2>4
<1>12. ASSUME NEW ok \in BOOLEAN, ExpireDb(ok) PROVE SendInv'
  <2>1. SendTypes'
    BY <1>12 DEF SendTypes, ExpireDb, Status, callers
  <2>2. SenderIsAlone'
    BY <1>12 DEF SendTypes, SenderIsAlone, SentIsDecided, PushedOnce, Sending, ExpireDb,
       callers
  <2>3. SentIsDecided'
    BY <1>12 DEF SendTypes, SenderIsAlone, SentIsDecided, PushedOnce, Sending, ExpireDb,
       callers
  <2>4. PushedOnce'
    BY <1>12 DEF SendTypes, SenderIsAlone, PushedOnce, Sending, ExpireDb, callers
  <2> QED
    BY <2>1, <2>2, <2>3, <2>4
<1>13. ASSUME ExpireMem PROVE SendInv'
  <2>1. SendTypes'
    BY <1>13 DEF SendTypes, ExpireMem, Status, callers
  <2>2. SenderIsAlone'
    BY <1>13 DEF SendTypes, SenderIsAlone, SentIsDecided, PushedOnce, Sending, ExpireMem,
       callers
  <2>3. SentIsDecided'
    BY <1>13 DEF SendTypes, SenderIsAlone, SentIsDecided, PushedOnce, Sending, ExpireMem,
       callers
  <2>4. PushedOnce'
    BY <1>13 DEF SendTypes, SenderIsAlone, PushedOnce, Sending, ExpireMem, callers
  <2> QED
    BY <2>1, <2>2, <2>3, <2>4
<1>14. ASSUME NEW ok \in BOOLEAN, Restart(ok) PROVE SendInv'
  <2>1. SendTypes'
    BY <1>14 DEF SendTypes, Restart, Status, callers
  <2>2. SenderIsAlone'
    BY <1>14 DEF SendTypes, SenderIsAlone, SentIsDecided, PushedOnce, Sending, Restart,
       callers
  <2>3. SentIsDecided'
    BY <1>14 DEF SendTypes, SenderIsAlone, SentIsDecided, PushedOnce, Sending, Restart,
       callers
  <2>4. PushedOnce'
    BY <1>14 DEF SendTypes, SenderIsAlone, PushedOnce, Sending, Restart, callers
  <2> QED
    BY <2>1, <2>2, <2>3, <2>4
<1>15. CASE UNCHANGED vars
  BY <1>15 DEF SendTypes, SenderIsAlone, SentIsDecided, PushedOnce, Sending, vars, callers
<1> QED
  BY <1>1, <1>2, <1>3, <1>4, <1>5, <1>6, <1>7, <1>8, <1>9,
     <1>10, <1>11, <1>12, <1>13, <1>14, <1>15
  DEF Next, Caller, User, Sweep, Push

\* Every behaviour of the card queue keeps the invariant.
THEOREM SendInvariant == Spec => []SendInv
  BY SendInit, SendStep, PTL DEF Spec

\* However many callers race, and whatever is refined, expired, pruned, reloaded or
\* fails to be written, one process sends the reply of a card at most once.
THEOREM SentOnce == Spec => []SentOncePerRun
<1>1. SendInv => SentOncePerRun
  BY DEF SendInv, SendTypes, SentIsDecided, SentOncePerRun
<1> QED
  BY <1>1, SendInvariant, PTL

-----------------------------------------------------------------------------
(* The refinement: Granted is the set of approvals that are not used up *)

\* Steps that move no caller into or out of "send" change nothing the Outbox sees, as
\* do steps that only let callers go.
LEMMA GrantedShrinks ==
    ASSUME sent' = sent,
           \A k \in Callers :
               kpc'[k] = "send" => kpc[k] = "send" /\ kcard'[k] = kcard[k]
    PROVE  OutboxOf!OutboxNext
<1>1. Granted' \subseteq Granted
  BY DEF Granted
<1> QED
  BY <1>1 DEF OutboxOf!OutboxNext, OutboxOf!Forfeit

\* An approval of an email card grants exactly that card.
LEMMA DecideGrants ==
    ASSUME SendInv, NEW k \in Callers, NEW c \in Cards,
           NEW s \in {"Approved", "Dismissed"}, NEW ok \in BOOLEAN, Decide(k, c, s, ok)
    PROVE  [OutboxOf!OutboxNext]_<<Granted, sent>>
<1>1. CASE s = "Approved" /\ c \in EmailCards
  <2>1. c \notin Granted
    BY DEF Granted, Decide, SendInv, SenderIsAlone, Sending
  <2>2. kpc' = [kpc EXCEPT ![k] = "send"] /\ kcard' = [kcard EXCEPT ![k] = c]
    BY <1>1 DEF Decide, Goes
  <2>3. Granted' = Granted \cup {c}
    <3>1. kpc[k] = "idle"
      BY DEF Decide
    <3> QED
      BY <2>2, <3>1 DEF Granted, SendInv, SendTypes
  <2>4. sent' = sent
    BY DEF Decide
  <2> QED
    BY <2>1, <2>3, <2>4 DEF OutboxOf!OutboxNext, OutboxOf!Grant
<1>2. CASE ~(s = "Approved" /\ c \in EmailCards)
  <2>1. Granted' = Granted /\ sent' = sent
    BY <1>2 DEF Decide, callers, Granted
  <2> QED
    BY <2>1
<1> QED
  BY <1>1, <1>2

\* A mail uses up the approval its sender holds, because it is alone with the card.
LEMMA SendDelivers ==
    ASSUME SendInv, NEW k \in Callers, SendReply(k, TRUE)
    PROVE  OutboxOf!OutboxNext
<1>1. kcard[k] \in Cards /\ Sending(k, kcard[k])
  BY DEF SendReply, SendInv, SenderIsAlone, Sending
<1>2. kcard[k] \in Granted
  BY <1>1 DEF Granted, Sending
<1>3. kpc' = [kpc EXCEPT ![k] = "mark"] /\ kcard' = [kcard EXCEPT ![k] = kcard[k]]
  BY DEF SendReply, Goes
<1>4. Granted' = Granted \ {kcard[k]}
  BY <1>1, <1>3 DEF Granted, SendInv, SendTypes, SenderIsAlone, Sending
<1>5. sent' = [sent EXCEPT ![kcard[k]] = @ + 1]
  BY DEF SendReply
<1> QED
  BY <1>1, <1>2, <1>4, <1>5 DEF OutboxOf!OutboxNext, OutboxOf!Deliver

\* Every step of the card queue is a step of the Outbox or invisible to it.
LEMMA OutboxStep ==
    SendInv /\ [Next]_vars => [OutboxOf!OutboxNext]_<<Granted, sent>>
<1> DEFINE Goal == [OutboxOf!OutboxNext]_<<Granted, sent>>
<1> SUFFICES ASSUME SendInv, [Next]_vars PROVE Goal
  OBVIOUS
<1>0. /\ kpc \in [Callers -> {"idle", "send", "mark", "llm", "persist"}]
      /\ kcard \in [Callers -> Cards \cup {NoCard}]
  BY DEF SendInv, SendTypes
<1>1. ASSUME UNCHANGED callers, sent' = sent PROVE Goal
  BY <1>1 DEF callers, Granted
<1>2. ASSUME NEW k \in Callers, NEW c \in Cards, User(k, c) PROVE Goal
  <2>1. ASSUME NEW ok \in BOOLEAN, approve(k, c, ok) \/ edit(k, c, ok) PROVE Goal
    BY <2>1, DecideGrants DEF approve, edit
  <2>2. ASSUME NEW ok \in BOOLEAN, dismiss(k, c, ok) PROVE Goal
    BY <2>2, DecideGrants DEF dismiss
  <2>3. ASSUME RefineStart(k, c) PROVE Goal
    BY <1>0, <2>3, GrantedShrinks DEF RefineStart, Goes
  <2> QED
    BY <1>2, <2>1, <2>2, <2>3 DEF User
<1>3. ASSUME NEW k \in Callers, Caller(k) PROVE Goal
  <2>1. ASSUME SendReply(k, TRUE) PROVE Goal
    BY <2>1, SendDelivers
  <2>2. ASSUME SendReply(k, FALSE) PROVE Goal
    BY <1>0, <2>2, GrantedShrinks DEF SendReply, Goes
  <2>3. ASSUME NEW ok \in BOOLEAN, MarkSent(k, ok) PROVE Goal
    BY <1>0, <2>3, GrantedShrinks DEF MarkSent, Goes
  <2>4. ASSUME NEW ok \in BOOLEAN, RefineApply(k, ok) PROVE Goal
    BY <1>0, <2>4, GrantedShrinks DEF RefineApply, Goes
  <2>5. ASSUME NEW ok \in BOOLEAN, RefinePersist(k, ok) PROVE Goal
    BY <1>0, <2>5, GrantedShrinks DEF RefinePersist, Goes
  <2> QED
    BY <1>3, <2>1, <2>2, <2>3, <2>4, <2>5 DEF Caller
<1>4. ASSUME NEW c \in Cards, Push(c) \/ Tick(c) PROVE Goal
  BY <1>4, <1>1 DEF Push, PushInsert, PushQueue, Tick
<1>5. ASSUME Sweep PROVE Goal
  BY <1>5, <1>1 DEF Sweep, ExpireDb, ExpireMem
<1>6. ASSUME NEW ok \in BOOLEAN, Restart(ok) PROVE Goal
  BY <1>6, GrantedShrinks DEF Restart
<1>7. CASE UNCHANGED vars
  BY <1>7, <1>1 DEF vars
<1> QED
  BY <1>2, <1>3, <1>4, <1>5, <1>6, <1>7 DEF Next

\* The card queue implements the Outbox: no mail without an approval of its own.
THEOREM RefinesOutbox == Spec => ImplementsOutbox
<1>1. Init => OutboxOf!OutboxInit
  BY DEF Init, OutboxOf!OutboxInit, Granted
<1> QED
  BY <1>1, SendInvariant, OutboxStep, PTL DEF Spec, ImplementsOutbox, OutboxOf!OutboxSpec
-----------------------------------------------------------------------------
(* What the table owes to the memory: types, pending cards and sent cards. *)

\* While no statement has failed, a card whose insertion is done and whose push_back
\* is not is pending in the table, unless it has run out.
InsertedIsPending ==
    spent["dbfault"] = 0 =>
        \A c \in Cards : push[c] = "inserted" /\ c \notin past => db[c] = "Pending"

\* Without a refinement nobody is about to write a refined text.
NoRefiner == spent["refine"] = 0 => \A k \in Callers : kpc[k] \notin {"llm", "persist"}

\* While no statement has failed and nobody refines, a card that is being sent or
\* was ever sent is decided in memory and in the table, so that no restart brings it
\* back, and it is not sent again.
SentStaysDecided ==
    spent["refine"] = 0 /\ spent["dbfault"] = 0 =>
        /\ \A c \in Cards : sent[c] # 0 => /\ mem[c] # "Pending" /\ db[c] # "Pending"
                                           /\ push[c] = "done" /\ sent[c] = 1
        /\ \A k \in Callers, c \in Cards : Sending(k, c) => db[c] # "Pending" /\ sent[c] = 0

TableInv ==
    /\ SendInv /\ TypeOK
    /\ PendingSurvives /\ InsertedIsPending /\ NoRefiner /\ SentStaysDecided

\* A statement on one row: its type, and that a failure is counted.
LEMMA PersistOK ==
  ASSUME TypeOK, NEW c \in Cards, NEW s \in Status, NEW ok \in BOOLEAN, Persist(c, s, ok)
  PROVE  /\ db' \in [Cards -> Status \cup {"Absent"}]
         /\ \A e \in Cards \ {c} : db'[e] = db[e]
         /\ db'[c] = IF ok /\ db[c] # "Absent" THEN s ELSE db[c]
         /\ spent' \in [Disturbances -> Nat]
         /\ spent'["refine"] = spent["refine"]
         /\ spent'["dbfault"] = 0 => ok /\ spent["dbfault"] = 0
<1>1. CASE ok
  BY <1>1 DEF TypeOK, Persist, Disturbances
<1>2. CASE ~ok
  <2>1. spent' = [spent EXCEPT !["dbfault"] = @ + 1] /\ db' = db
    BY <1>2 DEF Persist, Spend
  <2> QED BY <1>2, <2>1 DEF TypeOK, Disturbances
<1> QED BY <1>1, <1>2

\* One more mail of a card.
LEMMA OneMore ==
  ASSUME NEW f \in [Cards -> Nat], NEW c \in Cards
  PROVE  [f EXCEPT ![c] = @ + 1] \in [Cards -> Nat]
  OBVIOUS

\* The order in which a restart loads its cards is a sequence of cards.
LEMMA OrdersType ==
  ASSUME NEW L \in SUBSET Cards, NEW o \in Orders(L)
  PROVE  o \in Seq(Cards)
<1>1. Cardinality(L) \in Nat
  BY FiniteAssumption, FS_Subset, FS_CardinalityType
<1> QED BY <1>1 DEF Orders

\* Every step of the card queue keeps what the table owes.
LEMMA TableStep == TableInv /\ [Next]_vars => TableInv'
<1> SUFFICES ASSUME TableInv, [Next]_vars PROVE TableInv'
  OBVIOUS
<1>a. SendInv /\ SendInv'
  BY SendStep DEF TableInv
<1>b. TypeOK /\ PendingSurvives /\ InsertedIsPending /\ NoRefiner /\ SentStaysDecided
  BY DEF TableInv
<1> DEFINE Held == /\ TypeOK' /\ PendingSurvives' /\ InsertedIsPending'
                   /\ NoRefiner' /\ SentStaysDecided'
<1>1. ASSUME NEW c \in Cards, NEW ok \in BOOLEAN, PushInsert(c, ok)
      PROVE  Held
  <2>1. TypeOK'
    BY <1>1, <1>b DEF TypeOK, callers, Disturbances, Status, PushInsert, Spend
  <2>2. PendingSurvives'
    BY <1>1, <1>a, <1>b DEF TypeOK, callers, Disturbances, PendingSurvives, PushInsert,
       Spend, InsertedIsPending, SendInv, PushedOnce
  <2>3. InsertedIsPending'
    BY <1>1, <1>a, <1>b DEF TypeOK, callers, Disturbances, InsertedIsPending, PushInsert,
       Spend, SendInv, PushedOnce, SenderIsAlone
  <2>4. NoRefiner'
    BY <1>1, <1>a, <1>b DEF TypeOK, callers, Disturbances, NoRefiner, PushInsert, Spend
  <2>5. SentStaysDecided'
    BY <1>1, <1>a, <1>b DEF TypeOK, callers, Disturbances, Sending, SentStaysDecided,
       PushInsert, Spend, SendInv, SenderIsAlone, SentIsDecided, PushedOnce, NoRefiner,
       PendingSurvives, InsertedIsPending
  <2> QED BY <2>1, <2>2, <2>3, <2>4, <2>5
<1>2. ASSUME NEW c \in Cards, PushQueue(c)
      PROVE  Held
  <2>1. TypeOK'
    BY <1>2, <1>b DEF TypeOK, callers, Disturbances, Status, PushQueue
  <2>2. PendingSurvives'
    BY <1>2, <1>a, <1>b DEF TypeOK, callers, Disturbances, PendingSurvives, PushQueue,
       InsertedIsPending, SendInv, PushedOnce
  <2>3. InsertedIsPending'
    BY <1>2, <1>a, <1>b DEF TypeOK, callers, Disturbances, InsertedIsPending, PushQueue,
       SendInv, PushedOnce, SenderIsAlone
  <2>4. NoRefiner'
    BY <1>2, <1>a, <1>b DEF TypeOK, callers, Disturbances, NoRefiner, PushQueue
  <2>5. SentStaysDecided'
    BY <1>2, <1>a, <1>b DEF TypeOK, callers, Disturbances, Sending, SentStaysDecided,
       PushQueue, SendInv, SenderIsAlone, SentIsDecided, PushedOnce, NoRefiner,
       PendingSurvives, InsertedIsPending
  <2> QED BY <2>1, <2>2, <2>3, <2>4, <2>5
<1>3. ASSUME NEW k \in Callers, NEW c \in Cards, NEW s \in {"Approved", "Dismissed"},
             NEW ok \in BOOLEAN,
       Decide(k, c, s, ok)
      PROVE  Held
  <2>0. Persist(c, s, ok) /\ s \in Status
    BY <1>3 DEF Decide, Status
  <2>p. /\ db' \in [Cards -> Status \cup {"Absent"}]
        /\ \A e \in Cards \ {c} : db'[e] = db[e]
        /\ db'[c] = IF ok /\ db[c] # "Absent" THEN s ELSE db[c]
        /\ spent' \in [Disturbances -> Nat]
        /\ spent'["refine"] = spent["refine"]
        /\ spent'["dbfault"] = 0 => ok /\ spent["dbfault"] = 0
    <3>1. TypeOK
      BY <1>b
    <3> QED BY <3>1, <2>0, PersistOK
  <2>1. TypeOK'
    <3>1. /\ mem' = [mem EXCEPT ![c] = s] /\ mem' \in [Cards -> Status \cup {"Absent"}]
          /\ order' = order /\ past' = past /\ push' = push /\ spc' = spc
          /\ sent' = sent /\ sentRun' = sentRun
      BY <1>3, <1>b, <2>0 DEF TypeOK, Decide
    <3>2. /\ kpc' \in [Callers -> {"idle", "send", "mark", "llm", "persist"}]
          /\ kcard' \in [Callers -> Cards \cup {NoCard}]
      <4>1. /\ kpc \in [Callers -> {"idle", "send", "mark", "llm", "persist"}]
            /\ kcard \in [Callers -> Cards \cup {NoCard}]
        BY <1>b DEF TypeOK
      <4>2. \/ kpc' = [kpc EXCEPT ![k] = "send"] /\ kcard' = [kcard EXCEPT ![k] = c]
            \/ kpc' = kpc /\ kcard' = kcard
        BY <1>3 DEF Decide, Goes, callers
      <4>3. CASE kpc' = [kpc EXCEPT ![k] = "send"] /\ kcard' = [kcard EXCEPT ![k] = c]
        BY <4>1, <4>3
      <4>4. CASE kpc' = kpc /\ kcard' = kcard
        BY <4>1, <4>4
      <4> QED BY <4>2, <4>3, <4>4
    <3> QED BY <1>b, <2>p, <3>1, <3>2 DEF TypeOK
  <2>2. PendingSurvives'
    BY <1>3, <1>a, <1>b, <2>p DEF TypeOK, callers, Disturbances, PendingSurvives, Decide,
       Goes, InsertedIsPending, SendInv, PushedOnce
  <2>3. InsertedIsPending'
    BY <1>3, <1>a, <1>b, <2>p DEF TypeOK, callers, Disturbances, InsertedIsPending, Decide,
       Goes, SendInv, PushedOnce, SenderIsAlone
  <2>4. NoRefiner'
    BY <1>3, <1>a, <1>b, <2>p DEF TypeOK, callers, Disturbances, NoRefiner, Decide, Goes
  <2>5. SentStaysDecided'
    BY <1>3, <1>a, <1>b, <2>p DEF TypeOK, callers, Disturbances, Sending, SentStaysDecided,
       Decide, Goes, SendInv, SenderIsAlone, SentIsDecided, PushedOnce, NoRefiner,
       PendingSurvives, InsertedIsPending
  <2> QED BY <2>1, <2>2, <2>3, <2>4, <2>5
<1>4. ASSUME NEW k \in Callers, NEW ok \in BOOLEAN, SendReply(k, ok)
      PROVE  Held
  <2>0. kcard[k] \in Cards
    BY <1>4, <1>a, <1>b DEF SendReply, SendInv, SenderIsAlone
  <2>1. TypeOK'
    <3>1. sent' \in [Cards -> Nat] /\ sentRun' \in [Cards -> Nat]
      <4>1. sent \in [Cards -> Nat] /\ sentRun \in [Cards -> Nat]
        BY <1>b DEF TypeOK
      <4>2. /\ sent' \in {sent, [sent EXCEPT ![kcard[k]] = @ + 1]}
            /\ sentRun' \in {sentRun, [sentRun EXCEPT ![kcard[k]] = @ + 1]}
        BY <1>4, Zenon DEF SendReply
      <4> QED BY <2>0, <4>1, <4>2, OneMore
    <3>2. /\ kpc' \in [Callers -> {"idle", "send", "mark", "llm", "persist"}]
          /\ kcard' \in [Callers -> Cards \cup {NoCard}]
      <4>1. /\ kpc \in [Callers -> {"idle", "send", "mark", "llm", "persist"}]
            /\ kcard \in [Callers -> Cards \cup {NoCard}]
        BY <1>b DEF TypeOK
      <4>2. \/ kpc' = [kpc EXCEPT ![k] = "mark"] /\ kcard' = [kcard EXCEPT ![k] = kcard[k]]
            \/ kpc' = [kpc EXCEPT ![k] = "idle"] /\ kcard' = [kcard EXCEPT ![k] = NoCard]
        BY <1>4 DEF SendReply, Goes
      <4>3. CASE kpc' = [kpc EXCEPT ![k] = "mark"] /\ kcard' = [kcard EXCEPT ![k] = kcard[k]]
        BY <4>1, <4>3, <2>0
      <4>4. CASE kpc' = [kpc EXCEPT ![k] = "idle"] /\ kcard' = [kcard EXCEPT ![k] = NoCard]
        BY <4>1, <4>4
      <4> QED BY <4>2, <4>3, <4>4
    <3> QED
      BY <1>4, <1>b, <3>1, <3>2 DEF TypeOK, SendReply
  <2>2. PendingSurvives'
    BY <1>4, <1>a, <1>b, <2>0 DEF TypeOK, callers, Disturbances, PendingSurvives,
       SendReply, Goes, InsertedIsPending, SendInv, PushedOnce
  <2>3. InsertedIsPending'
    BY <1>4, <1>a, <1>b, <2>0 DEF TypeOK, callers, Disturbances, InsertedIsPending,
       SendReply, Goes, SendInv, PushedOnce, SenderIsAlone
  <2>4. NoRefiner'
    BY <1>4, <1>a, <1>b, <2>0 DEF TypeOK, callers, Disturbances, NoRefiner, SendReply, Goes
  <2>5. SentStaysDecided'
    <3> SUFFICES ASSUME spent["refine"] = 0, spent["dbfault"] = 0
                 PROVE  /\ \A e \in Cards : sent'[e] # 0 =>
                              /\ mem[e] # "Pending" /\ db[e] # "Pending"
                              /\ push[e] = "done" /\ sent'[e] = 1
                        /\ \A j \in Callers, e \in Cards :
                              Sending(j, e)' => db[e] # "Pending" /\ sent'[e] = 0
      BY <1>4 DEF SendReply, SentStaysDecided
    <3>1. Sending(k, kcard[k])
      BY <1>4 DEF SendReply, Sending
    <3>2. /\ mem[kcard[k]] # "Pending" /\ db[kcard[k]] # "Pending"
          /\ push[kcard[k]] = "done" /\ sent[kcard[k]] = 0
          /\ \A j \in Callers : Sending(j, kcard[k]) => j = k
      BY <2>0, <3>1, <1>a, <1>b DEF SendInv, SenderIsAlone, SentStaysDecided
    <3>3. ASSUME NEW j \in Callers, NEW e \in Cards, Sending(j, e)'
          PROVE  Sending(j, e) /\ j # k
      BY <3>3, <1>4, <1>b DEF SendReply, Goes, Sending, TypeOK
    <3>4. sent' \in [Cards -> Nat] /\ \A e \in Cards \ {kcard[k]} : sent'[e] = sent[e]
      BY <1>4, <1>b, <2>0 DEF SendReply, TypeOK
    <3>5. sent'[kcard[k]] \in {0, 1}
      BY <1>4, <1>b, <2>0, <3>2 DEF SendReply, TypeOK
    <3> QED
      BY <1>b, <2>0, <3>2, <3>3, <3>4, <3>5 DEF SentStaysDecided
  <2> QED BY <2>1, <2>2, <2>3, <2>4, <2>5
<1>5. ASSUME NEW k \in Callers, NEW ok \in BOOLEAN, MarkSent(k, ok)
      PROVE  Held
  <2>0. kcard[k] \in Cards
    BY <1>5, <1>a, <1>b DEF SendInv, SenderIsAlone, MarkSent
  <2>p. /\ db' \in [Cards -> Status \cup {"Absent"}]
        /\ \A e \in Cards \ {kcard[k]} : db'[e] = db[e]
        /\ db'[kcard[k]] \in {"Sent", db[kcard[k]]}
        /\ spent' \in [Disturbances -> Nat]
        /\ spent'["refine"] = spent["refine"]
        /\ spent'["dbfault"] = 0 => spent["dbfault"] = 0
    <3>1. CASE InQueue(kcard[k])
      <4>1. Persist(kcard[k], "Sent", ok) /\ "Sent" \in Status
        BY <1>5, <3>1 DEF MarkSent, Status
      <4> QED BY <1>b, <2>0, <4>1, PersistOK
    <3>2. CASE ~InQueue(kcard[k])
      BY <1>5, <1>b, <3>2 DEF MarkSent, TypeOK
    <3> QED BY <3>1, <3>2
  <2>1. TypeOK'
    BY <1>5, <1>b, <2>0, <2>p, ZenonT(60) DEF TypeOK, callers, Disturbances, Status, MarkSent, Goes,
       InQueue
  <2>2. PendingSurvives'
    BY <1>5, <1>a, <1>b, <2>0, <2>p DEF TypeOK, callers, Disturbances, PendingSurvives,
       MarkSent, Goes, InQueue, InsertedIsPending, SendInv, PushedOnce
  <2>3. InsertedIsPending'
    BY <1>5, <1>a, <1>b, <2>0, <2>p DEF TypeOK, callers, Disturbances, InsertedIsPending,
       MarkSent, Goes, InQueue, SendInv, PushedOnce, SenderIsAlone
  <2>4. NoRefiner'
    BY <1>5, <1>a, <1>b, <2>0, <2>p DEF TypeOK, callers, Disturbances, NoRefiner, MarkSent,
       Goes, InQueue
  <2>5. SentStaysDecided'
    BY <1>5, <1>a, <1>b, <2>0, <2>p DEF TypeOK, callers, Disturbances, Sending,
       SentStaysDecided, MarkSent, Goes, InQueue, SendInv, SenderIsAlone, SentIsDecided,
       PushedOnce, NoRefiner, PendingSurvives, InsertedIsPending
  <2> QED BY <2>1, <2>2, <2>3, <2>4, <2>5
<1>6. ASSUME NEW k \in Callers, NEW c \in Cards, RefineStart(k, c)
      PROVE  Held
  <2>1. TypeOK'
    BY <1>6, <1>b DEF TypeOK, callers, Disturbances, Status, RefineStart, Goes, Spend
  <2>2. PendingSurvives'
    BY <1>6, <1>a, <1>b DEF TypeOK, callers, Disturbances, PendingSurvives, RefineStart,
       Goes, Spend, InsertedIsPending, SendInv, PushedOnce
  <2>3. InsertedIsPending'
    BY <1>6, <1>a, <1>b DEF TypeOK, callers, Disturbances, InsertedIsPending, RefineStart,
       Goes, Spend, SendInv, PushedOnce, SenderIsAlone
  <2>4. NoRefiner'
    BY <1>6, <1>a, <1>b DEF TypeOK, callers, Disturbances, NoRefiner, RefineStart, Goes, Spend
  <2>5. SentStaysDecided'
    BY <1>6, <1>a, <1>b DEF TypeOK, callers, Disturbances, Sending, SentStaysDecided,
       RefineStart, Goes, Spend, SendInv, SenderIsAlone, SentIsDecided, PushedOnce,
       NoRefiner, PendingSurvives, InsertedIsPending
  <2> QED BY <2>1, <2>2, <2>3, <2>4, <2>5
<1>7. ASSUME NEW k \in Callers, NEW ok \in BOOLEAN, RefineApply(k, ok)
      PROVE  Held
  <2>1. TypeOK'
    BY <1>7, <1>b, ZenonT(60) DEF TypeOK, callers, Disturbances, Status, RefineApply, Goes
  <2>2. PendingSurvives'
    BY <1>7, <1>a, <1>b DEF TypeOK, callers, Disturbances, PendingSurvives, RefineApply,
       Goes, InsertedIsPending, SendInv, PushedOnce
  <2>3. InsertedIsPending'
    BY <1>7, <1>a, <1>b DEF TypeOK, callers, Disturbances, InsertedIsPending, RefineApply,
       Goes, SendInv, PushedOnce, SenderIsAlone
  <2>4. NoRefiner'
    BY <1>7, <1>a, <1>b DEF TypeOK, callers, Disturbances, NoRefiner, RefineApply, Goes
  <2>5. SentStaysDecided'
    BY <1>7, <1>a, <1>b DEF TypeOK, callers, Disturbances, Sending, SentStaysDecided,
       RefineApply, Goes, SendInv, SenderIsAlone, SentIsDecided, PushedOnce, NoRefiner,
       PendingSurvives, InsertedIsPending
  <2> QED BY <2>1, <2>2, <2>3, <2>4, <2>5
<1>8. ASSUME NEW k \in Callers, NEW ok \in BOOLEAN, RefinePersist(k, ok)
      PROVE  Held
  <2>0. kcard[k] \in Cards
    BY <1>8, <1>a, <1>b DEF SendInv, SenderIsAlone, RefinePersist
  <2>p. /\ db' \in [Cards -> Status \cup {"Absent"}]
        /\ \A e \in Cards \ {kcard[k]} : db'[e] = db[e]
        /\ db'[kcard[k]] \in {"Pending", db[kcard[k]]}
        /\ spent' \in [Disturbances -> Nat]
        /\ spent'["refine"] = spent["refine"]
        /\ spent'["dbfault"] = 0 => ok /\ spent["dbfault"] = 0
        /\ ok /\ db[kcard[k]] # "Absent" => db'[kcard[k]] = "Pending"
    <3>1. Persist(kcard[k], "Pending", ok) /\ "Pending" \in Status
      BY <1>8 DEF RefinePersist, Status
    <3> QED BY <1>b, <2>0, <3>1, PersistOK
  <2>1. TypeOK'
    BY <1>8, <1>b, <2>0, <2>p DEF TypeOK, callers, Disturbances, Status, RefinePersist, Goes
  <2>2. PendingSurvives'
    BY <1>8, <1>a, <1>b, <2>0, <2>p DEF TypeOK, callers, Disturbances, PendingSurvives,
       RefinePersist, Goes, InsertedIsPending, SendInv, PushedOnce
  <2>3. InsertedIsPending'
    BY <1>8, <1>a, <1>b, <2>0, <2>p DEF TypeOK, callers, Disturbances, InsertedIsPending,
       RefinePersist, Goes, SendInv, PushedOnce, SenderIsAlone
  <2>4. NoRefiner'
    BY <1>8, <1>a, <1>b, <2>0, <2>p DEF TypeOK, callers, Disturbances, NoRefiner,
       RefinePersist, Goes
  <2>5. SentStaysDecided'
    BY <1>8, <1>a, <1>b, <2>0, <2>p DEF TypeOK, callers, Disturbances, Sending,
       SentStaysDecided, RefinePersist, Goes, SendInv, SenderIsAlone, SentIsDecided,
       PushedOnce, NoRefiner, PendingSurvives, InsertedIsPending
  <2> QED BY <2>1, <2>2, <2>3, <2>4, <2>5
<1>9. ASSUME NEW c \in Cards, Tick(c)
      PROVE  Held
  <2>1. TypeOK'
    BY <1>9, <1>b DEF TypeOK, callers, Disturbances, Status, Tick
  <2>2. PendingSurvives'
    BY <1>9, <1>a, <1>b DEF TypeOK, callers, Disturbances, PendingSurvives, Tick,
       InsertedIsPending, SendInv, PushedOnce
  <2>3. InsertedIsPending'
    BY <1>9, <1>a, <1>b DEF TypeOK, callers, Disturbances, InsertedIsPending, Tick,
       SendInv, PushedOnce, SenderIsAlone
  <2>4. NoRefiner'
    BY <1>9, <1>a, <1>b DEF TypeOK, callers, Disturbances, NoRefiner, Tick
  <2>5. SentStaysDecided'
    BY <1>9, <1>a, <1>b DEF TypeOK, callers, Disturbances, Sending, SentStaysDecided, Tick,
       SendInv, SenderIsAlone, SentIsDecided, PushedOnce, NoRefiner, PendingSurvives,
       InsertedIsPending
  <2> QED BY <2>1, <2>2, <2>3, <2>4, <2>5
<1>10. ASSUME NEW ok \in BOOLEAN, ExpireDb(ok)
      PROVE  Held
  <2>1. TypeOK'
    BY <1>10, <1>b DEF TypeOK, callers, Disturbances, Status, ExpireDb, Spend
  <2>2. PendingSurvives'
    BY <1>10, <1>a, <1>b DEF TypeOK, callers, Disturbances, PendingSurvives, ExpireDb,
       Spend, InsertedIsPending, SendInv, PushedOnce
  <2>3. InsertedIsPending'
    BY <1>10, <1>a, <1>b DEF TypeOK, callers, Disturbances, InsertedIsPending, ExpireDb,
       Spend, SendInv, PushedOnce, SenderIsAlone
  <2>4. NoRefiner'
    BY <1>10, <1>a, <1>b DEF TypeOK, callers, Disturbances, NoRefiner, ExpireDb, Spend
  <2>5. SentStaysDecided'
    BY <1>10, <1>a, <1>b DEF TypeOK, callers, Disturbances, Sending, SentStaysDecided,
       ExpireDb, Spend, SendInv, SenderIsAlone, SentIsDecided, PushedOnce, NoRefiner,
       PendingSurvives, InsertedIsPending
  <2> QED BY <2>1, <2>2, <2>3, <2>4, <2>5
<1>11. ASSUME ExpireMem
      PROVE  Held
  <2>o. order' \in Seq(Cards)
    <3>1. \E G : order' = Sift(order, G)
      BY <1>11 DEF ExpireMem
    <3>2. order \in Seq(Cards)
      BY <1>b DEF TypeOK
    <3>3. \A G : Sift(order, G) \in Seq(Cards \cap G)
      BY <3>2, SiftType
    <3>4. PICK G : order' = Sift(order, G)
      BY <3>1
    <3>5. order' \in Seq(Cards \cap G) /\ Cards \cap G \subseteq Cards
      BY <3>3, <3>4
    <3> QED BY <3>5, SeqMonotonic
  <2>1. TypeOK'
    BY <1>11, <1>b, <2>o DEF TypeOK, callers, Disturbances, Status, ExpireMem
  <2>2. PendingSurvives'
    BY <1>11, <1>a, <1>b DEF TypeOK, callers, Disturbances, PendingSurvives, ExpireMem,
       InsertedIsPending, SendInv, PushedOnce
  <2>3. InsertedIsPending'
    BY <1>11, <1>a, <1>b DEF TypeOK, callers, Disturbances, InsertedIsPending, ExpireMem,
       SendInv, PushedOnce, SenderIsAlone
  <2>4. NoRefiner'
    BY <1>11, <1>a, <1>b DEF TypeOK, callers, Disturbances, NoRefiner, ExpireMem
  <2>5. SentStaysDecided'
    BY <1>11, <1>a, <1>b DEF TypeOK, callers, Disturbances, Sending, SentStaysDecided,
       ExpireMem, SendInv, SenderIsAlone, SentIsDecided, PushedOnce, NoRefiner,
       PendingSurvives, InsertedIsPending
  <2> QED BY <2>1, <2>2, <2>3, <2>4, <2>5
<1>12. ASSUME NEW ok \in BOOLEAN, Restart(ok)
      PROVE  Held
  <2>o. order' \in Seq(Cards)
    BY <1>12, OrdersType DEF Restart
  <2>1. TypeOK'
    BY <1>12, <1>b, <2>o DEF TypeOK, callers, Disturbances, Status, Restart
  <2>2. PendingSurvives'
    BY <1>12, <1>a, <1>b DEF TypeOK, callers, Disturbances, PendingSurvives, Restart,
       InsertedIsPending, SendInv, PushedOnce
  <2>3. InsertedIsPending'
    BY <1>12, <1>a, <1>b DEF TypeOK, callers, Disturbances, InsertedIsPending, Restart,
       SendInv, PushedOnce, SenderIsAlone
  <2>4. NoRefiner'
    BY <1>12, <1>a, <1>b DEF TypeOK, callers, Disturbances, NoRefiner, Restart
  <2>5. SentStaysDecided'
    BY <1>12, <1>a, <1>b DEF TypeOK, callers, Disturbances, Sending, SentStaysDecided,
       Restart, SendInv, SenderIsAlone, SentIsDecided, PushedOnce, NoRefiner,
       PendingSurvives, InsertedIsPending
  <2> QED BY <2>1, <2>2, <2>3, <2>4, <2>5
<1>13. ASSUME UNCHANGED vars PROVE Held
  <2>1. UNCHANGED <<mem, order, db, past, push, kpc, kcard, spc, sent, sentRun, spent>>
    BY <1>13 DEF vars, callers
  <2>2. TypeOK' /\ PendingSurvives' /\ InsertedIsPending'
    BY <1>b, <2>1 DEF TypeOK, PendingSurvives, InsertedIsPending
  <2>3. NoRefiner' /\ SentStaysDecided'
    BY <1>b, <2>1 DEF NoRefiner, SentStaysDecided, Sending
  <2> QED BY <2>2, <2>3
<1>15. ASSUME NEW k \in Callers, NEW c \in Cards, User(k, c)
       PROVE  Held
  <2> HIDE DEF Held
  <2> QED BY <1>15, <1>3, <1>6 DEF User, approve, dismiss, edit
<1>14. Held
  <2> HIDE DEF Held
  <2> QED
  BY <1>1, <1>2, <1>3, <1>4, <1>5, <1>6, <1>7, <1>8, <1>9, <1>10, <1>11, <1>12, <1>13, <1>15
     DEF Next, Caller, Sweep, Push
<1> QED
  BY <1>a, <1>14 DEF TableInv

\* Initially table, queue and callers are empty.
LEMMA TableInit == Init => TableInv
<1> SUFFICES ASSUME Init PROVE TableInv
  OBVIOUS
<1>1. SendInv
  BY SendInit
<1>2. TypeOK
  BY EmptySeq DEF Init, TypeOK, Disturbances
<1> QED
  BY <1>1, <1>2 DEF Init, TableInv, PendingSurvives, InsertedIsPending, NoRefiner,
     SentStaysDecided, Sending, Disturbances

\* Every behaviour keeps the table invariant.
THEOREM TableInvariant == Spec => []TableInv
  BY TableInit, TableStep, PTL DEF Spec

\* What with_db() reads after a crash at any moment is enough, for any number of
\* cards and callers: every pending card that has not run out is in the table as
\* pending, and no card that was sent is (unless a statement failed or a
\* refinement wrote its text late).
THEOREM TableHoldsTheCards == Spec => []TableIsEnough
<1>1. TableInv => TableIsEnough
  <2> SUFFICES ASSUME TableInv PROVE SentAtMostOnce
    BY DEF TableInv, TableIsEnough
  <2>1. ASSUME NEW c \in Cards, spent["refine"] = 0, spent["dbfault"] = 0 PROVE sent[c] <= 1
    <3>1. sent[c] \in Nat /\ (sent[c] # 0 => sent[c] = 1)
      BY <2>1 DEF TableInv, SentStaysDecided, TypeOK
    <3> QED BY <3>1
  <2> QED
    BY <2>1 DEF SentAtMostOnce
<1> QED BY <1>1, TableInvariant, PTL
-----------------------------------------------------------------------------
(* Decisions are final: what a step may do to a card in memory. *)

\* A caller that sends a reply, or has sent it, holds a card whose push is over and
\* that is approved, sent by now or gone.
SenderHasDecided ==
    \A k \in Callers : kpc[k] \in {"send", "mark"} =>
        /\ kcard[k] \in Cards
        /\ mem[kcard[k]] \in {"Approved", "Sent", "Absent"}
        /\ push[kcard[k]] = "done"

FinalInv == TableInv /\ SenderHasDecided

\* prune removes cards that are not pending.
LEMMA PrunedIsDecided ==
  ASSUME order \in Seq(Cards), NEW m, NEW c \in Pruned(m)
  PROVE  c \in Cards /\ m[c] # "Pending"
<1> DEFINE D == {e \in Cards : m[e] # "Pending"}
           history == Sift(order, D)
<1>1. history \in Seq(Cards \cap D)
  BY SiftType
<1>2. c \in {history[i] : i \in DOMAIN history}
  <2> HIDE DEF D
  <2> QED BY DEF Pruned, D
<1>3. c \in D
  <2> HIDE DEF history, D
  <2> QED BY <1>1, <1>2
<1> QED BY <1>3

\* Every step of the card queue keeps the invariant.
LEMMA FinalStep == FinalInv /\ [Next]_vars => FinalInv'
<1> SUFFICES ASSUME FinalInv, [Next]_vars PROVE FinalInv'
  OBVIOUS
<1>a. TableInv /\ TableInv'
  BY TableStep DEF FinalInv
<1>b. TypeOK /\ SenderHasDecided /\ PushedOnce /\ SenderIsAlone
  BY DEF FinalInv, TableInv, SendInv
<1>1. ASSUME NEW c \in Cards, NEW ok \in BOOLEAN, PushInsert(c, ok)
      PROVE  SenderHasDecided'
  BY <1>1, <1>b DEF SenderHasDecided, TypeOK, callers, PushInsert
<1>2. ASSUME NEW c \in Cards, PushQueue(c)
      PROVE  SenderHasDecided'
  BY <1>2, <1>b DEF SenderHasDecided, TypeOK, callers, PushQueue
<1>3. ASSUME NEW k \in Callers, NEW c \in Cards, NEW s \in {"Approved", "Dismissed"},
             NEW ok \in BOOLEAN,
       Decide(k, c, s, ok)
      PROVE  SenderHasDecided'
  <2> SUFFICES ASSUME NEW j \in Callers, kpc'[j] \in {"send", "mark"}
               PROVE  /\ kcard'[j] \in Cards
                      /\ mem'[kcard'[j]] \in {"Approved", "Sent", "Absent"}
                      /\ push'[kcard'[j]] = "done"
    BY DEF SenderHasDecided
  <2>1. push[c] = "done" /\ push' = push /\ mem[c] = "Pending"
    BY <1>3, <1>b DEF Decide, PushedOnce, TypeOK
  <2>2. CASE s = "Approved" /\ c \in EmailCards /\ j = k
    BY <1>3, <1>b, <2>1, <2>2 DEF Decide, Goes, TypeOK
  <2>3. CASE ~(s = "Approved" /\ c \in EmailCards /\ j = k)
    <3>1. kpc'[j] = kpc[j] /\ kcard'[j] = kcard[j]
      BY <1>3, <1>b, <2>3 DEF Decide, Goes, TypeOK, callers
    <3>2. kcard[j] \in Cards /\ kcard[j] # c
      BY <1>b, <3>1, <2>1 DEF SenderHasDecided
    <3> QED BY <1>3, <1>b, <2>1, <3>1, <3>2 DEF Decide, SenderHasDecided, TypeOK
  <2> QED BY <2>2, <2>3
<1>4. ASSUME NEW k \in Callers, NEW ok \in BOOLEAN, SendReply(k, ok)
      PROVE  SenderHasDecided'
  <2> SUFFICES ASSUME NEW j \in Callers, kpc'[j] \in {"send", "mark"}
               PROVE  /\ kcard'[j] \in Cards
                      /\ mem'[kcard'[j]] \in {"Approved", "Sent", "Absent"}
                      /\ push'[kcard'[j]] = "done"
    BY DEF SenderHasDecided
  <2>1. kpc[k] = "send" /\ UNCHANGED <<mem, push>>
    BY <1>4 DEF SendReply
  <2>2. kpc[j] \in {"send", "mark"} /\ kcard'[j] = kcard[j]
    BY <1>4, <1>b, <2>1 DEF SendReply, Goes, TypeOK
  <2> QED BY <1>b, <2>1, <2>2 DEF SenderHasDecided
<1>5. ASSUME NEW k \in Callers, NEW ok \in BOOLEAN, MarkSent(k, ok)
      PROVE  SenderHasDecided'
  BY <1>5, <1>b DEF SenderHasDecided, TypeOK, callers, MarkSent, Goes, InQueue
<1>6. ASSUME NEW k \in Callers, NEW c \in Cards, RefineStart(k, c)
      PROVE  SenderHasDecided'
  BY <1>6, <1>b DEF SenderHasDecided, TypeOK, callers, RefineStart, Goes
<1>7. ASSUME NEW k \in Callers, NEW ok \in BOOLEAN, RefineApply(k, ok)
      PROVE  SenderHasDecided'
  BY <1>7, <1>b, ZenonT(60) DEF SenderHasDecided, TypeOK, callers, RefineApply, Goes
<1>8. ASSUME NEW k \in Callers, NEW ok \in BOOLEAN, RefinePersist(k, ok)
      PROVE  SenderHasDecided'
  BY <1>8, <1>b DEF SenderHasDecided, TypeOK, callers, RefinePersist, Goes
<1>9. ASSUME NEW c \in Cards, Tick(c)
      PROVE  SenderHasDecided'
  BY <1>9, <1>b DEF SenderHasDecided, TypeOK, callers, Tick
<1>10. ASSUME NEW ok \in BOOLEAN, ExpireDb(ok)
      PROVE  SenderHasDecided'
  BY <1>10, <1>b DEF SenderHasDecided, TypeOK, callers, ExpireDb
<1>11. ASSUME ExpireMem
      PROVE  SenderHasDecided'
  BY <1>11, <1>b DEF SenderHasDecided, TypeOK, callers, ExpireMem
<1>12. ASSUME NEW ok \in BOOLEAN, Restart(ok)
      PROVE  SenderHasDecided'
  BY <1>12, <1>b DEF SenderHasDecided, TypeOK, callers, Restart
<1>13. ASSUME UNCHANGED vars PROVE SenderHasDecided'
  BY <1>13, <1>b DEF SenderHasDecided, vars, callers
<1>14. ASSUME NEW k \in Callers, NEW c \in Cards, User(k, c) PROVE SenderHasDecided'
  BY <1>14, <1>3, <1>6 DEF User, approve, dismiss, edit
<1>15. SenderHasDecided'
  BY <1>1, <1>2, <1>4, <1>5, <1>7, <1>8, <1>9, <1>10, <1>11, <1>12, <1>13, <1>14
  DEF Next, Caller, Sweep, Push
<1> QED
  BY <1>a, <1>15 DEF FinalInv

\* A step that is not a restart moves a card only along Moves.
LEMMA FinalMoves ==
  ASSUME FinalInv, Next, spent'["restart"] = spent["restart"], NEW c \in Cards
  PROVE  /\ mem'[c] # mem[c] => <<mem[c], mem'[c]>> \in Moves
         /\ mem[c] = "Pending" /\ mem'[c] = "Absent" => c \in past
<1> DEFINE Final == /\ mem'[c] # mem[c] => <<mem[c], mem'[c]>> \in Moves
                    /\ mem[c] = "Pending" /\ mem'[c] = "Absent" => c \in past
<1>a. TypeOK /\ SenderHasDecided /\ PushedOnce
  BY DEF FinalInv, TableInv, SendInv
<1>1. ASSUME NEW e \in Cards, PushQueue(e) PROVE Final
  BY <1>1, <1>a DEF PushQueue, PushedOnce, TypeOK, Moves
<1>2. ASSUME NEW k \in Callers, NEW e \in Cards, NEW s \in {"Approved", "Dismissed"},
             NEW ok \in BOOLEAN, Decide(k, e, s, ok)
      PROVE  Final
  BY <1>2, <1>a DEF Decide, TypeOK, Moves
<1>3. ASSUME NEW k \in Callers, NEW ok \in BOOLEAN, MarkSent(k, ok) PROVE Final
  BY <1>3, <1>a DEF MarkSent, InQueue, SenderHasDecided, TypeOK, Moves
<1>4. ASSUME ExpireMem PROVE Final
  <2> DEFINE expired == [e \in Cards |-> IF mem[e] = "Pending" /\ e \in past
                                           THEN "Expired" ELSE mem[e]]
             gone == Pruned(expired)
  <2>1. mem' = [e \in Cards |-> IF e \in gone THEN "Absent" ELSE expired[e]]
    BY <1>4, Zenon DEF ExpireMem
  <2>2. c \in gone => expired[c] # "Pending"
    <3> HIDE DEF expired
    <3> QED BY <1>a, PrunedIsDecided DEF TypeOK
  <2>3. mem'[c] = IF c \in gone THEN "Absent" ELSE expired[c]
    <3> HIDE DEF gone, expired
    <3> QED BY <2>1
  <2>4. expired[c] = IF mem[c] = "Pending" /\ c \in past THEN "Expired" ELSE mem[c]
    OBVIOUS
  <2> HIDE DEF gone, expired
  <2> QED
    BY <1>a, <2>2, <2>3, <2>4 DEF TypeOK, Status, Moves
<1>5. ASSUME NEW ok \in BOOLEAN, Restart(ok) PROVE FALSE
  BY <1>5, <1>a DEF Restart, TypeOK, Disturbances
<1>6. ASSUME UNCHANGED mem PROVE Final
  BY <1>6, <1>a DEF TypeOK, Status
<1>7. ASSUME NEW k \in Callers, NEW e \in Cards, User(k, e) PROVE Final
  BY <1>7, <1>2, <1>6 DEF User, approve, dismiss, edit, RefineStart
<1>8. ASSUME NEW k \in Callers, Caller(k) PROVE Final
  BY <1>8, <1>3, <1>6 DEF Caller, SendReply, RefineApply, RefinePersist
<1>9. ASSUME NEW e \in Cards, Push(e) \/ Tick(e) PROVE Final
  BY <1>9, <1>1, <1>6 DEF Push, PushInsert, Tick
<1>10. ASSUME Sweep PROVE Final
  BY <1>10, <1>4, <1>6 DEF Sweep, ExpireDb
<1> QED
  <2> HIDE DEF Final
  <2>1. Final
    BY <1>5, <1>7, <1>8, <1>9, <1>10 DEF Next
  <2> QED BY <2>1 DEF Final

\* However callers, sweeps and refinements interleave, a card in memory moves only
\* from Pending to a decision or to expiry and from Approved to Sent, and only a
\* decided or expired card leaves the queue, until the process restarts.
THEOREM DecisionsStand == Spec => DecisionsAreFinal
<1>1. Init => FinalInv
  <2> SUFFICES ASSUME Init PROVE FinalInv
    OBVIOUS
  <2>1. SenderHasDecided
    BY DEF Init, SenderHasDecided
  <2> QED BY <2>1, TableInit DEF FinalInv
<1>2. FinalInv /\ [Next]_vars =>
        [spent'["restart"] = spent["restart"] =>
           \A c \in Cards :
              /\ mem'[c] # mem[c] => <<mem[c], mem'[c]>> \in Moves
              /\ mem[c] = "Pending" /\ mem'[c] = "Absent" => c \in past]_vars
  BY FinalMoves
<1> QED
  BY <1>1, <1>2, FinalStep, PTL DEF Spec, DecisionsAreFinal

-----------------------------------------------------------------------------
(* Channels: what a Telegram user sent is taken once, and what is answered is *)
(* read, for any users, queues, chunks, faults and ends of the program.       *)

\* Telegram's updates and the messages of the iOS client are known wherever they are.
MessagesFit ==
    /\ \A i \in DOMAIN queue["telegram"] : queue["telegram"][i] \in Updates
    /\ \A i \in DOMAIN queue["ios"] : queue["ios"][i] \in 1 .. asked
    /\ \A i \in DOMAIN rx : rx[i].id \in 1 .. asked
    /\ pc = "wait" <=> cur = None
    /\ cur # None => /\ cur.ch = "telegram" => cur.id \in Updates
                     /\ cur.ch = "ios" => cur.id \in 1 .. asked

\* The poller works through the updates that follow those it has passed.
PollFits ==
    /\ Len(posted) <= MaxUpdates /\ offset <= Len(posted) + 1
    /\ \A i \in DOMAIN batch : batch[i] = Confirms + i /\ batch[i] <= Len(posted)

\* What the poller has passed waits in the stream, was taken, or is lost.
PassedFit ==
    \A u \in 1 .. Confirms :
        Wanted(u) => times[u] > 0 \/ u \in Range(queue["telegram"]) \/ u \in lost

\* The stream holds updates once and in order, all of them passed by the poller; one
\* that was taken before in an earlier run of the program is known to come again.
StreamFits ==
    /\ \A i \in DOMAIN queue["telegram"] :
          /\ queue["telegram"][i] <= Confirms
          /\ times[queue["telegram"][i]] > 0 => queue["telegram"][i] \in again
    /\ \A i, j \in DOMAIN queue["telegram"] :
          i < j => queue["telegram"][i] < queue["telegram"][j]

\* An update taken was taken in this run, is confirmed, or is known to come again.
TakenFit ==
    /\ \A i \in DOMAIN taken : taken[i] <= Confirms
    /\ \A u \in Updates :
          times[u] > 0 => u \in again \/ u <= confirmed \/ u \in Range(taken)

\* What is left of a reply follows what has arrived of it.
ReplyFits ==
    pc = "reply" =>
        /\ todo # <<>>
        /\ cur.ch = "telegram" => \A i \in DOMAIN todo : todo[i] = Len(got[cur.id]) + i

\* Every message of the client is on screen or given up, waits, is being answered, or
\* its answer is on the way; without a connection only the first two are possible.
ScreenFits ==
    /\ \A n \in 1 .. asked :
          \/ n \in seen \cup unseen \cup Range(queue["ios"])
          \/ cur = [ch |-> "ios", id |-> n] /\ pc \in {"handle", "reply"}
          \/ \E i \in DOMAIN rx : rx[i] = [k |-> "response", id |-> n]
    /\ ~conn => 1 .. asked \subseteq seen \cup unseen

\* The inductive invariant of Channels.
ChannelInv ==
    /\ ChannelsTypeOK /\ MessagesFit /\ PollFits /\ PassedFit
    /\ StreamFits /\ TakenFit /\ TwiceHasACause
    /\ ReplyFits /\ ReplyHasNoGap /\ ScreenFits

\* The bounds are numbers.
LEMMA ChannelBounds ==
  /\ MaxChunks \in Nat /\ MaxChunks # 0 /\ Capacity \in Nat /\ Capacity # 0
  /\ MaxUpdates \in Nat /\ MaxChats \in Nat /\ MaxLines \in Nat
  /\ MaxStatus \in Nat /\ MaxStops \in Nat /\ MaxFaults \in Nat
BY BoundsAssumption

\* What getUpdates confirms lies between what is confirmed and what was sent.
LEMMA ConfirmsType ==
  ASSUME ChannelsTypeOK
  PROVE  /\ Confirms \in Nat /\ confirmed \in Nat /\ Len(posted) \in Nat
         /\ confirmed <= Confirms
         /\ PollFits => Confirms <= Len(posted)
<1>1. /\ confirmed \in Nat /\ Len(posted) \in Nat /\ confirmed <= Len(posted)
  BY DEF ChannelsTypeOK
<1>2. offset \in Nat
  BY ChannelBounds DEF ChannelsTypeOK
<1> QED BY <1>1, <1>2 DEF Confirms, PollFits

\* The first element of a sequence that is not empty, and what follows it.
LEMMA HeadAndTail ==
  ASSUME NEW S, NEW s \in Seq(S), s # <<>>
  PROVE  /\ Head(s) \in S /\ Head(s) = s[1] /\ 1 \in DOMAIN s /\ Len(s) >= 1
         /\ Tail(s) \in Seq(S) /\ Len(Tail(s)) = Len(s) - 1
         /\ \A i \in DOMAIN Tail(s) : i + 1 \in DOMAIN s /\ Tail(s)[i] = s[i + 1]
<1>1. Len(s) >= 1 /\ DOMAIN s = 1 .. Len(s) /\ Len(s) \in Nat
  BY EmptySeq
<1>2. Tail(s) \in Seq(S) /\ Len(Tail(s)) = Len(s) - 1
  BY HeadTailProperties
<1>3. Head(s) = s[1] /\ s[1] \in S
  BY <1>1
<1>4. ASSUME NEW i \in DOMAIN Tail(s) PROVE i + 1 \in DOMAIN s /\ Tail(s)[i] = s[i + 1]
  <2>1. DOMAIN Tail(s) = 1 .. Len(s) - 1
    BY <1>1, <1>2
  <2> QED BY <2>1, <1>1
<1> QED BY <1>1, <1>2, <1>3, <1>4

\* A sequence with one more element at its end.
LEMMA AtTheEnd ==
  ASSUME NEW S, NEW s \in Seq(S), NEW e \in S
  PROVE  /\ Append(s, e) \in Seq(S) /\ Len(Append(s, e)) = Len(s) + 1
         /\ \A i \in DOMAIN s : i \in DOMAIN Append(s, e) /\ Append(s, e)[i] = s[i]
         /\ \A i \in DOMAIN Append(s, e) : i \in DOMAIN s \/ i = Len(s) + 1
         /\ Len(s) + 1 \in DOMAIN Append(s, e) /\ Append(s, e)[Len(s) + 1] = e
         /\ DOMAIN s = 1 .. Len(s)
<1>1. Append(s, e) \in Seq(S) /\ Len(Append(s, e)) = Len(s) + 1
  OBVIOUS
<1>2. DOMAIN s = 1 .. Len(s) /\ DOMAIN Append(s, e) = 1 .. Len(s) + 1 /\ Len(s) \in Nat
  BY <1>1
<1>3. \A i \in 1 .. Len(s) : Append(s, e)[i] = s[i]
  OBVIOUS
<1>4. Append(s, e)[Len(s) + 1] = e
  OBVIOUS
<1> QED BY <1>1, <1>2, <1>3, <1>4

\* Nothing has been sent before the first start, and everything holds of it.
LEMMA ChannelsStart == ChannelsInit => ChannelInv
<1> SUFFICES ASSUME ChannelsInit PROVE ChannelInv
  OBVIOUS
<1> USE DEF ChannelsInit, Start
<1>1. ChannelsTypeOK
  <2>1. posted \in Seq([from : Users, text : Texts]) /\ confirmed \in 0 .. Len(posted)
    OBVIOUS
  <2>2. /\ up \in BOOLEAN /\ cur \in [ch : ChannelNames, id : Nat] \cup {None}
        /\ pc \in {"wait", "handle", "reply", "triggers"}
    OBVIOUS
  <2>6. batch \in Seq(Updates) /\ taken \in Seq(Updates) /\ todo \in Seq(1 .. MaxChunks)
    OBVIOUS
  <2>7. queue \in [ChannelNames -> Seq(Nat)]
    OBVIOUS
  <2>3. /\ offset \in 0 .. MaxUpdates + 1 /\ statuses \in 0 .. MaxStatus /\ asked \in 0 .. MaxChats
        /\ lines \in 0 .. MaxLines /\ stops \in 0 .. MaxStops /\ faults \in 0 .. MaxFaults
    BY ChannelBounds
  <2>4. /\ got \in [Updates -> Seq(1 .. MaxChunks)] /\ times \in [Updates -> Nat]
    OBVIOUS
  <2>8. /\ conn \in BOOLEAN /\ lagged \in BOOLEAN
        /\ again \subseteq Updates /\ lost \subseteq Updates
        /\ seen \subseteq 1 .. asked /\ unseen \subseteq 1 .. asked
    OBVIOUS
  <2>5. rx \in Seq([k : {"status", "response"}, id : Nat]) /\ Len(rx) <= Capacity
    BY ChannelBounds
  <2> QED BY <2>1, <2>2, <2>3, <2>4, <2>5, <2>6, <2>7, <2>8 DEF ChannelsTypeOK
<1>2. MessagesFit
  BY DEF MessagesFit, ChannelNames
<1>3. Confirms = 0
  BY DEF Confirms
<1>4. PollFits
  BY <1>3, ChannelBounds DEF PollFits
<1>5. PassedFit /\ StreamFits /\ TakenFit /\ TwiceHasACause
  BY <1>3 DEF PassedFit, StreamFits, TakenFit, TwiceHasACause, ChannelNames
<1>6. ReplyFits /\ ReplyHasNoGap /\ ScreenFits
  BY DEF ReplyFits, ReplyHasNoGap, ScreenFits
<1> QED BY <1>1, <1>2, <1>4, <1>5, <1>6 DEF ChannelInv

\* Telegram's side and the poller keep every message known.
LEMMA PollerTypes ==
  ASSUME ChannelInv,
         \/ \E p \in Posts : Arrive(p[1], p[2])
         \/ PollOk \/ PollEmpty \/ PollError \/ Deliver
  PROVE  ChannelsTypeOK' /\ MessagesFit'
<1> USE DEF ChannelInv, tele, loop, ios, hist
<1>0. /\ Confirms \in Nat /\ confirmed \in Nat /\ Len(posted) \in Nat
      /\ confirmed <= Confirms /\ Confirms <= Len(posted)
  BY ConfirmsType
<1>1. ASSUME NEW p \in Posts, Arrive(p[1], p[2]) PROVE ChannelsTypeOK' /\ MessagesFit'
  <2>1. [from |-> p[1], text |-> p[2]] \in [from : Users, text : Texts]
    BY PostsAssumption
  <2>2. posted' \in Seq([from : Users, text : Texts]) /\ Len(posted') = Len(posted) + 1
    BY <2>1, <1>1, AtTheEnd DEF Arrive, ChannelsTypeOK
  <2>3. confirmed' \in 0 .. Len(posted')
    BY <2>2, <1>0, <1>1 DEF Arrive, ChannelsTypeOK
  <2>4. ChannelsTypeOK'
    BY <2>2, <2>3, <1>1 DEF Arrive, ChannelsTypeOK
  <2> QED BY <2>4, <1>1 DEF Arrive, MessagesFit
<1>2. CASE PollOk
  <2>1. confirmed' \in 0 .. Len(posted)
    BY <1>0, <1>2 DEF PollOk
  <2>2. ASSUME NEW i \in 1 .. (Len(posted) - Confirms) PROVE Confirms + i \in Updates
    BY <1>0, ChannelBounds DEF PollFits, Updates
  <2>3. batch' \in Seq(Updates)
    BY <2>2, <1>0, <1>2 DEF PollOk, Answer
  <2>4. ChannelsTypeOK'
    BY <2>1, <2>3, <1>2 DEF PollOk, ChannelsTypeOK
  <2> QED BY <2>4, <1>2 DEF PollOk, MessagesFit
<1>3. CASE PollEmpty
  <2>1. confirmed' \in 0 .. Len(posted)
    BY <1>0, <1>3 DEF PollEmpty
  <2>2. ChannelsTypeOK'
    BY <2>1, <1>3 DEF PollEmpty, ChannelsTypeOK
  <2> QED BY <2>2, <1>3 DEF PollEmpty, MessagesFit
<1>5. CASE PollError
  <2>1. confirmed' \in 0 .. Len(posted)
    BY <1>0, <1>5 DEF PollError
  <2>2. faults' \in 0 .. MaxFaults
    BY <1>5, ChannelBounds DEF PollError, ChannelsTypeOK
  <2>3. ChannelsTypeOK'
    BY <2>1, <2>2, <1>5 DEF PollError, ChannelsTypeOK
  <2> QED BY <2>3, <1>5 DEF PollError, MessagesFit
<1>4. CASE Deliver
  <2>1. Head(batch) \in Updates /\ Tail(batch) \in Seq(Updates)
    BY <1>4, HeadAndTail DEF Deliver, ChannelsTypeOK
  <2>2. offset' \in 0 .. MaxUpdates + 1
    BY <2>1, <1>4, ChannelBounds DEF Deliver, Updates
  <2>3. queue["telegram"] \in Seq(Nat) /\ Head(batch) \in Nat
    <3>1. queue \in [ChannelNames -> Seq(Nat)] /\ "telegram" \in ChannelNames
      BY DEF ChannelsTypeOK, ChannelNames
    <3>2. queue["telegram"] \in Seq(Nat)
      BY <3>1
    <3>3. Head(batch) \in Nat
      BY <2>1 DEF Updates
    <3> QED BY <3>2, <3>3
  <2>4. queue' \in [ChannelNames -> Seq(Nat)]
    BY <2>3, <1>4, AtTheEnd DEF Deliver, ChannelsTypeOK
  <2>5. ChannelsTypeOK'
    BY <2>1, <2>2, <2>4, <1>4 DEF Deliver, ChannelsTypeOK
  <2>6. ASSUME NEW i \in DOMAIN queue'["telegram"] PROVE queue'["telegram"][i] \in Updates
    <3>1. \/ queue'["telegram"] = queue["telegram"]
          \/ queue'["telegram"] = Append(queue["telegram"], Head(batch))
      BY <1>4 DEF Deliver, ChannelsTypeOK, ChannelNames
    <3>2. \A j \in DOMAIN queue["telegram"] : queue["telegram"][j] \in Updates
      BY DEF MessagesFit
    <3>3. CASE queue'["telegram"] = queue["telegram"]
      BY <3>2, <3>3
    <3>4. CASE queue'["telegram"] = Append(queue["telegram"], Head(batch))
      <4> DEFINE q == queue["telegram"]
      <4> HIDE DEF q
      <4>1. /\ \A j \in DOMAIN q : Append(q, Head(batch))[j] = q[j]
            /\ \A j \in DOMAIN Append(q, Head(batch)) : j \in DOMAIN q \/ j = Len(q) + 1
            /\ Append(q, Head(batch))[Len(q) + 1] = Head(batch)
        BY <2>3, AtTheEnd DEF q
      <4> QED BY <4>1, <3>2, <3>4, <2>1 DEF q
    <3> QED BY <3>1, <3>3, <3>4
  <2>7. queue'["ios"] = queue["ios"]
    BY <1>4 DEF Deliver, ChannelsTypeOK, ChannelNames
  <2> QED BY <2>5, <2>6, <2>7, <1>4 DEF Deliver, MessagesFit
<1> QED BY <1>1, <1>2, <1>3, <1>4, <1>5

\* An event for the iOS client leaves its receiver within its capacity, and gives up
\* only messages of the client.
LEMMA OutgoingTypes ==
  ASSUME ChannelInv, NEW ev, ev \in [k : {"status", "response"}, id : Nat], ev.id \in 1 .. asked,
         Outgoing(ev), asked' = asked
  PROVE  /\ rx' \in Seq([k : {"status", "response"}, id : Nat]) /\ Len(rx') <= Capacity
         /\ \A i \in DOMAIN rx' : rx'[i].id \in 1 .. asked
         /\ lagged' \in BOOLEAN
         /\ unseen' \subseteq 1 .. asked /\ unseen \subseteq unseen'
         /\ conn => \E i \in DOMAIN rx' : rx'[i] = ev
         /\ \A i \in DOMAIN rx : \/ \E j \in DOMAIN rx' : rx'[j] = rx[i]
                                 \/ rx[i].k = "response" => rx[i].id \in unseen'
<1> DEFINE Events == [k : {"status", "response"}, id : Nat]
<1>0. /\ rx \in Seq(Events) /\ Len(rx) <= Capacity /\ Len(rx) \in Nat /\ Capacity \in Nat \ {0}
      /\ lagged \in BOOLEAN /\ unseen \subseteq 1 .. asked
      /\ \A i \in DOMAIN rx : rx[i].id \in 1 .. asked
  <2>1. Capacity \in Nat \ {0}
    BY ChannelBounds
  <2>2. rx \in Seq(Events) /\ Len(rx) <= Capacity
    BY DEF ChannelInv, ChannelsTypeOK
  <2>3. lagged \in BOOLEAN /\ unseen \subseteq 1 .. asked
    BY DEF ChannelInv, ChannelsTypeOK
  <2>4. \A i \in DOMAIN rx : rx[i].id \in 1 .. asked
    BY DEF ChannelInv, MessagesFit
  <2> QED BY <2>1, <2>2, <2>3, <2>4
<1> HIDE DEF Events
<1>1. CASE ~conn
  BY <1>0, <1>1 DEF Outgoing, Events
<1>2. CASE conn /\ Len(rx) # Capacity
  <2>1. rx' = Append(rx, ev) /\ lagged' = lagged /\ unseen' = unseen
    BY <1>0, <1>2 DEF Outgoing
  <2>2. ev \in Events
    BY DEF Events
  <2>3. rx' \in Seq(Events) /\ Len(rx') <= Capacity
    BY <2>1, <2>2, <1>0, <1>2, AtTheEnd
  <2>4. /\ \A i \in DOMAIN rx' : rx'[i].id \in 1 .. asked
        /\ \E i \in DOMAIN rx' : rx'[i] = ev
        /\ \A i \in DOMAIN rx : \E j \in DOMAIN rx' : rx'[j] = rx[i]
    BY <2>1, <2>2, <1>0, AtTheEnd
  <2> QED BY <2>1, <2>3, <2>4, <1>0 DEF Events
<1>3. CASE conn /\ Len(rx) = Capacity
  <2>0. rx # <<>>
    BY <1>0, <1>3
  <2>1. /\ rx' = Append(Tail(rx), ev) /\ lagged' \in BOOLEAN
        /\ unseen' = IF Head(rx).k = "response" THEN unseen \cup {Head(rx).id} ELSE unseen
    BY <1>0, <1>3 DEF Outgoing
  <2>2. ev \in Events
    BY DEF Events
  <2>3. /\ Head(rx) = rx[1] /\ 1 \in DOMAIN rx /\ Tail(rx) \in Seq(Events)
        /\ Len(Tail(rx)) = Len(rx) - 1
        /\ \A i \in DOMAIN Tail(rx) : i + 1 \in DOMAIN rx /\ Tail(rx)[i] = rx[i + 1]
    BY <2>0, <1>0, HeadAndTail
  <2>4. rx' \in Seq(Events) /\ Len(rx') <= Capacity
    BY <2>1, <2>2, <2>3, <1>0, AtTheEnd
  <2>5. ASSUME NEW i \in DOMAIN rx' PROVE rx'[i].id \in 1 .. asked
    BY <2>1, <2>2, <2>3, <1>0, AtTheEnd
  <2>6. \E i \in DOMAIN rx' : rx'[i] = ev
    BY <2>1, <2>2, <2>3, AtTheEnd
  <2>7. unseen' \subseteq 1 .. asked /\ unseen \subseteq unseen'
    <3>1. rx[1].id \in 1 .. asked /\ Head(rx) = rx[1]
      BY <2>3, <1>0
    <3>2. unseen' = unseen \/ unseen' = unseen \cup {rx[1].id}
      BY <2>1, <3>1
    <3> QED BY <3>1, <3>2, <1>0
  <2>8. ASSUME NEW i \in DOMAIN rx, i # 1 PROVE \E j \in DOMAIN rx' : rx'[j] = rx[i]
    <3>1. i - 1 \in DOMAIN Tail(rx) /\ i - 1 + 1 = i
      BY <2>3, <2>8, <1>0, AtTheEnd
    <3>2. Tail(rx)[i - 1] = rx[i]
      BY <3>1, <2>3
    <3> QED BY <3>1, <3>2, <2>1, <2>2, <2>3, AtTheEnd
  <2>9. rx[1].k = "response" => rx[1].id \in unseen'
    BY <2>1, <2>3
  <2> QED BY <2>1, <2>4, <2>5, <2>6, <2>7, <2>8, <2>9 DEF Events
<1> QED BY <1>1, <1>2, <1>3

\* A new message at the end of a channel's stream.
LEMMA QueueGrows ==
  ASSUME ChannelsTypeOK, NEW ch \in ChannelNames, NEW n \in Nat,
         queue' = [queue EXCEPT ![ch] = Append(@, n)]
  PROVE  /\ queue' \in [ChannelNames -> Seq(Nat)]
         /\ \A c \in ChannelNames : c # ch => queue'[c] = queue[c]
         /\ \A i \in DOMAIN queue'[ch] :
               \/ queue'[ch][i] = n
               \/ i \in DOMAIN queue[ch] /\ queue'[ch][i] = queue[ch][i]
         /\ Range(queue'[ch]) = Range(queue[ch]) \cup {n}
<1>1. queue \in [ChannelNames -> Seq(Nat)] /\ queue[ch] \in Seq(Nat)
  BY DEF ChannelsTypeOK
<1>2. queue'[ch] = Append(queue[ch], n) /\ Append(queue[ch], n) \in Seq(Nat)
  BY <1>1
<1> DEFINE q == queue[ch]
           r == queue'[ch]
<1>3. /\ \A i \in DOMAIN q : i \in DOMAIN r /\ r[i] = q[i]
      /\ \A i \in DOMAIN r : i \in DOMAIN q \/ i = Len(q) + 1
      /\ Len(q) + 1 \in DOMAIN r /\ r[Len(q) + 1] = n
  BY <1>1, <1>2, AtTheEnd
<1>4. queue' \in [ChannelNames -> Seq(Nat)] /\ \A c \in ChannelNames : c # ch => queue'[c] = queue[c]
  BY <1>1, <1>2
<1> HIDE DEF q, r
<1>5. Range(r) = Range(q) \cup {n}
  BY <1>3 DEF Range
<1> QED BY <1>3, <1>4, <1>5 DEF q, r

\* The client, the command line and the sockets keep every message known.
LEMMA ClientTypes ==
  ASSUME ChannelInv,
         Connect \/ Disconnect \/ ClientAsks \/ ClientLagged \/ ClientReceives \/ CliLine
  PROVE  ChannelsTypeOK' /\ MessagesFit'
<1> USE DEF ChannelInv, tele, loop, ios, hist
<1>1. CASE Connect
  <2>1. <<>> \in Seq([k : {"status", "response"}, id : Nat]) /\ Len(<<>>) <= Capacity
    BY ChannelBounds
  <2>2. ChannelsTypeOK'
    BY <2>1, <1>1 DEF Connect, ChannelsTypeOK
  <2> QED BY <2>2, <1>1 DEF Connect, MessagesFit
<1>2. CASE Disconnect
  <2>1. <<>> \in Seq([k : {"status", "response"}, id : Nat]) /\ Len(<<>>) <= Capacity
    BY ChannelBounds
  <2>2. unseen' \subseteq 1 .. asked
    BY <1>2 DEF Disconnect, ChannelsTypeOK
  <2>3. ChannelsTypeOK'
    BY <2>1, <2>2, <1>2 DEF Disconnect, ChannelsTypeOK
  <2> QED BY <2>3, <1>2 DEF Disconnect, MessagesFit
<1>3. CASE ClientAsks
  <2>1. asked \in Nat /\ asked' = asked + 1 /\ asked' \in 0 .. MaxChats
    BY <1>3, ChannelBounds DEF ClientAsks, ChannelsTypeOK
  <2>2. 1 .. asked \subseteq 1 .. asked' /\ asked + 1 \in 1 .. asked'
    BY <2>1
  <2>3. /\ queue' \in [ChannelNames -> Seq(Nat)] /\ queue'["telegram"] = queue["telegram"]
        /\ \A i \in DOMAIN queue'["ios"] :
              \/ queue'["ios"][i] = asked + 1
              \/ i \in DOMAIN queue["ios"] /\ queue'["ios"][i] = queue["ios"][i]
    <3>1. "ios" \in ChannelNames /\ "telegram" \in ChannelNames /\ "telegram" # "ios"
      BY DEF ChannelNames
    <3> DEFINE n == asked + 1
    <3>2. queue' = [queue EXCEPT !["ios"] = Append(@, n)] /\ n \in Nat
      BY <2>1, <1>3 DEF ClientAsks
    <3> HIDE DEF n
    <3>3. queue' \in [ChannelNames -> Seq(Nat)]
      BY <3>1, <3>2, QueueGrows
    <3>4. queue'["telegram"] = queue["telegram"]
      BY <3>1, <3>2 DEF ChannelsTypeOK
    <3>5. \A i \in DOMAIN queue'["ios"] :
             \/ queue'["ios"][i] = n
             \/ i \in DOMAIN queue["ios"] /\ queue'["ios"][i] = queue["ios"][i]
      BY <3>1, <3>2, QueueGrows
    <3> QED BY <3>3, <3>4, <3>5 DEF n
  <2>4. ChannelsTypeOK'
    BY <2>1, <2>2, <2>3, <1>3 DEF ClientAsks, ChannelsTypeOK
  <2> QED BY <2>2, <2>3, <2>4, <1>3 DEF ClientAsks, MessagesFit
<1>4. CASE ClientLagged
  BY <1>4 DEF ClientLagged, ChannelsTypeOK, MessagesFit
<1>5. CASE ClientReceives
  <2> DEFINE Events == [k : {"status", "response"}, id : Nat]
  <2>1. rx \in Seq(Events) /\ rx # <<>> /\ Len(rx) <= Capacity /\ Len(rx) \in Nat
    BY <1>5 DEF ClientReceives, ChannelsTypeOK
  <2>2. /\ Head(rx) = rx[1] /\ 1 \in DOMAIN rx /\ rx' = Tail(rx) /\ rx' \in Seq(Events)
        /\ Len(rx') = Len(rx) - 1
        /\ \A i \in DOMAIN rx' : i + 1 \in DOMAIN rx /\ rx'[i] = rx[i + 1]
    BY <2>1, <1>5, HeadAndTail DEF ClientReceives
  <2>3. Len(rx') <= Capacity
    BY <2>1, <2>2, ChannelBounds
  <2>4. seen' \subseteq 1 .. asked
    <3>1. rx[1].id \in 1 .. asked /\ seen \subseteq 1 .. asked
      BY <2>2 DEF ChannelsTypeOK, MessagesFit
    <3>2. seen' = seen \/ seen' = seen \cup {rx[1].id}
      BY <2>2, <1>5 DEF ClientReceives
    <3> QED BY <3>1, <3>2
  <2>5. ChannelsTypeOK'
    BY <2>2, <2>3, <2>4, <1>5 DEF ClientReceives, ChannelsTypeOK
  <2>6. \A i \in DOMAIN rx' : rx'[i].id \in 1 .. asked
    BY <2>2 DEF MessagesFit
  <2> QED BY <2>5, <2>6, <1>5 DEF ClientReceives, MessagesFit
<1>6. CASE CliLine
  <2>1. lines + 1 \in Nat /\ lines' \in 0 .. MaxLines
    BY <1>6, ChannelBounds DEF CliLine, ChannelsTypeOK
  <2>2. /\ queue' \in [ChannelNames -> Seq(Nat)] /\ queue'["telegram"] = queue["telegram"]
        /\ queue'["ios"] = queue["ios"]
    BY <2>1, <1>6, QueueGrows DEF CliLine, ChannelNames
  <2>3. ChannelsTypeOK'
    BY <2>1, <2>2, <1>6 DEF CliLine, ChannelsTypeOK
  <2> QED BY <2>2, <2>3, <1>6 DEF CliLine, MessagesFit
<1> QED BY <1>1, <1>2, <1>3, <1>4, <1>5, <1>6

\* Agent::run takes the first message of a stream.
LEMMA QueueShrinks ==
  ASSUME ChannelInv, NEW ch \in ChannelNames, Take(ch)
  PROVE  /\ queue' \in [ChannelNames -> Seq(Nat)]
         /\ \A c \in ChannelNames : c # ch => queue'[c] = queue[c]
         /\ \A i \in DOMAIN queue'[ch] :
               i + 1 \in DOMAIN queue[ch] /\ queue'[ch][i] = queue[ch][i + 1]
         /\ Range(queue[ch]) = Range(queue'[ch]) \cup {Head(queue[ch])}
         /\ 1 \in DOMAIN queue[ch] /\ Head(queue[ch]) = queue[ch][1] /\ Head(queue[ch]) \in Nat
         /\ cur' = [ch |-> ch, id |-> Head(queue[ch])]
<1>1. queue \in [ChannelNames -> Seq(Nat)] /\ queue[ch] \in Seq(Nat) /\ queue[ch] # <<>>
  BY DEF Take, ChannelInv, ChannelsTypeOK
<1>2. queue'[ch] = Tail(queue[ch]) /\ queue' = [queue EXCEPT ![ch] = Tail(@)]
  BY <1>1 DEF Take
<1> DEFINE q == queue[ch]
           r == queue'[ch]
<1>3. /\ Head(q) \in Nat /\ Head(q) = q[1] /\ 1 \in DOMAIN q /\ r \in Seq(Nat)
      /\ \A i \in DOMAIN r : i + 1 \in DOMAIN q /\ r[i] = q[i + 1]
      /\ Len(r) = Len(q) - 1 /\ DOMAIN q = 1 .. Len(q) /\ DOMAIN r = 1 .. Len(r) /\ Len(q) \in Nat
  BY <1>1, <1>2, HeadAndTail
<1>4. queue' \in [ChannelNames -> Seq(Nat)] /\ \A c \in ChannelNames : c # ch => queue'[c] = queue[c]
  BY <1>1, <1>2, <1>3
<1>5. cur' = [ch |-> ch, id |-> Head(queue[ch])]
  BY DEF Take
<1> HIDE DEF q, r
<1>6. ASSUME NEW i \in DOMAIN q PROVE q[i] \in Range(r) \cup {Head(q)}
  <2>1. CASE i = 1
    BY <2>1, <1>3
  <2>2. CASE i # 1
    <3>1. i - 1 \in DOMAIN r /\ (i - 1) + 1 = i
      BY <2>2, <1>3
    <3>2. r[i - 1] = q[i]
      BY <3>1, <1>3
    <3> QED BY <3>1, <3>2 DEF Range
  <2> QED BY <2>1, <2>2
<1>7. Range(q) = Range(r) \cup {Head(q)}
  BY <1>3, <1>6 DEF Range
<1> QED BY <1>3, <1>4, <1>5, <1>7 DEF q, r

\* Agent::run keeps every message known.
LEMMA LoopTypes ==
  ASSUME ChannelInv,
         \/ \E ch \in ChannelNames : Take(ch)
         \/ StatusUpdate \/ HandledEmpty \/ \E n \in 1 .. MaxChunks : Handled(n)
         \/ ChunkSent \/ ChunkFails \/ RespondIos \/ RespondCli \/ Triggers
  PROVE  ChannelsTypeOK' /\ MessagesFit'
<1> USE DEF ChannelInv, tele, loop, ios, hist
<1>0. ASSUME cur # None
      PROVE  /\ cur \in [ch : ChannelNames, id : Nat]
             /\ cur.ch = "telegram" => cur.id \in Updates
             /\ cur.ch = "ios" => cur.id \in 1 .. asked
  BY <1>0 DEF ChannelsTypeOK, MessagesFit
<1>1. ASSUME NEW ch \in ChannelNames, Take(ch) PROVE ChannelsTypeOK' /\ MessagesFit'
  <2>1. /\ queue' \in [ChannelNames -> Seq(Nat)]
        /\ \A c \in ChannelNames : c # ch => queue'[c] = queue[c]
        /\ \A i \in DOMAIN queue'[ch] :
              i + 1 \in DOMAIN queue[ch] /\ queue'[ch][i] = queue[ch][i + 1]
        /\ 1 \in DOMAIN queue[ch] /\ Head(queue[ch]) = queue[ch][1] /\ Head(queue[ch]) \in Nat
        /\ cur' = [ch |-> ch, id |-> Head(queue[ch])]
    BY <1>1, QueueShrinks
  <2> DEFINE new == Head(queue[ch])
  <2>2. /\ cur' \in [ch : ChannelNames, id : Nat] /\ cur' # None /\ pc' = "handle"
        /\ cur'.ch = ch /\ cur'.id = new
    BY <2>1, <1>1, NoMessageAssumption DEF Take
  <2>3. /\ ch = "telegram" => new \in Updates
        /\ ch = "ios" => new \in 1 .. asked
    BY <2>1 DEF MessagesFit
  <2>4. taken' \in Seq(Updates) /\ times' \in [Updates -> Nat]
    <3>1. CASE ch = "telegram"
      <4>1. taken' = Append(taken, new) /\ times' = [times EXCEPT ![new] = @ + 1]
        BY <3>1, <1>1 DEF Take
      <4>2. taken' \in Seq(Updates)
        BY <4>1, <2>3, <3>1, AtTheEnd DEF ChannelsTypeOK
      <4>3. times[new] + 1 \in Nat
        <5>1. new \in Updates /\ times \in [Updates -> Nat]
          BY <2>3, <3>1 DEF ChannelsTypeOK
        <5>2. times[new] \in Nat
          BY <5>1
        <5> QED BY <5>2
      <4> QED BY <4>1, <4>2, <4>3 DEF ChannelsTypeOK
    <3>2. CASE ch # "telegram"
      BY <3>2, <1>1 DEF Take, ChannelsTypeOK
    <3> QED BY <3>1, <3>2
  <2>5. statuses' \in 0 .. MaxStatus
    BY <1>1, ChannelBounds DEF Take
  <2>6. ChannelsTypeOK'
    BY <2>1, <2>2, <2>4, <2>5, <1>1 DEF Take, ChannelsTypeOK
  <2>7. /\ \A i \in DOMAIN queue'["telegram"] : queue'["telegram"][i] \in Updates
        /\ \A i \in DOMAIN queue'["ios"] : queue'["ios"][i] \in 1 .. asked
    <3>1. "ios" \in ChannelNames /\ "telegram" \in ChannelNames
      BY DEF ChannelNames
    <3>2. ASSUME NEW i \in DOMAIN queue'["telegram"] PROVE queue'["telegram"][i] \in Updates
      <4>1. \A j \in DOMAIN queue["telegram"] : queue["telegram"][j] \in Updates
        BY DEF MessagesFit
      <4>2. CASE ch = "telegram"
        <5>1. i + 1 \in DOMAIN queue["telegram"] /\ queue'["telegram"][i] = queue["telegram"][i + 1]
          BY <4>2, <2>1
        <5> QED BY <4>1, <5>1
      <4>3. CASE ch # "telegram"
        <5>1. queue'["telegram"] = queue["telegram"]
          BY <4>3, <3>1, <2>1
        <5> QED BY <4>1, <5>1
      <4> QED BY <4>2, <4>3
    <3>3. ASSUME NEW i \in DOMAIN queue'["ios"] PROVE queue'["ios"][i] \in 1 .. asked
      <4>1. \A j \in DOMAIN queue["ios"] : queue["ios"][j] \in 1 .. asked
        BY DEF MessagesFit
      <4>2. CASE ch = "ios"
        <5>1. i + 1 \in DOMAIN queue["ios"] /\ queue'["ios"][i] = queue["ios"][i + 1]
          BY <4>2, <2>1
        <5> QED BY <4>1, <5>1
      <4>3. CASE ch # "ios"
        <5>1. queue'["ios"] = queue["ios"]
          BY <4>3, <3>1, <2>1
        <5> QED BY <4>1, <5>1
      <4> QED BY <4>2, <4>3
    <3> QED BY <3>2, <3>3
  <2>8. asked' = asked /\ rx' = rx
    BY <1>1 DEF Take
  <2> QED BY <2>2, <2>3, <2>6, <2>7, <2>8 DEF MessagesFit
<1>2. CASE StatusUpdate
  <2>1. cur # None /\ statuses' \in 0 .. MaxStatus /\ asked' = asked
    BY <1>2, ChannelBounds DEF StatusUpdate, MessagesFit, ChannelsTypeOK
  <2>2. CASE cur.ch = "ios"
    <3> DEFINE ev == [k |-> "status", id |-> cur.id]
    <3>1. ev \in [k : {"status", "response"}, id : Nat] /\ ev.id \in 1 .. asked
      BY <2>1, <2>2, <1>0
    <3>2. Outgoing(ev)
      BY <1>2, <2>2 DEF StatusUpdate
    <3> HIDE DEF ev
    <3>3. /\ rx' \in Seq([k : {"status", "response"}, id : Nat]) /\ Len(rx') <= Capacity
          /\ \A i \in DOMAIN rx' : rx'[i].id \in 1 .. asked
          /\ lagged' \in BOOLEAN /\ unseen' \subseteq 1 .. asked
      BY <3>1, <3>2, <2>1, OutgoingTypes
    <3>4. ChannelsTypeOK'
      BY <3>3, <2>1, <1>2 DEF StatusUpdate, ChannelsTypeOK
    <3> QED BY <3>3, <3>4, <1>2 DEF StatusUpdate, MessagesFit
  <2>3. CASE cur.ch # "ios"
    <3>1. ChannelsTypeOK'
      BY <2>1, <2>3, <1>2 DEF StatusUpdate, ChannelsTypeOK
    <3> QED BY <3>1, <2>3, <1>2 DEF StatusUpdate, MessagesFit
  <2> QED BY <2>2, <2>3
<1>3. ASSUME NEW n \in 1 .. MaxChunks, Handled(n) PROVE ChannelsTypeOK' /\ MessagesFit'
  <2>1. cur # None
    BY <1>3 DEF Handled, MessagesFit
  <2>2. todo' \in Seq(1 .. MaxChunks) /\ <<>> \in Seq(1 .. MaxChunks)
    <3>1. n \in Nat /\ \A i \in 1 .. n : i \in 1 .. MaxChunks
      BY ChannelBounds
    <3> QED BY <3>1, <1>3 DEF Handled
  <2>3. got' \in [Updates -> Seq(1 .. MaxChunks)]
    BY <2>1, <2>2, <1>0, <1>3 DEF Handled, ChannelsTypeOK
  <2>4. ChannelsTypeOK'
    BY <2>2, <2>3, <1>3 DEF Handled, ChannelsTypeOK
  <2> QED BY <2>1, <2>4, <1>3 DEF Handled, MessagesFit
<1>4. CASE HandledEmpty
  <2>1. cur # None
    BY <1>4 DEF HandledEmpty, MessagesFit
  <2>2. unseen' \subseteq 1 .. asked
    BY <2>1, <1>0, <1>4 DEF HandledEmpty, ChannelsTypeOK
  <2>3. ChannelsTypeOK'
    BY <2>2, <1>4 DEF HandledEmpty, ChannelsTypeOK
  <2> QED BY <2>1, <2>3, <1>4 DEF HandledEmpty, MessagesFit
<1>5. CASE ChunkSent
  <2>1. cur # None /\ cur.ch = "telegram" /\ cur.id \in Updates /\ pc = "reply" /\ todo # <<>>
    BY <1>5, <1>0 DEF ChunkSent, Replying, MessagesFit, ReplyFits
  <2>2. /\ Head(todo) \in 1 .. MaxChunks /\ Tail(todo) \in Seq(1 .. MaxChunks)
        /\ got[cur.id] \in Seq(1 .. MaxChunks)
    BY <2>1, HeadAndTail DEF ChannelsTypeOK
  <2>3. Append(got[cur.id], Head(todo)) \in Seq(1 .. MaxChunks)
    BY <2>2, AtTheEnd
  <2>4. got' \in [Updates -> Seq(1 .. MaxChunks)] /\ todo' \in Seq(1 .. MaxChunks)
    BY <2>1, <2>2, <2>3, <1>5 DEF ChunkSent, ChannelsTypeOK
  <2>5. pc' \in {"triggers", "reply"}
    BY <1>5 DEF ChunkSent
  <2>6. ChannelsTypeOK'
    BY <2>4, <2>5, <1>5 DEF ChunkSent, ChannelsTypeOK
  <2> QED BY <2>1, <2>5, <2>6, <1>5 DEF ChunkSent, MessagesFit
<1>6. CASE ChunkFails
  <2>1. cur # None
    BY <1>6 DEF ChunkFails, Replying, MessagesFit
  <2>2. faults' \in 0 .. MaxFaults /\ <<>> \in Seq(1 .. MaxChunks)
    BY <1>6, ChannelBounds DEF ChunkFails, ChannelsTypeOK
  <2>3. ChannelsTypeOK'
    BY <2>2, <1>6 DEF ChunkFails, ChannelsTypeOK
  <2> QED BY <2>1, <2>3, <1>6 DEF ChunkFails, MessagesFit
<1>7. CASE RespondIos
  <2>1. cur # None /\ cur.ch = "ios" /\ asked' = asked
    BY <1>7 DEF RespondIos, Replying, MessagesFit
  <2> DEFINE ev == [k |-> "response", id |-> cur.id]
  <2>2. ev \in [k : {"status", "response"}, id : Nat] /\ ev.id \in 1 .. asked /\ Outgoing(ev)
    BY <2>1, <1>0, <1>7 DEF RespondIos
  <2> HIDE DEF ev
  <2>3. /\ rx' \in Seq([k : {"status", "response"}, id : Nat]) /\ Len(rx') <= Capacity
        /\ \A i \in DOMAIN rx' : rx'[i].id \in 1 .. asked
        /\ lagged' \in BOOLEAN /\ unseen' \subseteq 1 .. asked
    BY <2>1, <2>2, OutgoingTypes
  <2>4. <<>> \in Seq(1 .. MaxChunks)
    OBVIOUS
  <2>5. ChannelsTypeOK'
    BY <2>3, <2>4, <1>7 DEF RespondIos, ChannelsTypeOK
  <2> QED BY <2>1, <2>3, <2>5, <1>7 DEF RespondIos, MessagesFit
<1>8. CASE RespondCli
  <2>1. cur # None
    BY <1>8 DEF RespondCli, Replying, MessagesFit
  <2>2. <<>> \in Seq(1 .. MaxChunks)
    OBVIOUS
  <2>3. ChannelsTypeOK'
    BY <2>2, <1>8 DEF RespondCli, ChannelsTypeOK
  <2> QED BY <2>1, <2>3, <1>8 DEF RespondCli, MessagesFit
<1>9. CASE Triggers
  <2>1. ChannelsTypeOK'
    BY <1>9 DEF Triggers, ChannelsTypeOK
  <2> QED BY <2>1, <1>9 DEF Triggers, MessagesFit
<1> QED BY <1>1, <1>2, <1>3, <1>4, <1>5, <1>6, <1>7, <1>8, <1>9

\* The end of the program leaves nothing in memory, and starting it again changes
\* nothing else.
LEMMA EndTypes ==
  ASSUME ChannelInv, Crash \/ Quit \/ StartAgain
  PROVE  ChannelsTypeOK' /\ MessagesFit'
<1> USE DEF ChannelInv, tele, loop, ios, hist
<1>1. ASSUME NEW S, Die(S), S \subseteq Updates PROVE ChannelsTypeOK' /\ MessagesFit'
  <2>1. stops' \in 0 .. MaxStops /\ offset' \in 0 .. MaxUpdates + 1 /\ statuses' \in 0 .. MaxStatus
    BY <1>1, ChannelBounds DEF Die, ChannelsTypeOK
  <2>2. \A X : <<>> \in Seq(X)
    OBVIOUS
  <2>3. queue' \in [ChannelNames -> Seq(Nat)]
    BY <2>2, <1>1 DEF Die
  <2>4. Len(<<>>) <= Capacity
    BY ChannelBounds
  <2>5. lost' \subseteq Updates /\ unseen' \subseteq 1 .. asked
    BY <1>1 DEF Die, ChannelsTypeOK
  <2>6. again' \subseteq Updates
    <3>1. Range(taken) \subseteq Updates
      BY DEF ChannelsTypeOK, Range
    <3> QED BY <3>1, <1>1 DEF Die, ChannelsTypeOK
  <2>7. ChannelsTypeOK'
    BY <2>1, <2>2, <2>3, <2>4, <2>5, <2>6, <1>1 DEF Die, ChannelsTypeOK
  <2> QED BY <2>7, <1>1 DEF Die, MessagesFit, ChannelNames
<1>2. Range(queue["telegram"]) \subseteq Updates
  BY DEF MessagesFit, Range
<1>3. InStream \subseteq Updates
  BY <1>2 DEF InStream, MessagesFit
<1>4. CASE StartAgain
  <2>1. ChannelsTypeOK'
    BY <1>4 DEF StartAgain, ChannelsTypeOK
  <2> QED BY <2>1, <1>4 DEF StartAgain, MessagesFit
<1> QED BY <1>1, <1>2, <1>3, <1>4 DEF Crash, Quit

\* A step of Arrive, of the poller or of Agent::run leaves what is confirmed where it
\* is or behind, and the poller never works on an update that is not there.
LEMMA PollerFits ==
  ASSUME ChannelInv,
         \/ \E p \in Posts : Arrive(p[1], p[2])
         \/ PollOk \/ PollEmpty \/ PollError \/ Deliver
  PROVE  /\ PollFits' /\ confirmed <= confirmed'
         /\ Confirms' = IF batch' = batch \/ batch = <<>> THEN Confirms ELSE Confirms + 1
<1> USE DEF ChannelInv
<1>0. /\ Confirms \in Nat /\ confirmed \in Nat /\ Len(posted) \in Nat
      /\ confirmed <= Confirms /\ Confirms <= Len(posted)
      /\ offset \in Nat /\ batch \in Seq(Updates)
  BY ConfirmsType, ChannelBounds DEF ChannelsTypeOK
<1>1. ASSUME NEW p \in Posts, Arrive(p[1], p[2])
      PROVE  /\ PollFits' /\ confirmed <= confirmed' /\ Confirms' = Confirms /\ batch' = batch
  <2>1. posted \in Seq([from : Users, text : Texts]) /\ [from |-> p[1], text |-> p[2]] \in [from : Users, text : Texts]
    BY PostsAssumption DEF ChannelsTypeOK
  <2>2. Len(posted') = Len(posted) + 1
    BY <2>1, <1>1, AtTheEnd DEF Arrive
  <2>3. confirmed' = confirmed /\ offset' = offset /\ batch' = batch /\ Len(posted) < MaxUpdates
    BY <1>1 DEF Arrive
  <2>4. Confirms' = Confirms
    BY <2>3 DEF Confirms
  <2> QED BY <2>2, <2>3, <2>4, <1>0, ChannelBounds DEF PollFits
<1>2. CASE PollOk
  <2>1. /\ batch = <<>> /\ offset' = offset /\ posted' = posted /\ confirmed' = Confirms
        /\ batch' = Answer
    BY <1>2 DEF PollOk
  <2>2. Confirms' = Confirms
    BY <2>1, <1>0 DEF Confirms
  <2>3. \A i \in DOMAIN Answer : Answer[i] = Confirms + i /\ Answer[i] <= Len(posted)
    BY <1>0 DEF Answer
  <2> QED BY <2>1, <2>2, <2>3, <1>0 DEF PollFits
<1>3. CASE PollEmpty \/ PollError
  <2>1. /\ batch = <<>> /\ offset' = offset /\ posted' = posted /\ confirmed' = Confirms
        /\ batch' = batch
    BY <1>3 DEF PollEmpty, PollError
  <2>2. Confirms' = Confirms
    BY <2>1, <1>0 DEF Confirms
  <2> QED BY <2>1, <2>2, <1>0 DEF PollFits
<1>4. CASE Deliver
  <2>1. /\ batch # <<>> /\ offset' = Head(batch) + 1 /\ posted' = posted
        /\ confirmed' = confirmed /\ batch' = Tail(batch)
    BY <1>4 DEF Deliver
  <2>2. /\ Head(batch) = batch[1] /\ 1 \in DOMAIN batch /\ Tail(batch) \in Seq(Updates)
        /\ Len(Tail(batch)) = Len(batch) - 1 /\ Len(batch) \in Nat
        /\ \A i \in DOMAIN Tail(batch) : i + 1 \in DOMAIN batch /\ Tail(batch)[i] = batch[i + 1]
    BY <2>1, <1>0, HeadAndTail
  <2>3. Head(batch) = Confirms + 1 /\ Head(batch) <= Len(posted)
    BY <2>2 DEF PollFits
  <2>4. Confirms' = Confirms + 1
    BY <2>1, <2>3, <1>0 DEF Confirms
  <2>5. Tail(batch) # batch
    <3> SUFFICES ASSUME Tail(batch) = batch PROVE FALSE
      OBVIOUS
    <3>1. Len(batch) = Len(batch) - 1
      BY <2>2
    <3> QED BY <3>1, <2>2
  <2>6. ASSUME NEW i \in DOMAIN Tail(batch)
        PROVE  Tail(batch)[i] = Confirms + 1 + i /\ Tail(batch)[i] <= Len(posted)
    <3>1. i \in Nat
      BY <2>2, AtTheEnd
    <3>2. batch[i + 1] = Confirms + (i + 1) /\ batch[i + 1] <= Len(posted)
      BY <2>2 DEF PollFits
    <3> QED BY <3>1, <3>2, <2>2, <1>0
  <2>7. PollFits'
    BY <2>1, <2>3, <2>4, <2>6, <1>0 DEF PollFits
  <2> QED BY <2>1, <2>4, <2>5, <2>7, <1>0
<1> QED BY <1>0, <1>1, <1>2, <1>3, <1>4

\* What poller and stream say of an update is not touched by the other tasks.
LEMMA NoDelivery ==
  ASSUME ChannelInv,
         \/ Connect \/ Disconnect \/ ClientAsks \/ ClientLagged \/ ClientReceives \/ CliLine
         \/ StatusUpdate \/ HandledEmpty \/ \E n \in 1 .. MaxChunks : Handled(n)
         \/ ChunkSent \/ ChunkFails \/ RespondIos \/ RespondCli \/ Triggers \/ StartAgain
  PROVE  /\ posted' = posted /\ confirmed' = confirmed /\ offset' = offset /\ batch' = batch
         /\ taken' = taken /\ times' = times /\ again' = again /\ lost' = lost
         /\ queue'["telegram"] = queue["telegram"]
<1> USE DEF tele, hist
<1>1. CASE Connect \/ Disconnect \/ ClientLagged \/ ClientReceives
  BY <1>1 DEF Connect, Disconnect, ClientLagged, ClientReceives
<1>2. CASE ClientAsks \/ CliLine
  BY <1>2 DEF ClientAsks, CliLine, ChannelInv, ChannelsTypeOK, ChannelNames
<1>3. CASE StatusUpdate \/ HandledEmpty
  BY <1>3 DEF StatusUpdate, HandledEmpty
<1>4. CASE \E n \in 1 .. MaxChunks : Handled(n)
  BY <1>4 DEF Handled
<1>5. CASE ChunkSent \/ ChunkFails \/ RespondIos
  BY <1>5 DEF ChunkSent, ChunkFails, RespondIos
<1>6. CASE RespondCli \/ Triggers \/ StartAgain
  BY <1>6 DEF RespondCli, Triggers, StartAgain
<1> QED BY <1>1, <1>2, <1>3, <1>4, <1>5, <1>6

\* What the invariant says of Telegram's updates.
UpdatesFit == PollFits /\ PassedFit /\ StreamFits /\ TakenFit /\ TwiceHasACause

\* It holds as long as poller, stream and history stay as they are.
LEMMA UpdatesUntouched ==
  ASSUME ChannelInv, posted' = posted, confirmed' = confirmed, offset' = offset, batch' = batch,
         taken' = taken, times' = times, again' = again, lost' = lost,
         queue'["telegram"] = queue["telegram"]
  PROVE  UpdatesFit'
<1>1. Confirms' = Confirms
  BY DEF Confirms
<1>2. PollFits' /\ TwiceHasACause' /\ TakenFit'
  BY <1>1 DEF ChannelInv, PollFits, TwiceHasACause, TakenFit
<1>3. PassedFit'
  BY <1>1 DEF ChannelInv, PassedFit, Wanted
<1>4. StreamFits'
  BY <1>1 DEF ChannelInv, StreamFits
<1> QED BY <1>2, <1>3, <1>4 DEF UpdatesFit

\* An update that was sent stays what it is when others follow.
LEMMA WantedStays ==
  ASSUME ChannelsTypeOK, NEW p \in Posts, Arrive(p[1], p[2]), NEW u \in 1 .. Len(posted)
  PROVE  Wanted(u)' <=> Wanted(u)
<1>1. posted \in Seq([from : Users, text : Texts]) /\ [from |-> p[1], text |-> p[2]] \in [from : Users, text : Texts]
  BY PostsAssumption DEF ChannelsTypeOK
<1>2. posted'[u] = posted[u]
  BY <1>1, AtTheEnd DEF Arrive
<1> QED BY <1>2 DEF Wanted

\* Telegram's side and the poller pass every wanted update on, once and in order.
LEMMA PollerPasses ==
  ASSUME ChannelInv,
         \/ \E p \in Posts : Arrive(p[1], p[2])
         \/ PollOk \/ PollEmpty \/ PollError \/ Deliver
  PROVE  UpdatesFit'
<1> USE DEF ChannelInv
<1>0. /\ Confirms \in Nat /\ confirmed \in Nat /\ Len(posted) \in Nat
      /\ confirmed <= Confirms /\ Confirms <= Len(posted)
      /\ offset \in Nat /\ batch \in Seq(Updates)
  BY ConfirmsType, ChannelBounds DEF ChannelsTypeOK
<1>1. /\ PollFits' /\ confirmed <= confirmed'
      /\ Confirms' = IF batch' = batch \/ batch = <<>> THEN Confirms ELSE Confirms + 1
  BY PollerFits
<1>2. taken' = taken /\ times' = times /\ again' = again /\ lost' = lost
  BY DEF Arrive, PollOk, PollEmpty, PollError, Deliver, hist
<1>3. TwiceHasACause'
  BY <1>2 DEF TwiceHasACause
<1>4. confirmed' \in Nat /\ Confirms' \in Nat
  <2>1. posted' \in Seq([from : Users, text : Texts]) /\ confirmed' \in 0 .. Len(posted')
    BY PollerTypes DEF ChannelsTypeOK
  <2>2. confirmed' \in Nat
    BY <2>1
  <2> QED BY <2>2, <1>0, <1>1
<1>5. TakenFit'
  <2>1. \A i \in DOMAIN taken : taken[i] \in Nat /\ taken[i] <= Confirms
    <3>1. \A i \in DOMAIN taken : taken[i] \in Updates
      BY DEF ChannelsTypeOK
    <3> QED BY <3>1 DEF TakenFit, Updates
  <2>2. \A i \in DOMAIN taken : taken[i] <= Confirms'
    BY <2>1, <1>0, <1>1, <1>4
  <2>3. ASSUME NEW u \in Updates, times[u] > 0
        PROVE  u \in again \/ u <= confirmed' \/ u \in Range(taken)
    BY <2>3, <1>0, <1>1, <1>4 DEF TakenFit, Updates
  <2> QED BY <2>2, <2>3, <1>2 DEF TakenFit
<1>6. CASE ~Deliver
  <2>1. Confirms' = Confirms /\ queue' = queue
    BY <1>1, <1>6 DEF Arrive, PollOk, PollEmpty, PollError
  <2>2. StreamFits'
    BY <2>1, <1>2 DEF StreamFits
  <2>3. ASSUME NEW u \in 1 .. Confirms PROVE Wanted(u)' <=> Wanted(u)
    <3>1. u \in 1 .. Len(posted)
      BY <1>0
    <3>2. CASE \E p \in Posts : Arrive(p[1], p[2])
      BY <3>1, <3>2, WantedStays
    <3>3. CASE PollOk \/ PollEmpty \/ PollError
      <4>1. posted' = posted
        BY <3>3 DEF PollOk, PollEmpty, PollError
      <4> QED BY <4>1 DEF Wanted
    <3> QED BY <3>2, <3>3, <1>6
  <2>4. PassedFit'
    BY <2>1, <2>3, <1>2 DEF PassedFit
  <2> QED BY <2>2, <2>4, <1>1, <1>3, <1>5 DEF UpdatesFit
<1>7. CASE Deliver
  <2>1. /\ batch # <<>> /\ posted' = posted /\ batch' = Tail(batch)
        /\ queue' = IF Wanted(Head(batch))
                      THEN [queue EXCEPT !["telegram"] = Append(@, Head(batch))] ELSE queue
    BY <1>7 DEF Deliver
  <2> DEFINE new == Head(batch)
             q == queue["telegram"]
             r == queue'["telegram"]
  <2>2. /\ Head(batch) = batch[1] /\ 1 \in DOMAIN batch /\ Head(batch) \in Updates
        /\ Len(Tail(batch)) = Len(batch) - 1 /\ Len(batch) \in Nat
    BY <2>1, <1>0, HeadAndTail
  <2>3. Tail(batch) # batch
    <3> SUFFICES ASSUME Tail(batch) = batch PROVE FALSE
      OBVIOUS
    <3>1. Len(batch) = Len(batch) - 1
      BY <2>2
    <3> QED BY <3>1, <2>2
  <2>4. Confirms' = Confirms + 1 /\ new = Confirms + 1 /\ new \in Updates
    BY <2>1, <2>2, <2>3, <1>1 DEF PollFits
  <2>5. \A u \in 1 .. Len(posted) : Wanted(u)' <=> Wanted(u)
    BY <2>1 DEF Wanted
  <2>6. queue \in [ChannelNames -> Seq(Nat)] /\ q \in Seq(Nat) /\ new \in Nat /\ "telegram" \in ChannelNames
    <3>1. "telegram" \in ChannelNames /\ queue \in [ChannelNames -> Seq(Nat)]
      BY DEF ChannelsTypeOK, ChannelNames
    <3>2. q \in Seq(Nat)
      BY <3>1
    <3> QED BY <3>1, <3>2, <2>4, <1>0
  <2>7. /\ \A i \in DOMAIN q : q[i] \in Nat /\ q[i] \in Updates /\ q[i] <= Confirms /\ (times[q[i]] > 0 => q[i] \in again)
        /\ \A i, j \in DOMAIN q : i < j => q[i] < q[j]
    BY <2>6 DEF StreamFits, MessagesFit
  <2>8. times[new] > 0 => new \in again
    <3>1. \A i \in DOMAIN taken : taken[i] # new
      BY <2>4, <1>0 DEF TakenFit, ChannelsTypeOK, Updates
    <3>2. new \notin Range(taken)
      BY <3>1 DEF Range
    <3>3. ~(new <= confirmed)
      BY <2>4, <1>0
    <3> QED BY <3>2, <3>3, <2>4 DEF TakenFit
  <2>9. CASE ~Wanted(new)
    <3>1. r = q
      BY <2>1, <2>9
    <3>2. StreamFits'
      BY <3>1, <2>4, <2>7, <1>0, <1>2 DEF StreamFits
    <3>3. ASSUME NEW u \in 1 .. Confirms', Wanted(u)'
          PROVE  times[u] > 0 \/ u \in Range(q) \/ u \in lost
      <4>1. Wanted(u)
        BY <3>3, <2>1 DEF Wanted
      <4>2. u # Confirms + 1
        BY <4>1, <2>4, <2>9
      <4>3. u \in 1 .. Confirms
        BY <4>2, <2>4, <1>0
      <4> QED BY <4>1, <4>3 DEF PassedFit
    <3>4. PassedFit'
      BY <3>1, <3>3, <1>2 DEF PassedFit
    <3> QED BY <3>2, <3>4, <1>1, <1>3, <1>5 DEF UpdatesFit
  <2>10. CASE Wanted(new)
    <3>1. r = Append(q, new) /\ Range(r) = Range(q) \cup {new}
      BY <2>1, <2>6, <2>10, QueueGrows
    <3>2. /\ \A i \in DOMAIN q : i \in DOMAIN r /\ r[i] = q[i]
          /\ \A i \in DOMAIN r : i \in DOMAIN q \/ i = Len(q) + 1
          /\ Len(q) + 1 \in DOMAIN r /\ r[Len(q) + 1] = new
          /\ DOMAIN q = 1 .. Len(q) /\ Len(q) \in Nat
      BY <3>1, <2>6, AtTheEnd
    <3> HIDE DEF q, r, new
    <3>3. ASSUME NEW i \in DOMAIN r PROVE r[i] <= Confirms + 1 /\ (times[r[i]] > 0 => r[i] \in again)
      <4>1. CASE i \in DOMAIN q
        BY <4>1, <3>2, <2>7, <1>0
      <4>2. CASE i = Len(q) + 1
        BY <4>2, <3>2, <2>4, <2>8, <1>0
      <4> QED BY <4>1, <4>2, <3>2
    <3>4. ASSUME NEW i \in DOMAIN r, NEW j \in DOMAIN r, i < j PROVE r[i] < r[j]
      <4>1. i \in DOMAIN q
        BY <3>2, <3>4
      <4>2. CASE j \in DOMAIN q
        BY <4>1, <4>2, <3>2, <3>4, <2>7
      <4>3. CASE j = Len(q) + 1
        BY <4>1, <4>3, <3>2, <2>4, <2>7, <1>0
      <4> QED BY <4>2, <4>3, <3>2
    <3>5. StreamFits'
      BY <3>3, <3>4, <2>4, <1>2 DEF StreamFits, r
    <3>6. ASSUME NEW u \in 1 .. Confirms', Wanted(u)'
          PROVE  times[u] > 0 \/ u \in Range(r) \/ u \in lost
      <4>1. CASE u = Confirms + 1
        BY <4>1, <3>1, <2>4
      <4>2. CASE u # Confirms + 1
        <5>1. u \in 1 .. Confirms /\ Wanted(u)
          BY <4>2, <3>6, <2>1, <2>4, <1>0 DEF Wanted
        <5>2. times[u] > 0 \/ u \in Range(q) \/ u \in lost
          BY <5>1 DEF PassedFit, q
        <5> QED BY <5>2, <3>1
      <4> QED BY <4>1, <4>2
    <3>7. PassedFit'
      BY <3>6, <1>2 DEF PassedFit, r
    <3> QED BY <3>5, <3>7, <1>1, <1>3, <1>5 DEF UpdatesFit
  <2> QED BY <2>9, <2>10
<1> QED BY <1>6, <1>7

\* Agent::run takes a message: one that comes again is known, and the others of the
\* stream are other updates.
LEMMA TakePasses ==
  ASSUME ChannelInv, NEW ch \in ChannelNames, Take(ch)
  PROVE  UpdatesFit'
<1> USE DEF ChannelInv
<1>0. /\ Confirms \in Nat /\ confirmed \in Nat /\ Len(posted) \in Nat
      /\ confirmed <= Confirms /\ Confirms <= Len(posted)
  BY ConfirmsType
<1>1. /\ posted' = posted /\ confirmed' = confirmed /\ offset' = offset /\ batch' = batch
      /\ again' = again /\ lost' = lost
  BY DEF Take, tele
<1>2. /\ \A c \in ChannelNames : c # ch => queue'[c] = queue[c]
      /\ \A i \in DOMAIN queue'[ch] :
            i + 1 \in DOMAIN queue[ch] /\ queue'[ch][i] = queue[ch][i + 1]
      /\ Range(queue[ch]) = Range(queue'[ch]) \cup {Head(queue[ch])}
      /\ 1 \in DOMAIN queue[ch] /\ Head(queue[ch]) = queue[ch][1] /\ Head(queue[ch]) \in Nat
  BY QueueShrinks
<1>3. CASE ch # "telegram"
  <2>1. taken' = taken /\ times' = times
    BY <1>3 DEF Take
  <2>2. queue'["telegram"] = queue["telegram"]
    BY <1>2, <1>3 DEF ChannelNames
  <2> QED BY <2>1, <2>2, <1>1, UpdatesUntouched
<1>4. CASE ch = "telegram"
  <2> DEFINE q == queue["telegram"]
             r == queue'["telegram"]
             new == Head(queue["telegram"])
  <2>1. taken' = Append(taken, new) /\ times' = [times EXCEPT ![new] = @ + 1]
    BY <1>4 DEF Take
  <2>2. /\ \A i \in DOMAIN r : i + 1 \in DOMAIN q /\ r[i] = q[i + 1]
        /\ Range(q) = Range(r) \cup {new}
        /\ 1 \in DOMAIN q /\ new = q[1]
    BY <1>2, <1>4
  <2>3. /\ \A i \in DOMAIN q : q[i] \in Updates /\ q[i] <= Confirms /\ (times[q[i]] > 0 => q[i] \in again)
        /\ \A i, j \in DOMAIN q : i < j => q[i] < q[j]
    BY DEF StreamFits, MessagesFit
  <2>4. /\ q \in Seq(Nat) /\ r \in Seq(Nat)
        /\ DOMAIN q = 1 .. Len(q) /\ DOMAIN r = 1 .. Len(r) /\ {Len(q), Len(r)} \subseteq Nat
    <3>1. /\ "telegram" \in ChannelNames /\ queue \in [ChannelNames -> Seq(Nat)]
          /\ queue' \in [ChannelNames -> Seq(Nat)]
      BY QueueShrinks DEF ChannelsTypeOK, ChannelNames
    <3>2. q \in Seq(Nat) /\ r \in Seq(Nat)
      BY <3>1
    <3> HIDE DEF q, r
    <3> QED BY <3>2
  <2>5. /\ new \in Updates /\ new \in Nat /\ times \in [Updates -> Nat] /\ taken \in Seq(Updates)
        /\ times[new] \in Nat
    <3>1. new \in Updates
      BY <2>2, <2>3
    <3>2. times \in [Updates -> Nat] /\ taken \in Seq(Updates)
      BY DEF ChannelsTypeOK
    <3>3. new \in Nat /\ times[new] \in Nat
      BY <3>1, <3>2 DEF Updates
    <3> QED BY <3>1, <3>2, <3>3
  <2> HIDE DEF q, r, new
  <2>6. \A u \in Updates : times'[u] = IF u = new THEN times[u] + 1 ELSE times[u]
    BY <2>1, <2>5
  <2>7. Confirms' = Confirms
    BY <1>1 DEF Confirms
  <2>8. PollFits'
    BY <1>1, <2>7 DEF PollFits
  <2>9. TwiceHasACause'
    <3> SUFFICES ASSUME NEW u \in Updates, times'[u] > 1 PROVE u \in again
      BY <1>1 DEF TwiceHasACause
    <3>1. CASE u = new
      <4>1. times[new] > 0
        BY <3>1, <2>5, <2>6
      <4> QED BY <4>1, <3>1, <2>2, <2>3
    <3>2. CASE u # new
      BY <3>2, <2>6 DEF TwiceHasACause
    <3> QED BY <3>1, <3>2
  <2>10. StreamFits'
    <3>1. ASSUME NEW i \in DOMAIN r PROVE r[i] <= Confirms /\ (times'[r[i]] > 0 => r[i] \in again)
      <4>1. i + 1 \in DOMAIN q /\ r[i] = q[i + 1] /\ q[i + 1] \in Updates
        BY <2>2, <2>3
      <4>2. 1 < i + 1
        BY <4>1, <2>4
      <4>3. q[1] < q[i + 1]
        BY <4>1, <4>2, <2>2, <2>3
      <4>4. r[i] # new
        BY <4>1, <4>3, <2>2, <2>5
      <4> QED BY <4>1, <4>4, <2>3, <2>6
    <3>2. ASSUME NEW i \in DOMAIN r, NEW j \in DOMAIN r, i < j PROVE r[i] < r[j]
      <4>1. /\ i + 1 \in DOMAIN q /\ r[i] = q[i + 1]
            /\ j + 1 \in DOMAIN q /\ r[j] = q[j + 1]
        BY <2>2
      <4>2. i + 1 < j + 1
        BY <3>2, <4>1, <2>4
      <4> QED BY <4>1, <4>2, <2>3
    <3> QED BY <3>1, <3>2, <2>7, <1>1 DEF StreamFits, r
  <2>11. Range(taken') = Range(taken) \cup {new}
    <3>1. /\ \A i \in DOMAIN taken : i \in DOMAIN taken' /\ taken'[i] = taken[i]
          /\ \A i \in DOMAIN taken' : i \in DOMAIN taken \/ i = Len(taken) + 1
          /\ Len(taken) + 1 \in DOMAIN taken' /\ taken'[Len(taken) + 1] = new
      BY <2>1, <2>5, AtTheEnd
    <3> QED BY <3>1 DEF Range
  <2>12. TakenFit'
    <3>1. \A v \in Range(taken) : v <= Confirms
      BY DEF TakenFit, Range
    <3>2. new <= Confirms
      BY <2>2, <2>3
    <3>3. \A i \in DOMAIN taken' : taken'[i] \in Range(taken')
      BY DEF Range
    <3>4. \A i \in DOMAIN taken' : taken'[i] <= Confirms
      BY <3>1, <3>2, <3>3, <2>11
    <3>5. ASSUME NEW u \in Updates, times'[u] > 0
          PROVE  u \in again \/ u <= confirmed \/ u \in Range(taken')
      BY <3>5, <2>6, <2>11 DEF TakenFit
    <3> QED BY <3>4, <3>5, <2>7, <1>1 DEF TakenFit
  <2>13. PassedFit'
    <3>1. ASSUME NEW u \in 1 .. Confirms, Wanted(u)
          PROVE  times'[u] > 0 \/ u \in Range(r) \/ u \in lost
      <4>0. u \in Updates
        BY <1>0, ChannelBounds DEF PollFits, Updates
      <4>1. times[u] > 0 \/ u \in Range(q) \/ u \in lost
        BY <3>1 DEF PassedFit, q
      <4>2. CASE u = new
        BY <4>0, <4>2, <2>5, <2>6
      <4>3. CASE u # new
        BY <4>0, <4>1, <4>3, <2>2, <2>6
      <4> QED BY <4>2, <4>3
    <3>2. \A u : Wanted(u)' <=> Wanted(u)
      BY <1>1 DEF Wanted
    <3> QED BY <3>1, <3>2, <2>7, <1>1 DEF PassedFit, r
  <2> QED BY <2>8, <2>9, <2>10, <2>12, <2>13 DEF UpdatesFit
<1> QED BY <1>3, <1>4

\* The end of the program: what is confirmed and in memory is lost, what was taken
\* and is not confirmed comes again.
LEMMA EndPasses ==
  ASSUME ChannelInv, NEW S, Die(S), Range(queue["telegram"]) \subseteq S
  PROVE  UpdatesFit'
<1> USE DEF ChannelInv
<1>0. /\ Confirms \in Nat /\ confirmed \in Nat /\ Len(posted) \in Nat
      /\ confirmed <= Confirms /\ Confirms <= Len(posted)
  BY ConfirmsType
<1>1. /\ posted' = posted /\ confirmed' = confirmed /\ offset' = 0 /\ batch' = <<>>
      /\ queue'["telegram"] = <<>> /\ taken' = <<>> /\ times' = times
      /\ lost' = lost \cup {u \in S : u <= confirmed}
      /\ again' = again \cup {u \in Range(taken) : u > confirmed}
  BY DEF Die, ChannelNames
<1>2. Confirms' = confirmed
  BY <1>0, <1>1 DEF Confirms
<1>3. PollFits' /\ StreamFits' /\ TwiceHasACause'
  BY <1>0, <1>1 DEF PollFits, StreamFits, TwiceHasACause
<1>4. TakenFit'
  <2>1. ASSUME NEW u \in Updates, times[u] > 0 PROVE u \in again' \/ u <= confirmed
    <3>1. u \in again \/ u <= confirmed \/ u \in Range(taken)
      BY <2>1 DEF TakenFit
    <3>2. u \in Nat
      BY DEF Updates
    <3> QED BY <3>1, <3>2, <1>0, <1>1
  <2> QED BY <2>1, <1>1 DEF TakenFit
<1>5. PassedFit'
  <2>1. ASSUME NEW u \in 1 .. confirmed, Wanted(u) PROVE times[u] > 0 \/ u \in lost'
    <3>1. u \in 1 .. Confirms
      BY <1>0
    <3>2. times[u] > 0 \/ u \in S \/ u \in lost
      BY <2>1, <3>1 DEF PassedFit
    <3> QED BY <3>2, <1>0, <1>1
  <2>2. \A u : Wanted(u)' <=> Wanted(u)
    BY <1>1 DEF Wanted
  <2> QED BY <2>1, <2>2, <1>1, <1>2 DEF PassedFit
<1> QED BY <1>3, <1>4, <1>5 DEF UpdatesFit

\* The chunks of a reply arrive in order and without a gap, and Agent::run knows what
\* is left of it.
LEMMA RepliesFit ==
  ASSUME ChannelInv, [ChannelsNext]_channelVars
  PROVE  ReplyFits' /\ ReplyHasNoGap'
<1> USE DEF ChannelInv, loop
<1>1. ASSUME got' = got, todo' = todo, cur' = cur, pc' = pc
      PROVE  ReplyFits' /\ ReplyHasNoGap'
  BY <1>1 DEF ReplyFits, ReplyHasNoGap
<1>2. ASSUME got' = got, pc' # "reply"
      PROVE  ReplyFits' /\ ReplyHasNoGap'
  BY <1>2 DEF ReplyFits, ReplyHasNoGap
<1>3. CASE \E p \in Posts : Arrive(p[1], p[2])
  BY <1>1, <1>3 DEF Arrive
<1>4. CASE PollOk \/ PollEmpty \/ PollError \/ Deliver
  BY <1>1, <1>4 DEF PollOk, PollEmpty, PollError, Deliver
<1>5. CASE Connect \/ Disconnect \/ ClientAsks \/ ClientLagged \/ ClientReceives \/ CliLine
  BY <1>1, <1>5 DEF Connect, Disconnect, ClientAsks, ClientLagged, ClientReceives, CliLine
<1>6. CASE StatusUpdate \/ StartAgain \/ UNCHANGED channelVars
  BY <1>1, <1>6 DEF StatusUpdate, StartAgain, channelVars
<1>7. CASE \E ch \in ChannelNames : Take(ch)
  BY <1>2, <1>7 DEF Take
<1>8. CASE HandledEmpty \/ ChunkFails
  BY <1>2, <1>8 DEF HandledEmpty, ChunkFails
<1>9. CASE RespondIos \/ RespondCli \/ Triggers
  BY <1>2, <1>9 DEF RespondIos, RespondCli, Triggers
<1>10. CASE Crash \/ Quit
  BY <1>2, <1>10 DEF Crash, Quit, Die
<1>11. ASSUME NEW n \in 1 .. MaxChunks, Handled(n) PROVE ReplyFits' /\ ReplyHasNoGap'
  <2>1. /\ cur' = cur /\ todo' = [i \in 1 .. n |-> i] /\ cur # None
        /\ got' = IF cur.ch = "telegram" THEN [got EXCEPT ![cur.id] = <<>>] ELSE got
        /\ n \in Nat /\ n >= 1
    BY <1>11, ChannelBounds DEF Handled, MessagesFit
  <2>2. cur.ch = "telegram" => cur.id \in Updates
    BY <2>1 DEF MessagesFit
  <2>3. got \in [Updates -> Seq(1 .. MaxChunks)]
    BY DEF ChannelsTypeOK
  <2>4. cur.ch = "telegram" => got'[cur.id] = <<>> /\ Len(got'[cur.id]) = 0
    BY <2>1, <2>2, <2>3
  <2>5. todo' # <<>> /\ \A i \in DOMAIN todo' : todo'[i] = 0 + i
    <3>1. 1 \in DOMAIN todo' /\ DOMAIN <<>> = {}
      BY <2>1
    <3> QED BY <3>1, <2>1
  <2>6. ReplyFits'
    BY <2>1, <2>4, <2>5 DEF ReplyFits
  <2>7. ASSUME NEW u \in Updates, NEW i \in DOMAIN got'[u] PROVE got'[u][i] = i
    <3>1. CASE cur.ch = "telegram" /\ u = cur.id
      <4>1. DOMAIN got'[u] = {}
        BY <3>1, <2>4
      <4> QED BY <4>1
    <3>2. CASE ~(cur.ch = "telegram" /\ u = cur.id)
      <4>1. got'[u] = got[u]
        BY <3>2, <2>1, <2>2, <2>3
      <4> QED BY <4>1, <2>7 DEF ReplyHasNoGap
    <3> QED BY <3>1, <3>2
  <2> QED BY <2>6, <2>7 DEF ReplyHasNoGap
<1>12. CASE ChunkSent
  <2> DEFINE u == cur.id
  <2>1. /\ cur # None /\ cur.ch = "telegram" /\ pc = "reply" /\ cur' = cur
        /\ got' = [got EXCEPT ![u] = Append(@, Head(todo))]
        /\ todo' = Tail(todo) /\ pc' = IF Len(todo) = 1 THEN "triggers" ELSE "reply"
    BY <1>12 DEF ChunkSent, Replying, MessagesFit
  <2>2. /\ todo # <<>> /\ todo \in Seq(1 .. MaxChunks) /\ u \in Updates
        /\ \A i \in DOMAIN todo : todo[i] = Len(got[u]) + i
    BY <2>1 DEF ReplyFits, MessagesFit, ChannelsTypeOK
  <2>3. /\ Head(todo) = todo[1] /\ 1 \in DOMAIN todo /\ Head(todo) \in 1 .. MaxChunks
        /\ Tail(todo) \in Seq(1 .. MaxChunks) /\ Len(Tail(todo)) = Len(todo) - 1
        /\ \A i \in DOMAIN Tail(todo) : i + 1 \in DOMAIN todo /\ Tail(todo)[i] = todo[i + 1]
    BY <2>2, HeadAndTail
  <2>4. got \in [Updates -> Seq(1 .. MaxChunks)] /\ got[u] \in Seq(1 .. MaxChunks)
    BY <2>2 DEF ChannelsTypeOK
  <2>5. got'[u] = Append(got[u], Head(todo)) /\ \A v \in Updates : v # u => got'[v] = got[v]
    BY <2>1, <2>2, <2>4
  <2> HIDE DEF u
  <2>6. /\ Len(got'[u]) = Len(got[u]) + 1 /\ Len(got[u]) \in Nat
        /\ \A i \in DOMAIN got[u] : i \in DOMAIN got'[u] /\ got'[u][i] = got[u][i]
        /\ \A i \in DOMAIN got'[u] : i \in DOMAIN got[u] \/ i = Len(got[u]) + 1
        /\ got'[u][Len(got[u]) + 1] = Head(todo)
    BY <2>3, <2>4, <2>5, AtTheEnd
  <2>7. ASSUME NEW v \in Updates, NEW i \in DOMAIN got'[v] PROVE got'[v][i] = i
    <3>1. CASE v # u
      <4>1. got'[v] = got[v]
        BY <3>1, <2>5
      <4> QED BY <4>1, <2>7 DEF ReplyHasNoGap
    <3>2. CASE v = u /\ i \in DOMAIN got[u]
      BY <3>2, <2>2, <2>6 DEF ReplyHasNoGap
    <3>3. CASE v = u /\ i = Len(got[u]) + 1
      BY <3>3, <2>2, <2>3, <2>6
    <3> QED BY <3>1, <3>2, <3>3, <2>6, <2>7
  <2>8. ASSUME pc' = "reply"
        PROVE  todo' # <<>> /\ \A i \in DOMAIN todo' : todo'[i] = Len(got'[u]) + i
    <3>1. Len(todo) # 1 /\ Len(todo) \in Nat /\ Len(todo) # 0
      BY <2>1, <2>2, <2>8, EmptySeq
    <3>2. todo' # <<>>
      <4> SUFFICES ASSUME Tail(todo) = <<>> PROVE FALSE
        BY <2>1
      <4>1. Len(<<>>) = 0
        OBVIOUS
      <4>2. Len(Tail(todo)) # 0
        BY <3>1, <2>3
      <4> QED BY <4>1, <4>2
    <3>3. ASSUME NEW i \in DOMAIN todo' PROVE todo'[i] = Len(got'[u]) + i
      <4>1. i \in DOMAIN Tail(todo) /\ todo' = Tail(todo) /\ i \in Nat
        BY <3>3, <2>1, <2>3, AtTheEnd
      <4>2. todo[i + 1] = Len(got[u]) + (i + 1) /\ Tail(todo)[i] = todo[i + 1]
        BY <4>1, <2>2, <2>3
      <4>3. Len(got[u]) + (i + 1) = Len(got'[u]) + i
        <5>1. i \in Nat
          BY <4>1
        <5>2. Len(got'[u]) = Len(got[u]) + 1 /\ Len(got[u]) \in Nat
          BY <2>6
        <5> QED BY <5>1, <5>2
      <4>4. todo'[i] = Tail(todo)[i]
        BY <4>1
      <4> QED BY <4>2, <4>3, <4>4
    <3> QED BY <3>2, <3>3
  <2>9. ReplyFits'
    BY <2>1, <2>8 DEF ReplyFits, u
  <2> QED BY <2>7, <2>9 DEF ReplyHasNoGap
<1> QED BY <1>3, <1>4, <1>5, <1>6, <1>7, <1>8, <1>9, <1>10, <1>11, <1>12 DEF ChannelsNext

\* A message of the client is accounted for.
OnScreen(n) ==
    \/ n \in seen \cup unseen \cup Range(queue["ios"])
    \/ cur = [ch |-> "ios", id |-> n] /\ pc \in {"handle", "reply"}
    \/ \E i \in DOMAIN rx : rx[i] = [k |-> "response", id |-> n]

\* No reply to the iOS client gets lost without being given up.
LEMMA ScreenKept ==
  ASSUME ChannelInv, [ChannelsNext]_channelVars
  PROVE  ScreenFits'
<1> USE DEF ChannelInv, loop, ios, tele, hist
<1>0. /\ asked \in Nat /\ seen \subseteq 1 .. asked /\ unseen \subseteq 1 .. asked
      /\ queue \in [ChannelNames -> Seq(Nat)]
      /\ rx \in Seq([k : {"status", "response"}, id : Nat])
      /\ "ios" \in ChannelNames
  BY ChannelBounds DEF ChannelsTypeOK, ChannelNames
<1>1. /\ \A n \in 1 .. asked : OnScreen(n)
      /\ ~conn => 1 .. asked \subseteq seen \cup unseen
  BY DEF ScreenFits, OnScreen
<1>2. ASSUME asked' = asked, \A n \in 1 .. asked : OnScreen(n)', ~conn' => 1 .. asked \subseteq seen' \cup unseen'
      PROVE  ScreenFits'
  BY <1>2 DEF ScreenFits, OnScreen
<1>3. ASSUME asked' = asked, conn' = conn, seen' = seen, unseen' = unseen, rx' = rx,
             queue'["ios"] = queue["ios"], cur' = cur, pc' = pc
      PROVE  ScreenFits'
  BY <1>3 DEF ScreenFits
<1>4. CASE \E p \in Posts : Arrive(p[1], p[2])
  BY <1>3, <1>4 DEF Arrive
<1>5. CASE PollOk \/ PollEmpty \/ PollError
  BY <1>3, <1>5 DEF PollOk, PollEmpty, PollError
<1>6. CASE Deliver
  <2>1. queue'["ios"] = queue["ios"]
    BY <1>0, <1>6 DEF Deliver
  <2> QED BY <2>1, <1>3, <1>6 DEF Deliver
<1>7. CASE ClientLagged \/ StartAgain \/ UNCHANGED channelVars
  BY <1>3, <1>7 DEF ClientLagged, StartAgain, channelVars
<1>8. CASE CliLine
  <2>1. queue'["ios"] = queue["ios"]
    BY <1>0, <1>8 DEF CliLine
  <2> QED BY <2>1, <1>3, <1>8 DEF CliLine
<1>9. CASE Connect
  <2>1. 1 .. asked \subseteq seen \cup unseen /\ asked' = asked /\ seen' = seen /\ unseen' = unseen
    BY <1>1, <1>9 DEF Connect
  <2> QED BY <2>1, <1>2 DEF OnScreen
<1>10. CASE Disconnect
  <2>1. 1 .. asked \subseteq seen' \cup unseen' /\ asked' = asked
    BY <1>10 DEF Disconnect
  <2> QED BY <2>1, <1>2 DEF OnScreen
<1>11. ASSUME NEW S, Die(S) PROVE ScreenFits'
  <2>1. 1 .. asked \subseteq seen' \cup unseen' /\ asked' = asked
    BY <1>11 DEF Die
  <2> QED BY <2>1, <1>2 DEF OnScreen
<1>12. CASE ClientAsks
  <2>1. conn' /\ asked' = asked + 1 /\ asked + 1 \in Nat
        /\ queue' = [queue EXCEPT !["ios"] = Append(@, asked + 1)]
        /\ seen' = seen /\ unseen' = unseen /\ rx' = rx /\ cur' = cur /\ pc' = pc
    BY <1>0, <1>12 DEF ClientAsks
  <2>2. Range(queue'["ios"]) = Range(queue["ios"]) \cup {asked + 1}
    BY <2>1, <1>0, QueueGrows
  <2>3. ASSUME NEW n \in 1 .. asked' PROVE OnScreen(n)'
    <3>1. CASE n = asked + 1
      BY <3>1, <2>2 DEF OnScreen
    <3>2. CASE n \in 1 .. asked
      <4>1. OnScreen(n)
        BY <3>2, <1>1
      <4> QED BY <4>1, <2>1, <2>2 DEF OnScreen
    <3> QED BY <3>1, <3>2, <2>1, <1>0
  <2> QED BY <2>1, <2>3 DEF ScreenFits, OnScreen
<1>13. CASE ClientReceives
  <2>1. /\ rx # <<>> /\ rx' = Tail(rx) /\ asked' = asked /\ conn' /\ unseen' = unseen
        /\ queue' = queue /\ cur' = cur /\ pc' = pc
        /\ seen' = IF Head(rx).k = "response" THEN seen \cup {Head(rx).id} ELSE seen
    BY <1>13 DEF ClientReceives
  <2>2. /\ Head(rx) = rx[1] /\ Len(Tail(rx)) = Len(rx) - 1
        /\ Tail(rx) \in Seq([k : {"status", "response"}, id : Nat])
        /\ DOMAIN rx = 1 .. Len(rx) /\ Len(rx) \in Nat
        /\ \A i \in DOMAIN Tail(rx) : Tail(rx)[i] = rx[i + 1]
    BY <2>1, <1>0, HeadAndTail
  <2>3. DOMAIN Tail(rx) = 1 .. Len(rx) - 1
    BY <2>2
  <2>4. ASSUME NEW n \in 1 .. asked, NEW i \in DOMAIN rx, rx[i] = [k |-> "response", id |-> n]
        PROVE  OnScreen(n)'
    <3>1. CASE i = 1
      BY <3>1, <2>1, <2>2, <2>4 DEF OnScreen
    <3>2. CASE i # 1
      <4>1. i - 1 \in DOMAIN rx' /\ (i - 1) + 1 = i
        BY <3>2, <2>1, <2>2, <2>3
      <4>2. rx'[i - 1] = rx[i]
        BY <4>1, <2>1, <2>2
      <4> QED BY <4>1, <4>2, <2>4 DEF OnScreen
    <3> QED BY <3>1, <3>2
  <2>5. ASSUME NEW n \in 1 .. asked PROVE OnScreen(n)'
    <3>1. OnScreen(n)
      BY <1>1
    <3> QED BY <3>1, <2>1, <2>4 DEF OnScreen
  <2> QED BY <2>1, <2>5, <1>2
<1>14. ASSUME NEW ch \in ChannelNames, Take(ch) PROVE ScreenFits'
  <2>1. /\ asked' = asked /\ conn' = conn /\ seen' = seen /\ unseen' = unseen /\ rx' = rx
        /\ pc = "wait" /\ pc' = "handle" /\ cur' = [ch |-> ch, id |-> Head(queue[ch])]
    BY <1>14 DEF Take
  <2>2. /\ \A c \in ChannelNames : c # ch => queue'[c] = queue[c]
        /\ Range(queue[ch]) = Range(queue'[ch]) \cup {Head(queue[ch])}
    BY <1>14, QueueShrinks
  <2>3. ASSUME NEW n \in 1 .. asked PROVE OnScreen(n)'
    <3>1. /\ OnScreen(n) /\ ~(cur = [ch |-> "ios", id |-> n] /\ pc \in {"handle", "reply"})
      BY <2>1, <1>1
    <3>2. CASE n \in Range(queue["ios"])
      <4>1. CASE ch = "ios"
        BY <3>2, <4>1, <2>1, <2>2 DEF OnScreen
      <4>2. CASE ch # "ios"
        BY <3>2, <4>2, <2>2, <1>0 DEF OnScreen
      <4> QED BY <4>1, <4>2
    <3>3. CASE n \notin Range(queue["ios"])
      BY <3>1, <3>3, <2>1 DEF OnScreen
    <3> QED BY <3>2, <3>3
  <2> QED BY <2>1, <2>3, <1>1, <1>2
<1>15. CASE StatusUpdate
  <2>1. /\ asked' = asked /\ conn' = conn /\ seen' = seen /\ queue' = queue /\ cur' = cur
        /\ pc' = pc /\ cur # None
    BY <1>15 DEF StatusUpdate, MessagesFit
  <2>2. CASE cur.ch # "ios"
    <3>1. rx' = rx /\ unseen' = unseen
      BY <2>2, <1>15 DEF StatusUpdate
    <3> QED BY <3>1, <2>1, <1>3
  <2>3. CASE cur.ch = "ios"
    <3> DEFINE ev == [k |-> "status", id |-> cur.id]
    <3>1. cur.id \in 1 .. asked /\ cur.id \in Nat
      BY <2>1, <2>3, <1>0 DEF MessagesFit
    <3>2. ev \in [k : {"status", "response"}, id : Nat] /\ ev.id \in 1 .. asked /\ Outgoing(ev)
      BY <3>1, <2>3, <1>15 DEF StatusUpdate
    <3> HIDE DEF ev
    <3>3. /\ unseen \subseteq unseen'
          /\ \A i \in DOMAIN rx : \/ \E j \in DOMAIN rx' : rx'[j] = rx[i]
                                  \/ rx[i].k = "response" => rx[i].id \in unseen'
      BY <3>2, <2>1, OutgoingTypes
    <3>4. ASSUME NEW n \in 1 .. asked PROVE OnScreen(n)'
      <4>1. OnScreen(n)
        BY <1>1
      <4>2. ASSUME NEW i \in DOMAIN rx, rx[i] = [k |-> "response", id |-> n] PROVE OnScreen(n)'
        <5>1. rx[i].k = "response" /\ rx[i].id = n
          BY <4>2
        <5> QED BY <5>1, <4>2, <3>3 DEF OnScreen
      <4> QED BY <4>1, <4>2, <3>3, <2>1 DEF OnScreen
    <3>5. ~conn' => 1 .. asked \subseteq seen' \cup unseen'
      BY <3>3, <2>1, <1>1
    <3> QED BY <3>4, <3>5, <2>1, <1>2
  <2> QED BY <2>2, <2>3
<1>16. CASE RespondIos
  <2>1. /\ asked' = asked /\ conn' = conn /\ seen' = seen /\ queue' = queue
        /\ cur # None /\ cur.ch = "ios"
    BY <1>16 DEF RespondIos, Replying, MessagesFit
  <2> DEFINE ev == [k |-> "response", id |-> cur.id]
  <2>2. cur.id \in 1 .. asked /\ cur.id \in Nat
    BY <2>1, <1>0 DEF MessagesFit
  <2>3. ev \in [k : {"status", "response"}, id : Nat] /\ ev.id \in 1 .. asked /\ Outgoing(ev)
    BY <2>2, <1>16 DEF RespondIos
  <2>4. /\ unseen \subseteq unseen'
        /\ conn => \E i \in DOMAIN rx' : rx'[i] = ev
        /\ \A i \in DOMAIN rx : \/ \E j \in DOMAIN rx' : rx'[j] = rx[i]
                                \/ rx[i].k = "response" => rx[i].id \in unseen'
    <3> HIDE DEF ev
    <3> QED BY <2>3, <2>1, OutgoingTypes
  <2>5. ASSUME NEW n \in 1 .. asked PROVE OnScreen(n)'
    <3>1. OnScreen(n)
      BY <1>1
    <3>2. ASSUME NEW i \in DOMAIN rx, rx[i] = [k |-> "response", id |-> n] PROVE OnScreen(n)'
      <4>1. rx[i].k = "response" /\ rx[i].id = n
        BY <3>2
      <4> QED BY <4>1, <3>2, <2>4 DEF OnScreen
    <3>3. CASE cur = [ch |-> "ios", id |-> n]
      <4>1. CASE conn
        <5>1. ev = [k |-> "response", id |-> n]
          BY <3>3
        <5> QED BY <5>1, <4>1, <2>4 DEF OnScreen
      <4>2. CASE ~conn
        BY <4>2, <2>1, <2>4, <1>1 DEF OnScreen
      <4> QED BY <4>1, <4>2
    <3> HIDE DEF ev
    <3> QED BY <3>1, <3>2, <3>3, <2>1, <2>4 DEF OnScreen
  <2>6. ~conn' => 1 .. asked \subseteq seen' \cup unseen'
    BY <2>1, <2>4, <1>1
  <2> QED BY <2>1, <2>5, <2>6, <1>2
<1>17. ASSUME cur # None, cur.ch # "ios", asked' = asked, conn' = conn, seen' = seen,
              unseen' = unseen, rx' = rx, queue' = queue
       PROVE  ScreenFits'
  <2>1. ASSUME NEW n \in 1 .. asked PROVE OnScreen(n)'
    <3>1. OnScreen(n) /\ cur # [ch |-> "ios", id |-> n]
      BY <1>1, <1>17
    <3> QED BY <3>1, <1>17 DEF OnScreen
  <2> QED BY <2>1, <1>1, <1>2, <1>17
<1>18. CASE ChunkSent \/ ChunkFails \/ RespondCli
  <2>1. /\ cur # None /\ cur.ch # "ios" /\ asked' = asked /\ conn' = conn /\ seen' = seen
        /\ unseen' = unseen /\ rx' = rx /\ queue' = queue
    BY <1>18 DEF ChunkSent, ChunkFails, RespondCli, Replying, MessagesFit
  <2> QED BY <2>1, <1>17
<1>19. ASSUME NEW n \in 1 .. MaxChunks, Handled(n) PROVE ScreenFits'
  <2>1. /\ asked' = asked /\ conn' = conn /\ seen' = seen /\ unseen' = unseen /\ rx' = rx
        /\ queue' = queue /\ cur' = cur /\ pc' = "reply"
    BY <1>19 DEF Handled
  <2>2. \A m \in 1 .. asked : OnScreen(m)'
    BY <2>1, <1>1 DEF OnScreen
  <2> QED BY <2>1, <2>2, <1>1, <1>2
<1>20. CASE HandledEmpty
  <2>1. /\ asked' = asked /\ conn' = conn /\ seen' = seen /\ rx' = rx /\ queue' = queue /\ cur' = cur
        /\ unseen' = IF cur.ch = "ios" THEN unseen \cup {cur.id} ELSE unseen
    BY <1>20 DEF HandledEmpty
  <2>2. ASSUME NEW n \in 1 .. asked PROVE OnScreen(n)'
    <3>1. OnScreen(n)
      BY <1>1
    <3>2. CASE cur = [ch |-> "ios", id |-> n]
      <4>1. cur.ch = "ios" /\ cur.id = n
        BY <3>2
      <4> QED BY <4>1, <2>1 DEF OnScreen
    <3>3. unseen \subseteq unseen'
      BY <2>1
    <3> QED BY <3>1, <3>2, <3>3, <2>1 DEF OnScreen
  <2>3. ~conn' => 1 .. asked \subseteq seen' \cup unseen'
    BY <2>1, <1>1
  <2> QED BY <2>1, <2>2, <2>3, <1>2
<1>21. CASE Triggers
  <2>1. /\ asked' = asked /\ conn' = conn /\ seen' = seen /\ unseen' = unseen /\ rx' = rx
        /\ queue' = queue /\ pc = "triggers"
    BY <1>21 DEF Triggers
  <2>2. \A n \in 1 .. asked : OnScreen(n)'
    BY <2>1, <1>1 DEF OnScreen
  <2> QED BY <2>1, <2>2, <1>1, <1>2
<1> QED BY <1>4, <1>5, <1>6, <1>7, <1>8, <1>9, <1>10, <1>11, <1>12, <1>13, <1>14, <1>15,
           <1>16, <1>18, <1>19, <1>20, <1>21 DEF ChannelsNext, Crash, Quit

\* The invariant of the channels is kept by every step.
LEMMA ChannelsStep ==
  ASSUME ChannelInv, [ChannelsNext]_channelVars
  PROVE  ChannelInv'
<1>1. ReplyFits' /\ ReplyHasNoGap' /\ ScreenFits'
  BY RepliesFit, ScreenKept
<1>2. CASE \/ \E p \in Posts : Arrive(p[1], p[2])
           \/ PollOk \/ PollEmpty \/ PollError \/ Deliver
  BY <1>1, <1>2, PollerTypes, PollerPasses DEF ChannelInv, UpdatesFit
<1>3. CASE Connect \/ Disconnect \/ ClientAsks \/ ClientLagged \/ ClientReceives \/ CliLine
  <2>1. ChannelsTypeOK' /\ MessagesFit'
    BY <1>3, ClientTypes
  <2>2. UpdatesFit'
    BY <1>3, NoDelivery, UpdatesUntouched
  <2> QED BY <1>1, <2>1, <2>2 DEF ChannelInv, UpdatesFit
<1>4. ASSUME NEW ch \in ChannelNames, Take(ch) PROVE ChannelInv'
  <2>1. ChannelsTypeOK' /\ MessagesFit'
    BY <1>4, LoopTypes
  <2>2. UpdatesFit'
    BY <1>4, TakePasses
  <2> QED BY <1>1, <2>1, <2>2 DEF ChannelInv, UpdatesFit
<1>5. CASE \/ StatusUpdate \/ HandledEmpty \/ \E n \in 1 .. MaxChunks : Handled(n)
           \/ ChunkSent \/ ChunkFails \/ RespondIos \/ RespondCli \/ Triggers
  <2>1. ChannelsTypeOK' /\ MessagesFit'
    BY <1>5, LoopTypes
  <2>2. UpdatesFit'
    BY <1>5, NoDelivery, UpdatesUntouched
  <2> QED BY <1>1, <2>1, <2>2 DEF ChannelInv, UpdatesFit
<1>6. CASE Crash \/ Quit
  <2>1. ChannelsTypeOK' /\ MessagesFit'
    BY <1>6, EndTypes
  <2>2. UpdatesFit'
    BY <1>6, EndPasses DEF Crash, Quit, InStream
  <2> QED BY <1>1, <2>1, <2>2 DEF ChannelInv, UpdatesFit
<1>7. CASE StartAgain
  <2>1. ChannelsTypeOK' /\ MessagesFit'
    BY <1>7, EndTypes
  <2>2. UpdatesFit'
    BY <1>7, NoDelivery, UpdatesUntouched
  <2> QED BY <1>1, <2>1, <2>2 DEF ChannelInv, UpdatesFit
<1>8. CASE UNCHANGED channelVars
  <2>1. ChannelsTypeOK' /\ MessagesFit'
    BY <1>8 DEF channelVars, tele, loop, ios, hist, ChannelInv, ChannelsTypeOK, MessagesFit
  <2>2. UpdatesFit'
    BY <1>8, UpdatesUntouched DEF channelVars, tele, hist
  <2> QED BY <1>1, <2>1, <2>2 DEF ChannelInv, UpdatesFit
<1> QED BY <1>2, <1>3, <1>4, <1>5, <1>6, <1>7, <1>8 DEF ChannelsNext

\* TelegramChannel::start and Agent::run: an update that Telegram has forgotten waits,
\* was taken, or was in memory when the program ended; and it is taken a second time
\* only when the program ended before it was confirmed.
THEOREM UpdatesTakenOnce == ChannelsSpec => []TakenOnceHasACause
<1>1. ChannelInv => TakenOnceHasACause
  <2> SUFFICES ASSUME ChannelInv PROVE TakenOnceHasACause
    OBVIOUS
  <2>1. \A u \in 1 .. confirmed : u \in 1 .. Confirms
    BY ConfirmsType DEF ChannelInv
  <2>2. \A u \in 1 .. confirmed : Wanted(u) /\ times[u] = 0 /\ u \notin Range(queue["telegram"]) => u \in lost
    BY <2>1 DEF ChannelInv, PassedFit
  <2> QED BY <2>2 DEF ChannelInv, TakenOnceHasACause, LostHasACause
<1> QED BY <1>1, ChannelsStart, ChannelsStep, PTL DEF ChannelsSpec

\* TelegramChannel::respond and handle_chat_socket: a Telegram user reads a beginning of
\* the reply without a gap, and a reply the iOS user does not see was never given, was
\* under way when the connection broke, or was dropped by the broadcast channel.
THEOREM RepliesAreRead == ChannelsSpec => []UnreadHasACause
<1>1. ChannelInv => UnreadHasACause
  BY DEF ChannelInv, ScreenFits, UnreadHasACause, UnseenHasACause
<1> QED BY <1>1, ChannelsStart, ChannelsStep, PTL DEF ChannelsSpec
=============================================================================
