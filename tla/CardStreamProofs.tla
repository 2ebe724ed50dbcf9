-------------------------- MODULE CardStreamProofs --------------------------
(***************************************************************************)
(* TLAPS proofs about CardStream, for every number of cards and questions, *)
(* every capacity of the broadcast channel and any number of broken        *)
(* connections and refinements: the client's list follows the queue, and   *)
(* the answer to a question reaches the call that asked.  Proofs about     *)
(* ToolTurn, for every set of tools and of replies and any number of       *)
(* rounds: a turn's calls and their results belong together.               *)
(***************************************************************************)
EXTENDS CardStream, ToolTurn, SiftLemmas, FiniteSetTheorems, SequenceTheorems, TLAPS

\* A card is in the queue from the first half of its push on.
PushedIsThere ==
    \A c \in Cards : card[c] = "Absent" <=> push[c] \in {"new", "registered"}

Deciding(q) == \E call \in {busy, rest} \cap Resolves : call # None /\ call.c = q

\* A call that has no answer yet keeps its sender from before the push on, and waits
\* for a card that was announced; a decision of its card is on its way to it.
AskInv ==
    \A q \in Questions :
        /\ asker[q] = "waiting" => push[q] = "announced"
        /\ asker[q] \in {"idle", "waiting"} =>
              /\ push[q] # "new" => q \in registry
              /\ card[q] \in {"Absent", "Pending"} \/ q \in plain \/ Deciding(q)

\* The events of card c that the connection has not taken yet.
EventsOf(c) == {i \in DOMAIN rx : rx[i].c = c}

\* What takes a card off the list.
Closing == {"update", "expired"}

\* They come in the order in which the queue moves a card: its announcement, then
\* refinements, then its expiry or the updates of its decision and of mark_sent.
EventsInOrder(c) ==
    /\ card[c] = "Absent" => EventsOf(c) = {}
    /\ \A i \in EventsOf(c) :
          /\ push[c] # "announced" => rx[i].k \in Closing
          /\ rx[i].k \in Closing => card[c] # "Pending"
          /\ rx[i].k = "new" => \A j \in EventsOf(c) : i <= j
          /\ rx[i].k \notin Closing /\ card[c] # "Pending" =>
                \E j \in EventsOf(c) : i < j /\ rx[j].k \in Closing

\* An action under way that will decide card c.
WillDecide(c) == \E i \in DOMAIN up : up[i].c = c /\ up[i].act # "refine"

\* What the list shows of card c will be right once these events are applied.
ListCatchesUp(c) ==
    /\ list[c] \in {0, 1}
    /\ push[c] # "announced" => list[c] = 0
    /\ (\E i \in EventsOf(c) : rx[i].k = "new") => list[c] = 0
    /\ card[c] # "Pending" /\ list[c] = 1 => \E i \in EventsOf(c) : rx[i].k \in Closing
    /\ card[c] = "Pending" /\ push[c] = "announced" /\ c \notin past =>
          list[c] = 1 \/ EventsOf(c) # {} \/ WillDecide(c)

InStep(c) == EventsInOrder(c) /\ (lagged \/ ListCatchesUp(c))

\* It holds of each card that no race has put out of step.
ListInv ==
    /\ conn # "live" => rx = <<>> /\ ~lagged
    /\ conn # "off" => \A c \in Cards \ amiss : InStep(c)

StreamInv == TypeOK /\ PushedIsThere /\ AskInv /\ ListInv
-----------------------------------------------------------------------------
(* Operators *)

\* The order in which expire_old announces what it expired is a sequence of its events.
LEMMA ExpiredEvents ==
  ASSUME NEW old \in SUBSET Cards
  PROVE  LET evs == SetToSeq([k : {"expired"}, c : old])
         IN /\ evs \in Seq(Events)
            /\ \A i \in DOMAIN evs : evs[i].k = "expired" /\ evs[i].c \in old
            /\ \A c \in old : \E i \in DOMAIN evs : evs[i].c = c
<1> DEFINE S == [k : {"expired"}, c : old]
           evs == SetToSeq(S)
<1>1. IsFiniteSet(S)
  <2>1. [e \in S |-> e.c] \in Injection(S, old)
    BY DEF Injection, IsInjective
  <2> QED
    BY <2>1, CardsAssumption, FS_Subset, FS_Injection
<1>2. Cardinality(S) \in Nat /\ ExistsBijection(1 .. Cardinality(S), S)
  BY <1>1, FS_CardinalityType
<1>3. \E f \in [1 .. Cardinality(S) -> S] : IsInjective(f)
  BY <1>2 DEF ExistsBijection, Bijection, Injection, IsInjective
<1>4. evs \in [1 .. Cardinality(S) -> S] /\ IsInjective(evs)
  BY <1>3 DEF SetToSeq
<1>5. /\ S \subseteq Events /\ \A e \in S : e.k = "expired" /\ e.c \in old
      /\ \A c \in old : [k |-> "expired", c |-> c] \in S
  BY DEF Events
<1> HIDE DEF S, evs
<1>6. evs \in Seq(S) /\ DOMAIN evs = 1 .. Cardinality(S)
  BY <1>2, <1>4
<1>7. evs \in Seq(Events) /\ \A i \in DOMAIN evs : evs[i].k = "expired" /\ evs[i].c \in old
  BY <1>4, <1>5, <1>6
<1>8. evs \in Surjection(1 .. Cardinality(S), S)
  <2>1. evs \in Injection(1 .. Cardinality(S), S)
    BY <1>4 DEF Injection, IsInjective
  <2>2. Cardinality(1 .. Cardinality(S)) = Cardinality(S)
    BY <1>2, FS_Interval
  <2> QED BY <1>1, <2>1, <2>2, FS_Injection
<1>9. ASSUME NEW c \in old PROVE \E i \in DOMAIN evs : evs[i].c = c
  <2>1. PICK i \in 1 .. Cardinality(S) : evs[i] = [k |-> "expired", c |-> c]
    BY <1>5, <1>8 DEF Surjection
  <2> QED BY <1>6, <2>1
<1> QED BY <1>7, <1>9 DEF S, evs

\* What a connection has not taken yet after evs were sent and the d oldest events lost.
Delivered(evs, d) ==
    /\ d \in 0 .. Len(rx) + Len(evs)
    /\ (lagged => lagged') /\ (d = 0 \/ lagged')
    /\ Len(rx') = Len(rx) + Len(evs) - d
    /\ \A i \in 1 .. Len(rx') :
          rx'[i] = IF i + d <= Len(rx) THEN rx[i + d] ELSE evs[i + d - Len(rx)]

RxOK == rx \in Seq(Events) /\ Len(rx) <= Capacity /\ lagged \in BOOLEAN

\* A broadcast adds its events to what a live connection has not taken, and takes the
\* oldest of them away when there is no room, which the connection will learn.
LEMMA BroadcastEvents ==
  ASSUME RxOK, conn = "live", NEW evs \in Seq(Events), Broadcast(evs)
  PROVE  RxOK' /\ \E d \in Nat : Delivered(evs, d)
<1> USE DEF RxOK
<1> DEFINE all == rx \o evs
           lost == IF Len(all) > Capacity THEN Len(all) - Capacity ELSE 0
<1>1. /\ all \in Seq(Events) /\ Len(all) = Len(rx) + Len(evs)
      /\ \A i \in 1 .. Len(all) : all[i] = IF i <= Len(rx) THEN rx[i] ELSE evs[i - Len(rx)]
  OBVIOUS
<1>2. rx' = SubSeq(all, lost + 1, Len(all)) /\ lagged' = (lagged \/ lost > 0)
  BY Zenon DEF Broadcast
<1>a. lagged' \in BOOLEAN /\ (lagged => lagged') /\ (lost > 0 => lagged')
  BY <1>2, Zenon
<1>3. /\ lost \in 0 .. Len(all) /\ Len(rx) \in Nat /\ Len(evs) \in Nat
      /\ Len(all) - lost <= Capacity
  BY <1>1, CapacityAssumption
<1> HIDE DEF lost, all
<1>4. /\ rx' \in Seq(Events) /\ Len(rx') = Len(all) - lost
      /\ \A i \in 1 .. Len(rx') : rx'[i] = all[i + lost]
  <2>1. \A i \in lost + 1 .. Len(all) : all[i] \in Events
    BY <1>1, <1>3
  <2>2. /\ rx' \in Seq(Events)
        /\ Len(rx') = IF lost + 1 <= Len(all) THEN Len(all) - (lost + 1) + 1 ELSE 0
        /\ \A i \in 1 .. Len(all) - (lost + 1) + 1 : rx'[i] = all[lost + 1 + i - 1]
    BY <1>1, <1>2, <1>3, <2>1, SubSeqProperties
  <2>3. Len(rx') = Len(all) - lost
    BY <1>3, <2>2
  <2>4. ASSUME NEW i \in 1 .. Len(rx') PROVE rx'[i] = all[i + lost]
    <3>1. i \in 1 .. Len(all) - (lost + 1) + 1 /\ lost + 1 + i - 1 = i + lost
      BY <1>3, <2>3
    <3> QED BY <2>2, <3>1
  <2> QED
    BY <2>2, <2>3, <2>4
<1>5. \A i \in 1 .. Len(rx') :
         rx'[i] = IF i + lost <= Len(rx) THEN rx[i + lost] ELSE evs[i + lost - Len(rx)]
  BY <1>1, <1>3, <1>4
<1>6. lost = 0 \/ lagged'
  BY <1>a, <1>3
<1>7. Len(rx') <= Capacity /\ Len(rx') = Len(rx) + Len(evs) - lost
  BY <1>1, <1>3, <1>4
<1>8. lost \in 0 .. Len(rx) + Len(evs)
  BY <1>1, <1>3
<1>9. Delivered(evs, lost)
  BY <1>a, <1>4, <1>5, <1>6, <1>7, <1>8 DEF Delivered
<1> QED BY <1>a, <1>3, <1>4, <1>7, <1>9

-----------------------------------------------------------------------------
(* A card in step, and what happens around it *)

\* Events of other cards.
LEMMA Bystander ==
  ASSUME RxOK, RxOK', NEW c \in Cards, InStep(c), NEW evs \in Seq(Events), NEW d \in Nat,
         Delivered(evs, d), \A i \in DOMAIN evs : evs[i].c # c,
         card'[c] = card[c], push'[c] = "announced" <=> push[c] = "announced",
         list'[c] = list[c], card[c] = "Pending" /\ WillDecide(c) => WillDecide(c)',
         past \subseteq past'
  PROVE  InStep(c)'
<1>1. ASSUME NEW i \in EventsOf(c)'
      PROVE  i \in Nat /\ i + d \in EventsOf(c) /\ rx'[i] = rx[i + d]
  <2>0. /\ Len(rx) \in Nat /\ Len(rx') \in Nat /\ Len(evs) \in Nat
        /\ DOMAIN rx = 1 .. Len(rx) /\ DOMAIN rx' = 1 .. Len(rx') /\ DOMAIN evs = 1 .. Len(evs)
    BY DEF RxOK
  <2>1. /\ i \in 1 .. Len(rx') /\ rx'[i].c = c /\ Len(rx') = Len(rx) + Len(evs) - d
        /\ rx'[i] = IF i + d <= Len(rx) THEN rx[i + d] ELSE evs[i + d - Len(rx)]
    BY <1>1, <2>0 DEF EventsOf, Delivered
  <2>2. CASE i + d <= Len(rx)
    BY <2>0, <2>1, <2>2 DEF EventsOf
  <2>3. CASE i + d > Len(rx)
    <3>1. i + d - Len(rx) \in DOMAIN evs /\ rx'[i] = evs[i + d - Len(rx)]
      BY <2>0, <2>1, <2>3
    <3> QED BY <2>1, <3>1
  <2> QED BY <2>1, <2>2, <2>3 DEF RxOK
<1>2. ASSUME NEW j \in EventsOf(c), d < j
      PROVE  j - d \in EventsOf(c)' /\ rx'[j - d] = rx[j]
  <2>1. /\ Len(rx) \in Nat /\ Len(rx') \in Nat /\ Len(evs) \in Nat
        /\ DOMAIN rx = 1 .. Len(rx) /\ DOMAIN rx' = 1 .. Len(rx')
    BY DEF RxOK
  <2>2. j \in 1 .. Len(rx) /\ rx[j].c = c
    BY <2>1 DEF EventsOf
  <2>3. j - d \in 1 .. Len(rx') /\ (j - d) + d = j /\ j <= Len(rx)
    BY <1>2, <2>1, <2>2 DEF Delivered
  <2>4. rx'[j - d] = rx[j]
    BY <2>3 DEF Delivered
  <2> QED BY <2>1, <2>2, <2>3, <2>4 DEF EventsOf
<1>0. EventsOf(c) \subseteq Nat
  BY DEF EventsOf, RxOK
<1>3. EventsInOrder(c)'
  <2>1. ASSUME NEW i \in EventsOf(c)', rx'[i].k \notin Closing, card'[c] # "Pending"
        PROVE  \E j \in EventsOf(c)' : i < j /\ rx'[j].k \in Closing
    <3>1. PICK j \in EventsOf(c) : i + d < j /\ rx[j].k \in Closing
      BY <1>1, <2>1 DEF InStep, EventsInOrder
    <3>2. j - d \in EventsOf(c)' /\ rx'[j - d] = rx[j] /\ i < j - d
      BY <1>0, <1>1, <1>2, <2>1, <3>1
    <3> QED BY <3>1, <3>2
  <2>2. ASSUME NEW i \in EventsOf(c)', rx'[i].k = "new", NEW j \in EventsOf(c)' PROVE i <= j
    <3>1. i + d <= j + d
      BY <1>1, <2>2 DEF InStep, EventsInOrder
    <3> QED BY <1>1, <3>1
  <2>3. card'[c] = "Absent" => EventsOf(c)' = {}
    BY <1>1 DEF InStep, EventsInOrder
  <2>4. ASSUME NEW i \in EventsOf(c)'
        PROVE  /\ push'[c] # "announced" => rx'[i].k \in Closing
               /\ rx'[i].k \in Closing => card'[c] # "Pending"
    BY <1>1 DEF InStep, EventsInOrder
  <2> QED
    BY <2>1, <2>2, <2>3, <2>4 DEF EventsInOrder
<1>4. CASE lagged'
  BY <1>3, <1>4 DEF InStep
<1>5. CASE ~lagged'
  <2>1. d = 0 /\ ListCatchesUp(c)
    BY <1>5 DEF Delivered, InStep
  <2>2. EventsOf(c)' = EventsOf(c) /\ \A i \in EventsOf(c) : rx'[i] = rx[i]
    <3>1. \A i \in EventsOf(c)' : i \in EventsOf(c) /\ rx'[i] = rx[i]
      BY <1>1, <2>1
    <3>2. \A j \in EventsOf(c) : j \in EventsOf(c)'
      BY <1>0, <1>2, <2>1 DEF EventsOf, RxOK
    <3> QED BY <3>1, <3>2
  <2>3. ListCatchesUp(c)'
    BY <2>1, <2>2 DEF ListCatchesUp
  <2> QED BY <1>3, <2>3 DEF InStep
<1> QED BY <1>4, <1>5

\* An event of the card itself: its announcement while it is pending, an update when
\* it no longer is, a refinement of a pending card that was announced.
LEMMA OwnEvent ==
  ASSUME RxOK, RxOK', NEW c \in Cards, InStep(c), NEW e \in Events, e.c = c, NEW d \in Nat,
         Delivered(<<e>>, d), list'[c] = list[c], card'[c] # "Absent", past' = past,
         \/ /\ e.k = "new" /\ push[c] = "queued" /\ push'[c] = "announced"
            /\ card[c] = "Pending" /\ card'[c] = "Pending"
         \/ e.k = "update" /\ push'[c] = push[c] /\ card'[c] # "Pending"
         \/ /\ e.k = "refreshed" /\ push[c] = "announced" /\ push'[c] = "announced"
            /\ card[c] = "Pending" /\ card'[c] = "Pending"
  PROVE  InStep(c)'
<1> DEFINE n == Len(rx) + 1 - d
<1>0. /\ Len(rx) \in Nat /\ Len(rx') \in Nat /\ Len(rx') = n /\ n \in Int
      /\ DOMAIN rx = 1 .. Len(rx) /\ DOMAIN rx' = 1 .. Len(rx')
  BY DEF RxOK, Delivered
<1>1. ASSUME NEW i \in EventsOf(c)', i # n
      PROVE  i \in Nat /\ i < n /\ i + d \in EventsOf(c) /\ rx'[i] = rx[i + d]
  <2>1. i \in 1 .. n /\ rx'[i].c = c /\ i + d <= Len(rx)
    BY <1>0, <1>1 DEF EventsOf
  <2>2. rx'[i] = rx[i + d] /\ i + d \in DOMAIN rx
    BY <1>0, <2>1 DEF Delivered
  <2> QED BY <1>0, <1>1, <2>1, <2>2 DEF EventsOf
<1>2. n >= 1 => n \in EventsOf(c)' /\ rx'[n] = e
  <2>1. SUFFICES ASSUME n >= 1 PROVE n \in EventsOf(c)' /\ rx'[n] = e
    OBVIOUS
  <2>2. n \in 1 .. Len(rx') /\ n + d = Len(rx) + 1
    BY <1>0, <2>1
  <2>3. rx'[n] = <<e>>[n + d - Len(rx)]
    BY <1>0, <2>2 DEF Delivered
  <2>4. rx'[n] = e
    BY <1>0, <2>2, <2>3
  <2> QED BY <1>0, <2>2, <2>4 DEF EventsOf
<1>3. \A i \in EventsOf(c)' : i \in 1 .. n /\ (i = n => rx'[i] = e)
  BY <1>0, <1>2 DEF EventsOf
<1> HIDE DEF n
<1>4. EventsInOrder(c)'
  <2>1. ASSUME NEW i \in EventsOf(c)', rx'[i].k \notin Closing, card'[c] # "Pending"
        PROVE  \E j \in EventsOf(c)' : i < j /\ rx'[j].k \in Closing
    <3>1. CASE e.k \in Closing
      BY <1>0, <1>1, <1>2, <1>3, <2>1, <3>1
    <3>2. CASE e.k \notin Closing
      BY <2>1, <3>2 DEF Closing
    <3> QED BY <3>1, <3>2
  <2>2. ASSUME NEW i \in EventsOf(c)', rx'[i].k = "new", NEW j \in EventsOf(c)' PROVE i <= j
    <3>1. CASE i # n /\ j # n
      <4>1. i + d <= j + d
        BY <1>1, <2>2, <3>1 DEF InStep, EventsInOrder
      <4> QED BY <1>1, <3>1, <4>1
    <3>2. CASE i = n
      <4>1. e.k = "new"
        BY <1>3, <2>2, <3>2
      <4>2. EventsOf(c) = {}
        BY <4>1 DEF InStep, EventsInOrder, Closing
      <4> QED BY <1>0, <1>1, <1>3, <3>2, <4>2
    <3>3. CASE j = n
      <4>1. i \in 1 .. n
        BY <1>3, <2>2
      <4> QED BY <1>0, <3>3, <4>1
    <3> QED BY <3>1, <3>2, <3>3
  <2>3. ASSUME NEW i \in EventsOf(c)'
        PROVE  /\ push'[c] # "announced" => rx'[i].k \in Closing
               /\ rx'[i].k \in Closing => card'[c] # "Pending"
    BY <1>1, <1>3 DEF InStep, EventsInOrder, Closing
  <2> QED
    BY <2>1, <2>2, <2>3 DEF EventsInOrder
<1>5. CASE lagged'
  BY <1>4, <1>5 DEF InStep
<1>6. CASE ~lagged'
  <2>1. d = 0 /\ ListCatchesUp(c)
    BY <1>6 DEF Delivered, InStep
  <2>2. n \in EventsOf(c)' /\ rx'[n] = e
    BY <1>0, <1>2, <2>1 DEF n
  <2>3. \A i \in EventsOf(c)' : i = n \/ (i \in EventsOf(c) /\ rx'[i] = rx[i])
    BY <1>0, <1>1, <1>3, <2>1
  <2>4. e.k = "new" => list[c] = 0
    BY <2>1 DEF ListCatchesUp
  <2>5. ListCatchesUp(c)'
    BY <2>1, <2>2, <2>3, <2>4 DEF ListCatchesUp, Closing
  <2> QED BY <1>4, <2>5 DEF InStep
<1> QED BY <1>5, <1>6

\* The expiry of cards, this one among them.
LEMMA ExpiryEvent ==
  ASSUME RxOK, RxOK', NEW c \in Cards, InStep(c), NEW evs \in Seq(Events), NEW d \in Nat,
         Delivered(evs, d), \A i \in DOMAIN evs : evs[i].k = "expired",
         NEW p \in DOMAIN evs, evs[p].c = c,
         card'[c] \notin {"Absent", "Pending"}, UNCHANGED <<list, push>>
  PROVE  InStep(c)'
<1> DEFINE n == Len(rx) + p - d
<1>0. /\ Len(rx) \in Nat /\ Len(rx') \in Nat /\ Len(evs) \in Nat /\ p \in 1 .. Len(evs)
      /\ DOMAIN rx = 1 .. Len(rx) /\ DOMAIN rx' = 1 .. Len(rx') /\ DOMAIN evs = 1 .. Len(evs)
      /\ Len(rx') = Len(rx) + Len(evs) - d /\ n \in Int
  BY DEF RxOK, Delivered
<1>1. ASSUME NEW i \in EventsOf(c)'
      PROVE  /\ i \in 1 .. Len(rx')
             /\ \/ i + d > Len(rx) /\ rx'[i].k = "expired"
                \/ i + d <= Len(rx) /\ i + d \in EventsOf(c) /\ rx'[i] = rx[i + d]
  <2>1. i \in 1 .. Len(rx') /\ rx'[i].c = c
    BY <1>0, <1>1 DEF EventsOf
  <2>2. CASE i + d <= Len(rx)
    <3>1. rx'[i] = rx[i + d] /\ i + d \in DOMAIN rx
      BY <1>0, <2>1, <2>2 DEF Delivered
    <3> QED BY <2>1, <2>2, <3>1 DEF EventsOf
  <2>3. CASE i + d > Len(rx)
    <3>1. i + d - Len(rx) \in DOMAIN evs /\ ~(i + d <= Len(rx))
      BY <1>0, <2>1, <2>3
    <3>2. rx'[i] = evs[i + d - Len(rx)]
      BY <2>1, <3>1 DEF Delivered
    <3> QED BY <2>1, <2>3, <3>1, <3>2
  <2> QED BY <1>0, <2>1, <2>2, <2>3
<1>2. n >= 1 => n \in EventsOf(c)' /\ rx'[n].k = "expired"
  <2>1. SUFFICES ASSUME n >= 1 PROVE n \in EventsOf(c)' /\ rx'[n].k = "expired"
    OBVIOUS
  <2>2. n \in 1 .. Len(rx') /\ n + d - Len(rx) = p /\ ~(n + d <= Len(rx))
    BY <1>0, <2>1
  <2>3. rx'[n] = evs[p]
    BY <2>2 DEF Delivered
  <2> QED BY <1>0, <2>2, <2>3 DEF EventsOf
<1>3. EventsInOrder(c)'
  <2>1. ASSUME NEW i \in EventsOf(c)', rx'[i].k \notin Closing, card'[c] # "Pending"
        PROVE  \E j \in EventsOf(c)' : i < j /\ rx'[j].k \in Closing
    <3>1. i \in Nat /\ i >= 1 /\ i + d <= Len(rx)
      BY <1>0, <1>1, <2>1 DEF Closing
    <3>2. i < n /\ n >= 1
      BY <1>0, <3>1
    <3> QED BY <1>2, <3>2 DEF Closing
  <2>2. ASSUME NEW i \in EventsOf(c)', rx'[i].k = "new", NEW j \in EventsOf(c)' PROVE i <= j
    <3>1. i + d <= Len(rx) /\ i + d \in EventsOf(c) /\ rx[i + d].k = "new"
      BY <1>1, <2>2
    <3>2. CASE j + d > Len(rx)
      BY <1>0, <1>1, <3>1, <3>2
    <3>3. CASE ~(j + d > Len(rx))
      <4>1. i + d <= j + d
        BY <1>1, <3>1, <3>3 DEF InStep, EventsInOrder
      <4> QED BY <1>0, <1>1, <4>1
    <3> QED BY <3>2, <3>3
  <2>3. ASSUME NEW i \in EventsOf(c)'
        PROVE  /\ push'[c] # "announced" => rx'[i].k \in Closing
               /\ rx'[i].k \in Closing => card'[c] # "Pending"
    <3>1. CASE rx'[i].k = "expired"
      BY <3>1 DEF Closing
    <3>2. CASE rx'[i].k # "expired"
      BY <1>1, <3>2 DEF InStep, EventsInOrder
    <3> QED BY <3>1, <3>2
  <2> QED BY <2>1, <2>2, <2>3 DEF EventsInOrder
<1>4. CASE lagged'
  BY <1>3, <1>4 DEF InStep
<1>5. CASE ~lagged'
  <2>1. d = 0 /\ ListCatchesUp(c)
    BY <1>5 DEF Delivered, InStep
  <2>2. n \in EventsOf(c)' /\ rx'[n].k \in Closing
    BY <1>0, <1>2, <2>1 DEF Closing
  <2>3. (\E i \in EventsOf(c)' : rx'[i].k = "new") => \E i \in EventsOf(c) : rx[i].k = "new"
    BY <1>1
  <2> HIDE DEF n
  <2>4. ListCatchesUp(c)'
    BY <2>1, <2>2, <2>3 DEF ListCatchesUp
  <2> QED BY <1>3, <2>4 DEF InStep
<1> QED BY <1>4, <1>5

\* A step that sends nothing.
LEMMA NothingSent ==
  ASSUME RxOK, UNCHANGED <<rx, lagged>>
  PROVE  RxOK' /\ Delivered(<<>>, 0)
BY DEF RxOK, Delivered

-----------------------------------------------------------------------------
(* Types *)

\* A broadcast that nobody listens to is lost; otherwise it is delivered.
LEMMA BroadcastOK ==
  ASSUME RxOK, NEW evs \in Seq(Events), Broadcast(evs)
  PROVE  /\ RxOK'
         /\ conn = "live" => \E d \in Nat : Delivered(evs, d)
         /\ conn # "live" => UNCHANGED <<rx, lagged>>
<1>1. CASE conn = "live"
  BY <1>1, BroadcastEvents
<1>2. CASE conn # "live"
  BY <1>2 DEF Broadcast, RxOK
<1> QED BY <1>1, <1>2

\* The event of one card.
LEMMA OneEvent ==
  ASSUME NEW c \in Cards, NEW k \in {"new", "update", "expired", "refreshed"}
  PROVE  [k |-> k, c |-> c] \in Events /\ <<[k |-> k, c |-> c]>> \in Seq(Events)
BY DEF Events

\* A decision of a card.
LEMMA DecideOK ==
  ASSUME TypeOK, NEW c \in Cards, NEW s \in {"Approved", "Dismissed"}, Decide(c, s)
  PROVE  card' \in [Cards -> CardStatus] /\ RxOK' /\ amiss' \subseteq Cards
<1>1. RxOK'
  BY OneEvent, BroadcastOK DEF TypeOK, RxOK, Decide
<1> QED BY <1>1 DEF TypeOK, Decide, Missed, CardStatus

\* What the handlers of a MultipleChoice card do next is a resolve.
LEMMA OnDecisionType ==
  ASSUME NEW c \in Cards, NEW act \in Acts
  PROVE  /\ on_decision(act, c) \in Resolves
         /\ Plainly(act, c) \subseteq Questions
         /\ StatusOf(act) \in {"Approved", "Dismissed"}
BY DEF on_decision, Resolves, Plainly, StatusOf

\* What the end of a resolve leaves.
LEMMA ResolveType ==
  ASSUME TypeOK, NEW call \in Resolves \ {None}, resolve(call)
  PROVE  /\ asker' \in [Questions -> {"idle", "waiting", "Selected", "Dismissed", "timeout",
                                      "dropped"}]
         /\ registry' \subseteq Questions
<1>1. call.c \in Questions /\ call.r \in {"Selected", "Dismissed"}
  BY DEF Resolves
<1>2. CASE call.c \in registry
  BY <1>1, <1>2, ZenonT(60) DEF TypeOK, resolve
<1>3. CASE call.c \notin registry
  BY <1>3 DEF TypeOK, resolve
<1> QED BY <1>2, <1>3

\* What the end of a refinement leaves.
LEMMA RefineOverType ==
  ASSUME TypeOK, NEW c \in Cards, RefineOver(c)
  PROVE  busy' \in Resolves \cup [c : Cards, r : {"Refined"}]
BY DEF TypeOK, RefineOver, Resolves

\* Every step keeps every variable in its type and every buffer within its bound.
LEMMA TypeStep == TypeOK /\ [Next]_vars => TypeOK'
<1> SUFFICES ASSUME TypeOK, [Next]_vars PROVE TypeOK'
  OBVIOUS
<1>0. RxOK
  BY DEF TypeOK, RxOK
<1>1. ASSUME NEW q \in Questions, AskRegister(q) PROVE TypeOK'
  BY <1>1, CardsAssumption DEF TypeOK, AskRegister, link
<1>2. ASSUME NEW c \in Cards, PushQueue(c) PROVE TypeOK'
  BY <1>2 DEF TypeOK, PushQueue, link, asking, CardStatus
<1>3. ASSUME NEW c \in Cards, PushAnnounce(c) PROVE TypeOK'
  <2>1. RxOK'
    BY <1>0, <1>3, OneEvent, BroadcastOK DEF PushAnnounce
  <2>2. amiss' \subseteq Cards
    BY <1>3 DEF PushAnnounce, TypeOK, Missed
  <2> QED BY <1>3, <2>1, <2>2 DEF TypeOK, RxOK, PushAnnounce
<1>4. ASSUME NEW c \in Cards, NEW ok \in BOOLEAN, RefineApply(c, ok) PROVE TypeOK'
  <2>1. busy' \in Resolves \cup [c : Cards, r : {"Refined"}]
    BY <1>4, RefineOverType DEF RefineApply, TypeOK
  <2> QED BY <1>4, <2>1 DEF TypeOK, RefineApply, link, asking
<1>5. ASSUME NEW c \in Cards, RefineAnnounce(c) PROVE TypeOK'
  <2>1. RxOK'
    BY <1>0, <1>5, OneEvent, BroadcastOK DEF RefineAnnounce
  <2>2. amiss' \subseteq Cards
    BY <1>5 DEF RefineAnnounce, TypeOK, Missed
  <2>3. busy' \in Resolves \cup [c : Cards, r : {"Refined"}]
    BY <1>5, RefineOverType DEF RefineAnnounce
  <2> QED BY <1>5, <2>1, <2>2, <2>3 DEF TypeOK, RxOK, RefineAnnounce, asking
<1>6. ASSUME NEW c \in Cards, TimePasses(c) PROVE TypeOK'
  BY <1>6 DEF TypeOK, TimePasses, link, asking
<1>7. ASSUME expire_old PROVE TypeOK'
  <2> DEFINE old == {c \in past : card[c] = "Pending"}
  <2>1. old \in SUBSET Cards
    BY DEF TypeOK
  <2>2. RxOK'
    BY <1>0, <1>7, <2>1, ExpiredEvents, BroadcastOK DEF expire_old
  <2>3. amiss' \subseteq Cards
    BY <1>7, <2>1 DEF expire_old, TypeOK, Missed
  <2>4. card' \in [Cards -> CardStatus]
    BY <1>7 DEF expire_old, TypeOK, CardStatus
  <2> QED BY <1>7, <2>2, <2>3, <2>4 DEF TypeOK, RxOK, expire_old, asking
<1>8. ASSUME NEW c \in Cards, mark_sent(c) PROVE TypeOK'
  <2>1. RxOK'
    BY <1>0, <1>8, OneEvent, BroadcastOK DEF mark_sent
  <2> QED BY <1>8, <2>1 DEF TypeOK, RxOK, mark_sent, asking, CardStatus
<1>9. ASSUME NEW q \in Questions, AskTimeout(q) \/ AskDropped(q) PROVE TypeOK'
  BY <1>9 DEF TypeOK, AskTimeout, AskDropped, server, link
<1>10. ASSUME HandleAction PROVE TypeOK'
  <2>1. /\ Head(up) \in [act : Acts, c : Cards]
        /\ up' \in Seq([act : Acts, c : Cards])
    BY <1>10, HeadTailProperties DEF TypeOK, HandleAction
  <2>2. PICK a \in [act : Acts, c : Cards] : a = Head(up)
    BY <2>1
  <2>3. CASE a.act = "refine"
    <3>1. refining' \in [Cards -> {"no", "llm", "applied"}]
      BY <1>10, <2>2, <2>3 DEF HandleAction, RefineLook, TypeOK
    <3>2. busy' \in Resolves \cup [c : Cards, r : {"Refined"}]
      BY <1>10, <2>2, <2>3 DEF HandleAction, Resolves
    <3> QED BY <1>10, <2>1, <2>2, <2>3, <3>1, <3>2 DEF HandleAction, TypeOK, NoDecision
  <2>4. CASE a.act # "refine" /\ card[a.c] = "Pending"
    <3>1. /\ Decide(a.c, StatusOf(a.act)) /\ busy' = on_decision(a.act, a.c)
          /\ plain' = plain \cup Plainly(a.act, a.c) /\ UNCHANGED refining
      BY <1>10, <2>2, <2>4 DEF HandleAction
    <3>2. card' \in [Cards -> CardStatus] /\ RxOK' /\ amiss' \subseteq Cards
      BY <3>1, OnDecisionType, DecideOK
    <3>3. busy' \in Resolves /\ plain' \subseteq Questions
      BY <3>1, OnDecisionType DEF TypeOK
    <3> QED BY <1>10, <2>1, <3>1, <3>2, <3>3 DEF HandleAction, TypeOK, RxOK
  <2>5. CASE a.act # "refine" /\ card[a.c] # "Pending"
    BY <1>10, <2>1, <2>2, <2>5 DEF HandleAction, TypeOK, NoDecision
  <2> QED BY <2>3, <2>4, <2>5
<1>11. ASSUME HandleResolve PROVE TypeOK'
  BY <1>11, ResolveType DEF HandleResolve, TypeOK, Resolves, server, link
<1>12. ASSUME NEW c \in Cards, NEW act \in Acts, RestDecides(c, act) PROVE TypeOK'
  <2>1. card' \in [Cards -> CardStatus] /\ RxOK' /\ amiss' \subseteq Cards
    BY <1>12, OnDecisionType, DecideOK DEF RestDecides
  <2>2. rest' \in Resolves /\ plain' \subseteq Questions
    BY <1>12, OnDecisionType DEF RestDecides, TypeOK
  <2> QED BY <1>12, <2>1, <2>2 DEF RestDecides, TypeOK, RxOK
<1>13. ASSUME NEW c \in Cards, refine_card(c) PROVE TypeOK'
  BY <1>13, BoundsAssumption DEF refine_card, RefineLook, TypeOK, link, asking
<1>14. ASSUME RestResolve PROVE TypeOK'
  BY <1>14, ResolveType DEF RestResolve, TypeOK, Resolves, server, link
<1>15. ASSUME Connect PROVE TypeOK'
  BY <1>15 DEF Connect, Synced, ShownTwice, pending, TypeOK, server, asking
<1>16. ASSUME Subscribe PROVE TypeOK'
  BY <1>16 DEF Subscribe, TypeOK, server, asking
<1>17. ASSUME Forward PROVE TypeOK'
  <2>1. Head(rx) \in Events /\ rx' \in Seq(Events) /\ Len(rx') <= Capacity
    BY <1>17, HeadTailProperties, CapacityAssumption DEF Forward, TypeOK
  <2>2. list' \in [Cards -> Nat]
    BY <1>17, <2>1 DEF Forward, apply_message, TypeOK, Events
  <2> QED BY <1>17, <2>1, <2>2 DEF Forward, TypeOK, server, asking
<1>18. ASSUME Resync PROVE TypeOK'
  BY <1>18 DEF Resync, Synced, ShownTwice, pending, TypeOK, server, asking
<1>19. ASSUME Disconnect PROVE TypeOK'
  <2>1. drops' \in 0 .. MaxDrops
    BY <1>19, BoundsAssumption DEF Disconnect, TypeOK
  <2>2. rx' \in Seq(Events) /\ Len(rx') = 0 /\ up' \in Seq([act : Acts, c : Cards])
    BY <1>19 DEF Disconnect
  <2>3. Len(rx') <= Capacity
    BY <2>2, CapacityAssumption
  <2>4. conn' \in {"off", "synced", "live"} /\ lagged' \in BOOLEAN
    BY <1>19 DEF Disconnect
  <2> QED BY <1>19, <2>1, <2>2, <2>3, <2>4 DEF Disconnect, TypeOK, server, asking
<1>20. ASSUME NEW c \in Cards, NEW act \in Acts, ClientActs(c, act) PROVE TypeOK'
  <2>1. up' \in Seq([act : Acts, c : Cards])
    BY <1>20 DEF ClientActs, TypeOK
  <2>2. refines' \in 0 .. MaxRefines
    BY <1>20, BoundsAssumption DEF ClientActs, TypeOK
  <2>3. list' \in [Cards -> Nat]
    BY <1>20 DEF ClientActs, TypeOK
  <2> QED BY <1>20, <2>1, <2>2, <2>3 DEF ClientActs, TypeOK, server, link, asking
<1>21. CASE UNCHANGED vars
  BY <1>21 DEF TypeOK, vars, server, link, asking
<1> QED
  BY <1>1, <1>2, <1>3, <1>4, <1>5, <1>6, <1>7, <1>8, <1>9, <1>10, <1>11, <1>12, <1>13,
     <1>14, <1>15, <1>16, <1>17, <1>18, <1>19, <1>20, <1>21 DEF Next

-----------------------------------------------------------------------------
(* Calls of ask_user *)

\* Steps that leave the calls, their cards and what is on its way to them alone.
LEMMA AskFrame ==
  ASSUME AskInv, UNCHANGED <<asker, registry, plain, push, card>>,
         \A q \in Questions : Deciding(q) => Deciding(q)'
  PROVE  AskInv'
BY DEF AskInv

\* The end of a refinement is not the end of a decision.
LEMMA RefineOverKeeps ==
  ASSUME TypeOK, NEW c \in Cards, RefineOver(c), rest' = rest, NEW q \in Questions, Deciding(q)
  PROVE  Deciding(q)'
<1>1. [c |-> c, r |-> "Refined"] \notin Resolves
  BY NoneAssumption DEF Resolves
<1> QED BY <1>1 DEF Deciding, RefineOver

\* A decision of a card: if it is a question, an answer is on its way to the call, or
\* it was approved without an option, or with an index past them.
LEMMA DecideAsk ==
  ASSUME TypeOK, PushedIsThere, AskInv, NEW c \in Cards, NEW act \in Acts,
         act = "refine" => FALSE, Decide(c, StatusOf(act)),
         plain' = plain \cup Plainly(act, c), UNCHANGED <<asker, registry, push>>,
         \/ busy' = on_decision(act, c) /\ rest' = rest /\ busy = None
         \/ rest' = on_decision(act, c) /\ busy' = busy /\ rest = None
  PROVE  AskInv'
<1>1. ASSUME NEW q \in Questions, q # c PROVE Deciding(q) => Deciding(q)'
  <2>1. on_decision(act, c) \in Resolves
    BY OnDecisionType
  <2> QED BY <1>1, <2>1 DEF Deciding
<1>2. ASSUME c \in Questions PROVE c \in plain' \/ Deciding(c)'
  <2>1. CASE act \in {"select", "dismiss"}
    <3>1. /\ on_decision(act, c) \in Resolves /\ on_decision(act, c) # None
          /\ on_decision(act, c).c = c
      BY <1>2, <2>1, NoneAssumption DEF on_decision, Resolves
    <3> QED BY <3>1 DEF Deciding
  <2>2. CASE act \in {"approve", "edit", "outside"}
    BY <1>2, <2>2 DEF Plainly
  <2> QED BY <2>1, <2>2 DEF Acts
<1>3. \A q \in Questions : q # c => card'[q] = card[q]
  BY CardsAssumption DEF TypeOK, Decide
<1> QED BY <1>1, <1>2, <1>3 DEF AskInv

\* A resolve gives the call its answer.
LEMMA ResolveAsk ==
  ASSUME TypeOK, PushedIsThere, AskInv, NEW call \in Resolves \ {None}, resolve(call),
         UNCHANGED <<plain, push, card>>,
         \/ call = busy /\ busy' = None /\ rest' = rest
         \/ call = rest /\ rest' = None /\ busy' = busy
  PROVE  AskInv'
<1>0. call.c \in Questions /\ call.r \in {"Selected", "Dismissed"}
  BY DEF Resolves
<1>1. ASSUME NEW q \in Questions, q # call.c
      PROVE  /\ Deciding(q) => Deciding(q)'
             /\ asker'[q] = asker[q] /\ (q \in registry => q \in registry')
  BY <1>1 DEF Deciding, resolve, TypeOK
<1>2. CASE call.c \in registry
  <2>1. asker'[call.c] \notin {"idle", "waiting"}
    BY <1>0, <1>2 DEF resolve, TypeOK
  <2> QED BY <1>0, <1>1, <2>1 DEF AskInv
<1>3. CASE call.c \notin registry
  <2>1. UNCHANGED <<asker, registry>>
    BY <1>3 DEF resolve
  <2>2. asker[call.c] \in {"idle", "waiting"} => push[call.c] = "new"
    BY <1>0, <1>3 DEF AskInv
  <2>3. push[call.c] = "new" => card[call.c] = "Absent"
    BY <1>0, CardsAssumption DEF PushedIsThere
  <2> QED BY <1>0, <1>1, <2>1, <2>2, <2>3 DEF AskInv
<1> QED BY <1>2, <1>3

\* Every step keeps cards in the queue from their push on.
LEMMA PushStep == TypeOK /\ PushedIsThere /\ [Next]_vars => PushedIsThere'
<1> SUFFICES ASSUME TypeOK, PushedIsThere, [Next]_vars PROVE PushedIsThere'
  OBVIOUS
<1>0. /\ card \in [Cards -> CardStatus]
      /\ push \in [Cards -> {"new", "registered", "queued", "announced"}]
  BY DEF TypeOK
<1>1. ASSUME NEW c \in Cards, NEW s \in {"Approved", "Dismissed"}, Decide(c, s), push' = push
      PROVE  PushedIsThere'
  BY <1>0, <1>1 DEF Decide, PushedIsThere
<1>2. ASSUME NEW q \in Questions, AskRegister(q) PROVE PushedIsThere'
  BY <1>0, <1>2, CardsAssumption DEF AskRegister, PushedIsThere
<1>3. ASSUME NEW c \in Cards, PushQueue(c) \/ PushAnnounce(c) \/ mark_sent(c)
      PROVE  PushedIsThere'
  BY <1>0, <1>3 DEF PushQueue, PushAnnounce, mark_sent, PushedIsThere
<1>4. ASSUME expire_old PROVE PushedIsThere'
  BY <1>0, <1>4 DEF expire_old, PushedIsThere
<1>5. ASSUME HandleAction PROVE PushedIsThere'
  <2>1. Head(up) \in [act : Acts, c : Cards] /\ push' = push
    BY <1>5, HeadTailProperties DEF HandleAction, TypeOK
  <2>2. \/ card' = card
        \/ \E a \in [act : Acts, c : Cards] : Decide(a.c, StatusOf(a.act))
    BY <1>5, <2>1 DEF HandleAction, NoDecision
  <2> QED BY <1>1, <2>1, <2>2, OnDecisionType DEF PushedIsThere
<1>6. ASSUME NEW c \in Cards, NEW act \in Acts, RestDecides(c, act) PROVE PushedIsThere'
  BY <1>1, <1>6, OnDecisionType DEF RestDecides
<1>7. CASE UNCHANGED <<card, push>>
  BY <1>7 DEF PushedIsThere
<1> QED
  BY <1>2, <1>3, <1>4, <1>5, <1>6, <1>7
     DEF Next, vars, server, TimePasses, refine_card, RefineApply, RefineAnnounce, AskTimeout,
         AskDropped, HandleResolve, RestResolve, Connect, Subscribe, Forward, Resync,
         Disconnect, ClientActs

\* Every step keeps the way of the answers.
LEMMA AskStep ==
    TypeOK /\ PushedIsThere /\ AskInv /\ [Next]_vars => AskInv'
<1> SUFFICES ASSUME TypeOK, PushedIsThere, AskInv, [Next]_vars PROVE AskInv'
  OBVIOUS
<1>0. /\ card \in [Cards -> CardStatus] /\ past \cap Questions = {} /\ Questions \subseteq Cards
      /\ push \in [Cards -> {"new", "registered", "queued", "announced"}]
      /\ asker \in [Questions -> {"idle", "waiting", "Selected", "Dismissed", "timeout",
                                  "dropped"}]
  BY CardsAssumption DEF TypeOK
<1>1. ASSUME NEW q \in Questions, AskRegister(q) PROVE AskInv'
  BY <1>0, <1>1 DEF AskRegister, AskInv, Deciding, PushedIsThere
<1>2. ASSUME NEW c \in Cards, PushQueue(c) PROVE AskInv'
  <2>1. \A q \in Questions : Deciding(q) <=> Deciding(q)'
    BY <1>2 DEF PushQueue, Deciding
  <2> QED BY <1>0, <1>2, <2>1 DEF PushQueue, AskInv, asking
<1>3. ASSUME NEW c \in Cards, PushAnnounce(c) PROVE AskInv'
  <2>1. \A q \in Questions : Deciding(q) <=> Deciding(q)'
    BY <1>3 DEF PushAnnounce, Deciding
  <2> QED BY <1>0, <1>3, <2>1 DEF PushAnnounce, AskInv
<1>4. ASSUME NEW c \in Cards,
             RefineAnnounce(c) \/ \E ok \in BOOLEAN : RefineApply(c, ok) PROVE AskInv'
  <2>1. \A q \in Questions : Deciding(q) => Deciding(q)'
    <3>1. (RefineOver(c) \/ UNCHANGED busy) /\ rest' = rest
      BY <1>4 DEF RefineAnnounce, RefineApply
    <3>2. CASE RefineOver(c)
      BY <3>1, <3>2, RefineOverKeeps
    <3>3. CASE UNCHANGED busy
      BY <3>1, <3>3 DEF Deciding
    <3> QED BY <3>1, <3>2, <3>3
  <2> QED BY <1>4, <2>1, AskFrame DEF RefineAnnounce, RefineApply, asking
<1>5. ASSUME expire_old PROVE AskInv'
  <2>1. \A q \in Questions : card'[q] = card[q]
    BY <1>0, <1>5 DEF expire_old
  <2>2. \A q \in Questions : Deciding(q) <=> Deciding(q)'
    BY <1>5 DEF expire_old, Deciding
  <2> QED BY <1>5, <2>1, <2>2 DEF expire_old, AskInv, asking
<1>6. ASSUME NEW c \in Cards, mark_sent(c) PROVE AskInv'
  <2>1. \A q \in Questions : card'[q] = card[q]
    BY <1>0, <1>6 DEF mark_sent
  <2>2. \A q \in Questions : Deciding(q) <=> Deciding(q)'
    BY <1>6 DEF mark_sent, Deciding
  <2> QED BY <1>6, <2>1, <2>2 DEF mark_sent, AskInv, asking
<1>7. ASSUME NEW q \in Questions, AskTimeout(q) \/ AskDropped(q) PROVE AskInv'
  <2>1. \A p \in Questions : Deciding(p) <=> Deciding(p)'
    BY <1>7 DEF AskTimeout, AskDropped, Deciding
  <2> QED BY <1>0, <1>7, <2>1 DEF AskTimeout, AskDropped, AskInv, server
<1>8. ASSUME HandleAction PROVE AskInv'
  <2>1. PICK a \in [act : Acts, c : Cards] : a = Head(up)
    BY <1>8, HeadTailProperties DEF HandleAction, TypeOK
  <2>2. CASE a.act # "refine" /\ card[a.c] = "Pending"
    BY <1>8, <2>1, <2>2, DecideAsk DEF HandleAction
  <2>3. CASE a.act = "refine" \/ card[a.c] # "Pending"
    <3>1. UNCHANGED <<asker, registry, plain, push, card, rest>> /\ busy = None
      BY <1>8, <2>1, <2>3 DEF HandleAction, NoDecision
    <3>2. \A q \in Questions : Deciding(q) => Deciding(q)'
      BY <3>1 DEF Deciding
    <3> QED BY <3>1, <3>2, AskFrame
  <2> QED BY <2>2, <2>3
<1>9. ASSUME NEW c \in Cards, NEW act \in Acts, RestDecides(c, act) PROVE AskInv'
  BY <1>9, DecideAsk DEF RestDecides
<1>10. ASSUME HandleResolve \/ RestResolve PROVE AskInv'
  <2>1. rest \in Resolves
    BY DEF TypeOK
  <2> QED BY <1>10, <2>1, ResolveAsk DEF HandleResolve, RestResolve, server
<1>11. CASE UNCHANGED <<asker, registry, plain, push, card, busy, rest>>
  <2>1. \A q \in Questions : Deciding(q) => Deciding(q)'
    BY <1>11 DEF Deciding
  <2> QED BY <1>11, <2>1, AskFrame
<1> QED
  BY <1>1, <1>2, <1>3, <1>4, <1>5, <1>6, <1>7, <1>8, <1>9, <1>10, <1>11
     DEF Next, vars, server, asking, TimePasses, refine_card, Connect, Subscribe, Forward,
         Resync, Disconnect, ClientActs

-----------------------------------------------------------------------------
(* The client's list *)

\* A step that concerns no card sends nothing about it either.
LEMMA Unconcerned ==
  ASSUME RxOK, NEW c \in Cards, InStep(c), UNCHANGED <<rx, lagged>>,
         card'[c] = card[c], push'[c] = "announced" <=> push[c] = "announced",
         list'[c] = list[c], card[c] = "Pending" /\ WillDecide(c) => WillDecide(c)',
         past \subseteq past'
  PROVE  InStep(c)'
<1>1. RxOK' /\ Delivered(<<>>, 0)
  BY NothingSent
<1>2. <<>> \in Seq(Events) /\ \A i \in DOMAIN <<>> : <<>>[i].c # c
  OBVIOUS
<1> QED BY <1>1, <1>2, Bystander

\* A step that moves one card and sends its event, if it sends one, keeps every card
\* in step but those the race between snapshot and subscription puts out of it.
LEMMA SendsOne ==
  ASSUME RxOK, ListInv, NEW c \in Cards, NEW k \in {"new", "update", "refreshed"},
         Broadcast(<<[k |-> k, c |-> c]>>), UNCHANGED <<conn, past, list>>,
         amiss \subseteq amiss', conn \in {"off", "synced", "live"},
         conn = "synced" => c \in amiss' \/ (k = "update" /\ card[c] # "Pending"),
         \A b \in Cards \ {c} : card'[b] = card[b] /\ push'[b] = push[b],
         \A b \in Cards \ {c} : card[b] = "Pending" /\ WillDecide(b) => WillDecide(b)',
         c \notin amiss' =>
            /\ card'[c] # "Absent"
            /\ \/ /\ k = "new" /\ push[c] = "queued" /\ push'[c] = "announced"
                  /\ card[c] = "Pending" /\ card'[c] = "Pending"
               \/ k = "update" /\ push'[c] = push[c] /\ card'[c] # "Pending"
               \/ /\ k = "refreshed" /\ push[c] = "announced" /\ push'[c] = "announced"
                  /\ card[c] = "Pending" /\ card'[c] = "Pending"
  PROVE  ListInv'
<1> DEFINE e == [k |-> k, c |-> c]
<1>0. /\ e \in Events /\ <<e>> \in Seq(Events)
      /\ \A i \in DOMAIN <<e>> : <<e>>[i].c = c
  <2>1. e \in Events /\ <<e>> \in Seq(Events) /\ e.c = c
    BY OneEvent
  <2>2. DOMAIN <<e>> = {1} /\ <<e>>[1] = e
    OBVIOUS
  <2> QED BY <2>1, <2>2
<1>1. CASE conn = "live"
  <2>1. RxOK' /\ \E d \in Nat : Delivered(<<e>>, d)
    BY <1>0, <1>1, BroadcastOK
  <2>2. PICK d \in Nat : Delivered(<<e>>, d)
    BY <2>1
  <2>3. ASSUME NEW b \in Cards \ amiss', b # c PROVE InStep(b)'
    <3>1. InStep(b)
      BY <1>1, <2>3 DEF ListInv
    <3>2. /\ card'[b] = card[b] /\ push'[b] = push[b] /\ list'[b] = list[b]
          /\ card[b] = "Pending" /\ WillDecide(b) => WillDecide(b)'
      BY <2>3
    <3>3. \A i \in DOMAIN <<e>> : <<e>>[i].c # b
      BY <1>0, <2>3
    <3> HIDE DEF e
    <3> QED BY <1>0, <2>1, <2>2, <3>1, <3>2, <3>3, Bystander
  <2>4. ASSUME c \notin amiss' PROVE InStep(c)'
    <3>1. InStep(c) /\ e.c = c /\ e.k = k
      BY <1>1, <2>4 DEF ListInv
    <3> QED BY <1>0, <2>1, <2>2, <2>4, <3>1, OwnEvent
  <2> QED BY <1>1, <2>3, <2>4 DEF ListInv
<1>2. CASE conn = "synced"
  <2>1. UNCHANGED <<rx, lagged>> /\ rx = <<>> /\ ~lagged
    BY <1>0, <1>2, BroadcastOK DEF ListInv
  <2>2. ASSUME NEW b \in Cards \ amiss', b # c PROVE InStep(b)'
    <3>1. InStep(b)
      BY <1>2, <2>2 DEF ListInv
    <3> QED BY <2>1, <2>2, <3>1, Unconcerned
  <2>3. ASSUME c \notin amiss' PROVE InStep(c)'
    <3>1. InStep(c)
      BY <1>2, <2>3 DEF ListInv
    <3>2. EventsOf(c) = {} /\ EventsOf(c)' = {}
      BY <2>1 DEF EventsOf
    <3> QED
      BY <1>2, <2>1, <2>3, <3>1, <3>2 DEF InStep, EventsInOrder, ListCatchesUp
  <2> QED BY <1>2, <2>1, <2>2, <2>3 DEF ListInv
<1>3. CASE conn = "off"
  BY <1>0, <1>3, BroadcastOK DEF ListInv
<1> QED BY <1>1, <1>2, <1>3

\* A decision of a card.
LEMMA DecideList ==
  ASSUME TypeOK, PushedIsThere, ListInv, NEW c \in Cards, NEW s \in {"Approved", "Dismissed"},
         Decide(c, s), UNCHANGED <<conn, past, list, push>>,
         \A b \in Cards \ {c} : WillDecide(b) => WillDecide(b)'
  PROVE  ListInv'
<1>1. /\ \A b \in Cards \ {c} : card'[b] = card[b]
      /\ card'[c] # "Absent" /\ card'[c] # "Pending" /\ amiss' = amiss \cup Missed(c)
      /\ Broadcast(<<[k |-> "update", c |-> c]>>)
  BY DEF Decide, TypeOK
<1>2. conn = "synced" => c \in amiss'
  BY <1>1 DEF Missed
<1>3. RxOK /\ conn \in {"off", "synced", "live"}
  BY DEF TypeOK, RxOK
<1> QED BY <1>1, <1>2, <1>3, SendsOne

\* A new snapshot shows each pending card once; what is shown before its announcement
\* is put out of step.
LEMMA SnapshotList ==
  ASSUME TypeOK, PushedIsThere, NEW c \in Cards, EventsInOrder(c),
         Synced(list), UNCHANGED <<card, push, rx, past>>, c \notin ShownTwice(rx)
  PROVE  InStep(c)'
<1>1. list'[c] = IF card[c] = "Pending" /\ c \notin past THEN 1 ELSE 0
  BY DEF Synced, pending, is_expired
<1>2. EventsOf(c)' = EventsOf(c) /\ EventsInOrder(c)'
  BY DEF EventsOf, EventsInOrder
<1>3. card[c] = "Pending" /\ c \notin past => push[c] = "announced"
  BY DEF ShownTwice, pending, is_expired, PushedIsThere, TypeOK
<1>4. card[c] = "Pending" /\ c \notin past => \A i \in EventsOf(c) : rx[i].k # "new"
  <2>1. ASSUME card[c] = "Pending", c \notin past, NEW i \in EventsOf(c), rx[i].k = "new"
        PROVE  FALSE
    <3>1. i \in DOMAIN rx /\ rx[i] \in Events /\ rx[i].c = c
      BY <2>1 DEF EventsOf, TypeOK
    <3>2. rx[i] = [k |-> "new", c |-> c]
      BY <2>1, <3>1 DEF Events
    <3> QED BY <2>1, <3>1, <3>2 DEF ShownTwice, pending, is_expired
  <2> QED BY <2>1
<1>5. ListCatchesUp(c)'
  BY <1>1, <1>2, <1>3, <1>4 DEF ListCatchesUp
<1> QED BY <1>2, <1>5 DEF InStep

\* The client applies the oldest event.
LEMMA ForwardList ==
  ASSUME TypeOK, Forward, NEW c \in Cards, InStep(c)
  PROVE  InStep(c)'
<1> DEFINE e == Head(rx)
<1>0. /\ rx # <<>> /\ ~lagged /\ rx' = Tail(rx) /\ UNCHANGED <<card, push, up, lagged>>
      /\ apply_message(e)
  BY DEF Forward, server
<1>p. past' = past
  BY DEF Forward, server
<1>1. /\ e \in Events /\ e = rx[1] /\ Len(rx) \in Nat /\ DOMAIN rx = 1 .. Len(rx)
      /\ Len(rx') = Len(rx) - 1 /\ DOMAIN rx' = 1 .. Len(rx') /\ Len(rx) >= 1
      /\ \A i \in 1 .. Len(rx') : rx'[i] = rx[i + 1]
  BY <1>0, HeadTailProperties DEF TypeOK
<1>2. \A i \in EventsOf(c)' :
         i \in Nat /\ i > 0 /\ i + 1 \in EventsOf(c) /\ rx'[i] = rx[i + 1]
  BY <1>1 DEF EventsOf
<1>3. \A j \in EventsOf(c) :
         j \in Nat /\ (j = 1 \/ (j - 1 \in EventsOf(c)' /\ rx'[j - 1] = rx[j] /\ j > 1))
  BY <1>1 DEF EventsOf
<1>4. e.c = c <=> 1 \in EventsOf(c)
  BY <1>1 DEF EventsOf
<1> HIDE DEF e
<1>5. EventsInOrder(c)'
  <2>1. ASSUME NEW i \in EventsOf(c)', rx'[i].k \notin Closing, card'[c] # "Pending"
        PROVE  \E j \in EventsOf(c)' : i < j /\ rx'[j].k \in Closing
    <3>1. PICK j \in EventsOf(c) : i + 1 < j /\ rx[j].k \in Closing
      BY <1>0, <1>2, <2>1 DEF InStep, EventsInOrder
    <3> QED BY <1>2, <1>3, <2>1, <3>1
  <2>2. ASSUME NEW i \in EventsOf(c)', rx'[i].k = "new", NEW j \in EventsOf(c)' PROVE i <= j
    <3>1. i + 1 <= j + 1
      BY <1>2, <2>2 DEF InStep, EventsInOrder
    <3> QED BY <1>2, <3>1
  <2>3. card'[c] = "Absent" => EventsOf(c)' = {}
    BY <1>0, <1>2 DEF InStep, EventsInOrder
  <2>4. ASSUME NEW i \in EventsOf(c)'
        PROVE  /\ push'[c] # "announced" => rx'[i].k \in Closing
               /\ rx'[i].k \in Closing => card'[c] # "Pending"
    BY <1>0, <1>2 DEF InStep, EventsInOrder
  <2> QED BY <2>1, <2>2, <2>3, <2>4 DEF EventsInOrder
<1>6. ListCatchesUp(c) /\ EventsInOrder(c) /\ list \in [Cards -> Nat]
  BY <1>0 DEF InStep, TypeOK
<1>7. ListCatchesUp(c)'
  <2>1. CASE e.c # c
    <3>1. list'[c] = list[c] /\ (WillDecide(c) => WillDecide(c)')
      BY <1>0, <1>1, <1>6, <2>1 DEF apply_message, WillDecide
    <3>2. EventsOf(c) # {} => EventsOf(c)' # {}
      BY <1>3, <1>4, <2>1
    <3>3. (\E i \in EventsOf(c) : rx[i].k \in Closing) =>
              \E i \in EventsOf(c)' : rx'[i].k \in Closing
      BY <1>3, <1>4, <2>1
    <3>4. (\E i \in EventsOf(c)' : rx'[i].k = "new") => \E i \in EventsOf(c) : rx[i].k = "new"
      BY <1>2
    <3> QED BY <1>0, <1>p, <1>6, <3>1, <3>2, <3>3, <3>4 DEF ListCatchesUp
  <2>2. CASE e.c = c
    <3>0. 1 \in EventsOf(c) /\ rx[1] = e
      BY <1>1, <1>4, <2>2
    <3>1. e.k \notin Closing /\ card[c] # "Pending" =>
              \E i \in EventsOf(c)' : rx'[i].k \in Closing
      BY <1>3, <1>6, <3>0 DEF EventsInOrder
    <3>2. \A i \in EventsOf(c)' : rx'[i].k # "new"
      BY <1>2, <1>6, <3>0 DEF EventsInOrder
    <3>3. /\ push[c] # "announced" => e.k \in Closing
          /\ e.k \in Closing => card[c] # "Pending"
          /\ e.k \in {"new", "update", "expired", "refreshed"}
      BY <1>1, <1>6, <3>0 DEF EventsInOrder, Events
    <3>4. CASE e.k = "new"
      <4>1. list'[c] = 1
        BY <1>0, <1>6, <2>2, <3>0, <3>4 DEF apply_message, ListCatchesUp
      <4> QED BY <1>0, <3>1, <3>2, <3>3, <3>4, <4>1 DEF ListCatchesUp, Closing
    <3>5. CASE e.k \in Closing
      <4>1. list'[c] = 0
        BY <1>0, <1>6, <2>2, <3>5 DEF apply_message, ListCatchesUp, Closing
      <4> QED BY <1>0, <3>2, <3>3, <3>5, <4>1 DEF ListCatchesUp
    <3>6. CASE e.k = "refreshed"
      <4>1. list'[c] = 1
        BY <1>0, <1>6, <2>2, <3>6 DEF apply_message, ListCatchesUp
      <4> QED BY <1>0, <3>1, <3>2, <3>3, <3>6, <4>1 DEF ListCatchesUp, Closing
    <3> QED BY <3>3, <3>4, <3>5, <3>6 DEF Closing
  <2> QED BY <2>1, <2>2
<1> QED BY <1>5, <1>7 DEF InStep

\* Every step keeps the list of a live connection on its way to the queue.
LEMMA ListStep ==
    TypeOK /\ PushedIsThere /\ ListInv /\ [Next]_vars => ListInv'
<1> SUFFICES ASSUME TypeOK, PushedIsThere, ListInv, [Next]_vars PROVE ListInv'
  OBVIOUS
<1>0. /\ RxOK /\ conn \in {"off", "synced", "live"}
      /\ card \in [Cards -> CardStatus]
      /\ push \in [Cards -> {"new", "registered", "queued", "announced"}]
      /\ list \in [Cards -> Nat]
  BY DEF TypeOK, RxOK
\* Steps that send nothing, change no list and take no decision off the way.
<1>a. ASSUME UNCHANGED <<conn, rx, lagged, list>>, amiss \subseteq amiss', past \subseteq past',
             \A b \in Cards \ amiss' :
                /\ card'[b] = card[b] /\ (push'[b] = "announced" <=> push[b] = "announced")
                /\ card[b] = "Pending" /\ WillDecide(b) => WillDecide(b)'
      PROVE  ListInv'
  <2>1. ASSUME conn # "off", NEW b \in Cards \ amiss' PROVE InStep(b)'
    <3>1. InStep(b)
      BY <1>a, <2>1 DEF ListInv
    <3> QED BY <1>0, <1>a, <2>1, <3>1, Unconcerned
  <2> QED BY <1>a, <2>1 DEF ListInv
<1>1. ASSUME NEW q \in Questions, AskRegister(q) PROVE ListInv'
  <2>1. \A b \in Cards : push'[b] = "announced" <=> push[b] = "announced"
    BY <1>0, <1>1 DEF AskRegister
  <2> QED BY <1>1, <1>a, <2>1 DEF AskRegister, link, WillDecide
<1>2. ASSUME NEW c \in Cards, PushQueue(c) PROVE ListInv'
  <2>1. /\ \A b \in Cards \ {c} : card'[b] = card[b] /\ push'[b] = push[b]
        /\ card[c] = "Absent" /\ push[c] # "announced" /\ push'[c] = "queued"
        /\ card'[c] = "Pending" /\ UNCHANGED <<conn, rx, lagged, list, up, amiss, past>>
    BY <1>0, <1>2 DEF PushQueue, PushedIsThere, link
  <2>2. ASSUME conn # "off", NEW b \in Cards \ amiss PROVE InStep(b)'
    <3>1. InStep(b) /\ EventsOf(b)' = EventsOf(b) /\ (WillDecide(b) <=> WillDecide(b)')
      BY <2>1, <2>2 DEF ListInv, EventsOf, WillDecide
    <3>2. CASE b = c
      BY <2>1, <3>1, <3>2 DEF InStep, EventsInOrder, ListCatchesUp
    <3>3. CASE b # c
      BY <1>0, <2>1, <3>1, <3>3, Unconcerned
    <3> QED BY <3>2, <3>3
  <2> QED BY <2>1, <2>2 DEF ListInv
<1>3. ASSUME NEW c \in Cards, PushAnnounce(c) PROVE ListInv'
  <2>1. /\ Broadcast(<<[k |-> "new", c |-> c]>>)
        /\ amiss' = amiss \cup Missed(c) \cup (IF card[c] = "Pending" THEN {} ELSE {c})
        /\ push[c] = "queued" /\ push'[c] = "announced"
        /\ \A b \in Cards \ {c} : push'[b] = push[b]
        /\ UNCHANGED <<conn, past, list, card, up>>
    BY <1>0, <1>3 DEF PushAnnounce
  <2>2. /\ conn = "synced" => c \in amiss'
        /\ c \notin amiss' => card[c] = "Pending"
    BY <2>1 DEF Missed
  <2>3. \A b \in Cards : WillDecide(b) => WillDecide(b)'
    BY <2>1 DEF WillDecide
  <2> QED BY <1>0, <2>1, <2>2, <2>3, SendsOne
<1>4. ASSUME NEW c \in Cards, RefineAnnounce(c) PROVE ListInv'
  <2>1. /\ Broadcast(<<[k |-> "refreshed", c |-> c]>>)
        /\ amiss' = amiss \cup Missed(c)
                          \cup (IF card[c] = "Pending" /\ push[c] # "queued" THEN {} ELSE {c})
        /\ UNCHANGED <<conn, past, list, card, push, up>>
    BY <1>4 DEF RefineAnnounce
  <2>2. /\ conn = "synced" => c \in amiss'
        /\ c \notin amiss' => card[c] = "Pending" /\ push[c] = "announced"
    BY <1>0, <2>1 DEF Missed, PushedIsThere
  <2>3. \A b \in Cards : WillDecide(b) => WillDecide(b)'
    BY <2>1 DEF WillDecide
  <2> QED BY <1>0, <2>1, <2>2, <2>3, SendsOne
<1>5. ASSUME expire_old PROVE ListInv'
  <2> DEFINE old == {c \in past : card[c] = "Pending"}
             evs == SetToSeq([k : {"expired"}, c : old])
  <2>1. /\ Broadcast(evs) /\ amiss' = amiss \cup UNION {Missed(c) : c \in old}
        /\ \A b \in Cards \ old : card'[b] = card[b]
        /\ \A b \in old : card'[b] = "Expired"
        /\ UNCHANGED <<conn, past, list, push, up>>
    BY <1>0, <1>5 DEF expire_old, TypeOK
  <2>2. old \in SUBSET Cards
    BY DEF TypeOK
  <2>3. /\ evs \in Seq(Events)
        /\ \A i \in DOMAIN evs : evs[i].k = "expired" /\ evs[i].c \in old
        /\ \A c \in old : \E i \in DOMAIN evs : evs[i].c = c
    BY <2>2, ExpiredEvents
  <2>4. conn = "synced" => old \subseteq amiss'
    BY <2>1 DEF Missed
  <2>5. ASSUME NEW b \in Cards \ amiss', WillDecide(b) PROVE WillDecide(b)'
    BY <2>1, <2>5 DEF WillDecide
  <2> HIDE DEF evs, old
  <2>6. CASE conn = "live"
    <3>1. RxOK' /\ \E d \in Nat : Delivered(evs, d)
      BY <1>0, <2>1, <2>3, <2>6, BroadcastOK
    <3>2. PICK d \in Nat : Delivered(evs, d)
      BY <3>1
    <3>3. ASSUME NEW b \in Cards \ amiss' PROVE InStep(b)'
      <4>1. InStep(b)
        BY <2>1, <2>6, <3>3 DEF ListInv
      <4>2. CASE b \in old
        <5>1. PICK p \in DOMAIN evs : evs[p].c = b
          BY <2>3, <4>2
        <5>2. card'[b] \notin {"Absent", "Pending"}
          BY <2>1, <4>2
        <5> QED BY <1>0, <2>1, <2>3, <3>1, <3>2, <4>1, <5>1, <5>2, ExpiryEvent
      <4>3. CASE b \notin old
        <5>1. /\ card'[b] = card[b] /\ \A i \in DOMAIN evs : evs[i].c # b
              /\ WillDecide(b) => WillDecide(b)'
          BY <2>1, <2>3, <2>5, <3>3, <4>3
        <5> QED BY <1>0, <2>1, <2>3, <3>1, <3>2, <4>1, <5>1, Bystander
      <4> QED BY <4>2, <4>3
    <3> QED BY <2>1, <2>6, <3>3 DEF ListInv
  <2>7. CASE conn = "off"
    BY <1>0, <2>1, <2>3, <2>7, BroadcastOK DEF ListInv
  <2>8. CASE conn = "synced"
    <3>1. UNCHANGED <<rx, lagged>>
      BY <1>0, <2>1, <2>3, <2>8, BroadcastOK
    <3> QED BY <1>a, <2>1, <2>4, <2>5, <2>8, <3>1
  <2> QED BY <1>0, <2>6, <2>7, <2>8
<1>6. ASSUME NEW c \in Cards, mark_sent(c) PROVE ListInv'
  <2>1. /\ Broadcast(<<[k |-> "update", c |-> c]>>) /\ card[c] = "Approved" /\ card'[c] = "Sent"
        /\ \A b \in Cards \ {c} : card'[b] = card[b]
        /\ UNCHANGED <<conn, past, list, push, up, amiss>>
    BY <1>0, <1>6 DEF mark_sent
  <2>2. \A b \in Cards : WillDecide(b) => WillDecide(b)'
    BY <2>1 DEF WillDecide
  <2> QED BY <1>0, <2>1, <2>2, SendsOne
<1>7. ASSUME HandleAction PROVE ListInv'
  <2>1. /\ up # <<>> /\ up' = Tail(up) /\ up \in Seq([act : Acts, c : Cards])
        /\ UNCHANGED <<conn, past, list, push>>
    BY <1>7 DEF HandleAction, TypeOK
  <2>2. PICK a \in [act : Acts, c : Cards] : a = Head(up)
    BY <2>1, HeadTailProperties
  <2>3. ASSUME NEW b \in Cards, b # a.c \/ a.act = "refine", WillDecide(b) PROVE WillDecide(b)'
    <3>1. PICK i \in DOMAIN up : up[i].c = b /\ up[i].act # "refine"
      BY <2>3 DEF WillDecide
    <3>2. i # 1
      BY <2>1, <2>2, <2>3, <3>1
    <3>3. i - 1 \in DOMAIN up' /\ up'[i - 1] = up[i]
      BY <2>1, <3>2, HeadTailProperties
    <3> QED BY <3>1, <3>3 DEF WillDecide
  <2>4. CASE a.act # "refine" /\ card[a.c] = "Pending"
    <3>1. Decide(a.c, StatusOf(a.act)) /\ StatusOf(a.act) \in {"Approved", "Dismissed"}
      BY <1>7, <2>2, <2>4, OnDecisionType DEF HandleAction
    <3> QED BY <2>1, <2>3, <2>4, <3>1, DecideList
  <2>5. CASE a.act = "refine" \/ card[a.c] # "Pending"
    <3>1. NoDecision
      BY <1>7, <2>2, <2>5 DEF HandleAction
    <3> QED BY <1>a, <2>1, <2>3, <2>5, <3>1 DEF NoDecision
  <2> QED BY <2>4, <2>5
<1>8. ASSUME NEW c \in Cards, NEW act \in Acts, RestDecides(c, act) PROVE ListInv'
  <2>1. /\ Decide(c, StatusOf(act)) /\ StatusOf(act) \in {"Approved", "Dismissed"}
        /\ UNCHANGED <<conn, past, list, push, up>>
    BY <1>8, OnDecisionType DEF RestDecides
  <2>2. \A b \in Cards : WillDecide(b) => WillDecide(b)'
    BY <2>1 DEF WillDecide
  <2> QED BY <2>1, <2>2, DecideList
<1>9. ASSUME Connect PROVE ListInv'
  <2>1. rx = <<>> /\ ~lagged /\ Synced(list) /\ amiss' = ShownTwice(<<>>) /\ conn' = "synced"
        /\ UNCHANGED <<card, push, past, rx, lagged>>
    BY <1>9 DEF Connect, ListInv, server
  <2>2. ASSUME NEW b \in Cards \ amiss' PROVE InStep(b)'
    <3>1. EventsInOrder(b)
      BY <2>1 DEF EventsInOrder, EventsOf
    <3> QED BY <2>1, <2>2, <3>1, SnapshotList
  <2> QED BY <2>1, <2>2 DEF ListInv
<1>10. ASSUME Subscribe PROVE ListInv'
  <2>1. conn = "synced" /\ conn' = "live"
        /\ UNCHANGED <<card, push, past, rx, lagged, list, amiss, up>>
    BY <1>10 DEF Subscribe, server
  <2>2. ASSUME NEW b \in Cards \ amiss PROVE InStep(b)'
    <3>1. InStep(b) /\ (WillDecide(b) => WillDecide(b)')
      BY <2>1, <2>2 DEF ListInv, WillDecide
    <3> QED BY <1>0, <2>1, <3>1, Unconcerned
  <2> QED BY <2>1, <2>2 DEF ListInv
<1>11. ASSUME Forward PROVE ListInv'
  <2>1. conn = "live" /\ UNCHANGED <<conn, amiss, past>>
    BY <1>11 DEF Forward, server
  <2> QED BY <1>11, <2>1, ForwardList DEF ListInv
<1>12. ASSUME Resync PROVE ListInv'
  <2>1. conn = "live" /\ Synced(list) /\ amiss' = amiss \cup ShownTwice(rx)
        /\ UNCHANGED <<card, push, past, rx, conn>>
    BY <1>12 DEF Resync, server
  <2>2. ASSUME NEW b \in Cards \ amiss' PROVE InStep(b)'
    <3>1. EventsInOrder(b)
      BY <2>1, <2>2 DEF ListInv, InStep
    <3> QED BY <2>1, <2>2, <3>1, SnapshotList
  <2> QED BY <2>1, <2>2 DEF ListInv
<1>13. ASSUME Disconnect PROVE ListInv'
  BY <1>13 DEF Disconnect, ListInv
<1>14. ASSUME NEW c \in Cards, NEW act \in Acts, ClientActs(c, act) PROVE ListInv'
  <2>1. /\ conn # "off" /\ up' = Append(up, [act |-> act, c |-> c])
        /\ up \in Seq([act : Acts, c : Cards])
        /\ UNCHANGED <<conn, rx, lagged, card, push, past, amiss>>
    BY <1>14 DEF ClientActs, server, link, TypeOK
  <2>2. ASSUME NEW b \in Cards, WillDecide(b) PROVE WillDecide(b)'
    <3>1. PICK i \in DOMAIN up : up[i].c = b /\ up[i].act # "refine"
      BY <2>2 DEF WillDecide
    <3>2. i \in DOMAIN up' /\ up'[i] = up[i]
      BY <2>1
    <3> QED BY <3>1, <3>2 DEF WillDecide
  <2>3. CASE act = "refine"
    <3>1. UNCHANGED list
      BY <1>14, <2>3 DEF ClientActs
    <3> QED BY <1>a, <2>1, <2>2, <3>1
  <2>4. CASE act # "refine"
    <3>1. list' = [list EXCEPT ![c] = 0]
      BY <1>14, <2>4 DEF ClientActs
    <3>2. WillDecide(c)'
      <4>1. Len(up) + 1 \in DOMAIN up' /\ up'[Len(up) + 1] = [act |-> act, c |-> c]
        BY <2>1
      <4> QED BY <2>4, <4>1 DEF WillDecide
    <3>3. ASSUME NEW b \in Cards \ amiss PROVE InStep(b)'
      <4>1. InStep(b) /\ EventsOf(b)' = EventsOf(b)
        BY <2>1, <3>3 DEF ListInv, EventsOf
      <4>2. CASE b # c
        BY <1>0, <2>1, <2>2, <3>1, <4>1, <4>2, Unconcerned
      <4>3. CASE b = c
        BY <1>0, <2>1, <3>1, <3>2, <4>1, <4>3 DEF InStep, EventsInOrder, ListCatchesUp
      <4> QED BY <4>2, <4>3
    <3> QED BY <2>1, <3>3 DEF ListInv
  <2> QED BY <2>3, <2>4
<1>15. ASSUME NEW c \in Cards, TimePasses(c) PROVE ListInv'
  BY <1>a, <1>15 DEF TimePasses, link, WillDecide
<1>16. CASE UNCHANGED <<card, push, past, conn, rx, lagged, up, list, amiss>>
  BY <1>16, <1>a DEF WillDecide
<1> QED
  BY <1>1, <1>2, <1>3, <1>4, <1>5, <1>6, <1>7, <1>8, <1>9, <1>10, <1>11, <1>12, <1>13,
     <1>14, <1>15, <1>16
     DEF Next, vars, server, link, refine_card, RefineApply, AskTimeout, AskDropped,
         HandleResolve, RestResolve

-----------------------------------------------------------------------------
(* The theorems *)

\* Initially there is no card, no connection and no call.
LEMMA StreamInit == Init => StreamInv
<1> SUFFICES ASSUME Init PROVE StreamInv
  OBVIOUS
<1>1. TypeOK
  <2>1. rx = <<>> /\ up = <<>> /\ list = [c \in Cards |-> 0] /\ drops = 0 /\ refines = 0
    BY DEF Init
  <2>2. rx \in Seq(Events) /\ Len(rx) <= Capacity /\ up \in Seq([act : Acts, c : Cards])
    BY <2>1, CapacityAssumption
  <2>3. list \in [Cards -> Nat] /\ drops \in 0 .. MaxDrops /\ refines \in 0 .. MaxRefines
    BY <2>1, BoundsAssumption
  <2> QED BY <2>2, <2>3 DEF Init, TypeOK, CardStatus, Resolves
<1>2. PushedIsThere
  BY DEF Init, PushedIsThere
<1>3. AskInv
  BY CardsAssumption DEF Init, AskInv
<1>4. ListInv
  BY DEF Init, ListInv
<1> QED BY <1>1, <1>2, <1>3, <1>4 DEF StreamInv

\* Every behaviour keeps the invariant.
THEOREM StreamInvariant == Spec => []StreamInv
<1>1. StreamInv /\ [Next]_vars => StreamInv'
  BY TypeStep, PushStep, AskStep, ListStep DEF StreamInv
<1> QED BY StreamInit, <1>1, PTL DEF Spec

\* Whatever is pushed, refined, decided by the phone, by REST or by time, and however
\* often the connection lags, resyncs and breaks: once nothing is under way the phone
\* shows each pending card once and no other, but for the cards of the named races of
\* handle_socket, push and refine (cards/ws.rs, cards/queue.rs), and a card that
\* expired is gone as soon as expire_old has announced it; the receiver never holds
\* more events than the channel's capacity.
THEOREM PhoneFollowsTheQueue == Spec => []CardListHasACause
<1>1. StreamInv => CardListHasACause
  <2> SUFFICES ASSUME StreamInv PROVE ListDiffersHasACause
    BY DEF StreamInv, CardListHasACause
  <2>1. ASSUME Quiet, NEW c \in Cards \ amiss
        PROVE  /\ card[c] # "Pending" => list[c] = 0
               /\ card[c] = "Pending" /\ push[c] # "queued" =>
                     IF is_expired(c) THEN list[c] \in {0, 1} ELSE list[c] = 1
    <3>1. ListCatchesUp(c) /\ EventsOf(c) = {} /\ ~WillDecide(c)
      BY <2>1 DEF Quiet, StreamInv, ListInv, InStep, EventsOf, WillDecide
    <3>2. card[c] = "Pending" /\ push[c] # "queued" => push[c] = "announced"
      BY <2>1 DEF StreamInv, PushedIsThere, TypeOK
    <3> QED BY <3>1, <3>2 DEF ListCatchesUp, is_expired
  <2> QED BY <2>1 DEF ListDiffersHasACause
<1> QED BY StreamInvariant, <1>1, PTL

\* A call of ask_user never waits for a question that was answered: its sender is
\* registered before the card is pushed, so a decision finds it, unless the card was
\* approved without an option or with an index past them (tools/builtin/ask_user.rs, cards/choice_registry.rs).
THEOREM AnswersReachAskers == Spec => []AnswerReachesAsker
<1>1. StreamInv => AnswerReachesAsker
  <2> SUFFICES ASSUME StreamInv, NEW q \in Questions, asker[q] = "waiting", card[q] # "Pending"
               PROVE  q \in plain \/ Deciding(q)
    BY DEF AnswerReachesAsker, Deciding
  <2>1. push[q] = "announced" /\ (card[q] = "Absent" \/ q \in plain \/ Deciding(q))
    BY DEF StreamInv, AskInv
  <2>2. card[q] # "Absent"
    BY <2>1, CardsAssumption DEF StreamInv, PushedIsThere
  <2> QED BY <2>1, <2>2
<1> QED BY StreamInvariant, <1>1, PTL

-----------------------------------------------------------------------------
(* ToolTurn: messages, calls and records of a turn.  A turn and the cards  *)
(* share no state; their theorems are about one of them each.              *)

\* A sequence, over whatever its elements are.
IsSeq(s) == s \in Seq({s[i] : i \in DOMAIN s})

\* The calls of message i that are to be answered: all but those an approval left behind.
Given(i) == {j \in DOMAIN turn.messages[i].calls : <<i, j>> \notin turn.skipped}

\* They have their results.
Ended(i) == \A j \in Given(i) : i + j \in DOMAIN turn.messages

\* Message i has the calls that are being run.
Running(i) ==
    /\ i \in DOMAIN turn.messages /\ turn.messages[i].calls # <<>>
    /\ \A k \in DOMAIN turn.messages : k > i => turn.messages[k].calls = <<>>
    /\ \A k \in DOMAIN turn.messages \ {i} : Ended(k)

\* The turn's last record is that of the call, if its reply had no other.
RecordWaits(call, n) ==
    /\ turn.calls # <<>>
    /\ LET c == turn.calls[Len(turn.calls)] IN
       c.batch = n /\ (n = 1 => c.id = call.id /\ c.result = Absent /\ c.error = Absent)

\* The record has the outcome of its call, if its reply had no other.
OwnOutcome(c) ==
    c.batch = 1 => {c.result, c.error} \subseteq {c.id, Absent} /\ {c.result, c.error} # {Absent}

TurnShape ==
    /\ DOMAIN turn = {"phase", "has_tools", "long", "iteration", "tools_executed", "messages",
                      "queue", "pending", "auto", "calls", "skipped", "said", "shown"}
    /\ turn.phase \in {"ask", "run", "wait", "done", "failed", "rejected"}
    /\ IsSeq(turn.messages) /\ turn.messages # <<>>
    /\ \A i \in DOMAIN turn.messages :
          turn.messages[i].role # "system" /\ IsSeq(turn.messages[i].calls)
    /\ IsSeq(turn.queue) /\ IsSeq(turn.calls)
    /\ \A k \in DOMAIN turn.calls : DOMAIN turn.calls[k] = {"id", "batch", "result", "error"}
    /\ turn.skipped \subseteq (DOMAIN turn.messages) \X Nat

\* An id says in which reply and at which place its call was, or only the latter.
IdsTell ==
    \A i \in DOMAIN turn.messages : \A j \in DOMAIN turn.messages[i].calls :
        turn.messages[i].calls[j].id \in {<<"provider", i - 1, j>>, <<"recovered", 0, j - 1>>}

\* What an approval leaves behind is the end of its reply's calls.
SkipsAreTails ==
    \A i \in DOMAIN turn.messages : \A j \in Given(i) : 1 .. j \subseteq Given(i)

\* The results follow the calls in order, and are nowhere else.
ResultsFollow ==
    /\ \A i \in DOMAIN turn.messages : \A j \in Given(i) : i + j \in DOMAIN turn.messages =>
          turn.messages[i + j].id = turn.messages[i].calls[j].id
    /\ \A p \in DOMAIN turn.messages : turn.messages[p].id # Absent =>
          \E i \in DOMAIN turn.messages : \E j \in Given(i) : p = i + j

\* The loop asks the model when all calls have their results.
WhileAsking == turn.phase = "ask" => \A i \in DOMAIN turn.messages : Ended(i)

\* While it runs calls, it has those that have no result yet.
RunsAt(i) ==
    LET calls == turn.messages[i].calls
        done == Len(turn.messages) - i
    IN  /\ Running(i) /\ Given(i) = DOMAIN calls
        /\ turn.queue # <<>> /\ Len(turn.queue) = Len(calls) - done
        /\ \A k \in DOMAIN turn.queue : turn.queue[k] = calls[done + k]
        /\ RecordWaits(turn.queue[1], Len(calls))
WhileRunning == turn.phase = "run" => \E i \in DOMAIN turn.messages : RunsAt(i)

\* While it waits for the user, the call in question is the last that is to be answered.
WaitsAt(i) ==
    LET calls == turn.messages[i].calls
        next == Len(turn.messages) - i + 1
    IN  /\ Running(i) /\ next \in DOMAIN calls /\ Given(i) = 1 .. next
        /\ turn.pending = calls[next]
        /\ RecordWaits(turn.pending, Len(calls))
WhileWaiting == turn.phase = "wait" => \E i \in DOMAIN turn.messages : WaitsAt(i)

\* The turn's records have their outcomes, the last one perhaps not yet.
RecordsTell ==
    /\ turn.phase \in {"ask", "done"} => \A k \in DOMAIN turn.calls : OwnOutcome(turn.calls[k])
    /\ turn.phase \in {"run", "wait"} =>
          \A k \in DOMAIN turn.calls : k < Len(turn.calls) => OwnOutcome(turn.calls[k])

\* Messages, calls and records of the turn belong together at every moment.
TurnInv ==
    /\ TurnShape /\ IdsTell /\ SkipsAreTails /\ ResultsFollow
    /\ WhileAsking /\ WhileRunning /\ WhileWaiting /\ RecordsTell

-----------------------------------------------------------------------------
(* Sequences *)

\* A sequence over any set is one.
LEMMA SeqIs ==
  ASSUME NEW S, NEW s \in Seq(S)
  PROVE  IsSeq(s) /\ Len(s) \in Nat /\ DOMAIN s = 1 .. Len(s) /\ (s = <<>> <=> Len(s) = 0)
<1> DEFINE V == {s[i] : i \in DOMAIN s}
<1>1. Len(s) \in Nat /\ DOMAIN s = 1 .. Len(s) /\ s = [i \in 1 .. Len(s) |-> s[i]]
  OBVIOUS
<1>2. \A i \in 1 .. Len(s) : s[i] \in V
  BY <1>1
<1> HIDE DEF V
<1>3. s \in [1 .. Len(s) -> V]
  BY <1>1, <1>2
<1>4. s \in Seq(V)
  BY <1>1, <1>3
<1> QED BY <1>1, <1>4, EmptySeq DEF IsSeq, V

LEMMA SeqHas ==
  ASSUME NEW s, IsSeq(s)
  PROVE  Len(s) \in Nat /\ DOMAIN s = 1 .. Len(s) /\ (s = <<>> <=> Len(s) = 0)
BY SeqIs DEF IsSeq

\* The empty sequence is one.
LEMMA EmptyIs == IsSeq(<<>>) /\ DOMAIN <<>> = {}
<1>1. <<>> \in Seq({}) /\ DOMAIN <<>> = {}
  OBVIOUS
<1>2. IsSeq(<<>>)
  BY <1>1, SeqIs
<1> QED BY <1>1, <1>2

\* A sequence with an element at its end.
LEMMA SeqGrows ==
  ASSUME NEW s, IsSeq(s), NEW e
  PROVE  /\ IsSeq(Append(s, e)) /\ Len(Append(s, e)) = Len(s) + 1
         /\ DOMAIN Append(s, e) = 1 .. Len(s) + 1
         /\ Append(s, e)[Len(s) + 1] = e /\ \A i \in 1 .. Len(s) : Append(s, e)[i] = s[i]
<1> DEFINE S == {s[i] : i \in DOMAIN s}
           U == S \cup {e}
<1>1. s \in Seq(S) /\ S \subseteq U /\ e \in U
  BY DEF IsSeq
<1> HIDE DEF S, U
<1>2. s \in Seq(U)
  BY <1>1
<1>3. Append(s, e) \in Seq(U) /\ Len(Append(s, e)) = Len(s) + 1
  BY <1>1, <1>2
<1>4. Append(s, e)[Len(s) + 1] = e /\ \A i \in 1 .. Len(s) : Append(s, e)[i] = s[i]
  BY <1>1, <1>2
<1> QED BY <1>3, <1>4, SeqIs

\* One sequence behind the other.
LEMMA SeqJoins ==
  ASSUME NEW s, IsSeq(s), NEW u, IsSeq(u)
  PROVE  /\ IsSeq(s \o u) /\ Len(s \o u) = Len(s) + Len(u)
         /\ DOMAIN (s \o u) = 1 .. Len(s) + Len(u)
         /\ \A i \in 1 .. Len(s) : (s \o u)[i] = s[i]
         /\ \A i \in 1 .. Len(u) : (s \o u)[Len(s) + i] = u[i]
<1> DEFINE S == {s[i] : i \in DOMAIN s}
           V == {u[i] : i \in DOMAIN u}
           U == S \cup V
<1>1. s \in Seq(S) /\ u \in Seq(V) /\ S \subseteq U /\ V \subseteq U
  BY DEF IsSeq
<1> HIDE DEF S, V, U
<1>2. s \in Seq(U) /\ u \in Seq(U)
  BY <1>1
<1>3. s \o u \in Seq(U) /\ Len(s \o u) = Len(s) + Len(u)
  BY <1>2
<1>4. \A i \in 1 .. Len(s) : (s \o u)[i] = s[i]
  BY <1>2
<1>5. \A i \in 1 .. Len(u) : (s \o u)[Len(s) + i] = u[i]
  BY <1>2
<1> QED BY <1>3, <1>4, <1>5, SeqIs

\* A sequence without its first element.
LEMMA SeqRest ==
  ASSUME NEW s, IsSeq(s), s # <<>>
  PROVE  /\ Head(s) = s[1] /\ IsSeq(Tail(s)) /\ Len(Tail(s)) = Len(s) - 1
         /\ \A i \in 1 .. Len(s) - 1 : Tail(s)[i] = s[i + 1]
<1> DEFINE S == {s[i] : i \in DOMAIN s}
<1>1. s \in Seq(S)
  BY DEF IsSeq
<1> HIDE DEF S
<1>2. Head(s) = s[1]
  BY <1>1
<1>3. Tail(s) \in Seq(S) /\ Len(Tail(s)) = Len(s) - 1
  BY <1>1
<1>4. \A i \in 1 .. Len(s) - 1 : Tail(s)[i] = s[i + 1]
  BY <1>1
<1> QED BY <1>2, <1>3, <1>4, SeqIs

\* A sequence given element by element.
LEMMA SeqMade ==
  ASSUME NEW n \in Nat, NEW f, DOMAIN f = 1 .. n, f = [i \in 1 .. n |-> f[i]]
  PROVE  IsSeq(f) /\ Len(f) = n
<1> DEFINE V == {f[i] : i \in DOMAIN f}
<1>1. \A i \in 1 .. n : f[i] \in V
  OBVIOUS
<1> HIDE DEF V
<1>2. f \in [1 .. n -> V]
  BY <1>1
<1>3. f \in Seq(V) /\ Len(f) = n
  BY <1>2
<1> QED BY <1>3, SeqIs

\* What is kept of a sequence is one.
LEMMA KeepIsSeq ==
  ASSUME NEW s, IsSeq(s), NEW T
  PROVE  IsSeq(Keep(s, T)) /\ Len(Keep(s, T)) \in Nat
<1> DEFINE at == Sift([i \in 1 .. Len(s) |-> i], T)
           f == [k \in 1 .. Len(at) |-> s[at[k]]]
<1>1. at \in Seq((1 .. Len(s)) \cap T)
  BY SeqHas, SiftPositions
<1> HIDE DEF at
<1>2. Len(at) \in Nat
  BY <1>1
<1>3. IsSeq(f) /\ Len(f) = Len(at)
  <2>1. DOMAIN f = 1 .. Len(at) /\ f = [k \in 1 .. Len(at) |-> f[k]]
    OBVIOUS
  <2> HIDE DEF f
  <2> QED BY <1>2, <2>1, SeqMade
<1> QED BY <1>2, <1>3 DEF Keep, at

\* Without its first place it is the rest.
LEMMA KeepRest ==
  ASSUME NEW s, IsSeq(s), s # <<>>
  PROVE  /\ Len(Keep(s, 2 .. Len(s))) = Len(s) - 1
         /\ \A k \in 1 .. Len(s) - 1 : Keep(s, 2 .. Len(s))[k] = s[k + 1]
<1> DEFINE L == Len(s)
           U == 2 .. Len(s)
           at == Sift([k \in 1 .. L |-> k], U)
<1>1. L \in Nat /\ L >= 1
  BY SeqHas
<1>2. /\ at \in Seq((1 .. L) \cap U)
      /\ \A a, b \in DOMAIN at : a < b => at[a] < at[b]
  BY <1>1, SiftPositions
<1>3. (1 .. L) \cap U \subseteq {at[a] : a \in DOMAIN at}
  BY <1>1, SiftKeepsAll
<1> DEFINE n == Len(at)
<1>4. n \in Nat /\ DOMAIN at = 1 .. n /\ \A a \in 1 .. n : at[a] \in 2 .. L
  <2> HIDE DEF at, L
  <2>1. n \in Nat /\ DOMAIN at = 1 .. n /\ \A a \in 1 .. n : at[a] \in (1 .. L) \cap U
    BY <1>2
  <2> QED BY <2>1 DEF L
<1>5. \A m \in 2 .. L : \E a \in 1 .. n : at[a] = m
  <2> HIDE DEF at, n
  <2> QED BY <1>1, <1>3, <1>4
<1> HIDE DEF at, L, n
<1> DEFINE P == {k \in 0 .. L - 1 : k <= n /\ (k # 0 => at[k] = k + 1)}
<1>6. 0 \in P
  BY <1>1, <1>4
<1>7. ASSUME NEW k \in 1 .. L - 1, k - 1 \in P PROVE k \in P
  <2>1. PICK a \in 1 .. n : at[a] = k + 1
    BY <1>1, <1>5
  <2>2. a >= k
    <3>1. SUFFICES ASSUME a < k PROVE FALSE
      BY <1>4
    <3>2. k - 1 \in 1 .. n /\ at[k - 1] = k /\ a <= k - 1
      BY <1>4, <1>7, <3>1
    <3>3. at[a] <= at[k - 1]
      <4>1. a \in DOMAIN at /\ k - 1 \in DOMAIN at /\ (a = k - 1 \/ a < k - 1)
        BY <1>4, <3>2
      <4>2. a < k - 1 => at[a] < at[k - 1]
        BY <1>2, <4>1
      <4>3. at[a] \in 2 .. L /\ at[k - 1] \in 2 .. L
        BY <1>4, <3>2
      <4> QED BY <4>1, <4>2, <4>3
    <3> QED BY <1>4, <2>1, <3>2, <3>3
  <2>3. k \in 1 .. n /\ at[k] <= k + 1
    <3>1. k \in 1 .. n
      BY <1>1, <1>4, <2>2
    <3>2. CASE k = a
      BY <1>1, <2>1, <3>1, <3>2
    <3>3. CASE k < a
      <4>1. at[k] < at[a]
        BY <1>2, <1>4, <3>1, <3>3
      <4> QED BY <1>4, <2>1, <3>1, <4>1
    <3> QED BY <1>4, <2>2, <3>1, <3>2, <3>3
  <2>4. at[k] >= k + 1
    <3>1. CASE k = 1
      BY <1>4, <2>3, <3>1
    <3>2. CASE k # 1
      <4>1. k - 1 \in 1 .. n /\ at[k - 1] = k
        BY <1>4, <1>7, <3>2
      <4>2. at[k - 1] < at[k]
        <5>1. k \in DOMAIN at /\ k - 1 \in DOMAIN at /\ k - 1 < k
          BY <1>4, <2>3, <4>1
        <5> QED BY <1>2, <5>1
      <4> QED BY <1>4, <2>3, <4>1, <4>2
    <3> QED BY <3>1, <3>2
  <2>5. at[k] \in Nat
    BY <1>4, <2>3
  <2> QED BY <1>1, <2>3, <2>4, <2>5
<1>8. \A k \in 0 .. L - 1 : k \in P
  <2>1. L - 1 \in Nat /\ \A k \in 1 .. L - 1 : k - 1 \in P => k \in P
    BY <1>1, <1>7
  <2> HIDE DEF P
  <2> QED BY <1>6, <2>1, Climb
<1>9. \A k \in 1 .. L - 1 : k <= n /\ at[k] = k + 1
  BY <1>8
<1>10. n = L - 1
  <2>1. L - 1 <= n
    <3>1. L - 1 \in P
      BY <1>1, <1>8
    <3> QED BY <3>1
  <2>2. n <= L - 1
    <3>1. SUFFICES ASSUME n > L - 1 PROVE FALSE
      BY <1>1, <1>4
    <3>2. L \in 1 .. n /\ at[L] \in 2 .. L
      BY <1>1, <1>4, <3>1
    <3>3. CASE L = 1
      BY <3>2, <3>3
    <3>4. CASE L # 1
      <4>1. L - 1 \in 1 .. L - 1 /\ L - 1 \in 1 .. n /\ L - 1 < L
        BY <1>1, <1>4, <3>2, <3>4
      <4>3. at[L - 1] < at[L]
        BY <1>2, <1>4, <3>2, <4>1
      <4>4. at[L - 1] = L - 1 + 1
        BY <1>9, <4>1
      <4>2. at[L - 1] = L /\ at[L - 1] < at[L]
        BY <1>1, <4>3, <4>4
      <4> QED BY <1>1, <3>2, <4>2
    <3> QED BY <3>3, <3>4
  <2> QED BY <1>1, <1>4, <2>1, <2>2
<1> DEFINE f == [k \in 1 .. n |-> s[at[k]]]
<1>11. Keep(s, U) = f
  BY DEF Keep, at, n, L
<1>12. Len(f) = n
  <2>1. DOMAIN f = 1 .. n /\ f = [k \in 1 .. n |-> f[k]]
    OBVIOUS
  <2> HIDE DEF f
  <2> QED BY <1>4, <2>1, SeqMade
<1>13. \A k \in 1 .. L - 1 : f[k] = s[k + 1]
  BY <1>9, <1>10
<1> HIDE DEF f
<1> QED BY <1>10, <1>11, <1>12, <1>13 DEF L

-----------------------------------------------------------------------------
(* What the invariant says of requests, ids and records *)

\* The messages are sequences, with sequences of calls.
LEMMA MessagesAre ==
  ASSUME TurnShape
  PROVE  /\ Len(turn.messages) \in Nat \ {0} /\ DOMAIN turn.messages = 1 .. Len(turn.messages)
         /\ \A i \in DOMAIN turn.messages :
               /\ Len(turn.messages[i].calls) \in Nat
               /\ DOMAIN turn.messages[i].calls = 1 .. Len(turn.messages[i].calls)
               /\ turn.messages[i].calls = <<>> <=> Len(turn.messages[i].calls) = 0
<1>1. /\ Len(turn.messages) \in Nat \ {0} /\ DOMAIN turn.messages = 1 .. Len(turn.messages)
  BY SeqHas DEF TurnShape
<1>2. ASSUME NEW i \in DOMAIN turn.messages
      PROVE  /\ Len(turn.messages[i].calls) \in Nat
             /\ DOMAIN turn.messages[i].calls = 1 .. Len(turn.messages[i].calls)
             /\ turn.messages[i].calls = <<>> <=> Len(turn.messages[i].calls) = 0
  <2>1. IsSeq(turn.messages[i].calls)
    BY DEF TurnShape
  <2> QED BY <2>1, SeqHas
<1> QED BY <1>1, <1>2

\* The provider is sent the messages, place by place.
LEMMA RequestIs ==
  ASSUME TurnShape
  PROVE  /\ DOMAIN Request = DOMAIN turn.messages
         /\ \A i \in DOMAIN turn.messages : /\ Request[i].calls = turn.messages[i].calls
                                            /\ Request[i].id = turn.messages[i].id
<1> DEFINE m == turn.messages
           x == <<system>> \o m
           kept == Keep(x, 2 .. Len(x))
           f == [i \in 1 .. Len(kept) |->
                    [role |-> IF kept[i].role = "tool" THEN "user" ELSE kept[i].role,
                     text |-> kept[i].text, calls |-> kept[i].calls, id |-> kept[i].id]]
<1>1. IsSeq(m) /\ Len(m) \in Nat \ {0} /\ DOMAIN m = 1 .. Len(m) /\ \A i \in DOMAIN m : m[i].role # "system"
  BY MessagesAre DEF TurnShape
<1>2. IsSeq(<<system>>) /\ Len(<<system>>) = 1 /\ <<system>>[1] = system
  <2>1. <<system>> \in Seq({system})
    OBVIOUS
  <2> QED BY <2>1, SeqIs
<1> HIDE DEF m
<1>3. /\ IsSeq(x) /\ Len(x) = Len(m) + 1 /\ x[1] = system
      /\ \A i \in 1 .. Len(m) : x[i + 1] = m[i]
  <2>1. IsSeq(x) /\ Len(x) = 1 + Len(m)
    BY <1>1, <1>2, SeqJoins
  <2>2. x[1] = <<system>>[1]
    BY <1>1, <1>2, SeqJoins
  <2>3. \A i \in 1 .. Len(m) : x[1 + i] = m[i]
    BY <1>1, <1>2, SeqJoins
  <2> HIDE DEF x
  <2> QED BY <1>1, <1>2, <2>1, <2>2, <2>3
<1> HIDE DEF x
<1>4. {i \in 1 .. Len(x) : x[i].role # "system"} = 2 .. Len(x)
  <2>1. x[1].role = "system"
    BY <1>3 DEF system
  <2>2. ASSUME NEW i \in 2 .. Len(x) PROVE x[i].role # "system"
    <3>1. i - 1 \in 1 .. Len(m) /\ x[i - 1 + 1] = m[i - 1] /\ i - 1 + 1 = i
      BY <1>1, <1>3
    <3> QED BY <1>1, <3>1
  <2>3. \A i \in 1 .. Len(x) : i = 1 \/ i \in 2 .. Len(x)
    BY <1>1, <1>3
  <2>4. 2 .. Len(x) \subseteq 1 .. Len(x) /\ 1 \notin 2 .. Len(x)
    BY <1>1, <1>3
  <2> QED BY <2>1, <2>2, <2>3, <2>4
<1>5. convert_messages(x) = f
  BY <1>4 DEF convert_messages
<1>6. Len(kept) = Len(m) /\ \A k \in 1 .. Len(m) : kept[k] = m[k]
  <2>1. x # <<>>
    BY <1>1, <1>3, SeqHas
  <2>2. Len(kept) = Len(x) - 1 /\ \A k \in 1 .. Len(x) - 1 : kept[k] = x[k + 1]
    BY <1>3, <2>1, KeepRest
  <2> HIDE DEF kept
  <2> QED BY <1>1, <1>3, <2>2
<1> HIDE DEF kept
<1>7. DOMAIN f = 1 .. Len(m) /\ \A i \in 1 .. Len(m) : f[i].calls = m[i].calls /\ f[i].id = m[i].id
  BY <1>6
<1> HIDE DEF f
<1>8. f # <<>>
  BY <1>1, <1>7
<1>9. Request = f
  BY <1>5, <1>8 DEF Request, build_rig_request, x, m
<1> QED BY <1>1, <1>7, <1>9 DEF m

\* A call that is to be answered is at a place that counts the calls so far.
LEMMA GivenCount ==
  ASSUME TurnShape, SkipsAreTails, NEW i \in DOMAIN turn.messages, NEW j \in Given(i)
  PROVE  Cardinality({k \in Given(i) : k <= j}) = j
<1>1. j \in Nat \ {0} /\ Given(i) \subseteq Nat \ {0} /\ 1 .. j \subseteq Given(i)
  BY MessagesAre DEF Given, SkipsAreTails
<1>2. {k \in Given(i) : k <= j} = 1 .. j
  BY <1>1
<1>3. 1 \in Int /\ j \in Int /\ 1 <= j
  BY <1>1
<1>4. Cardinality(1 .. j) = j
  <2>1. Cardinality(1 .. j) = IF 1 > j THEN 0 ELSE j - 1 + 1
    BY <1>3, FS_Interval
  <2> QED BY <1>3, <2>1
<1> QED BY <1>2, <1>4

\* When the model is asked, calls and results match.
LEMMA CallsAreAnswered ==
  ASSUME TurnInv
  PROVE  UnansweredHasACause
<1> DEFINE h == Request
           Asked(i) == {j \in DOMAIN h[i].calls : <<i, j>> \notin turn.skipped}
           Place(i, j) == i + Cardinality({k \in Asked(i) : k <= j})
           M == turn.messages
<1>1. SUFFICES ASSUME turn.phase = "ask"
               PROVE  /\ \A i \in DOMAIN h : \A j \in Asked(i) :
                            Place(i, j) \in DOMAIN h /\ h[Place(i, j)].id = h[i].calls[j].id
                      /\ \A p \in DOMAIN h : h[p].id # Absent =>
                            \E i \in DOMAIN h : \E j \in Asked(i) : p = Place(i, j)
  BY Zenon DEF UnansweredHasACause
<1>2. DOMAIN h = DOMAIN M /\ \A i \in DOMAIN M : h[i].calls = M[i].calls /\ h[i].id = M[i].id
  BY RequestIs DEF TurnInv
<1>3. \A i \in DOMAIN h : Asked(i) = Given(i)
  BY <1>2 DEF Given
<1>4. \A i \in DOMAIN h : \A j \in Asked(i) : Place(i, j) = i + j
  <2>1. SUFFICES ASSUME NEW i \in DOMAIN h, NEW j \in Asked(i) PROVE Cardinality({k \in Asked(i) : k <= j}) = j
    OBVIOUS
  <2>2. i \in DOMAIN turn.messages /\ j \in Given(i) /\ Asked(i) = Given(i)
    BY <1>2, <1>3, <2>1
  <2> QED BY <2>2, GivenCount DEF TurnInv
<1>5. \A i \in DOMAIN M : \A j \in Given(i) : i + j \in DOMAIN M /\ M[i + j].id = M[i].calls[j].id
  BY <1>1 DEF TurnInv, WhileAsking, Ended, ResultsFollow
<1>6. \A p \in DOMAIN M : M[p].id # Absent => \E i \in DOMAIN M : \E j \in Given(i) : p = i + j
  BY DEF TurnInv, ResultsFollow
<1> HIDE DEF h, Asked, Place, M
<1>7. \A i \in DOMAIN h : \A j \in Asked(i) :
         Place(i, j) \in DOMAIN h /\ h[Place(i, j)].id = h[i].calls[j].id
  BY <1>2, <1>3, <1>4, <1>5
<1>8. \A p \in DOMAIN h : h[p].id # Absent =>
         \E i \in DOMAIN h : \E j \in Asked(i) : p = Place(i, j)
  BY <1>2, <1>3, <1>4, <1>6
<1> QED BY <1>7, <1>8

\* Only recovered calls of different replies share an id.
LEMMA IdsAreApart ==
  ASSUME TurnInv
  PROVE  DuplicateIdHasACause
<1> DEFINE M == turn.messages
           Apart(i, a, j, b) == <<i, a>> # <<j, b>> /\ M[i].calls[a].id = M[j].calls[b].id
                                => i # j /\ M[i].calls[a].id[1] = "recovered"
<1> SUFFICES ASSUME NEW i \in 1 .. Len(M), NEW j \in 1 .. Len(M),
                    NEW a \in 1 .. Len(M[i].calls), NEW b \in 1 .. Len(M[j].calls)
             PROVE  Apart(i, a, j, b)
  BY Zenon DEF DuplicateIdHasACause
<1> SUFFICES ASSUME <<i, a>> # <<j, b>>, M[i].calls[a].id = M[j].calls[b].id
             PROVE  i # j /\ M[i].calls[a].id[1] = "recovered"
  OBVIOUS
<1>1. /\ i \in DOMAIN M /\ a \in DOMAIN M[i].calls /\ j \in DOMAIN M /\ b \in DOMAIN M[j].calls
      /\ i \in Nat /\ j \in Nat /\ a \in Nat /\ b \in Nat
  BY MessagesAre DEF TurnInv
<1> DEFINE x == M[i].calls[a].id
<1>2. /\ x \in {<<"provider", i - 1, a>>, <<"recovered", 0, a - 1>>}
      /\ x \in {<<"provider", j - 1, b>>, <<"recovered", 0, b - 1>>}
  BY <1>1 DEF TurnInv, IdsTell
<1> HIDE DEF x
<1>3. CASE x = <<"provider", i - 1, a>>
  <2>1. x = <<"provider", j - 1, b>>
    BY <1>2, <1>3
  <2>2. i - 1 = j - 1 /\ a = b
    BY <1>3, <2>1
  <2> QED BY <1>1, <2>2
<1>4. CASE x = <<"recovered", 0, a - 1>>
  <2>1. x[1] = "recovered" /\ x = <<"recovered", 0, b - 1>>
    BY <1>2, <1>4
  <2>2. a - 1 = b - 1
    BY <1>4, <2>1
  <2>3. a = b
    BY <1>1, <2>2
  <2> QED BY <2>1, <2>3 DEF x
<1> QED BY <1>2, <1>3, <1>4

\* Calls, results and records match.
LEMMA InvMatches ==
  ASSUME TurnInv
  PROVE  ResultsMatchCalls
<1>1. OutcomeOnItsCall
  <2>1. SUFFICES ASSUME turn.phase \in {"ask", "done"}, NEW k \in 1 .. Len(turn.calls)
                 PROVE  LET c == turn.calls[k] IN
                        c.batch = 1 => {c.result, c.error} \subseteq {c.id, Absent}
                                       /\ {c.result, c.error} # {Absent}
    BY DEF OutcomeOnItsCall
  <2>2. k \in DOMAIN turn.calls
    BY SeqHas DEF TurnInv, TurnShape
  <2>3. OwnOutcome(turn.calls[k])
    BY <2>1, <2>2 DEF TurnInv, RecordsTell
  <2> QED BY <2>3 DEF OwnOutcome
<1> QED BY <1>1, CallsAreAnswered, IdsAreApart DEF ResultsMatchCalls

-----------------------------------------------------------------------------
(* What steps keep *)

\* When the conversation grows, what is to be answered stays, and comes from new messages.
LEMMA GrownMessages ==
  ASSUME TurnShape, turn'.skipped = turn.skipped, IsSeq(turn'.messages),
         Len(turn'.messages) >= Len(turn.messages),
         \A i \in DOMAIN turn.messages : turn'.messages[i] = turn.messages[i]
  PROVE  /\ DOMAIN turn'.messages = 1 .. Len(turn'.messages) /\ Len(turn'.messages) \in Nat
         /\ DOMAIN turn.messages \subseteq DOMAIN turn'.messages
         /\ \A i \in DOMAIN turn.messages : Given(i)' = Given(i)
         /\ \A i \in DOMAIN turn'.messages \ DOMAIN turn.messages :
               Given(i)' = DOMAIN turn'.messages[i].calls
<1>1. DOMAIN turn'.messages = 1 .. Len(turn'.messages) /\ Len(turn'.messages) \in Nat
  BY SeqHas
<1>2. DOMAIN turn.messages = 1 .. Len(turn.messages) /\ Len(turn.messages) \in Nat
  BY MessagesAre
<1>3. DOMAIN turn.messages \subseteq DOMAIN turn'.messages
  BY <1>1, <1>2
<1>4. \A i \in DOMAIN turn.messages : Given(i)' = Given(i)
  BY DEF Given
<1>5. ASSUME NEW i \in DOMAIN turn'.messages \ DOMAIN turn.messages
      PROVE  Given(i)' = DOMAIN turn'.messages[i].calls
  <2>1. \A j : <<i, j>> \notin turn.skipped
    BY DEF TurnShape
  <2> QED BY <2>1 DEF Given
<1> QED BY <1>1, <1>3, <1>4, <1>5

\* What is said of messages stays with them.
LEMMA SameMessages ==
  ASSUME IdsTell, SkipsAreTails, ResultsFollow,
         turn'.messages = turn.messages, turn'.skipped = turn.skipped
  PROVE  IdsTell' /\ SkipsAreTails' /\ ResultsFollow'
<1>1. \A i : Given(i)' = Given(i)
  BY DEF Given
<1>2. IdsTell'
  BY DEF IdsTell
<1>3. SkipsAreTails'
  BY <1>1 DEF SkipsAreTails
<1>4. ResultsFollow'
  BY <1>1 DEF ResultsFollow
<1> QED BY <1>2, <1>3, <1>4

\* Messages that are no results may follow when every call has its result.
LEMMA MoreIsSaid ==
  ASSUME TurnShape, IdsTell, SkipsAreTails, ResultsFollow,
         \A i \in DOMAIN turn.messages : Ended(i),
         turn'.skipped = turn.skipped, IsSeq(turn'.messages),
         Len(turn'.messages) >= Len(turn.messages),
         \A i \in DOMAIN turn.messages : turn'.messages[i] = turn.messages[i],
         \A i \in DOMAIN turn'.messages \ DOMAIN turn.messages :
            /\ turn'.messages[i].id = Absent /\ IsSeq(turn'.messages[i].calls)
            /\ turn'.messages[i].calls # <<>> => i = Len(turn'.messages)
            /\ \A j \in DOMAIN turn'.messages[i].calls :
                  turn'.messages[i].calls[j].id \in {<<"provider", i - 1, j>>, <<"recovered", 0, j - 1>>}
  PROVE  /\ IdsTell' /\ SkipsAreTails' /\ ResultsFollow'
         /\ \A i \in DOMAIN turn.messages : Ended(i)'
<1> DEFINE M == turn.messages
           N == turn'.messages
<1>1. /\ DOMAIN N = 1 .. Len(N) /\ Len(N) \in Nat /\ DOMAIN M \subseteq DOMAIN N
      /\ \A i \in DOMAIN M : Given(i)' = Given(i)
      /\ \A i \in DOMAIN N \ DOMAIN M : Given(i)' = DOMAIN N[i].calls
  BY GrownMessages
<1>2. \A i \in DOMAIN N \ DOMAIN M :
         /\ DOMAIN N[i].calls = 1 .. Len(N[i].calls) /\ Len(N[i].calls) \in Nat
         /\ N[i].calls = <<>> <=> Len(N[i].calls) = 0
  BY SeqHas
<1>3. IdsTell'
  BY <1>1 DEF IdsTell
<1>4. SkipsAreTails'
  <2>1. ASSUME NEW i \in DOMAIN N, NEW j \in Given(i)' PROVE 1 .. j \subseteq Given(i)'
    <3>1. CASE i \in DOMAIN M
      BY <1>1, <3>1 DEF SkipsAreTails
    <3>2. CASE i \notin DOMAIN M
      BY <1>1, <1>2, <3>2
    <3> QED BY <3>1, <3>2
  <2> QED BY <2>1 DEF SkipsAreTails
<1>5. \A i \in DOMAIN M : \A j \in Given(i) : i + j \in DOMAIN M
  BY DEF Ended
<1>6. \A i \in DOMAIN M : Ended(i)'
  BY <1>1, <1>5 DEF Ended
<1>7. ASSUME NEW i \in DOMAIN N, NEW j \in Given(i)', i + j \in DOMAIN N
      PROVE  N[i + j].id = N[i].calls[j].id
  <2>1. CASE i \in DOMAIN M
    <3>1. j \in Given(i) /\ i + j \in DOMAIN M
      BY <1>1, <1>5, <2>1
    <3>2. M[i + j].id = M[i].calls[j].id
      BY <2>1, <3>1 DEF ResultsFollow
    <3> QED BY <2>1, <3>1, <3>2
  <2>2. CASE i \notin DOMAIN M
    <3>1. j \in Nat \ {0} /\ i = Len(N)
      BY <1>1, <1>2, <2>2
    <3> QED BY <1>1, <1>7, <3>1
  <2> QED BY <2>1, <2>2
<1>8. ASSUME NEW p \in DOMAIN N, N[p].id # Absent
      PROVE  \E i \in DOMAIN N : \E j \in Given(i)' : p = i + j
  <2>1. p \in DOMAIN M /\ M[p].id # Absent
    BY <1>8
  <2>2. PICK i \in DOMAIN M : \E j \in Given(i) : p = i + j
    BY <2>1 DEF ResultsFollow
  <2> QED BY <1>1, <2>2
<1>9. ResultsFollow'
  BY <1>7, <1>8 DEF ResultsFollow
<1> QED BY <1>3, <1>4, <1>6, <1>9

\* The next result follows the calls that are being run.
LEMMA NextResult ==
  ASSUME TurnShape, IdsTell, SkipsAreTails, ResultsFollow,
         NEW i, Running(i), NEW next \in Given(i), next = Len(turn.messages) - i + 1,
         turn'.skipped = turn.skipped,
         turn'.messages = Append(turn.messages, tool_result(turn.messages[i].calls[next].id))
  PROVE  /\ IdsTell' /\ SkipsAreTails' /\ ResultsFollow'
         /\ IsSeq(turn'.messages) /\ Len(turn'.messages) = Len(turn.messages) + 1
         /\ DOMAIN turn'.messages = DOMAIN turn.messages \cup {Len(turn.messages) + 1}
         /\ \A k \in DOMAIN turn.messages : turn'.messages[k] = turn.messages[k] /\ Given(k)' = Given(k)
         /\ turn'.messages[Len(turn.messages) + 1].calls = <<>>
         /\ turn'.messages[Len(turn.messages) + 1].role = "tool"
         /\ \A k \in DOMAIN turn'.messages \ {i} : Ended(k)'
<1> DEFINE M == turn.messages
           N == turn'.messages
           L == Len(M)
           r == tool_result(M[i].calls[next].id)
<1>0. r.role = "tool" /\ r.calls = <<>> /\ r.id = M[i].calls[next].id
  BY DEF tool_result
<1> HIDE DEF r
<1>1. /\ L \in Nat \ {0} /\ DOMAIN M = 1 .. L /\ IsSeq(M) /\ i \in DOMAIN M
  BY MessagesAre DEF TurnShape, Running
<1>2. /\ IsSeq(N) /\ Len(N) = L + 1 /\ DOMAIN N = 1 .. L + 1
      /\ N[L + 1] = r /\ \A k \in DOMAIN M : N[k] = M[k]
  <2>1. N = Append(M, r)
    BY DEF r
  <2> HIDE DEF M, N
  <2> QED BY <1>1, <2>1, SeqGrows
<1>3. DOMAIN N = DOMAIN M \cup {L + 1} /\ L + 1 \notin DOMAIN M
  <2>1. 1 .. L + 1 = 1 .. L \cup {L + 1} /\ L + 1 \notin 1 .. L
    <3>1. L \in Nat
      BY <1>1
    <3> HIDE DEF L
    <3> QED BY <3>1
  <2> QED BY <1>1, <1>2, <2>1
<1>4. \A k \in DOMAIN M : Given(k)' = Given(k)
  BY <1>2 DEF Given
<1>5. \A k \in DOMAIN N \ DOMAIN M : Given(k)' = {}
  <2>1. \A k : Given(k)' \subseteq DOMAIN N[k].calls
    BY DEF Given
  <2>2. \A k \in DOMAIN N \ DOMAIN M : DOMAIN N[k].calls = {}
    <3>1. \A k \in DOMAIN N \ DOMAIN M : N[k] = r
      BY <1>2, <1>3
    <3>2. DOMAIN <<>> = {}
      OBVIOUS
    <3> QED BY <1>0, <3>1, <3>2
  <2> QED BY <2>1, <2>2
<1>6. IdsTell'
  <2>1. ASSUME NEW k \in DOMAIN N, NEW j \in DOMAIN N[k].calls
        PROVE  N[k].calls[j].id \in {<<"provider", k - 1, j>>, <<"recovered", 0, j - 1>>}
    <3>1. SUFFICES ASSUME k \notin DOMAIN M PROVE FALSE
      BY <1>2 DEF IdsTell
    <3>2. k = L + 1 /\ DOMAIN <<>> = {}
      BY <1>3, <3>1
    <3>3. N[k].calls = <<>>
      BY <1>0, <1>2, <3>2
    <3> QED BY <3>2, <3>3
  <2> QED BY <2>1 DEF IdsTell
<1>7. SkipsAreTails'
  BY <1>3, <1>4, <1>5 DEF SkipsAreTails
<1>8. \A k \in DOMAIN M \ {i} : \A j \in Given(k) : k + j \in DOMAIN M
  BY DEF Running, Ended
<1>9. \A k \in DOMAIN N \ {i} : Ended(k)'
  BY <1>3, <1>4, <1>5, <1>8 DEF Ended
<1>10. ASSUME NEW k \in DOMAIN N, NEW j \in Given(k)', k + j \in DOMAIN N
       PROVE  N[k + j].id = N[k].calls[j].id
  <2>1. k \in DOMAIN M /\ j \in Given(k)
    BY <1>3, <1>4, <1>5
  <2>2. CASE k + j \in DOMAIN M
    <3>1. M[k + j].id = M[k].calls[j].id
      BY <2>1, <2>2 DEF ResultsFollow
    <3> QED BY <1>2, <2>1, <2>2, <3>1
  <2>3. CASE k + j \notin DOMAIN M
    <3>1. k = i /\ k + j = L + 1
      BY <1>3, <1>8, <1>10, <2>1, <2>3
    <3>2. j \in DOMAIN M[k].calls
      BY <2>1 DEF Given
    <3>3. j \in Nat
      BY <2>1, <3>2, MessagesAre
    <3>4. j = next
      BY <1>1, <3>1, <3>3
    <3> QED BY <1>0, <1>2, <2>1, <3>1, <3>4
  <2> QED BY <2>2, <2>3
<1>11. ASSUME NEW p \in DOMAIN N, N[p].id # Absent
       PROVE  \E k \in DOMAIN N : \E j \in Given(k)' : p = k + j
  <2>1. CASE p \in DOMAIN M
    <3>1. PICK k \in DOMAIN M : \E j \in Given(k) : p = k + j
      BY <1>2, <1>11, <2>1 DEF ResultsFollow
    <3> QED BY <1>3, <1>4, <3>1
  <2>2. CASE p = L + 1
    <3>1. p = i + next
      BY <1>1, <2>2
    <3> QED BY <1>1, <1>3, <1>4, <3>1
  <2> QED BY <1>3, <2>1, <2>2
<1>12. ResultsFollow'
  BY <1>10, <1>11 DEF ResultsFollow
<1> QED BY <1>0, <1>2, <1>3, <1>4, <1>6, <1>7, <1>9, <1>12

\* The outcome of a call that came alone is recorded for it.
LEMMA OutcomeIsOwn ==
  ASSUME TurnShape, NEW call, NEW n, RecordWaits(call, n), call.id # Absent,
         \A k \in DOMAIN turn.calls : k < Len(turn.calls) => OwnOutcome(turn.calls[k]),
         NEW ok, turn'.calls = RecordOutcome(turn.calls, call.id, ok)
  PROVE  /\ IsSeq(turn'.calls) /\ DOMAIN turn'.calls = DOMAIN turn.calls
         /\ turn'.calls # <<>> /\ turn'.calls[Len(turn'.calls)].batch = n
         /\ \A k \in DOMAIN turn'.calls :
               /\ OwnOutcome(turn'.calls[k])
               /\ DOMAIN turn'.calls[k] = {"id", "batch", "result", "error"}
<1> DEFINE C == turn.calls
           L == Len(C)
           c == C[L]
           d == IF ok THEN [c EXCEPT !.result = call.id] ELSE [c EXCEPT !.error = call.id]
           E == [C EXCEPT ![L] = d]
<1>1. L \in Nat \ {0} /\ DOMAIN C = 1 .. L /\ C # <<>> /\ IsSeq(C) /\ L \in DOMAIN C
  BY SeqHas DEF TurnShape, RecordWaits
<1>2. turn'.calls = E
  BY <1>1 DEF RecordOutcome, record_tool_result, record_tool_error
<1>3. DOMAIN c = {"id", "batch", "result", "error"}
  BY <1>1 DEF TurnShape
<1>4. c.batch = n /\ (n = 1 => c.id = call.id /\ c.result = Absent /\ c.error = Absent)
  BY DEF RecordWaits
<1>5. DOMAIN d = {"id", "batch", "result", "error"} /\ OwnOutcome(d) /\ d.batch = n
  <2> HIDE DEF c
  <2> QED BY <1>3, <1>4 DEF OwnOutcome
<1>6. DOMAIN E = DOMAIN C /\ E[L] = d /\ \A k \in DOMAIN C : k # L => E[k] = C[k]
  <2> HIDE DEF d, L, C
  <2> QED BY <1>1
<1>7. IsSeq(E) /\ Len(E) = L
  <2>1. E = [k \in 1 .. L |-> E[k]]
    <3> HIDE DEF d, L, C
    <3> QED BY <1>1
  <2> HIDE DEF E, L, C
  <2> QED BY <1>1, <1>6, <2>1, SeqMade
<1>8. \A k \in DOMAIN C : OwnOutcome(E[k]) /\ DOMAIN E[k] = {"id", "batch", "result", "error"}
  <2>1. \A k \in DOMAIN C : k = L \/ k < L
    BY <1>1
  <2>2. \A k \in DOMAIN C : DOMAIN C[k] = {"id", "batch", "result", "error"}
    BY DEF TurnShape
  <2>3. \A k \in DOMAIN C : k < L => OwnOutcome(C[k])
    OBVIOUS
  <2> HIDE DEF E, d, L, C
  <2> QED BY <1>5, <1>6, <2>1, <2>2, <2>3
<1>9. E # <<>> /\ E[Len(E)].batch = n
  <2> HIDE DEF E, d, L, C
  <2> QED BY <1>1, <1>5, <1>6, <1>7
<1> QED BY <1>2, <1>6, <1>7, <1>8, <1>9

-----------------------------------------------------------------------------
(* What a reply asks for *)

\* What is kept of a sequence over a set is over that set.
LEMMA KeepType ==
  ASSUME NEW S, NEW s \in Seq(S), NEW T
  PROVE  Keep(s, T) \in Seq(S)
<1> DEFINE at == Sift([i \in 1 .. Len(s) |-> i], T)
<1>1. at \in Seq((1 .. Len(s)) \cap T)
  BY SiftPositions
<1> HIDE DEF at
<1>2. Len(at) \in Nat /\ \A k \in 1 .. Len(at) : at[k] \in 1 .. Len(s)
  BY <1>1
<1>3. \A k \in 1 .. Len(at) : s[at[k]] \in S
  BY <1>2
<1>4. [k \in 1 .. Len(at) |-> s[at[k]]] \in Seq(S)
  BY <1>2, <1>3
<1> QED BY <1>4 DEF Keep, at

\* The text of a reply is a sequence of tokens.
LEMMA TextIsSeq ==
  ASSUME NEW items \in Seq(Item)
  PROVE  TextOf(items) \in Seq(Token)
<1> DEFINE texts == Keep(items, {i \in 1 .. Len(items) : items[i].t = "text"})
           seqs == [i \in 1 .. Len(texts) |-> texts[i].toks]
<1>1. texts \in Seq(Item)
  BY KeepType
<1> HIDE DEF texts
<1>2. Len(texts) \in Nat /\ \A i \in 1 .. Len(texts) : texts[i].toks \in Seq(Token)
  <2>1. Len(texts) \in Nat /\ \A i \in 1 .. Len(texts) : texts[i] \in Item
    BY <1>1
  <2> QED BY <2>1 DEF Item
<1>3. seqs \in Seq(Seq(Token))
  <2> HIDE DEF Token
  <2> QED BY <1>2
<1>4. TextOf(items) = FlattenSeq(seqs)
  BY DEF TextOf, texts
<1> HIDE DEF seqs, Token
<1>5. CASE seqs = <<>>
  <2>1. FlattenSeq(seqs) = <<>>
    BY <1>5 DEF FlattenSeq
  <2> QED BY <1>4, <2>1
<1>6. CASE seqs # <<>>
  <2>1. PICK f \in [1 .. Len(seqs) -> Seq(Token)] : FlattenSeq(seqs) = f[Len(seqs)]
    BY <1>3, <1>6, FlattenSteps
  <2>2. Len(seqs) \in 1 .. Len(seqs)
    BY <1>3, <1>6
  <2> QED BY <1>4, <2>1, <2>2
<1> QED BY <1>5, <1>6

\* The blocks of one kind of tag are a sequence.
LEMMA BlocksAre ==
  ASSUME NEW s, Len(s) \in Nat, NEW ct
  PROVE  IsSeq(BlockContents(s, ct))
<1> DEFINE opens == TokensAt(s, {ct[1]}, ct[3])
           closes == TokensAt(s, {ct[2]}, ct[3])
           Begins(c) == {o \in opens : o < c /\ closes \cap o .. c - 1 = {}}
           at == [i \in 1 .. Len(s) |-> i]
           ends == Keep(at, {c \in closes : Begins(c) # {}})
           f == [k \in 1 .. Len(ends) |-> Trim(SubSeq(s, Min(Begins(ends[k])) + 1, ends[k] - 1))]
<1>1. IsSeq(at)
  <2>1. DOMAIN at = 1 .. Len(s) /\ at = [k \in 1 .. Len(s) |-> at[k]]
    OBVIOUS
  <2> HIDE DEF at
  <2> QED BY <2>1, SeqMade
<1>2. Len(ends) \in Nat
  <2> HIDE DEF at
  <2> QED BY <1>1, KeepIsSeq
<1>3. BlockContents(s, ct) = f
  BY DEF BlockContents
<1>4. DOMAIN f = 1 .. Len(ends) /\ f = [k \in 1 .. Len(ends) |-> f[k]]
  <2> HIDE DEF ends, Begins
  <2> QED OBVIOUS
<1> HIDE DEF f, ends
<1> QED BY <1>2, <1>3, <1>4, SeqMade

\* Recovered calls are numbered from zero.
LEMMA RecoveredCalls ==
  ASSUME NEW s, Len(s) \in Nat
  PROVE  LET calls == recover_tool_calls_from_content(s) IN
         IsSeq(calls) /\ \A j \in DOMAIN calls : calls[j].id = <<"recovered", 0, j - 1>>
<1> DEFINE B(n) == BlockContents(s, CallTags[n])
           inner == B(1) \o B(2) \o B(3) \o B(4)
           named == Keep(inner, {i \in 1 .. Len(inner) :
                                    Len(inner[i]) = 1 /\ inner[i][1].k = "word"
                                                     /\ inner[i][1].v \in Tools})
           f == [i \in 1 .. Len(named) |-> [id |-> RecoveredId(i - 1), name |-> named[i][1].v]]
<1>1. IsSeq(B(1)) /\ IsSeq(B(2)) /\ IsSeq(B(3)) /\ IsSeq(B(4))
  BY BlocksAre
<1>2. IsSeq(inner)
  <2> HIDE DEF B
  <2>1. IsSeq(B(1) \o B(2))
    BY <1>1, SeqJoins
  <2>2. IsSeq(B(1) \o B(2) \o B(3))
    BY <1>1, <2>1, SeqJoins
  <2> QED BY <1>1, <2>2, SeqJoins
<1>3. Len(named) \in Nat
  <2> HIDE DEF inner
  <2> QED BY <1>2, KeepIsSeq
<1>4. recover_tool_calls_from_content(s) = f
  BY DEF recover_tool_calls_from_content
<1>5. /\ DOMAIN f = 1 .. Len(named) /\ f = [k \in 1 .. Len(named) |-> f[k]]
      /\ \A j \in 1 .. Len(named) : f[j].id = <<"recovered", 0, j - 1>>
  <2> HIDE DEF named
  <2> QED BY DEF RecoveredId
<1> HIDE DEF f, named
<1> QED BY <1>3, <1>4, <1>5, SeqMade

\* The calls of a reply are numbered, with the reply or from zero.
LEMMA CallsOfReplies ==
  ASSUME NEW items \in Seq(Item), NEW has_tools, NEW fresh
  PROVE  LET calls == respond_with_tools(items, has_tools, fresh).calls IN
         /\ IsSeq(calls) /\ Len(calls) \in Nat /\ DOMAIN calls = 1 .. Len(calls)
         /\ (calls = <<>> <=> Len(calls) = 0)
         /\ \A j \in DOMAIN calls :
               calls[j].id \in {<<"provider", fresh, j>>, <<"recovered", 0, j - 1>>}
<1> DEFINE calls == respond_with_tools(items, has_tools, fresh).calls
           kept == Keep(items, {i \in 1 .. Len(items) : items[i].t = "call"})
           f == [i \in 1 .. Len(kept) |-> [id |-> <<"provider", fresh, i>>, name |-> kept[i].name]]
           raw == IF TextOf(items) = Absent THEN <<NotSure>> ELSE TextOf(items)
           g == recover_tool_calls_from_content(raw)
<1>1. IsSeq(f) /\ \A j \in DOMAIN f : f[j].id = <<"provider", fresh, j>>
  <2>1. kept \in Seq(Item)
    BY KeepType
  <2> HIDE DEF kept
  <2>2. Len(kept) \in Nat
    BY <2>1
  <2>3. /\ DOMAIN f = 1 .. Len(kept) /\ f = [k \in 1 .. Len(kept) |-> f[k]]
        /\ \A j \in 1 .. Len(kept) : f[j].id = <<"provider", fresh, j>>
    OBVIOUS
  <2> HIDE DEF f
  <2> QED BY <2>2, <2>3, SeqMade
<1>2. IsSeq(g) /\ \A j \in DOMAIN g : g[j].id = <<"recovered", 0, j - 1>>
  <2>1. TextOf(items) \in Seq(Token)
    BY TextIsSeq
  <2>2. Len(TextOf(items)) \in Nat
    BY <2>1, SeqIs
  <2>3. Len(<<NotSure>>) \in Nat
    OBVIOUS
  <2>4. Len(raw) \in Nat
    BY <2>2, <2>3
  <2> HIDE DEF raw
  <2> QED BY <2>4, RecoveredCalls
<1>3. IsSeq(<<>>) /\ DOMAIN <<>> = {}
  BY EmptyIs
<1>4. extract_response(items, fresh) = [text |-> TextOf(items), calls |-> f]
  BY DEF extract_response
<1>5. calls = <<>> \/ calls = f \/ calls = g
  <2> HIDE DEF f
  <2>1. extract_response(items, fresh).calls = f /\ extract_response(items, fresh).text = TextOf(items)
    BY <1>4
  <2> QED BY <2>1 DEF respond_with_tools, complete_with_tools
<1> HIDE DEF calls, f, g
<1>6. IsSeq(calls) /\ \A j \in DOMAIN calls :
         calls[j].id \in {<<"provider", fresh, j>>, <<"recovered", 0, j - 1>>}
  BY <1>1, <1>2, <1>3, <1>5
<1> QED BY <1>6, SeqHas DEF calls

-----------------------------------------------------------------------------
(* The invariant holds *)

\* The ids of calls are not empty.
LEMMA IdsArePresent ==
  ASSUME IdsTell, NEW i \in DOMAIN turn.messages, NEW j \in DOMAIN turn.messages[i].calls
  PROVE  turn.messages[i].calls[j].id # Absent
<1>1. turn.messages[i].calls[j].id \in {<<"provider", i - 1, j>>, <<"recovered", 0, j - 1>>}
  BY DEF IdsTell
<1>2. <<"provider", i - 1, j>> # <<>> /\ <<"recovered", 0, j - 1>> # <<>>
  OBVIOUS
<1> QED BY <1>1, <1>2 DEF Absent

\* A turn that asks keeps what it said of the model with every call answered.
LEMMA TurnAsks ==
  ASSUME NEW items \in Seq(Item), TurnInv, Iterate(items)
  PROVE  TurnInv'
<1> DEFINE M == turn.messages
           L == Len(M)
           out == respond_with_tools(items, turn.has_tools, L)
           calls == out.calls
           n == Len(calls)
           said == TextOf(items)
           am == assistant_with_tool_calls(out.text, calls)
           R == [i \in 1 .. n |-> NewRecord(calls[i], n)]
<1>1. /\ TurnShape /\ IdsTell /\ SkipsAreTails /\ ResultsFollow
      /\ turn.phase = "ask" /\ \A i \in DOMAIN M : Ended(i)
      /\ \A k \in DOMAIN turn.calls : OwnOutcome(turn.calls[k])
  BY DEF TurnInv, WhileAsking, RecordsTell, Iterate
<1>2. /\ DOMAIN turn = {"phase", "has_tools", "long", "iteration", "tools_executed", "messages",
                        "queue", "pending", "auto", "calls", "skipped", "said", "shown"}
      /\ IsSeq(M) /\ IsSeq(turn.queue) /\ IsSeq(turn.calls) /\ M # <<>>
      /\ \A k \in DOMAIN turn.calls : DOMAIN turn.calls[k] = {"id", "batch", "result", "error"}
      /\ \A i \in DOMAIN M : M[i].role # "system" /\ IsSeq(M[i].calls)
      /\ turn.skipped \subseteq (DOMAIN M) \X Nat
  BY <1>1 DEF TurnShape
<1>3. L \in Nat \ {0} /\ DOMAIN M = 1 .. L
  BY <1>1, MessagesAre
<1>4. /\ IsSeq(calls) /\ n \in Nat /\ DOMAIN calls = 1 .. n /\ (calls = <<>> <=> n = 0)
      /\ \A j \in DOMAIN calls : calls[j].id \in {<<"provider", L, j>>, <<"recovered", 0, j - 1>>}
  BY CallsOfReplies
<1>5. turn' = IF calls # <<>>
              THEN [turn EXCEPT !.iteration = @ + 1, !.said = said, !.shown = <<>>,
                       !.tools_executed = TRUE, !.phase = "run", !.queue = calls,
                       !.messages = Append(@, am), !.calls = @ \o R]
              ELSE IF ~turn.tools_executed /\ turn.iteration + 1 < 3 /\ turn.has_tools
              THEN [turn EXCEPT !.iteration = @ + 1, !.said = said, !.shown = <<>>,
                       !.messages = Reprompt(@, out.text)]
              ELSE [turn EXCEPT !.iteration = @ + 1, !.said = said, !.shown = out.text,
                       !.phase = "done"]
  BY DEF Iterate
<1> HIDE DEF calls, said
<1>6. CASE calls # <<>>
  <2>1. /\ DOMAIN turn' = DOMAIN turn /\ turn'.phase = "run" /\ turn'.queue = calls
        /\ turn'.messages = Append(M, am) /\ turn'.calls = turn.calls \o R
        /\ turn'.skipped = turn.skipped
    <3> HIDE DEF R, am, n, out
    <3> QED BY <1>2, <1>5, <1>6
  <2>2. am.role = "assistant" /\ am.calls = calls /\ am.id = Absent
    BY DEF assistant_with_tool_calls
  <2> HIDE DEF am
  <2>3. /\ IsSeq(turn'.messages) /\ Len(turn'.messages) = L + 1 /\ DOMAIN turn'.messages = 1 .. L + 1
        /\ turn'.messages[L + 1] = am /\ \A i \in 1 .. L : turn'.messages[i] = M[i]
    <3> HIDE DEF M
    <3> QED BY <1>2, <2>1, SeqGrows
  <2>4. DOMAIN turn'.messages \ DOMAIN M = {L + 1}
    BY <1>3, <2>3
  <2>5. /\ IdsTell' /\ SkipsAreTails' /\ ResultsFollow' /\ \A i \in DOMAIN M : Ended(i)'
    <3>1. Len(turn'.messages) >= L /\ L + 1 - 1 = L
      BY <1>3, <2>3
    <3>2. \A i \in DOMAIN turn'.messages \ DOMAIN M :
            /\ turn'.messages[i].id = Absent /\ IsSeq(turn'.messages[i].calls)
            /\ turn'.messages[i].calls # <<>> => i = Len(turn'.messages)
            /\ \A j \in DOMAIN turn'.messages[i].calls :
                  turn'.messages[i].calls[j].id \in {<<"provider", i - 1, j>>, <<"recovered", 0, j - 1>>}
      <4>1. SUFFICES ASSUME NEW i, i = L + 1
            PROVE  /\ turn'.messages[i].id = Absent /\ IsSeq(turn'.messages[i].calls)
                   /\ turn'.messages[i].calls # <<>> => i = Len(turn'.messages)
                   /\ \A j \in DOMAIN turn'.messages[i].calls :
                         turn'.messages[i].calls[j].id
                           \in {<<"provider", i - 1, j>>, <<"recovered", 0, j - 1>>}
        BY <2>4
      <4>2. turn'.messages[i].id = Absent /\ turn'.messages[i].calls = calls /\ i - 1 = L
            /\ i = Len(turn'.messages)
        BY <2>2, <2>3, <3>1, <4>1
      <4> HIDE DEF L
      <4> QED BY <1>4, <4>2
    <3> QED BY <1>1, <1>3, <2>1, <2>3, <3>1, <3>2, MoreIsSaid
  <2>6. \A i \in DOMAIN turn'.messages \ DOMAIN M : Given(i)' = DOMAIN turn'.messages[i].calls
    <3>1. Len(turn'.messages) >= L
      BY <1>3, <2>3
    <3> QED BY <1>1, <1>3, <2>1, <2>3, <3>1, GrownMessages
  <2>7. n \in Nat \ {0} /\ IsSeq(R) /\ Len(R) = n /\ DOMAIN R = 1 .. n
        /\ \A k \in 1 .. n : /\ R[k].batch = n /\ R[k].id = calls[k].id
                             /\ R[k].result = Absent /\ R[k].error = Absent
                             /\ DOMAIN R[k] = {"id", "batch", "result", "error"}
    <3>1. n \in Nat \ {0}
      BY <1>4, <1>6
    <3>2. DOMAIN R = 1 .. n /\ R = [i \in 1 .. n |-> R[i]]
      OBVIOUS
    <3>3. \A k \in 1 .. n : /\ R[k].batch = n /\ R[k].id = calls[k].id
                             /\ R[k].result = Absent /\ R[k].error = Absent
                             /\ DOMAIN R[k] = {"id", "batch", "result", "error"}
      <4> HIDE DEF n
      <4> QED BY DEF NewRecord
    <3> HIDE DEF R, n
    <3> QED BY <3>1, <3>2, <3>3, SeqMade
  <2> HIDE DEF R
  <2>8. Len(turn.calls) \in Nat /\ DOMAIN turn.calls = 1 .. Len(turn.calls)
    BY <1>2, SeqHas
  <2>9. /\ IsSeq(turn'.calls) /\ Len(turn'.calls) = Len(turn.calls) + n
        /\ DOMAIN turn'.calls = 1 .. Len(turn.calls) + n
        /\ \A k \in 1 .. Len(turn.calls) : turn'.calls[k] = turn.calls[k]
        /\ \A k \in 1 .. n : turn'.calls[Len(turn.calls) + k] = R[k]
    BY <1>2, <2>1, <2>7, SeqJoins
  <2>10. \A k \in DOMAIN turn'.calls :
            \/ k \in DOMAIN turn.calls /\ turn'.calls[k] = turn.calls[k]
            \/ k - Len(turn.calls) \in 1 .. n /\ turn'.calls[k] = R[k - Len(turn.calls)]
    <3>1. SUFFICES ASSUME NEW k \in DOMAIN turn'.calls, k \notin DOMAIN turn.calls
                   PROVE  k - Len(turn.calls) \in 1 .. n /\ turn'.calls[k] = R[k - Len(turn.calls)]
      BY <2>8, <2>9
    <3>2. k - Len(turn.calls) \in 1 .. n /\ Len(turn.calls) + (k - Len(turn.calls)) = k
      BY <2>7, <2>8, <2>9, <3>1
    <3> QED BY <2>9, <3>2
  <2>11. TurnShape'
    <3>1. turn'.messages # <<>>
      BY <1>3, <2>3, SeqHas
    <3>2. \A i \in DOMAIN turn'.messages : turn'.messages[i].role # "system" /\ IsSeq(turn'.messages[i].calls)
      BY <1>2, <1>3, <1>4, <2>2, <2>3, <2>4
    <3>3. \A k \in DOMAIN turn'.calls : DOMAIN turn'.calls[k] = {"id", "batch", "result", "error"}
      BY <1>2, <2>7, <2>10
    <3>4. turn'.skipped \subseteq (DOMAIN turn'.messages) \X Nat
      <4>1. DOMAIN M \subseteq DOMAIN turn'.messages
        BY <1>3, <2>3
      <4> QED BY <1>2, <2>1, <4>1
    <3> QED BY <1>2, <1>4, <2>1, <2>3, <2>9, <3>1, <3>2, <3>3, <3>4 DEF TurnShape
  <2>12. ASSUME NEW i, i = L + 1 PROVE RunsAt(i)'
    <3>1. i \in DOMAIN turn'.messages /\ turn'.messages[i].calls = calls /\ Given(i)' = DOMAIN calls
      BY <1>3, <2>2, <2>3, <2>4, <2>6, <2>12
    <3>2. Running(i)'
      <4>1. \A k \in DOMAIN turn'.messages : ~(k > i) /\ (k # i => Ended(k)')
        BY <1>3, <2>3, <2>4, <2>5, <2>12
      <4> QED BY <1>6, <3>1, <4>1 DEF Running
    <3>3. RecordWaits(turn.queue[1], Len(turn.messages[i].calls))'
      <4>1. turn'.calls # <<>>
        BY <2>7, <2>8, <2>9, SeqHas
      <4>2. turn'.calls[Len(turn'.calls)] = R[n] /\ n \in 1 .. n
        BY <2>7, <2>9
      <4> QED BY <2>1, <2>7, <3>1, <4>1, <4>2 DEF RecordWaits, n
    <3>4. Len(turn'.messages) - i = 0 /\ Len(calls) - 0 = Len(calls) /\ \A k \in DOMAIN calls : 0 + k = k
      BY <1>3, <1>4, <2>3, <2>12
    <3> QED BY <1>6, <2>1, <3>1, <3>2, <3>3, <3>4 DEF RunsAt
  <2>13. RecordsTell'
    <3>1. SUFFICES ASSUME NEW k \in DOMAIN turn'.calls, k < Len(turn'.calls) PROVE OwnOutcome(turn'.calls[k])
      BY <2>1 DEF RecordsTell
    <3>2. CASE k \in DOMAIN turn.calls /\ turn'.calls[k] = turn.calls[k]
      BY <1>1, <3>2
    <3>3. CASE k - Len(turn.calls) \in 1 .. n /\ turn'.calls[k] = R[k - Len(turn.calls)]
      <4>1. n # 1
        <5> DEFINE l == Len(turn.calls)
        <5>1. k \in 1 .. l + n /\ k < l + n /\ k - l \in 1 .. n /\ l \in Nat /\ n \in Nat
          BY <2>7, <2>8, <2>9, <3>1, <3>3
        <5> HIDE DEF l, n
        <5> QED BY <5>1
      <4>2. turn'.calls[k].batch = n
        BY <2>7, <3>3
      <4> QED BY <4>1, <4>2 DEF OwnOutcome
    <3> QED BY <2>10, <3>2, <3>3
  <2>14. WhileRunning'
    <3>1. \E i \in DOMAIN turn'.messages : RunsAt(i)'
      <4>1. PICK i : i = L + 1
        OBVIOUS
      <4> QED BY <1>3, <2>3, <2>12, <4>1
    <3> QED BY <3>1 DEF WhileRunning
  <2> QED BY <2>1, <2>5, <2>11, <2>13, <2>14 DEF TurnInv, WhileAsking, WhileWaiting
<1>7. CASE calls = <<>> /\ ~turn.tools_executed /\ turn.iteration + 1 < 3 /\ turn.has_tools
  <2> DEFINE more == <<assistant(out.text), user(<<Question>>)>>
  <2>1. /\ DOMAIN turn' = DOMAIN turn /\ turn'.phase = "ask" /\ turn'.queue = turn.queue
        /\ turn'.messages = M \o more /\ turn'.calls = turn.calls
        /\ turn'.skipped = turn.skipped
    <3>1. turn' = [turn EXCEPT !.iteration = @ + 1, !.said = said, !.shown = <<>>,
                       !.messages = Reprompt(@, out.text)]
      <4> HIDE DEF R, am, n, out
      <4> QED BY <1>5, <1>7
    <3>2. Reprompt(M, out.text) = M \o more
      BY DEF Reprompt
    <3> HIDE DEF out, more
    <3> QED BY <1>1, <1>2, <3>1, <3>2
  <2>2. /\ IsSeq(more) /\ Len(more) = 2
        /\ \A k \in 1 .. 2 : more[k].role # "system" /\ more[k].calls = <<>> /\ more[k].id = Absent
    <3>1. more \in Seq({assistant(out.text), user(<<Question>>)}) /\ Len(more) = 2
          /\ more[1] = assistant(out.text) /\ more[2] = user(<<Question>>)
      <4> HIDE DEF out
      <4> QED OBVIOUS
    <3>2. IsSeq(more)
      <4> HIDE DEF more
      <4> QED BY <3>1, SeqIs
    <3>3. assistant(out.text).role # "system" /\ assistant(out.text).calls = <<>> /\ assistant(out.text).id = Absent
      <4> HIDE DEF out
      <4> QED BY DEF assistant
    <3>4. user(<<Question>>).role # "system" /\ user(<<Question>>).calls = <<>> /\ user(<<Question>>).id = Absent
      BY DEF user
    <3> HIDE DEF more, out
    <3>5. \A k \in 1 .. 2 : k = 1 \/ k = 2
      OBVIOUS
    <3> QED BY <3>1, <3>2, <3>3, <3>4, <3>5
  <2> HIDE DEF more
  <2>3. /\ IsSeq(turn'.messages) /\ Len(turn'.messages) = L + 2 /\ DOMAIN turn'.messages = 1 .. L + 2
        /\ \A i \in 1 .. L : turn'.messages[i] = M[i]
        /\ \A k \in 1 .. 2 : turn'.messages[L + k] = more[k]
    <3>1. /\ IsSeq(M \o more) /\ Len(M \o more) = Len(M) + Len(more)
          /\ DOMAIN (M \o more) = 1 .. Len(M) + Len(more)
          /\ \A i \in 1 .. Len(M) : (M \o more)[i] = M[i]
          /\ \A i \in 1 .. Len(more) : (M \o more)[Len(M) + i] = more[i]
      <4>1. IsSeq(M) /\ IsSeq(more)
        BY <1>2, <2>2
      <4>2. SUFFICES ASSUME NEW m, m = M, NEW e, e = more
            PROVE  /\ IsSeq(m \o e) /\ Len(m \o e) = Len(m) + Len(e)
                   /\ DOMAIN (m \o e) = 1 .. Len(m) + Len(e)
                   /\ \A i \in 1 .. Len(m) : (m \o e)[i] = m[i]
                   /\ \A i \in 1 .. Len(e) : (m \o e)[Len(m) + i] = e[i]
        OBVIOUS
      <4>3. IsSeq(m) /\ IsSeq(e)
        BY <4>1, <4>2
      <4> QED BY <4>3, SeqJoins
    <3> HIDE DEF M
    <3> QED BY <2>1, <2>2, <3>1
  <2>4. \A i \in DOMAIN turn'.messages \ DOMAIN M :
            /\ turn'.messages[i].role # "system"
            /\ turn'.messages[i].calls = <<>> /\ turn'.messages[i].id = Absent
    <3>1. ASSUME NEW i \in DOMAIN turn'.messages \ DOMAIN M PROVE i - L \in 1 .. 2 /\ L + (i - L) = i
      <4>1. i \in 1 .. L + 2 /\ i \notin 1 .. L /\ L \in Nat
        BY <1>3, <2>3
      <4> HIDE DEF L
      <4> QED BY <4>1
    <3>2. ASSUME NEW i \in DOMAIN turn'.messages \ DOMAIN M PROVE turn'.messages[i] = more[i - L]
      BY <2>3, <3>1
    <3> HIDE DEF M, L
    <3> QED BY <2>2, <3>1, <3>2
  <2>5. IsSeq(<<>>) /\ DOMAIN <<>> = {}
    BY EmptyIs
  <2>6. /\ IdsTell' /\ SkipsAreTails' /\ ResultsFollow' /\ \A i \in DOMAIN M : Ended(i)'
    <3>1. Len(turn'.messages) >= L
      BY <1>3, <2>3
    <3>2. \A i \in DOMAIN turn'.messages \ DOMAIN M :
            /\ turn'.messages[i].id = Absent /\ IsSeq(turn'.messages[i].calls)
            /\ turn'.messages[i].calls # <<>> => i = Len(turn'.messages)
            /\ \A j \in DOMAIN turn'.messages[i].calls :
                  turn'.messages[i].calls[j].id \in {<<"provider", i - 1, j>>, <<"recovered", 0, j - 1>>}
      BY <2>4, <2>5
    <3> QED BY <1>1, <1>3, <2>1, <2>3, <3>1, <3>2, MoreIsSaid
  <2>7. \A i \in DOMAIN turn'.messages \ DOMAIN M : Given(i)' = {}
    <3>1. Len(turn'.messages) >= L
      BY <1>3, <2>3
    <3>2. \A i \in DOMAIN turn'.messages \ DOMAIN M : Given(i)' = DOMAIN turn'.messages[i].calls
      BY <1>1, <1>3, <2>1, <2>3, <3>1, GrownMessages
    <3> QED BY <2>4, <2>5, <3>2
  <2>8. TurnShape'
    <3>1. turn'.messages # <<>>
      BY <1>3, <2>3, SeqHas
    <3>2. \A i \in DOMAIN turn'.messages : turn'.messages[i].role # "system" /\ IsSeq(turn'.messages[i].calls)
      BY <1>2, <1>3, <2>3, <2>4, <2>5
    <3>3. turn'.skipped \subseteq (DOMAIN turn'.messages) \X Nat
      <4>1. DOMAIN M \subseteq DOMAIN turn'.messages
        BY <1>3, <2>3
      <4> QED BY <1>2, <2>1, <4>1
    <3> QED BY <1>2, <2>1, <2>3, <3>1, <3>2, <3>3 DEF TurnShape
  <2>9. \A i \in DOMAIN turn'.messages : Ended(i)'
    BY <2>6, <2>7 DEF Ended
  <2>10. RecordsTell'
    BY <1>1, <2>1 DEF RecordsTell
  <2> QED BY <2>1, <2>6, <2>8, <2>9, <2>10 DEF TurnInv, WhileAsking, WhileRunning, WhileWaiting
<1>8. CASE calls = <<>> /\ ~(~turn.tools_executed /\ turn.iteration + 1 < 3 /\ turn.has_tools)
  <2>1. /\ DOMAIN turn' = DOMAIN turn /\ turn'.phase = "done" /\ turn'.queue = turn.queue
        /\ turn'.messages = M /\ turn'.calls = turn.calls
        /\ turn'.skipped = turn.skipped
    <3> HIDE DEF R, am, n, out
    <3> QED BY <1>2, <1>5, <1>8
  <2>2. TurnShape'
    BY <1>2, <2>1 DEF TurnShape
  <2>3. IdsTell' /\ SkipsAreTails' /\ ResultsFollow'
    BY <1>1, <2>1, SameMessages
  <2>4. RecordsTell'
    BY <1>1, <2>1 DEF RecordsTell
  <2> QED BY <2>1, <2>2, <2>3, <2>4 DEF TurnInv, WhileAsking, WhileRunning, WhileWaiting
<1> QED BY <1>6, <1>7, <1>8

\* A turn that ends without an answer keeps what was said.
LEMMA TurnStops ==
  ASSUME TurnInv, DOMAIN turn' = DOMAIN turn, turn'.phase \in {"failed", "rejected"},
         turn'.messages = turn.messages, turn'.skipped = turn.skipped,
         turn'.calls = turn.calls, turn'.queue = turn.queue
  PROVE  TurnInv'
<1>1. TurnShape'
  BY DEF TurnInv, TurnShape
<1>2. IdsTell' /\ SkipsAreTails' /\ ResultsFollow'
  BY SameMessages DEF TurnInv
<1> QED BY <1>1, <1>2 DEF TurnInv, WhileAsking, WhileRunning, WhileWaiting, RecordsTell

\* A tool that ran gives its result to the model and to the turn's record.
LEMMA TurnRuns ==
  ASSUME NEW ok \in BOOLEAN, TurnInv, RunTool(ok)
  PROVE  TurnInv'
<1> DEFINE M == turn.messages
           L == Len(M)
           call == Head(turn.queue)
<1>1. /\ TurnShape /\ IdsTell /\ SkipsAreTails /\ ResultsFollow /\ turn.phase = "run"
      /\ \A k \in DOMAIN turn.calls : k < Len(turn.calls) => OwnOutcome(turn.calls[k])
      /\ \E i \in DOMAIN M : RunsAt(i)
  BY DEF TurnInv, WhileRunning, RecordsTell, RunTool
<1>2. PICK i \in DOMAIN M : RunsAt(i)
  BY <1>1
<1> DEFINE calls == M[i].calls
           done == L - i
           next == done + 1
<1>3. /\ DOMAIN turn = {"phase", "has_tools", "long", "iteration", "tools_executed", "messages",
                        "queue", "pending", "auto", "calls", "skipped", "said", "shown"}
      /\ IsSeq(turn.queue) /\ IsSeq(turn.calls) /\ turn.skipped \subseteq (DOMAIN M) \X Nat
      /\ \A k \in DOMAIN M : M[k].role # "system" /\ IsSeq(M[k].calls)
  BY <1>1 DEF TurnShape
<1>4. /\ L \in Nat \ {0} /\ DOMAIN M = 1 .. L
      /\ Len(calls) \in Nat /\ DOMAIN calls = 1 .. Len(calls)
  BY <1>1, MessagesAre
<1>5. /\ Running(i) /\ Given(i) = DOMAIN calls /\ turn.queue # <<>>
      /\ Len(turn.queue) = Len(calls) - done
      /\ \A k \in DOMAIN turn.queue : turn.queue[k] = calls[done + k]
      /\ RecordWaits(turn.queue[1], Len(calls))
  BY <1>2 DEF RunsAt
<1>6. /\ Len(turn.queue) \in Nat \ {0} /\ DOMAIN turn.queue = 1 .. Len(turn.queue)
      /\ call = turn.queue[1] /\ IsSeq(Tail(turn.queue)) /\ Len(Tail(turn.queue)) = Len(turn.queue) - 1
      /\ \A k \in 1 .. Len(turn.queue) - 1 : Tail(turn.queue)[k] = turn.queue[k + 1]
      /\ Tail(turn.queue) = <<>> <=> Len(turn.queue) = 1
  <2>1. Len(turn.queue) \in Nat \ {0} /\ DOMAIN turn.queue = 1 .. Len(turn.queue)
    BY <1>3, <1>5, SeqHas
  <2>2. /\ call = turn.queue[1] /\ IsSeq(Tail(turn.queue)) /\ Len(Tail(turn.queue)) = Len(turn.queue) - 1
        /\ \A k \in 1 .. Len(turn.queue) - 1 : Tail(turn.queue)[k] = turn.queue[k + 1]
    BY <1>3, <1>5, SeqRest
  <2>3. Tail(turn.queue) = <<>> <=> Len(Tail(turn.queue)) = 0
    BY <2>2, SeqHas
  <2> QED BY <2>1, <2>2, <2>3
<1>7. done \in Nat /\ next = L - i + 1 /\ next \in DOMAIN calls /\ next \in Given(i) /\ call = calls[next]
  <2> DEFINE size == Len(calls)
             q == Len(turn.queue)
  <2>1. i \in 1 .. L /\ L \in Nat /\ q \in Nat \ {0} /\ size \in Nat /\ q = size - done
    BY <1>4, <1>5, <1>6
  <2>2. done \in Nat /\ next = L - i + 1 /\ next \in 1 .. size
    <3> HIDE DEF L, size, q
    <3> QED BY <2>1
  <2>3. 1 \in DOMAIN turn.queue
    BY <1>6
  <2>4. call = calls[done + 1]
    BY <1>5, <1>6, <2>3
  <2> QED BY <1>4, <1>5, <2>2, <2>4
<1>8. /\ DOMAIN turn' = DOMAIN turn
      /\ turn'.calls = RecordOutcome(turn.calls, call.id, ok)
      /\ turn'.messages = Append(M, tool_result(call.id))
      /\ turn'.queue = Tail(turn.queue)
      /\ turn'.phase = IF Tail(turn.queue) = <<>> THEN "ask" ELSE "run"
      /\ turn'.skipped = turn.skipped
  <2>1. turn' = [turn EXCEPT
                 !.calls = RecordOutcome(@, call.id, ok),
                 !.messages = Append(@, tool_result(call.id)),
                 !.queue = Tail(@),
                 !.phase = IF Tail(turn.queue) = <<>> THEN "ask" ELSE "run"]
    BY DEF RunTool
  <2> HIDE DEF call
  <2> QED BY <1>3, <2>1
<1>9. call.id # Absent
  BY <1>1, <1>7, IdsArePresent
<1> HIDE DEF call
<1>10. /\ IsSeq(turn'.calls) /\ DOMAIN turn'.calls = DOMAIN turn.calls
       /\ turn'.calls # <<>> /\ turn'.calls[Len(turn'.calls)].batch = Len(calls)
       /\ \A k \in DOMAIN turn'.calls :
             /\ OwnOutcome(turn'.calls[k])
             /\ DOMAIN turn'.calls[k] = {"id", "batch", "result", "error"}
  <2>1. RecordWaits(call, Len(calls))
    BY <1>5, <1>6
  <2> HIDE DEF calls
  <2> QED BY <1>1, <1>8, <1>9, <2>1, OutcomeIsOwn
<1>11. /\ IdsTell' /\ SkipsAreTails' /\ ResultsFollow'
       /\ IsSeq(turn'.messages) /\ Len(turn'.messages) = L + 1
       /\ DOMAIN turn'.messages = DOMAIN M \cup {L + 1}
       /\ \A k \in DOMAIN M : turn'.messages[k] = M[k] /\ Given(k)' = Given(k)
       /\ turn'.messages[L + 1].calls = <<>> /\ turn'.messages[L + 1].role = "tool"
       /\ \A k \in DOMAIN turn'.messages \ {i} : Ended(k)'
  <2>1. turn'.messages = Append(M, tool_result(M[i].calls[next].id))
    BY <1>7, <1>8
  <2> HIDE DEF next, done
  <2> QED BY <1>1, <1>5, <1>7, <1>8, <2>1, NextResult
<1>12. TurnShape'
  <2>1. turn'.messages # <<>>
    BY <1>4, <1>11, SeqHas
  <2>2. IsSeq(<<>>)
    BY EmptyIs
  <2>3. \A k \in DOMAIN turn'.messages : turn'.messages[k].role # "system" /\ IsSeq(turn'.messages[k].calls)
    BY <1>3, <1>11, <2>2
  <2>4. turn'.skipped \subseteq (DOMAIN turn'.messages) \X Nat
    BY <1>3, <1>8, <1>11
  <2>5. DOMAIN turn' = {"phase", "has_tools", "long", "iteration", "tools_executed", "messages",
                        "queue", "pending", "auto", "calls", "skipped", "said", "shown"}
    BY <1>3, <1>8
  <2>6. turn'.phase \in {"ask", "run", "wait", "done", "failed", "rejected"} /\ IsSeq(turn'.queue)
    BY <1>6, <1>8
  <2> QED BY <1>10, <1>11, <2>1, <2>3, <2>4, <2>5, <2>6 DEF TurnShape
<1>13. WhileAsking'
  <2>1. SUFFICES ASSUME turn'.phase = "ask" PROVE \A k \in DOMAIN turn'.messages : Ended(k)'
    BY DEF WhileAsking
  <2>2. Len(turn.queue) = 1
    BY <1>6, <1>8, <2>1
  <2>3. \A j \in Given(i) : i + j \in DOMAIN M \cup {L + 1}
    <3>1. /\ i \in 1 .. L /\ L \in Nat /\ Len(calls) \in Nat /\ 1 = Len(calls) - (L - i)
          /\ Given(i) = 1 .. Len(calls)
      BY <1>4, <1>5, <2>2
    <3> DEFINE size == Len(calls)
    <3>2. \A j \in 1 .. size : i + j \in 1 .. L \cup {L + 1}
      <4> HIDE DEF L, size
      <4> QED BY <3>1 DEF size
    <3> QED BY <1>4, <3>1, <3>2
  <2>4. Ended(i)'
    BY <1>11, <2>3 DEF Ended
  <2> QED BY <1>11, <2>4
<1>14. WhileRunning'
  <2>1. SUFFICES ASSUME turn'.phase = "run" PROVE RunsAt(i)'
    <3>1. i \in DOMAIN turn'.messages
      BY <1>11
    <3> QED BY <2>1, <3>1 DEF WhileRunning
  <2>2. Len(turn.queue) > 1 /\ Tail(turn.queue) # <<>>
    <3>1. Tail(turn.queue) # <<>>
      BY <1>8, <2>1
    <3>2. Len(turn.queue) # 1
      BY <1>6, <3>1
    <3> QED BY <1>6, <3>1, <3>2
  <2>3. Running(i)'
    <3>1. i \in DOMAIN turn'.messages /\ turn'.messages[i].calls # <<>>
      BY <1>5, <1>11 DEF Running
    <3>2. \A k \in DOMAIN turn'.messages : k > i => turn'.messages[k].calls = <<>>
      BY <1>5, <1>11 DEF Running
    <3> QED BY <1>11, <3>1, <3>2 DEF Running
  <2>4. turn'.messages[i].calls = calls /\ Given(i)' = DOMAIN calls
    BY <1>5, <1>11
  <2>5. /\ Len(turn'.messages) - i = next /\ turn'.queue # <<>>
        /\ Len(turn'.queue) = Len(calls) - next
    <3> DEFINE size == Len(calls)
               q == Len(turn.queue)
    <3>1. /\ i \in 1 .. L /\ L \in Nat /\ q \in Nat /\ size \in Nat /\ q = size - (L - i)
          /\ Len(turn'.messages) = L + 1 /\ Len(turn'.queue) = q - 1 /\ turn'.queue # <<>>
      BY <1>4, <1>5, <1>6, <1>8, <1>11, <2>2
    <3>2. Len(turn'.messages) - i = L - i + 1 /\ Len(turn'.queue) = size - (L - i + 1)
      <4> HIDE DEF L, size, q
      <4> QED BY <3>1
    <3> QED BY <1>7, <3>1, <3>2
  <2>6. \A k \in DOMAIN turn'.queue : turn'.queue[k] = calls[next + k]
    <3>1. DOMAIN turn'.queue = 1 .. Len(turn.queue) - 1
      BY <1>6, <1>8, SeqHas
    <3>2. ASSUME NEW k \in 1 .. Len(turn.queue) - 1 PROVE Tail(turn.queue)[k] = calls[next + k]
      <4>1. k + 1 \in DOMAIN turn.queue /\ done + (k + 1) = next + k
        <5> DEFINE q == Len(turn.queue)
        <5>1. k \in 1 .. q - 1 /\ q \in Nat /\ done \in Nat /\ DOMAIN turn.queue = 1 .. q
          BY <1>6, <1>7
        <5>2. k + 1 \in 1 .. q /\ done + (k + 1) = next + k
          <6> HIDE DEF q, done
          <6> QED BY <5>1
        <5> QED BY <5>1, <5>2
      <4>2. Tail(turn.queue)[k] = turn.queue[k + 1]
        BY <1>6
      <4>3. turn.queue[k + 1] = calls[done + (k + 1)]
        BY <1>5, <4>1
      <4> QED BY <4>1, <4>2, <4>3
    <3> QED BY <1>8, <3>1, <3>2
  <2>7. RecordWaits(turn.queue[1], Len(turn.messages[i].calls))'
    <3>1. Len(calls) # 1
      <4> DEFINE size == Len(calls)
                 q == Len(turn.queue)
      <4>1. q \in Nat /\ q > 1 /\ size \in Nat /\ done \in Nat /\ q = size - done
        BY <1>4, <1>5, <1>6, <1>7, <2>2
      <4>2. size # 1
        <5> HIDE DEF q, size, done
        <5> QED BY <4>1
      <4> QED BY <4>2
    <3> QED BY <1>10, <2>4, <3>1 DEF RecordWaits
  <2> QED BY <2>3, <2>4, <2>5, <2>6, <2>7 DEF RunsAt
<1>15. RecordsTell'
  BY <1>10 DEF RecordsTell
<1>16. WhileWaiting'
  BY <1>8 DEF WhileWaiting
<1> QED BY <1>11, <1>12, <1>13, <1>14, <1>15, <1>16 DEF TurnInv

\* A call that needs the user's approval leaves the calls behind it unanswered.
LEMMA TurnWaits ==
  ASSUME TurnInv, NeedApproval
  PROVE  TurnInv'
<1> DEFINE M == turn.messages
           L == Len(M)
<1>1. /\ TurnShape /\ IdsTell /\ SkipsAreTails /\ ResultsFollow /\ turn.phase = "run"
      /\ \A k \in DOMAIN turn.calls : k < Len(turn.calls) => OwnOutcome(turn.calls[k])
      /\ \E i \in DOMAIN M : RunsAt(i)
  BY DEF TurnInv, WhileRunning, RecordsTell, NeedApproval
<1>2. PICK i \in DOMAIN M : RunsAt(i)
  BY <1>1
<1> DEFINE calls == M[i].calls
           done == L - i
           next == done + 1
           size == Len(calls)
<1>3. /\ DOMAIN turn = {"phase", "has_tools", "long", "iteration", "tools_executed", "messages",
                        "queue", "pending", "auto", "calls", "skipped", "said", "shown"}
      /\ IsSeq(turn.queue) /\ IsSeq(turn.calls) /\ turn.skipped \subseteq (DOMAIN M) \X Nat
  BY <1>1 DEF TurnShape
<1>4. /\ L \in Nat \ {0} /\ DOMAIN M = 1 .. L /\ size \in Nat /\ DOMAIN calls = 1 .. size
      /\ \A k \in DOMAIN M : DOMAIN M[k].calls \subseteq Nat
  BY <1>1, MessagesAre
<1>5. /\ Running(i) /\ Given(i) = DOMAIN calls /\ turn.queue # <<>>
      /\ Len(turn.queue) = size - done
      /\ turn.queue[1] = calls[done + 1] /\ RecordWaits(turn.queue[1], size)
  <2>1. 1 \in DOMAIN turn.queue
    BY <1>2, <1>3, SeqHas DEF RunsAt
  <2> QED BY <1>2, <2>1 DEF RunsAt
<1>6. Head(turn.queue) = turn.queue[1] /\ Len(turn.queue) \in Nat \ {0}
  BY <1>3, <1>5, SeqHas, SeqRest
<1>7. /\ i \in 1 .. L /\ done \in Nat /\ next = L - i + 1 /\ next \in 1 .. size
      /\ size - Len(turn.queue) + 1 = next
  <2> DEFINE q == Len(turn.queue)
  <2>1. i \in 1 .. L /\ L \in Nat /\ q \in Nat \ {0} /\ size \in Nat /\ q = size - done
    BY <1>4, <1>5, <1>6
  <2>2. done \in Nat /\ next = L - i + 1 /\ next \in 1 .. size /\ size - q + 1 = next
    <3> HIDE DEF L, size, q
    <3> QED BY <2>1
  <2> QED BY <2>1, <2>2
<1>8. /\ DOMAIN turn' = DOMAIN turn /\ turn'.phase = "wait" /\ turn'.pending = Head(turn.queue)
      /\ turn'.skipped = turn.skipped \cup {p \in QueuedPlaces : \E q \in QueuedPlaces : q[2] < p[2]}
      /\ turn'.queue = <<>> /\ turn'.messages = M /\ turn'.calls = turn.calls
  <2>1. turn' = [turn EXCEPT
                 !.phase = "wait",
                 !.pending = Head(turn.queue),
                 !.skipped = @ \cup {p \in QueuedPlaces : \E q \in QueuedPlaces : q[2] < p[2]},
                 !.queue = <<>>]
    BY DEF NeedApproval
  <2> QED BY <1>3, <2>1
<1>9. QueuedPlaces = {i} \X (next .. size)
  <2> DEFINE asked == {k \in 1 .. Len(M) : M[k].calls # <<>>}
  <2>1. i \in asked /\ \A k \in asked : i >= k /\ (k >= i => k = i)
    <3>1. i \in 1 .. L /\ L \in Nat /\ asked = {k \in 1 .. L : M[k].calls # <<>>}
      BY <1>7, <1>4
    <3>2. M[i].calls # <<>> /\ \A k \in 1 .. L : k > i => M[k].calls = <<>>
      BY <1>4, <1>5 DEF Running
    <3>3. i \in asked /\ \A k \in asked : k \in 1 .. L /\ ~(k > i)
      BY <3>1, <3>2
    <3>4. \A k \in 1 .. L : ~(k > i) => i >= k /\ (k >= i => k = i)
      <4> HIDE DEF L
      <4> QED BY <3>1
    <3> HIDE DEF asked
    <3> QED BY <3>3, <3>4
  <2>2. Max(asked) = i
    <3> HIDE DEF asked
    <3> QED BY <2>1 DEF Max
  <2> HIDE DEF asked
  <2>3. QueuedPlaces = {Max(asked)} \X (Len(M[Max(asked)].calls) - Len(turn.queue) + 1 .. Len(M[Max(asked)].calls))
    BY DEF QueuedPlaces, asked
  <2> QED BY <1>7, <2>2, <2>3
<1>10. \A k, j : <<k, j>> \in turn'.skipped <=>
          \/ <<k, j>> \in turn.skipped
          \/ k = i /\ j \in next + 1 .. size
  <2> DEFINE Q == {i} \X (next .. size)
             S == {p \in Q : \E q \in Q : q[2] < p[2]}
  <2>1. ASSUME NEW k, NEW j PROVE <<k, j>> \in S <=> k = i /\ j \in next + 1 .. size
    <3>1. ASSUME <<k, j>> \in S PROVE k = i /\ j \in next + 1 .. size
      <4>1. k = i /\ j \in next .. size
        BY <3>1
      <4>2. PICK q \in Q : q[2] < j
        BY <3>1
      <4>3. q[2] \in next .. size
        BY <4>2
      <4> HIDE DEF next, size
      <4> QED BY <1>4, <1>7, <4>1, <4>2, <4>3
    <3>2. ASSUME k = i, j \in next + 1 .. size PROVE <<k, j>> \in S
      <4>1. j \in next .. size /\ next \in next .. size /\ next < j
        BY <1>4, <1>7, <3>2
      <4> HIDE DEF next, size
      <4>2. <<k, j>> \in Q /\ <<i, next>> \in Q /\ <<i, next>>[2] < <<k, j>>[2]
        BY <3>2, <4>1
      <4> QED BY <4>2
    <3> QED BY <3>1, <3>2
  <2>2. turn'.skipped = turn.skipped \cup S
    BY <1>8, <1>9
  <2> HIDE DEF S, next, size
  <2> QED BY <2>1, <2>2
<1> HIDE DEF next, size
<1>11. Given(i)' = 1 .. next
  <2>1. \A j : j \in Given(i)' <=> j \in DOMAIN calls /\ <<i, j>> \notin turn'.skipped
    BY <1>8 DEF Given
  <2>2. \A j \in DOMAIN calls : <<i, j>> \notin turn.skipped
    BY <1>5 DEF Given
  <2>3. \A j : j \in Given(i)' <=> j \in 1 .. size /\ j \notin next + 1 .. size
    BY <1>4, <1>10, <2>1, <2>2
  <2>4. \A j : j \in 1 .. size /\ j \notin next + 1 .. size <=> j \in 1 .. next
    BY <1>4, <1>7
  <2> QED BY <2>3, <2>4
<1>12. \A k \in DOMAIN M \ {i} : Given(k)' = Given(k)
  BY <1>8, <1>10 DEF Given
<1>13. TurnShape'
  <2>1. IsSeq(<<>>)
    BY EmptyIs
  <2>2. turn'.skipped \subseteq (DOMAIN M) \X Nat
    <3>1. {i} \X (next .. size) \subseteq (DOMAIN M) \X Nat
      <4>1. next .. size \subseteq Nat
        BY <1>4, <1>7
      <4> QED BY <4>1
    <3>2. turn'.skipped \subseteq turn.skipped \cup {i} \X (next .. size)
      BY <1>8, <1>9
    <3> QED BY <1>3, <3>1, <3>2
  <2> QED BY <1>1, <1>8, <2>1, <2>2 DEF TurnShape
<1>14. IdsTell'
  BY <1>1, <1>8 DEF IdsTell
<1>15. SkipsAreTails'
  <2>1. ASSUME NEW k \in DOMAIN M, NEW j \in Given(k)' PROVE 1 .. j \subseteq Given(k)'
    <3>1. CASE k = i
      BY <1>7, <1>11, <3>1
    <3>2. CASE k # i
      BY <1>1, <1>12, <3>2 DEF SkipsAreTails
    <3> QED BY <3>1, <3>2
  <2> QED BY <1>8, <2>1 DEF SkipsAreTails
<1>16. \A k \in DOMAIN M : Given(k)' \subseteq Given(k)
  <2>1. 1 .. next \subseteq Given(i)
    BY <1>4, <1>5, <1>7
  <2> QED BY <1>11, <1>12, <2>1
<1>17. ResultsFollow'
  <2>1. \A k \in DOMAIN M : \A j \in Given(k)' : k + j \in DOMAIN M => M[k + j].id = M[k].calls[j].id
    BY <1>1, <1>16 DEF ResultsFollow
  <2>2. ASSUME NEW p \in DOMAIN M, M[p].id # Absent PROVE \E k \in DOMAIN M : \E j \in Given(k)' : p = k + j
    <3>1. PICK k \in DOMAIN M : \E j \in Given(k) : p = k + j
      BY <1>1, <2>2 DEF ResultsFollow
    <3>2. PICK j \in Given(k) : p = k + j
      BY <3>1
    <3>3. CASE k = i
      <4>1. j \in 1 .. size /\ i + j <= L
        BY <1>4, <1>5, <3>2, <3>3
      <4>2. j \in 1 .. next
        BY <1>4, <1>7, <4>1 DEF next
      <4> QED BY <1>11, <3>2, <3>3, <4>2
    <3>4. CASE k # i
      BY <1>12, <3>2, <3>4
    <3> QED BY <3>3, <3>4
  <2> QED BY <1>8, <2>1, <2>2 DEF ResultsFollow
<1>18. WaitsAt(i)'
  <2>1. Running(i)'
    <3>1. \A k \in DOMAIN M \ {i} : Ended(k)'
      BY <1>5, <1>8, <1>12 DEF Running, Ended
    <3> QED BY <1>5, <1>8, <3>1 DEF Running
  <2>2. next \in DOMAIN calls /\ turn'.pending = calls[next] /\ Len(turn'.messages) - i + 1 = next
    BY <1>4, <1>5, <1>6, <1>7, <1>8 DEF next
  <2>3. RecordWaits(turn.pending, Len(turn.messages[i].calls))'
    BY <1>5, <1>6, <1>8 DEF RecordWaits, size
  <2> QED BY <1>8, <1>11, <2>1, <2>2, <2>3 DEF WaitsAt
<1>19. WhileWaiting' /\ WhileAsking' /\ WhileRunning' /\ RecordsTell'
  BY <1>1, <1>8, <1>18 DEF WhileWaiting, WhileAsking, WhileRunning, RecordsTell
<1> QED BY <1>13, <1>14, <1>15, <1>17, <1>19 DEF TurnInv

\* The approved tool gives its result to the model and to the turn's record.
LEMMA TurnResumes ==
  ASSUME NEW always \in BOOLEAN, NEW ok \in BOOLEAN, TurnInv, ApproveTool(always, ok)
  PROVE  TurnInv'
<1> DEFINE M == turn.messages
           L == Len(M)
<1>1. /\ TurnShape /\ IdsTell /\ SkipsAreTails /\ ResultsFollow /\ turn.phase = "wait"
      /\ \A k \in DOMAIN turn.calls : k < Len(turn.calls) => OwnOutcome(turn.calls[k])
      /\ \E i \in DOMAIN M : WaitsAt(i)
  BY DEF TurnInv, WhileWaiting, RecordsTell, ApproveTool
<1>2. PICK i \in DOMAIN M : WaitsAt(i)
  BY <1>1
<1> DEFINE calls == M[i].calls
           next == L - i + 1
<1>3. /\ DOMAIN turn = {"phase", "has_tools", "long", "iteration", "tools_executed", "messages",
                        "queue", "pending", "auto", "calls", "skipped", "said", "shown"}
      /\ IsSeq(turn.queue) /\ turn.skipped \subseteq (DOMAIN M) \X Nat
      /\ \A k \in DOMAIN M : M[k].role # "system" /\ IsSeq(M[k].calls)
  BY <1>1 DEF TurnShape
<1>4. L \in Nat \ {0} /\ DOMAIN M = 1 .. L
  BY <1>1, MessagesAre
<1>5. /\ Running(i) /\ next \in DOMAIN calls /\ Given(i) = 1 .. next /\ turn.pending = calls[next]
      /\ RecordWaits(turn.pending, Len(calls))
  BY <1>2 DEF WaitsAt
<1>6. next \in Nat \ {0} /\ next \in Given(i)
  BY <1>1, <1>4, <1>5, MessagesAre
<1>7. /\ DOMAIN turn' = DOMAIN turn /\ turn'.phase = "ask"
      /\ turn'.calls = RecordOutcome(turn.calls, turn.pending.id, ok)
      /\ turn'.messages = Append(M, tool_result(turn.pending.id))
      /\ turn'.queue = turn.queue /\ turn'.skipped = turn.skipped
  BY <1>3 DEF ApproveTool
<1>8. turn.pending.id # Absent
  BY <1>1, <1>5, IdsArePresent
<1>9. /\ IsSeq(turn'.calls)
      /\ \A k \in DOMAIN turn'.calls :
            /\ OwnOutcome(turn'.calls[k])
            /\ DOMAIN turn'.calls[k] = {"id", "batch", "result", "error"}
  <2> HIDE DEF calls
  <2> QED BY <1>1, <1>5, <1>7, <1>8, OutcomeIsOwn
<1>10. /\ IdsTell' /\ SkipsAreTails' /\ ResultsFollow'
       /\ IsSeq(turn'.messages) /\ Len(turn'.messages) = L + 1
       /\ DOMAIN turn'.messages = DOMAIN M \cup {L + 1}
       /\ \A k \in DOMAIN M : turn'.messages[k] = M[k] /\ Given(k)' = Given(k)
       /\ turn'.messages[L + 1].calls = <<>> /\ turn'.messages[L + 1].role = "tool"
       /\ \A k \in DOMAIN turn'.messages \ {i} : Ended(k)'
  <2>1. turn'.messages = Append(M, tool_result(M[i].calls[next].id)) /\ next = Len(M) - i + 1
    BY <1>5, <1>7
  <2> HIDE DEF next
  <2> QED BY <1>1, <1>5, <1>6, <1>7, <2>1, NextResult
<1>11. TurnShape'
  <2>1. turn'.messages # <<>>
    BY <1>4, <1>10, SeqHas
  <2>2. IsSeq(<<>>)
    BY EmptyIs
  <2>3. \A k \in DOMAIN turn'.messages : turn'.messages[k].role # "system" /\ IsSeq(turn'.messages[k].calls)
    BY <1>3, <1>10, <2>2
  <2>4. turn'.skipped \subseteq (DOMAIN turn'.messages) \X Nat
    BY <1>3, <1>7, <1>10
  <2>5. DOMAIN turn' = {"phase", "has_tools", "long", "iteration", "tools_executed", "messages",
                        "queue", "pending", "auto", "calls", "skipped", "said", "shown"}
    BY <1>3, <1>7
  <2>6. turn'.phase \in {"ask", "run", "wait", "done", "failed", "rejected"} /\ IsSeq(turn'.queue)
    BY <1>3, <1>7
  <2> QED BY <1>9, <1>10, <2>1, <2>3, <2>4, <2>5, <2>6 DEF TurnShape
<1>12. WhileAsking'
  <2>1. \A j \in Given(i) : i + j \in DOMAIN M \cup {L + 1}
    <3>1. i \in 1 .. L /\ L \in Nat
      BY <1>4
    <3>2. \A j \in 1 .. L - i + 1 : i + j \in 1 .. L \cup {L + 1}
      <4> HIDE DEF L
      <4> QED BY <3>1
    <3> QED BY <1>4, <1>5, <3>2
  <2>2. Ended(i)'
    BY <1>10, <2>1 DEF Ended
  <2> QED BY <1>10, <2>2 DEF WhileAsking
<1> QED BY <1>7, <1>9, <1>10, <1>11, <1>12 DEF TurnInv, WhileRunning, WhileWaiting, RecordsTell

\* A turn starts with the question alone.
LEMMA TurnStarts ==
  ASSUME NEW has_tools, NEW long, turn = Start(has_tools, long)
  PROVE  TurnInv
<1> DEFINE q == user(<<Question>>)
<1>1. /\ DOMAIN turn = {"phase", "has_tools", "long", "iteration", "tools_executed", "messages",
                        "queue", "pending", "auto", "calls", "skipped", "said", "shown"}
      /\ turn.phase = "ask" /\ turn.messages = <<q>> /\ turn.queue = <<>> /\ turn.calls = <<>>
      /\ turn.skipped = {}
  <2> HIDE DEF q
  <2> QED BY DEF Start, q
<1>2. q.role = "user" /\ q.calls = <<>> /\ q.id = Absent
  BY DEF user
<1> HIDE DEF q
<1>3. IsSeq(<<>>) /\ DOMAIN <<>> = {}
  BY EmptyIs
<1>4. IsSeq(<<q>>) /\ <<q>> # <<>> /\ DOMAIN <<q>> = {1} /\ <<q>>[1] = q
  <2>1. <<q>> \in Seq({q}) /\ DOMAIN <<q>> = {1} /\ <<q>>[1] = q
    OBVIOUS
  <2>2. IsSeq(<<q>>)
    BY <2>1, SeqIs
  <2> QED BY <2>1, <2>2
<1>5. \A i \in DOMAIN turn.messages :
         /\ turn.messages[i].role = "user" /\ turn.messages[i].calls = <<>>
         /\ turn.messages[i].id = Absent /\ Given(i) = {}
  <2>1. \A i \in DOMAIN turn.messages : turn.messages[i] = q
    BY <1>1, <1>4
  <2> QED BY <1>2, <1>3, <2>1 DEF Given
<1>6. TurnShape
  BY <1>1, <1>3, <1>4, <1>5 DEF TurnShape
<1>7. IdsTell /\ SkipsAreTails /\ ResultsFollow /\ WhileAsking
  BY <1>3, <1>5 DEF IdsTell, SkipsAreTails, ResultsFollow, WhileAsking, Ended
<1> QED BY <1>1, <1>3, <1>6, <1>7 DEF TurnInv, WhileRunning, WhileWaiting, RecordsTell

\* A resumed turn starts with the approved call and its result.
LEMMA TurnStartsAgain ==
  ASSUME turn = Resumed
  PROVE  TurnInv
<1> DEFINE call == [id |-> <<"provider", 1, 1>>, name |-> CHOOSE t \in Gated : TRUE]
           q == user(<<Question>>)
           a == assistant_with_tool_calls(<<>>, <<call>>)
           r == tool_result(call.id)
           C == record_tool_result(<<NewRecord(call, 1)>>, call.id)
<1>1. /\ DOMAIN turn = {"phase", "has_tools", "long", "iteration", "tools_executed", "messages",
                        "queue", "pending", "auto", "calls", "skipped", "said", "shown"}
      /\ turn.phase = "ask" /\ turn.messages = <<q, a, r>> /\ turn.queue = <<>> /\ turn.calls = C
      /\ turn.skipped = {}
  <2>1. turn = [Start(TRUE, TRUE) EXCEPT
                   !.tools_executed = TRUE, !.messages = <<q, a, r>>, !.calls = C]
    BY DEF Resumed
  <2>2. LET s == Start(TRUE, TRUE) IN
        /\ DOMAIN s = {"phase", "has_tools", "long", "iteration", "tools_executed", "messages",
                       "queue", "pending", "auto", "calls", "skipped", "said", "shown"}
        /\ s.phase = "ask" /\ s.queue = <<>> /\ s.skipped = {}
    BY DEF Start
  <2> HIDE DEF q, a, r, C
  <2> QED BY <2>1, <2>2
<1>2. q.role = "user" /\ q.calls = <<>> /\ q.id = Absent
  BY DEF user
<1>3. a.role = "assistant" /\ a.calls = <<call>> /\ a.id = Absent
  <2> HIDE DEF call
  <2> QED BY DEF assistant_with_tool_calls, a
<1>4. r.role = "tool" /\ r.calls = <<>> /\ r.id = call.id
  <2> HIDE DEF call
  <2> QED BY DEF tool_result, r
<1>5. call.id = <<"provider", 2 - 1, 1>> /\ call.id # Absent
  <2>1. call.id = <<"provider", 1, 1>> /\ 2 - 1 = 1
    OBVIOUS
  <2>2. <<"provider", 1, 1>> # <<>>
    OBVIOUS
  <2> QED BY <2>1, <2>2 DEF Absent
<1>6. /\ IsSeq(C) /\ DOMAIN C = {1} /\ OwnOutcome(C[1])
      /\ DOMAIN C[1] = {"id", "batch", "result", "error"}
  <2> DEFINE e == NewRecord(call, 1)
             d == [e EXCEPT !.result = call.id]
  <2>1. /\ DOMAIN e = {"id", "batch", "result", "error"}
        /\ e.id = call.id /\ e.batch = 1 /\ e.result = Absent /\ e.error = Absent
    <3> HIDE DEF call
    <3> QED BY DEF NewRecord, e
  <2>2. C = [<<e>> EXCEPT ![1] = d]
    <3> HIDE DEF call
    <3>1. <<e>> # <<>> /\ Len(<<e>>) = 1
      OBVIOUS
    <3> QED BY <3>1 DEF record_tool_result, C, d
  <2>3. DOMAIN d = {"id", "batch", "result", "error"} /\ OwnOutcome(d)
    <3> HIDE DEF e, call
    <3> QED BY <1>5, <2>1 DEF OwnOutcome, d
  <2>4. C = <<d>>
    <3> HIDE DEF e, d, C
    <3> QED BY <2>2
  <2>5. <<d>> \in Seq({d}) /\ DOMAIN <<d>> = {1} /\ <<d>>[1] = d
    <3> HIDE DEF d
    <3> QED OBVIOUS
  <2>6. IsSeq(<<d>>)
    <3> HIDE DEF d
    <3> QED BY <2>5, SeqIs DEF d
  <2> HIDE DEF d, C
  <2> QED BY <2>3, <2>4, <2>5, <2>6
<1>7. IsSeq(<<>>) /\ DOMAIN <<>> = {}
  BY EmptyIs
<1> HIDE DEF q, a, r, C, call
<1>8. IsSeq(<<call>>) /\ <<call>> # <<>> /\ DOMAIN <<call>> = {1} /\ <<call>>[1] = call
  <2>1. <<call>> \in Seq({call}) /\ DOMAIN <<call>> = {1} /\ <<call>>[1] = call
    OBVIOUS
  <2>2. IsSeq(<<call>>)
    BY <2>1, SeqIs
  <2> QED BY <2>1, <2>2
<1>9. /\ IsSeq(turn.messages) /\ turn.messages # <<>> /\ DOMAIN turn.messages = {1, 2, 3}
      /\ turn.messages[1] = q /\ turn.messages[2] = a /\ turn.messages[3] = r
  <2> DEFINE m == <<q, a, r>>
  <2>1. m \in Seq({q, a, r}) /\ DOMAIN m = {1, 2, 3} /\ m[1] = q /\ m[2] = a /\ m[3] = r
    OBVIOUS
  <2> HIDE DEF m
  <2>2. IsSeq(m)
    BY <2>1, SeqIs
  <2>3. m # <<>>
    BY <2>1
  <2> QED BY <1>1, <2>1, <2>2, <2>3 DEF m
<1>10. Given(1) = {} /\ Given(2) = {1} /\ Given(3) = {}
  BY <1>1, <1>2, <1>3, <1>4, <1>7, <1>8, <1>9 DEF Given
<1>11. TurnShape
  <2>1. \A i \in DOMAIN turn.messages : turn.messages[i].role # "system" /\ IsSeq(turn.messages[i].calls)
    BY <1>2, <1>3, <1>4, <1>7, <1>8, <1>9
  <2> QED BY <1>1, <1>6, <1>7, <1>9, <2>1 DEF TurnShape
<1>12. IdsTell
  <2>1. \A j \in DOMAIN turn.messages[2].calls : turn.messages[2].calls[j].id = <<"provider", 2 - 1, j>>
    BY <1>3, <1>5, <1>8, <1>9
  <2>2. DOMAIN turn.messages[1].calls = {} /\ DOMAIN turn.messages[3].calls = {}
    BY <1>2, <1>4, <1>7, <1>9
  <2> QED BY <1>9, <2>1, <2>2 DEF IdsTell
<1>13. SkipsAreTails
  BY <1>9, <1>10 DEF SkipsAreTails
<1>14. ResultsFollow
  <2>1. turn.messages[2 + 1].id = turn.messages[2].calls[1].id
    BY <1>3, <1>4, <1>8, <1>9
  <2>2. \A p \in DOMAIN turn.messages : turn.messages[p].id # Absent => p = 2 + 1
    BY <1>2, <1>3, <1>9
  <2>3. \A i \in DOMAIN turn.messages : \A j \in Given(i) : i = 2 /\ j = 1
    BY <1>9, <1>10
  <2>4. 2 \in DOMAIN turn.messages /\ 1 \in Given(2)
    BY <1>9, <1>10
  <2>5. \A p \in DOMAIN turn.messages : turn.messages[p].id # Absent =>
           \E i \in DOMAIN turn.messages : \E j \in Given(i) : p = i + j
    BY <2>2, <2>4
  <2>6. \A i \in DOMAIN turn.messages : \A j \in Given(i) :
           turn.messages[i + j].id = turn.messages[i].calls[j].id
    BY <2>1, <2>3
  <2> QED BY <2>5, <2>6 DEF ResultsFollow
<1>15. WhileAsking
  BY <1>9, <1>10 DEF WhileAsking, Ended
<1> QED BY <1>1, <1>6, <1>11, <1>12, <1>13, <1>14, <1>15 DEF TurnInv, WhileRunning, WhileWaiting, RecordsTell

\* Every step of a turn keeps calls, results and records together.
LEMMA TurnStep ==
  ASSUME TurnInv, [TurnNext]_turn
  PROVE  TurnInv'
<1>1. DOMAIN turn = {"phase", "has_tools", "long", "iteration", "tools_executed", "messages",
                     "queue", "pending", "auto", "calls", "skipped", "said", "shown"}
  BY DEF TurnInv, TurnShape
<1>2. ASSUME NEW items \in (IF turn.long THEN LongReplies ELSE ShortReplies), Iterate(items)
      PROVE  TurnInv'
  <2>1. items \in Seq(Item)
    BY ToolTurnAssumption
  <2> QED BY <1>2, <2>1, TurnAsks
<1>3. CASE IterationsExceeded
  <2>1. turn' = [turn EXCEPT !.phase = "failed"]
    BY <1>3 DEF IterationsExceeded
  <2>2. /\ DOMAIN turn' = DOMAIN turn /\ turn'.phase = "failed" /\ turn'.messages = turn.messages
        /\ turn'.skipped = turn.skipped /\ turn'.calls = turn.calls /\ turn'.queue = turn.queue
    BY <1>1, <2>1
  <2> QED BY <2>2, TurnStops
<1>4. CASE LlmError
  <2>1. turn' = [turn EXCEPT !.phase = "failed", !.iteration = @ + 1]
    BY <1>4 DEF LlmError
  <2>2. /\ DOMAIN turn' = DOMAIN turn /\ turn'.phase = "failed" /\ turn'.messages = turn.messages
        /\ turn'.skipped = turn.skipped /\ turn'.calls = turn.calls /\ turn'.queue = turn.queue
    BY <1>1, <2>1
  <2> QED BY <2>2, TurnStops
<1>5. CASE RejectTool
  <2>1. turn' = [turn EXCEPT !.phase = "rejected", !.pending = Absent]
    BY <1>5 DEF RejectTool
  <2>2. /\ DOMAIN turn' = DOMAIN turn /\ turn'.phase = "rejected" /\ turn'.messages = turn.messages
        /\ turn'.skipped = turn.skipped /\ turn'.calls = turn.calls /\ turn'.queue = turn.queue
    BY <1>1, <2>1
  <2> QED BY <2>2, TurnStops
<1>6. CASE UNCHANGED turn
  <2>1. TurnShape'
    BY <1>6 DEF TurnInv, TurnShape
  <2>2. IdsTell' /\ SkipsAreTails' /\ ResultsFollow'
    BY <1>6, SameMessages DEF TurnInv
  <2>3. WhileAsking' /\ RecordsTell'
    BY <1>6 DEF TurnInv, WhileAsking, Ended, Given, RecordsTell
  <2>4. WhileRunning' /\ WhileWaiting'
    BY <1>6 DEF TurnInv, WhileRunning, WhileWaiting, RunsAt, WaitsAt, Running, Ended, Given, RecordWaits
  <2> QED BY <2>1, <2>2, <2>3, <2>4 DEF TurnInv
<1> QED BY <1>2, <1>3, <1>4, <1>5, <1>6, TurnRuns, TurnWaits, TurnResumes DEF TurnNext

\* In what the provider is sent and in the turn's own record, calls and results belong
\* together: rig_adapter.rs, tool_executor.rs, approval.rs and session.rs.
THEOREM CallsAreMatched == TurnSpec => []ResultsMatchCalls
<1>1. TurnInit => TurnInv
  <2>1. ASSUME turn \in {Start(TRUE, FALSE), Start(FALSE, TRUE)} PROVE TurnInv
    BY <2>1, TurnStarts
  <2>2. ASSUME turn \in IF Gated = {} THEN {} ELSE {Resumed} PROVE TurnInv
    <3>1. turn = Resumed
      BY <2>2
    <3> QED BY <3>1, TurnStartsAgain
  <2> QED BY <2>1, <2>2 DEF TurnInit
<1>2. TurnInv /\ [TurnNext]_turn => TurnInv'
  BY TurnStep
<1>3. TurnInv => ResultsMatchCalls
  BY InvMatches
<1> QED BY <1>1, <1>2, <1>3, PTL DEF TurnSpec
=============================================================================
