--------------------------- MODULE DataPathsProofs ---------------------------
(***************************************************************************)
(* TLAPS proofs about Jobs, for every number of jobs, clients, FullJobs,   *)
(* tool calls and subtasks and every max_jobs, and about the data paths    *)
(* RoutineRow, Compaction, LlmCalls, ChatLog, CardPath and ActivityFeed.   *)
(* They share neither state nor names; each has its section, after the     *)
(* lemmas on totals.                                                       *)
(***************************************************************************)
EXTENDS Jobs, RoutineRow, Compaction, LlmCalls, ChatLog, CardPath,
        ActivityFeed, SiftLemmas

-----------------------------------------------------------------------------
(* Totals.                                                                 *)

\* The function that the recursion of Total describes exists.
LEMMA TotalExists ==
  ASSUME NEW s \in Seq(Nat), NEW T
  PROVE  \E f \in [0 .. Len(s) -> Nat] : f = [i \in 0 .. Len(s) |-> Totalled(s, T, f, i)]
<1> DEFINE L == Len(s)
           P == {n \in 0 .. L : \E f \in [0 .. n -> Nat] :
                                  \A i \in 0 .. n : f[i] = Totalled(s, T, f, i)}
<1>1. L \in Nat
  OBVIOUS
<1>2. 0 \in P
  <2> DEFINE f == [i \in 0 .. 0 |-> 0]
  <2>1. f \in [0 .. 0 -> Nat] /\ \A i \in 0 .. 0 : f[i] = Totalled(s, T, f, i)
    BY DEF Totalled
  <2> HIDE DEF f
  <2> QED BY <2>1
<1>3. ASSUME NEW n \in 1 .. L, n - 1 \in P PROVE n \in P
  <2>1. PICK f \in [0 .. (n - 1) -> Nat] : \A i \in 0 .. (n - 1) : f[i] = Totalled(s, T, f, i)
    BY <1>3
  <2> DEFINE g == [i \in 0 .. n |-> IF i = n THEN Totalled(s, T, f, n) ELSE f[i]]
  <2>2. s[n] \in Nat /\ f[n - 1] \in Nat
    BY <2>1
  <2>3. Totalled(s, T, f, n) \in Nat
    BY <2>2 DEF Totalled
  <2>4. g \in [0 .. n -> Nat]
    BY <2>1, <2>3
  <2>5. ASSUME NEW i \in 0 .. n PROVE g[i] = Totalled(s, T, g, i)
    <3>1. CASE i = 0
      BY <3>1, <2>1 DEF Totalled
    <3>2. CASE i \in 1 .. n
      <4>1. g[i - 1] = f[i - 1]
        BY <3>2
      <4>2. g[i] = Totalled(s, T, f, i)
        BY <3>2, <2>1
      <4> QED BY <4>1, <4>2 DEF Totalled
    <3> QED BY <3>1, <3>2
  <2>6. \E h \in [0 .. n -> Nat] : \A i \in 0 .. n : h[i] = Totalled(s, T, h, i)
    <3> HIDE DEF g
    <3> QED BY <2>4, <2>5
  <2>7. n \in 0 .. L
    BY <1>1
  <2> HIDE DEF g, L
  <2> QED BY <2>6, <2>7, Zenon
<1>4. L \in P
  <2> HIDE DEF P, L
  <2>1. \A i \in 0 .. L : i \in P
    BY <1>1, <1>2, <1>3, Climb
  <2> QED BY <1>1, <2>1
<1>5. PICK f \in [0 .. L -> Nat] : \A i \in 0 .. L : f[i] = Totalled(s, T, f, i)
  BY <1>4
<1>6. f = [i \in 0 .. L |-> Totalled(s, T, f, i)]
  BY <1>5
<1> QED BY <1>5, <1>6

\* A total is the last of its partial sums.
LEMMA PartialSums ==
  ASSUME NEW s \in Seq(Nat), NEW T
  PROVE  \E f \in [0 .. Len(s) -> Nat] :
            /\ f[0] = 0
            /\ \A i \in 1 .. Len(s) : f[i] = IF i \in T THEN f[i - 1] + s[i] ELSE f[i - 1]
            /\ Total(s, T) = f[Len(s)]
<1> DEFINE L == Len(s)
           F == CHOOSE f : f = [i \in 0 .. L |-> Totalled(s, T, f, i)]
<1>1. F = [i \in 0 .. L |-> Totalled(s, T, F, i)]
  BY TotalExists
<1>2. L \in Nat
  OBVIOUS
<1>3. Total(s, T) = F[L]
  BY DEF Total
<1> HIDE DEF F
<1>4. \A i \in 0 .. L : F[i] = Totalled(s, T, F, i)
  BY <1>1
<1> DEFINE P == {i \in 0 .. L : F[i] \in Nat}
<1>5. F[0] = 0
  <2>1. F[0] = Totalled(s, T, F, 0)
    BY <1>2, <1>4
  <2> QED BY <2>1 DEF Totalled
<1>6. ASSUME NEW i \in 1 .. L
      PROVE  F[i] = IF i \in T THEN F[i - 1] + s[i] ELSE F[i - 1]
  <2>1. F[i] = Totalled(s, T, F, i)
    BY <1>2, <1>4
  <2> QED BY <2>1 DEF Totalled
<1>7. ASSUME NEW i \in 1 .. L, i - 1 \in P PROVE i \in P
  <2>1. s[i] \in Nat /\ F[i - 1] \in Nat
    BY <1>7
  <2>2. F[i] = F[i - 1] + s[i] \/ F[i] = F[i - 1]
    BY <1>6
  <2>3. F[i] \in Nat
    <3> HIDE DEF L
    <3> QED BY <2>1, <2>2
  <2>4. i \in 0 .. L
    BY <1>2
  <2> QED BY <2>3, <2>4
<1>8. \A i \in 0 .. L : i \in P
  <2>1. 0 \in P
    BY <1>2, <1>5
  <2> HIDE DEF P, L
  <2> QED BY <1>2, <1>7, <2>1, Climb
<1>9. F \in [0 .. L -> Nat]
  BY <1>1, <1>8
<1> QED BY <1>3, <1>5, <1>6, <1>9

\* Adding the numbers a list holds at some places gives a number, as the Rust sums of
\* usize do.
LEMMA TotalType ==
  ASSUME NEW s \in Seq(Nat), NEW T
  PROVE  Total(s, T) \in Nat
  BY PartialSums

\* The totals over two disjoint sets of places add up.
LEMMA TotalSplits ==
  ASSUME NEW s \in Seq(Nat), NEW A, NEW B, NEW C,
         \A i \in 1 .. Len(s) : (i \in C <=> i \in A \/ i \in B) /\ ~(i \in A /\ i \in B)
  PROVE  Total(s, C) = Total(s, A) + Total(s, B)
<1> DEFINE L == Len(s)
<1>1. PICK a \in [0 .. L -> Nat] :
          /\ a[0] = 0
          /\ \A i \in 1 .. L : a[i] = IF i \in A THEN a[i - 1] + s[i] ELSE a[i - 1]
          /\ Total(s, A) = a[L]
  BY PartialSums
<1>2. PICK b \in [0 .. L -> Nat] :
          /\ b[0] = 0
          /\ \A i \in 1 .. L : b[i] = IF i \in B THEN b[i - 1] + s[i] ELSE b[i - 1]
          /\ Total(s, B) = b[L]
  BY PartialSums
<1>3. PICK c \in [0 .. L -> Nat] :
          /\ c[0] = 0
          /\ \A i \in 1 .. L : c[i] = IF i \in C THEN c[i - 1] + s[i] ELSE c[i - 1]
          /\ Total(s, C) = c[L]
  BY PartialSums
<1> DEFINE P == {i \in 0 .. L : c[i] = a[i] + b[i]}
<1>4. L \in Nat /\ \A i \in 1 .. L : s[i] \in Nat
  OBVIOUS
<1> HIDE DEF L
<1>5. 0 \in P
  BY <1>1, <1>2, <1>3, <1>4
<1>6. ASSUME NEW i \in 1 .. L, i - 1 \in P PROVE i \in P
  <2>0. i - 1 \in 0 .. L /\ i \in 0 .. L
    BY <1>4
  <2>1. s[i] \in Nat /\ a[i - 1] \in Nat /\ b[i - 1] \in Nat
    BY <1>4, <2>0
  <2>2. c[i - 1] = a[i - 1] + b[i - 1]
    BY <1>6
  <2>3. (i \in C <=> i \in A \/ i \in B) /\ ~(i \in A /\ i \in B)
    BY DEF L
  <2>4. c[i] = a[i] + b[i]
    <3>1. CASE i \in A
      BY <1>1, <1>2, <1>3, <2>1, <2>2, <2>3, <3>1
    <3>2. CASE i \in B
      BY <1>1, <1>2, <1>3, <2>1, <2>2, <2>3, <3>2
    <3>3. CASE i \notin A /\ i \notin B
      BY <1>1, <1>2, <1>3, <2>1, <2>2, <2>3, <3>3
    <3> QED BY <3>1, <3>2, <3>3
  <2> QED BY <2>0, <2>4
<1>7. \A i \in 0 .. L : i \in P
  <2> HIDE DEF P
  <2> QED BY <1>4, <1>5, <1>6, Climb
<1>8. c[L] = a[L] + b[L]
  BY <1>4, <1>7
<1> QED BY <1>1, <1>2, <1>3, <1>8

\* A total over every place of a list is the last of its running sums: what iter().sum()
\* comes to.
LEMMA FullSums ==
  ASSUME NEW s \in Seq(Nat), NEW T, \A i \in 1 .. Len(s) : i \in T
  PROVE  \E f \in [0 .. Len(s) -> Nat] :
            /\ f[0] = 0
            /\ \A i \in 1 .. Len(s) : f[i] = f[i - 1] + s[i]
            /\ Total(s, T) = f[Len(s)]
<1> DEFINE L == Len(s)
<1>1. PICK f \in [0 .. L -> Nat] :
          /\ f[0] = 0
          /\ \A i \in 1 .. L : f[i] = IF i \in T THEN f[i - 1] + s[i] ELSE f[i - 1]
          /\ Total(s, T) = f[L]
  BY PartialSums
<1>2. \A i \in 1 .. L : f[i] = f[i - 1] + s[i]
  BY <1>1
<1> QED BY <1>1, <1>2

\* What comes last of a sequence totals no more than the whole.
LEMMA TotalOfRest ==
  ASSUME NEW s \in Seq(Nat), NEW u \in Seq(Nat), NEW k \in 0 .. Len(s),
         Len(u) = Len(s) - k, \A i \in 1 .. Len(u) : u[i] = s[i + k]
  PROVE  Total(u, DOMAIN u) <= Total(s, DOMAIN s)
<1>1. PICK a \in [0 .. Len(s) -> Nat] :
          /\ a[0] = 0
          /\ \A i \in 1 .. Len(s) : a[i] = a[i - 1] + s[i]
          /\ Total(s, DOMAIN s) = a[Len(s)]
  <2>1. DOMAIN s = 1 .. Len(s)
    OBVIOUS
  <2> QED BY <2>1, FullSums
<1>2. PICK b \in [0 .. Len(u) -> Nat] :
          /\ b[0] = 0
          /\ \A i \in 1 .. Len(u) : b[i] = b[i - 1] + u[i]
          /\ Total(u, DOMAIN u) = b[Len(u)]
  <2>1. DOMAIN u = 1 .. Len(u)
    OBVIOUS
  <2> QED BY <2>1, FullSums
<1> DEFINE L == Len(s)
           M == Len(u)
           P == {i \in 0 .. M : a[i + k] = b[i] + a[k]}
<1>3. L \in Nat /\ M \in Nat /\ k \in Nat /\ M + k = L
  OBVIOUS
<1>a. a \in [0 .. L -> Nat] /\ b \in [0 .. M -> Nat] /\ b[0] = 0
  BY <1>1, <1>2
<1>b. /\ \A i \in 1 .. L : a[i] = a[i - 1] + s[i]
      /\ \A i \in 1 .. M : b[i] = b[i - 1] + u[i]
      /\ \A i \in 1 .. M : u[i] = s[i + k] /\ u[i] \in Nat
  <2>1. \A i \in 1 .. Len(u) : u[i] \in Nat
    BY ElementOfSeq
  <2> QED BY <1>1, <1>2, <2>1
<1> HIDE DEF L, M
<1>t. a[k] \in Nat
  BY <1>3, <1>a
<1>4. 0 \in P
  <2>1. 0 \in 0 .. M /\ 0 + k = k
    BY <1>3
  <2> QED BY <1>a, <1>t, <2>1
<1>5. ASSUME NEW i \in 1 .. M, i - 1 \in P PROVE i \in P
  <2>1. /\ i + k \in 1 .. L /\ (i + k) - 1 = (i - 1) + k
        /\ i - 1 \in 0 .. M /\ i \in 0 .. M
    BY <1>3
  <2>2. u[i] = s[i + k] /\ u[i] \in Nat /\ b[i - 1] \in Nat
    BY <1>a, <1>b, <2>1
  <2>3. a[(i - 1) + k] = b[i - 1] + a[k]
    BY <1>5
  <2>4. a[i + k] = (b[i - 1] + a[k]) + u[i]
    BY <1>b, <2>1, <2>2, <2>3
  <2>5. b[i] = b[i - 1] + u[i]
    BY <1>b
  <2>6. (b[i - 1] + a[k]) + u[i] = (b[i - 1] + u[i]) + a[k]
    <3> DEFINE x == b[i - 1]
               y == a[k]
               z == u[i]
    <3>1. x \in Nat /\ y \in Nat /\ z \in Nat
      BY <1>t, <2>2
    <3> HIDE DEF x, y, z
    <3>2. (x + y) + z = (x + z) + y
      BY <3>1
    <3> QED BY <3>2 DEF x, y, z
  <2>7. a[i + k] = b[i] + a[k]
    BY <2>4, <2>5, <2>6
  <2> QED BY <2>1, <2>7
<1>6. \A i \in 0 .. M : i \in P
  <2> HIDE DEF P
  <2> QED BY <1>3, <1>4, <1>5, Climb
<1>7. a[L] = b[M] + a[k] /\ b[M] \in Nat
  <2>1. M \in P
    BY <1>3, <1>6
  <2> QED BY <1>3, <1>a, <2>1
<1> QED BY <1>1, <1>2, <1>t, <1>7 DEF L, M

-----------------------------------------------------------------------------
(* RoutineRow.                                                             *)

\* The triggers and actions a routine can have: those the tools make and
\* those the columns give back.
TriggerOK(t) ==
    \/ \E s : s \notin BadSchedules \cup {Null} /\ t = With("cron", [schedule |-> s])
    \/ \E c, x : x # Null /\ t = With("event", [channel |-> c, pattern |-> x])
    \/ t = With("webhook", [path |-> Null, secret |-> Null])
    \/ t = Is("manual")

LightAction(p, c) ==
    With("lightweight", [prompt |-> p, context_paths |-> c, max_tokens |-> 4096])
FullAction(n, d) == With("full_job", [title |-> n, description |-> d, max_iterations |-> 10])

ActionOK(a) ==
    \/ \E p, c : p # Null /\ OrDefault(c, {}) = c /\ a = LightAction(p, c)
    \/ \E n, d : n # Null /\ d # Null /\ a = FullAction(n, d)

Fields(e, d, t, a, c, n, l, f) ==
    [type |-> "routine", enabled |-> e, description |-> d, trigger |-> t, action |-> a,
     cooldown |-> c, notify |-> n, last_run_at |-> l, next_fire_at |-> f]

RoutineOK(r) ==
    \E e, d, t, a, c, n, l, f :
        r = Fields(e, d, t, a, c, n, l, f) /\ TriggerOK(t) /\ ActionOK(a)

\* The row is that of a routine, with a next fire time of its own.
RowOf(r, next) == [create_row(r) EXCEPT !.next_fire_at = next]

\* What no update changes.
Alike(r, made) ==
    /\ Unprompted(r.action) = Unprompted(made.action)
    /\ r.cooldown = made.cooldown /\ r.notify = made.notify

Stored(steps, row, made, told, gone, ended, ran, hands) ==
    [pc |-> "stored", steps |-> steps, row |-> row, made |-> made, told |-> told,
     lost |-> gone, ended |-> ended, ran |-> ran, hands |-> hands]

Hand(type, r, p, missed) == With(type, [read |-> r, asked |-> p, missed |-> missed])

\* Whoever is under way holds a routine that differs from the stored one in
\* the fields it has missed at most.
HandOK(k, cur, made) ==
    \/ k = NoHand
    \/ \E type, r, p, missed :
          /\ k = Hand(type, r, p, missed)
          /\ RoutineOK(r) /\ Alike(r, made)
          /\ \A x \in Editable \ missed : Told(r)[x] = Told(cur)[x]
          /\ \/ type = "run"
             \/ /\ type = "update"
                /\ p \in UpdateParams /\ Get(p, "schedule") \notin BadSchedules

RowHolds(cur, next, made, told, gone, ended, ran, hands) ==
    /\ RoutineOK(cur) /\ Alike(cur, made)
    /\ cur.last_run_at = IF ended THEN "ran" ELSE Null
    /\ \A x \in Editable \ gone : Told(cur)[x] = told[x]
    /\ ran => next = FireTime(cur.trigger)
    /\ hands = [h \in Hands |-> hands[h]]
    /\ \A h \in Hands : HandOK(hands[h], cur, made)

RowInv ==
    routine.pc = "stored" =>
        \E steps, cur, next, made, told, gone, ended, ran, hands :
            /\ routine = Stored(steps, RowOf(cur, next), made, told, gone, ended, ran, hands)
            /\ RowHolds(cur, next, made, told, gone, ended, ran, hands)

\* A trigger's configuration column reads back as the trigger.
LEMMA TriggerReads ==
  ASSUME NEW t, TriggerOK(t)
  PROVE  trigger_from_db(type_tag(t), trigger_to_config(t)) = t /\ t # Failed
<1>1. CASE \E s : s \notin BadSchedules \cup {Null} /\ t = With("cron", [schedule |-> s])
  <2>1. PICK s : s # Null /\ t = With("cron", [schedule |-> s])
    BY <1>1
  <2>2. t.type = "cron" /\ t.schedule = s
    BY <2>1 DEF With
  <2>3. trigger_to_config(t) = [schedule |-> s]
    BY <2>2 DEF trigger_to_config
  <2>4. Get([schedule |-> s], "schedule") = s
    BY DEF Get
  <2>5. trigger_from_db("cron", [schedule |-> s]) = With("cron", [schedule |-> s])
    BY <2>1, <2>4 DEF trigger_from_db
  <2> QED BY <2>1, <2>2, <2>3, <2>5 DEF type_tag, Failed, Is
<1>2. CASE \E c, x : x # Null /\ t = With("event", [channel |-> c, pattern |-> x])
  <2>1. PICK c, x : x # Null /\ t = With("event", [channel |-> c, pattern |-> x])
    BY <1>2
  <2>2. t.type = "event" /\ t.channel = c /\ t.pattern = x
    BY <2>1 DEF With
  <2> DEFINE g == [pattern |-> x, channel |-> c]
  <2>3. trigger_to_config(t) = g
    BY <2>2 DEF trigger_to_config
  <2>4. Get(g, "pattern") = x /\ Get(g, "channel") = c /\ g["pattern"] = x
    BY DEF Get
  <2>5. g = [channel |-> c, pattern |-> x]
    OBVIOUS
  <2>6. trigger_from_db("event", g) = With("event", g)
    BY <2>1, <2>4 DEF trigger_from_db
  <2> QED BY <2>1, <2>2, <2>3, <2>5, <2>6 DEF type_tag, Failed, Is
<1>3. CASE t = With("webhook", [path |-> Null, secret |-> Null])
  <2>2. t.type = "webhook" /\ t.path = Null /\ t.secret = Null
    BY <1>3 DEF With
  <2> DEFINE g == [path |-> Null, secret |-> Null]
  <2>3. trigger_to_config(t) = g
    BY <2>2 DEF trigger_to_config
  <2>4. Get(g, "path") = Null /\ Get(g, "secret") = Null
    BY DEF Get
  <2>6. trigger_from_db("webhook", g) = With("webhook", g)
    BY <2>4 DEF trigger_from_db
  <2> QED BY <1>3, <2>2, <2>3, <2>6 DEF type_tag, Failed, Is
<1>4. CASE t = Is("manual")
  <2>1. t.type = "manual"
    BY <1>4 DEF Is
  <2>2. trigger_from_db("manual", trigger_to_config(t)) = Is("manual")
    BY DEF trigger_from_db
  <2> QED BY <1>4, <2>1, <2>2 DEF type_tag, Failed, Is
<1> QED BY <1>1, <1>2, <1>3, <1>4 DEF TriggerOK

\* So does an action's.
LEMMA ActionReads ==
  ASSUME NEW a, ActionOK(a)
  PROVE  action_from_db(type_tag(a), action_to_config(a)) = a /\ a # Failed
<1>1. CASE \E p, c : p # Null /\ OrDefault(c, {}) = c /\ a = LightAction(p, c)
  <2>1. PICK p, c : p # Null /\ OrDefault(c, {}) = c /\ a = LightAction(p, c)
    BY <1>1
  <2> DEFINE g == [prompt |-> p, context_paths |-> c, max_tokens |-> 4096]
  <2>2. a.type = "lightweight" /\ action_to_config(a) = g
    BY <2>1 DEF LightAction, FullAction, With, action_to_config
  <2>3. Get(g, "prompt") = p /\ Get(g, "context_paths") = c /\ Get(g, "max_tokens") = 4096
    BY DEF Get
  <2>4. OrDefault(4096, default_max_tokens) = 4096
    BY DEF OrDefault, default_max_tokens
  <2>5. action_from_db("lightweight", g) = With("lightweight", g)
    BY <2>1, <2>3, <2>4 DEF action_from_db
  <2>6. a # Failed
    BY <2>2 DEF Failed, Is
  <2>7. With("lightweight", g) = a
    BY <2>1 DEF LightAction
  <2> HIDE DEF g
  <2>8. action_from_db(type_tag(a), action_to_config(a)) = With("lightweight", g)
    BY <2>2, <2>5 DEF type_tag
  <2> QED BY <2>6, <2>7, <2>8
<1>2. CASE \E n, d : n # Null /\ d # Null /\ a = FullAction(n, d)
  <2>1. PICK n, d : n # Null /\ d # Null /\ a = FullAction(n, d)
    BY <1>2
  <2> DEFINE g == [title |-> n, description |-> d, max_iterations |-> 10]
  <2>2. a.type = "full_job" /\ action_to_config(a) = g
    BY <2>1 DEF LightAction, FullAction, With, action_to_config
  <2>3. Get(g, "title") = n /\ Get(g, "description") = d /\ Get(g, "max_iterations") = 10
    BY DEF Get
  <2>4. OrDefault(10, default_max_iterations) = 10
    BY DEF OrDefault, default_max_iterations
  <2>5. action_from_db("full_job", g) = With("full_job", g)
    BY <2>1, <2>3, <2>4 DEF action_from_db
  <2>6. a # Failed
    BY <2>2 DEF Failed, Is
  <2>7. With("full_job", g) = a
    BY <2>1 DEF FullAction
  <2> HIDE DEF g
  <2>8. action_from_db(type_tag(a), action_to_config(a)) = With("full_job", g)
    BY <2>2, <2>5 DEF type_tag
  <2> QED BY <2>6, <2>7, <2>8
<1> QED BY <1>1, <1>2 DEF ActionOK

\* The row of a routine, column by column.
Columns(e, d, t, a, c, n, l, f) ==
    [enabled |-> e, description |-> d, trigger_type |-> type_tag(t),
     trigger_config |-> trigger_to_config(t), action_type |-> type_tag(a),
     action_config |-> action_to_config(a), cooldown_secs |-> c, notify |-> n,
     last_run_at |-> l, next_fire_at |-> f]

\* A row written from a routine's fields holds these fields, column by column
\* (create_routine).
LEMMA RowColumns ==
  ASSUME NEW e, NEW d, NEW t, NEW a, NEW c, NEW n, NEW l, NEW f
  PROVE  create_row(Fields(e, d, t, a, c, n, l, f)) = Columns(e, d, t, a, c, n, l, f)
  BY DEF create_row, Fields, Columns

\* Setting the next fire time of a row changes that column only.
LEMMA ColumnNext ==
  ASSUME NEW e, NEW d, NEW t, NEW a, NEW c, NEW n, NEW l, NEW f, NEW g
  PROVE  [Columns(e, d, t, a, c, n, l, f) EXCEPT !.next_fire_at = g]
             = Columns(e, d, t, a, c, n, l, g)
  BY DEF Columns

SetRuntime(r, k, g) == [r EXCEPT !.last_run_at = k, !.next_fire_at = g]

\* update_routine_runtime writes the last run and the next fire time and no other column.
LEMMA ColumnLast ==
  ASSUME NEW r, NEW e, NEW d, NEW t, NEW a, NEW c, NEW n, NEW l, NEW f, NEW k, NEW g,
         r = Columns(e, d, t, a, c, n, l, f)
  PROVE  SetRuntime(r, k, g) = Columns(e, d, t, a, c, n, k, g)
<1> DEFINE x == [r EXCEPT !.last_run_at = k]
<1>1. x = Columns(e, d, t, a, c, n, k, f)
  BY DEF Columns
<1>2. SetRuntime(r, k, g) = [x EXCEPT !.next_fire_at = g]
  BY Zenon DEF SetRuntime
<1> HIDE DEF x
<1>3. [x EXCEPT !.next_fire_at = g] = Columns(e, d, t, a, c, n, k, g)
  BY <1>1 DEF Columns
<1> QED BY <1>2, <1>3

\* Reading the columns of a written routine back gives its fields.
LEMMA RowOfFields ==
  ASSUME NEW e, NEW d, NEW t, NEW a, NEW c, NEW n, NEW l, NEW f, NEW g
  PROVE  RowOf(Fields(e, d, t, a, c, n, l, f), g) = Columns(e, d, t, a, c, n, l, g)
  BY RowColumns, ColumnNext DEF RowOf

\* What was stored of a routine reads back as the routine.
LEMMA RowReads ==
  ASSUME NEW r, RoutineOK(r), NEW next
  PROVE  /\ row_to_routine(RowOf(r, next)) = [r EXCEPT !.next_fire_at = next]
         /\ row_to_routine(RowOf(r, next)) # Failed
<1>1. PICK e, d, t, a, c, n, l, f :
          r = Fields(e, d, t, a, c, n, l, f) /\ TriggerOK(t) /\ ActionOK(a)
  BY DEF RoutineOK
<1>2. RowOf(r, next) = Columns(e, d, t, a, c, n, l, next)
  BY <1>1, RowOfFields
<1>3. row_to_routine(RowOf(r, next)) = Fields(e, d, t, a, c, n, l, next)
  BY <1>1, <1>2, TriggerReads, ActionReads DEF row_to_routine, Fields, Columns
<1>4. [r EXCEPT !.next_fire_at = next] = Fields(e, d, t, a, c, n, l, next)
  BY <1>1 DEF Fields
<1>5. Fields(e, d, t, a, c, n, l, next).type # Failed.type
  BY DEF Fields, Failed, Is
<1> QED BY <1>3, <1>4, <1>5

\* A create call that gets as far as a row has a trigger of one of the four kinds, well
\* formed.
LEMMA TriggerMade ==
  ASSUME NEW p \in CreateParams, CreateTrigger(p) # Failed
  PROVE  TriggerOK(CreateTrigger(p))
<1>1. CASE p.trigger_type = "cron"
  BY <1>1 DEF CreateTrigger, TriggerOK
<1>2. CASE p.trigger_type = "event"
  BY <1>2 DEF CreateTrigger, TriggerOK
<1>3. CASE p.trigger_type = "webhook"
  BY <1>3 DEF CreateTrigger, TriggerOK
<1>4. CASE p.trigger_type = "manual"
  BY <1>4 DEF CreateTrigger, TriggerOK
<1>5. CASE p.trigger_type \notin {"cron", "event", "webhook", "manual"}
  BY <1>5 DEF CreateTrigger
<1> QED BY <1>1, <1>2, <1>3, <1>4, <1>5

\* A create call that gets as far as a row has an action that is well formed.
LEMMA ActionMade ==
  ASSUME NEW p \in CreateParams, CreateAction(p) # Failed
  PROVE  ActionOK(CreateAction(p))
<1>1. Null \notin {p.name, p.prompt}
  BY RoutineRowAssumption
<1>2. CASE OrDefault(p.action_type, "lightweight") = "lightweight"
  <2> DEFINE c == OrDefault(p.context_paths, {})
  <2>1. OrDefault(c, {}) = c
    BY DEF OrDefault
  <2>3. p.action_type # "full_job"
    <3>1. Null # "full_job"
      BY RoutineRowAssumption
    <3> QED BY <1>2, <3>1 DEF OrDefault
  <2>2. CreateAction(p) = LightAction(p.prompt, c)
    BY <1>2, <2>3 DEF CreateAction, LightAction
  <2> HIDE DEF c
  <2>4. p.prompt # Null
    BY <1>1
  <2> QED BY <2>1, <2>2, <2>4 DEF ActionOK
<1>3. CASE /\ OrDefault(p.action_type, "lightweight") # "lightweight"
           /\ p.action_type = "full_job"
  <2>1. CreateAction(p) = FullAction(p.name, p.prompt)
    BY <1>3 DEF CreateAction, FullAction
  <2> QED BY <1>1, <2>1 DEF ActionOK
<1>4. CASE /\ OrDefault(p.action_type, "lightweight") # "lightweight"
           /\ p.action_type # "full_job"
  BY <1>4 DEF CreateAction
<1> QED BY <1>2, <1>3, <1>4

\* A prompt goes into whichever action there is and leaves the rest of it.
LEMMA PromptEdits ==
  ASSUME NEW a, ActionOK(a), NEW x, x # Null
  PROVE  LET b == IF a.type = "lightweight" THEN [a EXCEPT !.prompt = x]
                  ELSE [a EXCEPT !.description = x]
         IN  ActionOK(b) /\ Unprompted(b) = Unprompted(a) /\ Prompt(b) = x
<1>1. CASE \E p, c : p # Null /\ OrDefault(c, {}) = c /\ a = LightAction(p, c)
  <2>1. PICK p, c : p # Null /\ OrDefault(c, {}) = c /\ a = LightAction(p, c)
    BY <1>1
  <2> DEFINE b == [a EXCEPT !.prompt = x]
  <2>2. a.type = "lightweight"
    BY <2>1 DEF LightAction, FullAction, With
  <2>3. b = LightAction(x, c)
    BY <2>1 DEF LightAction, FullAction, With
  <2>4. DOMAIN a = DOMAIN b /\ \A y \in DOMAIN a \ {"prompt"} : b[y] = a[y]
    BY <2>1 DEF LightAction, FullAction, With
  <2>7. Prompt(b) = x
    BY <2>3 DEF Prompt, LightAction, FullAction, With
  <2> HIDE DEF b
  <2>5. ActionOK(b)
    BY <2>1, <2>3 DEF ActionOK
  <2>6. Unprompted(b) = Unprompted(a)
    BY <2>4 DEF Unprompted
  <2> QED BY <2>2, <2>5, <2>6, <2>7 DEF b
<1>2. CASE \E n, d : n # Null /\ d # Null /\ a = FullAction(n, d)
  <2>1. PICK n, d : n # Null /\ d # Null /\ a = FullAction(n, d)
    BY <1>2
  <2> DEFINE b == [a EXCEPT !.description = x]
  <2>2. a.type # "lightweight"
    BY <2>1 DEF LightAction, FullAction, With
  <2>3. b = FullAction(n, x)
    BY <2>1 DEF LightAction, FullAction, With
  <2>4. DOMAIN a = DOMAIN b /\ \A y \in DOMAIN a \ {"description"} : b[y] = a[y]
    BY <2>1 DEF LightAction, FullAction, With
  <2>7. Prompt(b) = x
    BY <2>3 DEF Prompt, LightAction, FullAction, With
  <2> HIDE DEF b
  <2>5. ActionOK(b)
    BY <2>1, <2>3 DEF ActionOK
  <2>6. Unprompted(b) = Unprompted(a)
    BY <2>4 DEF Unprompted
  <2> QED BY <2>2, <2>5, <2>6, <2>7 DEF b
<1> QED BY <1>1, <1>2 DEF ActionOK

\* A trigger of a routine has a schedule that can be parsed, which names its fire time.
LEMMA Firing ==
  ASSUME NEW t, TriggerOK(t), t.type = "cron"
  PROVE  FireTime(t) = t.schedule
<1>1. t.schedule \notin BadSchedules
  BY DEF TriggerOK, With, Is
<1> QED BY <1>1 DEF FireTime, next_cron_fire

\* What a routine made of fields has.
LEMMA FieldsHave ==
  ASSUME NEW e, NEW d, NEW t, NEW a, NEW c, NEW n, NEW l, NEW f, NEW r,
         r = Fields(e, d, t, a, c, n, l, f)
  PROVE  /\ r.enabled = e /\ r.description = d /\ r.trigger = t /\ r.action = a
         /\ r.cooldown = c /\ r.notify = n /\ r.last_run_at = l /\ r.next_fire_at = f
         /\ Told(r) = [enabled |-> e, description |-> d, prompt |-> Prompt(a), schedule |-> t]
  BY DEF Fields, Told

\* An edit makes a routine with the values asked for and leaves the rest.
LEMMA Edited ==
  ASSUME NEW r, RoutineOK(r), NEW p \in UpdateParams, Get(p, "schedule") \notin BadSchedules,
         NEW new, new = Edit(r, p)
  PROVE  /\ RoutineOK(new) /\ Alike(new, r)
         /\ \A x \in Editable : Told(new)[x] = Requested(Told(r), p)[x]
<1>4. PICK e, d, t, a, c, n, l, f :
          r = Fields(e, d, t, a, c, n, l, f) /\ TriggerOK(t) /\ ActionOK(a)
  BY DEF RoutineOK
<1> DEFINE a2 == IF "prompt" \notin DOMAIN p THEN a
                 ELSE IF a.type = "lightweight" THEN [a EXCEPT !.prompt = p.prompt]
                 ELSE [a EXCEPT !.description = p.prompt]
           t2 == IF "schedule" \in DOMAIN p THEN Cron(p.schedule) ELSE t
           f2 == IF "schedule" \in DOMAIN p THEN next_cron_fire(p.schedule).at ELSE f
           e2 == OrDefault(Get(p, "enabled"), e)
           d2 == OrDefault(Get(p, "description"), d)
<1>6. new = Fields(e2, d2, t2, a2, c, n, l, f2)
  <2> DEFINE r1 == [r EXCEPT !.enabled = e2]
             r2 == [r1 EXCEPT !.description = d2]
             r3 == [r2 EXCEPT !.action = a2]
             r4 == [r3 EXCEPT !.trigger = t2]
  <2>1. r.enabled = e /\ r.description = d /\ r.trigger = t /\ r.action = a /\ r.next_fire_at = f
    BY <1>4 DEF Fields
  <2>2. new = [r EXCEPT !.enabled = e2, !.description = d2, !.action = a2, !.trigger = t2,
                        !.next_fire_at = f2]
    BY <2>1 DEF Edit
  <2> HIDE DEF e2, d2, t2, a2, f2
  <2>3. new = [r4 EXCEPT !.next_fire_at = f2]
    BY <2>2, Zenon
  <2>4. r1 = Fields(e2, d, t, a, c, n, l, f)
    BY <1>4 DEF Fields
  <2> HIDE DEF r1
  <2>5. r2 = Fields(e2, d2, t, a, c, n, l, f)
    BY <2>4 DEF Fields
  <2> HIDE DEF r2
  <2>6. r3 = Fields(e2, d2, t, a2, c, n, l, f)
    BY <2>5 DEF Fields
  <2> HIDE DEF r3
  <2>7. r4 = Fields(e2, d2, t2, a2, c, n, l, f)
    BY <2>6 DEF Fields
  <2> HIDE DEF r4
  <2> QED BY <2>3, <2>7 DEF Fields
<1>7. /\ ActionOK(a2) /\ Unprompted(a2) = Unprompted(a)
      /\ Prompt(a2) = IF "prompt" \in DOMAIN p THEN p.prompt ELSE Prompt(a)
  <2>1. CASE "prompt" \in DOMAIN p
    <3>1. p.prompt # Null
      BY <2>1, RoutineRowAssumption
    <3> QED BY <1>4, <2>1, <3>1, PromptEdits
  <2>2. CASE "prompt" \notin DOMAIN p
    BY <1>4, <2>2
  <2> QED BY <2>1, <2>2
<1>8. TriggerOK(t2)
  <2>1. CASE "schedule" \in DOMAIN p
    <3>1. p.schedule # Null /\ p.schedule \notin BadSchedules
      BY <2>1, RoutineRowAssumption DEF Get
    <3> QED BY <2>1, <3>1 DEF TriggerOK, Cron
  <2>2. CASE "schedule" \notin DOMAIN p
    BY <1>4, <2>2
  <2> QED BY <2>1, <2>2
<1>9. /\ e2 = IF "enabled" \in DOMAIN p THEN p["enabled"] ELSE e
      /\ d2 = IF "description" \in DOMAIN p THEN p["description"] ELSE d
  BY RoutineRowAssumption DEF Get, OrDefault
<1>10. t2 = IF "schedule" \in DOMAIN p THEN Cron(p.schedule) ELSE t
  OBVIOUS
<1> HIDE DEF a2, t2, f2, e2, d2
<1>11. RoutineOK(new)
  BY <1>6, <1>7, <1>8 DEF RoutineOK
<1>12. Alike(new, r)
  <2>1. new.action = a2 /\ new.cooldown = c /\ new.notify = n
    BY <1>6, FieldsHave
  <2>2. r.action = a /\ r.cooldown = c /\ r.notify = n
    BY <1>4, FieldsHave
  <2> QED BY <1>7, <2>1, <2>2 DEF Alike
<1>13. ASSUME NEW x \in Editable PROVE Told(new)[x] = Requested(Told(r), p)[x]
  <2> DEFINE told == Told(r)
  <2>1. Told(new) = [enabled |-> e2, description |-> d2, prompt |-> Prompt(a2), schedule |-> t2]
    BY <1>6, FieldsHave
  <2>2. told = [enabled |-> e, description |-> d, prompt |-> Prompt(a), schedule |-> t]
    BY <1>4, FieldsHave
  <2> HIDE DEF told
  <2>d. ASSUME NEW old, NEW q
        PROVE  Requested(old, q)[x] = IF x \notin DOMAIN q THEN old[x]
                                      ELSE IF x = "schedule" THEN Cron(q.schedule) ELSE q[x]
    BY DEF Requested
  <2> DEFINE now == Told(new)
             want == Requested(told, p)
  <2>a. /\ told["enabled"] = e /\ told["description"] = d
        /\ told["prompt"] = Prompt(a) /\ told["schedule"] = t
    BY <2>2
  <2>b. /\ now["enabled"] = e2 /\ now["description"] = d2
        /\ now["prompt"] = Prompt(a2) /\ now["schedule"] = t2
    BY <2>1
  <2>c. want[x] = IF x \notin DOMAIN p THEN told[x]
                  ELSE IF x = "schedule" THEN Cron(p.schedule) ELSE p[x]
    BY <2>d
  <2> SUFFICES now[x] = want[x]
    BY DEF told
  <2> HIDE DEF now, want
  <2>4. CASE x = "enabled"
    BY <1>9, <2>a, <2>b, <2>c, <2>4
  <2>5. CASE x = "description"
    BY <1>9, <2>a, <2>b, <2>c, <2>5
  <2>6. CASE x = "prompt"
    BY <1>7, <2>a, <2>b, <2>c, <2>6
  <2>7. CASE x = "schedule"
    BY <1>10, <2>a, <2>b, <2>c, <2>7
  <2> QED BY <2>4, <2>5, <2>6, <2>7 DEF Editable
<1> QED BY <1>11, <1>12, <1>13

\* The configuration written by an update, with the last run that the row had.
LEMMA RowEdited ==
  ASSUME NEW cur, RoutineOK(cur), NEW new, RoutineOK(new), NEW next
  PROVE  \E late :
            /\ update_row(RowOf(cur, next), new) = RowOf(late, next)
            /\ RoutineOK(late) /\ Told(late) = Told(new) /\ Alike(late, new)
            /\ late.last_run_at = cur.last_run_at /\ late.trigger = new.trigger
<1>1. PICK e0, d0, t0, a0, c0, n0, k, f0 : cur = Fields(e0, d0, t0, a0, c0, n0, k, f0)
  BY DEF RoutineOK
<1>2. PICK e, d, t, a, c, n, l, f :
          new = Fields(e, d, t, a, c, n, l, f) /\ TriggerOK(t) /\ ActionOK(a)
  BY DEF RoutineOK
<1> DEFINE late == Fields(e, d, t, a, c, n, k, f)
           row == RowOf(cur, next)
<1>3. row = Columns(e0, d0, t0, a0, c0, n0, k, next)
  BY <1>1, RowOfFields
<1>4. row.last_run_at = k /\ row.next_fire_at = next
  BY <1>3 DEF Columns
<1>5. create_row(new) = Columns(e, d, t, a, c, n, l, f)
  BY <1>2, RowColumns
<1> HIDE DEF row
<1>6. update_row(row, new) = SetRuntime(create_row(new), k, next)
  BY <1>4 DEF update_row, SetRuntime
<1>7. update_row(row, new) = Columns(e, d, t, a, c, n, k, next)
  BY <1>5, <1>6, ColumnLast
<1>8. RowOf(late, next) = Columns(e, d, t, a, c, n, k, next)
  BY RowOfFields
<1>9. RoutineOK(late)
  BY <1>2 DEF RoutineOK
<1>10. /\ new.action = a /\ new.cooldown = c /\ new.notify = n /\ new.trigger = t
       /\ Told(new) = [enabled |-> e, description |-> d, prompt |-> Prompt(a), schedule |-> t]
  BY <1>2, FieldsHave
<1>11. /\ late.action = a /\ late.cooldown = c /\ late.notify = n /\ late.trigger = t
       /\ late.last_run_at = k
       /\ Told(late) = [enabled |-> e, description |-> d, prompt |-> Prompt(a), schedule |-> t]
  BY FieldsHave
<1>12. cur.last_run_at = k
  BY <1>1, FieldsHave
<1> HIDE DEF late
<1>13. Alike(late, new) /\ Told(late) = Told(new) /\ late.trigger = new.trigger
  BY <1>10, <1>11 DEF Alike
<1> QED BY <1>7, <1>8, <1>9, <1>11, <1>12, <1>13 DEF row

\* The runtime columns that the end of a run writes.
LEMMA RowRuntime ==
  ASSUME NEW cur, RoutineOK(cur), NEW next, NEW fire, NEW row, row = RowOf(cur, next)
  PROVE  \E late :
            /\ SetRuntime(row, "ran", fire) = RowOf(late, fire)
            /\ RoutineOK(late) /\ Told(late) = Told(cur) /\ Alike(late, cur)
            /\ late.last_run_at = "ran" /\ late.trigger = cur.trigger
<1>2. PICK e, d, t, a, c, n, l, f :
          cur = Fields(e, d, t, a, c, n, l, f) /\ TriggerOK(t) /\ ActionOK(a)
  BY DEF RoutineOK
<1> DEFINE late == Fields(e, d, t, a, c, n, "ran", f)
<1>3. row = Columns(e, d, t, a, c, n, l, next)
  BY <1>2, RowOfFields
<1>7. SetRuntime(row, "ran", fire) = Columns(e, d, t, a, c, n, "ran", fire)
  BY <1>3, ColumnLast
<1>8. RowOf(late, fire) = Columns(e, d, t, a, c, n, "ran", fire)
  BY RowOfFields
<1>9. RoutineOK(late)
  BY <1>2 DEF RoutineOK
<1>10. /\ cur.action = a /\ cur.cooldown = c /\ cur.notify = n /\ cur.trigger = t
       /\ Told(cur) = [enabled |-> e, description |-> d, prompt |-> Prompt(a), schedule |-> t]
  BY <1>2, FieldsHave
<1>11. /\ late.action = a /\ late.cooldown = c /\ late.notify = n /\ late.trigger = t
       /\ late.last_run_at = "ran"
       /\ Told(late) = [enabled |-> e, description |-> d, prompt |-> Prompt(a), schedule |-> t]
  BY FieldsHave
<1> HIDE DEF late
<1>13. Alike(late, cur) /\ Told(late) = Told(cur) /\ late.trigger = cur.trigger
  BY <1>10, <1>11 DEF Alike
<1> QED BY <1>7, <1>8, <1>9, <1>11, <1>13

\* Someone under way who misses the fields that change stays in order.
LEMMA HandMisses ==
  ASSUME NEW k, NEW cur, NEW made, HandOK(k, cur, made), NEW late, NEW fields,
         \A x \in Editable \ fields : Told(late)[x] = Told(cur)[x]
  PROVE  k # NoHand => HandOK([k EXCEPT !.missed = @ \cup fields], late, made)
<1> SUFFICES ASSUME k # NoHand PROVE HandOK([k EXCEPT !.missed = @ \cup fields], late, made)
  OBVIOUS
<1>1. PICK type, r, p, missed :
          /\ k = Hand(type, r, p, missed)
          /\ RoutineOK(r) /\ Alike(r, made)
          /\ \A x \in Editable \ missed : Told(r)[x] = Told(cur)[x]
          /\ \/ type = "run"
             \/ /\ type = "update"
                /\ p \in UpdateParams /\ Get(p, "schedule") \notin BadSchedules
  BY DEF HandOK
<1>2. [k EXCEPT !.missed = @ \cup fields] = Hand(type, r, p, missed \cup fields)
  <2> DEFINE m == missed \cup fields
  <2>1. k.missed = missed
    BY <1>1 DEF Hand, With
  <2>2. [k EXCEPT !.missed = @ \cup fields] = [k EXCEPT !.missed = m]
    BY <2>1
  <2> HIDE DEF m
  <2>3. [k EXCEPT !.missed = m] = Hand(type, r, p, m)
    BY <1>1 DEF Hand, With
  <2> QED BY <2>2, <2>3 DEF m
<1>3. \A x \in Editable \ (missed \cup fields) : Told(r)[x] = Told(late)[x]
  BY <1>1
<1> QED BY <1>1, <1>2, <1>3 DEF HandOK

\* A hand that is under way, field by field.
LEMMA HandHas ==
  ASSUME NEW k, NEW cur, NEW made, HandOK(k, cur, made), k.type \in {"update", "run"}
  PROVE  /\ RoutineOK(k.read) /\ Alike(k.read, made)
         /\ \A x \in Editable \ k.missed : Told(k.read)[x] = Told(cur)[x]
         /\ k.type = "update" =>
               k.asked \in UpdateParams /\ Get(k.asked, "schedule") \notin BadSchedules
<1>1. k # NoHand
  BY DEF NoHand, Is
<1>2. PICK type, r, p, missed :
          /\ k = Hand(type, r, p, missed)
          /\ RoutineOK(r) /\ Alike(r, made)
          /\ \A x \in Editable \ missed : Told(r)[x] = Told(cur)[x]
          /\ \/ type = "run"
             \/ /\ type = "update"
                /\ p \in UpdateParams /\ Get(p, "schedule") \notin BadSchedules
  BY <1>1 DEF HandOK
<1>3. k.type = type /\ k.read = r /\ k.asked = p /\ k.missed = missed
  BY <1>2 DEF Hand, With
<1> QED BY <1>2, <1>3

\* The invariant unfolded.
LEMMA RowState ==
  ASSUME RowInv, routine.pc = "stored"
  PROVE  \E cur, next :
            /\ routine = Stored(routine.steps, RowOf(cur, next), routine.made, routine.told,
                                routine.lost, routine.ended, routine.ran, routine.hands)
            /\ routine.row = RowOf(cur, next)
            /\ row_to_routine(routine.row) = [cur EXCEPT !.next_fire_at = next]
            /\ row_to_routine(routine.row) # Failed
            /\ RowHolds(cur, next, routine.made, routine.told, routine.lost, routine.ended,
                        routine.ran, routine.hands)
<1>1. PICK steps, cur, next, made, told, gone, ended, ran, hands :
          /\ routine = Stored(steps, RowOf(cur, next), made, told, gone, ended, ran, hands)
          /\ RowHolds(cur, next, made, told, gone, ended, ran, hands)
  BY DEF RowInv
<1>2. /\ routine.steps = steps /\ routine.row = RowOf(cur, next) /\ routine.made = made
      /\ routine.told = told /\ routine.lost = gone /\ routine.ended = ended
      /\ routine.ran = ran /\ routine.hands = hands
  BY <1>1 DEF Stored
<1>3. RoutineOK(cur)
  BY <1>1 DEF RowHolds
<1> QED BY <1>1, <1>2, <1>3, RowReads

SetHands(R, a) == [R EXCEPT !.hands = a]
SetRead(R, a, b) == [R EXCEPT !.hands = a, !.steps = b]
SetUpdated(R, a, b, c, d, e) ==
    [R EXCEPT !.row = b, !.told = c, !.lost = d, !.ran = e, !.hands = a]
SetRan(R, a, b, c, e) == [R EXCEPT !.row = b, !.ended = c, !.ran = e, !.hands = a]

\* Whoever is under way changes, and nothing else of the stored routine.
LEMMA StoredHands ==
  ASSUME NEW R, NEW steps, NEW row, NEW made, NEW told, NEW gone, NEW ended, NEW ran, NEW hands,
         R = Stored(steps, row, made, told, gone, ended, ran, hands), NEW a
  PROVE  SetHands(R, a) = Stored(steps, row, made, told, gone, ended, ran, a)
  BY DEF Stored, SetHands

\* Someone starts.
LEMMA StoredRead ==
  ASSUME NEW R, NEW steps, NEW row, NEW made, NEW told, NEW gone, NEW ended, NEW ran, NEW hands,
         R = Stored(steps, row, made, told, gone, ended, ran, hands), NEW a, NEW b
  PROVE  SetRead(R, a, b) = Stored(b, row, made, told, gone, ended, ran, a)
<1> DEFINE R1 == [R EXCEPT !.hands = a]
<1>1. SetRead(R, a, b) = [R1 EXCEPT !.steps = b]
  BY Zenon DEF SetRead
<1>2. R1 = Stored(steps, row, made, told, gone, ended, ran, a)
  BY DEF Stored
<1> HIDE DEF R1
<1> QED BY <1>1, <1>2 DEF Stored

\* An update is written.
LEMMA StoredUpdated ==
  ASSUME NEW R, NEW steps, NEW row, NEW made, NEW told, NEW gone, NEW ended, NEW ran, NEW hands,
         R = Stored(steps, row, made, told, gone, ended, ran, hands),
         NEW a, NEW b, NEW c, NEW d, NEW e
  PROVE  SetUpdated(R, a, b, c, d, e) = Stored(steps, b, made, c, d, ended, e, a)
<1> DEFINE R1 == [R EXCEPT !.row = b]
           R2 == [R1 EXCEPT !.told = c]
           R3 == [R2 EXCEPT !.lost = d]
           R4 == [R3 EXCEPT !.ran = e]
<1>1. SetUpdated(R, a, b, c, d, e) = [R4 EXCEPT !.hands = a]
  BY Zenon DEF SetUpdated
<1>2. R1 = Stored(steps, b, made, told, gone, ended, ran, hands)
  BY DEF Stored
<1> HIDE DEF R1
<1>3. R2 = Stored(steps, b, made, c, gone, ended, ran, hands)
  BY <1>2 DEF Stored
<1> HIDE DEF R2
<1>4. R3 = Stored(steps, b, made, c, d, ended, ran, hands)
  BY <1>3 DEF Stored
<1> HIDE DEF R3
<1>5. R4 = Stored(steps, b, made, c, d, ended, e, hands)
  BY <1>4 DEF Stored
<1> HIDE DEF R4
<1> QED BY <1>1, <1>5 DEF Stored

\* A run has ended.
LEMMA StoredRan ==
  ASSUME NEW steps, NEW row, NEW made, NEW told, NEW gone, NEW ended, NEW ran, NEW hands,
         NEW a, NEW b, NEW c, NEW e
  PROVE  SetRan(Stored(steps, row, made, told, gone, ended, ran, hands), a, b, c, e)
             = Stored(steps, b, made, told, gone, c, e, a)
<1> DEFINE R == Stored(steps, row, made, told, gone, ended, ran, hands)
           R1 == [R EXCEPT !.row = b]
           R2 == [R1 EXCEPT !.ended = c]
           R3 == [R2 EXCEPT !.ran = e]
<1>1. SetRan(R, a, b, c, e) = [R3 EXCEPT !.hands = a]
  BY Zenon DEF SetRan
<1>2. R1 = Stored(steps, b, made, told, gone, ended, ran, hands)
  BY DEF Stored
<1> HIDE DEF R1
<1>3. R2 = Stored(steps, b, made, told, gone, c, ran, hands)
  BY <1>2 DEF Stored
<1> HIDE DEF R2
<1>4. R3 = Stored(steps, b, made, told, gone, c, e, hands)
  BY <1>3 DEF Stored
<1> HIDE DEF R3
<1> QED BY <1>1, <1>4 DEF Stored

\* routine_create leaves a row that reads back as the routine it made.
LEMMA RowCreated ==
  ASSUME NEW p \in CreateParams, CreateRoutine(p)
  PROVE  RowInv'
<1> DEFINE trigger == CreateTrigger(p)
           action == CreateAction(p)
           next == FireTime(trigger)
           on == TRUE
           pause == OrDefault(p.cooldown_secs, 300)
           r == Fields(on, p.description, trigger, action, pause, DefaultNotify, Null, next)
           hands == [h \in Hands |-> NoHand]
<1>1. CASE Failed \in {trigger, action}
  <2>1. routine' = [NoRow EXCEPT !.pc = "refused"]
    BY <1>1 DEF CreateRoutine
  <2>2. routine'.pc = "refused"
    BY <2>1 DEF NoRow
  <2> QED BY <2>2 DEF RowInv
<1>2. CASE Failed \notin {trigger, action}
  <2>1. routine' = Stored(0, create_row(r), r, Told(r), {}, FALSE, TRUE, hands)
    BY <1>2 DEF CreateRoutine, Stored, Fields
  <2>2. TriggerOK(trigger) /\ ActionOK(action)
    BY <1>2, TriggerMade, ActionMade
  <2> HIDE DEF trigger, action, on, pause
  <2> DEFINE fire == next
  <2> HIDE DEF fire
  <2>4. RoutineOK(r)
    BY <2>2 DEF RoutineOK
  <2>5. /\ create_row(r) = RowOf(r, next) /\ r.trigger = trigger
        /\ r.last_run_at = Null
    <3>1. r.trigger = trigger /\ r.last_run_at = Null
      BY DEF Fields
    <3>2. create_row(r) = RowOf(r, next)
      BY RowColumns, RowOfFields
    <3> QED BY <3>1, <3>2
  <2>6. Alike(r, r)
    BY DEF Alike
  <2>7. hands = [h \in Hands |-> hands[h]] /\ \A h \in Hands : HandOK(hands[h], r, r)
    BY DEF HandOK
  <2> HIDE DEF r, hands
  <2>8. RowHolds(r, next, r, Told(r), {}, FALSE, TRUE, hands)
    BY <2>4, <2>5, <2>6, <2>7 DEF RowHolds
  <2> HIDE DEF next
  <2> QED BY <2>1, <2>5, <2>8 DEF RowInv
<1> QED BY <1>1, <1>2

\* What is read of the row is in order for whoever reads it.
LEMMA RowRead ==
  ASSUME RowInv, NEW h \in Hands, NEW type, NEW p, Reads(h, type, p),
         \/ type = "run"
         \/ type = "update" /\ p \in UpdateParams /\ Get(p, "schedule") \notin BadSchedules
  PROVE  RowInv'
<1>1. PICK cur, next :
          /\ routine = Stored(routine.steps, RowOf(cur, next), routine.made, routine.told,
                              routine.lost, routine.ended, routine.ran, routine.hands)
          /\ row_to_routine(routine.row) = [cur EXCEPT !.next_fire_at = next]
          /\ RowHolds(cur, next, routine.made, routine.told, routine.lost, routine.ended,
                      routine.ran, routine.hands)
  BY RowState DEF Reads
<1> DEFINE r == [cur EXCEPT !.next_fire_at = next]
           hands == [routine.hands EXCEPT ![h] = UnderWay(type, r, p)]
<1>2. routine' = [routine EXCEPT !.hands = hands, !.steps = @ + 1]
  BY <1>1 DEF Reads
<1>3. routine' = Stored(routine.steps + 1, RowOf(cur, next), routine.made, routine.told,
                        routine.lost, routine.ended, routine.ran, hands)
  <2> HIDE DEF hands
  <2>1. routine' = SetRead(routine, hands, routine.steps + 1)
    BY <1>2 DEF SetRead
  <2> QED BY <1>1, <2>1, StoredRead
<1>4. PICK e, d, t, a, c, n, l, f :
          cur = Fields(e, d, t, a, c, n, l, f) /\ TriggerOK(t) /\ ActionOK(a)
  BY <1>1 DEF RowHolds, RoutineOK
<1>5. r = Fields(e, d, t, a, c, n, l, next)
  BY <1>4 DEF Fields
<1> HIDE DEF r
<1>6. /\ r.action = a /\ r.cooldown = c /\ r.notify = n
      /\ Told(r) = [enabled |-> e, description |-> d, prompt |-> Prompt(a), schedule |-> t]
  BY <1>5, FieldsHave
<1>7. /\ cur.action = a /\ cur.cooldown = c /\ cur.notify = n
      /\ Told(cur) = [enabled |-> e, description |-> d, prompt |-> Prompt(a), schedule |-> t]
  BY <1>4, FieldsHave
<1>8. RoutineOK(r) /\ Alike(r, routine.made) /\ Told(r) = Told(cur)
  BY <1>1, <1>4, <1>5, <1>6, <1>7 DEF RoutineOK, RowHolds, Alike
<1>9. HandOK(UnderWay(type, r, p), cur, routine.made)
  <2>1. UnderWay(type, r, p) = Hand(type, r, p, {})
    BY DEF UnderWay, Hand
  <2> QED BY <1>8, <2>1 DEF HandOK
<1>10. /\ hands = [g \in Hands |-> hands[g]]
       /\ \A g \in Hands : HandOK(hands[g], cur, routine.made)
  BY <1>1, <1>9 DEF RowHolds
<1> HIDE DEF hands
<1>11. RowHolds(cur, next, routine.made, routine.told, routine.lost, routine.ended, routine.ran,
                hands)
  BY <1>1, <1>10 DEF RowHolds
<1> QED BY <1>3, <1>11 DEF RowInv

\* Whoever is under way stays in order when someone else writes.
LEMMA OthersMiss ==
  ASSUME NEW cur, NEW made, NEW late, NEW h \in Hands, NEW fields,
         \A g \in Hands : HandOK(routine.hands[g], cur, made),
         \A x \in Editable \ fields : Told(late)[x] = Told(cur)[x]
  PROVE  /\ Missing(h, fields) = [g \in Hands |-> Missing(h, fields)[g]]
         /\ \A g \in Hands : HandOK(Missing(h, fields)[g], late, made)
<1>1. ASSUME NEW g \in Hands PROVE HandOK(Missing(h, fields)[g], late, made)
  <2> DEFINE k == routine.hands[g]
  <2>1. Missing(h, fields)[g] = IF g = h \/ k = NoHand THEN NoHand
                                ELSE [k EXCEPT !.missed = @ \cup fields]
    BY DEF Missing
  <2>2. HandOK(k, cur, made)
    OBVIOUS
  <2> HIDE DEF k
  <2>3. k # NoHand => HandOK([k EXCEPT !.missed = @ \cup fields], late, made)
    BY <2>2, HandMisses
  <2> QED BY <2>1, <2>3 DEF HandOK
<1>2. Missing(h, fields) = [g \in Hands |-> Missing(h, fields)[g]]
  BY DEF Missing
<1> QED BY <1>1, <1>2

\* routine_update leaves a row that reads back, and knows what it has put back.
LEMMA RowUpdated ==
  ASSUME RowInv, NEW h \in Hands, UpdateWrites(h)
  PROVE  RowInv'
<1>1. PICK cur, next :
          /\ routine = Stored(routine.steps, RowOf(cur, next), routine.made, routine.told,
                              routine.lost, routine.ended, routine.ran, routine.hands)
          /\ routine.row = RowOf(cur, next)
          /\ RowHolds(cur, next, routine.made, routine.told, routine.lost, routine.ended,
                      routine.ran, routine.hands)
  BY RowState DEF UpdateWrites
<1> DEFINE k == routine.hands[h]
           p == k.asked
           read == k.read
           missed == k.missed
           new == Edit(read, p)
           told == Requested(routine.told, p)
           gone == (routine.lost \cup missed) \ DOMAIN p
           fields == DOMAIN p \cup missed
           ran == routine.ran /\ "schedule" \notin fields
           hands == Missing(h, fields)
           made == routine.made
<1>2. k.type = "update" /\ HandOK(k, cur, made)
  BY <1>1 DEF UpdateWrites, RowHolds
<1>3. /\ RoutineOK(read) /\ Alike(read, made)
      /\ \A x \in Editable \ missed : Told(read)[x] = Told(cur)[x]
      /\ p \in UpdateParams /\ Get(p, "schedule") \notin BadSchedules
  <2> HIDE DEF k, made
  <2> QED BY <1>2, HandHas
<1>4. routine' = [routine EXCEPT !.row = update_row(RowOf(cur, next), new), !.told = told,
                                 !.lost = gone, !.ran = ran, !.hands = hands]
  BY <1>1 DEF UpdateWrites
<1> HIDE DEF p, read, missed
<1>5. /\ RoutineOK(new) /\ Alike(new, read)
      /\ \A x \in Editable : Told(new)[x] = Requested(Told(read), p)[x]
  BY <1>3, Edited
<1> HIDE DEF new
<1>6. PICK late :
          /\ update_row(RowOf(cur, next), new) = RowOf(late, next)
          /\ RoutineOK(late) /\ Told(late) = Told(new) /\ Alike(late, new)
          /\ late.last_run_at = cur.last_run_at /\ late.trigger = new.trigger
  BY <1>1, <1>5, RowEdited DEF RowHolds
<1>7. routine' = Stored(routine.steps, RowOf(late, next), made, told, gone, routine.ended, ran,
                        hands)
  <2> DEFINE row == update_row(RowOf(cur, next), new)
  <2> HIDE DEF told, gone, ran, hands, row
  <2>1. routine' = SetUpdated(routine, hands, row, told, gone, ran)
    BY <1>4, Zenon DEF SetUpdated, row
  <2>2. row = RowOf(late, next)
    BY <1>6 DEF row
  <2> QED BY <1>1, <2>1, <2>2, StoredUpdated
<1>8. \A x \in Editable \ fields : Told(late)[x] = Told(cur)[x]
  <2> SUFFICES ASSUME NEW x \in Editable, x \notin DOMAIN p, x \notin missed
               PROVE  Told(late)[x] = Told(cur)[x]
    OBVIOUS
  <2> DEFINE old == Told(read)
  <2> HIDE DEF old
  <2>2. Requested(old, p)[x] = old[x]
    BY DEF Requested
  <2>1. Requested(Told(read), p)[x] = Told(read)[x]
    BY <2>2 DEF old
  <2> QED BY <1>3, <1>5, <1>6, <2>1
<1>9. ASSUME NEW x \in Editable, x \notin gone PROVE Told(late)[x] = told[x]
  <2>1. CASE x \in DOMAIN p
    <3>1. Requested(Told(read), p)[x] = Requested(routine.told, p)[x]
      BY <2>1 DEF Requested
    <3> QED BY <1>5, <1>6, <3>1
  <2>2. CASE x \notin DOMAIN p
    <3>1. x \notin missed /\ x \notin routine.lost
      BY <1>9, <2>2
    <3>5. ASSUME NEW old PROVE Requested(old, p)[x] = old[x]
      BY <2>2 DEF Requested
    <3>2. told[x] = routine.told[x]
      BY <3>5
    <3>3. Told(cur)[x] = routine.told[x]
      BY <1>1, <3>1 DEF RowHolds
    <3>4. Told(late)[x] = Told(cur)[x]
      BY <1>8, <2>2, <3>1
    <3> QED BY <3>2, <3>3, <3>4
  <2> QED BY <2>1, <2>2
<1>10. Alike(late, made)
  BY <1>3, <1>5, <1>6 DEF Alike
<1>11. ran => next = FireTime(late.trigger)
  <2> SUFFICES ASSUME ran PROVE next = FireTime(late.trigger)
    OBVIOUS
  <2>1. Told(late)["schedule"] = Told(cur)["schedule"]
    BY <1>8 DEF Editable
  <2>2. late.trigger = cur.trigger
    BY <2>1 DEF Told
  <2> QED BY <1>1, <2>2 DEF RowHolds
<1>12. \A g \in Hands : HandOK(routine.hands[g], cur, made)
  BY <1>1 DEF RowHolds
<1>13. hands = [g \in Hands |-> hands[g]] /\ \A g \in Hands : HandOK(hands[g], late, made)
  <2> HIDE DEF fields, made
  <2> QED BY <1>8, <1>12, OthersMiss
<1>14. late.last_run_at = IF routine.ended THEN "ran" ELSE Null
  BY <1>1, <1>6 DEF RowHolds
<1> HIDE DEF told, gone, ran, hands, made
<1>15. RowHolds(late, next, made, told, gone, routine.ended, ran, hands)
  BY <1>6, <1>9, <1>10, <1>11, <1>13, <1>14 DEF RowHolds
<1> QED BY <1>7, <1>15 DEF RowInv

\* The runtime columns an execution writes leave the rest of the row readable.
LEMMA RowRan ==
  ASSUME RowInv, NEW h \in Hands, RunWritesRuntime(h)
  PROVE  RowInv'
<1>1. PICK cur, next :
          /\ routine = Stored(routine.steps, RowOf(cur, next), routine.made, routine.told,
                              routine.lost, routine.ended, routine.ran, routine.hands)
          /\ routine.row = RowOf(cur, next)
          /\ RowHolds(cur, next, routine.made, routine.told, routine.lost, routine.ended,
                      routine.ran, routine.hands)
  BY RowState DEF RunWritesRuntime
<1> DEFINE k == routine.hands[h]
           fire == FireTime(k.read.trigger)
           ran == "schedule" \notin k.missed
           hands == Missing(h, {})
           made == routine.made
           row == [routine.row EXCEPT !.last_run_at = "ran", !.next_fire_at = fire]
<1>2. k.type = "run" /\ HandOK(k, cur, made)
  BY <1>1 DEF RunWritesRuntime, RowHolds
<1>3. \A x \in Editable \ k.missed : Told(k.read)[x] = Told(cur)[x]
  <2> HIDE DEF k, made
  <2> QED BY <1>2, HandHas
<1>4. routine' = [routine EXCEPT !.row = row, !.ended = TRUE, !.ran = ran, !.hands = hands]
  <2>1. routine' = [routine EXCEPT !.row.last_run_at = "ran", !.row.next_fire_at = fire,
                                   !.ended = TRUE, !.ran = ran, !.hands = hands]
    BY Zenon DEF RunWritesRuntime
  <2> HIDE DEF fire, ran, hands
  <2> QED BY <2>1, Zenon
<1>5. row = SetRuntime(routine.row, "ran", fire)
  BY Zenon DEF SetRuntime
<1> HIDE DEF fire, row
<1>6. PICK late :
          /\ row = RowOf(late, fire)
          /\ RoutineOK(late) /\ Told(late) = Told(cur) /\ Alike(late, cur)
          /\ late.last_run_at = "ran" /\ late.trigger = cur.trigger
  <2> SUFFICES ASSUME NEW w, w = routine.row
               PROVE  \E late :
                         /\ SetRuntime(w, "ran", fire) = RowOf(late, fire)
                         /\ RoutineOK(late) /\ Told(late) = Told(cur) /\ Alike(late, cur)
                         /\ late.last_run_at = "ran" /\ late.trigger = cur.trigger
    BY <1>5
  <2>1. RoutineOK(cur) /\ w = RowOf(cur, next)
    BY <1>1 DEF RowHolds
  <2> QED BY <2>1, RowRuntime
<1>7. routine' = Stored(routine.steps, RowOf(late, fire), made, routine.told, routine.lost, TRUE,
                        ran, hands)
  <2> HIDE DEF ran, hands
  <2>1. routine' = SetRan(routine, hands, row, TRUE, ran)
    BY <1>4, Zenon DEF SetRan
  <2>2. SetRan(routine, hands, row, TRUE, ran)
            = Stored(routine.steps, row, routine.made, routine.told, routine.lost, TRUE, ran,
                     hands)
    <3> DEFINE here == RowOf(cur, next)
    <3>1. routine = Stored(routine.steps, here, routine.made, routine.told, routine.lost,
                           routine.ended, routine.ran, routine.hands)
      BY <1>1
    <3> HIDE DEF here, row
    <3> SUFFICES ASSUME NEW o, NEW q
                 PROVE  SetRan(routine, hands, row, o, q)
                            = Stored(routine.steps, row, routine.made, routine.told, routine.lost,
                                     o, q, hands)
      OBVIOUS
    <3>2. SetRan(routine, hands, row, o, q)
              = SetRan(Stored(routine.steps, here, routine.made, routine.told, routine.lost,
                              routine.ended, routine.ran, routine.hands), hands, row, o, q)
      BY <3>1
    <3> QED BY <3>2, StoredRan
  <2>3. row = RowOf(late, fire)
    BY <1>6
  <2> QED BY <2>1, <2>2, <2>3
<1>8. ran => fire = FireTime(late.trigger)
  <2> SUFFICES ASSUME ran PROVE fire = FireTime(late.trigger)
    OBVIOUS
  <2>1. Told(k.read)["schedule"] = Told(cur)["schedule"]
    BY <1>3 DEF Editable
  <2>2. k.read.trigger = cur.trigger
    BY <2>1 DEF Told
  <2> QED BY <1>6, <2>2 DEF fire
<1>9. \A g \in Hands : HandOK(routine.hands[g], cur, made)
  BY <1>1 DEF RowHolds
<1>10. hands = [g \in Hands |-> hands[g]] /\ \A g \in Hands : HandOK(hands[g], late, made)
  <2> HIDE DEF made
  <2> QED BY <1>6, <1>9, OthersMiss
<1>11. Alike(late, made) /\ \A x \in Editable \ routine.lost : Told(late)[x] = routine.told[x]
  BY <1>1, <1>6 DEF RowHolds, Alike
<1> HIDE DEF ran, hands, made
<1>12. RowHolds(late, fire, made, routine.told, routine.lost, TRUE, ran, hands)
  BY <1>6, <1>8, <1>10, <1>11 DEF RowHolds
<1> QED BY <1>7, <1>12 DEF RowInv

\* Whoever stops without writing leaves everything as it was.
LEMMA RowUnwritten ==
  ASSUME RowInv, NEW h \in Hands, NothingWritten(h)
  PROVE  RowInv'
<1>1. PICK cur, next :
          /\ routine = Stored(routine.steps, RowOf(cur, next), routine.made, routine.told,
                              routine.lost, routine.ended, routine.ran, routine.hands)
          /\ RowHolds(cur, next, routine.made, routine.told, routine.lost, routine.ended,
                      routine.ran, routine.hands)
  BY RowState DEF NothingWritten
<1> DEFINE hands == [routine.hands EXCEPT ![h] = NoHand]
<1>2. routine' = [routine EXCEPT !.hands = hands]
  BY DEF NothingWritten
<1>3. /\ hands = [g \in Hands |-> hands[g]]
      /\ \A g \in Hands : HandOK(hands[g], cur, routine.made)
  BY <1>1 DEF RowHolds, HandOK
<1> HIDE DEF hands
<1>4. routine' = Stored(routine.steps, RowOf(cur, next), routine.made, routine.told,
                        routine.lost, routine.ended, routine.ran, hands)
  <2>1. routine' = SetHands(routine, hands)
    BY <1>2 DEF SetHands
  <2> QED BY <1>1, <2>1, StoredHands
<1>5. RowHolds(cur, next, routine.made, routine.told, routine.lost, routine.ended, routine.ran,
               hands)
  BY <1>1, <1>3 DEF RowHolds
<1> QED BY <1>4, <1>5 DEF RowInv

\* The row in the table is always the written form of a routine, whose named fields are
\* those last asked for unless they are lost.
THEOREM RowInvariant == RowSpec => []RowInv
<1>1. RowInit => RowInv
  BY DEF RowInit, RowInv, NoRow
<1>2. RowInv /\ [RowNext]_routine => RowInv'
  <2> SUFFICES ASSUME RowInv, [RowNext]_routine PROVE RowInv'
    OBVIOUS
  <2>1. CASE UNCHANGED routine
    BY <2>1 DEF RowInv
  <2>2. ASSUME NEW p \in CreateParams, CreateRoutine(p) PROVE RowInv'
    BY <2>2, RowCreated
  <2>3. ASSUME NEW h \in Hands, NEW p \in UpdateParams, UpdateReads(h, p) PROVE RowInv'
    <3>1. Reads(h, "update", p) /\ Get(p, "schedule") \notin BadSchedules
      BY <2>3 DEF UpdateReads
    <3> QED BY <3>1, RowRead
  <2>4. ASSUME NEW h \in Hands, RunReads(h) PROVE RowInv'
    <3>1. Reads(h, "run", <<>>)
      BY <2>4 DEF RunReads
    <3> QED BY <3>1, RowRead
  <2>5. ASSUME NEW h \in Hands, UpdateWrites(h) PROVE RowInv'
    BY <2>5, RowUpdated
  <2>6. ASSUME NEW h \in Hands, RunWritesRuntime(h) PROVE RowInv'
    BY <2>6, RowRan
  <2>7. ASSUME NEW h \in Hands, NothingWritten(h) PROVE RowInv'
    BY <2>7, RowUnwritten
  <2> QED BY <2>1, <2>2, <2>3, <2>4, <2>5, <2>6, <2>7 DEF RowNext
<1> QED BY <1>1, <1>2, PTL DEF RowSpec

\* However a routine was created, edited and run, its row reads back, its named fields are
\* what the last update that named them said unless an update that had read the routine
\* before put its old values back, and the next fire time belongs to the schedule once a
\* run has ended that was started after the schedule last changed.
THEOREM RowsReadBack == RowSpec => []RoutineReadsBack
<1>1. RowInv => RoutineReadsBack
  <2> SUFFICES ASSUME RowInv, routine.pc = "stored" PROVE RoutineReadsBack
    BY DEF RoutineReadsBack
  <2>1. PICK cur, next :
            /\ row_to_routine(routine.row) = [cur EXCEPT !.next_fire_at = next]
            /\ row_to_routine(routine.row) # Failed
            /\ RowHolds(cur, next, routine.made, routine.told, routine.lost, routine.ended,
                        routine.ran, routine.hands)
    BY RowState
  <2> DEFINE r == [cur EXCEPT !.next_fire_at = next]
  <2>3. PICK e, d, t, a, c, n, l, f : cur = Fields(e, d, t, a, c, n, l, f)
    BY <2>1 DEF RowHolds, RoutineOK
  <2>4. r = Fields(e, d, t, a, c, n, l, next)
    BY <2>3 DEF Fields
  <2> HIDE DEF r
  <2>5. /\ r.trigger = t /\ r.action = a /\ r.cooldown = c /\ r.notify = n
        /\ r.last_run_at = l /\ r.next_fire_at = next
        /\ Told(r) = [enabled |-> e, description |-> d, prompt |-> Prompt(a), schedule |-> t]
    BY <2>4, FieldsHave
  <2>6. /\ cur.trigger = t /\ cur.action = a /\ cur.cooldown = c /\ cur.notify = n
        /\ cur.last_run_at = l
        /\ Told(cur) = [enabled |-> e, description |-> d, prompt |-> Prompt(a), schedule |-> t]
    BY <2>3, FieldsHave
  <2>7. /\ Told(r) = Told(cur) /\ r.trigger = cur.trigger /\ r.action = cur.action
        /\ r.cooldown = cur.cooldown /\ r.notify = cur.notify
        /\ r.last_run_at = cur.last_run_at /\ r.next_fire_at = next
    BY <2>5, <2>6
  <2>8. row_to_routine(routine.row) = r
    BY <2>1 DEF r
  <2> QED BY <2>1, <2>7, <2>8 DEF RoutineReadsBack, RowHolds, Alike
<1> QED BY <1>1, RowInvariant, PTL

-----------------------------------------------------------------------------
(* Compaction.                                                             *)

Turn == [id : Nat, input : Nat, reply : Nat \cup {Silence}]
Entry == [kind : {"Context Summary", "Archived Context"}, about : SUBSET Nat]
Workspaces == {"ok", "broken", "none"}

ContextType ==
    [pc : {"on"}, turns : Seq(Turn), log : Seq(Entry), steps : Nat,
     last : [strategy : CompactionStrategy, before : Seq(Turn), after : Seq(Turn),
             llm : BOOLEAN, ws : Workspaces, written : BOOLEAN, failed : BOOLEAN]]

ContextInv == ctx \in ContextType /\ CompactionKeepsTrack

\* What is kept of the turns: so many of the newest.
IsNewest(turns, t) ==
    /\ t \in Seq(Turn) /\ Len(t) <= Len(turns)
    /\ t = SubSeq(turns, Len(turns) - Len(t) + 1, Len(turns))
    /\ \A i \in 1 .. Len(t) : t[i] = turns[i + (Len(turns) - Len(t))]

\* estimate_tokens counts every turn and never comes out below zero.
LEMMA TokensType ==
  ASSUME NEW turns \in Seq(Turn)
  PROVE  /\ [i \in DOMAIN turns |-> turn_tokens(turns[i])] \in Seq(Nat)
         /\ estimate_tokens(turns) \in Nat
<1>1. ASSUME NEW t \in Turn PROVE turn_tokens(t) \in Nat
  <2> DEFINE m == messages(t)
             s == [k \in DOMAIN m |-> estimate_message_tokens(m[k])]
  <2>1. m \in Seq(Nat)
    <3>1. t.input \in Nat /\ (t.reply # Silence => t.reply \in Nat)
      BY <1>1 DEF Turn
    <3>2. <<t.input>> \in Seq(Nat) /\ (t.reply # Silence => <<t.reply>> \in Seq(Nat))
      BY <3>1
    <3> QED BY <3>2 DEF messages
  <2> HIDE DEF m
  <2>2. s \in Seq(Nat)
    <3>1. \A k \in 1 .. Len(m) : m[k] \in Nat
      BY <2>1, ElementOfSeq
    <3>2. \A k \in 1 .. Len(m) : estimate_message_tokens(m[k]) \in Nat
      BY <3>1 DEF estimate_message_tokens
    <3>3. DOMAIN m = 1 .. Len(m) /\ Len(m) \in Nat
      BY <2>1
    <3> QED BY <3>2, <3>3, IsASeq
  <2> HIDE DEF s
  <2>3. turn_tokens(t) = Total(s, DOMAIN m)
    BY DEF turn_tokens, s, m
  <2> QED BY <2>2, <2>3, TotalType
<1> DEFINE s == [i \in DOMAIN turns |-> turn_tokens(turns[i])]
<1>2. s \in Seq(Nat)
  <2>1. \A k \in 1 .. Len(turns) : turns[k] \in Turn
    BY ElementOfSeq
  <2>2. DOMAIN turns = 1 .. Len(turns) /\ Len(turns) \in Nat
    OBVIOUS
  <2> QED BY <1>1, <2>1, <2>2, IsASeq
<1> HIDE DEF s
<1>3. estimate_tokens(turns) = Total(s, DOMAIN turns)
  BY DEF estimate_tokens, s
<1>4. estimate_tokens(turns) \in Nat
  BY <1>2, <1>3, TotalType
<1> QED BY <1>2, <1>4 DEF s

\* Fewer turns have no more tokens.
LEMMA TokensShrink ==
  ASSUME NEW turns \in Seq(Turn), NEW t, IsNewest(turns, t)
  PROVE  estimate_tokens(t) <= estimate_tokens(turns)
<1> DEFINE s == [i \in DOMAIN turns |-> turn_tokens(turns[i])]
           u == [i \in DOMAIN t |-> turn_tokens(t[i])]
           k == Len(turns) - Len(t)
<1>1. t \in Seq(Turn) /\ Len(t) \in Nat /\ Len(turns) \in Nat /\ Len(t) <= Len(turns)
  BY DEF IsNewest
<1>2. s \in Seq(Nat) /\ u \in Seq(Nat)
  BY <1>1, TokensType
<1>3. DOMAIN turns = 1 .. Len(turns) /\ DOMAIN t = 1 .. Len(t)
  BY <1>1
<1>4. Len(s) = Len(turns) /\ Len(u) = Len(t)
  BY <1>1, <1>3
<1>5. k \in 0 .. Len(s) /\ Len(u) = Len(s) - k
  <2> HIDE DEF s, u
  <2> QED BY <1>1, <1>4
<1>6. \A i \in 1 .. Len(u) : u[i] = s[i + k]
  <2> SUFFICES ASSUME NEW i \in 1 .. Len(t) PROVE u[i] = s[i + k]
    BY <1>4
  <2>1. t[i] = turns[i + k]
    BY DEF IsNewest
  <2>2. i \in DOMAIN t /\ i + k \in DOMAIN turns
    BY <1>1, <1>3
  <2> QED BY <2>1, <2>2
<1>7. estimate_tokens(turns) = Total(s, DOMAIN s) /\ estimate_tokens(t) = Total(u, DOMAIN u)
  BY DEF estimate_tokens
<1> HIDE DEF s, u, k
<1> QED BY <1>2, <1>5, <1>6, <1>7, TotalOfRest

\* truncate_turns keeps the newest turns, as many as it was told or all there are.
LEMMA Truncates ==
  ASSUME NEW turns \in Seq(Turn), NEW keep \in Nat
  PROVE  /\ IsNewest(turns, truncate_turns(turns, keep))
         /\ Len(truncate_turns(turns, keep)) = Smaller(keep, Len(turns))
         /\ OldTurns(turns, keep) \in Seq(Turn)
         /\ \A i \in 1 .. Len(turns) - Smaller(keep, Len(turns)) :
               i \in DOMAIN OldTurns(turns, keep) /\ OldTurns(turns, keep)[i] = turns[i]
<1> DEFINE n == Smaller(keep, Len(turns))
           t == truncate_turns(turns, keep)
           old == OldTurns(turns, keep)
<1>1. n \in 0 .. Len(turns) /\ Len(turns) \in Nat
  BY DEF Smaller
<1>2. t = SubSeq(turns, Len(turns) - n + 1, Len(turns))
  BY DEF truncate_turns
<1>3. old = SubSeq(turns, 1, Len(turns) - n)
  BY DEF OldTurns
<1> HIDE DEF n, t, old
<1>4. /\ t \in Seq(Turn) /\ Len(t) = n
      /\ \A i \in 1 .. n : t[i] = turns[i + (Len(turns) - n)]
  BY <1>1, <1>2
<1>5. /\ old \in Seq(Turn) /\ Len(old) = Len(turns) - n
      /\ \A i \in 1 .. Len(turns) - n : old[i] = turns[i]
  BY <1>1, <1>3
<1>6. IsNewest(turns, t)
  <2>1. t = SubSeq(turns, Len(turns) - Len(t) + 1, Len(turns))
    BY <1>2, <1>4
  <2>2. \A i \in 1 .. Len(t) : t[i] = turns[i + (Len(turns) - Len(t))]
    BY <1>4
  <2>3. t \in Seq(Turn) /\ Len(t) <= Len(turns)
    BY <1>1, <1>4
  <2> HIDE DEF t
  <2> QED BY <2>1, <2>2, <2>3 DEF IsNewest
<1>7. \A i \in 1 .. Len(turns) - n : i \in DOMAIN old /\ old[i] = turns[i]
  BY <1>5
<1> QED BY <1>4, <1>5, <1>6, <1>7 DEF n, t, old

\* A thread that is left alone keeps its newest turns.
LEMMA KeepsAll ==
  ASSUME NEW turns \in Seq(Turn)
  PROVE  IsNewest(turns, turns)
<1>1. turns = SubSeq(turns, 1, Len(turns))
  OBVIOUS
<1> QED BY <1>1 DEF IsNewest

\* What a compaction comes to: what is left, what it has written, and why.
Comes(turns, strategy, llm, ws, r) ==
    /\ IsNewest(turns, r.turns)
    /\ r.entries \in Seq(Entry) /\ r.written \in BOOLEAN /\ r.failed \in BOOLEAN
    /\ r.failed => r.turns = turns /\ ~llm
    /\ Len(r.turns) >= Smaller(Len(turns), KeepTruncated)
    /\ strategy = "Truncate" => Len(r.turns) <= KeepTruncated /\ ~r.written
    /\ strategy \in {"Summarize", "MoveToWorkspace"} => Len(r.turns) <= KeepMoved \/ r.failed
    /\ strategy = "None" => r.turns = turns
    /\ strategy # "Truncate" =>
          \A i \in 1 .. Len(turns) - Len(r.turns) :
             \/ \E e \in DOMAIN r.entries : turns[i].id \in r.entries[e].about
             \/ ~r.written /\ ws # "ok"

\* A thread with nothing to drop is left as it is (the early return of each strategy).
LEMMA EmptyComes ==
  ASSUME NEW turns \in Seq(Turn), NEW strategy, NEW llm, NEW ws,
         strategy = "Truncate" => Len(turns) <= KeepTruncated,
         strategy \in {"Summarize", "MoveToWorkspace"} => Len(turns) <= KeepMoved
  PROVE  Comes(turns, strategy, llm, ws, empty(turns))
<1> DEFINE r == empty(turns)
<1>1. /\ r.turns = turns /\ r.entries = <<>> /\ r.written = FALSE /\ r.failed = FALSE
  BY DEF empty, Result
<1> HIDE DEF r
<1>2. Len(turns) \in Nat /\ KeepTruncated \in Nat
  BY KeepAssumption
<1>3. Len(turns) >= Smaller(Len(turns), KeepTruncated)
  BY <1>2 DEF Smaller
<1>4. \A i \in 1 .. Len(turns) - Len(turns) : FALSE
  BY <1>2
<1>5. <<>> \in Seq(Entry)
  OBVIOUS
<1> QED BY <1>1, <1>3, <1>4, <1>5, KeepsAll DEF Comes, r

\* With no model and no workspace to write to, compaction by summary drops nothing.
LEMMA SummaryFails ==
  ASSUME NEW turns \in Seq(Turn), NEW ws
  PROVE  Comes(turns, "Summarize", FALSE, ws, Result(turns, <<>>, FALSE, TRUE))
<1> DEFINE r == Result(turns, <<>>, FALSE, TRUE)
<1>1. /\ r.turns = turns /\ r.entries = <<>> /\ r.written = FALSE /\ r.failed = TRUE
  BY DEF Result
<1> HIDE DEF r
<1>2. Len(turns) \in Nat /\ KeepTruncated \in Nat
  BY KeepAssumption
<1>3. Len(turns) >= Smaller(Len(turns), KeepTruncated)
  BY <1>2 DEF Smaller
<1>4. \A i \in 1 .. Len(turns) - Len(turns) : FALSE
  BY <1>2
<1>5. <<>> \in Seq(Entry)
  OBVIOUS
<1> QED BY <1>1, <1>3, <1>4, <1>5, KeepsAll DEF Comes, r

\* Turns are cut to as many as a strategy keeps, with or without a record.
LEMMA CutComes ==
  ASSUME NEW turns \in Seq(Turn), NEW strategy, NEW llm, NEW ws,
         NEW keep \in {KeepTruncated, KeepSummarized, KeepMoved},
         NEW entries \in Seq(Entry), NEW written \in BOOLEAN,
         strategy = "Truncate" => keep = KeepTruncated /\ ~written,
         strategy # "None",
         strategy = "Truncate"
           \/ (ws # "ok" /\ ~written)
           \/ \E e \in DOMAIN entries : generate_summary(OldTurns(turns, keep)) \subseteq entries[e].about
  PROVE  Comes(turns, strategy, llm, ws,
               Result(truncate_turns(turns, keep), entries, written, FALSE))
<1> DEFINE t == truncate_turns(turns, keep)
           r == Result(t, entries, written, FALSE)
<1>1. /\ r.turns = t /\ r.entries = entries /\ r.written = written /\ r.failed = FALSE
  BY DEF Result
<1>2. /\ keep \in Nat /\ KeepTruncated <= keep /\ keep <= KeepMoved
      /\ KeepTruncated \in Nat /\ KeepMoved \in Nat
  BY KeepAssumption
<1>3. /\ IsNewest(turns, t) /\ Len(t) = Smaller(keep, Len(turns))
      /\ \A i \in 1 .. Len(turns) - Len(t) :
            i \in DOMAIN OldTurns(turns, keep) /\ OldTurns(turns, keep)[i] = turns[i]
  BY <1>2, Truncates
<1> HIDE DEF r, t
<1>4. Len(turns) \in Nat
  OBVIOUS
<1>5. Len(t) >= Smaller(Len(turns), KeepTruncated) /\ Len(t) <= keep
  BY <1>2, <1>3, <1>4 DEF Smaller
<1>6. ASSUME strategy # "Truncate", NEW i \in 1 .. Len(turns) - Len(t)
      PROVE  \/ \E e \in DOMAIN entries : turns[i].id \in entries[e].about
             \/ ~written /\ ws # "ok"
  <2>1. turns[i].id \in generate_summary(OldTurns(turns, keep))
    BY <1>3 DEF generate_summary
  <2> QED BY <1>6, <2>1
<1>7. strategy = "Truncate" => Len(t) <= KeepTruncated
  BY <1>5
<1>8. Len(t) <= KeepMoved
  BY <1>2, <1>3, <1>4 DEF Smaller
<1>9. /\ strategy # "Truncate" =>
          \A i \in 1 .. Len(turns) - Len(r.turns) :
             \/ \E e \in DOMAIN r.entries : turns[i].id \in r.entries[e].about
             \/ ~r.written /\ ws # "ok"
  BY <1>1, <1>6
<1> QED BY <1>1, <1>3, <1>5, <1>7, <1>8, <1>9 DEF Comes, r, t

\* The summary and the stored form are both made of the turns they are given.
LEMMA Written ==
  ASSUME NEW turns \in Seq(Turn)
  PROVE  /\ generate_summary(turns) \in SUBSET Nat
         /\ format_turns_for_storage(turns) = generate_summary(turns)
<1>1. \A i \in 1 .. Len(turns) : turns[i] \in Turn
  BY ElementOfSeq
<1>2. \A i \in DOMAIN turns : turns[i].id \in Nat
  <2>1. DOMAIN turns = 1 .. Len(turns)
    OBVIOUS
  <2>2. \A t \in Turn : t.id \in Nat
    BY DEF Turn
  <2> QED BY <1>1, <2>1, <2>2
<1> QED BY <1>2 DEF generate_summary, format_turns_for_storage

\* Whatever the strategy, the model and the workspace do, compact() comes to one of the
\* outcomes of Comes.
LEMMA CompactComes ==
  ASSUME NEW turns \in Seq(Turn), NEW strategy \in CompactionStrategy, NEW llm \in BOOLEAN,
         NEW ws \in Workspaces
  PROVE  Comes(turns, strategy, llm, ws, compact(turns, strategy, llm, ws))
<1> USE DEF CompactionStrategy, Workspaces
<1>0. {Limit, KeepTruncated, KeepSummarized, KeepMoved} \subseteq Nat
      /\ KeepTruncated <= KeepSummarized /\ KeepSummarized <= KeepMoved
      /\ Len(turns) \in Nat
  BY KeepAssumption
<1>1. CASE strategy = "None"
  BY <1>1, EmptyComes DEF compact
<1>2. CASE strategy = "Truncate"
  <2>1. <<>> \in Seq(Entry)
    OBVIOUS
  <2>2. compact(turns, strategy, llm, ws)
            = Result(truncate_turns(turns, KeepTruncated), <<>>, FALSE, FALSE)
    BY <1>2 DEF compact, compact_truncate
  <2> QED BY <1>2, <2>1, <2>2, CutComes
<1>3. CASE strategy = "Summarize"
  <2>0. compact(turns, strategy, llm, ws) = compact_with_summary(turns, KeepSummarized, llm, ws)
    BY <1>3 DEF compact
  <2>1. CASE Len(turns) <= KeepSummarized
    <3>1. Len(turns) <= KeepMoved
      BY <1>0, <2>1
    <3> QED BY <1>3, <2>0, <2>1, <3>1, EmptyComes DEF compact_with_summary
  <2>2. CASE ~(Len(turns) <= KeepSummarized) /\ ~llm
    BY <1>3, <2>0, <2>2, SummaryFails DEF compact_with_summary
  <2>3. CASE ~(Len(turns) <= KeepSummarized) /\ llm
    <3> DEFINE about == generate_summary(OldTurns(turns, KeepSummarized))
               entries == write_summary_to_workspace(about, ws)
    <3>1. compact(turns, strategy, llm, ws)
              = Result(truncate_turns(turns, KeepSummarized), entries, ws = "ok", FALSE)
      BY <2>0, <2>3 DEF compact_with_summary
    <3>2. about \in SUBSET Nat
      BY <1>0, Truncates, Written
    <3> HIDE DEF about
    <3>3. entries \in Seq(Entry) /\ (ws = "ok" => entries[1].about = about /\ 1 \in DOMAIN entries)
      <4> DEFINE e == [kind |-> "Context Summary", about |-> about]
      <4>1. e \in Entry /\ e.about = about
        BY <3>2 DEF Entry
      <4>2. entries = IF ws = "ok" THEN <<e>> ELSE <<>>
        BY DEF write_summary_to_workspace
      <4> HIDE DEF e, entries
      <4>3. CASE ws = "ok"
        BY <4>1, <4>2, <4>3
      <4>4. CASE ws # "ok"
        BY <4>2, <4>4
      <4> QED BY <4>3, <4>4
    <3> HIDE DEF entries
    <3>4. ws # "ok" \/ \E e \in DOMAIN entries : about \subseteq entries[e].about
      BY <3>3
    <3> QED BY <1>3, <3>1, <3>3, <3>4, CutComes DEF about
  <2> QED BY <2>1, <2>2, <2>3
<1>4. CASE strategy = "MoveToWorkspace"
  <2>0. compact(turns, strategy, llm, ws) = compact_to_workspace(turns, ws)
    BY <1>4 DEF compact
  <2>1. CASE ws = "none"
    <3>1. <<>> \in Seq(Entry)
      OBVIOUS
    <3>2. compact(turns, strategy, llm, ws)
              = Result(truncate_turns(turns, KeepSummarized), <<>>, FALSE, FALSE)
      BY <2>0, <2>1 DEF compact_to_workspace, compact_truncate
    <3> QED BY <1>4, <2>1, <3>1, <3>2, CutComes
  <2>2. CASE ws # "none" /\ Len(turns) <= KeepMoved
    BY <1>4, <2>0, <2>2, EmptyComes DEF compact_to_workspace
  <2>3. CASE ws # "none" /\ ~(Len(turns) <= KeepMoved)
    <3> DEFINE about == generate_summary(OldTurns(turns, KeepMoved))
               entries == write_context_to_workspace(about, ws)
    <3>0. OldTurns(turns, KeepMoved) \in Seq(Turn)
      BY <1>0, Truncates
    <3>1. compact(turns, strategy, llm, ws)
              = Result(truncate_turns(turns, KeepMoved), entries, ws = "ok", FALSE)
      BY <2>0, <2>3, <3>0, Written DEF compact_to_workspace
    <3>2. about \in SUBSET Nat
      BY <3>0, Written
    <3> HIDE DEF about
    <3>3. entries \in Seq(Entry) /\ (ws = "ok" => entries[1].about = about /\ 1 \in DOMAIN entries)
      <4> DEFINE e == [kind |-> "Archived Context", about |-> about]
      <4>1. e \in Entry /\ e.about = about
        BY <3>2 DEF Entry
      <4>2. entries = IF ws = "ok" THEN <<e>> ELSE <<>>
        BY DEF write_context_to_workspace
      <4> HIDE DEF e, entries
      <4>3. CASE ws = "ok"
        BY <4>1, <4>2, <4>3
      <4>4. CASE ws # "ok"
        BY <4>2, <4>4
      <4> QED BY <4>3, <4>4
    <3> HIDE DEF entries
    <3>4. ws # "ok" \/ \E e \in DOMAIN entries : about \subseteq entries[e].about
      BY <3>3
    <3> QED BY <1>4, <3>1, <3>3, <3>4, CutComes DEF about
  <2> QED BY <2>1, <2>2, <2>3
<1> QED BY <1>1, <1>2, <1>3, <1>4

\* After compact() the thread holds the turns of its result and the log has grown by its
\* entries.
LEMMA CompactedType ==
  ASSUME ctx \in ContextType, NEW strategy \in CompactionStrategy, NEW llm \in BOOLEAN,
         NEW ws \in Workspaces
  PROVE  LET r == compact(ctx.turns, strategy, llm, ws)
             c == Compacted(strategy, llm, ws)
         IN  /\ c \in ContextType
             /\ c.turns = r.turns /\ c.log = ctx.log \o r.entries
             /\ c.last = [strategy |-> strategy, before |-> ctx.turns, after |-> r.turns,
                          llm |-> llm, ws |-> ws, written |-> r.written, failed |-> r.failed]
<1> DEFINE r == compact(ctx.turns, strategy, llm, ws)
           l == [strategy |-> strategy, before |-> ctx.turns, after |-> r.turns,
                 llm |-> llm, ws |-> ws, written |-> r.written, failed |-> r.failed]
<1>1. ctx.turns \in Seq(Turn) /\ ctx.log \in Seq(Entry) /\ ctx.steps \in Nat /\ ctx.pc = "on"
  BY DEF ContextType
<1>2. /\ r.turns \in Seq(Turn) /\ r.entries \in Seq(Entry)
      /\ r.written \in BOOLEAN /\ r.failed \in BOOLEAN
  BY <1>1, CompactComes DEF Comes, IsNewest
<1> HIDE DEF r
<1>3. Compacted(strategy, llm, ws)
          = [ctx EXCEPT !.turns = r.turns, !.log = ctx.log \o r.entries, !.last = l]
  BY DEF Compacted, r
<1>4. l \in [strategy : CompactionStrategy, before : Seq(Turn), after : Seq(Turn),
             llm : BOOLEAN, ws : Workspaces, written : BOOLEAN, failed : BOOLEAN]
  BY <1>1, <1>2
<1>5. ctx.log \o r.entries \in Seq(Entry)
  BY <1>1, <1>2
<1> DEFINE n == ctx.log \o r.entries
<1> HIDE DEF l, n
<1>6. [ctx EXCEPT !.turns = r.turns, !.log = n, !.last = l] \in ContextType
  BY <1>2, <1>4, <1>5 DEF ContextType, n
<1>7. /\ [ctx EXCEPT !.turns = r.turns, !.log = n, !.last = l].turns = r.turns
      /\ [ctx EXCEPT !.turns = r.turns, !.log = n, !.last = l].log = n
      /\ [ctx EXCEPT !.turns = r.turns, !.log = n, !.last = l].last = l
  BY DEF ContextType
<1> QED BY <1>3, <1>6, <1>7 DEF l, n, r

\* Whatever the strategy the size calls for comes to, it keeps track.
LEMMA KeepsTrack ==
  ASSUME ctx \in ContextType, NEW strategy \in CompactionStrategy, NEW llm \in BOOLEAN,
         NEW ws \in Workspaces, NEW log,
         LET s == suggest_compaction(ctx.turns)
         IN  strategy = s \/ (s = "None" /\ strategy = "Summarize"),
         LET c == Compacted(strategy, llm, ws) IN ctx'.last = c.last /\ ctx'.log = c.log
  PROVE  CompactionKeepsTrack'
<1> DEFINE b == ctx.turns
           r == compact(b, strategy, llm, ws)
           a == r.turns
<1>1. b \in Seq(Turn) /\ ctx.log \in Seq(Entry)
  BY DEF ContextType
<1>2. Comes(b, strategy, llm, ws, r)
  BY <1>1, CompactComes
<1> HIDE DEF r
<1>3. /\ ctx'.log = ctx.log \o r.entries
      /\ ctx'.last = [strategy |-> strategy, before |-> b, after |-> a,
                      llm |-> llm, ws |-> ws, written |-> r.written, failed |-> r.failed]
  BY CompactedType DEF r
<1>4. /\ ctx'.last.strategy = strategy /\ ctx'.last.before = b /\ ctx'.last.after = a
      /\ ctx'.last.llm = llm /\ ctx'.last.ws = ws /\ ctx'.last.written = r.written
      /\ ctx'.last.failed = r.failed
  BY <1>3
<1> HIDE DEF a, b
<1>5. IsNewest(b, a) /\ Len(a) >= Smaller(Len(b), KeepTruncated)
  BY <1>2 DEF Comes, a
<1>6. NewestSurvive'
  BY <1>4, <1>5 DEF NewestSurvive, IsNewest
<1>7. a \in Seq(Turn) /\ Len(a) \in Nat /\ Len(b) \in Nat /\ Len(a) <= Len(b)
  BY <1>1, <1>5 DEF IsNewest
<1>8. /\ estimate_tokens(b) \in Nat /\ estimate_tokens(a) \in Nat
      /\ estimate_tokens(a) <= estimate_tokens(b) /\ Limit \in Nat
  BY <1>1, <1>5, <1>7, TokensType, TokensShrink, KeepAssumption
<1>9. ASSUME NEW i \in DOMAIN b
      PROVE  \/ \E j \in DOMAIN a : a[j] = b[i]
             \/ \E e \in DOMAIN ctx'.log : b[i].id \in ctx'.log[e].about
             \/ ~r.written /\ (Critical(b) \/ ws # "ok")
  <2>1. CASE i > Len(b) - Len(a)
    <3> DEFINE j == i - (Len(b) - Len(a))
    <3>1. j \in 1 .. Len(a) /\ i = j + (Len(b) - Len(a))
      BY <1>1, <1>7, <2>1
    <3>2. a[j] = b[i] /\ j \in DOMAIN a
      BY <1>5, <1>7, <3>1 DEF IsNewest
    <3> QED BY <3>2
  <2>2. CASE ~(i > Len(b) - Len(a)) /\ strategy = "Truncate"
    <3>1. suggest_compaction(b) = "Truncate"
      BY <2>2 DEF b
    <3>2. Critical(b)
      BY <3>1 DEF suggest_compaction
    <3> QED BY <1>2, <2>2, <3>2 DEF Comes
  <2>3. CASE ~(i > Len(b) - Len(a)) /\ strategy # "Truncate"
    <3>1. i \in 1 .. Len(b) - Len(a)
      BY <1>1, <1>7, <2>3
    <3>2. \/ \E e \in DOMAIN r.entries : b[i].id \in r.entries[e].about
          \/ ~r.written /\ ws # "ok"
      BY <1>2, <2>3, <3>1 DEF Comes, a
    <3>3. ASSUME NEW e \in DOMAIN r.entries, b[i].id \in r.entries[e].about
          PROVE  \E k \in DOMAIN ctx'.log : b[i].id \in ctx'.log[k].about
      <4>1. r.entries \in Seq(Entry)
        BY <1>2 DEF Comes
      <4>2. /\ e + Len(ctx.log) \in DOMAIN (ctx.log \o r.entries)
            /\ (ctx.log \o r.entries)[e + Len(ctx.log)] = r.entries[e]
        <5>1. e \in 1 .. Len(r.entries)
          BY <3>3, <4>1, LenProperties
        <5> DEFINE x == ctx.log
                   y == r.entries
                   k == e + Len(x)
        <5>2. /\ x \o y \in Seq(Entry) /\ Len(x \o y) = Len(x) + Len(y)
              /\ \A m \in 1 .. Len(x) + Len(y) :
                    (x \o y)[m] = IF m <= Len(x) THEN x[m] ELSE y[m - Len(x)]
          BY <1>1, <4>1, ConcatProperties
        <5>3. Len(x) \in Nat /\ Len(y) \in Nat
          BY <1>1, <4>1, LenProperties
        <5>4. e \in 1 .. Len(y)
          BY <5>1
        <5> HIDE DEF x, y
        <5>5. k \in 1 .. Len(x) + Len(y) /\ ~(k <= Len(x)) /\ k - Len(x) = e
          BY <5>3, <5>4
        <5> HIDE DEF k
        <5>6. (x \o y)[k] = y[e]
          BY <5>2, <5>5
        <5>7. k \in DOMAIN (x \o y)
          BY <5>2, <5>3, <5>5, LenProperties
        <5> QED BY <5>6, <5>7 DEF x, y, k
      <4> QED BY <1>3, <3>3, <4>2
    <3> QED BY <3>2, <3>3
  <2> QED BY <2>1, <2>2, <2>3
<1>10. ForgottenHasACause'
  BY <1>4, <1>9 DEF ForgottenHasACause
<1>11. strategy # "Truncate" => ~Critical(b)
  <2> SUFFICES ASSUME strategy # "Truncate", Critical(b) PROVE FALSE
    OBVIOUS
  <2>1. suggest_compaction(b) # "Truncate"
    BY DEF b
  <2>2. ~needs_compaction(b)
    BY <2>1 DEF suggest_compaction
  <2> QED BY <1>8, <2>2 DEF needs_compaction, Critical
<1>12. Critical(a) => Critical(b)
  BY <1>8 DEF Critical
<1>13. Critical(a) => Len(a) <= KeepTruncated
  BY <1>2, <1>11, <1>12 DEF Comes, a
<1>14. needs_compaction(a) => Len(a) <= KeepMoved \/ r.failed
  <2>1. CASE strategy = "None"
    <3>1. a = b /\ suggest_compaction(b) = "None"
      BY <1>2, <2>1 DEF Comes, a, b
    <3>2. ~needs_compaction(b)
      BY <3>1 DEF suggest_compaction
    <3> QED BY <3>1, <3>2
  <2>2. CASE strategy = "Truncate"
    <3>1. Len(a) <= KeepTruncated
      BY <1>2, <2>2 DEF Comes, a
    <3> QED BY <1>7, <3>1, KeepAssumption
  <2>3. CASE strategy \in {"Summarize", "MoveToWorkspace"}
    BY <1>2, <2>3 DEF Comes, a
  <2> QED BY <2>1, <2>2, <2>3 DEF CompactionStrategy
<1>15. r.failed => a = b /\ ~llm
  BY <1>2 DEF Comes, a
<1>16. StillFullHasACause'
  BY <1>4, <1>13, <1>14, <1>15 DEF StillFullHasACause
<1> QED BY <1>4, <1>6, <1>10, <1>16 DEF CompactionKeepsTrack

\* A new thread is in the compaction invariant.
LEMMA ContextStarts == ContextInit => ContextInv
<1> SUFFICES ASSUME ContextInit PROVE ContextInv
  OBVIOUS
<1> DEFINE l == [strategy |-> "None", before |-> <<>>, after |-> <<>>,
                 llm |-> TRUE, ws |-> "ok", written |-> FALSE, failed |-> FALSE]
<1>1. ctx = [pc |-> "on", turns |-> <<>>, log |-> <<>>, steps |-> 0, last |-> l]
  BY DEF ContextInit, NoContext
<1>2. <<>> \in Seq(Turn) /\ <<>> \in Seq(Entry)
  OBVIOUS
<1>3. l \in [strategy : CompactionStrategy, before : Seq(Turn), after : Seq(Turn),
             llm : BOOLEAN, ws : Workspaces, written : BOOLEAN, failed : BOOLEAN]
  BY <1>2 DEF CompactionStrategy, Workspaces
<1>4. /\ l.strategy = "None" /\ l.before = <<>> /\ l.after = <<>> /\ l.failed = FALSE
  OBVIOUS
<1> HIDE DEF l
<1>5. ctx \in ContextType
  BY <1>1, <1>2, <1>3 DEF ContextType
<1>6. ctx.last = l
  BY <1>1
<1>7. KeepTruncated \in Nat /\ KeepMoved \in Nat
  BY KeepAssumption
<1>8. NewestSurvive
  <2>1. Len(<<>>) = 0 /\ <<>> = SubSeq(<<>>, 0 - 0 + 1, 0)
    OBVIOUS
  <2>2. 0 >= Smaller(0, KeepTruncated)
    BY <1>7 DEF Smaller
  <2> QED BY <1>4, <1>6, <2>1, <2>2 DEF NewestSurvive
<1>9. ForgottenHasACause
  BY <1>4, <1>6 DEF ForgottenHasACause
<1>10. StillFullHasACause
  BY <1>4, <1>6, <1>7 DEF StillFullHasACause
<1> QED BY <1>4, <1>5, <1>6, <1>8, <1>9, <1>10 DEF ContextInv, CompactionKeepsTrack,
                                                      CompactionStrategy

\* Over any turns and compactions the newest turns survive and what is forgotten has a cause.
THEOREM ContextInvariant == ContextSpec => []ContextInv
<1>1. ASSUME ContextInv, NEW llm \in BOOLEAN, NEW ws \in Workspaces,
             NEW input \in Inputs, NEW reply \in Replies, UserTurn(input, reply, llm, ws)
      PROVE  ContextInv'
  <2> DEFINE s == suggest_compaction(ctx.turns)
             c == Compacted(s, llm, ws)
             new == [id |-> ctx.steps + 1, input |-> input, reply |-> reply]
  <2>1. s \in CompactionStrategy /\ ctx \in ContextType
    BY <1>1 DEF suggest_compaction, CompactionStrategy, ContextInv
  <2>2. c \in ContextType
    BY <2>1, CompactedType
  <2>3. new \in Turn
    <3>1. ctx.steps + 1 \in Nat
      BY <2>1 DEF ContextType
    <3>2. input \in Nat /\ reply \in Nat \cup {Silence}
      BY KeepAssumption
    <3> QED BY <3>1, <3>2 DEF Turn
  <2>4. ctx' = [c EXCEPT !.turns = Append(c.turns, new), !.steps = c.steps + 1]
    BY <1>1 DEF UserTurn
  <2> HIDE DEF s, c, new
  <2>5. c.turns \in Seq(Turn) /\ c.steps + 1 \in Nat
    BY <2>2 DEF ContextType
  <2>6. Append(c.turns, new) \in Seq(Turn)
    BY <2>3, <2>5
  <2>7. ctx' \in ContextType /\ ctx'.last = c.last /\ ctx'.log = c.log
    BY <2>2, <2>4, <2>5, <2>6 DEF ContextType
  <2>8. CompactionKeepsTrack'
    BY <2>1, <2>7, KeepsTrack DEF s, c
  <2> QED BY <2>7, <2>8 DEF ContextInv
<1>2. ASSUME ContextInv, NEW llm \in BOOLEAN, NEW ws \in Workspaces, process_compact(llm, ws)
      PROVE  ContextInv'
  <2> DEFINE s == suggest_compaction(ctx.turns)
             t == IF s = "None" THEN "Summarize" ELSE s
             c == Compacted(t, llm, ws)
  <2>1. t \in CompactionStrategy /\ ctx \in ContextType
    BY <1>2 DEF suggest_compaction, CompactionStrategy, ContextInv
  <2>2. c \in ContextType
    BY <2>1, CompactedType
  <2>3. ctx' = [c EXCEPT !.steps = c.steps + 1]
    BY <1>2 DEF process_compact
  <2>4. t = s \/ (s = "None" /\ t = "Summarize")
    OBVIOUS
  <2> HIDE DEF s, t, c
  <2>5. c.steps + 1 \in Nat
    BY <2>2 DEF ContextType
  <2>6. ctx' \in ContextType /\ ctx'.last = c.last /\ ctx'.log = c.log
    BY <2>2, <2>3, <2>5 DEF ContextType
  <2>7. CompactionKeepsTrack'
    BY <2>1, <2>4, <2>6, KeepsTrack DEF s, c
  <2> QED BY <2>6, <2>7 DEF ContextInv
<1>3. ContextInv /\ [ContextNext]_ctx => ContextInv'
  <2> SUFFICES ASSUME ContextInv, [ContextNext]_ctx PROVE ContextInv'
    OBVIOUS
  <2>1. CASE UNCHANGED ctx
    BY <2>1 DEF ContextInv, CompactionKeepsTrack, NewestSurvive, ForgottenHasACause,
                StillFullHasACause
  <2>2. CASE ContextNext
    BY <1>1, <1>2, <2>2 DEF ContextNext, Workspaces
  <2> QED BY <2>1, <2>2
<1> QED BY <1>3, ContextStarts, PTL DEF ContextSpec

\* After every compaction, whatever the sizes, limits and failures: what is left is the
\* newest part of the conversation, a turn that went has its trace in the daily file or a
\* cause, and a context that is still full has one too.
THEOREM CompactionTracked == ContextSpec => []CompactionKeepsTrack
<1>1. ContextInv => CompactionKeepsTrack
  BY DEF ContextInv
<1> QED BY <1>1, ContextInvariant, PTL

-----------------------------------------------------------------------------
(* LlmCalls.  A call that a provider answered is held by its caller, if it *)
(* is one that records, until its record is written or the write has       *)
(* failed, so that it is held, or dropped, or in the table, and never      *)
(* twice.  What a caller holds agrees with who answered as long as no      *)
(* other call has been answered between.                                   *)

AnswerTexts == Answers \cup {"text"}

LlmCaller ==
  [pc : {"idle", "trying", "answered", "priced", "named", "recorded", "finished", "failed"},
   i : Nat, n : Nat, cost : Nat, model : {Models[k] : k \in 1 .. Len(Models)},
   raced : BOOLEAN, content : AnswerTexts,
   status : {"none", "Ok", "Attention", "Failed"},
   notified : AnswerTexts \cup {"nothing", "error", "no summary"}, left : Nat]

LlmAnswer == [by : 1 .. Len(Models), for : Purposes, tokens : Nat, dropped : BOOLEAN]

LlmRow ==
  [n : Nat, purpose : Purposes, model : {Models[k] : k \in 1 .. Len(Models)}, cost : Nat,
   tokens : Nat, at : 0 .. MaxTime, raced : BOOLEAN]

Holding == {"answered", "priced", "named"}

LlmTypes ==
  /\ last_used \in 1 .. Len(Models)
  /\ time \in 0 .. MaxTime
  /\ caller \in [Purposes -> LlmCaller]
  /\ llm_calls \in Seq(LlmRow)
  /\ answered \in Seq(LlmAnswer)

\* What is true of a call r that c has in hand.
HoldsRight(c, r) ==
  /\ r.pc = "trying" => r.i \in 1 .. Len(Models)
  /\ r.pc \in Holding =>
        /\ c \in Recorders
        /\ r.i \in 1 .. Len(Models)
        /\ r.n \in 1 .. Len(answered)
        /\ answered[r.n].by = r.i
        /\ answered[r.n].for = c
        /\ ~answered[r.n].dropped
        /\ \A k \in CallRows : llm_calls[k].n # r.n
        /\ ~r.raced =>
              /\ r.pc \in {"answered", "priced"} => last_used = r.i
              /\ r.pc \in {"priced", "named"} => r.cost = PriceOf(r.i) * answered[r.n].tokens
              /\ r.pc = "named" => r.model = Models[r.i]

Holds(r, n) == r.pc \in Holding /\ r.n = n

CallsAreHeld == \A c \in Purposes : HoldsRight(c, caller[c])

EachCallOnce ==
  /\ \A k \in CallRows : /\ llm_calls[k].n \in 1 .. Len(answered)
                          /\ ~answered[llm_calls[k].n].dropped
                          /\ answered[llm_calls[k].n].for \in Recorders
  /\ \A j, k \in CallRows : llm_calls[j].n = llm_calls[k].n => j = k
  /\ \A n \in 1 .. Len(answered) :
        \/ answered[n].for \notin Recorders
        \/ answered[n].dropped
        \/ \E c \in Purposes : Holds(caller[c], n)
        \/ \E k \in CallRows : llm_calls[k].n = n

LlmInv == LlmTypes /\ CallsAreHeld /\ EachCallOnce /\ AttributionHasACause

\* Every model of the price table has a price.
LEMMA PriceType ==
  ASSUME NEW i \in 1 .. Len(Models)
  PROVE  PriceOf(i) \in Nat
<1>1. model_cost(Models[i]) \subseteq Nat
  BY LlmCallsAssumption DEF model_cost
<1> QED BY <1>1, LlmCallsAssumption DEF PriceOf

\* A step of one caller that leaves the table, the clock and the answers alone.
LEMMA CallerSteps ==
  ASSUME LlmInv, NEW c \in Purposes, NEW r \in LlmCaller, HoldsRight(c, r),
         caller' = [caller EXCEPT ![c] = r],
         \A n \in Nat : Holds(caller[c], n) => Holds(r, n),
         UNCHANGED <<last_used, llm_calls, time, answered>>
  PROVE  LlmInv'
<1>1. LlmTypes'
  BY DEF LlmInv, LlmTypes
<1>2. caller'[c] = r /\ \A d \in Purposes \ {c} : caller'[d] = caller[d]
  BY DEF LlmInv, LlmTypes
<1>3. CallRows' = CallRows
  BY DEF CallRows
<1>4. CallsAreHeld'
  <2>1. ASSUME NEW d \in Purposes PROVE HoldsRight(d, caller[d])'
    <3>1. HoldsRight(d, caller'[d])
      BY <1>2 DEF LlmInv, CallsAreHeld
    <3> QED BY <1>3, <3>1 DEF HoldsRight
  <2> QED BY <2>1 DEF CallsAreHeld
<1>5. EachCallOnce'
  <2>1. \A n \in 1 .. Len(answered) :
          (\E d \in Purposes : Holds(caller[d], n)) => \E d \in Purposes : Holds(caller'[d], n)
    BY <1>2
  <2>2. \A n \in 1 .. Len(answered) :
          (\E d \in Purposes : Holds(caller[d], n)) => (\E d \in Purposes : Holds(caller[d], n))'
    BY <2>1 DEF Holds
  <2> QED BY <1>3, <2>2 DEF LlmInv, EachCallOnce
<1>6. AttributionHasACause'
  BY <1>3 DEF LlmInv, AttributionHasACause
<1> QED BY <1>1, <1>4, <1>5, <1>6 DEF LlmInv

\* Before any call nothing is spent and nothing is recorded.
LEMMA LlmStarts ==
  ASSUME LlmInit
  PROVE  LlmInv
<1>1. PICK b \in CallBudgets : LlmStart(b)
  BY DEF LlmInit
<1>2. \A c \in Purposes : b[c] \in Nat
  BY LlmCallsAssumption DEF Purposes
<1>3. \A c \in Purposes : Free(b[c]) \in LlmCaller
  BY <1>2, LlmCallsAssumption DEF Free, LlmCaller, AnswerTexts
<1>4. \A c \in Purposes : caller[c] = Free(b[c]) /\ caller[c].pc = "idle"
  BY <1>1 DEF LlmStart, Free
<1>5. llm_calls = <<>> /\ answered = <<>> /\ CallRows = {} /\ 1 .. Len(answered) = {}
  BY <1>1 DEF LlmStart, CallRows
<1>6. LlmTypes
  BY <1>1, <1>3, <1>4, <1>5, LlmCallsAssumption DEF LlmTypes, LlmStart
<1>7. CallsAreHeld
  BY <1>4 DEF CallsAreHeld, HoldsRight, Holding
<1>8. EachCallOnce /\ AttributionHasACause
  BY <1>5 DEF EachCallOnce, AttributionHasACause
<1> QED BY <1>6, <1>7, <1>8 DEF LlmInv

\* The steps that only move the caller.
LEMMA CallerMoves ==
  ASSUME LlmInv, NEW c \in Purposes,
         \/ Ask(c)
         \/ \E err \in LlmErrors : ProviderFails(c, err)
         \/ ReadPrice(c)
         \/ ReadName(c)
         \/ execute_lightweight(c)
         \/ \E notify \in NotifyConfigs : send_notification(c, notify)
  PROVE  LlmInv'
<1> DEFINE old == caller[c]
<1>0. /\ old \in LlmCaller /\ HoldsRight(c, old) /\ caller \in [Purposes -> LlmCaller]
      /\ last_used \in 1 .. Len(Models) /\ answered \in Seq(LlmAnswer)
  BY DEF LlmInv, LlmTypes, CallsAreHeld
<1>1. CASE Ask(c)
  <2> DEFINE left == old.left - 1
             r == [Free(left) EXCEPT !.pc = "trying", !.i = 1]
  <2>1. left \in Nat
    <3>1. old.left \in Nat
      BY <1>0 DEF LlmCaller
    <3>2. old.left > 0
      BY <1>1 DEF Ask
    <3> QED BY <3>1, <3>2
  <2>3. caller' = [caller EXCEPT ![c] = r]
    BY <1>1 DEF Ask
  <2> HIDE DEF left
  <2>2. r \in LlmCaller /\ r.pc = "trying" /\ r.i = 1
    <3>1. Models[1] \in {Models[k] : k \in 1 .. Len(Models)}
      BY LlmCallsAssumption
    <3>2. Free(left) \in LlmCaller
      BY <2>1, <3>1 DEF Free, LlmCaller, AnswerTexts
    <3> QED BY <3>2 DEF LlmCaller
  <2>4. HoldsRight(c, r) /\ \A n \in Nat : ~Holds(old, n)
    BY <1>1, <2>2, LlmCallsAssumption DEF HoldsRight, Holding, Holds, Ask
  <2> QED BY <1>1, <2>2, <2>3, <2>4, CallerSteps DEF Ask
<1>2. ASSUME NEW err \in LlmErrors, ProviderFails(c, err) PROVE LlmInv'
  <2> DEFINE r == IF is_retryable(err) /\ old.i < Len(Models)
                  THEN [old EXCEPT !.i = @ + 1]
                  ELSE [old EXCEPT !.pc = IF c = "routine" THEN "failed" ELSE "idle"]
  <2>1. old.pc = "trying" /\ old.i \in 1 .. Len(Models)
    BY <1>0, <1>2 DEF ProviderFails, HoldsRight
  <2>2. r \in LlmCaller /\ r.pc \in {"trying", "failed", "idle"}
        /\ (r.pc = "trying" => r.i \in 1 .. Len(Models))
    <3>1. CASE is_retryable(err) /\ old.i < Len(Models)
      <4>1. old.i + 1 \in 1 .. Len(Models) /\ old.i + 1 \in Nat
        BY <2>1, <3>1, LlmCallsAssumption
      <4>2. r = [old EXCEPT !.i = old.i + 1]
        BY <3>1
      <4> HIDE DEF r
      <4> QED BY <1>0, <2>1, <4>1, <4>2 DEF LlmCaller
    <3>2. CASE ~(is_retryable(err) /\ old.i < Len(Models))
      <4>1. PICK pc \in {"failed", "idle"} : r = [old EXCEPT !.pc = pc]
        BY <3>2
      <4> HIDE DEF r
      <4> QED BY <1>0, <4>1 DEF LlmCaller
    <3> QED BY <3>1, <3>2
  <2>3. caller' = [caller EXCEPT ![c] = r]
    BY <1>2 DEF ProviderFails
  <2> HIDE DEF r
  <2>4. HoldsRight(c, r) /\ \A n \in Nat : ~Holds(old, n)
    BY <2>1, <2>2 DEF HoldsRight, Holding, Holds
  <2> QED BY <1>2, <2>2, <2>3, <2>4, CallerSteps DEF ProviderFails
<1>3. CASE ReadPrice(c)
  <2> DEFINE price == cost_per_token * answered[old.n].tokens
             r == [old EXCEPT !.pc = "priced", !.cost = price]
  <2>1. old.pc = "answered" /\ old.n \in 1 .. Len(answered)
    BY <1>0, <1>3 DEF ReadPrice, HoldsRight, Holding
  <2>2. price \in Nat
    <3>1. answered[old.n] \in LlmAnswer
      BY <1>0, <2>1, ElementOfSeq
    <3>2. cost_per_token \in Nat
      BY <1>0, PriceType DEF cost_per_token
    <3>3. answered[old.n].tokens \in Nat
      BY <3>1 DEF LlmAnswer
    <3> QED BY <3>2, <3>3
  <2>3. ~old.raced => price = PriceOf(old.i) * answered[old.n].tokens
    BY <1>0, <2>1 DEF cost_per_token, HoldsRight, Holding
  <2> HIDE DEF price
  <2>4. /\ r \in LlmCaller /\ r.pc = "priced" /\ r.cost = price /\ r.i = old.i
        /\ r.n = old.n /\ r.raced = old.raced
    BY <1>0, <2>2 DEF LlmCaller
  <2>5. caller' = [caller EXCEPT ![c] = r]
    BY <1>3, Zenon DEF ReadPrice, price
  <2> HIDE DEF r
  <2>6. HoldsRight(c, r)
    BY <1>0, <2>1, <2>3, <2>4 DEF HoldsRight, Holding
  <2>7. \A n \in Nat : Holds(old, n) => Holds(r, n)
    BY <2>4 DEF Holds, Holding
  <2> QED BY <1>3, <2>4, <2>5, <2>6, <2>7, CallerSteps DEF ReadPrice
<1>4. CASE ReadName(c)
  <2> DEFINE r == [old EXCEPT !.pc = "named", !.model = model_name]
  <2>1. old.pc = "priced" /\ model_name = Models[last_used]
    BY <1>4 DEF ReadName, model_name
  <2>2. /\ r \in LlmCaller /\ r.pc = "named" /\ r.cost = old.cost /\ r.i = old.i
        /\ r.n = old.n /\ r.raced = old.raced /\ r.model = Models[last_used]
    BY <1>0, <2>1 DEF LlmCaller
  <2>3. caller' = [caller EXCEPT ![c] = r]
    BY <1>4, Zenon DEF ReadName
  <2> HIDE DEF r
  <2>4. HoldsRight(c, r)
    BY <1>0, <2>1, <2>2 DEF HoldsRight, Holding
  <2>5. \A n \in Nat : Holds(old, n) => Holds(r, n)
    BY <2>2 DEF Holds, Holding
  <2> QED BY <1>4, <2>2, <2>3, <2>4, <2>5, CallerSteps DEF ReadName
<1>5. CASE execute_lightweight(c)
  <2> DEFINE pc == IF old.content \in {"empty", "truncated"} THEN "failed" ELSE "finished"
             status == IF old.content \in {"ROUTINE_OK", "text with ROUTINE_OK"}
                       THEN "Ok" ELSE "Attention"
             r == [old EXCEPT !.pc = pc, !.status = status]
  <2>1. pc \in {"failed", "finished"} /\ status \in {"Ok", "Attention"}
    OBVIOUS
  <2>2. caller' = [caller EXCEPT ![c] = r] /\ old.pc = "recorded"
    BY <1>5, Zenon DEF execute_lightweight
  <2> HIDE DEF pc, status
  <2>3. r \in LlmCaller /\ r.pc \in {"failed", "finished"}
    BY <1>0, <2>1 DEF LlmCaller
  <2>4. HoldsRight(c, r) /\ \A n \in Nat : ~Holds(old, n)
    BY <2>2, <2>3 DEF HoldsRight, Holding, Holds
  <2> QED BY <1>5, <2>2, <2>3, <2>4, CallerSteps DEF execute_lightweight
<1>6. ASSUME NEW notify \in NotifyConfigs, send_notification(c, notify) PROVE LlmInv'
  <2> DEFINE status == IF old.pc = "failed" THEN "Failed" ELSE old.status
             told == CASE status \notin notify -> "nothing"
                       [] status = "Failed" -> "error"
                       [] status = "Attention" -> old.content
                       [] OTHER -> "no summary"
             r == [old EXCEPT !.pc = "idle", !.status = status, !.notified = told]
  <2>1. status \in {"none", "Ok", "Attention", "Failed"}
    BY <1>0 DEF LlmCaller
  <2>2. told \in AnswerTexts \cup {"nothing", "error", "no summary"}
    <3> HIDE DEF status
    <3> QED BY <1>0 DEF LlmCaller
  <2>3. old.pc \in {"finished", "failed"}
    BY <1>6, Zenon DEF send_notification
  <2>6. caller' = [caller EXCEPT ![c].pc = "idle", ![c].status = status, ![c].notified = told]
    BY <1>6, Zenon DEF send_notification
  <2> HIDE DEF status, told
  <2>7. caller' = [caller EXCEPT ![c] = r]
    BY <2>6, Zenon
  <2>4. r \in LlmCaller /\ r.pc = "idle"
    BY <1>0, <2>1, <2>2 DEF LlmCaller
  <2>5. HoldsRight(c, r) /\ \A n \in Nat : ~Holds(old, n)
    BY <2>3, <2>4 DEF HoldsRight, Holding, Holds
  <2> QED BY <1>6, <2>4, <2>5, <2>7, CallerSteps DEF send_notification
<1> QED BY <1>1, <1>2, <1>3, <1>4, <1>5, <1>6

\* An answer of a provider is one more call to account for, held by the caller that got it.
LEMMA AnswerComes ==
  ASSUME LlmInv, NEW c \in Purposes, NEW content \in AnswerTexts, NEW tokens \in Tokens,
         ProviderAnswers(c, content, tokens)
  PROVE  LlmInv'
<1> DEFINE old == caller[c]
           L == Len(answered)
           a == [by |-> old.i, for |-> c, tokens |-> tokens, dropped |-> FALSE]
           race(d) == caller[d].raced \/ Overtaken(c, d)
           pc == Answered(c)
           r == [old EXCEPT !.pc = pc, !.n = L + 1, !.content = content]
<1>0. /\ old \in LlmCaller /\ old.pc = "trying" /\ old.i \in 1 .. Len(Models)
      /\ caller \in [Purposes -> LlmCaller] /\ llm_calls \in Seq(LlmRow)
      /\ answered \in Seq(LlmAnswer) /\ L \in Nat
  BY DEF LlmInv, LlmTypes, CallsAreHeld, ProviderAnswers, HoldsRight
<1>1. a \in LlmAnswer /\ a.by = old.i /\ a.for = c /\ ~a.dropped
  BY <1>0, LlmCallsAssumption DEF LlmAnswer
<1>2. answered' = Append(answered, a) /\ last_used' = old.i /\ UNCHANGED <<llm_calls, time>>
  BY DEF ProviderAnswers
<1>3. caller' = [d \in Purposes |-> IF d = c THEN r ELSE [caller[d] EXCEPT !.raced = race(d)]]
  BY <1>0 DEF ProviderAnswers
<1> HIDE DEF a
<1>4. /\ answered' \in Seq(LlmAnswer) /\ Len(answered') = L + 1 /\ answered'[L + 1] = a
      /\ \A k \in 1 .. L : answered'[k] = answered[k]
  BY <1>0, <1>1, <1>2
<1>5. caller'[c] = r
  BY <1>3
<1> HIDE DEF L
<1>13. pc \in {"answered", "idle"} /\ (pc = "answered" <=> c \in Recorders)
  BY DEF Answered
<1> HIDE DEF pc
<1>6. r \in LlmCaller /\ r.pc = pc /\ r.n = L + 1 /\ r.i = old.i
  <2> DEFINE n == L + 1
  <2>1. n \in Nat
    BY <1>0
  <2> HIDE DEF n
  <2>2. /\ [old EXCEPT !.pc = pc, !.n = n, !.content = content] \in LlmCaller
        /\ [old EXCEPT !.pc = pc, !.n = n, !.content = content].pc = pc
        /\ [old EXCEPT !.pc = pc, !.n = n, !.content = content].n = n
        /\ [old EXCEPT !.pc = pc, !.n = n, !.content = content].i = old.i
    BY <1>0, <1>13, <2>1 DEF LlmCaller
  <2> QED BY <2>2 DEF n
<1>7. ASSUME NEW d \in Purposes \ {c}
      PROVE  /\ caller'[d] \in LlmCaller
             /\ caller'[d].pc = caller[d].pc /\ caller'[d].i = caller[d].i
             /\ caller'[d].n = caller[d].n /\ caller'[d].cost = caller[d].cost
             /\ caller'[d].model = caller[d].model
             /\ ~caller'[d].raced => ~caller[d].raced /\ ~Overtaken(c, d)
  <2>1. caller'[d] = [caller[d] EXCEPT !.raced = race(d)] /\ caller[d] \in LlmCaller
    BY <1>0, <1>3
  <2>2. PICK b \in BOOLEAN : b = race(d)
    OBVIOUS
  <2>3. caller'[d] = [caller[d] EXCEPT !.raced = b] /\ (~b => ~caller[d].raced /\ ~Overtaken(c, d))
    BY <2>1, <2>2
  <2> HIDE DEF race
  <2> QED BY <2>1, <2>3 DEF LlmCaller
<1> HIDE DEF r, race
<1>8. LlmTypes'
  <2>1. caller' \in [Purposes -> LlmCaller]
    BY <1>3, <1>5, <1>6, <1>7
  <2> QED BY <1>0, <1>2, <1>4, <2>1 DEF LlmInv, LlmTypes
<1>9. \A k \in CallRows : /\ llm_calls[k].n \in 1 .. L /\ ~answered[llm_calls[k].n].dropped
                           /\ answered[llm_calls[k].n].for \in Recorders
  BY DEF LlmInv, EachCallOnce, L
<1>10. CallsAreHeld'
  <2>1. HoldsRight(c, caller[c])'
    BY <1>0, <1>1, <1>2, <1>4, <1>5, <1>6, <1>9, <1>13 DEF HoldsRight, Holding, CallRows
  <2>2. ASSUME NEW d \in Purposes \ {c} PROVE HoldsRight(d, caller[d])'
    <3>1. HoldsRight(d, caller[d]) /\ caller[d] \in LlmCaller
      BY <1>0 DEF LlmInv, CallsAreHeld
    <3>2. CASE caller[d].pc \in Holding
      <4>1. /\ caller[d].n \in 1 .. L /\ answered'[caller[d].n] = answered[caller[d].n]
            /\ caller[d].n \in 1 .. L + 1
        BY <1>0, <1>4, <3>1, <3>2 DEF HoldsRight, L
      <4>2. ~Overtaken(c, d) /\ caller[d].pc \in {"answered", "priced"} => caller[d].i = old.i
        BY DEF Overtaken
      <4>3. CallRows' = CallRows
        BY <1>2 DEF CallRows
      <4> QED BY <1>2, <1>4, <1>7, <3>1, <3>2, <4>1, <4>2, <4>3 DEF HoldsRight, Holding
    <3>3. CASE caller[d].pc \notin Holding
      BY <1>7, <3>1, <3>3 DEF HoldsRight
    <3> QED BY <3>2, <3>3
  <2> QED BY <2>1, <2>2 DEF CallsAreHeld
<1>11. EachCallOnce'
  <2>1. ASSUME NEW n \in 1 .. L + 1
        PROVE  \/ answered'[n].for \notin Recorders
               \/ answered'[n].dropped
               \/ \E d \in Purposes : Holds(caller'[d], n)
               \/ \E k \in CallRows : llm_calls[k].n = n
    <3>1. CASE n = L + 1
      <4>1. CASE c \in Recorders
        BY <1>5, <1>6, <1>13, <3>1, <4>1 DEF Holds, Holding
      <4>2. CASE c \notin Recorders
        BY <1>1, <1>4, <3>1, <4>2
      <4> QED BY <4>1, <4>2
    <3>2. CASE n \in 1 .. L
      <4>1. \/ answered[n].for \notin Recorders
            \/ answered[n].dropped
            \/ \E d \in Purposes : Holds(caller[d], n)
            \/ \E k \in CallRows : llm_calls[k].n = n
        BY <3>2 DEF LlmInv, EachCallOnce, L
      <4>2. ~Holds(old, n)
        BY <1>0 DEF Holds, Holding
      <4>3. ASSUME NEW d \in Purposes, Holds(caller[d], n) PROVE Holds(caller'[d], n)
        BY <1>7, <4>2, <4>3 DEF Holds
      <4> QED BY <1>4, <3>2, <4>1, <4>3
    <3> QED BY <1>0, <3>1, <3>2
  <2>2. CallRows' = CallRows /\ llm_calls' = llm_calls
    BY <1>2 DEF CallRows
  <2>3. \A k \in CallRows : /\ llm_calls[k].n \in 1 .. L + 1
                             /\ ~answered'[llm_calls[k].n].dropped
                             /\ answered'[llm_calls[k].n].for \in Recorders
    BY <1>0, <1>4, <1>9
  <2>4. \A n \in 1 .. Len(answered') :
               \/ answered'[n].for \notin Recorders
               \/ answered'[n].dropped
               \/ (\E d \in Purposes : Holds(caller[d], n))'
               \/ \E k \in CallRows : llm_calls[k].n = n
    BY <1>4, <2>1 DEF Holds
  <2> QED BY <1>4, <2>2, <2>3, <2>4 DEF LlmInv, EachCallOnce
<1>12. AttributionHasACause'
  BY <1>2, <1>4, <1>9 DEF LlmInv, AttributionHasACause, CallRows
<1> QED BY <1>8, <1>10, <1>11, <1>12 DEF LlmInv

\* record_llm_call gives a call its row, or drops it when the store fails.
LEMMA RecordComes ==
  ASSUME LlmInv, NEW c \in Purposes, NEW ok \in BOOLEAN, record_llm_call(c, ok)
  PROVE  LlmInv'
<1> DEFINE old == caller[c]
           L == Len(answered)
           R == Len(llm_calls)
           pc == IF c = "routine" THEN "recorded" ELSE "idle"
           r == [old EXCEPT !.pc = pc]
           row == [n |-> old.n, purpose |-> c, model |-> old.model, cost |-> old.cost,
                   tokens |-> answered[old.n].tokens, at |-> time, raced |-> old.raced]
<1>0. /\ old \in LlmCaller /\ old.pc = "named" /\ HoldsRight(c, old)
      /\ caller \in [Purposes -> LlmCaller] /\ llm_calls \in Seq(LlmRow)
      /\ answered \in Seq(LlmAnswer) /\ L \in Nat /\ R \in Nat /\ time \in 0 .. MaxTime
  BY DEF LlmInv, LlmTypes, CallsAreHeld, record_llm_call
<1>1. /\ c \in Recorders /\ old.n \in 1 .. L /\ answered[old.n].by = old.i /\ answered[old.n].for = c
      /\ ~answered[old.n].dropped /\ old.i \in 1 .. Len(Models)
      /\ \A k \in CallRows : llm_calls[k].n # old.n
      /\ ~old.raced => /\ old.cost = PriceOf(old.i) * answered[old.n].tokens
                       /\ old.model = Models[old.i]
  BY <1>0 DEF HoldsRight, Holding
<1>2. answered[old.n] \in LlmAnswer
  BY <1>0, <1>1, ElementOfSeq
<1>3. r \in LlmCaller /\ r.pc \in {"recorded", "idle"}
  <2>1. pc \in {"recorded", "idle"}
    OBVIOUS
  <2> HIDE DEF pc
  <2> QED BY <1>0, <2>1 DEF LlmCaller
<1>4. caller' = [caller EXCEPT ![c] = r] /\ UNCHANGED <<last_used, time>>
  BY DEF record_llm_call
<1> HIDE DEF r
<1>5. caller'[c] = r /\ caller' \in [Purposes -> LlmCaller]
      /\ \A d \in Purposes \ {c} : caller'[d] = caller[d]
  BY <1>0, <1>3, <1>4
<1>6. ASSUME NEW d \in Purposes \ {c}, caller[d].pc \in Holding
      PROVE  caller[d].n \in 1 .. L /\ caller[d].n # old.n
  BY <1>1, <1>6 DEF LlmInv, CallsAreHeld, HoldsRight
<1>7. HoldsRight(c, caller[c])'
  BY <1>3, <1>5 DEF HoldsRight, Holding
<1>8. \A n \in 1 .. L : n = old.n \/ answered[n].for \notin Recorders \/ answered[n].dropped
             \/ (\E d \in Purposes : Holds(caller'[d], n))
             \/ \E k \in CallRows : llm_calls[k].n = n
  <2>1. ASSUME NEW n \in 1 .. L, n # old.n, NEW d \in Purposes, Holds(caller[d], n)
        PROVE  Holds(caller'[d], n)
    BY <1>5, <2>1 DEF Holds
  <2> QED BY <2>1 DEF LlmInv, EachCallOnce
<1>9. CASE ok
  <2>1. llm_calls' = Append(llm_calls, row) /\ answered' = answered
    BY <1>9 DEF record_llm_call
  <2>2. /\ row \in LlmRow /\ row.n = old.n /\ row.raced = old.raced /\ row.model = old.model
        /\ row.cost = old.cost
    BY <1>0, <1>2 DEF LlmCaller, LlmRow, LlmAnswer
  <2> HIDE DEF row
  <2>3. /\ llm_calls' \in Seq(LlmRow) /\ Len(llm_calls') = R + 1 /\ llm_calls'[R + 1] = row
        /\ \A k \in 1 .. R : llm_calls'[k] = llm_calls[k]
    BY <1>0, <2>1, <2>2
  <2> HIDE DEF R
  <2>4. CallRows = 1 .. R /\ CallRows' = 1 .. R + 1 /\ 1 .. R + 1 = (1 .. R) \cup {R + 1}
        /\ R + 1 \notin 1 .. R
    BY <1>0, <2>3 DEF CallRows, R
  <2>5. LlmTypes'
    BY <1>0, <1>4, <1>5, <2>1, <2>3 DEF LlmInv, LlmTypes
  <2>6. CallsAreHeld'
    <3>1. ASSUME NEW d \in Purposes \ {c} PROVE HoldsRight(d, caller[d])'
      <4>1. HoldsRight(d, caller[d]) /\ caller'[d] = caller[d] /\ last_used' = last_used
        BY <1>4, <1>5 DEF LlmInv, CallsAreHeld
      <4>2. caller[d].pc \in Holding => \A k \in 1 .. R + 1 : llm_calls'[k].n # caller[d].n
        BY <1>6, <2>2, <2>3, <2>4, <4>1 DEF HoldsRight
      <4> QED BY <2>1, <2>4, <4>1, <4>2 DEF HoldsRight
    <3> QED BY <1>7, <3>1 DEF CallsAreHeld
  <2>7. EachCallOnce'
    <3>1. \A k \in 1 .. R + 1 : /\ llm_calls'[k].n \in 1 .. L
                                 /\ ~answered[llm_calls'[k].n].dropped
                                 /\ answered[llm_calls'[k].n].for \in Recorders
      BY <1>1, <2>2, <2>3, <2>4 DEF LlmInv, EachCallOnce
    <3>2. \A j, k \in 1 .. R + 1 : llm_calls'[j].n = llm_calls'[k].n => j = k
      <4>1. \A j, k \in 1 .. R : llm_calls'[j].n = llm_calls'[k].n => j = k
        BY <2>3, <2>4 DEF LlmInv, EachCallOnce
      <4>2. \A k \in 1 .. R : llm_calls'[k].n # llm_calls'[R + 1].n
        BY <1>1, <2>2, <2>3, <2>4
      <4> QED BY <2>4, <4>1, <4>2
    <3>3. \A n \in 1 .. L : \/ answered[n].for \notin Recorders
             \/ answered[n].dropped
             \/ (\E d \in Purposes : Holds(caller'[d], n))
             \/ \E k \in 1 .. R + 1 : llm_calls'[k].n = n
      <4>1. \A n \in 1 .. L : (\E k \in CallRows : llm_calls[k].n = n)
               => \E k \in 1 .. R + 1 : llm_calls'[k].n = n
        BY <2>3, <2>4
      <4>2. \E k \in 1 .. R + 1 : llm_calls'[k].n = old.n
        BY <2>2, <2>3, <2>4
      <4> QED BY <1>8, <4>1, <4>2
    <3>4. \A n \in 1 .. L : (\E d \in Purposes : Holds(caller'[d], n))
             => (\E d \in Purposes : Holds(caller[d], n))'
      BY DEF Holds
    <3> QED BY <2>1, <2>4, <3>1, <3>2, <3>3, <3>4 DEF EachCallOnce
  <2>8. AttributionHasACause'
    <3>1. ASSUME NEW k \in 1 .. R + 1, ~llm_calls'[k].raced
          PROVE  /\ llm_calls'[k].model = Models[answered[llm_calls'[k].n].by]
                 /\ llm_calls'[k].cost = PriceOf(answered[llm_calls'[k].n].by)
                                            * answered[llm_calls'[k].n].tokens
      <4>1. CASE k = R + 1
        BY <1>1, <2>2, <2>3, <3>1, <4>1
      <4>2. CASE k \in 1 .. R
        BY <2>3, <2>4, <3>1, <4>2 DEF LlmInv, AttributionHasACause
      <4> QED BY <2>4, <4>1, <4>2
    <3> QED BY <2>1, <2>4, <3>1 DEF AttributionHasACause
  <2> QED BY <2>5, <2>6, <2>7, <2>8 DEF LlmInv
<1>10. CASE ~ok
  <2>1. llm_calls' = llm_calls /\ CallRows' = CallRows
        /\ answered' = [answered EXCEPT ![old.n].dropped = TRUE]
    BY <1>10 DEF record_llm_call, CallRows
  <2> DEFINE gone == [answered[old.n] EXCEPT !.dropped = TRUE]
  <2>2. gone \in LlmAnswer /\ gone.dropped
    BY <1>2 DEF LlmAnswer
  <2>3. answered' = [answered EXCEPT ![old.n] = gone]
    BY <2>1, Zenon
  <2> HIDE DEF gone
  <2>4. /\ answered' \in Seq(LlmAnswer) /\ Len(answered') = L /\ answered'[old.n].dropped
        /\ \A n \in 1 .. L : n # old.n => answered'[n] = answered[n]
    BY <1>0, <1>1, <2>2, <2>3
  <2>5. LlmTypes'
    BY <1>0, <1>4, <1>5, <2>1, <2>4 DEF LlmInv, LlmTypes
  <2>6. CallsAreHeld'
    <3>1. ASSUME NEW d \in Purposes \ {c} PROVE HoldsRight(d, caller[d])'
      <4>1. HoldsRight(d, caller[d]) /\ caller'[d] = caller[d] /\ last_used' = last_used
        BY <1>4, <1>5 DEF LlmInv, CallsAreHeld
      <4>2. CASE caller[d].pc \in Holding
        <5>1. answered'[caller[d].n] = answered[caller[d].n] /\ caller[d].n \in 1 .. L
          BY <1>6, <2>4, <4>2
        <5>2. PICK held : held = caller[d]
          OBVIOUS
        <5>3. /\ HoldsRight(d, held) /\ held.pc \in Holding
              /\ answered'[held.n] = answered[held.n] /\ held.n \in 1 .. L
          BY <4>1, <4>2, <5>1, <5>2
        <5>4. HoldsRight(d, held)'
          BY <2>1, <2>4, <4>1, <5>3 DEF HoldsRight
        <5>5. caller'[d] = held
          BY <4>1, <5>2
        <5> QED BY <5>4, <5>5 DEF HoldsRight
      <4>3. CASE caller[d].pc \notin Holding
        BY <4>1, <4>3 DEF HoldsRight
      <4> QED BY <4>2, <4>3
    <3> QED BY <1>7, <3>1 DEF CallsAreHeld
  <2>7. \A k \in CallRows : /\ llm_calls[k].n \in 1 .. L /\ llm_calls[k].n # old.n
                             /\ answered[llm_calls[k].n].for \in Recorders
    BY <1>1 DEF LlmInv, EachCallOnce
  <2>8. EachCallOnce'
    <3>1. \A n \in 1 .. L : \/ answered'[n].for \notin Recorders
             \/ answered'[n].dropped
             \/ (\E d \in Purposes : Holds(caller'[d], n))
             \/ \E k \in CallRows : llm_calls[k].n = n
      BY <1>8, <2>4
    <3>2. \A n \in 1 .. L : (\E d \in Purposes : Holds(caller'[d], n))
             => (\E d \in Purposes : Holds(caller[d], n))'
      BY DEF Holds
    <3> QED BY <2>1, <2>4, <2>7, <3>1, <3>2 DEF LlmInv, EachCallOnce
  <2>9. AttributionHasACause'
    BY <2>1, <2>4, <2>7 DEF LlmInv, AttributionHasACause
  <2> QED BY <2>5, <2>6, <2>8, <2>9 DEF LlmInv
<1> QED BY <1>9, <1>10

\* Types, what the callers hold, the record of each call and the attribution hold in every
\* reachable state, however the callers interleave and whatever fails.
THEOREM LlmInvariant == LlmSpec => []LlmInv
<1>1. ASSUME LlmInv, [LlmNext]_llmVars PROVE LlmInv'
  <2>1. CASE UNCHANGED llmVars \/ Wait
    <3>1. /\ UNCHANGED <<last_used, caller, llm_calls, answered>>
          /\ time' \in 0 .. MaxTime
      BY <1>1, <2>1, LlmCallsAssumption DEF llmVars, Wait, LlmInv, LlmTypes
    <3>2. CallRows' = CallRows
      BY <3>1 DEF CallRows
    <3>3. LlmTypes' /\ AttributionHasACause'
      BY <1>1, <3>1, <3>2 DEF LlmInv, LlmTypes, AttributionHasACause
    <3>4. CallsAreHeld'
      BY <1>1, <3>1, <3>2 DEF LlmInv, CallsAreHeld, HoldsRight
    <3>5. EachCallOnce'
      BY <1>1, <3>1, <3>2 DEF LlmInv, EachCallOnce, Holds
    <3> QED BY <3>3, <3>4, <3>5 DEF LlmInv
  <2>2. ASSUME NEW c \in Purposes, NEW content \in AnswerTexts, NEW tokens \in Tokens,
               ProviderAnswers(c, content, tokens)
        PROVE  LlmInv'
    BY <1>1, <2>2, AnswerComes
  <2>3. ASSUME NEW c \in Purposes, NEW ok \in BOOLEAN, record_llm_call(c, ok)
        PROVE  LlmInv'
    BY <1>1, <2>3, RecordComes
  <2>4. ASSUME NEW c \in Purposes,
               \/ Ask(c)
               \/ \E err \in LlmErrors : ProviderFails(c, err)
               \/ ReadPrice(c)
               \/ ReadName(c)
               \/ execute_lightweight(c)
               \/ \E notify \in NotifyConfigs : send_notification(c, notify)
        PROVE  LlmInv'
    BY <1>1, <2>4, CallerMoves
  <2>5. ASSUME NEW c \in Purposes,
               NEW content \in IF c = "routine" THEN Answers ELSE {"text"}
        PROVE  content \in AnswerTexts
    BY DEF AnswerTexts
  <2> QED BY <1>1, <2>1, <2>2, <2>3, <2>4, <2>5 DEF LlmNext
<1> QED BY <1>1, LlmStarts, PTL DEF LlmSpec

\* Every answered call of a chat or a routine is on record once under the name and price of
\* who answered it, no call of anybody else is on record, and the spend of adjacent periods
\* adds up, for any number of providers, calls and prices.
THEOREM SpendAddsUp == LlmSpec => []SpendIsAccountedFor
<1>1. ASSUME LlmInv PROVE SpendIsComplete
  <2>1. ASSUME \A c \in Purposes : caller[c].pc = "idle", NEW n \in 1 .. Len(answered)
        PROVE  Cardinality({i \in CallRows : llm_calls[i].n = n})
                 = IF answered[n].dropped \/ answered[n].for \notin Recorders THEN 0 ELSE 1
    <3>1. \A c \in Purposes : ~Holds(caller[c], n)
      BY <2>1 DEF Holds, Holding
    <3>2. CASE answered[n].dropped \/ answered[n].for \notin Recorders
      <4>1. {i \in CallRows : llm_calls[i].n = n} = {}
        BY <1>1, <3>2 DEF LlmInv, EachCallOnce
      <4> QED BY <3>2, <4>1, FS_EmptySet
    <3>3. CASE ~answered[n].dropped /\ answered[n].for \in Recorders
      <4>1. PICK k \in CallRows : llm_calls[k].n = n
        BY <1>1, <3>1, <3>3 DEF LlmInv, EachCallOnce
      <4>2. {i \in CallRows : llm_calls[i].n = n} = {k}
        BY <1>1, <4>1 DEF LlmInv, EachCallOnce
      <4> QED BY <3>3, <4>2, FS_Singleton
    <3> QED BY <3>2, <3>3
  <2>2. ASSUME NEW t \in 0 .. MaxTime
        PROVE  get_costs_by_period(0, t).total_cost
                 + get_costs_by_period(t, MaxTime + 1).total_cost = get_total_spend.total_cost
    <3> DEFINE costs == [i \in CallRows |-> llm_calls[i].cost]
               A == {i \in CallRows : llm_calls[i].at >= 0 /\ llm_calls[i].at < t}
               B == {i \in CallRows : llm_calls[i].at >= t /\ llm_calls[i].at < MaxTime + 1}
    <3>1. \A i \in CallRows : llm_calls[i] \in LlmRow
      BY <1>1, ElementOfSeq DEF LlmInv, LlmTypes, CallRows
    <3>2. \A i \in CallRows : llm_calls[i].cost \in Nat /\ llm_calls[i].at \in 0 .. MaxTime
      BY <3>1 DEF LlmRow
    <3>3. costs \in Seq(Nat) /\ Len(costs) = Len(llm_calls)
      BY <1>1, <3>2 DEF LlmInv, LlmTypes, CallRows
    <3>4. \A i \in CallRows : (i \in A \/ i \in B) /\ ~(i \in A /\ i \in B)
      BY <3>2, LlmCallsAssumption
    <3>5. \A i \in 1 .. Len(costs) :
             (i \in CallRows <=> i \in A \/ i \in B) /\ ~(i \in A /\ i \in B)
      BY <3>3, <3>4 DEF CallRows
    <3>6. /\ get_costs_by_period(0, t).total_cost = Total(costs, A)
          /\ get_costs_by_period(t, MaxTime + 1).total_cost = Total(costs, B)
          /\ get_total_spend.total_cost = Total(costs, CallRows)
      BY DEF get_costs_by_period, get_total_spend, Summary
    <3> HIDE DEF costs, A, B
    <3>7. Total(costs, CallRows) = Total(costs, A) + Total(costs, B)
      BY <3>3, <3>5, TotalSplits
    <3> QED BY <3>6, <3>7
  <2> QED BY <2>1, <2>2 DEF SpendIsComplete
<1>2. LlmInv => SpendIsAccountedFor
  BY <1>1 DEF LlmInv, SpendIsAccountedFor
<1> QED BY <1>2, LlmInvariant, PTL

-----------------------------------------------------------------------------
(* Jobs.                                                                   *)

\* Client k, or FullJob f, is between the two halves of creating job j; client k is
\* between the two halves of removing it.
ClientCreates(k, j) == client[k] = [pc |-> "create", job |-> j]
FullJobCreates(f, j) == fj[f].pc = "memory" /\ fj[f].job = j
Removing(j) == \E k \in Clients : client[k] = [pc |-> "remove", job |-> j]

\* A handler between two halves has a job in its hands.
HandsHoldJobs ==
    /\ \A k \in Clients : client[k].pc # "idle" => client[k].job \in JobIds
    /\ \A f \in FullJobs : fj[f].pc \in {"memory", "schedule"} => fj[f].job \in JobIds

\* Only ids that were created have a context or a memory.
OnlyUsedIds ==
    \A j \in JobIds : contexts[j] # None \/ memories[j] # None => j \in used

\* A job whose memory is still to be inserted has a used id and no memory, and if
\* its context is gone already, its removal is under way or is known to have come
\* too early.
Unfinished(j) ==
    /\ j \in used /\ memories[j] = None
    /\ contexts[j] = None => j \in hasty \/ Removing(j)

CreatorsHold ==
    \A j \in JobIds :
        /\ \A k \in Clients : ClientCreates(k, j) => Unfinished(j)
        /\ \A f \in FullJobs : FullJobCreates(f, j) => Unfinished(j)

\* A job has one creator.
OneCreator ==
    \A j \in JobIds :
        /\ \A k, l \in Clients : ClientCreates(k, j) /\ ClientCreates(l, j) => k = l
        /\ \A f, g \in FullJobs : FullJobCreates(f, j) /\ FullJobCreates(g, j) => f = g
        /\ \A k \in Clients, f \in FullJobs : ~(ClientCreates(k, j) /\ FullJobCreates(f, j))

JobsInv ==
    /\ TypeOK /\ ActiveBounded /\ OrphanMemoryHasACause
    /\ HandsHoldJobs /\ OnlyUsedIds /\ CreatorsHold /\ OneCreator
-----------------------------------------------------------------------------
(* The proof. *)

\* Jobs that take no place any more never take one again: the moves of the state
\* machine lead from active states only, or to a terminal one.
LEMMA NoneRevives ==
  ASSUME TypeOK, NEW j \in JobIds, NEW new \in JobState, transition_to(j, new)
  PROVE  /\ contexts' \in [JobIds -> JobState \cup {None}]
         /\ \A i \in JobIds : contexts'[i] = None <=> contexts[i] = None
         /\ active_jobs' \subseteq active_jobs
<1>1. CASE can_transition_to(contexts[j], new)
  <2>1. contexts' = [contexts EXCEPT ![j] = new] /\ contexts[j] \in JobState
    BY <1>1 DEF transition_to, can_transition_to, JobState
  <2>2. is_active(new) => is_active(contexts[j])
    BY <1>1, <2>1 DEF can_transition_to, is_active, is_terminal, JobState
  <2> QED
    BY <2>1, <2>2, NoneAssumption DEF TypeOK, active_jobs
<1>2. CASE ~can_transition_to(contexts[j], new)
  BY <1>2 DEF transition_to, TypeOK, active_jobs
<1> QED BY <1>1, <1>2

\* One more job: there was room for it.
LEMMA InsertContext ==
  ASSUME TypeOK, NEW j \in JobIds, insert_context(j)
  PROVE  /\ contexts' \in [JobIds -> JobState \cup {None}]
         /\ contexts'[j] # None /\ j \notin used /\ used' = used \cup {j}
         /\ \A i \in JobIds \ {j} : contexts'[i] = contexts[i]
         /\ Cardinality(active_jobs') <= MaxJobs
<1>1. contexts' = [contexts EXCEPT ![j] = "Pending"] /\ j \notin used /\ used' = used \cup {j}
  BY DEF insert_context, with_user
<1>2. active_jobs' \subseteq active_jobs \cup {j}
  BY <1>1 DEF TypeOK, active_jobs
<1>3. IsFiniteSet(active_jobs) /\ active_jobs \subseteq JobIds
  BY JobIdsAssumption, FS_Subset DEF active_jobs
<1>4. Cardinality(active_jobs) \in Nat /\ Cardinality(active_jobs) < MaxJobs
  BY <1>3, FS_CardinalityType DEF insert_context
<1>5. IsFiniteSet(active_jobs \cup {j})
      /\ Cardinality(active_jobs \cup {j}) <= Cardinality(active_jobs) + 1
  BY <1>3, <1>4, FS_AddElement
<1>6. /\ Cardinality(active_jobs') <= Cardinality(active_jobs \cup {j})
      /\ Cardinality(active_jobs') \in Nat /\ Cardinality(active_jobs \cup {j}) \in Nat
  BY <1>2, <1>5, FS_Subset, FS_CardinalityType
<1>7. Cardinality(active_jobs') <= MaxJobs
  BY <1>4, <1>5, <1>6, MaxJobsAssumption
<1>8. "Pending" \in JobState /\ "Pending" # None
  BY NoneAssumption DEF JobState
<1> QED
  BY <1>1, <1>7, <1>8 DEF TypeOK

\* Fewer active jobs are within the bound.
LEMMA FewerActive ==
  ASSUME ActiveBounded, active_jobs' \subseteq active_jobs
  PROVE  ActiveBounded'
<1>1. IsFiniteSet(active_jobs)
  BY JobIdsAssumption, FS_Subset DEF active_jobs
<1>2. /\ Cardinality(active_jobs') <= Cardinality(active_jobs)
      /\ Cardinality(active_jobs') \in Nat /\ Cardinality(active_jobs) \in Nat
  BY <1>1, FS_Subset, FS_CardinalityType
<1> QED
  BY <1>2, MaxJobsAssumption DEF ActiveBounded

\* The FullJobs' records.
FullJobTypes == [pc : {"todo", "status", "create", "memory", "schedule", "done"},
                 todo : {"None", "Created", "AgentWorking"}, job : JobIds \cup {None}]

\* A FullJob moves on, or takes up a job.
LEMMA FullJobMoves ==
  ASSUME TypeOK, NEW f \in FullJobs, NEW j \in JobIds \cup {None},
         NEW p \in {"todo", "status", "create", "memory", "schedule", "done"}
  PROVE  /\ [fj EXCEPT ![f] = [fj[f] EXCEPT !.pc = p]] \in [FullJobs -> FullJobTypes]
         /\ [fj EXCEPT ![f] = [fj[f] EXCEPT !.pc = p, !.job = j]] \in [FullJobs -> FullJobTypes]
         /\ [fj EXCEPT ![f].pc = p] \in [FullJobs -> FullJobTypes]
<1>1. fj[f] \in FullJobTypes /\ fj \in [FullJobs -> FullJobTypes]
  BY DEF TypeOK, FullJobTypes
<1>2. [fj[f] EXCEPT !.pc = p] \in FullJobTypes
  BY <1>1 DEF FullJobTypes
<1>3. [fj[f] EXCEPT !.pc = p, !.job = j] \in FullJobTypes
  BY <1>1 DEF FullJobTypes
<1> QED BY <1>1, <1>2, <1>3

\* Initially there is no job.
LEMMA JobsInit == Init => JobsInv
<1> SUFFICES ASSUME Init PROVE JobsInv
  OBVIOUS
<1>1. TypeOK
  BY BoundsAssumption DEF Init, TypeOK, Idle
<1>2. active_jobs = {}
  BY NoneAssumption DEF Init, active_jobs, is_active
<1>3. ActiveBounded
  BY <1>2, FS_EmptySet, MaxJobsAssumption DEF ActiveBounded
<1> QED
  BY <1>1, <1>3 DEF Init, Idle, JobsInv, OrphanMemoryHasACause, HandsHoldJobs, OnlyUsedIds,
     CreatorsHold, OneCreator, ClientCreates, FullJobCreates

\* A step that leaves the jobs and those who create and remove them alone keeps all
\* but the types of the other variables.
LEMMA JobsAside ==
  ASSUME JobsInv, UNCHANGED <<contexts, memories, used, client, fj, hasty>>, TypeOK'
  PROVE  JobsInv'
<1>1. active_jobs' = active_jobs
  BY DEF active_jobs
<1>2. ActiveBounded' /\ OrphanMemoryHasACause' /\ HandsHoldJobs' /\ OnlyUsedIds'
  BY <1>1 DEF JobsInv, ActiveBounded, OrphanMemoryHasACause, HandsHoldJobs, OnlyUsedIds
<1>3. CreatorsHold'
  BY DEF JobsInv, CreatorsHold, Unfinished, Removing, ClientCreates, FullJobCreates
<1>4. OneCreator'
  BY DEF JobsInv, OneCreator, ClientCreates, FullJobCreates
<1> QED
  BY <1>2, <1>3, <1>4 DEF JobsInv

\* Every step keeps the invariant.
LEMMA JobsStep == JobsInv /\ [Next]_vars => JobsInv'
<1> SUFFICES ASSUME JobsInv, [Next]_vars PROVE JobsInv'
  OBVIOUS
<1>a. /\ TypeOK /\ ActiveBounded /\ OrphanMemoryHasACause
      /\ HandsHoldJobs /\ OnlyUsedIds /\ CreatorsHold /\ OneCreator
  BY DEF JobsInv
<1>b. /\ OrphanMemoryHasACause <=>
           \A i \in JobIds : memories[i] # None /\ contexts[i] = None =>
               i \in hasty \/ Removing(i)
      /\ OrphanMemoryHasACause' <=>
           \A i \in JobIds : memories'[i] # None /\ contexts'[i] = None
                              => i \in hasty' \/ Removing(i)'
  BY DEF OrphanMemoryHasACause, Removing
<1>1. ASSUME NEW k \in Clients, NEW j \in JobIds, CreateJob(k, j) PROVE JobsInv'
  <2>0. /\ contexts' \in [JobIds -> JobState \cup {None}]
        /\ contexts'[j] # None /\ j \notin used /\ used' = used \cup {j}
        /\ \A i \in JobIds \ {j} : contexts'[i] = contexts[i]
        /\ Cardinality(active_jobs') <= MaxJobs
    BY <1>1, <1>a, InsertContext DEF CreateJob
  <2>1. TypeOK'
    BY <1>1, <1>a, <2>0 DEF TypeOK, JobState, Idle, CreateJob
  <2>2. ActiveBounded'
    BY <2>0 DEF ActiveBounded
  <2>3. \A i \in JobIds : Removing(i)' <=> Removing(i)
    BY <1>1, <1>a, <2>0 DEF Removing, TypeOK, Idle, CreateJob
  <2>4. \A l \in Clients, i \in JobIds : ClientCreates(l, i)' <=>
            ClientCreates(l, i) \/ (l = k /\ i = j)
    BY <1>1, <1>a, <2>0 DEF ClientCreates, TypeOK, Idle, CreateJob
  <2>5. \A g \in FullJobs, i \in JobIds : FullJobCreates(g, i)' <=> FullJobCreates(g, i)
    BY <1>1, <1>a, <2>0 DEF FullJobCreates, TypeOK, CreateJob
  <2>6. HandsHoldJobs'
    BY <1>1, <1>a, <2>0 DEF HandsHoldJobs, TypeOK, Idle, CreateJob
  <2>7. OnlyUsedIds'
    BY <1>1, <1>a, <2>0, NoneAssumption DEF OnlyUsedIds, CreatorsHold, Unfinished,
       ClientCreates, FullJobCreates, TypeOK, CreateJob
  <2>8. OrphanMemoryHasACause'
    BY <1>1, <1>a, <2>0, <1>b, <2>3, NoneAssumption DEF CreatorsHold, Unfinished, TypeOK,
       ClientCreates, FullJobCreates, CreateJob
  <2>9. CreatorsHold'
    BY <1>1, <1>a, <2>0, <2>3, <2>4, <2>5, NoneAssumption DEF CreatorsHold, Unfinished,
       OneCreator, OnlyUsedIds, TypeOK, CreateJob
  <2>10. OneCreator'
    BY <1>1, <1>a, <2>0, <2>4, <2>5 DEF OneCreator, CreatorsHold, Unfinished
  <2> QED BY <2>1, <2>2, <2>6, <2>7, <2>8, <2>9, <2>10 DEF JobsInv
<1>2. ASSUME NEW k \in Clients, CreateMemory(k) PROVE JobsInv'
  <2>0. client[k].job \in JobIds
    BY <1>2, <1>a DEF CreateMemory, HandsHoldJobs
  <2>1. TypeOK'
    BY <1>2, <1>a, <2>0, BoundsAssumption DEF TypeOK, JobState, Idle, CreateMemory,
       insert_memory
  <2>2. ActiveBounded'
    BY <1>2, <1>a, FewerActive DEF active_jobs, CreateMemory, insert_memory
  <2>3. \A i \in JobIds : Removing(i)' <=> Removing(i)
    BY <1>2, <1>a, <2>0, BoundsAssumption DEF Removing, TypeOK, Idle, CreateMemory,
       insert_memory
  <2>4. ClientCreates(k, client[k].job) /\ \A l \in Clients, i \in JobIds :
            ClientCreates(l, i)' <=> ClientCreates(l, i) /\ l # k
    BY <1>2, <1>a, <2>0, BoundsAssumption DEF ClientCreates, TypeOK, Idle, CreateMemory,
       insert_memory
  <2>5. \A g \in FullJobs, i \in JobIds : FullJobCreates(g, i)' <=> FullJobCreates(g, i)
    BY <1>2, <1>a, <2>0, BoundsAssumption DEF FullJobCreates, TypeOK, CreateMemory,
       insert_memory
  <2>6. HandsHoldJobs'
    BY <1>2, <1>a, <2>0, BoundsAssumption DEF HandsHoldJobs, TypeOK, Idle, CreateMemory,
       insert_memory
  <2>7. OnlyUsedIds'
    BY <1>2, <1>a, <2>0, BoundsAssumption, NoneAssumption DEF OnlyUsedIds, CreatorsHold,
       Unfinished, ClientCreates, FullJobCreates, TypeOK, CreateMemory, insert_memory
  <2>8. OrphanMemoryHasACause'
    BY <1>2, <1>a, <2>0, BoundsAssumption, <1>b, <2>3, NoneAssumption DEF CreatorsHold,
       Unfinished, TypeOK, ClientCreates, FullJobCreates, CreateMemory, insert_memory
  <2>9. CreatorsHold'
    BY <1>2, <1>a, <2>0, BoundsAssumption, <2>3, <2>4, <2>5, NoneAssumption
       DEF CreatorsHold, Unfinished, OneCreator, OnlyUsedIds, TypeOK, CreateMemory,
       insert_memory
  <2>10. OneCreator'
    BY <1>2, <1>a, <2>0, BoundsAssumption, <2>4, <2>5 DEF OneCreator, CreatorsHold, Unfinished
  <2> QED BY <2>1, <2>2, <2>6, <2>7, <2>8, <2>9, <2>10 DEF JobsInv
<1>3. ASSUME NEW j \in JobIds, NEW new \in JobState, UpdateContext(j, new) PROVE JobsInv'
  <2>0. /\ contexts' \in [JobIds -> JobState \cup {None}]
        /\ \A i \in JobIds : contexts'[i] = None <=> contexts[i] = None
        /\ active_jobs' \subseteq active_jobs
    BY <1>3, <1>a, NoneRevives DEF UpdateContext
  <2>1. TypeOK'
    BY <1>3, <1>a, <2>0 DEF TypeOK, JobState, Idle, UpdateContext
  <2>2. ActiveBounded'
    BY <1>a, <2>0, FewerActive
  <2>3. \A i \in JobIds : Removing(i)' <=> Removing(i)
    BY <1>3, <1>a, <2>0 DEF Removing, TypeOK, Idle, UpdateContext
  <2>4. \A l \in Clients, i \in JobIds : ClientCreates(l, i)' <=> ClientCreates(l, i)
    BY <1>3, <1>a, <2>0 DEF ClientCreates, TypeOK, Idle, UpdateContext
  <2>5. \A g \in FullJobs, i \in JobIds : FullJobCreates(g, i)' <=> FullJobCreates(g, i)
    BY <1>3, <1>a, <2>0 DEF FullJobCreates, TypeOK, UpdateContext
  <2>6. HandsHoldJobs'
    BY <1>3, <1>a, <2>0 DEF HandsHoldJobs, TypeOK, Idle, UpdateContext
  <2>7. OnlyUsedIds'
    BY <1>3, <1>a, <2>0, NoneAssumption DEF OnlyUsedIds, CreatorsHold, Unfinished,
       ClientCreates, FullJobCreates, TypeOK, UpdateContext
  <2>8. OrphanMemoryHasACause'
    BY <1>3, <1>a, <2>0, <1>b, <2>3, NoneAssumption DEF CreatorsHold, Unfinished, TypeOK,
       ClientCreates, FullJobCreates, UpdateContext
  <2>9. CreatorsHold'
    BY <1>3, <1>a, <2>0, <2>3, <2>4, <2>5, NoneAssumption DEF CreatorsHold, Unfinished,
       OneCreator, OnlyUsedIds, TypeOK, UpdateContext
  <2>10. OneCreator'
    BY <1>3, <1>a, <2>0, <2>4, <2>5 DEF OneCreator, CreatorsHold, Unfinished
  <2> QED BY <2>1, <2>2, <2>6, <2>7, <2>8, <2>9, <2>10 DEF JobsInv
<1>4. ASSUME NEW k \in Clients, NEW j \in JobIds, RemoveContext(k, j) PROVE JobsInv'
  <2>1. TypeOK'
    BY <1>4, <1>a DEF TypeOK, JobState, Idle, RemoveContext
  <2>2. ActiveBounded'
    <3>1. active_jobs' \subseteq active_jobs
      BY <1>4, <1>a, NoneAssumption DEF RemoveContext, TypeOK, active_jobs, is_active
    <3> QED BY <1>a, <3>1, FewerActive
  <2>3. \A i \in JobIds : Removing(i)' <=> Removing(i) \/ i = j
    BY <1>4, <1>a DEF Removing, TypeOK, Idle, RemoveContext
  <2>4. \A l \in Clients, i \in JobIds : ClientCreates(l, i)' <=> ClientCreates(l, i)
    BY <1>4, <1>a DEF ClientCreates, TypeOK, Idle, RemoveContext
  <2>5. \A g \in FullJobs, i \in JobIds : FullJobCreates(g, i)' <=> FullJobCreates(g, i)
    BY <1>4, <1>a DEF FullJobCreates, TypeOK, RemoveContext
  <2>6. HandsHoldJobs'
    BY <1>4, <1>a DEF HandsHoldJobs, TypeOK, Idle, RemoveContext
  <2>7. OnlyUsedIds'
    BY <1>4, <1>a, NoneAssumption DEF OnlyUsedIds, CreatorsHold, Unfinished, ClientCreates,
       FullJobCreates, TypeOK, RemoveContext
  <2>8. OrphanMemoryHasACause'
    BY <1>4, <1>a, <1>b, <2>3, NoneAssumption DEF CreatorsHold, Unfinished, TypeOK,
       ClientCreates, FullJobCreates, RemoveContext
  <2>9. CreatorsHold'
    BY <1>4, <1>a, <2>3, <2>4, <2>5, NoneAssumption DEF CreatorsHold, Unfinished,
       OneCreator, OnlyUsedIds, TypeOK, RemoveContext
  <2>10. OneCreator'
    BY <1>4, <1>a, <2>4, <2>5 DEF OneCreator, CreatorsHold, Unfinished
  <2> QED BY <2>1, <2>2, <2>6, <2>7, <2>8, <2>9, <2>10 DEF JobsInv
<1>5. ASSUME NEW k \in Clients, RemoveMemory(k) PROVE JobsInv'
  <2>0. client[k].job \in JobIds
    BY <1>5, <1>a DEF RemoveMemory, HandsHoldJobs
  <2>1. TypeOK'
    BY <1>5, <1>a, <2>0 DEF TypeOK, JobState, Idle, RemoveMemory
  <2>2. ActiveBounded'
    BY <1>5, <1>a, FewerActive DEF active_jobs, RemoveMemory
  <2>3. \A i \in JobIds : /\ Removing(i)' => Removing(i)
                          /\ Removing(i) => Removing(i)' \/ i = client[k].job
    BY <1>5, <1>a, <2>0 DEF Removing, TypeOK, Idle, RemoveMemory
  <2>4. \A l \in Clients, i \in JobIds : ClientCreates(l, i)' <=> ClientCreates(l, i)
    BY <1>5, <1>a, <2>0 DEF ClientCreates, TypeOK, Idle, RemoveMemory
  <2>5. \A g \in FullJobs, i \in JobIds : FullJobCreates(g, i)' <=> FullJobCreates(g, i)
    BY <1>5, <1>a, <2>0 DEF FullJobCreates, TypeOK, RemoveMemory
  <2>6. HandsHoldJobs'
    BY <1>5, <1>a, <2>0 DEF HandsHoldJobs, TypeOK, Idle, RemoveMemory
  <2>7. OnlyUsedIds'
    BY <1>5, <1>a, <2>0, NoneAssumption DEF OnlyUsedIds, CreatorsHold, Unfinished,
       ClientCreates, FullJobCreates, TypeOK, RemoveMemory
  <2>8. OrphanMemoryHasACause'
    BY <1>5, <1>a, <2>0, <1>b, <2>3, NoneAssumption DEF CreatorsHold, Unfinished, TypeOK,
       ClientCreates, FullJobCreates, RemoveMemory
  <2>9. CreatorsHold'
    BY <1>5, <1>a, <2>0, <2>3, <2>4, <2>5, NoneAssumption DEF CreatorsHold, Unfinished,
       OneCreator, OnlyUsedIds, TypeOK, RemoveMemory
  <2>10. OneCreator'
    BY <1>5, <1>a, <2>0, <2>4, <2>5 DEF OneCreator, CreatorsHold, Unfinished
  <2> QED BY <2>1, <2>2, <2>6, <2>7, <2>8, <2>9, <2>10 DEF JobsInv
<1>6. ASSUME NEW c \in Calls, ToolRecord(c) PROVE JobsInv'
  <2>1. TypeOK'
    BY <1>6, <1>a, BoundsAssumption DEF TypeOK, JobState, Idle, ToolRecord, update_memory,
       create_action
  <2>2. ActiveBounded'
    BY <1>6, <1>a, FewerActive DEF active_jobs, ToolRecord, update_memory, create_action
  <2>3. \A i \in JobIds : Removing(i)' <=> Removing(i)
    BY <1>6, <1>a, BoundsAssumption DEF Removing, TypeOK, Idle, ToolRecord, update_memory,
       create_action
  <2>4. \A l \in Clients, i \in JobIds : ClientCreates(l, i)' <=> ClientCreates(l, i)
    BY <1>6, <1>a, BoundsAssumption DEF ClientCreates, TypeOK, Idle, ToolRecord,
       update_memory, create_action
  <2>5. \A g \in FullJobs, i \in JobIds : FullJobCreates(g, i)' <=> FullJobCreates(g, i)
    BY <1>6, <1>a, BoundsAssumption DEF FullJobCreates, TypeOK, ToolRecord, update_memory,
       create_action
  <2>6. HandsHoldJobs'
    BY <1>6, <1>a, BoundsAssumption DEF HandsHoldJobs, TypeOK, Idle, ToolRecord,
       update_memory, create_action
  <2>7. OnlyUsedIds'
    BY <1>6, <1>a, BoundsAssumption, NoneAssumption DEF OnlyUsedIds, CreatorsHold,
       Unfinished, ClientCreates, FullJobCreates, TypeOK, ToolRecord, update_memory,
       create_action
  <2>8. OrphanMemoryHasACause'
    BY <1>6, <1>a, BoundsAssumption, <1>b, <2>3, NoneAssumption DEF CreatorsHold,
       Unfinished, TypeOK, ClientCreates, FullJobCreates, ToolRecord, update_memory,
       create_action
  <2>9. CreatorsHold'
    BY <1>6, <1>a, BoundsAssumption, <2>3, <2>4, <2>5, NoneAssumption DEF CreatorsHold,
       Unfinished, OneCreator, OnlyUsedIds, TypeOK, ToolRecord, update_memory, create_action
  <2>10. OneCreator'
    BY <1>6, <1>a, BoundsAssumption, <2>4, <2>5 DEF OneCreator, CreatorsHold, Unfinished
  <2> QED BY <2>1, <2>2, <2>6, <2>7, <2>8, <2>9, <2>10 DEF JobsInv
<1>7. ASSUME NEW f \in FullJobs, NEW j \in JobIds, FjCreate(f), insert_context(j),
             fj' = [fj EXCEPT ![f] = [fj[f] EXCEPT !.pc = "memory", !.job = j]],
             fj[f].pc = "create" PROVE JobsInv'
  <2>0. /\ contexts' \in [JobIds -> JobState \cup {None}]
        /\ contexts'[j] # None /\ j \notin used /\ used' = used \cup {j}
        /\ \A i \in JobIds \ {j} : contexts'[i] = contexts[i]
        /\ Cardinality(active_jobs') <= MaxJobs
    BY <1>7, <1>a, InsertContext DEF FjCreate
  <2>a. /\ UNCHANGED <<memories, client, call, sub, listed, faults, hasty>>
        /\ \A g \in FullJobs \ {f} : fj'[g] = fj[g]
        /\ fj'[f].pc = "memory" /\ fj'[f].job = j
    <3>1. UNCHANGED <<memories, client, call, sub, listed, faults, hasty>>
      BY <1>7 DEF FjCreate
    <3>2. fj \in [FullJobs -> FullJobTypes]
      BY <1>a DEF TypeOK, FullJobTypes
    <3> QED BY <1>7, <3>1, <3>2 DEF FullJobTypes
  <2>1. TypeOK'
    <3>1. fj' \in [FullJobs -> FullJobTypes]
      BY <1>7, <1>a, <2>0, FullJobMoves DEF FjCreate, FjStep
    <3> QED BY <1>7, <1>a, <3>1, <2>0 DEF TypeOK, FullJobTypes, JobState, FjCreate, FjStep
  <2>2. ActiveBounded'
    BY <2>0 DEF ActiveBounded
  <2>3. \A i \in JobIds : Removing(i)' <=> Removing(i)
    BY <1>7, <1>a, <2>0 DEF Removing, TypeOK, Idle, FjCreate, FjStep
  <2>4. \A l \in Clients, i \in JobIds : ClientCreates(l, i)' <=> ClientCreates(l, i)
    BY <1>7, <1>a, <2>0 DEF ClientCreates, TypeOK, Idle, FjCreate, FjStep
  <2>5. \A g \in FullJobs, i \in JobIds : FullJobCreates(g, i)' <=>
            FullJobCreates(g, i) \/ (g = f /\ i = j)
    BY <1>7, <2>a DEF FullJobCreates
  <2>6. HandsHoldJobs'
    BY <1>a, <2>a DEF HandsHoldJobs
  <2>7. OnlyUsedIds'
    BY <1>7, <1>a, <2>0, NoneAssumption DEF OnlyUsedIds, CreatorsHold, Unfinished,
       ClientCreates, FullJobCreates, TypeOK, FjCreate, FjStep
  <2>8. OrphanMemoryHasACause'
    BY <1>7, <1>a, <2>0, <1>b, <2>3, NoneAssumption DEF CreatorsHold, Unfinished, TypeOK,
       ClientCreates, FullJobCreates, FjCreate, FjStep
  <2>9. CreatorsHold'
    BY <1>7, <1>a, <2>0, <2>3, <2>4, <2>5, NoneAssumption DEF CreatorsHold, Unfinished,
       OneCreator, OnlyUsedIds, TypeOK, FjCreate, FjStep
  <2>10. OneCreator'
    BY <1>7, <1>a, <2>0, <2>4, <2>5 DEF OneCreator, CreatorsHold, Unfinished
  <2> QED BY <2>1, <2>2, <2>6, <2>7, <2>8, <2>9, <2>10 DEF JobsInv
<1>8. ASSUME NEW f \in FullJobs, FjMemory(f) PROVE JobsInv'
  <2>0. fj[f].job \in JobIds
    BY <1>8, <1>a DEF FjMemory, FjStep, HandsHoldJobs
  <2>1. TypeOK'
    <3>1. fj' \in [FullJobs -> FullJobTypes]
      BY <1>8, <1>a, FullJobMoves DEF FjMemory, FjStep
    <3>2. memories' \in [JobIds -> (0 .. MaxActions) \cup {None}]
      BY <1>8, <1>a, <2>0, BoundsAssumption DEF TypeOK, FjMemory, insert_memory
    <3> QED BY <1>8, <1>a, <3>1, <3>2 DEF TypeOK, FullJobTypes, FjMemory
  <2>2. ActiveBounded'
    BY <1>8, <1>a, FewerActive DEF active_jobs, FjMemory, FjStep, insert_memory
  <2>3. \A i \in JobIds : Removing(i)' <=> Removing(i)
    BY <1>8, <1>a, <2>0, BoundsAssumption DEF Removing, TypeOK, Idle, FjMemory, FjStep,
       insert_memory
  <2>4. \A l \in Clients, i \in JobIds : ClientCreates(l, i)' <=> ClientCreates(l, i)
    BY <1>8, <1>a, <2>0, BoundsAssumption DEF ClientCreates, TypeOK, Idle, FjMemory,
       FjStep, insert_memory
  <2>5. FullJobCreates(f, fj[f].job) /\ \A g \in FullJobs, i \in JobIds :
            FullJobCreates(g, i)' <=> FullJobCreates(g, i) /\ g # f
    BY <1>8, <1>a, <2>0, BoundsAssumption DEF FullJobCreates, TypeOK, FjMemory, FjStep,
       insert_memory
  <2>6. HandsHoldJobs'
    BY <1>8, <1>a, <2>0, BoundsAssumption DEF HandsHoldJobs, TypeOK, Idle, FjMemory,
       FjStep, insert_memory
  <2>7. OnlyUsedIds'
    BY <1>8, <1>a, <2>0, BoundsAssumption, NoneAssumption DEF OnlyUsedIds, CreatorsHold,
       Unfinished, ClientCreates, FullJobCreates, TypeOK, FjMemory, FjStep, insert_memory
  <2>8. OrphanMemoryHasACause'
    BY <1>8, <1>a, <2>0, BoundsAssumption, <1>b, <2>3, NoneAssumption DEF CreatorsHold,
       Unfinished, TypeOK, ClientCreates, FullJobCreates, FjMemory, FjStep, insert_memory
  <2>9. CreatorsHold'
    BY <1>8, <1>a, <2>0, BoundsAssumption, <2>3, <2>4, <2>5, NoneAssumption
       DEF CreatorsHold, Unfinished, OneCreator, OnlyUsedIds, TypeOK, FjMemory, FjStep,
       insert_memory
  <2>10. OneCreator'
    BY <1>8, <1>a, <2>0, BoundsAssumption, <2>4, <2>5 DEF OneCreator, CreatorsHold, Unfinished
  <2> QED BY <2>1, <2>2, <2>6, <2>7, <2>8, <2>9, <2>10 DEF JobsInv
<1>9. ASSUME NEW f \in FullJobs, schedule(f) PROVE JobsInv'
  <2>0. fj[f].job \in JobIds
    BY <1>9, <1>a DEF schedule, FjStep, HandsHoldJobs
  <2>t. /\ contexts' \in [JobIds -> JobState \cup {None}]
        /\ \A i \in JobIds : contexts'[i] = None <=> contexts[i] = None
        /\ active_jobs' \subseteq active_jobs
    BY <1>9, <1>a, <2>0, NoneRevives DEF schedule, JobState
  <2>1. TypeOK'
    <3>1. fj' \in [FullJobs -> FullJobTypes]
      BY <1>9, <1>a, <2>t, FullJobMoves DEF schedule, FjStep
    <3> QED BY <1>9, <1>a, <3>1, <2>t DEF TypeOK, FullJobTypes, JobState, schedule, FjStep
  <2>2. ActiveBounded'
    BY <1>a, <2>t, FewerActive
  <2>3. \A i \in JobIds : Removing(i)' <=> Removing(i)
    BY <1>9, <1>a, <2>0, <2>t DEF Removing, TypeOK, Idle, schedule, FjStep
  <2>4. \A l \in Clients, i \in JobIds : ClientCreates(l, i)' <=> ClientCreates(l, i)
    BY <1>9, <1>a, <2>0, <2>t DEF ClientCreates, TypeOK, Idle, schedule, FjStep
  <2>5. \A g \in FullJobs, i \in JobIds : FullJobCreates(g, i)' <=> FullJobCreates(g, i)
    BY <1>9, <1>a, <2>0, <2>t DEF FullJobCreates, TypeOK, schedule, FjStep
  <2>6. HandsHoldJobs'
    BY <1>9, <1>a, <2>0, <2>t DEF HandsHoldJobs, TypeOK, Idle, schedule, FjStep
  <2>7. OnlyUsedIds'
    BY <1>9, <1>a, <2>0, <2>t, NoneAssumption DEF OnlyUsedIds, CreatorsHold, Unfinished,
       ClientCreates, FullJobCreates, TypeOK, schedule, FjStep
  <2>8. OrphanMemoryHasACause'
    BY <1>9, <1>a, <2>0, <2>t, <1>b, <2>3, NoneAssumption DEF CreatorsHold, Unfinished,
       TypeOK, ClientCreates, FullJobCreates, schedule, FjStep
  <2>9. CreatorsHold'
    BY <1>9, <1>a, <2>0, <2>t, <2>3, <2>4, <2>5, NoneAssumption DEF CreatorsHold,
       Unfinished, OneCreator, OnlyUsedIds, TypeOK, schedule, FjStep
  <2>10. OneCreator'
    BY <1>9, <1>a, <2>0, <2>t, <2>4, <2>5 DEF OneCreator, CreatorsHold, Unfinished
  <2> QED BY <2>1, <2>2, <2>6, <2>7, <2>8, <2>9, <2>10 DEF JobsInv
<1>10. ASSUME NEW f \in FullJobs, FjFail(f) \/ FjTodo(f) \/ FjWorking(f) PROVE JobsInv'
  <2>1. TypeOK'
    <3>1. fj' \in [FullJobs -> FullJobTypes]
      <4>1. CASE FjFail(f)
        BY <1>a, <4>1, FullJobMoves DEF FjFail
      <4>2. CASE FjTodo(f) \/ FjWorking(f)
        BY <1>a, <4>2 DEF FjTodo, FjWorking, FjStep, TypeOK, FullJobTypes
      <4> QED BY <1>10, <4>1, <4>2
    <3>2. faults' \in 0 .. MaxFaults
      BY <1>10, <1>a, BoundsAssumption DEF FjFail, FjTodo, FjWorking, TypeOK
    <3> QED BY <1>10, <1>a, <3>1, <3>2 DEF TypeOK, FullJobTypes, FjFail, FjTodo, FjWorking,
       FjStep
  <2>2. ActiveBounded'
    BY <1>10, <1>a, FewerActive DEF active_jobs, FjFail, FjTodo, FjWorking, FjStep
  <2>3. \A i \in JobIds : Removing(i)' <=> Removing(i)
    BY <1>10, <1>a, BoundsAssumption DEF Removing, TypeOK, Idle, FjFail, FjTodo, FjWorking,
       FjStep
  <2>4. \A l \in Clients, i \in JobIds : ClientCreates(l, i)' <=> ClientCreates(l, i)
    BY <1>10, <1>a, BoundsAssumption DEF ClientCreates, TypeOK, Idle, FjFail, FjTodo,
       FjWorking, FjStep
  <2>5. \A g \in FullJobs, i \in JobIds : FullJobCreates(g, i)' <=> FullJobCreates(g, i)
    BY <1>10, <1>a, BoundsAssumption DEF FullJobCreates, TypeOK, FjFail, FjTodo, FjWorking,
       FjStep
  <2>6. HandsHoldJobs'
    BY <1>10, <1>a, BoundsAssumption DEF HandsHoldJobs, TypeOK, Idle, FjFail, FjTodo,
       FjWorking, FjStep
  <2>7. OnlyUsedIds'
    BY <1>10, <1>a, BoundsAssumption, NoneAssumption DEF OnlyUsedIds, CreatorsHold,
       Unfinished, ClientCreates, FullJobCreates, TypeOK, FjFail, FjTodo, FjWorking, FjStep
  <2>8. OrphanMemoryHasACause'
    BY <1>10, <1>a, BoundsAssumption, <1>b, <2>3, NoneAssumption DEF CreatorsHold,
       Unfinished, TypeOK, ClientCreates, FullJobCreates, FjFail, FjTodo, FjWorking, FjStep
  <2>9. CreatorsHold'
    BY <1>10, <1>a, BoundsAssumption, <2>3, <2>4, <2>5, NoneAssumption DEF CreatorsHold,
       Unfinished, OneCreator, OnlyUsedIds, TypeOK, FjFail, FjTodo, FjWorking, FjStep
  <2>10. OneCreator'
    BY <1>10, <1>a, BoundsAssumption, <2>4, <2>5 DEF OneCreator, CreatorsHold, Unfinished
  <2> QED BY <2>1, <2>2, <2>6, <2>7, <2>8, <2>9, <2>10 DEF JobsInv
<1>11. ASSUME NEW f \in FullJobs, FjStep(f, "create", [fj[f] EXCEPT !.pc = "done"]),
             UNCHANGED <<contexts, used, memories, client, call, sub, listed, faults, hasty>>
      PROVE  JobsInv'
  <2>1. TypeOK'
    <3> DEFINE new == [fj[f] EXCEPT !.pc = "done"]
               S == [pc : {"todo", "status", "create", "memory", "schedule", "done"},
                     todo : {"None", "Created", "AgentWorking"}, job : JobIds \cup {None}]
    <3>1. new \in S /\ fj \in [FullJobs -> S]
      BY <1>a DEF TypeOK
    <3>2. fj' = [fj EXCEPT ![f] = new]
      BY <1>11 DEF FjStep
    <3> HIDE DEF new, S
    <3>3. fj' \in [FullJobs -> S]
      BY <3>1, <3>2
    <3> QED BY <1>11, <1>a, <3>3 DEF TypeOK, S
  <2>2. ActiveBounded'
    BY <1>11, <1>a, FewerActive DEF active_jobs, FjStep
  <2>3. \A i \in JobIds : Removing(i)' <=> Removing(i)
    BY <1>11, <1>a DEF Removing, TypeOK, Idle, FjStep
  <2>4. \A l \in Clients, i \in JobIds : ClientCreates(l, i)' <=> ClientCreates(l, i)
    BY <1>11, <1>a DEF ClientCreates, TypeOK, Idle, FjStep
  <2>5. \A g \in FullJobs, i \in JobIds : FullJobCreates(g, i)' <=> FullJobCreates(g, i)
    BY <1>11, <1>a DEF FullJobCreates, TypeOK, FjStep
  <2>6. HandsHoldJobs'
    BY <1>11, <1>a DEF HandsHoldJobs, TypeOK, Idle, FjStep
  <2>7. OnlyUsedIds'
    BY <1>11, <1>a, NoneAssumption DEF OnlyUsedIds, CreatorsHold, Unfinished,
       ClientCreates, FullJobCreates, TypeOK, FjStep
  <2>8. OrphanMemoryHasACause'
    BY <1>11, <1>a, <1>b, <2>3, NoneAssumption DEF CreatorsHold, Unfinished, TypeOK,
       ClientCreates, FullJobCreates, FjStep
  <2>9. CreatorsHold'
    BY <1>11, <1>a, <2>3, <2>4, <2>5, NoneAssumption DEF CreatorsHold, Unfinished,
       OneCreator, OnlyUsedIds, TypeOK, FjStep
  <2>10. OneCreator'
    BY <1>11, <1>a, <2>4, <2>5 DEF OneCreator, CreatorsHold, Unfinished
  <2> QED BY <2>1, <2>2, <2>6, <2>7, <2>8, <2>9, <2>10 DEF JobsInv
<1>12. ASSUME NEW c \in Calls, NEW j \in JobIds, ToolStart(c, j) PROVE JobsInv'
  <2>1. TypeOK'
    BY <1>12, <1>a DEF ToolStart, TypeOK
  <2> QED BY <1>12, <2>1, JobsAside DEF ToolStart
<1>13. ASSUME NEW s \in Subtasks, SubStep(s) PROVE JobsInv'
  <2>1. TypeOK'
    BY <1>13, <1>a DEF SubStep, SubTool, SubDone, SubList, SubWrapped, SubClean, TypeOK
  <2> QED
    BY <1>13, <2>1, JobsAside DEF SubStep, SubTool, SubDone, SubList, SubWrapped, SubClean
<1>14. ASSUME NEW s \in Subtasks, NEW j \in JobIds \cup {None}, SubSpawn(s, j) PROVE JobsInv'
  <2>1. TypeOK'
    BY <1>14, <1>a DEF SubSpawn, TypeOK
  <2> QED BY <1>14, <2>1, JobsAside DEF SubSpawn
<1>15. ASSUME stop_all PROVE JobsInv'
  <2>1. TypeOK'
    BY <1>15, <1>a DEF stop_all, TypeOK
  <2> QED BY <1>15, <2>1, JobsAside DEF stop_all
<1>16. ASSUME UNCHANGED vars PROVE JobsInv'
  <2>1. TypeOK'
    BY <1>16, <1>a DEF vars, TypeOK
  <2> QED BY <1>16, <2>1, JobsAside DEF vars
<1>17. ASSUME NEW f \in FullJobs, FjCreate(f) PROVE JobsInv'
  BY <1>17, <1>7, <1>11 DEF FjCreate, FjStep
<1> QED
  BY <1>1, <1>2, <1>3, <1>4, <1>5, <1>6, <1>8, <1>9, <1>10, <1>12, <1>13, <1>14, <1>15,
     <1>16, <1>17
  DEF Next

\* Every behaviour keeps the invariant.
THEOREM JobsInvariant == Spec => []JobsInv
  BY JobsInit, JobsStep, PTL DEF Spec

\* However creations, removals, recoveries, tool calls and FullJobs interleave, no
\* more jobs are active than max_jobs, and a memory without a job is being removed
\* or belongs to a job that was removed between the two halves of its creation.
THEOREM JobsAccountedFor == Spec => []JobsAreAccountedFor
<1>1. JobsInv => JobsAreAccountedFor
  BY DEF JobsInv, JobsAreAccountedFor
<1> QED BY <1>1, JobsInvariant, PTL

-----------------------------------------------------------------------------
(* The conversation log (ChatLog).                                         *)

LogTimes == Nat \X Nat
LogRow == [turn : Nat, role : {"user", "assistant"}, at : LogTimes]

\* Of two times at most one is the later, and what is not later is so in turn.
LEMMA TimesAreOrdered ==
  ASSUME NEW t \in LogTimes, NEW u \in LogTimes, NEW v \in LogTimes
  PROVE  /\ ~Later(t, t)
         /\ ~Later(t, u) /\ ~Later(u, v) => ~Later(t, v)
         /\ ~Later(t, u) /\ ~Later(u, t) => t = u
         /\ ~Later(t, u) => t[1] <= u[1]
         /\ t[1] \in Nat
<1>1. /\ t = <<t[1], t[2]>> /\ u = <<u[1], u[2]>>
      /\ t[1] \in Nat /\ t[2] \in Nat /\ u[1] \in Nat /\ u[2] \in Nat
      /\ v[1] \in Nat /\ v[2] \in Nat
  BY DEF LogTimes
<1> QED BY <1>1 DEF Later

\* A row has a time.
LEMMA RowTime ==
  ASSUME convo \in Seq(LogRow), NEW i \in Rows
  PROVE  convo[i].at \in LogTimes
<1>1. convo[i] \in LogRow
  BY ElementOfSeq DEF Rows
<1> QED BY <1>1 DEF LogRow

\* The last n rows of a list, or all of a shorter one.
Shown(q, n) == IF Len(q) < n THEN Len(q) ELSE n
LastOf(q, n) == [k \in 1 .. Shown(q, n) |-> q[Len(q) - Shown(q, n) + k]]

\* The history endpoint gives the tail of what the store lists.
LEMMA HistoryIsTail ==
  ASSUME NEW S, NEW q \in Seq(S)
  PROVE  history_handler(q) =
             [messages |-> LastOf(q, PageLimit), has_more |-> Len(q) > PageLimit]
<1> DEFINE N == Len(q)
           n == PageLimit
           start == IF N > n THEN N - n ELSE 0
           t == SubSeq(q, start + 1, N)
           m == Shown(q, n)
<1>1. N \in Nat /\ n \in Nat /\ \A i \in 1 .. N : q[i] \in S
  BY ChatLogAssumption
<1>2. m \in Nat /\ m = N - start /\ start \in Nat
  <2>1. m = IF N < n THEN N ELSE n
    BY DEF Shown
  <2>2. start = IF N > n THEN N - n ELSE 0
    OBVIOUS
  <2> HIDE DEF m, start, N, n
  <2> QED BY <1>1, <2>1, <2>2
<1> HIDE DEF m, start, N, n
<1>3. \A i \in start + 1 .. N : q[i] \in S
  BY <1>1, <1>2
<1>4. /\ t \in Seq(S) /\ Len(t) = IF start + 1 <= N THEN N - (start + 1) + 1 ELSE 0
      /\ \A i \in 1 .. N - (start + 1) + 1 : t[i] = q[start + 1 + i - 1]
  <2>1. start + 1 \in Int /\ N \in Int
    BY <1>1, <1>2
  <2> QED BY <1>3, <2>1, SubSeqProperties
<1> HIDE DEF t
<1>5. Len(t) = m /\ \A i \in 1 .. m : t[i] = q[N - m + i]
  <2>1. N - (start + 1) + 1 = m /\ \A i \in 1 .. m : start + 1 + i - 1 = N - m + i
    BY <1>1, <1>2
  <2>2. (start + 1 <= N) <=> m > 0
    BY <1>1, <1>2
  <2> QED BY <1>2, <1>4, <2>1, <2>2
<1>6. t = [k \in 1 .. m |-> q[N - m + k]]
  BY <1>2, <1>4, <1>5
<1> QED BY <1>6 DEF history_handler, LastOf, start, m, t, N, n

\* A page is the tail of what an ascending statement could give, though it is read from the
\* other end.
LEMMA PageIsTail ==
  ASSUME NEW S, NEW q \in Seq(S), NEW all, all = First(Reverse(q), PageLimit + 1)
  PROVE  [messages |-> Reverse(First(all, PageLimit)), has_more |-> Len(all) > PageLimit] =
             [messages |-> LastOf(q, PageLimit), has_more |-> Len(q) > PageLimit]
<1> DEFINE N == Len(q)
           n == PageLimit
           r == Reverse(q)
           a == IF N < n + 1 THEN N ELSE n + 1
           m == Shown(q, n)
           t == First(all, n)
<1>1. N \in Nat /\ n \in Nat /\ \A i \in 1 .. N : q[i] \in S
  BY ChatLogAssumption
<1>2. Len(r) = N /\ \A i \in 1 .. N : r[i] = q[N - i + 1]
  BY <1>1 DEF Reverse
<1>3. /\ a \in Nat /\ a <= N /\ m \in Nat /\ m <= N /\ m = (IF a < n THEN a ELSE n)
      /\ a > n <=> N > n
  BY <1>1 DEF Shown
<1>4. all = SubSeq(r, 1, a)
  BY <1>2 DEF First
<1> HIDE DEF r, a, m
<1>5. \A i \in 1 .. a : r[i] \in S
  BY <1>1, <1>2, <1>3
<1>6. Len(all) = a /\ \A i \in 1 .. a : all[i] = r[i]
  <2>1. /\ Len(all) = IF 1 <= a THEN a - 1 + 1 ELSE 0
        /\ \A i \in 1 .. a - 1 + 1 : all[i] = r[1 + i - 1]
    BY <1>3, <1>4, <1>5, SubSeqProperties
  <2> QED BY <1>3, <2>1
<1>7. t = SubSeq(all, 1, m)
  BY <1>3, <1>6 DEF First
<1> HIDE DEF t
<1>8. Len(t) = m /\ \A i \in 1 .. m : t[i] = all[i]
  <2>1. m <= a
    BY <1>1, <1>3
  <2>2. \A i \in 1 .. m : all[i] \in S
    BY <1>3, <1>5, <1>6, <2>1
  <2>3. /\ Len(t) = IF 1 <= m THEN m - 1 + 1 ELSE 0
        /\ \A i \in 1 .. m - 1 + 1 : t[i] = all[1 + i - 1]
    BY <1>3, <1>7, <2>2, SubSeqProperties
  <2> QED BY <1>3, <2>3
<1>9. \A i \in 1 .. m : t[m - i + 1] = q[N - m + i]
  <2>1. ASSUME NEW i \in 1 .. m PROVE t[m - i + 1] = q[N - m + i]
    <3>1. m - i + 1 \in 1 .. m /\ m - i + 1 \in 1 .. a /\ m - i + 1 \in 1 .. N
      BY <1>1, <1>3
    <3>2. t[m - i + 1] = q[N - (m - i + 1) + 1]
      BY <1>2, <1>6, <1>8, <3>1
    <3> QED BY <1>1, <1>3, <3>2
  <2> QED BY <2>1
<1>10. Reverse(t) = [k \in 1 .. m |-> q[N - m + k]]
  BY <1>8, <1>9 DEF Reverse
<1>11. (Len(all) > n) = (N > n)
  BY <1>3, <1>6
<1> QED BY <1>10, <1>11 DEF LastOf, m, t

\* What the store may list of some rows: each of them once.
LEMMA ListsAllOnce ==
  ASSUME NEW S \in SUBSET Rows, NEW q \in Ascending(S), convo \in Seq(LogRow)
  PROVE  /\ Cardinality(S) \in Nat /\ q \in Seq(S) /\ Len(q) = Cardinality(S)
         /\ \A k \in 1 .. Cardinality(S) : q[k] \in S
         /\ \A i \in S : \E k \in 1 .. Cardinality(S) : q[k] = i
         /\ \A k, l \in 1 .. Cardinality(S) :
              /\ k < l => ~Later(convo[q[k]].at, convo[q[l]].at)
              /\ q[k] = q[l] => k = l
<1> DEFINE N == Cardinality(S)
<1>1. IsFiniteSet(S) /\ N \in Nat
  <2>1. IsFiniteSet(Rows)
    BY FS_Interval DEF Rows
  <2> QED BY <2>1, FS_Subset, FS_CardinalityType
<1>2. /\ q \in [1 .. N -> S] /\ \A i \in S : \E k \in 1 .. N : q[k] = i
      /\ \A k, l \in 1 .. N : k < l => ~Later(convo[q[k]].at, convo[q[l]].at)
  BY DEF Ascending
<1>3. IsFiniteSet(1 .. N) /\ Cardinality(1 .. N) = N
  BY <1>1, FS_Interval
<1>4. q \in Surjection(1 .. N, S)
  BY <1>2 DEF Surjection
<1>5. q \in Injection(1 .. N, S)
  BY <1>3, <1>4, FS_SurjSameCardinalityImpliesInj
<1>6. \A k, l \in 1 .. N : q[k] = q[l] => k = l
  BY <1>2, <1>5 DEF Injection, IsInjective
<1>7. q \in Seq(S) /\ Len(q) = N
  BY <1>1, <1>2
<1> QED BY <1>1, <1>2, <1>6, <1>7

\* A page is the tail of some list of the rows it is taken from.
LEMMA PageIsAscending ==
  ASSUME convo \in Seq(LogRow), NEW before, RowsBefore(before) \in SUBSET Rows,
         NEW page \in list_conversation_messages_paginated(before)
  PROVE  \E p \in Ascending(RowsBefore(before)) :
            page = [messages |-> LastOf(p, PageLimit), has_more |-> Len(p) > PageLimit]
<1> DEFINE S == RowsBefore(before)
           given(r) == LET all == First(r, PageLimit + 1)
                       IN  [messages |-> Reverse(First(all, PageLimit)),
                            has_more |-> Len(all) > PageLimit]
<1>1. PICK r \in Descending(S) : page = given(r)
  BY DEF list_conversation_messages_paginated
<1>2. PICK p \in Ascending(S) : r = Reverse(p)
  BY <1>1 DEF Descending
<1>3. p \in Seq(S)
  <2> HIDE DEF S
  <2>1. S \in SUBSET Rows
    BY DEF S
  <2> QED BY <2>1, ListsAllOnce
<1>4. given(r) = [messages |-> LastOf(p, PageLimit), has_more |-> Len(p) > PageLimit]
  <2> HIDE DEF S
  <2> QED BY <1>2, <1>3, PageIsTail
<1> QED BY <1>1, <1>4

\* Whichever way two statements break ties, they list the same times: a later one at some
\* place would leave too few places before it for the rows that are earlier.
LEMMA NoneIsLater ==
  ASSUME convo \in Seq(LogRow), NEW S \in SUBSET Rows, NEW p \in Ascending(S),
         NEW q \in Ascending(S), NEW k \in 1 .. Cardinality(S)
  PROVE  ~Later(convo[p[k]].at, convo[q[k]].at)
<1> DEFINE N == Cardinality(S)
           at(i) == convo[i].at
<1>1. /\ N \in Nat /\ k \in 1 .. N
      /\ \A l \in 1 .. N : p[l] \in S /\ q[l] \in S
      /\ \A i \in S : \E l \in 1 .. N : p[l] = i
      /\ \A j, l \in 1 .. N : /\ j < l => ~Later(at(p[j]), at(p[l]))
                              /\ j < l => ~Later(at(q[j]), at(q[l]))
                              /\ q[j] = q[l] => j = l
  <2>1. /\ N \in Nat /\ \A l \in 1 .. N : p[l] \in S
        /\ \A i \in S : \E l \in 1 .. N : p[l] = i
        /\ \A j, l \in 1 .. N : j < l => ~Later(at(p[j]), at(p[l]))
    BY ListsAllOnce
  <2>2. /\ \A l \in 1 .. N : q[l] \in S
        /\ \A j, l \in 1 .. N : /\ j < l => ~Later(at(q[j]), at(q[l]))
                                /\ q[j] = q[l] => j = l
    BY ListsAllOnce
  <2> QED BY <2>1, <2>2
<1>2. \A i \in S : at(i) \in LogTimes
  BY RowTime
<1> HIDE DEF N, at
<1> SUFFICES ASSUME Later(at(p[k]), at(q[k])) PROVE FALSE
  BY DEF at
<1>3. ASSUME NEW j \in 1 .. k PROVE \E l \in 1 .. k - 1 : p[l] = q[j]
  <2>1. j \in 1 .. N /\ (j = k \/ j < k)
    BY <1>1
  <2>2. PICK l \in 1 .. N : p[l] = q[j]
    BY <1>1, <2>1
  <2>3. /\ p[k] \in S /\ p[l] \in S /\ q[k] \in S /\ q[j] \in S
        /\ ~Later(at(q[j]), at(q[k]))
    BY <1>1, <1>2, <2>1, TimesAreOrdered
  <2>4. CASE k <= l
    <3>1. k = l \/ k < l
      BY <1>1, <2>4
    <3>2. ~Later(at(p[k]), at(p[l]))
      BY <1>1, <1>2, <2>3, <3>1, TimesAreOrdered
    <3>3. ~Later(at(p[k]), at(q[k]))
      BY <1>2, <2>2, <2>3, <3>2, TimesAreOrdered
    <3> QED BY <3>3
  <2> QED BY <1>1, <2>2, <2>4
<1> DEFINE g == [j \in 1 .. k |-> CHOOSE l \in 1 .. k - 1 : p[l] = q[j]]
<1>4. g \in [1 .. k -> 1 .. k - 1] /\ \A j \in 1 .. k : p[g[j]] = q[j]
  BY <1>3
<1> HIDE DEF g
<1>5. /\ IsFiniteSet(1 .. k) /\ Cardinality(1 .. k) = k
      /\ IsFiniteSet(1 .. k - 1) /\ Cardinality(1 .. k - 1) = k - 1
  <2>1. k \in Int /\ k - 1 \in Int /\ 1 \in Int /\ k >= 1
    BY <1>1
  <2> QED BY <2>1, FS_Interval
<1>6. Cardinality(1 .. k - 1) < Cardinality(1 .. k)
  BY <1>1, <1>5
<1>7. \E x, y \in 1 .. k : x # y /\ g[x] = g[y]
  <2>1. g \in [1 .. k -> 1 .. k - 1]
    BY <1>4
  <2> QED BY ONLY <1>5, <1>6, <2>1, FS_PigeonHole
<1>8. PICK x \in 1 .. k, y \in 1 .. k : x # y /\ g[x] = g[y]
  BY <1>7
<1>9. q[x] = q[y] /\ x \in 1 .. N /\ y \in 1 .. N
  <2>1. p[g[x]] = q[x] /\ p[g[y]] = q[y]
    BY <1>4
  <2> QED BY <1>1, <1>8, <2>1
<1> QED BY <1>1, <1>8, <1>9

\* A row stored earlier is not later, and no row is later than now.
Clockwise ==
  /\ \A i, j \in Rows : i < j => ~Later(convo[i].at, convo[j].at)
  /\ \A i \in Rows : ~Later(convo[i].at, clock)

\* The tail of a list of rows: the newest of them, in order.
LEMMA TailOfRows ==
  ASSUME convo \in Seq(LogRow), Clockwise, NEW S \in SUBSET Rows, NEW q \in Ascending(S),
         NEW P, P = LastOf(q, PageLimit)
  PROVE  /\ P \in Seq(S) /\ ToSet(P) \in SUBSET S /\ InOrder(P)
         /\ Len(P) = Shown(q, PageLimit)
         /\ ~(Len(q) > PageLimit) => ToSet(P) = S
         /\ S # {} => 1 \in 1 .. Len(P)
         /\ \A i \in S \ ToSet(P), j \in ToSet(P) : ~Later(convo[i].at, convo[j].at)
<1> DEFINE n == PageLimit
           N == Len(q)
           m == Shown(q, n)
           d == N - m
<1>1. /\ N \in Nat /\ q \in Seq(S)
      /\ \A k \in 1 .. N : q[k] \in S
      /\ \A i \in S : \E k \in 1 .. N : q[k] = i
      /\ \A k, l \in 1 .. N : k < l => ~Later(convo[q[k]].at, convo[q[l]].at)
  BY ListsAllOnce
<1>2. n \in Nat /\ n > 0 /\ m \in Nat /\ m <= N /\ (~(N > n) => m = N) /\ (N > 0 => m > 0)
  BY <1>1, ChatLogAssumption DEF Shown
<1>3. d \in Nat /\ d + m = N
  BY <1>1, <1>2
<1>4. P = [k \in 1 .. m |-> q[d + k]]
  BY DEF LastOf
<1> HIDE DEF n, N, m, d
<1>5. \A k \in 1 .. m : d + k \in 1 .. N
  BY <1>1, <1>2, <1>3
<1>6. P \in Seq(S) /\ Len(P) = m /\ \A k \in 1 .. m : P[k] = q[d + k] /\ P[k] \in S
  BY <1>1, <1>2, <1>4, <1>5
<1>7. DOMAIN P = 1 .. m /\ ToSet(P) = {P[k] : k \in 1 .. m}
  BY <1>2, <1>4 DEF ToSet
<1>8. ToSet(P) \in SUBSET S
  BY <1>6, <1>7
<1>9. InOrder(P)
  <2>1. ASSUME NEW k \in 1 .. m, NEW l \in 1 .. m, k < l
        PROVE  P[k] < P[l] \/ convo[P[k]].at = convo[P[l]].at
    <3>1. d + k \in 1 .. N /\ d + l \in 1 .. N /\ d + k < d + l
      BY <1>2, <1>3, <1>5, <2>1
    <3>2. ~Later(convo[P[k]].at, convo[P[l]].at) /\ P[k] \in Rows /\ P[l] \in Rows
      BY <1>1, <1>6, <3>1
    <3>3. P[k] < P[l] \/ P[k] = P[l] \/ P[l] < P[k]
      BY <3>2 DEF Rows
    <3>4. P[l] < P[k] => ~Later(convo[P[l]].at, convo[P[k]].at)
      BY <3>2 DEF Clockwise
    <3> QED BY <3>2, <3>3, <3>4, RowTime, TimesAreOrdered
  <2> QED BY <1>7, <2>1 DEF InOrder
<1>10. ASSUME ~(N > n) PROVE S \in SUBSET ToSet(P)
  <2>1. m = N /\ d = 0
    BY <1>2, <1>3, <1>10
  <2>2. \A k \in 1 .. N : P[k] = q[k]
    BY <1>6, <2>1
  <2> QED BY <1>1, <1>7, <2>1, <2>2
<1>11. ASSUME S # {} PROVE 1 \in 1 .. m
  <2>1. \E k \in 1 .. N : TRUE
    BY <1>1, <1>11
  <2> QED BY <1>1, <1>2, <2>1
<1>12. ASSUME NEW i \in S \ ToSet(P), NEW j \in ToSet(P)
       PROVE  ~Later(convo[i].at, convo[j].at)
  <2>1. PICK k \in 1 .. N : q[k] = i
    BY <1>1
  <2>2. PICK l \in 1 .. m : j = q[d + l]
    BY <1>6, <1>7
  <2>3. ~(k > d)
    <3>1. SUFFICES ASSUME k > d PROVE FALSE
      OBVIOUS
    <3>2. k - d \in 1 .. m /\ d + (k - d) = k
      BY <1>1, <1>2, <1>3, <2>1, <3>1
    <3> QED BY <1>6, <1>7, <2>1, <3>2
  <2>4. k < d + l /\ d + l \in 1 .. N
    BY <1>3, <1>5, <2>3
  <2> QED BY <1>1, <2>1, <2>2, <2>4
<1> QED BY <1>6, <1>8, <1>9, <1>10, <1>11, <1>12 DEF n, N, m

\* The tails of two lists of the same rows tell the same times.
LEMMA TailsAgree ==
  ASSUME convo \in Seq(LogRow), NEW S \in SUBSET Rows, NEW p \in Ascending(S),
         NEW q \in Ascending(S), NEW page, NEW history,
         page = [messages |-> LastOf(p, PageLimit), has_more |-> Len(p) > PageLimit],
         history = [messages |-> LastOf(q, PageLimit), has_more |-> Len(q) > PageLimit]
  PROVE  SameButForTies(page, history)
<1> DEFINE N == Cardinality(S)
           m == Shown(p, PageLimit)
           d == N - m
<1>1. /\ N \in Nat /\ Len(p) = N /\ Len(q) = N
      /\ \A l \in 1 .. N : p[l] \in S /\ q[l] \in S
  BY ListsAllOnce
<1>2. m \in Nat /\ m <= N /\ Shown(q, PageLimit) = m /\ d \in Nat
  BY <1>1, ChatLogAssumption DEF Shown
<1>3. /\ page.messages = [k \in 1 .. m |-> p[d + k]]
      /\ history.messages = [k \in 1 .. m |-> q[d + k]]
      /\ page.has_more = history.has_more
  BY <1>1, <1>2 DEF LastOf
<1>4. ASSUME NEW k \in 1 .. m PROVE convo[p[d + k]].at = convo[q[d + k]].at
  <2>1. d + k \in 1 .. N
    BY <1>1, <1>2
  <2>2. /\ ~Later(convo[p[d + k]].at, convo[q[d + k]].at)
        /\ ~Later(convo[q[d + k]].at, convo[p[d + k]].at)
    <3> HIDE DEF d
    <3> QED BY <2>1, NoneIsLater
  <2>3. convo[p[d + k]].at \in LogTimes /\ convo[q[d + k]].at \in LogTimes
    BY <1>1, <2>1, RowTime
  <2> QED BY <2>2, <2>3, TimesAreOrdered
<1> HIDE DEF d, m
<1>5. Len(page.messages) = m /\ Len(history.messages) = m
  BY <1>2, <1>3
<1> QED BY <1>3, <1>4, <1>5 DEF SameButForTies

ChatTexts == UNION {s.texts : s \in Sittings}

TypedText == [text : ChatTexts, sub : Submission, result : SubmissionResult]

PersistTask == [turn : Nat, next : {"user", "assistant"}, answered : BOOLEAN]

ChatTypes ==
  /\ DOMAIN sitting = {"texts", "inputs", "ticks"} /\ sitting.texts \subseteq ChatTexts
  /\ typed \in Seq(TypedText)
  /\ persisting \subseteq PersistTask
  /\ convo \in Seq(LogRow)
  /\ clock \in LogTimes

\* The n-th text was said to the model.
Asked(n) == n \in 1 .. Len(typed) /\ typed[n].sub = "UserInput"

\* Among the first m rows is the user's text of turn n.
QuestionStored(n, m) == \E j \in 1 .. m : convo[j].turn = n /\ convo[j].role = "user"

RowsHaveTurns ==
  /\ \A n \in 1 .. Len(typed) : typed[n].sub = parse(typed[n].text)
  /\ \A t \in persisting :
        /\ Asked(t.turn)
        /\ t.next = "assistant" => QuestionStored(t.turn, Len(convo))
  /\ \A i \in Rows :
        /\ Asked(convo[i].turn)
        /\ convo[i].role = "assistant" => QuestionStored(convo[i].turn, i - 1)

\* A walk that is not at its end has on its page a row at least as new as each row it has
\* still to show, and none whose day is later than that of all rows shown.
WalkOK ==
  walk.on =>
    /\ walk = [on |-> TRUE, there |-> walk.there, page |-> walk.page, before |-> walk.before,
               shown |-> walk.shown, again |-> walk.again, history |-> walk.history]
    /\ walk.there \subseteq Rows /\ walk.shown \subseteq Rows /\ walk.again \subseteq Rows
    /\ walk.page.messages \in Seq(Rows) /\ walk.history.messages \in Seq(Rows)
    /\ PagesSkipNothing
    /\ walk.page.has_more =>
          /\ 1 \in 1 .. Len(walk.page.messages)
          /\ \A i \in walk.there \ walk.shown, j \in ToSet(walk.page.messages) :
                ~Later(convo[i].at, convo[j].at)
          /\ \A i \in walk.shown : \E j \in ToSet(walk.page.messages) :
                convo[j].at[1] <= convo[i].at[1]

ChatInv == ChatTypes /\ Clockwise /\ RowsHaveTurns /\ WalkOK

\* A text is read as one of the control submissions or as none of them.
LEMMA ControlType ==
  ASSUME NEW w
  PROVE  /\ ControlOf(w) \in (Submission \ {"UserInput"}) \cup {"none"}
         /\ ControlOf(w) = "none" =>
               w \notin {<<"/help">>, <<"/version">>, <<"/tools">>, <<"/debug">>, <<"/ping">>,
                         <<"/undo">>, <<"/redo">>, <<"/compact">>, <<"/clear">>,
                         <<"/interrupt">>, <<"/new">>, <<"/summarize">>, <<"/suggest">>,
                         <<"/quit">>}
<1>1. ControlOf(w) \in (Submission \ {"UserInput"}) \cup {"none"}
  BY DEF ControlOf, Submission
<1>2. /\ w = <<"/undo">> => ControlOf(w) # "none"
      /\ w = <<"/redo">> => ControlOf(w) # "none"
      /\ w \in {<<"/interrupt">>, <<"/stop">>} => ControlOf(w) # "none"
      /\ w = <<"/compact">> => ControlOf(w) # "none"
      /\ w = <<"/clear">> => ControlOf(w) # "none"
      /\ w \in {<<"/summarize">>, <<"/summary">>} => ControlOf(w) # "none"
      /\ w = <<"/suggest">> => ControlOf(w) # "none"
      /\ w \in {<<"/thread", "new">>, <<"/new">>} => ControlOf(w) # "none"
      /\ w \in SystemCommands => ControlOf(w) # "none"
      /\ w \in {<<"/quit">>, <<"/exit">>, <<"/shutdown">>} => ControlOf(w) # "none"
  BY DEF ControlOf
<1> QED BY <1>1, <1>2 DEF SystemCommands

\* Whatever is typed is some submission, and nothing that /help lists starts a turn.
LEMMA ParsedRight ==
  ASSUME NEW w
  PROVE  /\ parse(w) \in Submission
         /\ parse(w) = "UserInput" => ~Advertised(w) /\ w \notin ApprovalWords
<1>1. parse(w) \in Submission
  BY ControlType DEF parse, parse_complex, Submission
<1>2. ASSUME parse(w) = "UserInput" PROVE ~Advertised(w) /\ w \notin ApprovalWords
  <2>1. ControlOf(w) = "none"
    BY <1>2, ControlType DEF parse
  <2>2. w \notin ApprovalWords
    BY <1>2, <2>1 DEF parse
  <2>3. parse_complex(w) = "UserInput"
    BY <1>2, <2>1, <2>2 DEF parse
  <2>4. ~parse_model_command(w) /\ ~parse_thread_switch(w) /\ ~parse_resume(w)
    BY <2>3 DEF parse_complex
  <2> QED BY <2>1, <2>2, <2>4, ControlType
          DEF Advertised, parse_model_command, parse_thread_switch, parse_resume
<1> QED BY <1>1, <1>2

\* An empty conversation and an unread log are in the invariant.
LEMMA ChatStarts ==
  ASSUME ChatInit
  PROVE  ChatInv
<1>1. PICK s \in Sittings : ChatStart(s)
  BY DEF ChatInit
<1>2. Rows = {} /\ 1 .. Len(typed) = {}
  BY <1>1 DEF ChatStart, Rows
<1>3. ChatTypes
  BY <1>1, ChatLogAssumption DEF ChatStart, ChatTypes, ChatTexts, LogTimes
<1>4. RowsHaveTurns
  BY <1>1, <1>2 DEF ChatStart, RowsHaveTurns
<1>5. WalkOK
  BY <1>1 DEF ChatStart, WalkOK
<1>6. Clockwise
  BY <1>2 DEF Clockwise
<1> QED BY <1>3, <1>4, <1>5, <1>6 DEF ChatInv

\* What a walk has seen stays as it is when rows are added to the log.
LEMMA WalkWaits ==
  ASSUME ChatInv, walk' = walk, Rows \subseteq Rows', \A i \in Rows : convo'[i] = convo[i]
  PROVE  WalkOK'
<1> SUFFICES ASSUME walk.on PROVE WalkOK'
  BY DEF WalkOK
<1> DEFINE new == walk.page.messages
           old == walk.history.messages
<1>1. /\ walk = [on |-> TRUE, there |-> walk.there, page |-> walk.page, before |-> walk.before,
                 shown |-> walk.shown, again |-> walk.again, history |-> walk.history]
      /\ walk.there \subseteq Rows /\ walk.shown \subseteq Rows /\ walk.again \subseteq Rows
      /\ new \in Seq(Rows) /\ old \in Seq(Rows)
      /\ PagesSkipNothing
      /\ walk.page.has_more =>
            /\ 1 \in 1 .. Len(new)
            /\ \A i \in walk.there \ walk.shown, j \in ToSet(new) :
                  ~Later(convo[i].at, convo[j].at)
            /\ \A i \in walk.shown : \E j \in ToSet(new) : convo[j].at[1] <= convo[i].at[1]
  BY DEF ChatInv, WalkOK
<1>2. /\ DOMAIN new = 1 .. Len(new) /\ \A k \in 1 .. Len(new) : new[k] \in Rows
      /\ DOMAIN old = 1 .. Len(old) /\ \A k \in 1 .. Len(old) : old[k] \in Rows
  BY <1>1
<1>3. new \in Seq(Rows)' /\ old \in Seq(Rows)'
  BY <1>1
<1>4. ToSet(new) \subseteq Rows
  BY <1>2 DEF ToSet
<1>5. InOrder(new) => \A k, l \in DOMAIN new :
                         k < l => new[k] < new[l] \/ convo'[new[k]].at = convo'[new[l]].at
  BY <1>2 DEF InOrder
<1>6. InOrder(old) => \A k, l \in DOMAIN old :
                         k < l => old[k] < old[l] \/ convo'[old[k]].at = convo'[old[l]].at
  BY <1>2 DEF InOrder
<1>7. SameButForTies(walk.page, walk.history) =>
        /\ walk.page.has_more = walk.history.has_more
        /\ Len(new) = Len(old)
        /\ \A k \in 1 .. Len(new) : convo'[new[k]].at = convo'[old[k]].at
  BY <1>2 DEF SameButForTies
<1>8. /\ ~walk.page.has_more => walk.there \subseteq walk.shown
      /\ \A i \in walk.again : convo'[i].at[1] = walk.before[1]
      /\ InOrder(new) /\ InOrder(old)
      /\ walk.before = NoTime => SameButForTies(walk.page, walk.history)
  BY <1>1 DEF PagesSkipNothing
<1> HIDE DEF new, old
<1>9. PagesSkipNothing'
  BY <1>5, <1>6, <1>7, <1>8 DEF PagesSkipNothing, InOrder, SameButForTies, NoTime, new, old
<1>10. \A i \in walk.there \ walk.shown, j \in ToSet(new) :
          Later(convo[i].at, convo[j].at)' <=> Later(convo[i].at, convo[j].at)
  BY <1>1, <1>4 DEF Later
<1>11. \A i \in walk.shown, j \in ToSet(new) :
          convo'[j].at[1] <= convo'[i].at[1] <=> convo[j].at[1] <= convo[i].at[1]
  BY <1>1, <1>4
<1> QED BY <1>1, <1>3, <1>9, <1>10, <1>11 DEF WalkOK, new, old

\* Submitting a text keeps the log in step with the conversation (process_user_input).
LEMMA TextComes ==
  ASSUME ChatInv, NEW w \in sitting.texts, NEW replied \in BOOLEAN, Submit(w, replied)
  PROVE  ChatInv'
<1> DEFINE kind == parse(w)
           result == CASE starts_turn(kind) -> IF replied THEN "response" ELSE "error"
                       [] kind = "SystemCommand" -> handle_system_command(w)
                       [] kind \in {"ApprovalResponse", "ExecApproval"} -> "error"
                       [] OTHER -> "ok"
           entry == [text |-> w, sub |-> kind, result |-> result]
           task == [turn |-> Len(typed) + 1, next |-> "user", answered |-> replied]
<1>0. PICK L \in Nat : L = Len(typed)
  BY DEF ChatInv, ChatTypes
<1>1. result \in SubmissionResult
  BY DEF SubmissionResult, handle_system_command
<1>2. /\ typed' = Append(typed, entry)
      /\ persisting' = IF starts_turn(kind) THEN persisting \cup {task} ELSE persisting
      /\ UNCHANGED <<convo, clock, walk>>
      /\ sitting' = [sitting EXCEPT !.inputs = @ - 1]
  BY DEF Submit
<1> HIDE DEF result
<1>3. entry \in TypedText /\ entry.sub = kind /\ entry.text = w
  BY <1>1, ParsedRight DEF TypedText, ChatInv, ChatTypes
<1> HIDE DEF entry
<1>4. typed \in Seq(TypedText) /\ L \in Nat /\ L = Len(typed)
  BY <1>0 DEF ChatInv, ChatTypes
<1>5. /\ typed' \in Seq(TypedText) /\ Len(typed') = L + 1 /\ typed'[L + 1] = entry
      /\ \A n \in 1 .. L : typed'[n] = typed[n]
  BY <1>2, <1>3, <1>4
<1>6. task \in PersistTask /\ task.turn = L + 1 /\ task.next = "user"
  BY <1>4 DEF PersistTask
<1> HIDE DEF task
<1>7. ChatTypes'
  BY <1>2, <1>5, <1>6 DEF ChatInv, ChatTypes
<1>8. \A n : Asked(n) => Asked(n)'
  BY <1>4, <1>5 DEF Asked
<1>9. RowsHaveTurns'
  <2>1. \A n \in 1 .. Len(typed') : typed'[n].sub = parse(typed'[n].text)
    BY <1>3, <1>4, <1>5 DEF ChatInv, RowsHaveTurns
  <2>2. kind = "UserInput" => Asked(L + 1)'
    BY <1>3, <1>4, <1>5 DEF Asked
  <2>3. ASSUME NEW t \in persisting'
        PROVE  Asked(t.turn)' /\ (t.next = "assistant" => QuestionStored(t.turn, Len(convo))')
    <3>1. CASE t \in persisting
      BY <1>2, <1>8, <3>1 DEF ChatInv, RowsHaveTurns, QuestionStored
    <3>2. CASE t = task /\ kind = "UserInput"
      BY <1>6, <2>2, <3>2
    <3> QED BY <1>2, <3>1, <3>2 DEF starts_turn
  <2>4. ASSUME NEW i \in Rows
        PROVE  /\ Asked(convo[i].turn)'
               /\ (convo[i].role = "assistant" => QuestionStored(convo[i].turn, i - 1))'
    BY <1>2, <1>8 DEF ChatInv, RowsHaveTurns, QuestionStored
  <2>5. Rows' = Rows /\ convo' = convo
    BY <1>2 DEF Rows
  <2> QED BY <2>1, <2>3, <2>4, <2>5 DEF RowsHaveTurns
<1>10. Rows' = Rows /\ convo' = convo /\ clock' = clock /\ walk' = walk
  BY <1>2 DEF Rows
<1>11. Clockwise'
  BY <1>10 DEF ChatInv, Clockwise, Later
<1>12. WalkOK'
  BY <1>10, WalkWaits
<1> QED BY <1>7, <1>9, <1>11, <1>12 DEF ChatInv

\* A row is added by a task, whose turn it belongs to.
LEMMA RowComes ==
  ASSUME ChatInv, NEW t \in persisting, NEW who \in {"user", "assistant"},
         add_conversation_message(t, who), t.next = who,
         persisting' \subseteq PersistTask,
         \A u \in persisting' : u \in persisting \/ (u.turn = t.turn /\ who = "user"),
         UNCHANGED <<typed, clock, walk, sitting>>
  PROVE  ChatInv'
<1> DEFINE row == [turn |-> t.turn, role |-> who, at |-> clock]
<1>0. PICK L \in Nat : L = Len(convo)
  BY DEF ChatInv, ChatTypes
<1>1. convo \in Seq(LogRow) /\ L \in Nat /\ L = Len(convo) /\ t \in PersistTask
  BY <1>0 DEF ChatInv, ChatTypes
<1>2. row \in LogRow /\ row.turn = t.turn /\ row.role = who
  BY <1>1 DEF LogRow, PersistTask, ChatInv, ChatTypes
<1>3. convo' = Append(convo, row)
  BY DEF add_conversation_message
<1> HIDE DEF row
<1>4. /\ convo' \in Seq(LogRow) /\ Len(convo') = L + 1 /\ convo'[L + 1] = row
      /\ \A i \in 1 .. L : convo'[i] = convo[i]
  BY <1>1, <1>2, <1>3
<1>5. Rows = 1 .. L /\ Rows' = 1 .. L + 1
  BY <1>0, <1>4 DEF Rows
<1>6. /\ Rows \subseteq Rows' /\ \A i \in Rows : convo'[i] = convo[i]
      /\ \A i \in Rows' : i \in Rows \/ i = L + 1
  BY <1>1, <1>4, <1>5
<1>7. ChatTypes'
  BY <1>4 DEF ChatInv, ChatTypes
<1>8. \A n, m : m \in 0 .. L /\ QuestionStored(n, m) => QuestionStored(n, m)'
  BY <1>1, <1>4 DEF QuestionStored
<1>9. \A n : QuestionStored(n, L) => QuestionStored(n, L + 1)'
  BY <1>1, <1>4 DEF QuestionStored
<1>10. who = "user" => QuestionStored(t.turn, L + 1)'
  BY <1>1, <1>2, <1>4 DEF QuestionStored
<1>11. \A n : Asked(n)' <=> Asked(n)
  BY DEF Asked
<1>12. RowsHaveTurns'
  <2>1. Asked(t.turn) /\ (t.next = "assistant" => QuestionStored(t.turn, L))
    BY <1>0 DEF ChatInv, RowsHaveTurns
  <2>2. ASSUME NEW u \in persisting'
        PROVE  Asked(u.turn)' /\ (u.next = "assistant" => QuestionStored(u.turn, Len(convo))')
    <3>1. CASE u \in persisting
      <4>1. Asked(u.turn) /\ (u.next = "assistant" => QuestionStored(u.turn, L))
        BY <1>0, <3>1 DEF ChatInv, RowsHaveTurns
      <4>2. u.next = "assistant" => QuestionStored(u.turn, L + 1)'
        BY <1>9, <4>1
      <4> QED BY <1>4, <1>11, <4>1, <4>2 DEF QuestionStored
    <3>2. CASE u.turn = t.turn /\ who = "user"
      BY <1>4, <1>10, <1>11, <2>1, <3>2 DEF QuestionStored
    <3> QED BY <3>1, <3>2
  <2>3. ASSUME NEW i \in Rows'
        PROVE  /\ Asked(convo[i].turn)'
               /\ (convo[i].role = "assistant" => QuestionStored(convo[i].turn, i - 1))'
    <3>1. CASE i \in Rows
      <4>1. i - 1 \in 0 .. L
        BY <1>1, <1>5, <3>1
      <4>2. /\ Asked(convo[i].turn)
            /\ convo[i].role = "assistant" => QuestionStored(convo[i].turn, i - 1)
        BY <3>1 DEF ChatInv, RowsHaveTurns
      <4>3. convo[i].role = "assistant" => QuestionStored(convo[i].turn, i - 1)'
        BY <1>6, <1>8, <3>1, <4>1, <4>2 DEF QuestionStored
      <4> QED BY <1>6, <1>11, <3>1, <4>2, <4>3 DEF Asked, QuestionStored
    <3>2. CASE i = L + 1
      <4>1. i - 1 = L /\ L \in 0 .. L
        BY <1>1, <3>2
      <4>2. who = "assistant" => QuestionStored(t.turn, L)'
        BY <1>8, <2>1, <4>1
      <4> QED BY <1>2, <1>4, <2>1, <3>2, <4>1, <4>2 DEF Asked, QuestionStored
    <3> QED BY <1>6, <3>1, <3>2
  <2>4. \A n \in 1 .. Len(typed) : typed[n].sub = parse(typed[n].text)
    BY DEF ChatInv, RowsHaveTurns
  <2> QED BY <1>11, <2>2, <2>3, <2>4 DEF RowsHaveTurns, QuestionStored
<1>13. WalkOK'
  BY <1>6, WalkWaits
<1>14. Clockwise'
  <2>1. convo'[L + 1].at = clock /\ clock \in LogTimes
    BY <1>4 DEF row, ChatInv, ChatTypes
  <2>2. /\ \A i, j \in Rows : i < j => ~Later(convo[i].at, convo[j].at)
        /\ \A i \in Rows : ~Later(convo[i].at, clock)
    BY DEF ChatInv, Clockwise
  <2>3. ~Later(clock, clock)
    BY <2>1, TimesAreOrdered
  <2>4. ASSUME NEW i \in Rows', NEW j \in Rows', i < j
        PROVE  ~Later(convo'[i].at, convo'[j].at)
    <3>1. i \in Rows /\ convo'[i] = convo[i]
      BY <1>1, <1>4, <1>5, <2>4
    <3>2. CASE j \in Rows
      BY <1>6, <2>2, <2>4, <3>1, <3>2
    <3>3. CASE j = L + 1
      BY <2>1, <2>2, <3>1, <3>3
    <3> QED BY <1>6, <3>2, <3>3
  <2>5. ASSUME NEW i \in Rows' PROVE ~Later(convo'[i].at, clock)
    BY <1>6, <2>1, <2>2, <2>3
  <2> QED BY <2>4, <2>5 DEF Clockwise, Later
<1> QED BY <1>7, <1>12, <1>13, <1>14 DEF ChatInv

\* The first page a client asks for agrees with the tail of the history, ties aside.
LEMMA WalkBegins ==
  ASSUME ChatInv, FirstPage
  PROVE  ChatInv'
<1>1. PICK q \in Ascending(Rows), page \in list_conversation_messages_paginated(NoTime) :
        walk' = [on |-> TRUE, there |-> Rows, page |-> page, before |-> NoTime,
                 shown |-> ToSet(page.messages), again |-> {}, history |-> history_handler(q)]
  BY DEF FirstPage, list_conversation_messages
<1>2. UNCHANGED <<typed, persisting, convo, clock, sitting>>
  BY DEF FirstPage
<1>3. convo \in Seq(LogRow) /\ Rows # {} /\ Clockwise
  <2>1. convo \in Seq(LogRow) /\ convo # <<>> /\ Clockwise
    BY DEF ChatInv, ChatTypes, FirstPage
  <2>2. Len(convo) \in Nat /\ Len(convo) # 0
    BY <2>1
  <2>3. 1 \in 1 .. Len(convo)
    BY <2>2
  <2> QED BY <2>1, <2>3 DEF Rows
<1>4. RowsBefore(NoTime) = Rows
  BY DEF RowsBefore
<1>5. PICK p \in Ascending(Rows) :
        page = [messages |-> LastOf(p, PageLimit), has_more |-> Len(p) > PageLimit]
  BY <1>3, <1>4, PageIsAscending
<1> DEFINE history == history_handler(q)
           P == LastOf(p, PageLimit)
           Q == LastOf(q, PageLimit)
<1>6. history = [messages |-> Q, has_more |-> Len(q) > PageLimit]
  <2>1. q \in Seq(Rows)
    BY <1>3, ListsAllOnce
  <2> QED BY <2>1, HistoryIsTail
<1> HIDE DEF history
<1>7. page.messages = P /\ page.has_more = (Len(p) > PageLimit) /\ history.messages = Q
  BY <1>5, <1>6
<1>8. /\ P \in Seq(Rows) /\ ToSet(P) \in SUBSET Rows /\ InOrder(P)
      /\ ~(Len(p) > PageLimit) => ToSet(P) = Rows
      /\ 1 \in 1 .. Len(P)
      /\ \A i \in Rows \ ToSet(P), j \in ToSet(P) : ~Later(convo[i].at, convo[j].at)
  BY <1>3, TailOfRows
<1>9. Q \in Seq(Rows) /\ InOrder(Q)
  BY <1>3, TailOfRows
<1>10. SameButForTies(page, history)
  BY <1>3, <1>5, <1>6, TailsAgree
<1> HIDE DEF P, Q
<1>11. walk' = [on |-> TRUE, there |-> Rows, page |-> page, before |-> NoTime,
                shown |-> ToSet(P), again |-> {}, history |-> history]
  BY <1>1, <1>7 DEF history
<1>12. PagesSkipNothing'
  <2>1. ~page.has_more => Rows \subseteq ToSet(P)
    BY <1>7, <1>8
  <2>2. /\ walk'.there = Rows /\ walk'.shown = ToSet(P) /\ walk'.again = {}
        /\ walk'.page = page /\ walk'.history = history
        /\ walk'.page.messages = P /\ walk'.history.messages = Q
    BY <1>7, <1>11
  <2>3. /\ InOrder(P)' /\ InOrder(Q)'
        /\ \A k \in 1 .. Len(page.messages) :
              convo'[page.messages[k]].at = convo'[history.messages[k]].at
    BY <1>2, <1>8, <1>9, <1>10 DEF InOrder, SameButForTies
  <2>4. /\ page.has_more = history.has_more
        /\ Len(page.messages) = Len(history.messages)
    BY <1>10 DEF SameButForTies
  <2>5. SameButForTies(walk.page, walk.history)'
    BY <2>2, <2>3, <2>4 DEF SameButForTies
  <2>6. InOrder(walk.page.messages)' /\ InOrder(walk.history.messages)'
    BY <2>2, <2>3 DEF InOrder
  <2> QED BY <2>1, <2>2, <2>5, <2>6 DEF PagesSkipNothing
<1>13. \A i \in ToSet(P) : convo[i].at[1] <= convo[i].at[1]
  BY <1>3, <1>8, RowTime, TimesAreOrdered
<1>14. Rows' = Rows
  BY <1>2 DEF Rows
<1>15. WalkOK'
  <2>1. /\ walk'.there = Rows /\ walk'.shown = ToSet(P) /\ walk'.again = {}
        /\ walk'.page = page /\ walk'.before = NoTime /\ walk'.history = history
    BY <1>11
  <2>2. /\ walk' = [on |-> TRUE, there |-> walk'.there, page |-> walk'.page,
                    before |-> walk'.before, shown |-> walk'.shown, again |-> walk'.again,
                    history |-> walk'.history]
        /\ walk'.there \subseteq Rows' /\ walk'.shown \subseteq Rows'
        /\ walk'.again \subseteq Rows'
    BY <1>8, <1>11, <1>14, <2>1
  <2>3. walk'.page.messages = P /\ walk'.history.messages = Q
    BY <1>7, <2>1
  <2>4. walk'.page.messages \in Seq(Rows') /\ walk'.history.messages \in Seq(Rows')
    BY <1>8, <1>9, <1>14, <2>3
  <2>5. \A i \in walk'.there \ walk'.shown, j \in ToSet(walk'.page.messages) :
           ~Later(convo'[i].at, convo'[j].at)
    BY <1>2, <1>8, <2>1, <2>3
  <2>6. \A i \in walk'.shown : \E j \in ToSet(walk'.page.messages) :
           convo'[j].at[1] <= convo'[i].at[1]
    BY <1>2, <1>13, <2>1, <2>3
  <2>7. 1 \in 1 .. Len(walk'.page.messages)
    BY <1>8, <2>3
  <2> HIDE DEF P, Q
  <2> QED BY <1>12, <2>2, <2>4, <2>5, <2>6, <2>7 DEF WalkOK, Later
<1>16. ChatTypes' /\ RowsHaveTurns' /\ Clockwise'
  BY <1>2, <1>14
     DEF ChatInv, ChatTypes, RowsHaveTurns, Asked, QuestionStored, Clockwise, Later
<1> QED BY <1>15, <1>16 DEF ChatInv

\* The next page goes on where the last one stopped, or before: it breaks ties anew.
LEMMA WalkGoesOn ==
  ASSUME ChatInv, NextPage
  PROVE  ChatInv'
<1> DEFINE last == walk.page.messages
           o == last[1]
           before == convo[o].at
           all == RowsBefore(before)
<1>1. /\ walk.on /\ walk.page.has_more /\ convo \in Seq(LogRow) /\ Clockwise
      /\ walk = [on |-> TRUE, there |-> walk.there, page |-> walk.page, before |-> walk.before,
                 shown |-> walk.shown, again |-> walk.again, history |-> walk.history]
      /\ last \in Seq(Rows) /\ 1 \in 1 .. Len(last) /\ InOrder(last)
      /\ walk.there \subseteq Rows /\ walk.shown \subseteq Rows
      /\ \A i \in walk.there \ walk.shown, j \in ToSet(last) : ~Later(convo[i].at, convo[j].at)
      /\ \A i \in walk.shown : \E j \in ToSet(last) : convo[j].at[1] <= convo[i].at[1]
  BY DEF ChatInv, ChatTypes, WalkOK, NextPage, PagesSkipNothing
<1>2. PICK page \in list_conversation_messages_paginated(before) :
        walk' = [walk EXCEPT !.page = page, !.before = before,
                             !.shown = walk.shown \cup ToSet(page.messages),
                             !.again = walk.shown \cap ToSet(page.messages),
                             !.history = NoHistory]
  BY DEF NextPage
<1>3. UNCHANGED <<typed, persisting, convo, clock, sitting>>
  BY DEF NextPage
<1>4. /\ o \in Rows /\ o \in ToSet(last) /\ ToSet(last) \subseteq Rows
      /\ \A j \in ToSet(last) : ~Later(before, convo[j].at)
  <2>1. DOMAIN last = 1 .. Len(last) /\ \A k \in 1 .. Len(last) : last[k] \in Rows
    BY <1>1
  <2>2. ASSUME NEW k \in 1 .. Len(last) PROVE ~Later(before, convo[last[k]].at)
    <3>1. k = 1 \/ 1 < k
      OBVIOUS
    <3>2. o \in Rows /\ last[k] \in Rows
      BY <1>1, <2>1
    <3>3. k = 1 \/ o < last[k] \/ before = convo[last[k]].at
      BY <1>1, <2>1, <3>1 DEF InOrder
    <3>4. o < last[k] => ~Later(before, convo[last[k]].at)
      BY <1>1, <3>2 DEF Clockwise
    <3>5. before \in LogTimes
      BY <1>1, <3>2, RowTime
    <3> QED BY <3>3, <3>4, <3>5, TimesAreOrdered
  <2> QED BY <1>1, <2>1, <2>2 DEF ToSet
<1> HIDE DEF last, o
<1>5. \A x \in Rows : convo[x].at \in LogTimes
  BY <1>1, RowTime
<1>6. before \in LogTimes /\ before[1] \in Nat /\ before # NoTime
  BY <1>4, <1>5, TimesAreOrdered DEF NoTime, LogTimes
<1> HIDE DEF before
<1>7. all \in SUBSET Rows /\ \A i \in Rows : i \in all <=> convo[i].at[1] <= before[1]
  BY <1>6 DEF TextLess, RowsBefore
<1>8. PICK p \in Ascending(all) :
        page = [messages |-> LastOf(p, PageLimit), has_more |-> Len(p) > PageLimit]
  BY <1>1, <1>7, PageIsAscending
<1> DEFINE P == LastOf(p, PageLimit)
<1>9. page.messages = P /\ page.has_more = (Len(p) > PageLimit)
  BY <1>8
<1> HIDE DEF all
<1>10. /\ P \in Seq(all) /\ ToSet(P) \in SUBSET all /\ InOrder(P)
       /\ ~page.has_more => ToSet(P) = all
       /\ all # {} => 1 \in 1 .. Len(P)
       /\ \A i \in all \ ToSet(P), j \in ToSet(P) : ~Later(convo[i].at, convo[j].at)
  <2>1. /\ P \in Seq(all) /\ ToSet(P) \in SUBSET all /\ InOrder(P)
        /\ ~(Len(p) > PageLimit) => ToSet(P) = all
        /\ all # {} => 1 \in 1 .. Len(P)
        /\ \A i \in all \ ToSet(P), j \in ToSet(P) : ~Later(convo[i].at, convo[j].at)
    BY <1>1, <1>7, <1>8, TailOfRows
  <2> QED BY <1>9, <2>1
<1> HIDE DEF P
<1> DEFINE T == ToSet(P)
<1>11. walk' = [on |-> TRUE, there |-> walk.there, page |-> page, before |-> before,
                shown |-> walk.shown \cup T, again |-> walk.shown \cap T,
                history |-> NoHistory]
  BY <1>1, <1>2, <1>9
<1>12. P \in Seq(Rows) /\ T \in SUBSET Rows /\ T \in SUBSET all
  BY <1>7, <1>10
<1>13. Rows' = Rows
  BY <1>3 DEF Rows
<1>14. o \in all
  BY <1>4, <1>6, <1>7 DEF before
<1>15. 1 \in 1 .. Len(P) /\ P[1] \in T
  <2>1. 1 \in 1 .. Len(P) /\ DOMAIN P = 1 .. Len(P)
    BY <1>10, <1>14
  <2> QED BY <2>1 DEF ToSet
<1> HIDE DEF T
<1>16. \A i \in walk.there \ walk.shown : i \in all
  <2>1. ASSUME NEW i \in walk.there \ walk.shown PROVE i \in all
    <3>1. i \in Rows /\ ~Later(convo[i].at, before)
      BY <1>1, <1>4 DEF before
    <3>2. convo[i].at[1] <= before[1]
      BY <1>5, <1>6, <3>1, TimesAreOrdered
    <3> QED BY <1>7, <3>1, <3>2
  <2> QED BY <2>1
<1>17. \A i \in walk.shown : before[1] <= convo[i].at[1]
  <2>1. ASSUME NEW i \in walk.shown PROVE before[1] <= convo[i].at[1]
    <3>1. PICK j \in ToSet(last) : convo[j].at[1] <= convo[i].at[1]
      BY <1>1
    <3>2. j \in Rows /\ i \in Rows /\ ~Later(before, convo[j].at)
      BY <1>1, <1>4
    <3>3. before[1] <= convo[j].at[1]
      BY <1>5, <1>6, <3>2, TimesAreOrdered
    <3>4. convo[j].at[1] \in Nat /\ convo[i].at[1] \in Nat
      BY <1>5, <3>2, TimesAreOrdered
    <3> QED BY <1>6, <3>1, <3>3, <3>4
  <2> QED BY <2>1
<1>18. \A i \in Rows : convo[i].at[1] \in Nat
  BY <1>5, TimesAreOrdered
<1>19. PagesSkipNothing'
  <2>1. \A i \in walk.shown \cap T : convo[i].at[1] = before[1]
    BY <1>1, <1>6, <1>7, <1>12, <1>17, <1>18
  <2>2. ~page.has_more => walk.there \subseteq walk.shown \cup T
    BY <1>10, <1>16 DEF T
  <2>3. InOrder(P) /\ InOrder(<<>>)
    BY <1>10 DEF InOrder
  <2>4. /\ walk'.there = walk.there /\ walk'.shown = walk.shown \cup T
        /\ walk'.again = walk.shown \cap T /\ walk'.page = page /\ walk'.before = before
        /\ walk'.history.messages = <<>> /\ walk'.page.messages = P
    BY <1>9, <1>11 DEF NoHistory
  <2> QED BY <1>3, <1>6, <2>1, <2>2, <2>3, <2>4 DEF PagesSkipNothing, InOrder, NoTime
<1>20. \A i \in walk.there \ (walk.shown \cup T), j \in T : ~Later(convo[i].at, convo[j].at)
  BY <1>10, <1>16 DEF T
<1>21. \A i \in walk.shown \cup T : \E j \in T : convo[j].at[1] <= convo[i].at[1]
  <2>1. PICK j \in T : TRUE
    BY <1>15
  <2>2. j \in Rows /\ convo[j].at[1] <= before[1]
    BY <1>7, <1>12
  <2>3. ASSUME NEW i \in walk.shown PROVE convo[j].at[1] <= convo[i].at[1]
    BY <1>1, <1>6, <1>17, <1>18, <2>2, <2>3
  <2>4. ASSUME NEW i \in T PROVE convo[i].at[1] <= convo[i].at[1]
    BY <1>12, <1>18, <2>4
  <2> QED BY <2>3, <2>4
<1>22. WalkOK'
  <2>1. /\ walk'.there = walk.there /\ walk'.shown = walk.shown \cup T
        /\ walk'.again = walk.shown \cap T /\ walk'.page = page /\ walk'.before = before
        /\ walk'.history = NoHistory /\ NoHistory.messages = <<>>
    BY <1>11 DEF NoHistory
  <2>2. /\ walk'.page.messages = P /\ ToSet(P) = T
        /\ <<>> \in Seq(Rows)
    BY <1>9, <2>1 DEF T
  <2>3. /\ walk' = [on |-> TRUE, there |-> walk'.there, page |-> walk'.page,
                    before |-> walk'.before, shown |-> walk'.shown, again |-> walk'.again,
                    history |-> walk'.history]
        /\ walk'.there \subseteq Rows' /\ walk'.shown \subseteq Rows'
        /\ walk'.again \subseteq Rows'
    BY <1>1, <1>11, <1>12, <1>13, <2>1
  <2>4. walk'.page.messages \in Seq(Rows') /\ walk'.history.messages \in Seq(Rows')
    BY <1>12, <1>13, <2>1, <2>2
  <2>5. \A i \in walk'.there \ walk'.shown, j \in ToSet(walk'.page.messages) :
           ~Later(convo'[i].at, convo'[j].at)
    BY <1>3, <1>20, <2>1, <2>2
  <2>6. \A i \in walk'.shown : \E j \in ToSet(walk'.page.messages) :
           convo'[j].at[1] <= convo'[i].at[1]
    BY <1>3, <1>21, <2>1, <2>2
  <2>7. 1 \in 1 .. Len(walk'.page.messages)
    BY <1>15, <2>2
  <2> QED BY <1>19, <2>3, <2>4, <2>5, <2>6, <2>7 DEF WalkOK, Later
<1>23. ChatTypes' /\ RowsHaveTurns' /\ Clockwise'
  BY <1>3, <1>13
     DEF ChatInv, ChatTypes, RowsHaveTurns, Asked, QuestionStored, Clockwise, Later
<1> QED BY <1>22, <1>23 DEF ChatInv

\* What is typed, the rows of each turn and the walk of a reader keep in step in every
\* reachable state, however the tasks of the turns overlap.
THEOREM ChatInvariant == ChatSpec => []ChatInv
<1>1. ASSUME ChatInv, [ChatNext]_chatVars PROVE ChatInv'
  <2>1. ASSUME UNCHANGED <<typed, convo, walk>>, persisting' \subseteq persisting,
               ChatTypes', \A i \in Rows : ~Later(convo[i].at, clock')
        PROVE  ChatInv'
    <3>1. Rows' = Rows
      BY <2>1 DEF Rows
    <3>2. RowsHaveTurns'
      BY <1>1, <2>1, <3>1 DEF ChatInv, RowsHaveTurns, Asked, QuestionStored
    <3>3. WalkOK'
      BY <1>1, <2>1, <3>1, WalkWaits
    <3>4. Clockwise'
      BY <1>1, <2>1, <3>1 DEF ChatInv, Clockwise, Later
    <3> QED BY <2>1, <3>2, <3>3, <3>4 DEF ChatInv
  <2>2. CASE UNCHANGED chatVars
    BY <1>1, <2>1, <2>2 DEF chatVars, ChatInv, ChatTypes, Clockwise
  <2>3. ASSUME NEW w \in sitting.texts, NEW replied \in BOOLEAN, Submit(w, replied)
        PROVE  ChatInv'
    BY <1>1, <2>3, TextComes
  <2>4. ASSUME NEW t \in persisting, PersistUserText(t) PROVE ChatInv'
    <3> DEFINE next == [t EXCEPT !.next = "assistant"]
    <3>1. t \in PersistTask
      BY <1>1 DEF ChatInv, ChatTypes
    <3>2. next \in PersistTask /\ next.turn = t.turn
      BY <3>1 DEF PersistTask
    <3>3. persisting' \subseteq persisting \cup {next}
      BY <2>4 DEF PersistUserText
    <3> HIDE DEF next
    <3>4. persisting' \subseteq PersistTask
      BY <1>1, <3>2, <3>3 DEF ChatInv, ChatTypes
    <3>5. \A u \in persisting' : u \in persisting \/ (u.turn = t.turn /\ "user" = "user")
      BY <3>2, <3>3
    <3>6. /\ t.next = "user" /\ add_conversation_message(t, "user")
          /\ UNCHANGED <<typed, clock, walk, sitting>>
      BY <2>4 DEF PersistUserText
    <3> QED BY <1>1, <3>4, <3>5, <3>6, RowComes
  <2>5. ASSUME NEW t \in persisting, PersistAnswer(t) PROVE ChatInv'
    <3>1. /\ t.next = "assistant" /\ add_conversation_message(t, "assistant")
          /\ UNCHANGED <<typed, clock, walk, sitting>> /\ persisting' \subseteq persisting
      BY <2>5 DEF PersistAnswer
    <3>2. persisting' \subseteq PersistTask /\ \A u \in persisting' : u \in persisting
      BY <1>1, <3>1 DEF ChatInv, ChatTypes
    <3> QED BY <1>1, <3>1, <3>2, RowComes
  <2>6. ASSUME NEW t \in persisting, PersistFails(t) PROVE ChatInv'
    BY <1>1, <2>1, <2>6 DEF PersistFails, ChatInv, ChatTypes, Clockwise
  <2>7. ASSUME NEW newday \in BOOLEAN, Tick(newday) PROVE ChatInv'
    <3>1. clock \in LogTimes /\ clock' = IF newday THEN <<clock[1] + 1, 0>>
                                         ELSE <<clock[1], clock[2] + 1>>
      BY <1>1, <2>7 DEF Tick, ChatInv, ChatTypes
    <3>2. clock' \in LogTimes /\ ~Later(clock, clock')
      BY <3>1 DEF LogTimes, Later
    <3>3. ASSUME NEW i \in Rows PROVE ~Later(convo[i].at, clock')
      <4>1. convo[i].at \in LogTimes /\ ~Later(convo[i].at, clock)
        BY <1>1, RowTime DEF ChatInv, ChatTypes, Clockwise
      <4> QED BY <3>1, <3>2, <4>1, TimesAreOrdered
    <3> QED BY <1>1, <2>1, <2>7, <3>2, <3>3 DEF Tick, ChatInv, ChatTypes
  <2>8. CASE FirstPage \/ NextPage
    BY <1>1, <2>8, WalkBegins, WalkGoesOn
  <2> QED BY <1>1, <2>2, <2>3, <2>4, <2>5, <2>6, <2>7, <2>8 DEF ChatNext
<1> QED BY <1>1, ChatStarts, PTL DEF ChatSpec

\* The log holds the chat and nothing else, and whoever pages through it sees all of it,
\* for any number of rows and size of pages and whichever way ties of the clock go.
THEOREM LogIsReadBack == ChatSpec => []LogReadsBack
<1>1. ASSUME ChatInv PROVE LogReadsBack
  <2>1. ChatTypeOK
    <3>1. \A i \in 1 .. Len(typed) : typed[i] \in TypedText
      BY <1>1, ElementOfSeq DEF ChatInv, ChatTypes
    <3>2. DOMAIN typed = 1 .. Len(typed) /\ DOMAIN convo = Rows
      BY <1>1 DEF ChatInv, ChatTypes, Rows
    <3>3. \A i \in DOMAIN typed : /\ typed[i].sub \in Submission
                                  /\ typed[i].result \in SubmissionResult
      BY <3>1, <3>2 DEF TypedText
    <3>4. \A i \in DOMAIN convo : convo[i].turn \in DOMAIN typed
      BY <1>1, <3>2 DEF ChatInv, RowsHaveTurns, Asked
    <3> QED BY <3>3, <3>4 DEF ChatTypeOK
  <2>2. LogHoldsChatOnly
    <3>1. ASSUME NEW i \in Rows
          PROVE  /\ ~Advertised(typed[convo[i].turn].text)
                 /\ typed[convo[i].turn].text \notin ApprovalWords
      <4>1. parse(typed[convo[i].turn].text) = "UserInput"
        BY <1>1 DEF ChatInv, RowsHaveTurns, Asked
      <4> QED BY <4>1, ParsedRight
    <3>2. ASSUME NEW i \in Rows, convo[i].role = "assistant"
          PROVE  \E j \in 1 .. i - 1 : convo[j].turn = convo[i].turn /\ convo[j].role = "user"
      BY <1>1, <3>2 DEF ChatInv, RowsHaveTurns, QuestionStored
    <3> QED BY <3>1, <3>2 DEF LogHoldsChatOnly
  <2>3. PagesSkipNothing
    BY <1>1 DEF ChatInv, WalkOK, PagesSkipNothing
  <2> QED BY <2>1, <2>2, <2>3 DEF LogReadsBack
<1> QED BY <1>1, ChatInvariant, PTL


-----------------------------------------------------------------------------
(* The contents of a card (CardPath).                                       *)

Person == [who : STRING, up : BOOLEAN]

\* The elements of the list at the places U: each place once, in order.
LEMMA ThoseRight ==
  ASSUME NEW list \in Seq(Person), NEW U \in SUBSET Places(list)
  PROVE  /\ Those(list, U) \in Seq(Person)
         /\ \A i \in U : \E k \in Places(Those(list, U)) : Those(list, U)[k] = list[i]
         /\ \E keep \in Seq(U) :
               /\ Len(keep) = Len(Those(list, U))
               /\ \A a, b \in Places(keep) : a < b => keep[a] < keep[b]
               /\ \A k \in Places(keep) : Those(list, U)[k] = list[keep[k]]
<1> DEFINE n == Len(list)
           keep == Sift([j \in 1 .. n |-> j], U)
           those == [k \in 1 .. Len(keep) |-> list[keep[k]]]
<1>0. n \in Nat /\ U = (1 .. n) \cap U
  <2>1. U \subseteq 1 .. n
    BY DEF Places
  <2>2. n \in Nat
    OBVIOUS
  <2> HIDE DEF n
  <2> QED BY <2>1, <2>2
<1>1. Those(list, U) = those
  BY DEF Those, Places
<1>2. /\ keep \in Seq(U)
      /\ \A a, b \in DOMAIN keep : a < b => keep[a] < keep[b]
  <2> HIDE DEF n
  <2>1. /\ keep \in Seq((1 .. n) \cap U)
        /\ \A a, b \in DOMAIN keep : a < b => keep[a] < keep[b]
    BY <1>0, SiftPositions
  <2> QED BY <1>0, <2>1
<1>3. \A i \in U : \E a \in DOMAIN keep : keep[a] = i
  <2> HIDE DEF n
  <2>1. (1 .. n) \cap U \subseteq {keep[a] : a \in DOMAIN keep}
    BY <1>0, SiftKeepsAll
  <2> HIDE DEF keep
  <2> QED BY <1>0, <2>1
<1> HIDE DEF keep
<1>4. keep \in Seq(U) /\ DOMAIN keep = 1 .. Len(keep) /\ Len(keep) \in Nat
  BY <1>2
<1>5. \A k \in 1 .. Len(keep) : keep[k] \in U /\ list[keep[k]] \in Person
  BY <1>4, ElementOfSeq DEF Places
<1>6. those \in Seq(Person) /\ Len(those) = Len(keep)
  BY <1>4, <1>5
<1>7. \A i \in U : \E k \in 1 .. Len(those) : those[k] = list[i]
  BY <1>3, <1>4, <1>6
<1>8. \A k \in 1 .. Len(keep) : those[k] = list[keep[k]]
  OBVIOUS
<1> HIDE DEF those
<1>9. /\ Len(keep) = Len(those)
      /\ \A a, b \in Places(keep) : a < b => keep[a] < keep[b]
      /\ \A k \in Places(keep) : those[k] = list[keep[k]]
  BY <1>2, <1>4, <1>6, <1>8 DEF Places
<1> QED BY <1>1, <1>4, <1>6, <1>7, <1>9 DEF Places

\* No two elements of the list are the same person.
EachOnce(list) == \A i, j \in Places(list) : i # j => lower(list[i]) # lower(list[j])

\* Picking places with different addresses gives a list that names nobody twice.
LEMMA ThoseOnce ==
  ASSUME NEW list \in Seq(Person), NEW U \in SUBSET Places(list),
         \A i, j \in U : i < j => lower(list[i]) # lower(list[j])
  PROVE  EachOnce(Those(list, U))
<1>1. PICK keep \in Seq(U) :
               /\ Len(keep) = Len(Those(list, U))
               /\ \A a, b \in Places(keep) : a < b => keep[a] < keep[b]
               /\ \A k \in Places(keep) : Those(list, U)[k] = list[keep[k]]
  BY ThoseRight
<1> DEFINE those == Those(list, U)
<1>2. \A k \in Places(keep) : keep[k] \in U
  BY ElementOfSeq DEF Places
<1>3. Places(those) = Places(keep) /\ Places(keep) \subseteq Int
  BY <1>1 DEF Places
<1> HIDE DEF those
<1>4. ASSUME NEW i \in Places(keep), NEW j \in Places(keep), i < j
      PROVE  lower(those[i]) # lower(those[j])
  <2>1. /\ keep[i] \in U /\ keep[j] \in U /\ keep[i] < keep[j]
        /\ those[i] = list[keep[i]] /\ those[j] = list[keep[j]]
    BY <1>1, <1>2, <1>4 DEF those
  <2> QED BY <2>1
<1>5. \A i, j \in Places(keep) : i # j => i < j \/ j < i
  BY <1>3
<1>6. EachOnce(those)
  BY <1>3, <1>4, <1>5 DEF EachOnce
<1> QED BY <1>6 DEF those

\* Who is among them.
LEMMA PeopleThere ==
  ASSUME NEW list \in Seq(Person), NEW U \in SUBSET Places(list)
  PROVE  People(Those(list, U)) = {lower(list[i]) : i \in U}
<1> DEFINE those == Those(list, U)
<1>1. /\ \A i \in U : \E k \in Places(those) : those[k] = list[i]
      /\ \E keep \in Seq(U) :
            /\ Len(keep) = Len(those)
            /\ \A k \in Places(keep) : those[k] = list[keep[k]]
  BY ThoseRight
<1> HIDE DEF those
<1>2. PICK keep \in Seq(U) : /\ Len(keep) = Len(those)
                             /\ \A k \in Places(keep) : those[k] = list[keep[k]]
  BY <1>1
<1>3. \A k \in Places(those) : \E i \in U : those[k] = list[i]
  BY <1>2, ElementOfSeq DEF Places
<1>4. People(those) = {lower(list[i]) : i \in U}
  BY <1>1, <1>3 DEF People, Places
<1> QED BY <1>4 DEF those

\* Two lists of people together name the people of both, each once when they share none.
LEMMA PeopleOfBoth ==
  ASSUME NEW a \in Seq(Person), NEW b \in Seq(Person)
  PROVE  /\ a \o b \in Seq(Person) /\ People(a \o b) = People(a) \cup People(b)
         /\ (EachOnce(a) /\ EachOnce(b) /\ People(a) \cap People(b) = {} => EachOnce(a \o b))
<1> DEFINE ab == a \o b
           m == Len(a)
           n == Len(b)
<1>1. m \in Nat /\ n \in Nat
  OBVIOUS
<1>2. /\ ab \in Seq(Person) /\ Len(ab) = m + n
      /\ \A i \in 1 .. m : ab[i] = a[i]
      /\ \A i \in 1 .. n : ab[m + i] = b[i]
  BY ConcatProperties
<1> HIDE DEF ab, m, n
<1>3. ASSUME NEW i \in 1 .. m + n
      PROVE  (i \in 1 .. m /\ ab[i] = a[i]) \/ (i - m \in 1 .. n /\ ab[i] = b[i - m])
  <2>1. CASE i <= m
    BY <1>1, <1>2, <2>1
  <2>2. CASE i > m
    <3>1. i - m \in 1 .. n /\ m + (i - m) = i
      BY <1>1, <2>2
    <3> QED BY <1>2, <3>1
  <2> QED BY <1>1, <2>1, <2>2
<1>4. People(ab) = People(a) \cup People(b)
  <2>1. People(ab) = {lower(ab[i]) : i \in 1 .. m + n}
    BY <1>2 DEF People
  <2>2. People(a) = {lower(a[i]) : i \in 1 .. m} /\ People(b) = {lower(b[i]) : i \in 1 .. n}
    BY DEF People, m, n
  <2>3. \A i \in 1 .. m : i \in 1 .. m + n /\ ab[i] = a[i]
    BY <1>1, <1>2
  <2>4. \A i \in 1 .. n : m + i \in 1 .. m + n /\ ab[m + i] = b[i]
    BY <1>1, <1>2
  <2>5. ASSUME NEW w \in People(ab) PROVE w \in People(a) \cup People(b)
    BY <1>3, <2>1, <2>2
  <2>6. ASSUME NEW w \in People(a) \cup People(b) PROVE w \in People(ab)
    BY <2>1, <2>2, <2>3, <2>4
  <2> QED BY <2>5, <2>6
<1>5. ASSUME EachOnce(a), EachOnce(b), People(a) \cap People(b) = {}
      PROVE  EachOnce(ab)
  <2> SUFFICES ASSUME NEW i \in 1 .. m + n, NEW j \in 1 .. m + n, i # j
               PROVE  lower(ab[i]) # lower(ab[j])
    BY <1>2 DEF EachOnce, Places
  <2>1. \A x \in 1 .. m, y \in 1 .. n : lower(a[x]) # lower(b[y])
    BY <1>5 DEF People, m, n
  <2>2. /\ \A x, y \in 1 .. m : x # y => lower(a[x]) # lower(a[y])
        /\ \A x, y \in 1 .. n : x # y => lower(b[x]) # lower(b[y])
    BY <1>5 DEF EachOnce, Places, m, n
  <2>3. i - m # j - m
    BY <1>1
  <2> QED BY <1>3, <2>1, <2>2, <2>3
<1> QED BY <1>2, <1>4, <1>5 DEF ab

\* A list that names each person once is as long as the number of people it names.
LEMMA CountedOnce ==
  ASSUME NEW list \in Seq(Person), EachOnce(list)
  PROVE  Len(list) = Cardinality(People(list))
<1> DEFINE f == [i \in 1 .. Len(list) |-> lower(list[i])]
<1>1. f \in Surjection(1 .. Len(list), People(list))
  BY DEF Surjection, People
<1>2. f \in Injection(1 .. Len(list), People(list))
  BY DEF Injection, IsInjective, People, EachOnce, Places
<1>3. IsFiniteSet(1 .. Len(list)) /\ Cardinality(1 .. Len(list)) = Len(list)
  <2> DEFINE n == Len(list)
  <2>1. n \in Nat
    OBVIOUS
  <2> HIDE DEF n
  <2>2. IsFiniteSet(1 .. n) /\ Cardinality(1 .. n) = n
    BY <2>1, FS_Interval
  <2> QED BY <2>2 DEF n
<1> HIDE DEF f
<1> QED BY <1>1, <1>2, <1>3, FS_Surjection

\* The people of a list whose addresses parse, and those not listed before.
LEMMA ParsingPeople ==
  ASSUME NEW list \in Seq(Person)
  PROVE  /\ Those(list, Parsing(list)) \in Seq(Person)
         /\ People(Those(list, Parsing(list))) = People(list) \ (Junk \cup {""})
         /\ EachOnce(list) => EachOnce(Those(list, Parsing(list)))
<1>1. Parsing(list) \in SUBSET Places(list)
  BY DEF Parsing
<1>2. Those(list, Parsing(list)) \in Seq(Person)
  BY <1>1, ThoseRight
<1>3. People(Those(list, Parsing(list))) = {lower(list[i]) : i \in Parsing(list)}
  BY <1>1, PeopleThere
<1>4. {lower(list[i]) : i \in Parsing(list)} = People(list) \ (Junk \cup {""})
  BY DEF Parsing, Parses, lower, People, Places
<1>5. ASSUME EachOnce(list) PROVE EachOnce(Those(list, Parsing(list)))
  <2>1. ASSUME NEW i \in Parsing(list), NEW j \in Parsing(list), i < j
        PROVE  lower(list[i]) # lower(list[j])
    BY <1>1, <1>5, <2>1 DEF EachOnce, Places
  <2> QED BY <1>1, <2>1, ThoseOnce
<1> QED BY <1>2, <1>3, <1>4, <1>5

\* AppendNew adds the people not seen yet, each of them once.
LEMMA NewPeople ==
  ASSUME NEW list \in Seq(Person), NEW seen
  PROVE  /\ AppendNew(seen, list) \in Seq(Person)
         /\ People(AppendNew(seen, list)) = People(list) \ seen
         /\ EachOnce(AppendNew(seen, list))
<1> DEFINE U == {i \in Places(list) :
                    /\ lower(list[i]) \notin seen
                    /\ \A j \in 1 .. i - 1 : lower(list[j]) # lower(list[i])}
<1>1. U \in SUBSET Places(list) /\ AppendNew(seen, list) = Those(list, U)
  BY DEF AppendNew
<1>2. Places(list) \subseteq Nat
  BY DEF Places
<1>3. Those(list, U) \in Seq(Person)
  BY <1>1, ThoseRight
<1>4. People(Those(list, U)) = {lower(list[i]) : i \in U}
  BY <1>1, PeopleThere
<1>5. {lower(list[i]) : i \in U} = People(list) \ seen
  <2>1. \A i \in U : lower(list[i]) \in People(list) \ seen
    BY DEF People, Places
  <2>2. ASSUME NEW w \in People(list) \ seen PROVE \E i \in U : lower(list[i]) = w
    <3> DEFINE T == {i \in Places(list) : lower(list[i]) = w}
    <3>1. T \in SUBSET Nat /\ T # {}
      BY <1>2 DEF People, Places
    <3>2. PICK i \in T : \A y \in T : i <= y
      BY <3>1, Least
    <3>3. i \in Places(list) /\ lower(list[i]) = w
      BY <3>2
    <3>4. ASSUME NEW j \in 1 .. i - 1 PROVE lower(list[j]) # w
      <4>1. j \in Places(list) /\ ~(i <= j)
        BY <3>3 DEF Places
      <4> QED BY <3>2, <4>1
    <3>5. i \in U
      BY <3>3, <3>4
    <3> QED BY <3>3, <3>5
  <2> HIDE DEF U
  <2> QED BY <2>1, <2>2
<1>6. EachOnce(Those(list, U))
  <2>1. ASSUME NEW i \in U, NEW j \in U, i < j PROVE lower(list[i]) # lower(list[j])
    <3>1. i \in 1 .. j - 1
      BY <1>2, <2>1 DEF Places
    <3> QED BY <3>1
  <2> HIDE DEF U
  <2> QED BY <1>1, <2>1, ThoseOnce
<1> QED BY <1>1, <1>3, <1>4, <1>5, <1>6

\* The addresses of a reply are those ReplyReachesEveryoneOnce asks for.
LEMMA ReplyReaders ==
  ASSUME NEW mail \in Mails, lower(mail.from) # Us, Parses(mail.from)
  PROVE  LET cc == build_reply_metadata(mail).cc
             to == <<mail.from>> \o Those(cc, Parsing(cc))
             all == <<mail.from>> \o mail.to \o mail.cc
         IN  /\ People(to) = People(Those(all, Parsing(all))) \ {Us}
             /\ Len(to) = Cardinality(People(to))
             /\ to[1] = mail.from
<1> DEFINE first == <<mail.from>>
           rest == mail.to \o mail.cc
           seen == {Us, lower(mail.from)}
           cc == AppendNew(seen, rest)
           those == Those(cc, Parsing(cc))
           to == first \o those
           all == first \o mail.to \o mail.cc
           J == Junk \cup {""}
           w == lower(mail.from)
<1>1. first \in Seq(Person) /\ mail.to \in Seq(Person) /\ mail.cc \in Seq(Person)
  BY CardPathAssumption DEF Person
<1>2. build_reply_metadata(mail).cc = cc
  BY DEF build_reply_metadata
<1>3. People(first) = {w} /\ EachOnce(first) /\ Len(first) = 1 /\ first[1] = mail.from
  BY DEF People, EachOnce, Places
<1>4. w \notin J /\ w # Us
  BY DEF Parses, lower
<1> HIDE DEF first
<1>5. rest \in Seq(Person) /\ People(rest) = People(mail.to) \cup People(mail.cc)
  BY <1>1, PeopleOfBoth
<1>6. all \in Seq(Person) /\ People(all) = {w} \cup People(mail.to) \cup People(mail.cc)
  <2>1. /\ first \o mail.to \in Seq(Person)
        /\ People(first \o mail.to) = People(first) \cup People(mail.to)
    BY <1>1, PeopleOfBoth
  <2>2. /\ (first \o mail.to) \o mail.cc \in Seq(Person)
        /\ People((first \o mail.to) \o mail.cc) = People(first \o mail.to) \cup People(mail.cc)
    BY ONLY <1>1, <2>1, PeopleOfBoth
  <2> QED BY <1>3, <2>1, <2>2
<1> HIDE DEF rest, all, seen
<1>7. /\ cc \in Seq(Person) /\ EachOnce(cc)
      /\ People(cc) = People(rest) \ {Us, w}
  BY <1>5, NewPeople DEF seen
<1> HIDE DEF cc
<1>8. /\ those \in Seq(Person) /\ EachOnce(those)
      /\ People(those) = People(cc) \ J
  BY <1>7, ParsingPeople
<1> HIDE DEF those
<1>9. /\ to \in Seq(Person) /\ EachOnce(to)
      /\ People(to) = {w} \cup People(those)
  <2>1. People(first) \cap People(those) = {}
    BY <1>3, <1>7, <1>8
  <2> QED BY <1>1, <1>3, <1>8, <2>1, PeopleOfBoth
<1>10. to[1] = mail.from
  <2> DEFINE m == Len(first)
             n == Len(those)
  <2>1. m = 1
    BY <1>3
  <2>3. n \in Nat
    BY <1>8, LenProperties
  <2>2. \A i \in 1 .. m + n : to[i] = IF i <= m THEN first[i] ELSE those[i - m]
    BY <1>1, <1>8, ConcatProperties
  <2> HIDE DEF m, n, to
  <2> QED BY <1>3, <2>1, <2>2, <2>3
<1> HIDE DEF to
<1>11. People(Those(all, Parsing(all))) = People(all) \ J
  BY <1>6, ParsingPeople
<1>12. People(to) = People(Those(all, Parsing(all))) \ {Us}
  BY <1>4, <1>5, <1>6, <1>7, <1>8, <1>9, <1>11
<1>13. Len(to) = Cardinality(People(to))
  BY <1>9, CountedOnce
<1> QED BY <1>2, <1>10, <1>12, <1>13 DEF to, all, those, cc, first

-----------------------------------------------------------------------------

PathShape ==
  /\ path = [stage |-> path.stage, mail |-> path.mail, content |-> path.content,
             meta |-> path.meta, card |-> path.card, row |-> path.row,
             wanted |-> path.wanted, edited |-> path.edited, refined |-> path.refined,
             restarted |-> path.restarted, out |-> path.out]
  /\ LET c == path.card
     IN  c = Card(c.type, c.channel, c.text, c.confidence, c.meta, c.recipient, c.todo)

\* Replies have no recipient of their own, drafts no mail they answer.
CardFits ==
  /\ path.card.type \in CardTypes
  /\ path.card.type = "reply" => path.card.recipient = NoAddr
  /\ path.card.type = "compose" => path.card.meta = NoMeta

MailIsKnown ==
  /\ path.stage \in {"mail", "stored"} \/ path.mail # NoMail => path.mail \in Mails
  /\ path.stage = "chat" => path.mail = NoMail
  /\ path.stage = "stored" =>
        lower(path.mail.from) # Us /\ path.meta = build_reply_metadata(path.mail)

\* A card made from a mail answers that mail.
AnswersItsMail ==
  path.stage \in {"queued", "decided"} /\ path.mail # NoMail =>
    LET meta == path.card.meta
    IN  /\ lower(path.mail.from) # Us
        /\ path.card.type = "reply" /\ path.card.channel = "email"
        /\ meta.t = "object" /\ meta.reply_to = path.mail.from
        /\ meta.cc = build_reply_metadata(path.mail).cc

\* Until a restart the row holds the card, but for the confidence of a refined one.
RowHoldsCard ==
  path.stage = "queued" /\ ~path.restarted =>
    LET c == path.card
        r == path.row
        p == path.row.payload
    IN  /\ r = [card_type |-> c.type, payload |-> p, status |-> r.status, todo |-> c.todo]
        /\ p = [channel |-> c.channel, text |-> c.text, confidence |-> p.confidence,
                meta |-> c.meta, recipient |-> c.recipient, added |-> p.added]
        /\ ~path.refined => p.confidence = c.confidence

DecisionIsKept ==
  path.stage = "decided" =>
    path.card.text = path.wanted \/ (path.edited /\ path.card.type # "reply")

PathInv ==
  PathShape /\ CardFits /\ MailIsKnown /\ AnswersItsMail /\ RowHoldsCard /\ DecisionIsKept
    /\ SentAsDecided

\* Before a mail is polled the card's path is in the invariant.
LEMMA CardStarts ==
  ASSUME PathInit
  PROVE  PathInv
<1>1. ASSUME NEW m \in Mails, path = From("mail", m, "") PROVE PathInv
  BY <1>1 DEF PathInv, PathShape, CardFits, MailIsKnown, AnswersItsMail, RowHoldsCard,
     DecisionIsKept, SentAsDecided, ReplyReachesEveryoneOnce, SentTextIsTheUsers, From,
     fallback_reply_payload, new_reply, Card, CardTypes
<1>2. ASSUME NEW c \in Contents, path = From("chat", NoMail, c) PROVE PathInv
  BY <1>2 DEF PathInv, PathShape, CardFits, MailIsKnown, AnswersItsMail, RowHoldsCard,
     DecisionIsKept, SentAsDecided, ReplyReachesEveryoneOnce, SentTextIsTheUsers, From,
     fallback_reply_payload, new_reply, Card, CardTypes
<1>3. ASSUME NEW R, NEW c \in ToolCards(R), path = Queued(From("queued", NoMail, ""), c)
      PROVE  PathInv
  <2>1. /\ c = Card(c.type, c.channel, c.text, c.confidence, c.meta, c.recipient, c.todo)
        /\ c.type \in CardTypes /\ c.type # "reply" /\ c.meta = NoMeta
    <3>1. CASE \E who \in R : c = new_compose(who, "body")
      BY <3>1 DEF new_compose, Card, CardTypes
    <3>2. CASE c = new_action("description")
      BY <3>2 DEF new_action, Card, CardTypes
    <3>3. CASE c = new_multiple_choice("question")
      BY <3>3 DEF new_multiple_choice, Card, CardTypes
    <3> QED BY <3>1, <3>2, <3>3 DEF ToolCards
  <2> QED
    BY <1>3, <2>1 DEF PathInv, PathShape, CardFits, MailIsKnown, AnswersItsMail, RowHoldsCard,
       DecisionIsKept, SentAsDecided, ReplyReachesEveryoneOnce, SentTextIsTheUsers, From,
       Queued, insert_card, serialize_payload_inner, Card
<1> QED BY <1>1, <1>2, <1>3 DEF PathInit

\* A card that is put into the queue for the mail or chat message at hand.
LEMMA CardIsQueued ==
  ASSUME PathInv, NEW c, path' = Queued(path, c), c.type = "reply", c.recipient = NoAddr,
         c = Card(c.type, c.channel, c.text, c.confidence, c.meta, c.recipient, c.todo),
         path.mail # NoMail =>
           /\ lower(path.mail.from) # Us
           /\ c.channel = "email" /\ c.meta.t = "object" /\ c.meta.reply_to = path.mail.from
           /\ c.meta.cc = build_reply_metadata(path.mail).cc
  PROVE  PathInv'
<1>1. path' = [stage |-> "queued", mail |-> path.mail, content |-> path.content,
               meta |-> path.meta, card |-> c, row |-> insert_card(c),
               wanted |-> path.wanted, edited |-> path.edited, refined |-> path.refined,
               restarted |-> path.restarted, out |-> path.out]
  BY DEF PathInv, PathShape, Queued
<1>2. PathShape' /\ CardFits' /\ MailIsKnown' /\ AnswersItsMail'
  BY <1>1 DEF PathInv, PathShape, CardFits, MailIsKnown, AnswersItsMail, CardTypes
<1>3. RowHoldsCard'
  <2> DEFINE p == [channel |-> c.channel, text |-> c.text, confidence |-> c.confidence,
                   meta |-> c.meta, recipient |-> c.recipient, added |-> ""]
  <2>1. path'.card = c
        /\ path'.row = [card_type |-> c.type, payload |-> p, status |-> "pending", todo |-> c.todo]
    <3>1. path'.card = c /\ path'.row = insert_card(c)
      BY <1>1
    <3> QED BY <3>1 DEF insert_card, serialize_payload_inner
  <2>2. /\ p = [channel |-> c.channel, text |-> c.text, confidence |-> p.confidence,
                meta |-> c.meta, recipient |-> c.recipient, added |-> p.added]
        /\ p.confidence = c.confidence
    OBVIOUS
  <2> HIDE DEF p
  <2>3. path'.row.payload = p /\ path'.row.status = "pending"
    BY <2>1
  <2> QED BY <2>1, <2>2, <2>3 DEF RowHoldsCard
<1>4. DecisionIsKept' /\ SentAsDecided'
  BY <1>1, <1>2 DEF DecisionIsKept, SentAsDecided, ReplyReachesEveryoneOnce,
     SentTextIsTheUsers, CardFits
<1> QED BY <1>2, <1>3, <1>4 DEF PathInv

\* Steps that end the path without a card.
LEMMA NoCardMade ==
  ASSUME PathInv, path' = [path EXCEPT !.stage = "none"]
  PROVE  PathInv'
<1>1. path' = [stage |-> "none", mail |-> path.mail, content |-> path.content,
               meta |-> path.meta, card |-> path.card, row |-> path.row,
               wanted |-> path.wanted, edited |-> path.edited, refined |-> path.refined,
               restarted |-> path.restarted, out |-> path.out]
  BY DEF PathInv, PathShape
<1> QED
  BY <1>1 DEF PathInv, PathShape, CardFits, MailIsKnown, AnswersItsMail, RowHoldsCard,
     DecisionIsKept, SentAsDecided, ReplyReachesEveryoneOnce, SentTextIsTheUsers

\* Polling a mail keeps the invariant of the card's path.
LEMMA MailIsPolled ==
  ASSUME PathInv, Poll
  PROVE  PathInv'
<1>1. CASE lower(path.mail.from) = Us \/ ~is_sender_allowed(path.mail.from)
  BY <1>1, NoCardMade DEF Poll
<1>2. CASE ~(lower(path.mail.from) = Us \/ ~is_sender_allowed(path.mail.from))
  <2>1. path' = [stage |-> "stored", mail |-> path.mail, content |-> path.content,
                 meta |-> build_reply_metadata(path.mail), card |-> path.card,
                 row |-> path.row, wanted |-> path.wanted, edited |-> path.edited,
                 refined |-> path.refined, restarted |-> path.restarted, out |-> path.out]
    BY <1>2 DEF Poll, PathInv, PathShape
  <2>2. path.stage = "mail" /\ lower(path.mail.from) # Us
    BY <1>2 DEF Poll
  <2> QED
    BY <2>1, <2>2 DEF PathInv, PathShape, CardFits, MailIsKnown, AnswersItsMail, RowHoldsCard,
       DecisionIsKept, SentAsDecided, ReplyReachesEveryoneOnce, SentTextIsTheUsers
<1> QED BY <1>1, <1>2

\* The card of a triaged mail.
LEMMA RoutedRight ==
  ASSUME PathInv, path.stage = "stored", NEW reply,
         reply.action \in {"notify", "digest", "draft_reply"},
         path' = Queued(path, route_to_card(stored_to_inbound(path), reply))
  PROVE  PathInv'
<1> DEFINE m == build_reply_metadata(path.mail)
           c == route_to_card(stored_to_inbound(path), reply)
<1>1. stored_to_inbound(path) = m /\ lower(path.mail.from) # Us
  BY DEF PathInv, MailIsKnown, stored_to_inbound
<1>2. m = [t |-> "object", reply_to |-> path.mail.from, cc |-> m.cc, tone |-> FALSE]
  BY DEF build_reply_metadata
<1> HIDE DEF m
<1>3. /\ c.type = "reply" /\ c.recipient = NoAddr /\ c.channel = "email"
      /\ c = Card(c.type, c.channel, c.text, c.confidence, c.meta, c.recipient, c.todo)
      /\ c.meta.t = "object" /\ c.meta.reply_to = path.mail.from /\ c.meta.cc = m.cc
  <2>1. CASE reply.action = "notify"
    BY <1>1, <1>2, <2>1 DEF route_to_card, new_reply, Card
  <2>2. CASE reply.action = "digest"
    BY <1>1, <1>2, <2>2 DEF route_to_card, new_reply, Card
  <2>3. CASE reply.action = "draft_reply"
    <3> DEFINE toned == [m EXCEPT !.tone = reply.tone]
    <3>1. toned.t = "object" /\ toned.reply_to = path.mail.from /\ toned.cc = m.cc
      BY <1>2
    <3>2. c = new_reply("email", reply.draft, reply.confidence, toned)
      BY <1>1, <2>3 DEF route_to_card
    <3> HIDE DEF toned, c
    <3> QED BY <3>1, <3>2 DEF new_reply, Card
  <2> QED BY <2>1, <2>2, <2>3
<1> HIDE DEF c
<1> QED BY <1>1, <1>3, CardIsQueued DEF c, m

\* A mail a rule decides on keeps the invariant of the card's path.
LEMMA RuleDecides ==
  ASSUME PathInv, ProcessByRule
  PROVE  PathInv'
<1>1. path.stage = "stored"
  BY DEF ProcessByRule
<1>2. CASE evaluate(path.mail) = "ignore"
  BY <1>2, NoCardMade DEF ProcessByRule
<1>3. CASE evaluate(path.mail) # "ignore"
  <2> DEFINE notify == [action |-> "notify"]
  <2>1. /\ path' = Queued(path, route_to_card(stored_to_inbound(path), notify))
        /\ notify.action = "notify"
    BY <1>3 DEF ProcessByRule
  <2> HIDE DEF notify
  <2> QED BY <1>1, <2>1, RoutedRight
<1> QED BY <1>2, <1>3

\* A mail the triage model decides on keeps the invariant of the card's path.
LEMMA ModelDecides ==
  ASSUME PathInv, NEW reply \in TriageReplies, ProcessByModel(reply)
  PROVE  PathInv'
<1> DEFINE action == parse_triage_response(reply)
<1>1. /\ path.stage = "stored"
      /\ path' = IF action = "error" THEN path
                 ELSE IF action = "ignore" THEN [path EXCEPT !.stage = "none"]
                 ELSE Queued(path, route_to_card(stored_to_inbound(path), reply))
  BY DEF ProcessByModel
<1>2. action = "error" \/ (action = reply.action /\ action \in TriageAction)
  BY DEF parse_triage_response
<1> HIDE DEF action
<1>3. CASE action = "error"
  <2>1. path' = path
    BY <1>1, <1>3
  <2> QED
    BY <2>1 DEF PathInv, PathShape, CardFits, MailIsKnown, AnswersItsMail, RowHoldsCard,
       DecisionIsKept, SentAsDecided, ReplyReachesEveryoneOnce, SentTextIsTheUsers
<1>4. CASE action = "ignore"
  BY <1>1, <1>4, NoCardMade
<1>5. CASE action \in {"notify", "digest", "draft_reply"}
  BY <1>1, <1>2, <1>5, RoutedRight
<1> QED BY <1>2, <1>3, <1>4, <1>5 DEF TriageAction

\* Drafting makes a card of the best draft or none, and keeps the invariant of the card's path.
LEMMA ReplyIsDrafted ==
  ASSUME PathInv, path.stage = "chat", NEW answer \in Suggestions, Draft(answer)
  PROVE  PathInv'
<1> DEFINE drafts == parse_suggestions(answer)
           best == Best(drafts)
           c == ChatCard(best)
<1>1. path' = IF ~should_draft(path.content) \/ drafts = <<>>
              THEN [path EXCEPT !.stage = "none"] ELSE Queued(path, c)
  BY DEF Draft
<1> HIDE DEF drafts, best
<1>2. /\ c.type = "reply" /\ c.recipient = NoAddr
      /\ c = Card(c.type, c.channel, c.text, c.confidence, c.meta, c.recipient, c.todo)
  BY DEF ChatCard, new_reply, Card
<1> HIDE DEF c
<1>3. path.mail = NoMail
  BY DEF PathInv, MailIsKnown
<1>4. CASE ~should_draft(path.content) \/ drafts = <<>>
  BY <1>1, <1>4, NoCardMade
<1>5. CASE ~(~should_draft(path.content) \/ drafts = <<>>)
  <2>1. path' = Queued(path, c)
    BY <1>1, <1>5
  <2> QED BY <1>2, <1>3, <2>1, CardIsQueued
<1> QED BY <1>4, <1>5

\* The card and its row when the text of a reply changes.
LEMMA CardIsRefined ==
  ASSUME PathInv, Refine
  PROVE  PathInv'
<1> DEFINE c == path.card
           new == [c EXCEPT !.text = "refined", !.confidence = 8]
           r == path.row
           row == update_card_reply(r, "refined", "pending")
<1>1. /\ path.stage = "queued" /\ c.type = "reply"
      /\ path' = [path EXCEPT !.refined = TRUE, !.card.text = "refined",
                              !.card.confidence = 8, !.row = row]
  BY DEF Refine
<1>2. path' = [stage |-> path.stage, mail |-> path.mail, content |-> path.content,
               meta |-> path.meta, card |-> new, row |-> row,
               wanted |-> path.wanted, edited |-> path.edited, refined |-> TRUE,
               restarted |-> path.restarted, out |-> path.out]
  <2> HIDE DEF row
  <2> QED BY <1>1 DEF PathInv, PathShape
<1>3. new = Card(c.type, c.channel, "refined", 8, c.meta, c.recipient, c.todo)
  <2>1. c = Card(c.type, c.channel, c.text, c.confidence, c.meta, c.recipient, c.todo)
    BY DEF PathInv, PathShape
  <2> DEFINE mid == [c EXCEPT !.text = "refined"]
  <2> HIDE DEF c
  <2>2. mid = Card(c.type, c.channel, "refined", c.confidence, c.meta, c.recipient, c.todo)
    BY <2>1 DEF Card
  <2>3. new = [mid EXCEPT !.confidence = 8]
    BY Zenon
  <2> HIDE DEF mid, new
  <2> QED BY <2>2, <2>3 DEF Card
<1> HIDE DEF new, row
<1>4. /\ new = Card(new.type, new.channel, new.text, new.confidence, new.meta,
                    new.recipient, new.todo)
      /\ new.type = "reply" /\ new.recipient = NoAddr /\ new.channel = c.channel
      /\ new.meta = c.meta /\ new.todo = c.todo /\ new.text = "refined"
  BY <1>1, <1>3 DEF Card, PathInv, CardFits
<1>5. PathShape' /\ CardFits' /\ MailIsKnown'
  <2>1. path'.card = new
    BY <1>2
  <2>2. PathShape'
    BY <1>2, <1>4, <2>1 DEF PathShape
  <2>3. CardFits'
    BY <1>4, <2>1 DEF CardFits, CardTypes
  <2>4. MailIsKnown'
    BY <1>1, <1>2 DEF PathInv, MailIsKnown
  <2> QED BY <2>2, <2>3, <2>4
<1>6. AnswersItsMail'
  <2>1. path'.card = new /\ path'.mail = path.mail
    BY <1>2
  <2> QED BY <1>1, <1>4, <2>1 DEF PathInv, AnswersItsMail
<1>7. RowHoldsCard'
  <2> SUFFICES ASSUME ~path.restarted PROVE RowHoldsCard'
    BY <1>2 DEF RowHoldsCard
  <2> DEFINE p == path.row.payload
             q == [p EXCEPT !.text = "refined"]
  <2>1. /\ r = [card_type |-> c.type, payload |-> p, status |-> r.status, todo |-> c.todo]
        /\ p = [channel |-> c.channel, text |-> c.text, confidence |-> p.confidence,
                meta |-> c.meta, recipient |-> c.recipient, added |-> p.added]
    BY <1>1 DEF PathInv, RowHoldsCard
  <2> HIDE DEF p, r, c
  <2>2. q = [channel |-> c.channel, text |-> "refined", confidence |-> p.confidence,
             meta |-> c.meta, recipient |-> c.recipient, added |-> p.added]
    BY <2>1
  <2>3. row = [r EXCEPT !.payload.text = "refined", !.status = "pending"]
    BY <1>1, <2>1 DEF row, update_card_reply
  <2>4. row = [card_type |-> c.type, payload |-> q, status |-> "pending", todo |-> c.todo]
    <3>1. r.payload = p
      BY DEF p, r
    <3>2. row = [card_type |-> r.card_type, payload |-> [r.payload EXCEPT !.text = "refined"],
                 status |-> "pending", todo |-> r.todo]
      BY <2>1, <2>3
    <3> QED BY <2>1, <3>1, <3>2
  <2> HIDE DEF q
  <2>5. row.payload = q /\ row.status = "pending"
    BY <2>4
  <2>6. q = [channel |-> c.channel, text |-> "refined", confidence |-> q.confidence,
             meta |-> c.meta, recipient |-> c.recipient, added |-> q.added]
    BY <2>2
  <2>7. path'.card = new /\ path'.row = row /\ path'.refined
    BY <1>2
  <2>8. c.recipient = NoAddr
    BY <1>1 DEF PathInv, CardFits, c
  <2> QED BY <1>1, <1>4, <2>4, <2>5, <2>6, <2>7, <2>8 DEF RowHoldsCard
<1>8. DecisionIsKept' /\ SentAsDecided'
  BY <1>1, <1>2, <1>5 DEF DecisionIsKept, SentAsDecided, ReplyReachesEveryoneOnce,
     SentTextIsTheUsers, CardFits
<1> QED BY <1>5, <1>6, <1>7, <1>8 DEF PathInv

\* What a restart makes of the card.
LEMMA CardReadBack ==
  ASSUME PathInv, Restart
  PROVE  /\ path'.card = row_to_card(path.row)
         /\ path'.card = Card(path'.card.type, path'.card.channel, path'.card.text,
                              path'.card.confidence, path'.card.meta, path'.card.recipient,
                              path'.card.todo)
         /\ path'.card.todo = path.card.todo
         /\ path.card.type = "reply" =>
               /\ path'.card.type = "reply" /\ path'.card.channel = path.card.channel
               /\ path'.card.text = path.card.text /\ path'.card.meta = path.card.meta
               /\ path'.card.recipient = NoAddr
         /\ path.card.type = "compose" =>
               /\ path'.card.type = "compose" /\ path'.card.channel = path.card.channel
               /\ path'.card.text = path.card.text /\ path'.card.meta = NoMeta
               /\ path'.card.recipient = path.card.recipient
         /\ path.card.type = "action" => path'.card.type = "action"
         /\ path.card.type = "multiple_choice" =>
               path'.card.type = "reply" /\ path'.card.channel = "" /\ path'.card.recipient = NoAddr
         /\ path.card.type \in {"reply", "compose"} /\ ~path.refined =>
               path'.card.confidence = path.card.confidence
<1> DEFINE old == path.card
           p == path.row.payload
           row == path.row
           read == CASE old.type = "reply" -> new_reply(p.channel, p.text, p.confidence, p.meta)
                     [] old.type = "compose" -> Card("compose", p.channel, p.text, p.confidence,
                                                     NoMeta, p.recipient, FALSE)
                     [] old.type = "action" -> new_action("Unknown")
                     [] OTHER -> fallback_reply_payload
           c == [read EXCEPT !.todo = row.todo]
<1>1. path'.card = row_to_card(row) /\ path.stage = "queued" /\ ~path.restarted
  BY DEF Restart, PathInv, PathShape
<1>2. /\ row = [card_type |-> old.type, payload |-> p, status |-> row.status, todo |-> old.todo]
      /\ p = [channel |-> old.channel, text |-> old.text, confidence |-> p.confidence,
              meta |-> old.meta, recipient |-> old.recipient, added |-> p.added]
      /\ ~path.refined => p.confidence = old.confidence
  BY <1>1 DEF PathInv, RowHoldsCard
<1>3. /\ old.type \in CardTypes
      /\ old.type = "reply" => old.recipient = NoAddr
  BY DEF PathInv, CardFits
<1> HIDE DEF old, row, p
<1>4. row.card_type = old.type /\ row.todo = old.todo
  BY <1>2
<1>5. /\ p.channel = old.channel /\ p.text = old.text /\ p.meta = old.meta
      /\ p.recipient = old.recipient
  BY <1>2
<1>6. row_to_card(row) = c
  BY <1>4 DEF row_to_card, p, row
<1>7. read = Card(read.type, read.channel, read.text, read.confidence, read.meta,
                  read.recipient, read.todo)
  BY <1>3 DEF CardTypes, new_reply, new_action, fallback_reply_payload, Card
<1>8. /\ old.type = "reply" => read = Card("reply", old.channel, old.text, p.confidence, old.meta,
                                           NoAddr, FALSE)
      /\ old.type = "compose" => read = Card("compose", old.channel, old.text, p.confidence,
                                             NoMeta, old.recipient, FALSE)
      /\ old.type = "action" => read = Card("action", "", "Unknown", 0, NoMeta, NoAddr, TRUE)
      /\ old.type = "multiple_choice" => read = Card("reply", "", "", 0, NoMeta, NoAddr, FALSE)
  BY <1>5 DEF new_reply, new_action, fallback_reply_payload
<1> HIDE DEF read
<1>9. c = Card(read.type, read.channel, read.text, read.confidence, read.meta, read.recipient,
               old.todo)
  BY <1>4, <1>7 DEF Card
<1> HIDE DEF c
<1>10. /\ c.type = read.type /\ c.channel = read.channel /\ c.text = read.text
       /\ c.confidence = read.confidence /\ c.meta = read.meta /\ c.recipient = read.recipient
       /\ c.todo = old.todo
  BY <1>9 DEF Card
<1>11. path'.card = c
  BY <1>1, <1>6
<1>12. c = Card(c.type, c.channel, c.text, c.confidence, c.meta, c.recipient, c.todo)
  BY <1>9, <1>10
<1>13. old.type = "reply" =>
         /\ c.type = "reply" /\ c.channel = old.channel
         /\ c.text = old.text /\ c.meta = old.meta /\ c.recipient = NoAddr
         /\ c.confidence = p.confidence
  BY <1>8, <1>10 DEF Card
<1>14. old.type = "compose" =>
         /\ c.type = "compose" /\ c.channel = old.channel
         /\ c.text = old.text /\ c.meta = NoMeta /\ c.recipient = old.recipient
         /\ c.confidence = p.confidence
  BY <1>8, <1>10 DEF Card
<1>15. /\ old.type = "action" => c.type = "action"
       /\ old.type = "multiple_choice" =>
             c.type = "reply" /\ c.channel = "" /\ c.recipient = NoAddr
  <2>1. ASSUME old.type = "action" PROVE c.type = "action"
    <3>1. read = Card("action", "", "Unknown", 0, NoMeta, NoAddr, TRUE)
      BY <1>8, <2>1
    <3> QED BY <1>10, <3>1 DEF Card
  <2>2. ASSUME old.type = "multiple_choice"
        PROVE  c.type = "reply" /\ c.channel = "" /\ c.recipient = NoAddr
    <3>1. read = Card("reply", "", "", 0, NoMeta, NoAddr, FALSE)
      BY <1>8, <2>2
    <3> QED BY <1>10, <3>1 DEF Card
  <2> QED BY <2>1, <2>2
<1> QED BY <1>1, <1>2, <1>10, <1>11, <1>12, <1>13, <1>14, <1>15 DEF old, row

\* A card that is reloaded after a restart is what the row said of it.
LEMMA CardIsReloaded ==
  ASSUME PathInv, Restart
  PROVE  PathInv'
<1> DEFINE old == path.card
           c == row_to_card(path.row)
<1>1. /\ path.stage = "queued"
      /\ path' = [path EXCEPT !.restarted = TRUE, !.card = c]
  BY DEF Restart
<1>2. path' = [stage |-> path.stage, mail |-> path.mail, content |-> path.content,
               meta |-> path.meta, card |-> c, row |-> path.row,
               wanted |-> path.wanted, edited |-> path.edited, refined |-> path.refined,
               restarted |-> TRUE, out |-> path.out]
  <2> HIDE DEF c
  <2> QED BY <1>1 DEF PathInv, PathShape
<1>3. path'.card = c
  BY <1>2
<1> HIDE DEF c
<1>4. /\ c = Card(c.type, c.channel, c.text, c.confidence, c.meta, c.recipient, c.todo)
      /\ old.type = "reply" =>
            /\ c.type = "reply" /\ c.channel = old.channel /\ c.meta = old.meta
            /\ c.recipient = NoAddr
      /\ old.type = "compose" => c.type = "compose" /\ c.meta = NoMeta
      /\ old.type = "action" => c.type = "action"
      /\ old.type = "multiple_choice" => c.type = "reply" /\ c.recipient = NoAddr
  BY <1>3, CardReadBack
<1>5. old.type \in CardTypes
  BY DEF PathInv, CardFits
<1> HIDE DEF old
<1>6. PathShape'
  BY <1>2, <1>3, <1>4 DEF PathShape
<1>7. CardFits'
  BY <1>3, <1>4, <1>5 DEF CardFits, CardTypes
<1>8. MailIsKnown'
  BY <1>1, <1>2 DEF PathInv, MailIsKnown
<1>9. AnswersItsMail'
  <2>1. path'.mail = path.mail
    BY <1>2
  <2> QED BY <1>1, <1>3, <1>4, <2>1 DEF PathInv, AnswersItsMail, old
<1>10. RowHoldsCard'
  BY <1>2 DEF RowHoldsCard
<1>11. DecisionIsKept' /\ SentAsDecided'
  BY <1>1, <1>2, <1>7 DEF DecisionIsKept, SentAsDecided, ReplyReachesEveryoneOnce,
     SentTextIsTheUsers, CardFits
<1> QED BY <1>6, <1>7, <1>8, <1>9, <1>10, <1>11 DEF PathInv

\* An approved card is decided with the text it showed.
LEMMA CardIsApproved ==
  ASSUME PathInv, ApproveCard
  PROVE  PathInv'
<1> DEFINE row == [path.row EXCEPT !.status = "approved"]
<1>1. /\ path.stage = "queued"
      /\ path' = [path EXCEPT !.stage = "decided", !.wanted = path.card.text, !.row = row]
  BY Zenon DEF ApproveCard
<1> HIDE DEF row
<1>2. path' = [stage |-> "decided", mail |-> path.mail, content |-> path.content,
               meta |-> path.meta, card |-> path.card, row |-> row,
               wanted |-> path.card.text, edited |-> path.edited, refined |-> path.refined,
               restarted |-> path.restarted, out |-> path.out]
  BY <1>1 DEF PathInv, PathShape
<1>3. PathShape' /\ CardFits'
  BY <1>2 DEF PathInv, PathShape, CardFits
<1>4. MailIsKnown' /\ AnswersItsMail'
  BY <1>1, <1>2 DEF PathInv, MailIsKnown, AnswersItsMail
<1>5. RowHoldsCard' /\ DecisionIsKept' /\ SentAsDecided'
  BY <1>2, <1>3 DEF RowHoldsCard, DecisionIsKept, SentAsDecided, ReplyReachesEveryoneOnce,
     SentTextIsTheUsers, CardFits
<1> QED BY <1>3, <1>4, <1>5 DEF PathInv

\* An edited card is decided with the text the user wrote.
LEMMA CardIsEdited ==
  ASSUME PathInv, EditCard
  PROVE  PathInv'
<1> DEFINE old == path.card
           c == [old EXCEPT !.text = IF old.type = "reply" THEN "edited" ELSE @]
           row == update_card_reply(path.row, "edited", "approved")
<1>1. /\ path.stage = "queued"
      /\ path' = [path EXCEPT !.stage = "decided", !.wanted = "edited", !.edited = TRUE,
                              !.card = c, !.row = row]
  BY Zenon DEF EditCard
<1>2. /\ c = Card(c.type, c.channel, c.text, c.confidence, c.meta, c.recipient, c.todo)
      /\ c.type = old.type /\ c.channel = old.channel /\ c.meta = old.meta
      /\ c.recipient = old.recipient
      /\ old.type = "reply" => c.text = "edited"
  <2> DEFINE text == IF old.type = "reply" THEN "edited" ELSE old.text
  <2>1. old = Card(old.type, old.channel, old.text, old.confidence, old.meta, old.recipient,
                   old.todo)
    BY DEF PathInv, PathShape
  <2>2. c = [old EXCEPT !.text = text]
    BY Zenon
  <2>3. old.type = "reply" => text = "edited"
    OBVIOUS
  <2> HIDE DEF text, old, c
  <2>4. c = Card(old.type, old.channel, text, old.confidence, old.meta, old.recipient, old.todo)
    BY <2>1, <2>2 DEF Card
  <2> QED BY <2>3, <2>4 DEF Card
<1> HIDE DEF row, c
<1>3. path' = [stage |-> "decided", mail |-> path.mail, content |-> path.content,
               meta |-> path.meta, card |-> c, row |-> row,
               wanted |-> "edited", edited |-> TRUE, refined |-> path.refined,
               restarted |-> path.restarted, out |-> path.out]
  BY <1>1 DEF PathInv, PathShape
<1>4. path'.card = c /\ path'.mail = path.mail
  BY <1>3
<1>5. PathShape'
  BY <1>2, <1>3, <1>4 DEF PathShape
<1>6. CardFits'
  BY <1>2, <1>4 DEF PathInv, CardFits
<1>7. MailIsKnown'
  BY <1>1, <1>3 DEF PathInv, MailIsKnown
<1>8. AnswersItsMail'
  BY <1>1, <1>2, <1>4 DEF PathInv, AnswersItsMail
<1>9. RowHoldsCard' /\ DecisionIsKept'
  BY <1>2, <1>3 DEF RowHoldsCard, DecisionIsKept
<1>10. SentAsDecided'
  BY <1>3, <1>6 DEF SentAsDecided, ReplyReachesEveryoneOnce, SentTextIsTheUsers, CardFits
<1> QED BY <1>5, <1>6, <1>7, <1>8, <1>9, <1>10 DEF PathInv

\* A mail that leaves has the readers and the words SentAsDecided asks for.
LEMMA CardIsSent ==
  ASSUME PathInv, SendCard
  PROVE  PathInv'
<1> DEFINE card == path.card
           went == CASE card.type = "reply" -> send_reply(card)
                     [] card.type = "compose" -> send_compose(card)
                     [] OTHER -> <<>>
           stage == IF went = <<>> THEN "unsent" ELSE "sent"
           row == [path.row EXCEPT !.status = IF went = <<>> THEN @ ELSE "sent"]
<1>1. /\ path.stage = "decided"
      /\ path' = [path EXCEPT !.stage = stage, !.row = row, !.out = went]
  BY Zenon DEF SendCard
<1> HIDE DEF row
<1>2. path' = [stage |-> stage, mail |-> path.mail, content |-> path.content,
               meta |-> path.meta, card |-> card, row |-> row,
               wanted |-> path.wanted, edited |-> path.edited, refined |-> path.refined,
               restarted |-> path.restarted, out |-> went]
  <2> HIDE DEF went, stage
  <2> QED BY <1>1 DEF PathInv, PathShape
<1>3. stage \in {"sent", "unsent"} /\ (stage = "sent" => went # <<>>)
  OBVIOUS
<1>4. card.type \in CardTypes /\ (card.text = path.wanted \/ (path.edited /\ card.type # "reply"))
  BY <1>1 DEF PathInv, CardFits, DecisionIsKept
<1>5. ASSUME went # <<>>
      PROVE  went[1].body = path.wanted \/ (path.edited /\ card.type = "compose")
  <2>1. CASE card.type = "reply"
    <3>1. went = send_reply_email(card.meta, card.text)
      BY <1>5, <2>1 DEF send_reply
    <3>2. went[1].body = card.text
      BY <1>5, <3>1 DEF send_reply_email
    <3> QED BY <1>4, <2>1, <3>2
  <2>2. CASE card.type = "compose"
    <3>1. went = send_new_email(card.recipient, card.text)
      BY <1>5, <2>2 DEF send_compose
    <3>2. went[1].body = card.text
      BY <1>5, <3>1 DEF send_new_email
    <3> QED BY <1>4, <2>2, <3>2
  <2>3. CASE card.type \notin {"reply", "compose"}
    BY <1>5, <2>3
  <2> QED BY <2>1, <2>2, <2>3
<1>6. ASSUME went # <<>>, path.mail # NoMail
      PROVE  LET to == went[1].to
                 all == <<path.mail.from>> \o path.mail.to \o path.mail.cc
             IN  /\ People(to) = People(Those(all, Parsing(all))) \ {Us}
                 /\ Len(to) = Cardinality(People(to))
                 /\ to[1] = path.mail.from
  <2> DEFINE mail == path.mail
             cc == build_reply_metadata(mail).cc
             to == <<mail.from>> \o Those(cc, Parsing(cc))
  <2>1. /\ mail \in Mails /\ lower(mail.from) # Us
        /\ card.type = "reply" /\ card.channel = "email"
        /\ card.meta.t = "object" /\ card.meta.reply_to = mail.from /\ card.meta.cc = cc
    BY <1>1, <1>6 DEF PathInv, MailIsKnown, AnswersItsMail
  <2>2. went = send_reply_email(card.meta, card.text)
    BY <2>1 DEF send_reply
  <2> HIDE DEF mail, cc, card, went
  <2>3. Parses(mail.from) /\ went = <<[to |-> to, body |-> card.text]>>
    BY <1>6, <2>1, <2>2 DEF send_reply_email
  <2>4. went[1].to = to
    BY <2>3
  <2>5. LET all == <<mail.from>> \o mail.to \o mail.cc
        IN  /\ People(to) = People(Those(all, Parsing(all))) \ {Us}
            /\ Len(to) = Cardinality(People(to))
            /\ to[1] = mail.from
    BY <2>1, <2>3, ReplyReaders DEF cc
  <2> QED BY <2>4, <2>5 DEF mail
<1> HIDE DEF went, stage
<1>7. PathShape' /\ CardFits'
  BY <1>2 DEF PathInv, PathShape, CardFits
<1>8. /\ path'.stage = stage /\ path'.mail = path.mail /\ path'.card = card /\ path'.out = went
      /\ path'.wanted = path.wanted /\ path'.edited = path.edited
  BY <1>2
<1>9. MailIsKnown'
  BY <1>3, <1>8 DEF PathInv, MailIsKnown
<1>10. AnswersItsMail' /\ RowHoldsCard' /\ DecisionIsKept'
  BY <1>3, <1>8 DEF AnswersItsMail, RowHoldsCard, DecisionIsKept
<1>11. ReplyReachesEveryoneOnce'
  BY <1>3, <1>6, <1>8 DEF ReplyReachesEveryoneOnce
<1>12. SentTextIsTheUsers'
  BY <1>3, <1>5, <1>8 DEF SentTextIsTheUsers
<1>13. SentAsDecided'
  BY <1>7, <1>11, <1>12 DEF SentAsDecided, CardFits
<1> QED BY <1>7, <1>9, <1>10, <1>13 DEF PathInv

\* What a card is made of, its row and the user's decision fit together.
THEOREM PathInvariant == PathSpec => []PathInv
<1>1. PathInit => PathInv
  BY CardStarts
<1>2. ASSUME PathInv, [PathNext]_path PROVE PathInv'
  <2>1. CASE Poll
    BY <1>2, <2>1, MailIsPolled
  <2>2. CASE ProcessByRule
    BY <1>2, <2>2, RuleDecides
  <2>3. ASSUME NEW reply \in TriageReplies, ProcessByModel(reply) PROVE PathInv'
    BY <1>2, <2>3, ModelDecides
  <2>4. ASSUME path.stage = "chat", NEW answer \in Suggestions, Draft(answer) PROVE PathInv'
    BY <1>2, <2>4, ReplyIsDrafted
  <2>5. CASE Refine
    BY <1>2, <2>5, CardIsRefined
  <2>6. CASE Restart
    BY <1>2, <2>6, CardIsReloaded
  <2>7. CASE ApproveCard
    BY <1>2, <2>7, CardIsApproved
  <2>8. CASE EditCard
    BY <1>2, <2>8, CardIsEdited
  <2>9. CASE SendCard
    BY <1>2, <2>9, CardIsSent
  <2>10. CASE UNCHANGED path
    BY <1>2, <2>10 DEF PathInv, PathShape, CardFits, MailIsKnown, AnswersItsMail, RowHoldsCard,
       DecisionIsKept, SentAsDecided, ReplyReachesEveryoneOnce, SentTextIsTheUsers
  <2> QED
    BY <1>2, <2>1, <2>2, <2>3, <2>4, <2>5, <2>6, <2>7, <2>8, <2>9, <2>10 DEF PathNext
<1> QED BY <1>1, <1>2, PTL DEF PathSpec

\* CardKeepsContents for all mails, lists of addresses, spellings, model
\* answers and tool cards: a reply that leaves reaches each person of the
\* mail once, with the user's words, and a restart keeps what it should.
THEOREM ContentsAreKept == PathSpec => CardKeepsContents
<1>1. ASSUME PathInv, PathInv', [PathNext]_path
      PROVE  [SentAsDecided' /\ ReloadKeepsContents]_path
  <2> SUFFICES ASSUME PathNext PROVE ReloadKeepsContents
    BY <1>1 DEF PathInv
  <2>0. PathNext
    OBVIOUS
  <2>1. CASE Restart
    <3> DEFINE old == path.card
               new == path'.card
               kept == [old EXCEPT !.confidence = IF path.refined THEN new.confidence ELSE @]
    <3>1. old = Card(old.type, old.channel, old.text, old.confidence, old.meta, old.recipient,
                     old.todo)
      BY <1>1 DEF PathInv, PathShape
    <3>2. new = Card(new.type, new.channel, new.text, new.confidence, new.meta, new.recipient,
                     new.todo)
      BY <1>1 DEF PathInv, PathShape
    <3>3. old.type \in CardTypes
      BY <1>1 DEF PathInv, CardFits
    <3>4. CASE old.type \in {"reply", "compose"}
      <4>1. /\ new.type = old.type /\ new.channel = old.channel /\ new.text = old.text
            /\ new.meta = old.meta /\ new.recipient = old.recipient /\ new.todo = old.todo
            /\ ~path.refined => new.confidence = old.confidence
        <5>1. /\ old.type = "reply" => old.recipient = NoAddr
              /\ old.type = "compose" => old.meta = NoMeta
          BY <1>1 DEF PathInv, CardFits
        <5> QED BY <1>1, <2>1, <3>4, <5>1, CardReadBack
      <4> DEFINE confidence == IF path.refined THEN new.confidence ELSE old.confidence
      <4>2. kept = [old EXCEPT !.confidence = confidence]
        BY Zenon
      <4>3. confidence = new.confidence
        BY <4>1
      <4> HIDE DEF kept, old, new, confidence
      <4>4. new = kept
        BY <3>1, <3>2, <4>1, <4>2, <4>3 DEF Card
      <4> QED BY <3>4, <4>4 DEF ReloadKeepsContents, kept, old, new
    <3>5. CASE old.type = "action"
      BY <1>1, <2>1, <3>5, CardReadBack DEF ReloadKeepsContents
    <3>6. CASE old.type = "multiple_choice"
      <4>1. new.type = "reply" /\ new.channel = ""
        BY <1>1, <2>1, <3>6, CardReadBack
      <4> QED BY <3>6, <4>1 DEF ReloadKeepsContents, send_reply
    <3> QED BY <3>3, <3>4, <3>5, <3>6 DEF CardTypes
  <2>2. CASE Refine
    <3>1. path'.restarted = path.restarted
      BY <1>1, <2>2 DEF Refine, PathInv, PathShape
    <3> QED BY <3>1 DEF ReloadKeepsContents
  <2>3. CASE ApproveCard \/ EditCard
    <3>1. path'.stage = "decided"
      BY <1>1, <2>3 DEF ApproveCard, EditCard, PathInv, PathShape
    <3> QED BY <3>1 DEF ReloadKeepsContents
  <2>4. CASE path.stage # "queued"
    BY <2>4 DEF ReloadKeepsContents
  <2>5. path.stage # "queued" \/ Restart \/ Refine \/ ApproveCard \/ EditCard
    BY <2>0 DEF PathNext, Poll, ProcessByRule, SendCard
  <2> QED BY <2>1, <2>2, <2>3, <2>4, <2>5
<1> QED BY <1>1, PathInvariant, PTL DEF PathSpec, CardKeepsContents

-----------------------------------------------------------------------------
(* What a phone sees of agents at work (ActivityFeed).  The invariant says *)
(* of each run, from its record and the events sent so far, what the feed  *)
(* has told of it; of each event, that it is saved, being saved or lost;   *)
(* of the socket, that it accounts for every event it has passed; and of   *)
(* the logs, that nothing newer than the newest MAX_LOG_FILES is removed.  *)

FeedPcs == {"none", "started", "loop", "call", "running", "returned", "asking", "waiting",
            "ending", "closing", "ended", "dead"}
LogLevels == {"User", "System", "LlmError", "Failed", "Response", "ToolStart", "ToolEnd",
              "ToolResult"}
FeedRun ==
  [pc : FeedPcs, started_at : Nat, left : Int, used : Nat,
   pending_tool_completed : {NoEvent} \cup FeedEvent, responded : BOOLEAN,
   entries : Seq(LogLevels), answer : {"none", "approved", "rejected"}, announced : BOOLEAN,
   early : BOOLEAN, ran : Seq(Nat \X BOOLEAN)]

FeedTypes ==
  /\ sent \in Seq(FeedEvent)
  /\ saving \subseteq DOMAIN sent /\ lost \subseteq DOMAIN sent
  /\ rows \in Seq(DOMAIN sent)
  /\ DOMAIN agent \subseteq FeedAgents /\ agent \in [DOMAIN agent -> FeedRun]

\* Only these two are broadcast and not saved.
Bare(e) == e.type \in {"started", "approval_resolved"}

\* Each event that should be saved is, is about to be, or was lost; none is saved twice.
EventsAreSaved ==
  /\ \A i \in DOMAIN sent : \/ Bare(sent[i]) \/ i \in saving \cup lost
                            \/ \E k \in DOMAIN rows : rows[k] = i
  /\ \A k \in DOMAIN rows : rows[k] \notin saving
  /\ \A k, l \in DOMAIN rows : k # l => rows[k] # rows[l]

\* The event is shown, or there is a reason why not.
Accounted(i) ==
  \/ \E k \in DOMAIN sock.seen : sock.seen[k] = i
  \/ i <= sock.at /\ Bare(sent[i])
  \/ i \in sock.racing \cup lost \cup sock.missed

SockFollows ==
  /\ sock = [phase |-> sock.phase, seen |-> sock.seen, at |-> sock.at, pos |-> sock.pos,
             racing |-> sock.racing, missed |-> sock.missed]
  /\ sock.phase \in {"replay", "live"} =>
        /\ sock.seen \in Seq(DOMAIN sent)
        /\ sock.at \in 0 .. Len(sent)
        /\ \A k, l \in DOMAIN sock.seen : k # l => sock.seen[k] # sock.seen[l]
  /\ sock.phase = "replay" =>
        /\ \A k \in DOMAIN sock.seen : sock.seen[k] <= sock.at
        /\ \A i \in 1 .. sock.at : sent[i].todo = Watched => Accounted(i)
  /\ sock.phase = "live" =>
        /\ sock.pos \in sock.at .. Len(sent)
        /\ \A k \in DOMAIN sock.seen : sock.seen[k] <= sock.pos
        /\ \A k, l \in DOMAIN sock.seen :
              k < l /\ sock.seen[k] > sock.at => sock.seen[k] < sock.seen[l]
        /\ \A i \in 1 .. sock.pos : sent[i].todo = Watched => Accounted(i)

\* A run's feed begins with started.
FeedBegins(s, a, r) ==
  IF r.pc = "none" THEN r.announced /\ OfJob(s, a) = {}
  ELSE r.started_at \in Place(s, a, "started") /\ \A i \in OfJob(s, a) : r.started_at <= i

OpenPcs == {"none", "started", "loop", "call", "running", "returned", "asking", "waiting"}

\* It ends once, and after shutdown with what the run came to.
FeedEnds(s, a, r) ==
  /\ r.pc \in OpenPcs \/ (r.pc = "ending" /\ ~r.responded) => End(s, a) = {}
  /\ r.pc = "closing" /\ ~r.responded => \A i \in End(s, a) : s[i].type = "failed"
  /\ \A i, j \in End(s, a) : i = j
  /\ \A i \in End(s, a), j \in OfJob(s, a) : i < j => MayFollow(s[j], s[i])

Count(s, a, type) == Cardinality(Place(s, a, type))
One(b) == IF b THEN 1 ELSE 0

\* Answers that are not announced, and those that are awaited.
Owed(r) == One(~r.announced) + One(r.pc = "waiting" /\ r.answer = "none")

\* Every answer the run has had, announced or not, was asked for.
AnswersAsked(s, a, r) ==
  ~r.early =>
    /\ Count(s, a, "approval_needed") >= Count(s, a, "approval_resolved") + Owed(r)
    /\ \A j \in Place(s, a, "approval_resolved") :
          Cardinality({i \in Place(s, a, "approval_needed") : i < j})
            >= Cardinality({i \in Place(s, a, "approval_resolved") : i <= j})

ToldTools(s, a) ==
  LET tools == ToolEvents(s, a) IN [i \in DOMAIN tools |-> <<tools[i].tool, tools[i].ok>>]

PendingPair(e) == IF e = NoEvent THEN <<>> ELSE <<<<e.tool, e.ok>>>>

\* What the feed tells of the tools, with the event still held, is what ran.
ToolsAreTold(s, a, r) ==
  LET held == r.pending_tool_completed
  IN  /\ held # NoEvent => /\ r.pc \in {"returned", "call", "loop", "ending", "dead"}
                           /\ held.type = "tool_completed" /\ held.job = a /\ ~held.text
      /\ ToldTools(s, a) \o PendingPair(held) = r.ran

Ends(entries) == {k \in DOMAIN entries : entries[k] = "ToolEnd"}

ScriptTells(s, a, r) ==
  /\ Cardinality(Ends(r.entries)) = Len(r.ran)
  /\ r.pc \notin {"ended", "dead"} => Place(s, a, "transcript") = {}
  /\ r.pc = "ended" =>
        \A i \in Place(s, a, "transcript") :
          Cardinality({k \in DOMAIN s[i].messages : s[i].messages[k] = "tool_end"}) = Len(r.ran)

RunTold(s, a, r) ==
  /\ FeedBegins(s, a, r) /\ FeedEnds(s, a, r) /\ AnswersAsked(s, a, r)
  /\ ToolsAreTold(s, a, r) /\ ScriptTells(s, a, r)

\* Whatever is removed or about to be is not among the newest written.
LogsKept ==
  /\ logs = [files |-> logs.files, written |-> logs.written, spawned |-> logs.spawned,
             deleting |-> logs.deleting]
  /\ logs.written \in SUBSET Nat /\ IsFiniteSet(logs.written)
  /\ logs.files \subseteq logs.written
  /\ \A names \in logs.deleting : names \subseteq ToDelete(logs.written)
  /\ NewestLogsKept

FeedInv ==
  /\ FeedTypes /\ EventsAreSaved /\ SockFollows /\ LogsKept
  /\ \A a \in DOMAIN agent : RunTold(sent, a, agent[a])

-----------------------------------------------------------------------------

\* Events that are added leave those there were in their places.
LEMMA EventsAreAdded ==
  ASSUME NEW s \in Seq(FeedEvent), NEW events \in Seq(FeedEvent)
  PROVE  /\ s \o events \in Seq(FeedEvent)
         /\ DOMAIN (s \o events) = 1 .. Len(s) + Len(events)
         /\ Len(s) \in Nat /\ Len(events) \in Nat /\ DOMAIN s = 1 .. Len(s)
         /\ \A i \in DOMAIN s : i \in DOMAIN (s \o events) /\ (s \o events)[i] = s[i]
         /\ \A i \in DOMAIN (s \o events) : i \in DOMAIN s \/ i - Len(s) \in DOMAIN events
         /\ \A k \in DOMAIN events : /\ Len(s) + k \in DOMAIN (s \o events)
                                     /\ (s \o events)[Len(s) + k] = events[k]
<1> DEFINE m == Len(s)
           n == Len(events)
           se == s \o events
<1>1. m \in Nat /\ n \in Nat /\ DOMAIN s = 1 .. m /\ DOMAIN events = 1 .. n
  OBVIOUS
<1>2. /\ se \in Seq(FeedEvent) /\ Len(se) = m + n
      /\ \A i \in 1 .. m + n : se[i] = IF i <= m THEN s[i] ELSE events[i - m]
  BY ConcatProperties
<1>3. DOMAIN se = 1 .. m + n
  BY <1>2
<1> HIDE DEF m, n, se
<1>4. \A i \in 1 .. m : i \in 1 .. m + n /\ se[i] = s[i]
  BY <1>1, <1>2
<1>5. \A i \in 1 .. m + n : i \in 1 .. m \/ i - m \in 1 .. n
  BY <1>1
<1>6. \A k \in 1 .. n : m + k \in 1 .. m + n /\ se[m + k] = events[k]
  <2>1. ASSUME NEW k \in 1 .. n PROVE m + k \in 1 .. m + n /\ ~(m + k <= m) /\ (m + k) - m = k
    BY <1>1
  <2> QED BY <1>2, <2>1
<1> QED BY <1>1, <1>2, <1>3, <1>4, <1>5, <1>6 DEF m, n, se

\* What the phone was shown stays accounted for when events are added.
LEMMA SockWaits ==
  ASSUME FeedTypes, SockFollows, NEW events \in Seq(FeedEvent), sent' = sent \o events,
         sock' = sock, lost \subseteq lost'
  PROVE  SockFollows'
<1>1. /\ sent' \in Seq(FeedEvent) /\ DOMAIN sent' = 1 .. Len(sent') /\ DOMAIN sent = 1 .. Len(sent)
      /\ Len(sent) \in Nat /\ Len(sent') \in Nat /\ Len(sent) <= Len(sent')
      /\ \A i \in DOMAIN sent : i \in DOMAIN sent' /\ sent'[i] = sent[i]
  <2>1. sent \in Seq(FeedEvent)
    BY DEF FeedTypes
  <2>2. /\ sent \o events \in Seq(FeedEvent)
        /\ DOMAIN (sent \o events) = 1 .. Len(sent) + Len(events)
        /\ Len(sent) \in Nat /\ Len(events) \in Nat /\ DOMAIN sent = 1 .. Len(sent)
        /\ \A i \in DOMAIN sent : i \in DOMAIN (sent \o events) /\ (sent \o events)[i] = sent[i]
    BY <2>1, EventsAreAdded
  <2>3. Len(sent') = Len(sent) + Len(events)
    BY <2>1, ConcatProperties
  <2> QED BY <2>2, <2>3
<1>2. \A i \in DOMAIN sent : Accounted(i) => Accounted(i)'
  BY <1>1 DEF Accounted, Bare
<1>3. /\ sock.phase \in {"replay", "live"} =>
            sock.seen \in Seq(DOMAIN sent) /\ sock.at \in 0 .. Len(sent)
      /\ sock.phase = "live" => sock.pos \in sock.at .. Len(sent)
  BY DEF SockFollows
<1>4. sock.phase \in {"replay", "live"} => sock.seen \in Seq(DOMAIN sent')
  <2>1. DOMAIN sent \subseteq DOMAIN sent'
    BY <1>1
  <2> QED BY <1>3, <2>1
<1>5. sock.phase \in {"replay", "live"} =>
        /\ \A i \in 1 .. sock.at : i \in DOMAIN sent /\ sent'[i] = sent[i]
        /\ sock.at \in 0 .. Len(sent')
  BY <1>1, <1>3
<1>6. sock.phase = "live" => /\ \A i \in 1 .. sock.pos : i \in DOMAIN sent /\ sent'[i] = sent[i]
                             /\ sock.pos \in sock.at .. Len(sent')
  BY <1>1, <1>3
<1> QED BY <1>2, <1>4, <1>5, <1>6 DEF SockFollows

\* Events that go to the channel and to save tasks of their own.
LEMMA EventsAreKept ==
  ASSUME FeedTypes, EventsAreSaved, NEW events \in Seq(FeedEvent),
         sent' = sent \o events, UNCHANGED <<rows, lost>>,
         \/ saving' = saving \cup (Len(sent) + 1 .. Len(sent) + Len(events))
         \/ saving' = saving /\ \A k \in DOMAIN events : Bare(events[k])
  PROVE  /\ EventsAreSaved'
         /\ sent' \in Seq(FeedEvent) /\ rows' \in Seq(DOMAIN sent')
         /\ saving' \subseteq DOMAIN sent' /\ lost' \subseteq DOMAIN sent'
<1> DEFINE m == Len(sent)
           n == Len(events)
<1>0. \/ saving' = saving \cup (m + 1 .. m + n)
      \/ saving' = saving /\ \A k \in DOMAIN events : Bare(events[k])
  OBVIOUS
<1>1. /\ sent' \in Seq(FeedEvent) /\ DOMAIN sent' = 1 .. m + n
      /\ m \in Nat /\ n \in Nat /\ DOMAIN sent = 1 .. m
      /\ \A i \in DOMAIN sent : i \in DOMAIN sent' /\ sent'[i] = sent[i]
      /\ \A i \in DOMAIN sent' : i \in DOMAIN sent \/ i - m \in DOMAIN events
      /\ \A k \in DOMAIN events : m + k \in DOMAIN sent' /\ sent'[m + k] = events[k]
  <2>1. sent \in Seq(FeedEvent)
    BY DEF FeedTypes
  <2> QED BY <2>1, EventsAreAdded
<1>2. DOMAIN events = 1 .. n
  OBVIOUS
<1>3. /\ saving \subseteq DOMAIN sent /\ lost \subseteq DOMAIN sent /\ rows \in Seq(DOMAIN sent)
      /\ \A k \in DOMAIN rows : rows[k] \in DOMAIN sent
  BY ElementOfSeq DEF FeedTypes
<1> HIDE DEF m, n
<1>4. rows' \in Seq(DOMAIN sent')
  <2>1. DOMAIN sent \subseteq DOMAIN sent'
    BY <1>1
  <2> QED BY <1>3, <2>1
<1>5. \/ saving' = saving \cup (m + 1 .. m + n)
      \/ saving' = saving /\ \A k \in DOMAIN events : Bare(events[k])
  BY <1>0
<1>6. saving' \subseteq DOMAIN sent' /\ saving \subseteq saving'
  BY <1>1, <1>3, <1>5
<1>7. ASSUME NEW i \in DOMAIN sent'
      PROVE  Bare(sent'[i]) \/ i \in saving' \cup lost' \/ \E k \in DOMAIN rows' : rows'[k] = i
  <2>1. CASE i \in DOMAIN sent
    BY <1>1, <1>6, <2>1 DEF EventsAreSaved
  <2>2. CASE i - m \in DOMAIN events
    <3>1. i \in m + 1 .. m + n /\ sent'[i] = events[i - m]
      BY <1>1, <1>2, <2>2
    <3> QED BY <1>5, <2>2, <3>1
  <2> QED BY <1>1, <2>1, <2>2
<1>8. \A k \in DOMAIN rows' : rows'[k] \notin saving'
  BY <1>1, <1>3, <1>5 DEF EventsAreSaved
<1> QED BY <1>1, <1>3, <1>4, <1>6, <1>7, <1>8 DEF EventsAreSaved

-----------------------------------------------------------------------------
(* Steps of the save tasks and of the socket.                              *)

LEMMA FeedSaves ==
  ASSUME FeedTypes, EventsAreSaved, NEW i \in saving, NEW ok \in BOOLEAN, save_job_action(i, ok)
  PROVE  FeedTypes' /\ EventsAreSaved' /\ lost \subseteq lost'
<1>1. /\ i \in saving /\ saving' = saving \ {i}
      /\ IF ok THEN rows' = Append(rows, i) /\ lost' = lost
               ELSE lost' = lost \cup {i} /\ rows' = rows
      /\ UNCHANGED <<agent, sent>>
  BY DEF save_job_action
<1>2. saving \subseteq DOMAIN sent /\ rows \in Seq(DOMAIN sent) /\ i \in DOMAIN sent
  BY DEF FeedTypes
<1>3. CASE ok
  <2> DEFINE n == Len(rows)
             new == Append(rows, i)
  <2>1. n \in Nat /\ DOMAIN rows = 1 .. n
    BY <1>2
  <2>2. /\ new \in Seq(DOMAIN sent) /\ DOMAIN new = 1 .. n + 1 /\ new[n + 1] = i
        /\ \A k \in 1 .. n : new[k] = rows[k]
    BY <1>2
  <2> HIDE DEF n, new
  <2>3. rows' = new /\ lost' = lost /\ sent' = sent
    BY <1>1, <1>3 DEF new
  <2>4. FeedTypes'
    BY <1>1, <2>2, <2>3 DEF FeedTypes
  <2>5. \A k \in 1 .. n : rows[k] # i
    BY <2>1 DEF EventsAreSaved
  <2>6. ASSUME NEW j \in DOMAIN sent
        PROVE  Bare(sent[j]) \/ j \in saving' \cup lost \/ \E k \in DOMAIN new : new[k] = j
    <3>1. CASE j = i
      BY <2>1, <2>2, <3>1
    <3>2. CASE \E k \in DOMAIN rows : rows[k] = j
      <4>1. PICK k \in 1 .. n : rows[k] = j
        BY <2>1, <3>2
      <4>2. k \in DOMAIN new /\ new[k] = j
        BY <2>1, <2>2, <4>1
      <4> QED BY <4>2
    <3> QED BY <1>1, <3>1, <3>2 DEF EventsAreSaved
  <2>7. \A k \in DOMAIN new : new[k] \notin saving'
    <3>1. ASSUME NEW k \in 1 .. n + 1 PROVE new[k] \notin saving'
      <4>1. CASE k = n + 1
        BY <1>1, <2>2, <4>1
      <4>2. CASE k \in 1 .. n
        BY <1>1, <2>1, <2>2, <4>2 DEF EventsAreSaved
      <4> QED BY <2>1, <4>1, <4>2
    <3> QED BY <2>2, <3>1
  <2>8. \A k, l \in DOMAIN new : k # l => new[k] # new[l]
    <3>1. ASSUME NEW k \in 1 .. n + 1, NEW l \in 1 .. n + 1, k # l PROVE new[k] # new[l]
      <4>1. CASE k \in 1 .. n /\ l \in 1 .. n
        BY <2>1, <2>2, <3>1, <4>1 DEF EventsAreSaved
      <4>2. CASE k = n + 1 \/ l = n + 1
        BY <2>1, <2>2, <2>5, <3>1, <4>2
      <4> QED BY <2>1, <4>1, <4>2
    <3> QED BY <2>2, <3>1
  <2> QED BY <2>3, <2>4, <2>6, <2>7, <2>8 DEF EventsAreSaved, Bare
<1>4. CASE ~ok
  <2>1. lost' = lost \cup {i} /\ rows' = rows /\ sent' = sent /\ agent' = agent
    BY <1>1, <1>4
  <2>2. FeedTypes'
    BY <1>1, <1>2, <2>1 DEF FeedTypes
  <2>3. EventsAreSaved'
    BY <1>1, <2>1 DEF EventsAreSaved, Bare
  <2> QED BY <2>1, <2>2, <2>3
<1> QED BY <1>3, <1>4

\* The history that a connection replays.
LEMMA HistoryReplayed ==
  ASSUME FeedTypes, EventsAreSaved
  PROVE  LET seen == get_activity_for_todo(Watched) IN
         /\ seen \in Seq(DOMAIN sent)
         /\ \A k, l \in DOMAIN seen : k # l => seen[k] # seen[l]
         /\ \A i \in DOMAIN sent : sent[i].todo = Watched =>
               Bare(sent[i]) \/ i \in saving \cup lost \/ \E k \in DOMAIN seen : seen[k] = i
<1> DEFINE D == DOMAIN sent
           T == {i \in D : sent[i].todo = Watched}
           seen == Sift(rows, T)
<1>1. /\ rows \in Seq(D) /\ \A k, l \in DOMAIN rows : k # l => rows[k] # rows[l]
      /\ \A i \in D : Bare(sent[i]) \/ i \in saving \cup lost \/ \E k \in DOMAIN rows : rows[k] = i
  BY DEF FeedTypes, EventsAreSaved
<1>2. \A i \in T : i \in D
  OBVIOUS
<1>3. \A i \in D : sent[i].todo = Watched => i \in T
  OBVIOUS
<1>4. get_activity_for_todo(Watched) = seen
  BY DEF get_activity_for_todo
<1> HIDE DEF T, D
<1>5. seen \in Seq(D \cap T)
  BY <1>1, SiftType
<1>6. /\ {seen[k] : k \in DOMAIN seen} = {rows[j] : j \in DOMAIN rows} \cap T
      /\ \A i, j \in DOMAIN seen : i # j => seen[i] # seen[j]
  BY ONLY <1>1, SiftMembers
<1> HIDE DEF seen
<1>7. seen \in Seq(D)
  BY <1>5
<1>8. ASSUME NEW i \in D, sent[i].todo = Watched
      PROVE  Bare(sent[i]) \/ i \in saving \cup lost \/ \E k \in DOMAIN seen : seen[k] = i
  <2>1. CASE \E k \in DOMAIN rows : rows[k] = i
    <3>1. i \in {seen[k] : k \in DOMAIN seen}
      BY <1>3, <1>6, <1>8, <2>1
    <3> QED BY <3>1
  <2> QED BY <1>1, <2>1
<1> QED BY <1>4, <1>6, <1>7, <1>8 DEF D

\* A new socket begins its replay with nothing seen; the receiver it replaces is gone.
LEMMA SockConnects ==
  ASSUME FeedTypes, EventsAreSaved, SockFollows, NEW ok \in BOOLEAN, Connect(ok)
  PROVE  SockFollows' /\ FeedTypes' /\ EventsAreSaved' /\ lost \subseteq lost'
<1> DEFINE history == get_activity_for_todo(Watched)
           seen == IF ok THEN history ELSE <<>>
<1>1. /\ sock' = [NoSock EXCEPT !.phase = "replay", !.seen = seen, !.at = Len(sent),
                                !.racing = saving]
      /\ lost' = IF ok THEN lost ELSE lost \cup {rows[i] : i \in 1 .. Len(rows)}
      /\ UNCHANGED <<agent, sent, saving, rows, logs>>
  BY DEF Connect
<1>2. /\ history \in Seq(DOMAIN sent)
      /\ \A k, l \in DOMAIN history : k # l => history[k] # history[l]
      /\ \A i \in DOMAIN sent : sent[i].todo = Watched =>
            Bare(sent[i]) \/ i \in saving \cup lost \/ \E k \in DOMAIN history : history[k] = i
  BY HistoryReplayed
<1> HIDE DEF history
<1>3. /\ sent \in Seq(FeedEvent) /\ DOMAIN sent = 1 .. Len(sent) /\ Len(sent) \in Nat
      /\ rows \in Seq(DOMAIN sent) /\ DOMAIN rows = 1 .. Len(rows)
      /\ \A k \in DOMAIN rows : rows[k] \in DOMAIN sent
  BY ElementOfSeq DEF FeedTypes
<1>4. FeedTypes'
  BY <1>1, <1>3 DEF FeedTypes
<1>5. EventsAreSaved' /\ lost \subseteq lost'
  BY <1>1 DEF EventsAreSaved, Bare
<1>6. /\ seen \in Seq(DOMAIN sent)
      /\ \A k, l \in DOMAIN seen : k # l => seen[k] # seen[l]
      /\ \A k \in DOMAIN seen : seen[k] \in DOMAIN sent
  <2>1. CASE ok
    <3>1. seen = history
      BY <2>1
    <3> HIDE DEF seen
    <3> QED BY <1>2, <3>1, ElementOfSeq
  <2>2. CASE ~ok
    <3>1. seen = <<>>
      BY <2>2
    <3> HIDE DEF seen
    <3>2. seen \in Seq(DOMAIN sent) /\ DOMAIN seen = {}
      BY <3>1
    <3> QED BY <3>2
  <2> QED BY <2>1, <2>2
<1>7. \A i \in DOMAIN sent : sent[i].todo = Watched =>
          Bare(sent[i]) \/ i \in saving \cup lost' \/ \E k \in DOMAIN seen : seen[k] = i
  <2>1. CASE ok
    BY <1>1, <1>2, <2>1
  <2>2. CASE ~ok
    <3>1. ASSUME NEW i \in DOMAIN sent PROVE Bare(sent[i]) \/ i \in saving \cup lost'
      BY <1>1, <1>3, <2>2 DEF EventsAreSaved
    <3> QED BY <3>1
  <2> QED BY <2>1, <2>2
<1> HIDE DEF seen
<1>8. sock' = [phase |-> "replay", seen |-> seen, at |-> Len(sent), pos |-> 0,
               racing |-> saving, missed |-> {}]
  BY <1>1 DEF NoSock
<1>9. /\ sock'.phase = "replay" /\ sock'.seen = seen /\ sock'.at = Len(sent)
      /\ sock'.racing = saving /\ sent' = sent
  BY <1>1, <1>8
<1>10. \A i \in 1 .. sock'.at : sent'[i].todo = Watched => Accounted(i)'
  BY <1>3, <1>7, <1>9 DEF Accounted, Bare
<1>11. \A k \in DOMAIN sock'.seen : sock'.seen[k] <= sock'.at
  BY <1>3, <1>6, <1>9
<1>12. sock' = [phase |-> sock'.phase, seen |-> sock'.seen, at |-> sock'.at, pos |-> sock'.pos,
                racing |-> sock'.racing, missed |-> sock'.missed]
  BY <1>8
<1>13. sock'.seen \in Seq(DOMAIN sent') /\ sock'.at \in 0 .. Len(sent')
  BY <1>3, <1>6, <1>9
<1> QED BY <1>4, <1>5, <1>6, <1>9, <1>10, <1>11, <1>12, <1>13 DEF SockFollows

\* Subscribing after the replay leaves unaccounted only the events sent in between, which
\* are racing.
LEMMA SockSubscribes ==
  ASSUME FeedTypes, SockFollows, Subscribe
  PROVE  SockFollows'
<1> DEFINE n == Len(sent)
<1>1. /\ sock.phase = "replay"
      /\ sock' = [phase |-> "live", seen |-> sock.seen, at |-> n, pos |-> n,
                  racing |-> sock.racing \cup (sock.at + 1 .. n), missed |-> sock.missed]
      /\ UNCHANGED <<sent, lost>>
  BY DEF Subscribe, SockFollows
<1>2. n \in Nat /\ DOMAIN sent = 1 .. n
  BY DEF FeedTypes
<1>3. /\ sock.seen \in Seq(DOMAIN sent) /\ sock.at \in 0 .. n
      /\ \A k, l \in DOMAIN sock.seen : k # l => sock.seen[k] # sock.seen[l]
      /\ \A k \in DOMAIN sock.seen : sock.seen[k] <= sock.at
      /\ \A i \in 1 .. sock.at : sent[i].todo = Watched => Accounted(i)
  BY <1>1 DEF SockFollows
<1> HIDE DEF n
<1>4. /\ sock'.phase = "live" /\ sock'.seen = sock.seen /\ sock'.at = n /\ sock'.pos = n
      /\ sock'.racing = sock.racing \cup (sock.at + 1 .. n) /\ sock'.missed = sock.missed
      /\ sent' = sent /\ lost' = lost
  BY <1>1
<1>5. \A k \in DOMAIN sock.seen : sock.seen[k] \in DOMAIN sent
  BY <1>3, ElementOfSeq
<1>6. \A k \in DOMAIN sock.seen : sock.seen[k] <= n /\ ~(sock.seen[k] > n)
  BY <1>2, <1>5
<1>7. ASSUME NEW i \in 1 .. n, sent[i].todo = Watched PROVE Accounted(i)'
  <2>1. CASE i \in 1 .. sock.at
    <3>1. Accounted(i)
      BY <1>3, <1>7, <2>1
    <3>2. i <= sock'.at
      BY <1>2, <1>4
    <3>3. CASE \E k \in DOMAIN sock.seen : sock.seen[k] = i
      BY <1>4, <3>3 DEF Accounted
    <3>4. CASE Bare(sent[i])
      BY <1>4, <3>2, <3>4 DEF Accounted, Bare
    <3>5. CASE i \in sock.racing \cup lost \cup sock.missed
      BY <1>4, <3>5 DEF Accounted
    <3> QED BY <3>1, <3>3, <3>4, <3>5 DEF Accounted
  <2>2. CASE i \in sock.at + 1 .. n
    BY <1>4, <2>2 DEF Accounted
  <2> QED BY <1>2, <1>3, <2>1, <2>2
<1>8. Len(sent') = n
  BY <1>4 DEF n
<1> QED BY <1>1, <1>2, <1>3, <1>4, <1>6, <1>7, <1>8 DEF SockFollows

\* Passing on the next broadcast event accounts for it.
LEMMA SockReceives ==
  ASSUME FeedTypes, SockFollows, Receive
  PROVE  SockFollows'
<1> DEFINE n == Len(sent)
           p == sock.pos + 1
           seen == IF relevant(sent[p]) THEN Append(sock.seen, p) ELSE sock.seen
<1>1. /\ sock.phase = "live" /\ sock.pos < n
      /\ sock' = [phase |-> "live", seen |-> seen, at |-> sock.at, pos |-> p,
                  racing |-> sock.racing, missed |-> sock.missed]
      /\ UNCHANGED <<sent, lost>>
  BY DEF Receive, SockFollows
<1>2. n \in Nat /\ DOMAIN sent = 1 .. n
  BY DEF FeedTypes
<1>3. /\ sock.seen \in Seq(DOMAIN sent) /\ sock.at \in 0 .. n /\ sock.pos \in sock.at .. n
      /\ \A k, l \in DOMAIN sock.seen : k # l => sock.seen[k] # sock.seen[l]
      /\ \A k \in DOMAIN sock.seen : sock.seen[k] <= sock.pos
      /\ \A k, l \in DOMAIN sock.seen :
            k < l /\ sock.seen[k] > sock.at => sock.seen[k] < sock.seen[l]
      /\ \A i \in 1 .. sock.pos : sent[i].todo = Watched => Accounted(i)
  BY <1>1 DEF SockFollows
<1>4. p \in DOMAIN sent /\ p \in sock.at .. n
  BY <1>1, <1>2, <1>3
<1>5. \A k \in DOMAIN sock.seen : sock.seen[k] \in DOMAIN sent /\ sock.seen[k] < p
  <2>1. \A k \in DOMAIN sock.seen : sock.seen[k] \in DOMAIN sent
    BY <1>3, ElementOfSeq
  <2> QED BY <1>2, <1>3, <2>1
<1>6. p \in Nat /\ sock.pos = p - 1 /\ 1 .. p = (1 .. sock.pos) \cup {p}
  BY <1>2, <1>3
<1> HIDE DEF n, p
<1>7. /\ seen \in Seq(DOMAIN sent)
      /\ \A k, l \in DOMAIN seen : k # l => seen[k] # seen[l]
      /\ \A k \in DOMAIN seen : seen[k] <= p
      /\ \A k, l \in DOMAIN seen : k < l /\ seen[k] > sock.at => seen[k] < seen[l]
      /\ \A k \in DOMAIN sock.seen : k \in DOMAIN seen /\ seen[k] = sock.seen[k]
      /\ relevant(sent[p]) => \E k \in DOMAIN seen : seen[k] = p
  <2>1. CASE ~relevant(sent[p])
    BY <1>2, <1>3, <1>5, <1>6, <2>1
  <2>2. CASE relevant(sent[p])
    <3> DEFINE m == Len(sock.seen)
               new == Append(sock.seen, p)
    <3>1. m \in Nat /\ DOMAIN sock.seen = 1 .. m
      BY <1>3
    <3>2. /\ new \in Seq(DOMAIN sent) /\ DOMAIN new = 1 .. m + 1 /\ new[m + 1] = p
          /\ \A k \in 1 .. m : new[k] = sock.seen[k]
      BY <1>3, <1>4
    <3> HIDE DEF m, new
    <3>3. seen = new
      BY <2>2 DEF new
    <3>4. ASSUME NEW k \in 1 .. m + 1, NEW l \in 1 .. m + 1, k < l
          PROVE  /\ new[k] # new[l]
                 /\ new[k] > sock.at => new[k] < new[l]
      <4>1. k \in 1 .. m
        BY <3>1, <3>4
      <4>2. CASE l \in 1 .. m
        <5>1. /\ k \in DOMAIN sock.seen /\ l \in DOMAIN sock.seen
              /\ new[k] = sock.seen[k] /\ new[l] = sock.seen[l]
          BY <3>1, <3>2, <4>1, <4>2
        <5>2. k # l
          BY <3>1, <3>4
        <5>3. new[k] # new[l]
          BY <1>3, <5>1, <5>2
        <5>4. new[k] > sock.at => new[k] < new[l]
          BY <1>3, <3>4, <5>1
        <5> QED BY <5>3, <5>4
      <4>3. CASE l = m + 1
        <5>1. sock.seen[k] \in DOMAIN sent /\ sock.seen[k] < p
          BY <1>5, <3>1, <4>1
        <5>2. new[k] = sock.seen[k] /\ new[l] = p
          BY <3>2, <4>1, <4>3
        <5>3. sock.seen[k] \in Nat /\ p \in Nat
          BY <1>2, <1>6, <5>1
        <5> QED BY <5>1, <5>2, <5>3
      <4> QED BY <3>1, <4>2, <4>3
    <3>5. \A k \in 1 .. m + 1 : new[k] <= p
      <4>1. \A k \in 1 .. m : new[k] \in Nat /\ new[k] < p
        BY <1>2, <1>5, <3>1, <3>2
      <4> QED BY <1>6, <3>1, <3>2, <4>1
    <3>6. \A k, l \in 1 .. m + 1 : k # l => k < l \/ l < k
      BY <3>1
    <3>7. m + 1 \in 1 .. m + 1 /\ \A k \in 1 .. m : k \in 1 .. m + 1
      BY <3>1
    <3> HIDE DEF seen
    <3>8. \A k, l \in 1 .. m + 1 : k # l => new[k] # new[l]
      BY <3>4, <3>6
    <3> QED BY <3>1, <3>2, <3>3, <3>4, <3>5, <3>7, <3>8
  <2> QED BY <2>1, <2>2
<1> HIDE DEF seen
<1>8. /\ sock'.phase = "live" /\ sock'.seen = seen /\ sock'.at = sock.at /\ sock'.pos = p
      /\ sock'.racing = sock.racing /\ sock'.missed = sock.missed
      /\ sent' = sent /\ lost' = lost
  BY <1>1
<1>9. ASSUME NEW i \in 1 .. p, sent[i].todo = Watched PROVE Accounted(i)'
  <2>1. CASE i \in 1 .. sock.pos
    BY <1>3, <1>7, <1>8, <1>9, <2>1 DEF Accounted, Bare
  <2>2. CASE i = p
    <3>1. relevant(sent[p])
      BY <1>9, <2>2 DEF relevant
    <3> QED BY <1>7, <1>8, <2>2, <3>1 DEF Accounted
  <2> QED BY <1>6, <2>1, <2>2
<1>10. Len(sent') = n
  BY <1>8 DEF n
<1>11. sock' = [phase |-> sock'.phase, seen |-> sock'.seen, at |-> sock'.at, pos |-> sock'.pos,
                racing |-> sock'.racing, missed |-> sock'.missed]
  BY <1>1
<1>12. sock'.seen \in Seq(DOMAIN sent') /\ sock'.at \in 0 .. n /\ sock'.pos \in sock'.at .. n
  BY <1>3, <1>4, <1>7, <1>8
<1>13. \A i \in 1 .. sock'.pos : sent'[i].todo = Watched => Accounted(i)'
  BY <1>8, <1>9
<1> QED BY <1>7, <1>8, <1>10, <1>11, <1>12, <1>13 DEF SockFollows

\* A receiver that lags skips to the oldest event held; those it skipped are missed.
LEMMA SockLags ==
  ASSUME FeedTypes, SockFollows, Lagged
  PROVE  SockFollows'
<1> DEFINE n == Len(sent)
           p == n - Capacity
<1>1. /\ sock.phase = "live" /\ n - sock.pos > Capacity
      /\ sock' = [phase |-> "live", seen |-> sock.seen, at |-> sock.at, pos |-> p,
                  racing |-> sock.racing, missed |-> sock.missed \cup (sock.pos + 1 .. p)]
      /\ UNCHANGED <<sent, lost>>
  BY DEF Lagged, SockFollows
<1>2. n \in Nat /\ DOMAIN sent = 1 .. n /\ Capacity \in Nat
  BY ActivityFeedAssumption DEF FeedTypes
<1>3. /\ sock.seen \in Seq(DOMAIN sent) /\ sock.at \in 0 .. n /\ sock.pos \in sock.at .. n
      /\ \A k, l \in DOMAIN sock.seen : k # l => sock.seen[k] # sock.seen[l]
      /\ \A k \in DOMAIN sock.seen : sock.seen[k] <= sock.pos
      /\ \A k, l \in DOMAIN sock.seen :
            k < l /\ sock.seen[k] > sock.at => sock.seen[k] < sock.seen[l]
      /\ \A i \in 1 .. sock.pos : sent[i].todo = Watched => Accounted(i)
  BY <1>1 DEF SockFollows
<1>4. p \in sock.at .. n /\ sock.pos <= p
  BY <1>1, <1>2, <1>3
<1>5. \A k \in DOMAIN sock.seen : sock.seen[k] <= p
  <2>1. \A k \in DOMAIN sock.seen : sock.seen[k] \in DOMAIN sent
    BY <1>3, ElementOfSeq
  <2> QED BY <1>2, <1>3, <1>4, <2>1
<1>6. p \in Int
  BY <1>2
<1> HIDE DEF n, p
<1>7. /\ sock'.phase = "live" /\ sock'.seen = sock.seen /\ sock'.at = sock.at /\ sock'.pos = p
      /\ sock'.racing = sock.racing /\ sock'.missed = sock.missed \cup (sock.pos + 1 .. p)
      /\ sent' = sent /\ lost' = lost
  BY <1>1
<1>8. ASSUME NEW i \in 1 .. p, sent[i].todo = Watched PROVE Accounted(i)'
  <2>1. CASE i \in 1 .. sock.pos
    BY <1>3, <1>7, <1>8, <2>1 DEF Accounted, Bare
  <2>2. CASE i \in sock.pos + 1 .. p
    BY <1>7, <2>2 DEF Accounted
  <2> QED BY <1>2, <1>3, <1>6, <2>1, <2>2
<1>9. Len(sent') = n
  BY <1>7 DEF n
<1>10. sock' = [phase |-> sock'.phase, seen |-> sock'.seen, at |-> sock'.at, pos |-> sock'.pos,
                racing |-> sock'.racing, missed |-> sock'.missed]
  BY <1>1
<1>11. \A i \in 1 .. sock'.pos : sent'[i].todo = Watched => Accounted(i)'
  BY <1>7, <1>8
<1> QED BY <1>3, <1>4, <1>5, <1>7, <1>9, <1>10, <1>11 DEF SockFollows

-----------------------------------------------------------------------------
(* An event that is added to the feed of one run.                          *)

Joined(S, b, x) == IF b THEN S \cup {x} ELSE S

\* t is s with the event e at its end, told by what the invariant looks at.
Appended(s, e, t, a) ==
  LET n == Len(s) + 1
      tool == e.job = a /\ e.type = "tool_completed"
  IN  /\ n \in Nat /\ t \in Seq(FeedEvent)
      /\ t[n] = e
      /\ \A i \in OfJob(s, a) : i \in Nat /\ i < n /\ t[i] = s[i]
      /\ \A type : Place(s, a, type) \subseteq OfJob(s, a) /\ IsFiniteSet(Place(s, a, type))
      /\ End(s, a) \subseteq OfJob(s, a)
      /\ OfJob(t, a) = Joined(OfJob(s, a), e.job = a, n)
      /\ \A type : Place(t, a, type) = Joined(Place(s, a, type), e.job = a /\ e.type = type, n)
      /\ End(t, a) = Joined(End(s, a), e.job = a /\ e.type \in {"completed", "failed"}, n)
      /\ ToldTools(t, a) = IF tool THEN Append(ToldTools(s, a), <<e.tool, e.ok>>)
                           ELSE ToldTools(s, a)

\* An event added at the end is new at its place and every earlier one stays at its own.
LEMMA EventAppended ==
  ASSUME NEW s \in Seq(FeedEvent), NEW e \in FeedEvent, NEW a
  PROVE  Appended(s, e, s \o <<e>>, a)
<1> DEFINE t == s \o <<e>>
           n == Len(s) + 1
           T == {x \in FeedEvent : x.job = a /\ x.type = "tool_completed"}
<1>1. /\ Len(s) \in Nat /\ n \in Nat /\ t \in Seq(FeedEvent)
      /\ t = Append(s, e) /\ DOMAIN s = 1 .. Len(s) /\ DOMAIN t = 1 .. n /\ t[n] = e
      /\ \A i \in DOMAIN s : t[i] = s[i]
  OBVIOUS
<1>2. 1 .. n = (1 .. Len(s)) \cup {n} /\ \A i \in 1 .. Len(s) : i \in Nat /\ i < n /\ i # n
  BY <1>1
<1>3. IsFiniteSet(1 .. Len(s))
  BY <1>1, FS_Interval
<1>4. Sift(t, T) = IF e \in T THEN Append(Sift(s, T), e) ELSE Sift(s, T)
  <2>1. t = Append(s, e) /\ s \in Seq(FeedEvent) /\ e \in FeedEvent
    BY <1>1
  <2> HIDE DEF t, T
  <2>2. Sift(Append(s, e), T) = IF e \in T THEN Append(Sift(s, T), e) ELSE Sift(s, T)
    BY ONLY <2>1, SiftAppended
  <2> QED BY <2>1, <2>2
<1>5. Sift(s, T) \in Seq(FeedEvent \cap T)
  BY SiftType
<1>6. ToldTools(t, a) = IF e \in T THEN Append(ToldTools(s, a), <<e.tool, e.ok>>)
                        ELSE ToldTools(s, a)
  <2> DEFINE u == Sift(s, T)
             Pairs(q) == [i \in DOMAIN q |-> <<q[i].tool, q[i].ok>>]
  <2>1. ToldTools(t, a) = Pairs(Sift(t, T)) /\ ToldTools(s, a) = Pairs(u)
    BY DEF ToldTools, ToolEvents
  <2>2. u \in Seq(FeedEvent)
    BY <1>5
  <2> HIDE DEF u, T
  <2>3. Pairs(Append(u, e)) = Append(Pairs(u), <<e.tool, e.ok>>)
    <3>1. Len(u) \in Nat /\ DOMAIN u = 1 .. Len(u) /\ Len(Append(u, e)) = Len(u) + 1
      BY <2>2
    <3>2. /\ DOMAIN Append(u, e) = 1 .. Len(u) + 1 /\ Append(u, e)[Len(u) + 1] = e
          /\ \A i \in 1 .. Len(u) : Append(u, e)[i] = u[i]
      BY <2>2
    <3>3. Pairs(u) \in Seq({<<q.tool, q.ok>> : q \in FeedEvent}) /\ Len(Pairs(u)) = Len(u)
      BY <2>2, <3>1
    <3>4. /\ DOMAIN Append(Pairs(u), <<e.tool, e.ok>>) = 1 .. Len(u) + 1
          /\ \A i \in 1 .. Len(u) : Append(Pairs(u), <<e.tool, e.ok>>)[i] = Pairs(u)[i]
          /\ Append(Pairs(u), <<e.tool, e.ok>>)[Len(u) + 1] = <<e.tool, e.ok>>
      BY <3>1, <3>3
    <3> QED BY <3>1, <3>2, <3>3, <3>4
  <2> QED BY <1>4, <2>1, <2>3 DEF u
<1>7. e \in T <=> e.job = a /\ e.type = "tool_completed"
  OBVIOUS
<1> HIDE DEF T, n, t
<1>8. /\ OfJob(s, a) \subseteq 1 .. Len(s) /\ End(s, a) \subseteq OfJob(s, a)
      /\ \A type : Place(s, a, type) \subseteq OfJob(s, a)
  BY <1>1 DEF OfJob, End, Place
<1>9. \A type : IsFiniteSet(Place(s, a, type))
  <2>1. \A type : Place(s, a, type) \in SUBSET (1 .. Len(s))
    BY <1>8
  <2> QED BY <1>3, <2>1, FS_Subset
<1>10. OfJob(t, a) = Joined(OfJob(s, a), e.job = a, n)
  BY <1>1, <1>2 DEF OfJob, Joined
<1>11. \A type : Place(t, a, type) = Joined(Place(s, a, type), e.job = a /\ e.type = type, n)
  BY <1>1, <1>2, <1>8, <1>10 DEF Place, Joined, OfJob
<1>12. End(t, a) = Joined(End(s, a), e.job = a /\ e.type \in {"completed", "failed"}, n)
  BY <1>11 DEF End, Joined
<1>13. \A i \in OfJob(s, a) : i \in Nat /\ i < n /\ t[i] = s[i]
  BY <1>1, <1>2, <1>8
<1> QED BY <1>1, <1>6, <1>7, <1>8, <1>9, <1>10, <1>11, <1>12, <1>13 DEF Appended, t, n

\* An event of another run, or of the phone, says nothing of this one.
LEMMA OthersTold ==
  ASSUME NEW s, NEW e, NEW t, NEW a, NEW r, Appended(s, e, t, a), e.job # a, RunTold(s, a, r)
  PROVE  RunTold(t, a, r)
<1>1. /\ OfJob(t, a) = OfJob(s, a) /\ End(t, a) = End(s, a) /\ End(s, a) \subseteq OfJob(s, a)
      /\ \A type : Place(t, a, type) = Place(s, a, type) /\ Place(s, a, type) \subseteq OfJob(s, a)
      /\ ToldTools(t, a) = ToldTools(s, a)
      /\ \A i \in OfJob(s, a) : t[i] = s[i]
  BY DEF Appended, Joined
<1>2. FeedBegins(t, a, r)
  BY <1>1 DEF RunTold, FeedBegins
<1>3. FeedEnds(t, a, r)
  BY <1>1 DEF RunTold, FeedEnds
<1>4. AnswersAsked(t, a, r)
  BY <1>1 DEF RunTold, AnswersAsked, Count
<1>5. ToolsAreTold(t, a, r)
  BY <1>1 DEF RunTold, ToolsAreTold
<1>6. ScriptTells(t, a, r)
  BY <1>1 DEF RunTold, ScriptTells
<1> QED BY <1>2, <1>3, <1>4, <1>5, <1>6 DEF RunTold

\* What holds of the feed's beginning goes on holding.
LEMMA BeginsOn ==
  ASSUME NEW s, NEW e, NEW t, NEW a, NEW r, NEW w, Appended(s, e, t, a),
         FeedBegins(s, a, r), r.pc # "none", w.pc # "none", w.started_at = r.started_at
  PROVE  FeedBegins(t, a, w)
<1> DEFINE n == Len(s) + 1
<1>1. /\ r.started_at \in Place(s, a, "started") /\ \A i \in OfJob(s, a) : r.started_at <= i
  BY DEF FeedBegins
<1>2. /\ Place(s, a, "started") \subseteq Place(t, a, "started")
      /\ OfJob(t, a) \subseteq OfJob(s, a) \cup {n}
      /\ r.started_at \in Nat /\ r.started_at < n /\ n \in Nat
  BY <1>1 DEF Appended, Joined
<1> HIDE DEF n
<1> QED BY <1>1, <1>2 DEF FeedBegins

\* An event that may follow the end, if there is one, and is none itself.
LEMMA EndsOn ==
  ASSUME NEW s, NEW e, NEW t, NEW a, NEW r, Appended(s, e, t, a), FeedEnds(s, a, r),
         e.type \notin {"completed", "failed"}, \A i \in End(s, a) : MayFollow(e, s[i])
  PROVE  FeedEnds(t, a, r) /\ End(t, a) = End(s, a) /\ \A i \in End(s, a) : t[i] = s[i]
<1> DEFINE n == Len(s) + 1
<1>1. /\ End(t, a) = End(s, a) /\ End(s, a) \subseteq OfJob(s, a)
      /\ OfJob(t, a) \subseteq OfJob(s, a) \cup {n} /\ t[n] = e
      /\ \A i \in OfJob(s, a) : t[i] = s[i]
  BY DEF Appended, Joined
<1> HIDE DEF n
<1>2. \A i \in End(t, a), j \in OfJob(t, a) : i < j => MayFollow(t[j], t[i])
  BY <1>1 DEF FeedEnds
<1> QED BY <1>1, <1>2 DEF FeedEnds

\* completed or failed, when neither has been said.
LEMMA EndsNow ==
  ASSUME NEW s, NEW e, NEW t, NEW a, NEW r, Appended(s, e, t, a), End(s, a) = {}, e.job = a,
         e.type \in {"completed", "failed"}, r.pc \in {"ending", "closing"},
         r.pc = "ending" => r.responded, r.pc = "closing" /\ ~r.responded => e.type = "failed"
  PROVE  FeedEnds(t, a, r)
<1> DEFINE n == Len(s) + 1
<1>1. /\ End(t, a) = {n} /\ n \in Nat /\ t[n] = e
      /\ \A j \in OfJob(t, a) : j = n \/ (j \in Nat /\ j < n)
  BY DEF Appended, Joined
<1> HIDE DEF n
<1>2. r.pc \notin OpenPcs
  BY DEF OpenPcs
<1> QED BY <1>1, <1>2 DEF FeedEnds

\* An event that neither asks for an approval nor resolves one.
LEMMA AskedOn ==
  ASSUME NEW s, NEW e, NEW t, NEW a, NEW r, NEW w, Appended(s, e, t, a), AnswersAsked(s, a, r),
         e.type \notin {"approval_needed", "approval_resolved"},
         ~w.early => ~r.early /\ Owed(w) = Owed(r)
  PROVE  AnswersAsked(t, a, w)
<1>1. /\ Place(t, a, "approval_needed") = Place(s, a, "approval_needed")
      /\ Place(t, a, "approval_resolved") = Place(s, a, "approval_resolved")
  BY DEF Appended, Joined
<1> QED BY <1>1 DEF AnswersAsked, Count

\* An event that tells of no tool.
LEMMA ToolsOn ==
  ASSUME NEW s, NEW e, NEW t, NEW a, NEW r, Appended(s, e, t, a), ToolsAreTold(s, a, r),
         e.type # "tool_completed"
  PROVE  ToolsAreTold(t, a, r)
<1>1. ToldTools(t, a) = ToldTools(s, a)
  BY DEF Appended
<1> QED BY <1>1 DEF ToolsAreTold

\* An event that is no transcript.
LEMMA ScriptOn ==
  ASSUME NEW s, NEW e, NEW t, NEW a, NEW r, Appended(s, e, t, a), ScriptTells(s, a, r),
         e.type # "transcript"
  PROVE  ScriptTells(t, a, r)
<1>1. /\ Place(t, a, "transcript") = Place(s, a, "transcript")
      /\ \A i \in Place(s, a, "transcript") : t[i] = s[i]
  BY DEF Appended, Joined
<1> QED BY <1>1 DEF ScriptTells

\* What a turn says on its way changes nothing that is told of it.
LEMMA PassingTold ==
  ASSUME NEW s, NEW e, NEW t, NEW a, NEW r, Appended(s, e, t, a), RunTold(s, a, r),
         e.type \in {"reasoning", "agent_response"}, r.pc \in OpenPcs \ {"none"}
  PROVE  RunTold(t, a, r)
<1>1. End(s, a) = {}
  BY DEF RunTold, FeedEnds
<1>2. /\ e.type \notin {"completed", "failed"} /\ e.type # "transcript"
      /\ e.type # "tool_completed" /\ e.type \notin {"approval_needed", "approval_resolved"}
  OBVIOUS
<1>3. FeedBegins(t, a, r)
  BY BeginsOn DEF RunTold
<1>4. FeedEnds(t, a, r)
  BY <1>1, <1>2, EndsOn DEF RunTold
<1>5. AnswersAsked(t, a, r)
  BY <1>2, AskedOn DEF RunTold
<1>6. ToolsAreTold(t, a, r)
  BY <1>2, ToolsOn DEF RunTold
<1>7. ScriptTells(t, a, r)
  BY <1>2, ScriptOn DEF RunTold
<1> QED BY <1>3, <1>4, <1>5, <1>6, <1>7 DEF RunTold

\* The events that are kept back until the tool's result comes, and sent with or without it.
LEMMA FlushTold ==
  ASSUME NEW s, NEW t, NEW a, NEW r, NEW w, NEW e \in FeedEvent, Appended(s, e, t, a), RunTold(s, a, r),
         r.pending_tool_completed # NoEvent, e.type = "tool_completed", e.job = a,
         e.tool = r.pending_tool_completed.tool, e.ok = r.pending_tool_completed.ok,
         ~e.text \/ r.pc = "returned",
         w.pc = r.pc, w.started_at = r.started_at, w.responded = r.responded,
         w.pending_tool_completed = NoEvent, w.ran = r.ran, Owed(w) = Owed(r),
         w.early = r.early, Cardinality(Ends(w.entries)) = Cardinality(Ends(r.entries)),
         ToldTools(s, a) \in Seq(Nat \X BOOLEAN)
  PROVE  RunTold(t, a, w)
<1> DEFINE told == ToldTools(s, a)
           pair == <<e.tool, e.ok>>
<1>1. /\ FeedBegins(s, a, r) /\ FeedEnds(s, a, r) /\ AnswersAsked(s, a, r)
      /\ ToolsAreTold(s, a, r) /\ ScriptTells(s, a, r)
  BY DEF RunTold
<1>2. r.pc \in {"returned", "call", "loop", "ending", "dead"}
  BY <1>1 DEF ToolsAreTold
<1>3. FeedBegins(t, a, w)
  BY <1>1, <1>2, BeginsOn
<1>4. FeedEnds(t, a, w)
  <2>1. \A i \in End(s, a) : MayFollow(e, s[i])
    BY <1>1 DEF FeedEnds, OpenPcs, MayFollow
  <2>2. FeedEnds(t, a, r)
    BY <1>1, <2>1, EndsOn
  <2> QED BY <2>2 DEF FeedEnds
<1>5. AnswersAsked(t, a, w)
  BY <1>1, AskedOn
<1>6. ToolsAreTold(t, a, w)
  <2>1. told \o <<pair>> = r.ran /\ ToldTools(t, a) = Append(told, pair)
    BY <1>1 DEF ToolsAreTold, PendingPair, Appended
  <2>2. pair \in Nat \X BOOLEAN /\ told \in Seq(Nat \X BOOLEAN)
    BY DEF FeedEvent
  <2> HIDE DEF told, pair
  <2>3. Append(told, pair) = told \o <<pair>> /\ Append(told, pair) \in Seq(Nat \X BOOLEAN)
    BY <2>2
  <2>4. ToldTools(t, a) = r.ran /\ r.ran \o <<>> = r.ran
    BY <2>1, <2>3
  <2> QED BY <2>4 DEF ToolsAreTold, PendingPair
<1>7. ScriptTells(t, a, w)
  <2>1. ScriptTells(t, a, r)
    BY <1>1, ScriptOn
  <2> QED BY <2>1 DEF ScriptTells
<1> QED BY <1>3, <1>4, <1>5, <1>6, <1>7 DEF RunTold

\* A step from the record r to w that leaves what is told of the run.
Quiet(r, w) ==
  /\ r.pc # "none" /\ w.pc # "none" /\ w.started_at = r.started_at
  /\ w.pc \in OpenPcs \/ (w.pc = "ending" /\ ~w.responded) =>
        r.pc \in OpenPcs \/ (r.pc = "ending" /\ ~r.responded)
  /\ w.pc \notin {"closing", "ended"}
  /\ w.pc # "dead" => r.pc \notin {"ended", "dead"}
  /\ ~w.early => ~r.early /\ Owed(w) <= Owed(r)
  /\ w.pending_tool_completed = r.pending_tool_completed /\ w.ran = r.ran
  /\ w.pending_tool_completed # NoEvent => w.pc \in {"returned", "call", "loop", "ending", "dead"}
  /\ Cardinality(Ends(w.entries)) = Cardinality(Ends(r.entries))

\* A run moves on and says nothing.
LEMMA SilentTold ==
  ASSUME NEW s, NEW a, NEW r, NEW w, RunTold(s, a, r), Quiet(r, w),
         \A type : IsFiniteSet(Place(s, a, type)), Owed(w) \in Nat, Owed(r) \in Nat
  PROVE  RunTold(s, a, w)
<1> USE DEF Quiet
<1>1. /\ FeedBegins(s, a, r) /\ FeedEnds(s, a, r) /\ AnswersAsked(s, a, r)
      /\ ToolsAreTold(s, a, r) /\ ScriptTells(s, a, r)
  BY DEF RunTold
<1>2. FeedBegins(s, a, w)
  BY <1>1 DEF FeedBegins
<1>3. FeedEnds(s, a, w)
  BY <1>1 DEF FeedEnds
<1>4. AnswersAsked(s, a, w)
  <2> DEFINE needed == Count(s, a, "approval_needed")
             resolved == Count(s, a, "approval_resolved")
  <2>1. needed \in Nat /\ resolved \in Nat
    BY FS_CardinalityType DEF Count
  <2> HIDE DEF needed, resolved
  <2>2. ~w.early => needed >= resolved + Owed(w)
    <3>1. ~w.early => needed >= resolved + Owed(r) /\ Owed(w) <= Owed(r)
      BY <1>1 DEF AnswersAsked, needed, resolved
    <3> QED BY <2>1, <3>1
  <2> QED BY <1>1, <2>2 DEF AnswersAsked, needed, resolved
<1>5. ToolsAreTold(s, a, w)
  BY <1>1 DEF ToolsAreTold
<1>6. ScriptTells(s, a, w)
  BY <1>1 DEF ScriptTells
<1> QED BY <1>2, <1>3, <1>4, <1>5, <1>6 DEF RunTold

-----------------------------------------------------------------------------
(* A run's record, and what it is asked for.                               *)

LEMMA OwedType ==
  ASSUME NEW r
  PROVE  Owed(r) \in Nat
BY DEF Owed, One

\* A job has finitely many events of a type, and its tool events say a tool and a result.
LEMMA FeedPlaces ==
  ASSUME NEW s \in Seq(FeedEvent), NEW a
  PROVE  /\ \A type : IsFiniteSet(Place(s, a, type))
         /\ ToldTools(s, a) \in Seq(Nat \X BOOLEAN)
<1>1. \A type : IsFiniteSet(Place(s, a, type))
  <2>1. IsFiniteSet(DOMAIN s)
    BY FS_Interval
  <2>2. \A type : Place(s, a, type) \in SUBSET (DOMAIN s)
    BY DEF Place, OfJob
  <2> QED BY <2>1, <2>2, FS_Subset
<1>2. ToldTools(s, a) \in Seq(Nat \X BOOLEAN)
  <2> DEFINE T == {e \in FeedEvent : e.job = a /\ e.type = "tool_completed"}
             u == Sift(s, T)
  <2>1. u \in Seq(FeedEvent \cap T)
    BY SiftType
  <2>2. Len(u) \in Nat /\ DOMAIN u = 1 .. Len(u) /\ \A i \in DOMAIN u : u[i] \in FeedEvent
    <3> HIDE DEF T, u
    <3>1. u \in Seq(FeedEvent)
      BY <2>1
    <3> QED BY <3>1, ElementOfSeq
  <2>3. ToldTools(s, a) = [i \in 1 .. Len(u) |-> <<u[i].tool, u[i].ok>>]
    BY <2>2 DEF ToldTools, ToolEvents
  <2> HIDE DEF u
  <2>4. \A i \in 1 .. Len(u) : <<u[i].tool, u[i].ok>> \in Nat \X BOOLEAN
    BY <2>2 DEF FeedEvent
  <2> QED BY <2>2, <2>3, <2>4
<1> QED BY <1>1, <1>2

\* Log entries that are added: the tools' ends are counted.
LEMMA EntriesAdded ==
  ASSUME NEW entries \in Seq(LogLevels), NEW es \in Seq(LogLevels)
  PROVE  /\ entries \o es \in Seq(LogLevels)
         /\ (\A k \in DOMAIN es : es[k] # "ToolEnd") =>
               Cardinality(Ends(entries \o es)) = Cardinality(Ends(entries))
         /\ es = <<"ToolEnd">> =>
               Cardinality(Ends(entries \o es)) = Cardinality(Ends(entries)) + 1
         /\ IsFiniteSet(Ends(entries))
<1> DEFINE all == entries \o es
           m == Len(entries)
           n == Len(es)
<1>1. m \in Nat /\ n \in Nat /\ DOMAIN entries = 1 .. m /\ DOMAIN es = 1 .. n
  OBVIOUS
<1>2. /\ all \in Seq(LogLevels) /\ DOMAIN all = 1 .. m + n
      /\ \A i \in 1 .. m + n : all[i] = IF i <= m THEN entries[i] ELSE es[i - m]
  BY ConcatProperties
<1>3. IsFiniteSet(Ends(entries))
  <2>1. IsFiniteSet(1 .. m) /\ Ends(entries) \in SUBSET (1 .. m)
    BY <1>1, FS_Interval DEF Ends
  <2> QED BY <2>1, FS_Subset
<1>4. ASSUME \A k \in DOMAIN es : es[k] # "ToolEnd" PROVE Ends(all) = Ends(entries)
  <2> HIDE DEF all, m, n
  <2>1. \A i \in 1 .. m + n : i <= m \/ i - m \in 1 .. n
    BY <1>1
  <2>2. \A i \in 1 .. m : i \in 1 .. m + n /\ i <= m
    BY <1>1
  <2>3. \A i \in DOMAIN all : all[i] = "ToolEnd" => i \in DOMAIN entries /\ entries[i] = "ToolEnd"
    <3>1. ASSUME NEW i \in 1 .. m + n, all[i] = "ToolEnd", ~(i <= m) PROVE FALSE
      <4>1. i - m \in DOMAIN es /\ all[i] = es[i - m]
        BY <1>1, <1>2, <2>1, <3>1
      <4> QED BY <1>4, <3>1, <4>1
    <3>2. \A i \in 1 .. m + n : i <= m => i \in 1 .. m /\ all[i] = entries[i]
      BY <1>1, <1>2
    <3> QED BY <1>1, <1>2, <3>1, <3>2
  <2>4. \A i \in DOMAIN entries : i \in DOMAIN all /\ all[i] = entries[i]
    BY <1>1, <1>2, <2>2
  <2> QED BY <2>3, <2>4 DEF Ends
<1>5. ASSUME es = <<"ToolEnd">>
      PROVE  Cardinality(Ends(all)) = Cardinality(Ends(entries)) + 1
  <2>1. n = 1 /\ es[1] = "ToolEnd"
    BY <1>5
  <2> HIDE DEF all, m, n
  <2>2. Ends(all) = Ends(entries) \cup {m + 1} /\ m + 1 \notin Ends(entries)
    BY <1>1, <1>2, <2>1 DEF Ends
  <2> QED BY <1>3, <2>2, FS_AddElement
<1> QED BY <1>2, <1>3, <1>4, <1>5

\* Moving a run to its next step changes where it is and what it has logged, nothing
\* else.
LEMMA RunGoes ==
  ASSUME NEW r \in FeedRun, NEW to \in FeedPcs, NEW es \in Seq(LogLevels)
  PROVE  LET w == Goes(r, to, es) IN
         /\ w \in FeedRun /\ w.pc = to /\ w.entries = r.entries \o es
         /\ w.started_at = r.started_at /\ w.left = r.left /\ w.used = r.used
         /\ w.pending_tool_completed = r.pending_tool_completed
         /\ w.responded = r.responded /\ w.answer = r.answer /\ w.announced = r.announced
         /\ w.early = r.early /\ w.ran = r.ran
<1>1. r.entries \in Seq(LogLevels) /\ r.entries \o es \in Seq(LogLevels)
  BY EntriesAdded DEF FeedRun
<1> QED BY <1>1 DEF FeedRun, Goes

\* What each of the steps below needs to know of a run and of the events it may send.
LEMMA RunContext ==
  ASSUME FeedTypes, NEW a \in DOMAIN agent
  PROVE  /\ sent \in Seq(FeedEvent) /\ a \in FeedAgents /\ agent[a] \in FeedRun
         /\ \A type \in TodoActivityMessage : /\ Event(type, a) \in FeedEvent
                                             /\ Event(type, a).job = a
                                             /\ Event(type, a).type = type
         /\ Len(sent) \in Nat
<1>1. sent \in Seq(FeedEvent) /\ a \in FeedAgents /\ agent[a] \in FeedRun /\ Len(sent) \in Nat
  BY DEF FeedTypes
<1>2. <<>> \in Seq(Roles)
  OBVIOUS
<1> QED BY <1>1, <1>2 DEF Event, EventOf, FeedEvent

\* What a step of the run a does: the events it sends, and the record it leaves.
Steps(a, events, w) ==
  /\ \/ events = <<>>
     \/ \E x \in FeedEvent : events = <<x>>
     \/ \E x, y \in FeedEvent : events = <<x, y>>
  /\ events \in Seq(FeedEvent) /\ \A k \in DOMAIN events : events[k].job = a
  /\ sent' = sent \o events
  /\ \/ saving' = saving \cup (Len(sent) + 1 .. Len(sent) + Len(events))
     \/ saving' = saving /\ \A k \in DOMAIN events : Bare(events[k])
  /\ agent' = [agent EXCEPT ![a] = w] /\ w \in FeedRun
  /\ RunTold(sent \o events, a, w)
  /\ UNCHANGED <<rows, sock, lost>>

\* Spawning an agent keeps the account of its run (spawn_todo_agent).
LEMMA SpawnTold ==
  ASSUME FeedTypes, NEW a \in DOMAIN agent, RunTold(sent, a, agent[a]), spawn_todo_agent(a)
  PROVE  \E events, w : Steps(a, events, w)
<1> DEFINE r == agent[a]
           n == Len(sent) + 1
           w == [r EXCEPT !.pc = "started", !.started_at = n]
           e == Event("started", a)
           t == sent \o <<e>>
<1>1. /\ sent \in Seq(FeedEvent) /\ r \in FeedRun /\ e \in FeedEvent /\ e.job = a
      /\ e.type = "started" /\ n \in Nat
  BY RunContext DEF TodoActivityMessage
<1>2. /\ r.pc = "none" /\ sent' = t /\ saving' = saving /\ UNCHANGED <<rows, sock, lost>>
      /\ agent' = [agent EXCEPT ![a].pc = "started", ![a].started_at = n]
  BY DEF spawn_todo_agent, Broadcast, AgentOnly
<1>3. agent' = [agent EXCEPT ![a] = w]
  <2> HIDE DEF n
  <2> QED BY <1>2
<1>4. w \in FeedRun /\ w.pc = "started" /\ w.started_at = n
      /\ w.responded = r.responded /\ w.early = r.early /\ Owed(w) = Owed(r)
      /\ w.pending_tool_completed = r.pending_tool_completed /\ w.ran = r.ran
      /\ w.entries = r.entries
  <2> HIDE DEF n
  <2> QED BY <1>1, <1>2 DEF FeedRun, FeedPcs, Owed, One
<1>5. Appended(sent, e, t, a)
  BY <1>1, EventAppended
<1>6. /\ FeedBegins(sent, a, r) /\ FeedEnds(sent, a, r) /\ AnswersAsked(sent, a, r)
      /\ ToolsAreTold(sent, a, r) /\ ScriptTells(sent, a, r)
  BY DEF RunTold
<1>7. OfJob(sent, a) = {} /\ End(sent, a) = {}
  BY <1>2, <1>5, <1>6 DEF FeedBegins, Appended
<1> HIDE DEF r, w, e, t
<1>8. FeedBegins(t, a, w)
  <2>1. OfJob(t, a) = {n} /\ n \in Place(t, a, "started")
    BY <1>1, <1>5, <1>7 DEF Appended, Joined
  <2> QED BY <1>1, <1>4, <2>1 DEF FeedBegins
<1>9. FeedEnds(t, a, w)
  <2>1. FeedEnds(t, a, r)
    BY <1>1, <1>5, <1>6, <1>7, EndsOn
  <2> QED BY <1>2, <1>4, <2>1 DEF FeedEnds, OpenPcs
<1>10. AnswersAsked(t, a, w)
  BY <1>1, <1>4, <1>5, <1>6, AskedOn
<1>11. ToolsAreTold(t, a, w)
  <2>1. ToolsAreTold(t, a, r)
    BY <1>1, <1>5, <1>6, ToolsOn
  <2> QED BY <1>2, <1>4, <2>1 DEF ToolsAreTold
<1>12. ScriptTells(t, a, w)
  <2>1. ScriptTells(t, a, r)
    BY <1>1, <1>5, <1>6, ScriptOn
  <2> QED BY <1>2, <1>4, <2>1 DEF ScriptTells
<1>13. RunTold(t, a, w)
  BY <1>8, <1>9, <1>10, <1>11, <1>12 DEF RunTold
<1>14. <<e>> \in Seq(FeedEvent) /\ \A k \in DOMAIN <<e>> : <<e>>[k] = e
  BY <1>1
<1>15. Steps(a, <<e>>, w)
  BY <1>1, <1>2, <1>3, <1>4, <1>13, <1>14 DEF Steps, Bare, t
<1> QED BY <1>15

\* The record after it has said what it held back, with what was said.
LEMMA HeldIsTold ==
  ASSUME FeedTypes, NEW a \in DOMAIN agent, RunTold(sent, a, agent[a])
  PROVE  LET w == [agent[a] EXCEPT !.pending_tool_completed = NoEvent] IN
         /\ w \in FeedRun /\ RunTold(sent \o Flushed(a), a, w)
         /\ Flushed(a) = <<>> \/ \E x \in FeedEvent : x.job = a /\ Flushed(a) = <<x>>
<1> DEFINE r == agent[a]
           w == [r EXCEPT !.pending_tool_completed = NoEvent]
           e == r.pending_tool_completed
<1>1. sent \in Seq(FeedEvent) /\ r \in FeedRun
  BY RunContext
<1>2. /\ w \in FeedRun /\ w.pc = r.pc /\ w.started_at = r.started_at
      /\ w.responded = r.responded /\ w.pending_tool_completed = NoEvent /\ w.ran = r.ran
      /\ w.answer = r.answer /\ w.announced = r.announced
      /\ w.early = r.early /\ w.entries = r.entries
  BY <1>1 DEF FeedRun
<1>3. Owed(w) = Owed(r)
  BY <1>2 DEF Owed
<1>4. CASE e = NoEvent
  <2>1. w = r /\ Flushed(a) = <<>>
    BY <1>1, <1>4 DEF FeedRun, Flushed
  <2>2. sent \o <<>> = sent
    BY <1>1
  <2> QED BY <1>2, <2>1, <2>2
<1>5. CASE e # NoEvent
  <2>1. e \in FeedEvent /\ Flushed(a) = <<e>>
    BY <1>1, <1>5 DEF FeedRun, Flushed
  <2>2. e.type = "tool_completed" /\ e.job = a /\ ~e.text
    BY <1>5 DEF RunTold, ToolsAreTold
  <2>3. Appended(sent, e, sent \o <<e>>, a)
    BY <1>1, <2>1, EventAppended
  <2>4. ToldTools(sent, a) \in Seq(Nat \X BOOLEAN)
    BY <1>1, FeedPlaces
  <2> DEFINE s == sent
             u == sent \o <<e>>
  <2>5. /\ Appended(s, e, u, a) /\ RunTold(s, a, r) /\ r.pending_tool_completed = e
        /\ ToldTools(s, a) \in Seq(Nat \X BOOLEAN)
    BY <2>3, <2>4
  <2>6. RunTold(u, a, w)
    <3> HIDE DEF s, u, r, w, e
    <3> QED BY <1>2, <1>3, <1>5, <2>1, <2>2, <2>5, FlushTold
  <2> QED BY <1>2, <2>1, <2>2, <2>6
<1> QED BY <1>4, <1>5

\* A run that begins sends a reasoning event, which ends nothing and tells of no tool.
LEMMA BeginTold ==
  ASSUME FeedTypes, NEW a \in DOMAIN agent, RunTold(sent, a, agent[a]), Begin(a)
  PROVE  \E events, w : Steps(a, events, w)
<1> DEFINE r == agent[a]
           es == <<"User", "System">>
           w == Goes(r, "loop", es)
           e == Event("reasoning", a)
           t == sent \o <<e>>
<1>1. /\ sent \in Seq(FeedEvent) /\ r \in FeedRun /\ e \in FeedEvent /\ e.job = a
      /\ e.type = "reasoning"
  BY RunContext DEF TodoActivityMessage
<1>2. /\ r.pc = "started" /\ sent' = t
      /\ saving' = saving \cup (Len(sent) + 1 .. Len(sent) + Len(<<e>>))
      /\ UNCHANGED <<rows, sock, lost>> /\ agent' = [agent EXCEPT ![a] = w]
  BY DEF Begin, emit, AgentOnly
<1>3. es \in Seq(LogLevels) /\ \A k \in DOMAIN es : es[k] # "ToolEnd"
  BY DEF LogLevels
<1>4. Appended(sent, e, t, a)
  BY <1>1, EventAppended
<1> HIDE DEF es
<1>5. /\ w \in FeedRun /\ w.pc = "loop" /\ w.entries = r.entries \o es
      /\ w.started_at = r.started_at
      /\ w.pending_tool_completed = r.pending_tool_completed
      /\ w.responded = r.responded /\ w.answer = r.answer /\ w.announced = r.announced
      /\ w.early = r.early /\ w.ran = r.ran
  <2>1. "loop" \in FeedPcs
    BY DEF FeedPcs
  <2> HIDE DEF r
  <2> QED BY <1>1, <1>3, <2>1, RunGoes
<1>6. Cardinality(Ends(w.entries)) = Cardinality(Ends(r.entries))
  BY <1>1, <1>3, <1>5, EntriesAdded DEF FeedRun
<1> HIDE DEF r, w, e, t
<1>7. RunTold(t, a, r)
  BY <1>1, <1>2, <1>4, PassingTold DEF OpenPcs, r
<1>8. Owed(w) = Owed(r) /\ Owed(w) \in Nat
  BY <1>2, <1>5, OwedType DEF Owed
<1>9. \A type : IsFiniteSet(Place(t, a, type))
  <2>1. t \in Seq(FeedEvent)
    BY <1>4 DEF Appended
  <2> QED BY <2>1, FeedPlaces
<1>10. RunTold(t, a, w)
  <2>1. Quiet(r, w)
    BY <1>2, <1>5, <1>6, <1>8 DEF Quiet, OpenPcs
  <2>2. Owed(r) \in Nat
    BY OwedType
  <2> QED BY <1>7, <1>8, <1>9, <2>1, <2>2, SilentTold
<1>11. <<e>> \in Seq(FeedEvent) /\ \A k \in DOMAIN <<e>> : <<e>>[k] = e
  BY <1>1
<1>12. Steps(a, <<e>>, w)
  BY <1>1, <1>2, <1>5, <1>10, <1>11 DEF Steps, t
<1> QED BY <1>12

\* Feeds of one event and of two.
LEMMA ShortFeeds ==
  ASSUME NEW x \in FeedEvent, NEW y \in FeedEvent
  PROVE  /\ <<x>> \in Seq(FeedEvent) /\ <<x, y>> \in Seq(FeedEvent)
         /\ \A k \in DOMAIN <<x>> : <<x>>[k] = x
         /\ \A k \in DOMAIN <<x, y>> : <<x, y>>[k] \in {x, y}
         /\ <<x>> \o <<y>> = <<x, y>>
<1>1. /\ <<x>> \in Seq(FeedEvent) /\ <<x, y>> \in Seq(FeedEvent)
      /\ \A k \in DOMAIN <<x>> : <<x>>[k] = x
      /\ \A k \in DOMAIN <<x, y>> : <<x, y>>[k] \in {x, y}
  OBVIOUS
<1>2. <<x>> \o <<y>> = <<x, y>>
  <2> DEFINE b == <<x>> \o <<y>>
             c == <<x, y>>
  <2>1. <<x>> \in Seq(FeedEvent) /\ <<y>> \in Seq(FeedEvent) /\ c \in Seq(FeedEvent)
    OBVIOUS
  <2>2. Len(<<x>>) = 1 /\ Len(<<y>>) = 1 /\ <<x>>[1] = x /\ <<y>>[1] = y
    OBVIOUS
  <2>3. b \in Seq(FeedEvent) /\ Len(b) = 2 /\ b[1] = x /\ b[2] = y
    BY <2>1, <2>2, ConcatProperties
  <2>4. Len(c) = 2 /\ c[1] = x /\ c[2] = y
    OBVIOUS
  <2> HIDE DEF b, c
  <2>5. \A i \in 1 .. 2 : b[i] = c[i]
    BY <2>3, <2>4
  <2>6. b = c
    BY <2>1, <2>3, <2>4, <2>5, SeqEqual
  <2> QED BY <2>6 DEF b, c
<1> QED BY <1>1, <1>2

\* A step that sends nothing and changes nothing the feed tells keeps the account of the
\* run.
LEMMA SilentSteps ==
  ASSUME FeedTypes, NEW a \in DOMAIN agent, RunTold(sent, a, agent[a]), NEW w \in FeedRun,
         Quiet(agent[a], w), agent' = [agent EXCEPT ![a] = w],
         UNCHANGED <<sent, saving, rows, sock, lost>>
  PROVE  Steps(a, <<>>, w)
<1>1. sent \in Seq(FeedEvent) /\ Owed(w) \in Nat /\ Owed(agent[a]) \in Nat
  BY RunContext, OwedType
<1>2. \A type : IsFiniteSet(Place(sent, a, type))
  BY <1>1, FeedPlaces
<1>3. RunTold(sent, a, w)
  BY <1>1, <1>2, SilentTold
<1>4. sent \o <<>> = sent
  BY <1>1
<1>5. <<>> \in Seq(FeedEvent) /\ DOMAIN <<>> = {}
  OBVIOUS
<1> QED BY <1>3, <1>4, <1>5 DEF Steps

\* Sending the tool event that is held keeps the account: it moves from the record to the
\* feed.
LEMMA HeldSteps ==
  ASSUME FeedTypes, NEW a \in DOMAIN agent, RunTold(sent, a, agent[a]), NEW w \in FeedRun,
         Quiet([agent[a] EXCEPT !.pending_tool_completed = NoEvent], w),
         agent' = [agent EXCEPT ![a] = w], emit(Flushed(a)), UNCHANGED <<rows, sock, lost>>
  PROVE  Steps(a, Flushed(a), w)
<1> DEFINE r == [agent[a] EXCEPT !.pending_tool_completed = NoEvent]
           ev == Flushed(a)
           t == sent \o ev
<1>1. /\ sent \in Seq(FeedEvent) /\ Owed(w) \in Nat /\ Owed(r) \in Nat
  BY RunContext, OwedType
<1>2. /\ RunTold(t, a, r)
      /\ (ev = <<>> \/ \E x \in FeedEvent : x.job = a /\ ev = <<x>>)
  BY HeldIsTold
<1>3. ev \in Seq(FeedEvent) /\ \A k \in DOMAIN ev : ev[k].job = a
  <2> HIDE DEF ev
  <2>1. CASE ev = <<>>
    BY <2>1
  <2>2. ASSUME NEW x \in FeedEvent, x.job = a, ev = <<x>>
        PROVE  ev \in Seq(FeedEvent) /\ \A k \in DOMAIN ev : ev[k].job = a
    BY <2>2, ShortFeeds
  <2> QED BY <1>2, <2>1, <2>2
<1>4. t \in Seq(FeedEvent)
  <2> HIDE DEF ev
  <2> QED BY <1>1, <1>3
<1>5. \A type : IsFiniteSet(Place(t, a, type))
  <2> HIDE DEF t
  <2> QED BY <1>4, FeedPlaces
<1>6. RunTold(t, a, w)
  <2> HIDE DEF t
  <2> QED BY <1>1, <1>2, <1>5, SilentTold
<1>7. sent' = sent \o ev /\ saving' = saving \cup (Len(sent) + 1 .. Len(sent) + Len(ev))
  BY DEF emit
<1> HIDE DEF ev
<1>8. \/ ev = <<>>
      \/ \E x \in FeedEvent : ev = <<x>>
      \/ \E x, y \in FeedEvent : ev = <<x, y>>
  BY <1>2
<1>9. Steps(a, ev, w)
  BY <1>3, <1>6, <1>7, <1>8 DEF Steps
<1> QED BY <1>9 DEF ev

\* What was held back, and then an event on the way.
LEMMA HeldThenSays ==
  ASSUME FeedTypes, NEW a \in DOMAIN agent, RunTold(sent, a, agent[a]), NEW w \in FeedRun,
         Quiet([agent[a] EXCEPT !.pending_tool_completed = NoEvent], w),
         agent[a].pc \in OpenPcs \ {"none"}, NEW e \in FeedEvent, e.job = a,
         e.type \in {"reasoning", "agent_response"},
         agent' = [agent EXCEPT ![a] = w], emit(Flushed(a) \o <<e>>), UNCHANGED <<rows, sock, lost>>
  PROVE  Steps(a, Flushed(a) \o <<e>>, w)
<1> DEFINE r == [agent[a] EXCEPT !.pending_tool_completed = NoEvent]
           held == Flushed(a)
           ev == held \o <<e>>
           s == sent \o held
           t == sent \o ev
<1>1. /\ sent \in Seq(FeedEvent) /\ Owed(w) \in Nat /\ Owed(r) \in Nat
      /\ r.pc = agent[a].pc
  BY RunContext, OwedType DEF FeedRun
<1>2. /\ RunTold(s, a, r)
      /\ (held = <<>> \/ \E x \in FeedEvent : x.job = a /\ held = <<x>>)
  BY HeldIsTold
<1>3. /\ (ev = <<e>> \/ \E x \in FeedEvent : x.job = a /\ ev = <<x, e>>)
      /\ held \in Seq(FeedEvent)
  <2> HIDE DEF held
  <2>1. <<>> \o <<e>> = <<e>>
    OBVIOUS
  <2>2. \A x \in FeedEvent : <<x>> \o <<e>> = <<x, e>> /\ <<x>> \in Seq(FeedEvent)
    BY ShortFeeds
  <2>3. CASE held = <<>>
    BY <2>1, <2>3
  <2>4. CASE \E x \in FeedEvent : x.job = a /\ held = <<x>>
    BY <2>2, <2>4
  <2> QED BY <1>2, <2>3, <2>4
<1>4. ev \in Seq(FeedEvent) /\ \A k \in DOMAIN ev : ev[k].job = a
  <2> HIDE DEF ev
  <2>1. ASSUME NEW x \in FeedEvent, x.job = a, ev = <<x, e>>
        PROVE  ev \in Seq(FeedEvent) /\ \A k \in DOMAIN ev : ev[k].job = a
    BY <2>1, ShortFeeds
  <2>2. CASE ev = <<e>>
    BY <2>2, ShortFeeds
  <2> QED BY <1>3, <2>1, <2>2
<1> HIDE DEF held
<1>5. s \in Seq(FeedEvent) /\ t = s \o <<e>>
  BY <1>1, <1>3
<1>6. sent' = sent \o ev /\ saving' = saving \cup (Len(sent) + 1 .. Len(sent) + Len(ev))
  BY DEF emit, held
<1> HIDE DEF s, t, r, ev
<1>7. Appended(s, e, t, a)
  BY <1>5, EventAppended
<1>8. RunTold(t, a, r)
  BY <1>1, <1>2, <1>7, PassingTold
<1>9. \A type : IsFiniteSet(Place(t, a, type))
  <2>1. t \in Seq(FeedEvent)
    BY <1>7 DEF Appended
  <2> QED BY <2>1, FeedPlaces
<1>10. RunTold(t, a, w)
  <2>1. Quiet(r, w)
    BY DEF r
  <2> QED BY <1>1, <1>8, <1>9, <2>1, SilentTold
<1> QED BY <1>3, <1>4, <1>6, <1>10 DEF Steps, t, ev, held

\* A run that quits at once sends nothing: what the feed tells of it stays.
LEMMA QuitTold ==
  ASSUME FeedTypes, NEW a \in DOMAIN agent, RunTold(sent, a, agent[a]), Quit(a)
  PROVE  \E events, w : Steps(a, events, w)
<1> DEFINE r == agent[a]
           es == <<"User">>
           w == Goes(r, "ending", es)
<1>1. /\ r.pc = "started" /\ UNCHANGED <<sent, saving, rows, sock, lost>>
      /\ agent' = [agent EXCEPT ![a] = w]
  BY DEF Quit, AgentOnly
<1>2. es \in Seq(LogLevels) /\ \A k \in DOMAIN es : es[k] # "ToolEnd"
  BY DEF LogLevels
<1>3. r \in FeedRun
  BY RunContext
<1> HIDE DEF es, r
<1>4. /\ w \in FeedRun /\ w.pc = "ending" /\ w.entries = r.entries \o es
      /\ w.started_at = r.started_at
      /\ w.pending_tool_completed = r.pending_tool_completed
      /\ w.responded = r.responded /\ w.answer = r.answer /\ w.announced = r.announced
      /\ w.early = r.early /\ w.ran = r.ran
  <2>1. "ending" \in FeedPcs
    BY DEF FeedPcs
  <2> QED BY <1>2, <1>3, <2>1, RunGoes
<1> HIDE DEF w
<1>5. Cardinality(Ends(w.entries)) = Cardinality(Ends(r.entries))
  BY <1>2, <1>3, <1>4, EntriesAdded DEF FeedRun
<1>6. Quiet(r, w)
  BY <1>1, <1>4, <1>5 DEF Quiet, OpenPcs, Owed, One
<1> QED BY <1>1, <1>4, <1>6, SilentSteps DEF r

\* Going on to the next tool call sends nothing.
LEMMA NextCallTold ==
  ASSUME FeedTypes, NEW a \in DOMAIN agent, RunTold(sent, a, agent[a]), NextCall(a)
  PROVE  \E events, w : Steps(a, events, w)
<1> DEFINE r == agent[a]
<1>1. PICK to \in {"call", "loop"} : agent' = [agent EXCEPT ![a].pc = to]
  BY DEF NextCall
<1> DEFINE w == [r EXCEPT !.pc = to]
<1>2. r.pc = "returned" /\ UNCHANGED <<sent, saving, rows, sock, lost>>
  BY DEF NextCall, AgentOnly
<1>3. agent' = [agent EXCEPT ![a] = w]
  BY <1>1
<1>4. r \in FeedRun
  BY RunContext
<1> HIDE DEF r
<1>5. /\ w \in FeedRun /\ w.pc = to /\ w.entries = r.entries /\ w.started_at = r.started_at
      /\ w.pending_tool_completed = r.pending_tool_completed
      /\ w.responded = r.responded /\ w.answer = r.answer /\ w.announced = r.announced
      /\ w.early = r.early /\ w.ran = r.ran
  BY <1>4 DEF FeedRun, FeedPcs
<1> HIDE DEF w
<1>6. Quiet(r, w)
  BY <1>2, <1>5 DEF Quiet, OpenPcs, Owed, One
<1> QED BY <1>2, <1>3, <1>5, <1>6, SilentSteps DEF r

\* An answer sent to a run owes an announcement; one sent before the request is early.
LEMMA ResolveSendTold ==
  ASSUME FeedTypes, NEW a \in DOMAIN agent, RunTold(sent, a, agent[a]), NEW ok \in BOOLEAN,
         ResolveSend(a, ok)
  PROVE  \E events, w : Steps(a, events, w)
<1> DEFINE r == agent[a]
           ans == IF ok THEN "approved" ELSE "rejected"
           was == r.early \/ r.pc = "asking"
           w == [r EXCEPT !.answer = ans, !.announced = FALSE, !.early = was]
<1>1. /\ r.pc \in {"asking", "waiting"} /\ r.answer = "none" /\ r.announced
      /\ UNCHANGED <<sent, saving, rows, sock, lost>>
      /\ agent' = [agent EXCEPT ![a].answer = ans, ![a].announced = FALSE,
                                ![a].early = was]
  BY DEF ResolveSend, AgentOnly
<1>2. was \in BOOLEAN
  BY RunContext DEF FeedRun
<1> HIDE DEF was, ans
<1>3. agent' = [agent EXCEPT ![a] = w]
  BY <1>1
<1>4. r \in FeedRun /\ ans \in {"approved", "rejected"} /\ was \in BOOLEAN
  BY <1>2, RunContext DEF ans
<1> HIDE DEF r
<1>5. /\ w \in FeedRun /\ w.pc = r.pc /\ w.entries = r.entries /\ w.started_at = r.started_at
      /\ w.pending_tool_completed = r.pending_tool_completed
      /\ w.responded = r.responded /\ w.answer = ans /\ w.announced = FALSE
      /\ w.early = was /\ w.ran = r.ran
  BY <1>4 DEF FeedRun
<1> HIDE DEF w
<1>6. r.pending_tool_completed = NoEvent
  BY <1>1 DEF RunTold, ToolsAreTold, r
<1>7. Quiet(r, w)
  <2>1. ~w.early => ~r.early /\ r.pc = "waiting"
    BY <1>1, <1>5 DEF was
  <2>2. ~w.early => Owed(w) <= Owed(r)
    BY <1>1, <1>4, <1>5, <2>1 DEF Owed, One
  <2> QED BY <1>1, <1>5, <1>6, <2>1, <2>2 DEF Quiet, OpenPcs
<1> QED BY <1>1, <1>3, <1>5, <1>7, SilentSteps DEF r

\* The record that a step leaves which empties the buffer and logs what is no tool's end.
LEMMA HeldGoes ==
  ASSUME NEW r \in FeedRun, NEW to \in FeedPcs, NEW es \in Seq(LogLevels),
         \A k \in DOMAIN es : es[k] # "ToolEnd"
  PROVE  LET q == [r EXCEPT !.pending_tool_completed = NoEvent]
             w == [Goes(r, to, es) EXCEPT !.pending_tool_completed = NoEvent]
         IN  /\ w \in FeedRun /\ w.pc = to /\ w.started_at = q.started_at
             /\ w.pending_tool_completed = NoEvent /\ w.left = r.left /\ w.used = r.used
             /\ w.responded = q.responded /\ w.answer = q.answer /\ w.announced = q.announced
             /\ w.early = q.early /\ w.ran = q.ran /\ q.pending_tool_completed = NoEvent
             /\ q.pc = r.pc /\ q.answer = r.answer /\ q.announced = r.announced
             /\ q.early = r.early /\ q.responded = r.responded
             /\ Cardinality(Ends(w.entries)) = Cardinality(Ends(q.entries))
<1> DEFINE g == Goes(r, to, es)
           w == [g EXCEPT !.pending_tool_completed = NoEvent]
           q == [r EXCEPT !.pending_tool_completed = NoEvent]
<1>1. /\ g \in FeedRun /\ g.pc = to /\ g.entries = r.entries \o es
      /\ g.started_at = r.started_at /\ g.left = r.left /\ g.used = r.used
      /\ g.responded = r.responded /\ g.answer = r.answer /\ g.announced = r.announced
      /\ g.early = r.early /\ g.ran = r.ran
  BY RunGoes
<1> HIDE DEF g
<1>2. /\ w \in FeedRun /\ w.pc = g.pc /\ w.entries = g.entries
      /\ w.started_at = g.started_at /\ w.left = g.left /\ w.used = g.used
      /\ w.responded = g.responded /\ w.answer = g.answer /\ w.announced = g.announced
      /\ w.early = g.early /\ w.ran = g.ran /\ w.pending_tool_completed = NoEvent
  BY <1>1 DEF FeedRun
<1>3. /\ q.pc = r.pc /\ q.entries = r.entries
      /\ q.started_at = r.started_at
      /\ q.responded = r.responded /\ q.answer = r.answer /\ q.announced = r.announced
      /\ q.early = r.early /\ q.ran = r.ran /\ q.pending_tool_completed = NoEvent
  BY DEF FeedRun
<1>4. Cardinality(Ends(r.entries \o es)) = Cardinality(Ends(r.entries))
  BY EntriesAdded DEF FeedRun
<1> HIDE DEF w, q
<1>5. Cardinality(Ends(w.entries)) = Cardinality(Ends(q.entries))
  BY <1>1, <1>2, <1>3, <1>4
<1>6. /\ w \in FeedRun /\ w.pc = to /\ w.started_at = q.started_at
      /\ w.pending_tool_completed = NoEvent /\ w.left = r.left /\ w.used = r.used
      /\ w.responded = q.responded /\ w.answer = q.answer /\ w.announced = q.announced
      /\ w.early = q.early /\ w.ran = q.ran /\ q.pending_tool_completed = NoEvent
      /\ q.pc = r.pc /\ q.answer = r.answer /\ q.announced = r.announced
      /\ q.early = r.early /\ q.responded = r.responded
  BY <1>1, <1>2, <1>3
<1> QED BY <1>5, <1>6 DEF w, q, g

\* A thinking event sends the tool event that is held before it.
LEMMA ThinkingTold ==
  ASSUME FeedTypes, NEW a \in DOMAIN agent, RunTold(sent, a, agent[a]), Thinking(a)
  PROVE  \E events, w : Steps(a, events, w)
<1> DEFINE r == agent[a]
           q == [r EXCEPT !.pending_tool_completed = NoEvent]
           es == <<"System">>
           w == [Goes(r, "call", es) EXCEPT !.pending_tool_completed = NoEvent]
           e == Event("reasoning", a)
<1>1. /\ r.pc = "loop" /\ emit(Flushed(a) \o <<e>>) /\ UNCHANGED <<rows, sock, lost>>
      /\ agent' = [agent EXCEPT ![a] = w]
  BY DEF Thinking, AgentOnly
<1>2. es \in Seq(LogLevels) /\ \A k \in DOMAIN es : es[k] # "ToolEnd"
  BY DEF LogLevels
<1>3. /\ r \in FeedRun /\ e \in FeedEvent /\ e.job = a /\ e.type = "reasoning"
      /\ "call" \in FeedPcs
  BY RunContext DEF FeedPcs, TodoActivityMessage
<1> HIDE DEF es, r, e
<1>4. /\ w \in FeedRun /\ w.pc = "call" /\ w.started_at = q.started_at
      /\ w.pending_tool_completed = NoEvent
      /\ w.responded = q.responded /\ w.answer = q.answer /\ w.announced = q.announced
      /\ w.early = q.early /\ w.ran = q.ran /\ q.pending_tool_completed = NoEvent
      /\ q.pc = r.pc /\ Cardinality(Ends(w.entries)) = Cardinality(Ends(q.entries))
  BY <1>2, <1>3, HeldGoes
<1> HIDE DEF w, q
<1>5. Quiet(q, w)
  BY <1>1, <1>4 DEF Quiet, OpenPcs, Owed, One
<1>6. r.pc \in OpenPcs \ {"none"}
  BY <1>1 DEF OpenPcs
<1>7. Steps(a, Flushed(a) \o <<e>>, w)
  BY <1>1, <1>3, <1>4, <1>5, <1>6, HeldThenSays DEF r, q
<1> QED BY <1>7

\* A tool_started event sends the tool event that is held before it.
LEMMA ToolStartedTold ==
  ASSUME FeedTypes, NEW a \in DOMAIN agent, RunTold(sent, a, agent[a]), ToolStarted(a)
  PROVE  \E events, w : Steps(a, events, w)
<1> DEFINE r == agent[a]
           q == [r EXCEPT !.pending_tool_completed = NoEvent]
           es == <<"ToolStart">>
           g == [Goes(r, "running", es) EXCEPT !.pending_tool_completed = NoEvent]
           w == [Goes(r, "running", es) EXCEPT !.used = @ + 1, !.left = @ - 1, !.answer = "none",
                                               !.pending_tool_completed = NoEvent]
<1>0. r.pc = "call" \/ (r.pc = "waiting" /\ r.answer = "approved")
  BY DEF ToolStarted
<1>1. /\ emit(Flushed(a)) /\ UNCHANGED <<rows, sock, lost>>
      /\ agent' = [agent EXCEPT ![a] = w]
  <2>1. agent' = [agent EXCEPT ![a] = w]
    BY Zenon DEF ToolStarted
  <2> QED BY <2>1 DEF ToolStarted, AgentOnly
<1>2. es \in Seq(LogLevels) /\ \A k \in DOMAIN es : es[k] # "ToolEnd"
  BY DEF LogLevels
<1>3. r \in FeedRun /\ "running" \in FeedPcs
  BY RunContext DEF FeedPcs
<1> HIDE DEF es, r
<1>4. /\ g \in FeedRun /\ g.pc = "running" /\ g.started_at = q.started_at
      /\ g.pending_tool_completed = NoEvent
      /\ g.responded = q.responded /\ g.announced = q.announced
      /\ g.early = q.early /\ g.ran = q.ran /\ q.pending_tool_completed = NoEvent
      /\ q.pc = r.pc /\ q.answer = r.answer
      /\ Cardinality(Ends(g.entries)) = Cardinality(Ends(q.entries))
  BY <1>2, <1>3, HeldGoes
<1>5. w = [g EXCEPT !.used = @ + 1, !.left = @ - 1, !.answer = "none"]
  <2> DEFINE x == Goes(r, "running", es)
  <2> HIDE DEF x
  <2>1. [x EXCEPT !.used = @ + 1, !.left = @ - 1, !.answer = "none",
                  !.pending_tool_completed = NoEvent]
          = [[x EXCEPT !.pending_tool_completed = NoEvent]
               EXCEPT !.used = @ + 1, !.left = @ - 1, !.answer = "none"]
    OBVIOUS
  <2> QED BY <2>1 DEF x
<1> HIDE DEF g, w, q
<1>6. /\ w \in FeedRun /\ w.pc = g.pc /\ w.started_at = g.started_at /\ w.entries = g.entries
      /\ w.pending_tool_completed = NoEvent /\ w.answer = "none"
      /\ w.responded = g.responded /\ w.announced = g.announced
      /\ w.early = g.early /\ w.ran = g.ran
  <2> DEFINE v == g.used + 1
             u == [g EXCEPT !.used = v]
             x == u.left - 1
             l == [u EXCEPT !.left = x]
  <2>0. v \in Nat
    BY <1>4 DEF FeedRun
  <2> HIDE DEF v
  <2>1. /\ u \in FeedRun /\ u.pc = g.pc /\ u.started_at = g.started_at
        /\ u.entries = g.entries /\ u.pending_tool_completed = NoEvent
        /\ u.responded = g.responded /\ u.announced = g.announced
        /\ u.early = g.early /\ u.ran = g.ran
    BY <1>4, <2>0 DEF FeedRun
  <2> HIDE DEF u
  <2>3. w = [l EXCEPT !.answer = "none"]
    BY <1>5 DEF u, v
  <2>4. x \in Int
    BY <2>1 DEF FeedRun
  <2> HIDE DEF x
  <2>2. /\ l \in FeedRun /\ l.pc = u.pc /\ l.started_at = u.started_at
        /\ l.entries = u.entries /\ l.pending_tool_completed = NoEvent
        /\ l.responded = u.responded /\ l.announced = u.announced
        /\ l.early = u.early /\ l.ran = u.ran
    BY <2>1, <2>4 DEF FeedRun
  <2> HIDE DEF l
  <2> QED BY <2>1, <2>2, <2>3 DEF FeedRun
<1>7. Quiet(q, w)
  BY <1>0, <1>4, <1>6 DEF Quiet, OpenPcs, Owed, One
<1>8. Steps(a, Flushed(a), w)
  BY <1>1, <1>3, <1>6, <1>7, HeldSteps DEF r, q
<1> QED BY <1>8

\* A run about to ask for approval first sends the tool event it holds.
LEMMA ApprovalNeededTold ==
  ASSUME FeedTypes, NEW a \in DOMAIN agent, RunTold(sent, a, agent[a]), ApprovalNeeded(a)
  PROVE  \E events, w : Steps(a, events, w)
<1> DEFINE r == agent[a]
           q == [r EXCEPT !.pending_tool_completed = NoEvent]
           es == <<"System">>
           g == [Goes(r, "asking", es) EXCEPT !.pending_tool_completed = NoEvent]
           w == [g EXCEPT !.answer = "none"]
<1>1. /\ r.pc = "call" /\ emit(Flushed(a)) /\ UNCHANGED <<rows, sock, lost>>
      /\ agent' = [agent EXCEPT ![a] = w]
  BY DEF ApprovalNeeded, AgentOnly
<1>2. es \in Seq(LogLevels) /\ \A k \in DOMAIN es : es[k] # "ToolEnd"
  BY DEF LogLevels
<1>3. r \in FeedRun /\ "asking" \in FeedPcs
  BY RunContext DEF FeedPcs
<1> HIDE DEF es, r
<1>4. /\ g \in FeedRun /\ g.pc = "asking" /\ g.started_at = q.started_at
      /\ g.pending_tool_completed = NoEvent
      /\ g.responded = q.responded /\ g.announced = q.announced
      /\ g.early = q.early /\ g.ran = q.ran /\ q.pending_tool_completed = NoEvent
      /\ q.pc = r.pc
      /\ Cardinality(Ends(g.entries)) = Cardinality(Ends(q.entries))
  BY <1>2, <1>3, HeldGoes
<1> HIDE DEF g, q
<1>6. /\ w \in FeedRun /\ w.pc = g.pc /\ w.started_at = g.started_at /\ w.entries = g.entries
      /\ w.pending_tool_completed = NoEvent /\ w.answer = "none"
      /\ w.responded = g.responded /\ w.announced = g.announced
      /\ w.early = g.early /\ w.ran = g.ran
  BY <1>4 DEF FeedRun
<1> HIDE DEF w
<1>7. Quiet(q, w)
  BY <1>1, <1>4, <1>6 DEF Quiet, OpenPcs, Owed, One
<1>8. Steps(a, Flushed(a), w)
  BY <1>1, <1>3, <1>6, <1>7, HeldSteps DEF r, q
<1> QED BY <1>8

\* The tool has run: its event is held, and the log has its end.
LEMMA ToolCompletedTold ==
  ASSUME FeedTypes, NEW a \in DOMAIN agent, RunTold(sent, a, agent[a]), NEW ok \in BOOLEAN,
         ToolCompleted(a, ok)
  PROVE  \E events, w : Steps(a, events, w)
<1> DEFINE r == agent[a]
           es == <<"ToolEnd">>
           g == Goes(r, "returned", es)
           pair == <<r.used, ok>>
           e == ToolEvent(a, r.used, ok, FALSE)
           ran == Append(r.ran, pair)
           w == [g EXCEPT !.pending_tool_completed = e, !.ran = ran]
<1>1. r.pc = "running" /\ UNCHANGED <<sent, saving, rows, sock, lost>>
  BY DEF ToolCompleted, AgentOnly
<1>2. es \in Seq(LogLevels)
  BY DEF LogLevels
<1>3. r \in FeedRun /\ "returned" \in FeedPcs /\ sent \in Seq(FeedEvent)
  BY RunContext DEF FeedPcs
<1>4. e \in FeedEvent /\ e.type = "tool_completed" /\ e.job = a /\ ~e.text
      /\ e.tool = r.used /\ e.ok = ok
  <2> DEFINE b == Event("tool_completed", a)
  <2>1. b \in FeedEvent /\ b.job = a /\ b.type = "tool_completed"
    BY RunContext DEF TodoActivityMessage
  <2>2. e = [b EXCEPT !.tool = r.used, !.ok = ok, !.text = FALSE] /\ r.used \in Nat
    BY <1>3 DEF ToolEvent, FeedRun
  <2> HIDE DEF b, e, r
  <2> QED BY <2>1, <2>2 DEF FeedEvent
<1>5. /\ g \in FeedRun /\ g.pc = "returned" /\ g.entries = r.entries \o es
      /\ g.started_at = r.started_at /\ g.ran = r.ran
      /\ g.responded = r.responded /\ g.answer = r.answer /\ g.announced = r.announced
      /\ g.early = r.early
  <2> HIDE DEF r, es
  <2> QED BY <1>2, <1>3, RunGoes
<1>6. agent' = [agent EXCEPT ![a] = w]
  <2>1. agent' = [agent EXCEPT ![a] = [Goes(agent[a], "returned", <<"ToolEnd">>) EXCEPT
                     !.pending_tool_completed = ToolEvent(a, agent[a].used, ok, FALSE),
                     !.ran = Append(@, <<agent[a].used, ok>>)]]
    BY DEF ToolCompleted
  <2> DEFINE x == Goes(agent[a], "returned", <<"ToolEnd">>)
             y == ToolEvent(a, agent[a].used, ok, FALSE)
  <2>2. x.ran = agent[a].ran
    BY <1>5
  <2>3. agent' = [agent EXCEPT ![a] = [x EXCEPT !.pending_tool_completed = y,
                                                !.ran = Append(x.ran, <<agent[a].used, ok>>)]]
    BY <2>1
  <2> HIDE DEF x, y
  <2>4. agent' = [agent EXCEPT ![a] = [x EXCEPT !.pending_tool_completed = y,
                                                !.ran = Append(agent[a].ran, <<agent[a].used, ok>>)]]
    BY <2>2, <2>3
  <2> QED BY <2>4 DEF x, y
<1>7. /\ r.ran \in Seq(Nat \X BOOLEAN) /\ pair \in Nat \X BOOLEAN /\ ran \in Seq(Nat \X BOOLEAN)
      /\ Len(ran) = Len(r.ran) + 1
  BY <1>3 DEF FeedRun
<1>8. Cardinality(Ends(r.entries \o es)) = Cardinality(Ends(r.entries)) + 1
  BY <1>2, <1>3, EntriesAdded DEF FeedRun
<1>9. /\ FeedBegins(sent, a, r) /\ FeedEnds(sent, a, r) /\ AnswersAsked(sent, a, r)
      /\ ToolsAreTold(sent, a, r) /\ ScriptTells(sent, a, r)
  BY DEF RunTold
<1>10. ToldTools(sent, a) \in Seq(Nat \X BOOLEAN)
  BY <1>3, FeedPlaces
<1> HIDE DEF es, g, e, r, ran, pair
<1>11. /\ w \in FeedRun /\ w.pc = "returned" /\ w.entries = r.entries \o es
       /\ w.started_at = r.started_at /\ w.ran = ran /\ w.pending_tool_completed = e
       /\ w.responded = r.responded /\ w.answer = r.answer /\ w.announced = r.announced
       /\ w.early = r.early
  <2> DEFINE x == [g EXCEPT !.pending_tool_completed = e]
  <2>1. /\ x \in FeedRun /\ x.pc = g.pc /\ x.entries = g.entries /\ x.started_at = g.started_at
        /\ x.pending_tool_completed = e
        /\ x.responded = g.responded /\ x.answer = g.answer /\ x.announced = g.announced
        /\ x.early = g.early
    BY <1>4, <1>5 DEF FeedRun
  <2>2. w = [x EXCEPT !.ran = ran]
    BY DEF x
  <2> HIDE DEF x, w
  <2> QED BY <1>5, <1>7, <2>1, <2>2 DEF FeedRun
<1> HIDE DEF w
<1>12. r.pending_tool_completed = NoEvent
  BY <1>1, <1>9 DEF ToolsAreTold
<1>13. ToolsAreTold(sent, a, w)
  <2> DEFINE told == ToldTools(sent, a)
  <2>1. told \o <<>> = r.ran
    BY <1>9, <1>12 DEF ToolsAreTold, PendingPair
  <2>2. told = r.ran
    BY <1>10, <2>1
  <2>3. ran = r.ran \o <<pair>>
    BY <1>7 DEF ran
  <2>4. e # NoEvent
    BY <1>4 DEF NoEvent
  <2>5. PendingPair(e) = <<pair>>
    BY <1>4, <2>4 DEF PendingPair, pair
  <2> QED BY <1>4, <1>11, <2>2, <2>3, <2>5 DEF ToolsAreTold
<1>14. FeedBegins(sent, a, w) /\ FeedEnds(sent, a, w)
  BY <1>1, <1>9, <1>11 DEF FeedBegins, FeedEnds, OpenPcs
<1>15. AnswersAsked(sent, a, w)
  <2>1. Owed(w) = Owed(r)
    BY <1>1, <1>11 DEF Owed, One
  <2> QED BY <1>9, <1>11, <2>1 DEF AnswersAsked
<1>16. ScriptTells(sent, a, w)
  BY <1>1, <1>7, <1>8, <1>9, <1>11 DEF ScriptTells
<1>17. RunTold(sent, a, w)
  BY <1>13, <1>14, <1>15, <1>16 DEF RunTold
<1>18. sent \o <<>> = sent /\ <<>> \in Seq(FeedEvent) /\ DOMAIN <<>> = {}
  BY <1>3
<1>19. Steps(a, <<>>, w)
  BY <1>1, <1>6, <1>11, <1>17, <1>18 DEF Steps
<1> QED BY <1>19

\* Its result goes out with the event that was held.
LEMMA ToolResultTold ==
  ASSUME FeedTypes, NEW a \in DOMAIN agent, RunTold(sent, a, agent[a]), ToolResult(a)
  PROVE  \E events, w : Steps(a, events, w)
<1> DEFINE r == agent[a]
           h == r.pending_tool_completed
           e == [h EXCEPT !.text = TRUE]
           es == <<"ToolResult">>
           w == [Goes(r, "returned", es) EXCEPT !.pending_tool_completed = NoEvent]
           t == sent \o <<e>>
<1>1. /\ r.pc = "returned" /\ h # NoEvent /\ emit(<<e>>) /\ UNCHANGED <<rows, sock, lost>>
      /\ agent' = [agent EXCEPT ![a] = w]
  BY DEF ToolResult, AgentOnly
<1>2. es \in Seq(LogLevels) /\ \A k \in DOMAIN es : es[k] # "ToolEnd"
  BY DEF LogLevels
<1>3. r \in FeedRun /\ "returned" \in FeedPcs /\ sent \in Seq(FeedEvent)
  BY RunContext DEF FeedPcs
<1>4. /\ e \in FeedEvent /\ e.type = "tool_completed" /\ e.job = a
      /\ e.tool = h.tool /\ e.ok = h.ok
  <2>1. h \in FeedEvent
    BY <1>1, <1>3 DEF FeedRun
  <2>2. h.type = "tool_completed" /\ h.job = a
    BY <1>1 DEF RunTold, ToolsAreTold
  <2> HIDE DEF h
  <2> QED BY <2>1, <2>2 DEF FeedEvent
<1>5. ToldTools(sent, a) \in Seq(Nat \X BOOLEAN)
  BY <1>3, FeedPlaces
<1>6. Appended(sent, e, t, a)
  BY <1>3, <1>4, EventAppended
<1> HIDE DEF es, e
<1>7. /\ w \in FeedRun /\ w.pc = "returned" /\ w.started_at = r.started_at
      /\ w.pending_tool_completed = NoEvent
      /\ w.responded = r.responded /\ w.answer = r.answer /\ w.announced = r.announced
      /\ w.early = r.early /\ w.ran = r.ran
      /\ Cardinality(Ends(w.entries)) = Cardinality(Ends(r.entries))
  <2> DEFINE q == [r EXCEPT !.pending_tool_completed = NoEvent]
  <2>1. /\ q.started_at = r.started_at /\ q.responded = r.responded /\ q.answer = r.answer
        /\ q.announced = r.announced /\ q.early = r.early /\ q.ran = r.ran
        /\ q.entries = r.entries
    BY <1>3 DEF FeedRun
  <2> HIDE DEF r
  <2>2. /\ w \in FeedRun /\ w.pc = "returned" /\ w.started_at = q.started_at
        /\ w.pending_tool_completed = NoEvent
        /\ w.responded = q.responded /\ w.answer = q.answer /\ w.announced = q.announced
        /\ w.early = q.early /\ w.ran = q.ran
        /\ Cardinality(Ends(w.entries)) = Cardinality(Ends(q.entries))
    BY <1>2, <1>3, HeldGoes
  <2> QED BY <2>1, <2>2
<1>8. h = r.pending_tool_completed /\ RunTold(sent, a, r)
  OBVIOUS
<1> HIDE DEF w, r, h, t
<1>9. Owed(w) = Owed(r)
  BY <1>1, <1>7 DEF Owed
<1>10. RunTold(t, a, w)
  <2> DEFINE s == sent
  <2>1. RunTold(s, a, r) /\ Appended(s, e, t, a) /\ ToldTools(s, a) \in Seq(Nat \X BOOLEAN)
    BY <1>5, <1>6, <1>8
  <2>2. /\ r.pending_tool_completed # NoEvent
        /\ e.tool = r.pending_tool_completed.tool /\ e.ok = r.pending_tool_completed.ok
        /\ ~e.text \/ r.pc = "returned"
        /\ w.pc = r.pc
    BY <1>1, <1>4, <1>7, <1>8
  <2>3. /\ w.started_at = r.started_at /\ w.responded = r.responded
        /\ w.pending_tool_completed = NoEvent /\ w.ran = r.ran /\ Owed(w) = Owed(r)
        /\ w.early = r.early /\ Cardinality(Ends(w.entries)) = Cardinality(Ends(r.entries))
        /\ e \in FeedEvent /\ e.type = "tool_completed" /\ e.job = a
    BY <1>4, <1>7, <1>9
  <2> HIDE DEF s
  <2> QED BY ONLY <2>1, <2>2, <2>3, FlushTold
<1>11. <<e>> \in Seq(FeedEvent) /\ \A k \in DOMAIN <<e>> : <<e>>[k] = e
  BY <1>4
<1>12. sent' = sent \o <<e>> /\ saving' = saving \cup (Len(sent) + 1 .. Len(sent) + Len(<<e>>))
  BY <1>1 DEF emit
<1>13. Steps(a, <<e>>, w)
  BY <1>1, <1>4, <1>7, <1>10, <1>11, <1>12 DEF Steps, t
<1> QED BY <1>13

\* One more approval is asked for.
LEMMA AskedMore ==
  ASSUME NEW s, NEW e, NEW t, NEW a, NEW r, NEW w, Appended(s, e, t, a), AnswersAsked(s, a, r),
         e.job = a, e.type = "approval_needed", ~w.early => ~r.early /\ Owed(w) <= Owed(r) + 1
  PROVE  AnswersAsked(t, a, w)
<1> DEFINE n == Len(s) + 1
           N == Place(s, a, "approval_needed")
           R == Place(s, a, "approval_resolved")
<1>1. /\ Place(t, a, "approval_needed") = N \cup {n} /\ Place(t, a, "approval_resolved") = R
      /\ n \notin N /\ \A j \in R : j \in Nat /\ j < n
      /\ IsFiniteSet(N) /\ IsFiniteSet(R) /\ n \in Nat
  BY DEF Appended, Joined
<1>2. /\ Cardinality(N \cup {n}) = Cardinality(N) + 1
      /\ Cardinality(N) \in Nat /\ Cardinality(R) \in Nat
  BY <1>1, FS_AddElement, FS_CardinalityType
<1>3. Owed(w) \in Nat /\ Owed(r) \in Nat
  BY OwedType
<1>4. ~w.early => /\ Cardinality(N) >= Cardinality(R) + Owed(r) /\ Owed(w) <= Owed(r) + 1
                  /\ \A j \in R : Cardinality({i \in N : i < j}) >= Cardinality({i \in R : i <= j})
  BY DEF AnswersAsked, Count
<1> HIDE DEF n, N, R
<1>5. ~w.early => Cardinality(N \cup {n}) >= Cardinality(R) + Owed(w)
  BY <1>2, <1>3, <1>4
<1>6. \A j \in R : {i \in N \cup {n} : i < j} = {i \in N : i < j}
  BY <1>1
<1> QED BY <1>1, <1>4, <1>5, <1>6 DEF AnswersAsked, Count

\* One more answer is announced.
LEMMA ResolvedMore ==
  ASSUME NEW s, NEW e, NEW t, NEW a, NEW r, NEW w, Appended(s, e, t, a), AnswersAsked(s, a, r),
         e.job = a, e.type = "approval_resolved", ~w.early => ~r.early /\ Owed(w) + 1 <= Owed(r)
  PROVE  AnswersAsked(t, a, w)
<1> DEFINE n == Len(s) + 1
           N == Place(s, a, "approval_needed")
           R == Place(s, a, "approval_resolved")
           S == R \cup {n}
<1>1. /\ Place(t, a, "approval_needed") = N /\ Place(t, a, "approval_resolved") = S
      /\ \A j \in R : j \in Nat /\ j < n
      /\ \A j \in N : j \in Nat /\ j < n
      /\ IsFiniteSet(N) /\ IsFiniteSet(R) /\ n \in Nat
  BY DEF Appended, Joined
<1>2. /\ Cardinality(S) = Cardinality(R) + 1
      /\ Cardinality(N) \in Nat /\ Cardinality(R) \in Nat
  <2>1. n \notin R
    BY <1>1
  <2> QED BY <1>1, <2>1, FS_AddElement, FS_CardinalityType
<1>3. Owed(w) \in Nat /\ Owed(r) \in Nat
  BY OwedType
<1>4. ~w.early => /\ Cardinality(N) >= Cardinality(R) + Owed(r) /\ Owed(w) + 1 <= Owed(r)
                  /\ \A j \in R : Cardinality({i \in N : i < j}) >= Cardinality({i \in R : i <= j})
  BY DEF AnswersAsked, Count
<1> HIDE DEF n, N, R
<1>5. ~w.early => Cardinality(N) >= Cardinality(S) + Owed(w) /\ Cardinality(N) >= Cardinality(S)
  BY <1>2, <1>3, <1>4
<1>6. \A j \in R : {i \in S : i <= j} = {i \in R : i <= j}
  BY <1>1
<1>7. {i \in N : i < n} = N /\ {i \in S : i <= n} = S
  BY <1>1
<1>8. ASSUME NEW j \in S, ~w.early
      PROVE  Cardinality({i \in N : i < j}) >= Cardinality({i \in S : i <= j})
  <2>1. CASE j \in R
    BY <1>4, <1>6, <1>8, <2>1
  <2>2. CASE j = n
    BY <1>5, <1>7, <1>8, <2>2
  <2> QED BY <2>1, <2>2
<1> HIDE DEF S
<1> QED BY <1>1, <1>5, <1>8 DEF AnswersAsked, Count

\* The card is out, and the event that tells of it follows.
LEMMA ApprovalEmitTold ==
  ASSUME FeedTypes, NEW a \in DOMAIN agent, RunTold(sent, a, agent[a]), ApprovalEmit(a)
  PROVE  \E events, w : Steps(a, events, w)
<1> DEFINE r == agent[a]
           e == Event("approval_needed", a)
           w == [r EXCEPT !.pc = "waiting"]
           t == sent \o <<e>>
<1>1. /\ r.pc = "asking" /\ emit(<<e>>) /\ UNCHANGED <<rows, sock, lost>>
      /\ agent' = [agent EXCEPT ![a] = w]
  BY DEF ApprovalEmit, AgentOnly
<1>2. /\ r \in FeedRun /\ sent \in Seq(FeedEvent) /\ e \in FeedEvent /\ e.job = a
      /\ e.type = "approval_needed"
  BY RunContext DEF TodoActivityMessage
<1>3. Appended(sent, e, t, a)
  BY <1>2, EventAppended
<1>4. /\ FeedBegins(sent, a, r) /\ FeedEnds(sent, a, r) /\ AnswersAsked(sent, a, r)
      /\ ToolsAreTold(sent, a, r) /\ ScriptTells(sent, a, r)
  BY DEF RunTold
<1> HIDE DEF r, e, t
<1>5. /\ w \in FeedRun /\ w.pc = "waiting" /\ w.entries = r.entries
      /\ w.started_at = r.started_at /\ w.ran = r.ran
      /\ w.pending_tool_completed = r.pending_tool_completed
      /\ w.responded = r.responded /\ w.answer = r.answer /\ w.announced = r.announced
      /\ w.early = r.early
  BY <1>2 DEF FeedRun, FeedPcs
<1> HIDE DEF w
<1>6. Owed(w) <= Owed(r) + 1
  BY <1>1, <1>5 DEF Owed, One
<1>7. AnswersAsked(t, a, w)
  BY <1>2, <1>3, <1>4, <1>5, <1>6, AskedMore
<1>8. FeedBegins(t, a, w)
  BY <1>1, <1>3, <1>4, <1>5, BeginsOn
<1>9. FeedEnds(t, a, w)
  <2>1. End(sent, a) = {}
    BY <1>1, <1>4 DEF FeedEnds, OpenPcs
  <2>2. FeedEnds(t, a, r)
    BY <1>2, <1>3, <1>4, <2>1, EndsOn
  <2> QED BY <1>1, <1>5, <2>2 DEF FeedEnds, OpenPcs
<1>10. ToolsAreTold(t, a, w)
  <2>1. ToolsAreTold(t, a, r)
    BY <1>2, <1>3, <1>4, ToolsOn
  <2> QED BY <1>1, <1>5, <2>1 DEF ToolsAreTold
<1>11. ScriptTells(t, a, w)
  <2>1. ScriptTells(t, a, r)
    BY <1>2, <1>3, <1>4, ScriptOn
  <2> QED BY <1>1, <1>5, <2>1 DEF ScriptTells
<1>12. RunTold(t, a, w)
  BY <1>7, <1>8, <1>9, <1>10, <1>11 DEF RunTold
<1>13. <<e>> \in Seq(FeedEvent) /\ \A k \in DOMAIN <<e>> : <<e>>[k] = e
  BY <1>2
<1>14. sent' = sent \o <<e>> /\ saving' = saving \cup (Len(sent) + 1 .. Len(sent) + Len(<<e>>))
  BY <1>1 DEF emit
<1>15. Steps(a, <<e>>, w)
  BY <1>1, <1>2, <1>5, <1>12, <1>13, <1>14 DEF Steps, t
<1> QED BY <1>15

\* The answer is announced, wherever the run is by then.
LEMMA ResolveAnnounceTold ==
  ASSUME FeedTypes, NEW a \in DOMAIN agent, RunTold(sent, a, agent[a]), ResolveAnnounce(a)
  PROVE  \E events, w : Steps(a, events, w)
<1> DEFINE r == agent[a]
           e == Event("approval_resolved", a)
           w == [r EXCEPT !.announced = TRUE]
           t == sent \o <<e>>
<1>1. /\ ~r.announced /\ r.pc # "dead" /\ sent' = t /\ saving' = saving
      /\ UNCHANGED <<rows, sock, lost>> /\ agent' = [agent EXCEPT ![a] = w]
  BY DEF ResolveAnnounce, Broadcast, AgentOnly
<1>2. /\ r \in FeedRun /\ sent \in Seq(FeedEvent) /\ e \in FeedEvent /\ e.job = a
      /\ e.type = "approval_resolved"
  BY RunContext DEF TodoActivityMessage
<1>3. Appended(sent, e, t, a)
  BY <1>2, EventAppended
<1>4. /\ FeedBegins(sent, a, r) /\ FeedEnds(sent, a, r) /\ AnswersAsked(sent, a, r)
      /\ ToolsAreTold(sent, a, r) /\ ScriptTells(sent, a, r)
  BY DEF RunTold
<1> HIDE DEF r, e, t
<1>5. /\ w \in FeedRun /\ w.pc = r.pc /\ w.entries = r.entries
      /\ w.started_at = r.started_at /\ w.ran = r.ran
      /\ w.pending_tool_completed = r.pending_tool_completed
      /\ w.responded = r.responded /\ w.answer = r.answer /\ w.announced = TRUE
      /\ w.early = r.early
  BY <1>2 DEF FeedRun
<1> HIDE DEF w
<1>6. Owed(w) + 1 <= Owed(r)
  BY <1>1, <1>5 DEF Owed, One
<1>7. AnswersAsked(t, a, w)
  BY <1>2, <1>3, <1>4, <1>5, <1>6, ResolvedMore
<1>8. FeedBegins(t, a, w)
  <2>1. r.pc # "none"
    BY <1>1, <1>4 DEF FeedBegins
  <2> QED BY <1>3, <1>4, <1>5, <2>1, BeginsOn
<1>9. FeedEnds(t, a, w)
  <2>1. \A i \in End(sent, a) : MayFollow(e, sent[i])
    BY <1>2 DEF MayFollow
  <2>2. FeedEnds(t, a, r)
    BY <1>2, <1>3, <1>4, <2>1, EndsOn
  <2> QED BY <1>5, <2>2 DEF FeedEnds
<1>10. ToolsAreTold(t, a, w)
  <2>1. ToolsAreTold(t, a, r)
    BY <1>2, <1>3, <1>4, ToolsOn
  <2> QED BY <1>5, <2>1 DEF ToolsAreTold
<1>11. ScriptTells(t, a, w)
  <2>1. ScriptTells(t, a, r)
    BY <1>2, <1>3, <1>4, ScriptOn
  <2> QED BY <1>5, <2>1 DEF ScriptTells
<1>12. RunTold(t, a, w)
  BY <1>7, <1>8, <1>9, <1>10, <1>11 DEF RunTold
<1>13. <<e>> \in Seq(FeedEvent) /\ \A k \in DOMAIN <<e>> : <<e>>[k] = e
  BY <1>2
<1>14. Steps(a, <<e>>, w)
  BY <1>1, <1>2, <1>5, <1>12, <1>13 DEF Steps, Bare, t
<1> QED BY <1>14

\* The model's text, or the notice that the tool was rejected, and completed.
LEMMA RespondTold ==
  ASSUME FeedTypes, NEW a \in DOMAIN agent, RunTold(sent, a, agent[a]), respond(a)
  PROVE  \E events, w : Steps(a, events, w)
<1> DEFINE r == agent[a]
           es == <<"Response">>
           g == Goes(r, "ending", es)
           w == [g EXCEPT !.responded = TRUE]
           e == Event("agent_response", a)
           f == Event("completed", a)
           s == sent \o <<e>>
           t == s \o <<f>>
           ev == <<e, f>>
<1>0. r.pc = "loop" \/ (r.pc = "waiting" /\ r.answer = "rejected")
  BY DEF respond
<1>1. /\ emit(ev) /\ UNCHANGED <<rows, sock, lost>> /\ agent' = [agent EXCEPT ![a] = w]
  BY DEF respond, AgentOnly
<1>2. es \in Seq(LogLevels) /\ \A k \in DOMAIN es : es[k] # "ToolEnd"
  BY DEF LogLevels
<1>3. /\ r \in FeedRun /\ sent \in Seq(FeedEvent) /\ "ending" \in FeedPcs
      /\ e \in FeedEvent /\ e.job = a /\ e.type = "agent_response"
      /\ f \in FeedEvent /\ f.job = a /\ f.type = "completed"
  BY RunContext DEF TodoActivityMessage, FeedPcs
<1>4. Appended(sent, e, s, a)
  BY <1>3, EventAppended
<1>5. s \in Seq(FeedEvent)
  BY <1>4 DEF Appended
<1> HIDE DEF es, r, e, f
<1>6. /\ g \in FeedRun /\ g.pc = "ending" /\ g.entries = r.entries \o es
      /\ g.started_at = r.started_at /\ g.pending_tool_completed = r.pending_tool_completed
      /\ g.answer = r.answer /\ g.announced = r.announced /\ g.early = r.early /\ g.ran = r.ran
  BY <1>2, <1>3, RunGoes
<1>7. Cardinality(Ends(r.entries \o es)) = Cardinality(Ends(r.entries))
  BY <1>2, <1>3, EntriesAdded DEF FeedRun
<1> HIDE DEF g
<1>8. /\ w \in FeedRun /\ w.pc = "ending" /\ w.entries = r.entries \o es
      /\ w.started_at = r.started_at /\ w.pending_tool_completed = r.pending_tool_completed
      /\ w.answer = r.answer /\ w.announced = r.announced /\ w.early = r.early /\ w.ran = r.ran
      /\ w.responded
  BY <1>6 DEF FeedRun
<1>9. t = sent \o ev /\ ev \in Seq(FeedEvent) /\ \A k \in DOMAIN ev : ev[k].job = a
  <2>1. /\ <<e>> \o <<f>> = <<e, f>> /\ <<e>> \in Seq(FeedEvent) /\ <<f>> \in Seq(FeedEvent)
        /\ <<e, f>> \in Seq(FeedEvent) /\ \A k \in DOMAIN <<e, f>> : <<e, f>>[k] \in {e, f}
    BY <1>3, ShortFeeds
  <2>2. (sent \o <<e>>) \o <<f>> = sent \o (<<e>> \o <<f>>)
    BY <1>3, <2>1
  <2> QED BY <1>3, <2>1, <2>2
<1> HIDE DEF s
<1>10. Appended(s, f, t, a)
  BY <1>3, <1>5, EventAppended
<1>11. RunTold(s, a, r)
  <2>1. r.pc \in OpenPcs \ {"none"}
    BY <1>0 DEF OpenPcs
  <2>2. RunTold(sent, a, r)
    BY DEF r
  <2> QED BY <1>3, <1>4, <2>1, <2>2, PassingTold
<1> HIDE DEF t, w, ev
<1>12. /\ FeedBegins(s, a, r) /\ FeedEnds(s, a, r) /\ AnswersAsked(s, a, r)
       /\ ToolsAreTold(s, a, r) /\ ScriptTells(s, a, r)
  BY <1>11 DEF RunTold
<1>13. FeedBegins(t, a, w)
  BY <1>0, <1>8, <1>10, <1>12, BeginsOn
<1>14. FeedEnds(t, a, w)
  <2>1. End(s, a) = {}
    BY <1>0, <1>12 DEF FeedEnds, OpenPcs
  <2> QED BY <1>3, <1>8, <1>10, <2>1, EndsNow
<1>15. AnswersAsked(t, a, w)
  <2>1. Owed(w) <= Owed(r) /\ Owed(w) = Owed(r)
    BY <1>0, <1>8 DEF Owed, One
  <2> QED BY <1>3, <1>8, <1>10, <1>12, <2>1, AskedOn
<1>16. ToolsAreTold(t, a, w)
  <2>1. ToolsAreTold(t, a, r)
    BY <1>3, <1>10, <1>12, ToolsOn
  <2> QED BY <1>0, <1>8, <2>1 DEF ToolsAreTold
<1>17. ScriptTells(t, a, w)
  <2>1. ScriptTells(t, a, r)
    BY <1>3, <1>10, <1>12, ScriptOn
  <2> QED BY <1>0, <1>7, <1>8, <2>1 DEF ScriptTells
<1>18. RunTold(t, a, w)
  BY <1>13, <1>14, <1>15, <1>16, <1>17 DEF RunTold
<1>19. sent' = sent \o ev /\ saving' = saving \cup (Len(sent) + 1 .. Len(sent) + Len(ev))
  BY <1>1 DEF emit
<1>20. \E x, y \in FeedEvent : ev = <<x, y>>
  BY <1>3 DEF ev
<1>21. Steps(a, ev, w)
  BY <1>1, <1>8, <1>9, <1>18, <1>19, <1>20 DEF Steps
<1> QED BY <1>21

\* What was held back, and failed when nothing was answered.
LEMMA ShutdownTold ==
  ASSUME FeedTypes, NEW a \in DOMAIN agent, RunTold(sent, a, agent[a]), shutdown(a)
  PROVE  \E events, w : Steps(a, events, w)
<1> DEFINE r == agent[a]
           q == [r EXCEPT !.pending_tool_completed = NoEvent]
           w == [r EXCEPT !.pc = "closing", !.pending_tool_completed = NoEvent]
           held == Flushed(a)
           e == Event("failed", a)
           tail == IF r.responded THEN <<>> ELSE <<e>>
           s == sent \o held
           ev == held \o tail
<1>1. /\ r.pc = "ending" /\ emit(ev) /\ UNCHANGED <<rows, sock, lost>>
      /\ agent' = [agent EXCEPT ![a].pc = "closing", ![a].pending_tool_completed = NoEvent]
  BY DEF shutdown, AgentOnly
<1>2. agent' = [agent EXCEPT ![a] = w]
  BY <1>1
<1>3. /\ r \in FeedRun /\ sent \in Seq(FeedEvent)
      /\ e \in FeedEvent /\ e.job = a /\ e.type = "failed"
  BY RunContext DEF TodoActivityMessage
<1>4. /\ RunTold(s, a, q)
      /\ (held = <<>> \/ \E x \in FeedEvent : x.job = a /\ held = <<x>>)
  BY HeldIsTold
<1>5. sent' = sent \o ev /\ saving' = saving \cup (Len(sent) + 1 .. Len(sent) + Len(ev))
  BY <1>1 DEF emit
<1> HIDE DEF held, e, r
<1>6. held \in Seq(FeedEvent) /\ \A k \in DOMAIN held : held[k].job = a
  <2>1. CASE held = <<>>
    BY <2>1
  <2>2. ASSUME NEW x \in FeedEvent, x.job = a, held = <<x>>
        PROVE  held \in Seq(FeedEvent) /\ \A k \in DOMAIN held : held[k].job = a
    BY <2>2, ShortFeeds
  <2> QED BY <1>4, <2>1, <2>2
<1>7. /\ q.pc = "ending" /\ q.entries = r.entries /\ q.started_at = r.started_at
      /\ q.ran = r.ran /\ q.pending_tool_completed = NoEvent /\ q.responded = r.responded
      /\ q.answer = r.answer /\ q.announced = r.announced /\ q.early = r.early
  BY <1>1, <1>3 DEF FeedRun
<1>8. /\ w \in FeedRun /\ w.pc = "closing" /\ w.entries = r.entries /\ w.started_at = r.started_at
      /\ w.ran = r.ran /\ w.pending_tool_completed = NoEvent /\ w.responded = r.responded
      /\ w.answer = r.answer /\ w.announced = r.announced /\ w.early = r.early
  <2> DEFINE x == [r EXCEPT !.pc = "closing"]
  <2>1. /\ x \in FeedRun /\ x.pc = "closing" /\ x.entries = r.entries /\ x.started_at = r.started_at
        /\ x.ran = r.ran /\ x.responded = r.responded
        /\ x.answer = r.answer /\ x.announced = r.announced /\ x.early = r.early
    BY <1>3 DEF FeedRun, FeedPcs
  <2>2. w = [x EXCEPT !.pending_tool_completed = NoEvent]
    OBVIOUS
  <2> HIDE DEF x, w
  <2> QED BY <2>1, <2>2 DEF FeedRun
<1>9. s \in Seq(FeedEvent)
  BY <1>3, <1>6
<1> HIDE DEF s, q, w
<1>10. Owed(w) = Owed(q)
  BY <1>7, <1>8 DEF Owed, One
<1>11. /\ FeedBegins(s, a, q) /\ FeedEnds(s, a, q) /\ AnswersAsked(s, a, q)
       /\ ToolsAreTold(s, a, q) /\ ScriptTells(s, a, q)
  BY <1>4 DEF RunTold
<1>12. CASE r.responded
  <2>1. ev = held
    <3>1. tail = <<>>
      BY <1>12
    <3> HIDE DEF tail
    <3> QED BY <1>6, <3>1
  <2>2. FeedBegins(s, a, w) /\ FeedEnds(s, a, w)
    BY <1>7, <1>8, <1>11, <1>12 DEF FeedBegins, FeedEnds, OpenPcs
  <2>3. AnswersAsked(s, a, w)
    BY <1>7, <1>8, <1>10, <1>11 DEF AnswersAsked
  <2>4. ToolsAreTold(s, a, w)
    BY <1>7, <1>8, <1>11 DEF ToolsAreTold
  <2>5. ScriptTells(s, a, w)
    BY <1>7, <1>8, <1>11 DEF ScriptTells
  <2>6. RunTold(sent \o ev, a, w)
    BY <2>1, <2>2, <2>3, <2>4, <2>5 DEF RunTold, s
  <2> HIDE DEF ev
  <2>7. \/ ev = <<>>
        \/ \E x \in FeedEvent : ev = <<x>>
        \/ \E x, y \in FeedEvent : ev = <<x, y>>
    BY <1>4, <2>1
  <2>8. ev \in Seq(FeedEvent) /\ \A k \in DOMAIN ev : ev[k].job = a
    BY <1>6, <2>1
  <2>9. Steps(a, ev, w)
    BY <1>1, <1>2, <1>5, <1>8, <2>6, <2>7, <2>8 DEF Steps
  <2> QED BY <2>9
<1>13. CASE ~r.responded
  <2>1. ev = held \o <<e>>
    BY <1>13
  <2> HIDE DEF ev
  <2>2. ev = <<e>> \/ \E x \in FeedEvent : x.job = a /\ ev = <<x, e>>
    <3>1. CASE held = <<>>
      <4>1. <<>> \o <<e>> = <<e>>
        BY <1>3
      <4> QED BY <2>1, <3>1, <4>1
    <3>2. ASSUME NEW x \in FeedEvent, x.job = a, held = <<x>>
          PROVE  ev = <<x, e>>
      BY <1>3, <2>1, <3>2, ShortFeeds
    <3> QED BY <1>4, <3>1, <3>2
  <2>3. ev \in Seq(FeedEvent) /\ \A k \in DOMAIN ev : ev[k].job = a
    <3>1. ASSUME NEW x \in FeedEvent, x.job = a, ev = <<x, e>>
          PROVE  ev \in Seq(FeedEvent) /\ \A k \in DOMAIN ev : ev[k].job = a
      BY <1>3, <3>1, ShortFeeds
    <3>2. CASE ev = <<e>>
      BY <1>3, <3>2, ShortFeeds
    <3> QED BY <2>2, <3>1, <3>2
  <2> DEFINE t == s \o <<e>>
  <2>4. t = sent \o ev
    BY <1>3, <1>6, <2>1 DEF s
  <2>5. Appended(s, e, t, a)
    BY <1>3, <1>9, EventAppended
  <2> HIDE DEF t
  <2>6. End(s, a) = {}
    BY <1>7, <1>11, <1>13 DEF FeedEnds
  <2>7. FeedBegins(t, a, w)
    BY <1>7, <1>8, <1>11, <2>5, BeginsOn
  <2>8. FeedEnds(t, a, w)
    BY <1>3, <1>8, <2>5, <2>6, EndsNow
  <2>9. AnswersAsked(t, a, w)
    BY <1>3, <1>7, <1>8, <1>10, <1>11, <2>5, AskedOn
  <2>10. ToolsAreTold(t, a, w)
    <3>1. ToolsAreTold(t, a, q)
      BY <1>3, <1>11, <2>5, ToolsOn
    <3> QED BY <1>7, <1>8, <3>1 DEF ToolsAreTold
  <2>11. ScriptTells(t, a, w)
    <3>1. ScriptTells(t, a, q)
      BY <1>3, <1>11, <2>5, ScriptOn
    <3> QED BY <1>7, <1>8, <3>1 DEF ScriptTells
  <2>12. RunTold(sent \o ev, a, w)
    BY <2>4, <2>7, <2>8, <2>9, <2>10, <2>11 DEF RunTold
  <2>13. \/ \E x \in FeedEvent : ev = <<x>>
         \/ \E x, y \in FeedEvent : ev = <<x, y>>
    BY <1>3, <2>2
  <2>14. Steps(a, ev, w)
    BY <1>1, <1>2, <1>5, <1>8, <2>3, <2>12, <2>13 DEF Steps
  <2> QED BY <2>14
<1> QED BY <1>12, <1>13

\* The transcript names the ends of the tools that the log holds.
LEMMA TranscriptEnds ==
  ASSUME NEW a, agent[a].entries \in Seq(LogLevels)
  PROVE  LET m == transcript_messages(a) IN
         m \in Seq(Roles) /\ {k \in DOMAIN m : m[k] = "tool_end"} = Ends(agent[a].entries)
<1> DEFINE es == agent[a].entries
           m == transcript_messages(a)
<1>1. \A x \in LogLevels : role(x) \in Roles /\ (role(x) = "tool_end" <=> x = "ToolEnd")
  <2>1. role("User") = "user"
    BY DEF role
  <2>2. role("System") = "system"
    BY DEF role
  <2>3. role("LlmError") = "system"
    BY DEF role
  <2>4. role("Failed") = "system"
    BY DEF role
  <2>5. role("Response") = "assistant"
    BY DEF role
  <2>6. role("ToolStart") = "tool_start"
    BY DEF role
  <2>7. role("ToolEnd") = "tool_end"
    BY DEF role
  <2>8. role("ToolResult") = "tool_result"
    BY DEF role
  <2>9. ASSUME NEW x \in LogLevels PROVE role(x) \in Roles
    BY <2>1, <2>2, <2>3, <2>4, <2>5, <2>6, <2>7, <2>8 DEF LogLevels, Roles
  <2>10. ASSUME NEW x \in LogLevels, x # "ToolEnd" PROVE role(x) # "tool_end"
    BY <2>1, <2>2, <2>3, <2>4, <2>5, <2>6, <2>8, <2>10 DEF LogLevels
  <2> QED BY <2>7, <2>9, <2>10
<1>2. Len(es) \in Nat /\ DOMAIN es = 1 .. Len(es) /\ \A i \in DOMAIN es : es[i] \in LogLevels
  BY ElementOfSeq
<1>3. m = [i \in 1 .. Len(es) |-> role(es[i])]
  BY DEF transcript_messages
<1> HIDE DEF es, m
<1>4. m \in Seq(Roles)
  BY <1>1, <1>2, <1>3
<1>5. DOMAIN m = DOMAIN es /\ \A i \in DOMAIN es : m[i] = role(es[i])
  BY <1>2, <1>3
<1>6. {k \in DOMAIN m : m[k] = "tool_end"} = Ends(es)
  BY <1>1, <1>2, <1>5 DEF Ends
<1> QED BY <1>4, <1>6 DEF m, es

\* The log is written, and the transcript of a run that failed is sent.
LEMMA FlushLogTold ==
  ASSUME FeedTypes, NEW a \in DOMAIN agent, RunTold(sent, a, agent[a]), flush(a)
  PROVE  \E events, w : Steps(a, events, w)
<1> DEFINE r == agent[a]
           m == transcript_messages(a)
           b == Event("transcript", a)
           e == [b EXCEPT !.messages = m]
           ev == IF r.responded THEN <<>> ELSE <<e>>
           w == [r EXCEPT !.pc = "ended"]
           t == sent \o <<e>>
<1>1. /\ r.pc = "closing" /\ emit(ev) /\ UNCHANGED <<rows, sock, lost>>
      /\ agent' = [agent EXCEPT ![a] = w]
  BY DEF flush, AgentOnly
<1>2. /\ r \in FeedRun /\ sent \in Seq(FeedEvent) /\ b \in FeedEvent /\ b.job = a
      /\ b.type = "transcript"
  BY RunContext DEF TodoActivityMessage
<1>3. m \in Seq(Roles) /\ {k \in DOMAIN m : m[k] = "tool_end"} = Ends(r.entries)
  BY <1>2, TranscriptEnds DEF FeedRun
<1>4. sent' = sent \o ev /\ saving' = saving \cup (Len(sent) + 1 .. Len(sent) + Len(ev))
  BY <1>1 DEF emit
<1> HIDE DEF b, m, r
<1>5. e \in FeedEvent /\ e.job = a /\ e.type = "transcript" /\ e.messages = m
  BY <1>2, <1>3 DEF FeedEvent
<1>6. Appended(sent, e, t, a)
  BY <1>2, <1>5, EventAppended
<1>7. /\ FeedBegins(sent, a, r) /\ FeedEnds(sent, a, r) /\ AnswersAsked(sent, a, r)
      /\ ToolsAreTold(sent, a, r) /\ ScriptTells(sent, a, r)
  BY DEF RunTold, r
<1>8. /\ w \in FeedRun /\ w.pc = "ended" /\ w.entries = r.entries
      /\ w.started_at = r.started_at /\ w.ran = r.ran
      /\ w.pending_tool_completed = r.pending_tool_completed
      /\ w.responded = r.responded /\ w.answer = r.answer /\ w.announced = r.announced
      /\ w.early = r.early
  BY <1>2 DEF FeedRun, FeedPcs
<1> HIDE DEF e, w
<1>9. Owed(w) = Owed(r)
  BY <1>1, <1>8 DEF Owed, One
<1>10. r.pending_tool_completed = NoEvent
  BY <1>1, <1>7 DEF ToolsAreTold
<1>11. CASE r.responded
  <2>1. ev = <<>>
    BY <1>11
  <2> HIDE DEF ev
  <2>2. sent \o ev = sent /\ ev \in Seq(FeedEvent) /\ DOMAIN ev = {}
    BY <1>2, <2>1
  <2>3. FeedBegins(sent, a, w) /\ FeedEnds(sent, a, w)
    BY <1>1, <1>7, <1>8 DEF FeedBegins, FeedEnds, OpenPcs
  <2>4. AnswersAsked(sent, a, w)
    BY <1>7, <1>8, <1>9 DEF AnswersAsked
  <2>5. ToolsAreTold(sent, a, w)
    BY <1>7, <1>8, <1>10 DEF ToolsAreTold
  <2>6. ScriptTells(sent, a, w)
    BY <1>1, <1>7, <1>8 DEF ScriptTells
  <2>7. RunTold(sent \o ev, a, w)
    BY <2>2, <2>3, <2>4, <2>5, <2>6 DEF RunTold
  <2>8. Steps(a, ev, w)
    BY <1>1, <1>4, <1>8, <2>1, <2>2, <2>7 DEF Steps
  <2> QED BY <2>8
<1>12. CASE ~r.responded
  <2>1. ev = <<e>>
    BY <1>12
  <2> HIDE DEF ev, t
  <2>2. t = sent \o ev
    BY <2>1 DEF t
  <2>3. FeedBegins(t, a, w)
    BY <1>1, <1>6, <1>7, <1>8, BeginsOn
  <2>4. FeedEnds(t, a, w)
    <3>1. \A i \in End(sent, a) : MayFollow(e, sent[i])
      BY <1>1, <1>5, <1>7, <1>12 DEF MayFollow, FeedEnds
    <3>2. FeedEnds(t, a, r)
      BY <1>5, <1>6, <1>7, <3>1, EndsOn
    <3> QED BY <1>1, <1>8, <3>2 DEF FeedEnds, OpenPcs
  <2>5. AnswersAsked(t, a, w)
    BY <1>5, <1>6, <1>7, <1>8, <1>9, AskedOn
  <2>6. ToolsAreTold(t, a, w)
    <3>1. ToolsAreTold(t, a, r)
      BY <1>5, <1>6, <1>7, ToolsOn
    <3> QED BY <1>8, <1>10, <3>1 DEF ToolsAreTold
  <2>7. ScriptTells(t, a, w)
    <3> DEFINE n == Len(sent) + 1
    <3>1. Place(sent, a, "transcript") = {} /\ Cardinality(Ends(r.entries)) = Len(r.ran)
      BY <1>1, <1>7 DEF ScriptTells
    <3>2. Place(t, a, "transcript") = {n} /\ t[n] = e
      BY <1>5, <1>6, <3>1 DEF Appended, Joined
    <3> HIDE DEF n
    <3>3. Cardinality({k \in DOMAIN e.messages : e.messages[k] = "tool_end"}) = Len(r.ran)
      BY <1>3, <1>5, <3>1
    <3> QED BY <1>8, <3>1, <3>2, <3>3 DEF ScriptTells
  <2>8. RunTold(sent \o ev, a, w)
    BY <2>2, <2>3, <2>4, <2>5, <2>6, <2>7 DEF RunTold
  <2>9. ev \in Seq(FeedEvent) /\ \A k \in DOMAIN ev : ev[k].job = a
    BY <1>5, <2>1, ShortFeeds
  <2>10. Steps(a, ev, w)
    BY <1>1, <1>4, <1>5, <1>8, <2>1, <2>8, <2>9 DEF Steps
  <2> QED BY <2>10
<1> QED BY <1>11, <1>12

\* Whatever a run does, its feed tells of it, and the other runs' feeds of them.
LEMMA RunStepTold ==
  ASSUME FeedTypes, EventsAreSaved, SockFollows,
         \A b \in DOMAIN agent : RunTold(sent, b, agent[b]),
         NEW a \in DOMAIN agent, RunStep(a)
  PROVE  /\ FeedTypes' /\ EventsAreSaved' /\ SockFollows'
         /\ DOMAIN agent' = DOMAIN agent
         /\ \A b \in DOMAIN agent : RunTold(sent', b, agent'[b])
<1>1. RunTold(sent, a, agent[a])
  OBVIOUS
<1>2. \E events, w : Steps(a, events, w)
  <2>1. CASE spawn_todo_agent(a)
    BY <1>1, <2>1, SpawnTold
  <2>2. CASE Begin(a)
    BY <1>1, <2>2, BeginTold
  <2>3. CASE Quit(a)
    BY <1>1, <2>3, QuitTold
  <2>4. CASE Thinking(a)
    BY <1>1, <2>4, ThinkingTold
  <2>5. CASE ToolStarted(a)
    BY <1>1, <2>5, ToolStartedTold
  <2>6. ASSUME NEW ok \in BOOLEAN, ToolCompleted(a, ok) PROVE \E events, w : Steps(a, events, w)
    BY <1>1, <2>6, ToolCompletedTold
  <2>7. ASSUME NEW ok \in BOOLEAN, ResolveSend(a, ok) PROVE \E events, w : Steps(a, events, w)
    BY <1>1, <2>7, ResolveSendTold
  <2>8. CASE ToolResult(a)
    BY <1>1, <2>8, ToolResultTold
  <2>9. CASE NextCall(a)
    BY <1>1, <2>9, NextCallTold
  <2>10. CASE ApprovalNeeded(a)
    BY <1>1, <2>10, ApprovalNeededTold
  <2>11. CASE ApprovalEmit(a)
    BY <1>1, <2>11, ApprovalEmitTold
  <2>12. CASE ResolveAnnounce(a)
    BY <1>1, <2>12, ResolveAnnounceTold
  <2>13. CASE respond(a)
    BY <1>1, <2>13, RespondTold
  <2>14. CASE shutdown(a)
    BY <1>1, <2>14, ShutdownTold
  <2>15. CASE flush(a)
    BY <1>1, <2>15, FlushLogTold
  <2> QED BY <2>1, <2>2, <2>3, <2>4, <2>5, <2>6, <2>7, <2>8, <2>9, <2>10, <2>11, <2>12, <2>13,
             <2>14, <2>15 DEF RunStep
<1>3. PICK events, w : Steps(a, events, w)
  BY <1>2
<1>4. /\ \/ events = <<>>
         \/ \E x \in FeedEvent : events = <<x>>
         \/ \E x, y \in FeedEvent : events = <<x, y>>
      /\ events \in Seq(FeedEvent) /\ \A k \in DOMAIN events : events[k].job = a
      /\ sent' = sent \o events
      /\ \/ saving' = saving \cup (Len(sent) + 1 .. Len(sent) + Len(events))
         \/ saving' = saving /\ \A k \in DOMAIN events : Bare(events[k])
      /\ agent' = [agent EXCEPT ![a] = w] /\ w \in FeedRun
      /\ RunTold(sent \o events, a, w)
      /\ rows' = rows /\ sock' = sock /\ lost' = lost
  BY <1>3 DEF Steps
<1>5. SockFollows'
  BY <1>4, SockWaits
<1>6. /\ EventsAreSaved'
      /\ sent' \in Seq(FeedEvent) /\ rows' \in Seq(DOMAIN sent')
      /\ saving' \subseteq DOMAIN sent' /\ lost' \subseteq DOMAIN sent'
  BY <1>4, EventsAreKept
<1>7. DOMAIN agent' = DOMAIN agent /\ agent' \in [DOMAIN agent -> FeedRun]
  BY <1>4 DEF FeedTypes
<1>8. FeedTypes'
  BY <1>6, <1>7 DEF FeedTypes
<1>9. ASSUME NEW b \in DOMAIN agent PROVE RunTold(sent', b, agent'[b])
  <2>1. CASE b = a
    BY <1>4, <2>1 DEF FeedTypes
  <2>2. CASE b # a
    <3>0. sent \in Seq(FeedEvent) /\ agent'[b] = agent[b] /\ RunTold(sent, b, agent[b])
      BY <1>4, <2>2 DEF FeedTypes
    <3>1. CASE events = <<>>
      <4>1. sent \o <<>> = sent
        BY <3>0
      <4> QED BY <1>4, <3>0, <3>1, <4>1
    <3>2. ASSUME NEW x \in FeedEvent, events = <<x>> PROVE RunTold(sent \o events, b, agent[b])
      <4>1. x.job # b
        <5>1. 1 \in DOMAIN events /\ events[1] = x
          BY <3>2
        <5> QED BY <1>4, <2>2, <5>1
      <4>2. Appended(sent, x, sent \o <<x>>, b)
        BY <3>0, EventAppended
      <4> QED BY <3>0, <3>2, <4>1, <4>2, OthersTold
    <3>3. ASSUME NEW x \in FeedEvent, NEW y \in FeedEvent, events = <<x, y>>
          PROVE  RunTold(sent \o events, b, agent[b])
      <4>1. x.job # b /\ y.job # b
        <5>1. /\ 1 \in DOMAIN events /\ events[1] = x
              /\ 2 \in DOMAIN events /\ events[2] = y
          BY <3>3
        <5> QED BY <1>4, <2>2, <5>1
      <4> DEFINE s == sent \o <<x>>
                 t == s \o <<y>>
      <4>2. Appended(sent, x, s, b)
        BY <3>0, EventAppended
      <4>3. s \in Seq(FeedEvent)
        BY <4>2 DEF Appended
      <4>4. t = sent \o events
        <5>1. <<x>> \o <<y>> = <<x, y>> /\ <<x>> \in Seq(FeedEvent) /\ <<y>> \in Seq(FeedEvent)
          BY ShortFeeds
        <5>2. (sent \o <<x>>) \o <<y>> = sent \o (<<x>> \o <<y>>)
          BY <3>0, <5>1
        <5> QED BY <3>3, <5>1, <5>2
      <4> HIDE DEF s
      <4>5. Appended(s, y, t, b)
        BY <4>3, EventAppended
      <4> HIDE DEF t
      <4>6. RunTold(s, b, agent[b])
        BY <3>0, <4>1, <4>2, OthersTold
      <4>7. RunTold(t, b, agent[b])
        BY <4>1, <4>5, <4>6, OthersTold
      <4> QED BY <4>4, <4>7
    <3> QED BY <1>4, <3>0, <3>1, <3>2, <3>3
  <2> QED BY <2>1, <2>2
<1> QED BY <1>5, <1>6, <1>7, <1>8, <1>9

-----------------------------------------------------------------------------
(* Log files.                                                              *)

\* What a cleanup would remove is removed from more files as well.
LEMMA DeleteMore ==
  ASSUME NEW F, NEW W \in SUBSET Nat, IsFiniteSet(W), F \subseteq W
  PROVE  ToDelete(F) \subseteq ToDelete(W)
<1> SUFFICES ASSUME NEW x \in ToDelete(F) PROVE x \in ToDelete(W)
  OBVIOUS
<1> DEFINE lo(S) == {y \in S : y < x}
           hi(S) == {y \in S : ~(y < x)}
<1>1. ASSUME NEW S \in SUBSET W
      PROVE  /\ IsFiniteSet(S) /\ IsFiniteSet(lo(S)) /\ IsFiniteSet(hi(S))
             /\ Cardinality(S) \in Nat /\ Cardinality(lo(S)) \in Nat /\ Cardinality(hi(S)) \in Nat
             /\ Cardinality(S) = Cardinality(lo(S)) + Cardinality(hi(S))
  <2>1. IsFiniteSet(S)
    BY FS_Subset
  <2>2. IsFiniteSet(lo(S)) /\ IsFiniteSet(hi(S))
    <3>1. lo(S) \in SUBSET S /\ hi(S) \in SUBSET S
      OBVIOUS
    <3> QED BY <2>1, <3>1, FS_Subset
  <2>3. lo(S) \cup hi(S) = S /\ lo(S) \cap hi(S) = {}
    OBVIOUS
  <2>4. Cardinality(lo(S) \cap hi(S)) = 0
    BY <2>3, FS_EmptySet
  <2> DEFINE A == lo(S)
             B == hi(S)
  <2> HIDE DEF A, B
  <2>5. Cardinality(A \cup B) = Cardinality(A) + Cardinality(B) - Cardinality(A \cap B)
    BY <2>2, FS_Union DEF A, B
  <2>6. Cardinality(A) \in Nat /\ Cardinality(B) \in Nat /\ Cardinality(S) \in Nat
    BY <2>1, <2>2, FS_CardinalityType DEF A, B
  <2>7. A \cup B = S /\ Cardinality(A \cap B) = 0
    BY <2>3, <2>4 DEF A, B
  <2>8. Cardinality(S) = Cardinality(A) + Cardinality(B)
    <3> DEFINE p == Cardinality(A)
               q == Cardinality(B)
               c == Cardinality(S)
               d == Cardinality(A \cap B)
    <3>1. c = p + q - d
      BY <2>5, <2>7
    <3>2. p \in Nat /\ q \in Nat /\ c \in Nat /\ d = 0
      BY <2>6, <2>7
    <3> HIDE DEF p, q, c, d
    <3>3. c = p + q
      BY <3>1, <3>2
    <3> QED BY <3>3 DEF p, q, c
  <2> QED BY <2>1, <2>2, <2>6, <2>8 DEF A, B
<1>2. x \in F /\ Cardinality(lo(F)) < Cardinality(F) - MAX_LOG_FILES
  BY DEF ToDelete
<1>3. hi(F) \in SUBSET hi(W) /\ F \in SUBSET W /\ W \in SUBSET W
  OBVIOUS
<1>4. Cardinality(hi(F)) <= Cardinality(hi(W))
  <2>1. IsFiniteSet(hi(W))
    BY <1>1, <1>3
  <2> HIDE DEF hi
  <2> QED BY <1>3, <2>1, FS_Subset
<1>5. MAX_LOG_FILES \in Nat
  BY ActivityFeedAssumption
<1>6. Cardinality(lo(W)) < Cardinality(W) - MAX_LOG_FILES
  <2> DEFINE a == Cardinality(lo(F))
             b == Cardinality(hi(F))
             c == Cardinality(lo(W))
             d == Cardinality(hi(W))
             f == Cardinality(F)
             g == Cardinality(W)
  <2>1. a \in Nat /\ b \in Nat /\ c \in Nat /\ d \in Nat /\ f = a + b /\ g = c + d
    BY <1>1, <1>3
  <2>2. a < f - MAX_LOG_FILES /\ b <= d
    BY <1>2, <1>4
  <2> HIDE DEF a, b, c, d, f, g
  <2>3. c < g - MAX_LOG_FILES
    BY <1>5, <2>1, <2>2
  <2> QED BY <2>3 DEF c, g
<1> QED BY <1>2, <1>6 DEF ToDelete

\* A log is written.
LEMMA LogWritten ==
  ASSUME FeedTypes, LogsKept, NEW a \in DOMAIN agent, flush(a)
  PROVE  LogsKept'
<1> DEFINE x == agent[a].started_at
           F == logs.files
           W == logs.written
           D == logs.deleting
           V == W \cup {x}
<1>1. /\ logs = [files |-> F, written |-> W, spawned |-> logs.spawned, deleting |-> D]
      /\ W \in SUBSET Nat /\ IsFiniteSet(W) /\ F \subseteq W
      /\ \A names \in D : names \subseteq ToDelete(W)
      /\ W \ ToDelete(W) \subseteq F
  BY DEF LogsKept, NewestLogsKept
<1>2. x \in Nat
  BY DEF FeedTypes, FeedRun
<1> DEFINE n == logs.spawned
           m == n + 1
<1>3. logs' = [logs EXCEPT !.files = F \cup {x}, !.written = V, !.spawned = m]
  BY DEF flush
<1>0. logs = [files |-> F, written |-> W, spawned |-> n, deleting |-> D]
  BY <1>1
<1> HIDE DEF x, F, W, D, n, m, V
<1>4. logs'.files = F \cup {x} /\ logs'.written = V /\ logs'.deleting = D
      /\ logs' = [files |-> logs'.files, written |-> logs'.written, spawned |-> logs'.spawned,
                  deleting |-> logs'.deleting]
  <2>1. logs' = [files |-> F \cup {x}, written |-> V, spawned |-> m, deleting |-> D]
    BY <1>0, <1>3
  <2> QED BY <2>1
<1>5. V \in SUBSET Nat /\ IsFiniteSet(V) /\ F \cup {x} \subseteq V
  BY <1>1, <1>2, FS_AddElement DEF V
<1>6. ToDelete(W) \subseteq ToDelete(V)
  <2>1. W \subseteq V
    BY DEF V
  <2> QED BY <1>5, <2>1, DeleteMore
<1>7. V \ ToDelete(V) \subseteq F \cup {x}
  BY <1>1, <1>6 DEF V
<1>8. \A names \in D : names \subseteq ToDelete(V)
  BY <1>1, <1>6
<1> QED BY <1>4, <1>5, <1>7, <1>8 DEF LogsKept, NewestLogsKept

\* A cleanup lists files to remove, or removes those it listed.
LEMMA LogsCleaned ==
  ASSUME LogsKept, CleanupList \/ \E names \in logs.deleting : CleanupDelete(names)
  PROVE  LogsKept'
<1> DEFINE F == logs.files
           W == logs.written
           D == logs.deleting
<1>1. /\ logs = [files |-> F, written |-> W, spawned |-> logs.spawned, deleting |-> D]
      /\ W \in SUBSET Nat /\ IsFiniteSet(W) /\ F \subseteq W
      /\ \A names \in D : names \subseteq ToDelete(W)
      /\ W \ ToDelete(W) \subseteq F
  BY DEF LogsKept, NewestLogsKept
<1>2. CASE CleanupList
  <2> DEFINE E == (D \cup {ToDelete(F)}) \ {{}}
             n == logs.spawned
             m == n - 1
  <2>1. logs' = [logs EXCEPT !.spawned = m, !.deleting = E]
    BY <1>2 DEF CleanupList
  <2>0. logs = [files |-> F, written |-> W, spawned |-> n, deleting |-> D]
    BY <1>1
  <2> HIDE DEF F, W, D, n, m
  <2>2. \A names \in E : names \subseteq ToDelete(W)
    BY <1>1, DeleteMore
  <2> HIDE DEF E
  <2>3. logs'.files = F /\ logs'.written = W /\ logs'.deleting = E
        /\ logs' = [files |-> logs'.files, written |-> logs'.written, spawned |-> logs'.spawned,
                    deleting |-> logs'.deleting]
    <3>1. logs' = [files |-> F, written |-> W, spawned |-> m, deleting |-> E]
      BY <2>0, <2>1
    <3> QED BY <3>1
  <2> QED BY <1>1, <2>2, <2>3 DEF LogsKept, NewestLogsKept
<1>3. ASSUME NEW names \in logs.deleting, CleanupDelete(names) PROVE LogsKept'
  <2> DEFINE G == F \ names
             E == D \ {names}
             n == logs.spawned
  <2>1. logs' = [logs EXCEPT !.files = G, !.deleting = E]
    BY <1>3 DEF CleanupDelete
  <2>0. logs = [files |-> F, written |-> W, spawned |-> n, deleting |-> D]
    BY <1>1
  <2>2. names \subseteq ToDelete(W)
    BY <1>1
  <2> HIDE DEF F, W, D, G, E, n
  <2>3. logs'.files = G /\ logs'.written = W /\ logs'.deleting = E
        /\ logs' = [files |-> logs'.files, written |-> logs'.written, spawned |-> logs'.spawned,
                    deleting |-> logs'.deleting]
    <3>1. logs' = [files |-> G, written |-> W, spawned |-> n, deleting |-> E]
      BY <2>0, <2>1
    <3> QED BY <3>1
  <2> QED BY <1>1, <2>2, <2>3 DEF LogsKept, NewestLogsKept, G, E
<1> QED BY <1>2, <1>3

\* Of what a run does, only flush touches the log files.
LEMMA RunStepLogs ==
  ASSUME FeedTypes, LogsKept, NEW a \in DOMAIN agent, RunStep(a)
  PROVE  LogsKept'
<1>1. flush(a) \/ logs' = logs
  BY DEF RunStep, spawn_todo_agent, Begin, Quit, Thinking, ToolStarted, ToolCompleted, ResolveSend,
         ToolResult, NextCall, ApprovalNeeded, ApprovalEmit, ResolveAnnounce, respond, shutdown
<1>2. logs' = logs => LogsKept'
  BY DEF LogsKept, NewestLogsKept
<1> QED BY <1>1, <1>2, LogWritten

-----------------------------------------------------------------------------
(* The other steps, and the theorems.                                      *)

\* A message typed on the phone.
LEMMA UserMessageTold ==
  ASSUME FeedTypes, EventsAreSaved, SockFollows,
         \A b \in DOMAIN agent : RunTold(sent, b, agent[b]), UserMessage
  PROVE  /\ FeedTypes' /\ EventsAreSaved' /\ SockFollows'
         /\ \A b \in DOMAIN agent : RunTold(sent', b, agent[b])
<1> DEFINE e == EventOf("user_message", "none", Watched)
           t == sent \o <<e>>
<1>1. /\ sent' = t /\ saving' = saving \cup (Len(sent) + 1 .. Len(sent) + Len(<<e>>))
      /\ agent' = agent /\ rows' = rows /\ sock' = sock /\ lost' = lost
  BY DEF UserMessage, emit
<1>2. sent \in Seq(FeedEvent) /\ DOMAIN agent \subseteq FeedAgents /\ "none" \notin FeedAgents
  BY ActivityFeedAssumption DEF FeedTypes
<1>3. e \in FeedEvent /\ e.job = "none"
  <2>1. <<>> \in Seq(Roles)
    OBVIOUS
  <2> QED BY <2>1 DEF FeedEvent, EventOf, TodoActivityMessage
<1> HIDE DEF e
<1>4. <<e>> \in Seq(FeedEvent)
  BY <1>3
<1>5. SockFollows'
  BY <1>1, <1>4, SockWaits
<1>6. /\ EventsAreSaved' /\ sent' \in Seq(FeedEvent) /\ rows' \in Seq(DOMAIN sent')
      /\ saving' \subseteq DOMAIN sent' /\ lost' \subseteq DOMAIN sent'
  BY <1>1, <1>4, EventsAreKept
<1>7. FeedTypes'
  BY <1>1, <1>6 DEF FeedTypes
<1>8. ASSUME NEW b \in DOMAIN agent PROVE RunTold(t, b, agent[b])
  <2>1. Appended(sent, e, t, b)
    BY <1>2, <1>3, EventAppended
  <2>2. e.job # b /\ RunTold(sent, b, agent[b])
    BY <1>2, <1>3
  <2> HIDE DEF t
  <2> QED BY <2>1, <2>2, OthersTold
<1> QED BY <1>1, <1>5, <1>6, <1>7, <1>8

\* The process dies and takes the saves under way with it.
LEMMA CrashTold ==
  ASSUME FeedInv, FeedCrash
  PROVE  FeedInv'
<1>1. /\ agent' = [a \in DOMAIN agent |->
                     IF agent[a].pc = "none" THEN agent[a] ELSE [agent[a] EXCEPT !.pc = "dead"]]
      /\ saving' = {} /\ lost' = lost \cup saving /\ sent' = sent /\ rows' = rows
      /\ sock' = IF sock.phase = "absent" THEN sock ELSE NoSock
      /\ logs' = [logs EXCEPT !.spawned = 0, !.deleting = {}]
  BY DEF FeedCrash
<1>2. FeedTypes /\ EventsAreSaved /\ SockFollows /\ LogsKept
  BY DEF FeedInv
<1>3. ASSUME NEW a \in DOMAIN agent
      PROVE  agent'[a] \in FeedRun /\ RunTold(sent, a, agent'[a])
  <2> DEFINE r == agent[a]
             w == [r EXCEPT !.pc = "dead"]
  <2>1. r \in FeedRun /\ RunTold(sent, a, r) /\ sent \in Seq(FeedEvent)
    BY <1>2 DEF FeedInv, FeedTypes
  <2>2. agent'[a] = IF r.pc = "none" THEN r ELSE w
    BY <1>1
  <2> HIDE DEF r
  <2>3. CASE r.pc = "none"
    BY <2>1, <2>2, <2>3
  <2>4. CASE r.pc # "none"
    <3>1. /\ w \in FeedRun /\ w.pc = "dead" /\ w.entries = r.entries
          /\ w.started_at = r.started_at /\ w.ran = r.ran
          /\ w.pending_tool_completed = r.pending_tool_completed
          /\ w.responded = r.responded /\ w.answer = r.answer /\ w.announced = r.announced
          /\ w.early = r.early
      BY <2>1 DEF FeedRun, FeedPcs
    <3> HIDE DEF w
    <3>2. Quiet(r, w)
      BY <2>4, <3>1 DEF Quiet, OpenPcs, Owed, One
    <3>3. Owed(w) \in Nat /\ Owed(r) \in Nat /\ \A type : IsFiniteSet(Place(sent, a, type))
      BY <2>1, OwedType, FeedPlaces
    <3>4. RunTold(sent, a, w)
      <4> DEFINE s == sent
      <4>1. RunTold(s, a, r) /\ \A type : IsFiniteSet(Place(s, a, type))
        BY <2>1, <3>3
      <4> HIDE DEF s
      <4>2. RunTold(s, a, w)
        BY <3>2, <3>3, <4>1, SilentTold
      <4> QED BY <4>2 DEF s
    <3> QED BY <2>2, <2>4, <3>1, <3>4
  <2> QED BY <2>3, <2>4
<1>4. FeedTypes'
  <2>1. DOMAIN agent' = DOMAIN agent /\ agent' \in [DOMAIN agent -> FeedRun]
    BY <1>1, <1>3
  <2> QED BY <1>1, <1>2, <2>1 DEF FeedTypes
<1>5. EventsAreSaved'
  BY <1>1, <1>2 DEF EventsAreSaved, Bare
<1>6. SockFollows'
  <2>1. sock'.phase \notin {"replay", "live"}
    BY <1>1 DEF NoSock
  <2>2. sock' = [phase |-> sock'.phase, seen |-> sock'.seen, at |-> sock'.at, pos |-> sock'.pos,
                 racing |-> sock'.racing, missed |-> sock'.missed]
    BY <1>1, <1>2 DEF SockFollows, NoSock
  <2> QED BY <2>1, <2>2 DEF SockFollows
<1>7. LogsKept'
  <2>1. /\ logs'.files = logs.files /\ logs'.written = logs.written /\ logs'.deleting = {}
        /\ logs' = [files |-> logs'.files, written |-> logs'.written, spawned |-> logs'.spawned,
                    deleting |-> logs'.deleting]
    BY <1>1, <1>2 DEF LogsKept
  <2> QED BY <1>2, <2>1 DEF LogsKept, NewestLogsKept
<1>8. \A a \in DOMAIN agent' : RunTold(sent', a, agent'[a])
  BY <1>1, <1>3
<1> QED BY <1>4, <1>5, <1>6, <1>7, <1>8 DEF FeedInv

\* Before any agent runs nothing is sent, saved, shown or logged.
LEMMA FeedBeginsWell == FeedInit => FeedInv
<1> SUFFICES ASSUME NEW s \in Scenarios, FeedStart(s) PROVE FeedInv
  BY DEF FeedInit
<1>1. /\ agent = [a \in s.runs |-> NewRun(s.tools)]
      /\ sock = IF s.phone THEN NoSock ELSE [NoSock EXCEPT !.phase = "absent"]
      /\ sent = <<>> /\ saving = {} /\ rows = <<>> /\ lost = {}
      /\ logs = [files |-> {}, written |-> {}, spawned |-> 0, deleting |-> {}]
  BY DEF FeedStart
<1>2. s.runs \subseteq FeedAgents /\ s.tools \in Nat
  BY ActivityFeedAssumption
<1>3. sent \in Seq(FeedEvent) /\ DOMAIN sent = {} /\ rows \in Seq(DOMAIN sent) /\ DOMAIN rows = {}
  BY <1>1
<1> DEFINE w == NewRun(s.tools)
<1>4. w \in FeedRun
  <2>1. <<>> \in Seq(LogLevels) /\ <<>> \in Seq(Nat \X BOOLEAN)
    OBVIOUS
  <2> QED BY <1>2, <2>1 DEF NewRun, FeedRun, FeedPcs
<1>5. FeedTypes
  BY <1>1, <1>2, <1>3, <1>4 DEF FeedTypes
<1>6. EventsAreSaved
  BY <1>3 DEF EventsAreSaved
<1>7. SockFollows
  BY <1>1 DEF SockFollows, NoSock
<1>8. LogsKept
  <2>1. IsFiniteSet({})
    BY FS_EmptySet
  <2> QED BY <1>1, <2>1 DEF LogsKept, NewestLogsKept
<1>9. ASSUME NEW a \in DOMAIN agent PROVE RunTold(sent, a, agent[a])
  <2>1. agent[a] = w
    BY <1>1
  <2>2. /\ w.pc = "none" /\ w.announced /\ w.answer = "none" /\ ~w.early
        /\ w.pending_tool_completed = NoEvent /\ w.ran = <<>> /\ w.entries = <<>>
    BY DEF NewRun
  <2> HIDE DEF w
  <2>3. OfJob(sent, a) = {} /\ End(sent, a) = {} /\ \A type : Place(sent, a, type) = {}
    BY <1>3 DEF OfJob, End, Place
  <2>4. FeedBegins(sent, a, w) /\ FeedEnds(sent, a, w)
    BY <2>2, <2>3 DEF FeedBegins, FeedEnds
  <2>5. AnswersAsked(sent, a, w)
    <3>1. Owed(w) = 0 /\ Cardinality({}) = 0
      BY <2>2, FS_EmptySet DEF Owed, One
    <3> QED BY <2>3, <3>1 DEF AnswersAsked, Count
  <2>6. ToolsAreTold(sent, a, w)
    <3> DEFINE T == {e \in FeedEvent : e.job = a /\ e.type = "tool_completed"}
               u == Sift(sent, T)
    <3>1. u \in Seq(FeedEvent \cap T)
      BY <1>3, SiftType
    <3>2. {u[k] : k \in DOMAIN u} = {sent[j] : j \in DOMAIN sent} \cap T
      <4>1. sent \in Seq(FeedEvent)
        BY <1>3
      <4> HIDE DEF T
      <4>2. /\ {u[k] : k \in DOMAIN u} = {sent[j] : j \in DOMAIN sent} \cap T
            /\ (\A i, j \in DOMAIN sent : i # j => sent[i] # sent[j]) =>
                  \A i, j \in DOMAIN u : i # j => u[i] # u[j]
        BY ONLY <4>1, SiftMembers
      <4> QED BY <4>2
    <3>3. ToldTools(sent, a) = [i \in DOMAIN u |-> <<u[i].tool, u[i].ok>>]
      BY DEF ToldTools, ToolEvents
    <3> HIDE DEF u, T
    <3>4. DOMAIN u = {}
      BY <1>3, <3>2
    <3>5. ToldTools(sent, a) \in Seq(Nat \X BOOLEAN) /\ DOMAIN ToldTools(sent, a) = {}
      BY <1>3, <3>3, <3>4, FeedPlaces
    <3>6. ToldTools(sent, a) = <<>>
      BY <3>5
    <3>7. <<>> \o <<>> = <<>>
      OBVIOUS
    <3> QED BY <2>2, <3>6, <3>7 DEF ToolsAreTold, PendingPair
  <2>7. ScriptTells(sent, a, w)
    <3>1. Ends(w.entries) = {} /\ Len(w.ran) = 0
      BY <2>2 DEF Ends
    <3>2. Cardinality({}) = 0
      BY FS_EmptySet
    <3> QED BY <2>2, <2>3, <3>1, <3>2 DEF ScriptTells
  <2> QED BY <2>1, <2>4, <2>5, <2>6, <2>7 DEF RunTold
<1> QED BY <1>5, <1>6, <1>7, <1>8, <1>9 DEF FeedInv

\* Every step of the agents, the store, the socket and the logs keeps the invariant.
LEMMA FeedStep == FeedInv /\ [FeedNext]_feedVars => FeedInv'
<1> SUFFICES ASSUME FeedInv, [FeedNext]_feedVars PROVE FeedInv'
  OBVIOUS
<1>0. /\ FeedTypes /\ EventsAreSaved /\ SockFollows /\ LogsKept
      /\ \A a \in DOMAIN agent : RunTold(sent, a, agent[a])
  BY DEF FeedInv
<1>1. LogsKept /\ logs' = logs => LogsKept'
  BY DEF LogsKept, NewestLogsKept
<1>2. (\A a \in DOMAIN agent : RunTold(sent, a, agent[a])) /\ agent' = agent /\ sent' = sent
        => \A a \in DOMAIN agent' : RunTold(sent', a, agent'[a])
  OBVIOUS
<1>3. FeedTypes /\ EventsAreSaved /\ UNCHANGED <<agent, sent, saving, rows, lost>>
        => FeedTypes' /\ EventsAreSaved'
  BY DEF FeedTypes, EventsAreSaved, Bare
<1>4. SockFollows /\ UNCHANGED <<sent, sock>> /\ lost \subseteq lost' => SockFollows'
  BY DEF SockFollows, Accounted, Bare
<1>5. ASSUME NEW a \in DOMAIN agent, RunStep(a) PROVE FeedInv'
  <2>1. /\ FeedTypes' /\ EventsAreSaved' /\ SockFollows'
        /\ DOMAIN agent' = DOMAIN agent
        /\ \A b \in DOMAIN agent : RunTold(sent', b, agent'[b])
    BY <1>0, <1>5, RunStepTold
  <2>2. LogsKept'
    BY <1>0, <1>5, RunStepLogs
  <2> QED BY <2>1, <2>2 DEF FeedInv
<1>6. ASSUME NEW i \in saving, NEW ok \in BOOLEAN, save_job_action(i, ok) PROVE FeedInv'
  <2>1. UNCHANGED <<agent, sent, sock, logs>>
    BY <1>6 DEF save_job_action
  <2>2. FeedTypes' /\ EventsAreSaved' /\ lost \subseteq lost'
    BY <1>0, <1>6, FeedSaves
  <2> QED BY <1>0, <1>1, <1>2, <1>4, <2>1, <2>2 DEF FeedInv
<1>7. CASE CleanupList \/ \E names \in logs.deleting : CleanupDelete(names)
  <2>1. UNCHANGED <<agent, sent, saving, rows, sock, lost>>
    BY <1>7 DEF CleanupList, CleanupDelete
  <2>2. LogsKept'
    BY <1>0, <1>7, LogsCleaned
  <2> QED BY <1>0, <1>2, <1>3, <1>4, <2>1, <2>2 DEF FeedInv
<1>8. ASSUME NEW ok \in BOOLEAN, Connect(ok) PROVE FeedInv'
  <2>1. UNCHANGED <<agent, sent, logs>>
    BY <1>8 DEF Connect
  <2>2. SockFollows' /\ FeedTypes' /\ EventsAreSaved'
    BY <1>0, <1>8, SockConnects
  <2> QED BY <1>0, <1>1, <1>2, <2>1, <2>2 DEF FeedInv
<1>9. CASE Subscribe \/ Receive \/ Lagged
  <2>1. UNCHANGED <<agent, sent, saving, rows, logs, lost>>
    BY <1>9 DEF Subscribe, Receive, Lagged
  <2>2. SockFollows'
    BY <1>0, <1>9, SockSubscribes, SockReceives, SockLags
  <2> QED BY <1>0, <1>1, <1>2, <1>3, <2>1, <2>2 DEF FeedInv
<1>10. CASE UserMessage
  <2>1. UNCHANGED <<agent, logs>>
    BY <1>10 DEF UserMessage
  <2>2. /\ FeedTypes' /\ EventsAreSaved' /\ SockFollows'
        /\ \A b \in DOMAIN agent : RunTold(sent', b, agent[b])
    BY <1>0, <1>10, UserMessageTold
  <2> QED BY <1>0, <1>1, <2>1, <2>2 DEF FeedInv
<1>11. CASE Disconnect
  <2>1. UNCHANGED <<agent, sent, saving, rows, logs, lost>> /\ sock' = NoSock
    BY <1>11 DEF Disconnect
  <2>2. SockFollows'
    BY <2>1 DEF SockFollows, NoSock
  <2> QED BY <1>0, <1>1, <1>2, <1>3, <2>1, <2>2 DEF FeedInv
<1>12. CASE FeedCrash
  BY <1>12, CrashTold
<1>13. CASE UNCHANGED feedVars
  <2>1. UNCHANGED <<agent, sent, saving, rows, sock, logs, lost>>
    BY <1>13 DEF feedVars
  <2> QED BY <1>0, <1>1, <1>2, <1>3, <1>4, <2>1 DEF FeedInv
<1> QED BY <1>5, <1>6, <1>7, <1>8, <1>9, <1>10, <1>11, <1>12, <1>13 DEF FeedNext

\* What is sent, saved, shown and logged stays accounted for over every run (FeedInv).
THEOREM FeedInvariant == FeedSpec => []FeedInv
BY FeedBeginsWell, FeedStep, PTL DEF FeedSpec

\* A phone is shown each event of the watched todo once and in the order it was sent, and
\* what it is not shown was racing with its subscription, missed by lagging or not saved
\* (PhoneShowsTheFeed): a live socket has accounted for every event it has passed.
THEOREM PhoneIsShownTheFeed == FeedSpec => []PhoneShowsTheFeed
<1>1. FeedInv => PhoneShowsTheFeed
  <2> SUFFICES ASSUME FeedInv, sock.phase = "live" PROVE PhoneShowsTheFeed
    BY DEF PhoneShowsTheFeed, ShownOnceInOrder, MissedHasACause
  <2>1. /\ sock.seen \in Seq(DOMAIN sent) /\ sock.at \in Nat
        /\ \A k, l \in DOMAIN sock.seen : k # l => sock.seen[k] # sock.seen[l]
        /\ \A k, l \in DOMAIN sock.seen :
              k < l /\ sock.seen[k] > sock.at => sock.seen[k] < sock.seen[l]
        /\ \A i \in 1 .. sock.pos : sent[i].todo = Watched => Accounted(i)
        /\ sent \in Seq(FeedEvent)
    BY DEF FeedInv, FeedTypes, SockFollows
  <2>2. DOMAIN sock.seen = 1 .. Len(sock.seen) /\ DOMAIN sent = 1 .. Len(sent)
    BY <2>1
  <2>3. \A k \in DOMAIN sock.seen : sock.seen[k] \in Nat
    BY <2>1, <2>2, ElementOfSeq
  <2>4. ASSUME NEW i \in 1 .. Len(sock.seen), NEW j \in 1 .. Len(sock.seen), i < j
        PROVE  /\ sock.seen[i] # sock.seen[j]
               /\ sock.seen[i] > sock.seen[j] => sock.seen[i] <= sock.at
    <3>1. i \in DOMAIN sock.seen /\ j \in DOMAIN sock.seen /\ i # j
      BY <2>2, <2>4
    <3>2. sock.seen[i] # sock.seen[j]
      BY <2>1, <3>1
    <3>3. sock.seen[i] > sock.at => sock.seen[i] < sock.seen[j]
      BY <2>1, <2>4, <3>1
    <3>4. sock.seen[i] \in Nat /\ sock.seen[j] \in Nat /\ sock.at \in Nat
      BY <2>1, <2>3, <3>1
    <3> QED BY <3>2, <3>3, <3>4
  <2>5. ShownOnceInOrder
    BY <2>4 DEF ShownOnceInOrder
  <2>6. MissedHasACause
    BY <2>1, <2>2 DEF MissedHasACause, Accounted, Bare
  <2> QED BY <2>5, <2>6 DEF PhoneShowsTheFeed
<1> QED BY <1>1, FeedInvariant, PTL

\* The feed of each run reads in order, tool by tool as the tools ran, and the newest logs
\* are kept (FeedTellsTheRun): the account of each run, RunTold, holds after every step.
THEOREM RunsAreTold == FeedSpec => []FeedTellsTheRun
<1>1. FeedInv => FeedTellsTheRun
  <2> SUFFICES ASSUME FeedInv PROVE FeedTellsTheRun
    OBVIOUS
  <2>1. FeedTypeOK
    <3>1. sent \in Seq(FeedEvent) /\ rows \in Seq(DOMAIN sent)
      BY DEF FeedInv, FeedTypes
    <3>2. \A i \in DOMAIN sent : sent[i] \in FeedEvent
      BY <3>1, ElementOfSeq
    <3>3. \A k \in DOMAIN rows : rows[k] \in DOMAIN sent
      BY <3>1, ElementOfSeq
    <3>4. saving \subseteq DOMAIN sent /\ lost \subseteq DOMAIN sent
      BY DEF FeedInv, FeedTypes
    <3> QED BY <3>2, <3>3, <3>4 DEF FeedTypeOK, FeedEvent
  <2>2. ASSUME NEW a \in DOMAIN agent
        PROVE  /\ FeedBegins(sent, a, agent[a]) /\ FeedEnds(sent, a, agent[a])
               /\ AnswersAsked(sent, a, agent[a])
               /\ ToolsAreTold(sent, a, agent[a]) /\ ScriptTells(sent, a, agent[a])
    BY DEF FeedInv, RunTold
  <2>3. RunReadsInOrder
    <3>1. ASSUME NEW a \in DOMAIN agent
          PROVE  /\ \A i \in OfJob(sent, a) : \E j \in Place(sent, a, "started") : j <= i
                 /\ Cardinality(End(sent, a)) <= 1
      <4>1. \A i \in OfJob(sent, a) : \E j \in Place(sent, a, "started") : j <= i
        BY <2>2 DEF FeedBegins
      <4>2. \A i, j \in End(sent, a) : i = j
        BY <2>2 DEF FeedEnds
      <4>3. CASE End(sent, a) = {}
        BY <4>1, <4>3, FS_EmptySet
      <4>4. ASSUME NEW i \in End(sent, a) PROVE Cardinality(End(sent, a)) <= 1
        <5>1. End(sent, a) = {i}
          BY <4>2
        <5>2. Cardinality({i}) = 1
          BY FS_Singleton
        <5> QED BY <5>1, <5>2
      <4> QED BY <4>1, <4>3, <4>4
    <3> QED BY <2>2, <3>1 DEF RunReadsInOrder, FeedEnds, AnswersAsked
  <2>4. ToolEventsMatchTools
    <3> SUFFICES ASSUME NEW a \in DOMAIN agent, agent[a].pc = "ended"
                 PROVE  /\ ToldTools(sent, a) = agent[a].ran
                        /\ \A i \in Place(sent, a, "transcript") :
                             Cardinality({k \in DOMAIN sent[i].messages :
                                sent[i].messages[k] = "tool_end"}) = Len(agent[a].ran)
      BY DEF ToolEventsMatchTools, ToldTools
    <3>1. agent[a].pending_tool_completed = NoEvent
      BY <2>2 DEF ToolsAreTold
    <3>2. ToldTools(sent, a) \o <<>> = agent[a].ran
      BY <2>2, <3>1 DEF ToolsAreTold, PendingPair
    <3>3. ToldTools(sent, a) \in Seq(Nat \X BOOLEAN)
      BY FeedPlaces DEF FeedInv, FeedTypes
    <3>4. ToldTools(sent, a) = agent[a].ran
      <4> DEFINE told == ToldTools(sent, a)
      <4>1. told \in Seq(Nat \X BOOLEAN) /\ told \o <<>> = agent[a].ran
        BY <3>2, <3>3
      <4> HIDE DEF told
      <4>2. told = agent[a].ran
        BY <4>1
      <4> QED BY <4>2 DEF told
    <3> QED BY <2>2, <3>4 DEF ScriptTells
  <2>5. NewestLogsKept
    BY DEF FeedInv, LogsKept
  <2> QED BY <2>1, <2>3, <2>4, <2>5 DEF FeedTellsTheRun
<1> QED BY <1>1, FeedInvariant, PTL

=============================================================================
