------------------------------ MODULE SiftLemmas ------------------------------
(***************************************************************************)
(* What Sift and FlattenSeq return, for every sequence.  The lemmas rest   *)
(* on Least, the induction principle for natural numbers in a form that    *)
(* takes a set and no operator parameter.                                  *)
(***************************************************************************)
EXTENDS Sift, SequencesExt, FiniteSetTheorems, SequenceTheorems, WellFoundedInduction, TLAPS

\* Every non-empty set of natural numbers has a least element.
LEMMA Least ==
  ASSUME NEW T \in SUBSET Nat, T # {}
  PROVE  \E x \in T : \A y \in T : x <= y
<1> DEFINE I == {1 .. n : n \in T}
<1>1. I \subseteq FiniteSubsetsOf(Nat) /\ I # {}
  <2>1. ASSUME NEW n \in T PROVE 1 .. n \in FiniteSubsetsOf(Nat)
    BY FS_Interval DEF FiniteSubsetsOf
  <2> QED BY <2>1
<1>2. \E a \in I : \A b \in I : <<b, a>> \notin StrictSubsetOrdering(Nat)
  <2> HIDE DEF I
  <2> QED BY <1>1, FS_StrictSubsetOrderingWellFounded, WFMin
<1>3. PICK x \in T : \A y \in T : <<1 .. y, 1 .. x>> \notin StrictSubsetOrdering(Nat)
  BY <1>2
<1>4. ASSUME NEW y \in T, y < x PROVE FALSE
  <2>1. 1 .. y \subseteq 1 .. x /\ 1 .. y # 1 .. x /\ 1 .. y \subseteq Nat /\
            1 .. x \subseteq Nat
    BY <1>4
  <2> QED BY <1>3, <2>1 DEF StrictSubsetOrdering
<1> QED BY <1>4

\* A set of numbers that has 0 and the successor of each of its members, up to n,
\* has every number up to n.
LEMMA Climb ==
  ASSUME NEW n \in Nat, NEW P, 0 \in P, \A i \in 1 .. n : i - 1 \in P => i \in P
  PROVE  \A i \in 0 .. n : i \in P
<1> SUFFICES ASSUME NEW j \in 0 .. n, j \notin P PROVE FALSE
  OBVIOUS
<1> DEFINE T == {i \in 0 .. n : i \notin P}
<1>1. PICK x \in T : \A y \in T : x <= y
  <2>1. T \in SUBSET Nat /\ T # {}
    OBVIOUS
  <2> QED BY <2>1, Least
<1>2. x \in 1 .. n /\ x - 1 \in 0 .. n /\ x - 1 \notin T
  BY <1>1
<1> QED BY <1>1, <1>2

\* The function that Sift's recursion describes exists.
LEMMA SiftExists ==
  ASSUME NEW S, NEW s \in Seq(S), NEW T
  PROVE  \E f : f = [i \in 0 .. Len(s) |-> Sifted(s, T, f, i)]
<1> DEFINE L == Len(s)
           P == {n \in 0 .. L : \E f \in [0 .. n -> Seq(S)] :
                                  \A i \in 0 .. n : f[i] = Sifted(s, T, f, i)}
<1>1. L \in Nat
  OBVIOUS
<1>2. 0 \in P
  <2> DEFINE f == [i \in 0 .. 0 |-> <<>>]
  <2>1. f \in [0 .. 0 -> Seq(S)] /\ \A i \in 0 .. 0 : f[i] = Sifted(s, T, f, i)
    BY DEF Sifted
  <2> HIDE DEF f
  <2> QED BY <2>1
<1>3. ASSUME NEW n \in 1 .. L, n - 1 \in P PROVE n \in P
  <2>1. PICK f \in [0 .. (n - 1) -> Seq(S)] : \A i \in 0 .. (n - 1) : f[i] = Sifted(s, T, f, i)
    BY <1>3
  <2> DEFINE g == [i \in 0 .. n |-> IF i = n THEN Sifted(s, T, f, n) ELSE f[i]]
  <2>2. s[n] \in S /\ f[n - 1] \in Seq(S)
    BY <2>1
  <2>3. Sifted(s, T, f, n) \in Seq(S)
    BY <2>2 DEF Sifted
  <2>4. g \in [0 .. n -> Seq(S)]
    BY <2>1, <2>3
  <2>5. ASSUME NEW i \in 0 .. n PROVE g[i] = Sifted(s, T, g, i)
    <3>1. CASE i = 0
      BY <3>1, <2>1 DEF Sifted
    <3>2. CASE i \in 1 .. n
      <4>1. g[i - 1] = f[i - 1]
        BY <3>2
      <4>2. g[i] = Sifted(s, T, f, i)
        BY <3>2, <2>1
      <4> QED BY <4>1, <4>2 DEF Sifted
    <3> QED BY <3>1, <3>2
  <2>6. \E h \in [0 .. n -> Seq(S)] : \A i \in 0 .. n : h[i] = Sifted(s, T, h, i)
    <3> HIDE DEF g
    <3> QED BY <2>4, <2>5
  <2>7. n \in 0 .. L
    BY <1>1
  <2> HIDE DEF g, L
  <2> QED BY <2>6, <2>7, Zenon
<1>4. L \in P
  <2> HIDE DEF P, L
  <2>1. \A i \in 0 .. L : i \in P
    BY <1>1, <1>2, <1>3, Climb
  <2> QED BY <1>1, <2>1
<1>5. PICK f \in [0 .. L -> Seq(S)] : \A i \in 0 .. L : f[i] = Sifted(s, T, f, i)
  BY <1>4
<1>6. f = [i \in 0 .. L |-> Sifted(s, T, f, i)]
  BY <1>5
<1> QED BY <1>6

\* A sifted sequence is a sequence of elements that were there and belong to the set.
LEMMA SiftType ==
  ASSUME NEW S, NEW s \in Seq(S), NEW T
  PROVE  Sift(s, T) \in Seq(S \cap T)
<1> DEFINE L == Len(s)
           F == CHOOSE f : f = [i \in 0 .. L |-> Sifted(s, T, f, i)]
           P == {n \in 0 .. L : F[n] \in Seq(S \cap T)}
<1>1. L \in Nat
  OBVIOUS
<1>2. F = [i \in 0 .. L |-> Sifted(s, T, F, i)]
  BY SiftExists
<1>3. \A i \in 0 .. L : F[i] = Sifted(s, T, F, i)
  <2> HIDE DEF F
  <2> QED BY <1>2
<1>4. Sift(s, T) = F[L]
  BY DEF Sift
<1>5. 0 \in P
  <2> HIDE DEF F
  <2>1. 0 \in 0 .. L /\ F[0] = <<>>
    BY <1>1, <1>3 DEF Sifted
  <2>2. F[0] \in Seq(S \cap T)
    BY <2>1, EmptySeq
  <2> QED BY <2>1, <2>2
<1>6. ASSUME NEW i \in 1 .. L, i - 1 \in P PROVE i \in P
  <2> HIDE DEF F
  <2>1. F[i - 1] \in Seq(S \cap T) /\ s[i] \in S
    BY <1>6
  <2>2. F[i] = IF s[i] \in T THEN Append(F[i - 1], s[i]) ELSE F[i - 1]
    BY <1>3 DEF Sifted
  <2>3. s[i] \in T => Append(F[i - 1], s[i]) \in Seq(S \cap T)
    BY <2>1
  <2>4. F[i] \in Seq(S \cap T)
    BY <2>1, <2>2, <2>3
  <2> QED BY <2>4
<1>7. \A i \in 0 .. L : i \in P
  <2> HIDE DEF P, L
  <2> QED BY <1>1, <1>5, <1>6, Climb
<1>8. F[L] \in Seq(S \cap T)
  <2> HIDE DEF F
  <2> QED BY <1>1, <1>7
<1> QED BY <1>4, <1>8
\* Of the positions of a sequence, those that belong to a set are sifted in their
\* order, up to the last one.
LEMMA SiftPositions ==
  ASSUME NEW L \in Nat, NEW U
  PROVE  LET s == Sift([k \in 1 .. L |-> k], U) IN
         /\ s \in Seq((1 .. L) \cap U)
         /\ \A a, b \in DOMAIN s : a < b => s[a] < s[b]
         /\ \A k \in (1 .. L) \cap U : s # <<>> /\ k <= s[Len(s)]
<1> DEFINE id == [k \in 1 .. L |-> k]
           F == CHOOSE f : f = [i \in 0 .. Len(id) |-> Sifted(id, U, f, i)]
           Up(s) == \A a, b \in DOMAIN s : a < b => s[a] < s[b]
           Ends(s, i) == \A k \in (1 .. i) \cap U : s # <<>> /\ k <= s[Len(s)]
           P == {i \in 0 .. L : F[i] \in Seq((1 .. i) \cap U) /\ Up(F[i]) /\ Ends(F[i], i)}
<1>1. id \in Seq(Nat) /\ Len(id) = L
  OBVIOUS
<1>2. F = [i \in 0 .. Len(id) |-> Sifted(id, U, F, i)]
  <2> HIDE DEF id
  <2> QED BY <1>1, SiftExists
<1>s. Sift(id, U) = F[Len(id)]
  BY DEF Sift
<1>3. \A i \in 0 .. L : F[i] = Sifted(id, U, F, i)
  <2> HIDE DEF F, id
  <2> QED BY <1>1, <1>2
<1>4. 0 \in P
  <2> HIDE DEF F
  <2>1. 0 \in 0 .. L /\ F[0] = Sifted(id, U, F, 0)
    BY <1>3
  <2>2. F[0] = <<>>
    BY <2>1 DEF Sifted
  <2>3. F[0] \in Seq((1 .. 0) \cap U) /\ Up(F[0])
    BY <2>2, EmptySeq
  <2>4. Ends(F[0], 0)
    OBVIOUS
  <2> QED BY <2>1, <2>3, <2>4
<1>5. ASSUME NEW i \in 1 .. L, i - 1 \in P PROVE i \in P
  <2> HIDE DEF F
  <2>1. F[i] = IF i \in U THEN Append(F[i - 1], i) ELSE F[i - 1]
    <3>1. F[i] = Sifted(id, U, F, i) /\ id[i] = i
      BY <1>3
    <3> QED BY <3>1 DEF Sifted
  <2> DEFINE s == F[i - 1]
             V == (1 .. i - 1) \cap U
             W == (1 .. i) \cap U
  <2>2. s \in Seq(V) /\ Up(s) /\ Ends(s, i - 1)
    BY <1>5
  <2>3. \A a \in DOMAIN s : s[a] \in V /\ s[a] < i
    BY <2>2
  <2>4. CASE i \in U
    <3> DEFINE new == Append(s, i)
    <3>1. V \subseteq W /\ i \in W
      BY <2>4
    <3> HIDE DEF F
    <3>2. s \in Seq(W)
      BY <2>2, <3>1
    <3>3. /\ new \in Seq(W) /\ Len(new) = Len(s) + 1 /\ new[Len(new)] = i
          /\ \A a \in DOMAIN s : new[a] = s[a]
      BY <3>1, <3>2
    <3>4. DOMAIN new = 1 .. Len(s) + 1 /\ DOMAIN s = 1 .. Len(s) /\ Len(s) \in Nat
      BY <3>2, <3>3
    <3> HIDE DEF new, s, V
    <3>5. Up(new)
      <4>1. ASSUME NEW a \in DOMAIN new, NEW b \in DOMAIN new, a < b PROVE new[a] < new[b]
        <5>1. a \in DOMAIN s
          BY <3>4, <4>1
        <5>2. CASE b \in DOMAIN s
          BY <2>2, <3>3, <4>1, <5>1, <5>2
        <5>3. CASE b \notin DOMAIN s
          <6>1. new[b] = i
            BY <3>3, <3>4, <5>3
          <6> QED BY <2>3, <3>3, <5>1, <6>1
        <5> QED BY <5>2, <5>3
      <4> QED BY <4>1
    <3>6. Ends(new, i)
      BY <3>3, <3>4
    <3>7. F[i] = new
      BY <2>1, <2>4 DEF new, s
    <3> QED BY <3>3, <3>5, <3>6, <3>7
  <2>5. CASE i \notin U
    <3>1. V = W /\ F[i] = s
      BY <2>1, <2>5
    <3> HIDE DEF s, F
    <3>2. F[i] \in Seq(W) /\ Up(F[i]) /\ Ends(F[i], i)
      BY <2>2, <3>1
    <3> QED BY <3>2
  <2> QED BY <2>4, <2>5
<1>6. L \in P
  <2> HIDE DEF P
  <2> QED BY <1>4, <1>5, Climb
<1> HIDE DEF F
<1> QED BY <1>1, <1>s, <1>6

\* Sift loses no place of U.
LEMMA SiftKeepsAll ==
  ASSUME NEW L \in Nat, NEW U
  PROVE  LET s == Sift([j \in 1 .. L |-> j], U) IN
         (1 .. L) \cap U \subseteq {s[a] : a \in DOMAIN s}
<1> SUFFICES ASSUME NEW k \in (1 .. L) \cap U
             PROVE  LET s == Sift([j \in 1 .. L |-> j], U) IN \E a \in DOMAIN s : s[a] = k
  OBVIOUS
<1> DEFINE id == [j \in 1 .. L |-> j]
           F == CHOOSE f : f = [i \in 0 .. Len(id) |-> Sifted(id, U, f, i)]
           P == {i \in 0 .. L : /\ F[i] \in Seq((1 .. L) \cap U)
                                /\ k <= i => \E a \in DOMAIN F[i] : F[i][a] = k}
<1>1. id \in Seq(Nat) /\ Len(id) = L
  OBVIOUS
<1>2. F = [i \in 0 .. Len(id) |-> Sifted(id, U, F, i)]
  <2> HIDE DEF id
  <2> QED BY <1>1, SiftExists
<1>3. Sift(id, U) = F[Len(id)]
  BY DEF Sift
<1>4. \A i \in 0 .. L : F[i] = Sifted(id, U, F, i)
  <2> HIDE DEF F, id
  <2> QED BY <1>1, <1>2
<1> HIDE DEF F
<1>5. 0 \in P
  <2>1. F[0] = Sifted(id, U, F, 0) /\ 0 \in 0 .. L
    BY <1>4
  <2>2. F[0] = <<>>
    BY <2>1 DEF Sifted
  <2>3. F[0] \in Seq((1 .. L) \cap U)
    BY <2>2, EmptySeq
  <2> QED BY <2>1, <2>3
<1>6. ASSUME NEW i \in 1 .. L, i - 1 \in P PROVE i \in P
  <2> DEFINE s == F[i - 1]
             W == (1 .. L) \cap U
  <2>1. F[i] = IF i \in U THEN Append(s, i) ELSE s
    <3>1. F[i] = Sifted(id, U, F, i) /\ id[i] = i
      BY <1>4
    <3> QED BY <3>1 DEF Sifted
  <2>2. s \in Seq(W) /\ (k <= i - 1 => \E a \in DOMAIN s : s[a] = k)
    BY <1>6
  <2> HIDE DEF s
  <2>3. CASE i \in U
    <3> DEFINE new == Append(s, i)
    <3>1. /\ new \in Seq(W) /\ Len(new) = Len(s) + 1 /\ new[Len(new)] = i
          /\ \A a \in DOMAIN s : new[a] = s[a]
      BY <2>2, <2>3
    <3>2. DOMAIN new = 1 .. Len(s) + 1 /\ DOMAIN s = 1 .. Len(s) /\ Len(s) \in Nat
      BY <2>2, <3>1
    <3> HIDE DEF new
    <3>3. k <= i => \E a \in DOMAIN new : new[a] = k
      <4>1. CASE k <= i - 1
        <5>1. PICK a \in DOMAIN s : s[a] = k
          BY <2>2, <4>1
        <5>2. a \in DOMAIN new /\ new[a] = k
          BY <3>1, <3>2, <5>1
        <5> QED BY <5>2
      <4>2. CASE k = i
        <5>1. Len(new) \in DOMAIN new
          BY <3>1, <3>2
        <5> QED BY <3>1, <4>2, <5>1
      <4> QED BY <4>1, <4>2
    <3>4. F[i] = new
      BY <2>1, <2>3 DEF new
    <3> QED BY <3>1, <3>3, <3>4
  <2>4. CASE i \notin U
    <3>1. F[i] = s /\ k # i
      BY <2>1, <2>4
    <3> QED BY <2>2, <3>1
  <2> QED BY <2>3, <2>4
<1>7. L \in P
  <2> HIDE DEF P
  <2> QED BY <1>5, <1>6, Climb
<1>8. \E a \in DOMAIN F[L] : F[L][a] = k
  BY <1>7
<1> QED BY <1>1, <1>3, <1>8

\* Sift keeps the elements in T, and each as often as s has it if that is once.
LEMMA SiftMembers ==
  ASSUME NEW S, NEW s \in Seq(S), NEW T
  PROVE  LET t == Sift(s, T) IN
         /\ {t[k] : k \in DOMAIN t} = {s[j] : j \in DOMAIN s} \cap T
         /\ (\A i, j \in DOMAIN s : i # j => s[i] # s[j]) =>
              \A i, j \in DOMAIN t : i # j => t[i] # t[j]
<1> DEFINE L == Len(s)
           F == CHOOSE f : f = [i \in 0 .. L |-> Sifted(s, T, f, i)]
           Of(t) == {t[k] : k \in DOMAIN t}
           Once(t) == \A i, j \in DOMAIN t : i # j => t[i] # t[j]
           P == {i \in 0 .. L : /\ F[i] \in Seq(S)
                                /\ Of(F[i]) = {s[j] : j \in 1 .. i} \cap T
                                /\ Once(s) => Once(F[i])}
<1>1. L \in Nat /\ DOMAIN s = 1 .. L
  OBVIOUS
<1>2. F = [i \in 0 .. L |-> Sifted(s, T, F, i)]
  BY SiftExists
<1>3. Sift(s, T) = F[L]
  BY DEF Sift
<1> HIDE DEF F, L
<1>4. \A i \in 0 .. L : F[i] = Sifted(s, T, F, i)
  BY <1>2
<1>5. 0 \in P
  <2>1. F[0] = Sifted(s, T, F, 0) /\ 0 \in 0 .. L
    BY <1>1, <1>4
  <2>2. F[0] = <<>>
    BY <2>1 DEF Sifted
  <2>3. F[0] \in Seq(S) /\ Of(F[0]) = {} /\ Once(F[0])
    BY <2>2, EmptySeq
  <2> QED BY <2>1, <2>3
<1>6. ASSUME NEW i \in 1 .. L, i - 1 \in P PROVE i \in P
  <2> DEFINE t == F[i - 1]
             before == {s[j] : j \in 1 .. i - 1}
             upto == {s[j] : j \in 1 .. i}
  <2>1. F[i] = IF s[i] \in T THEN Append(t, s[i]) ELSE t
    <3>1. F[i] = Sifted(s, T, F, i) /\ i # 0
      BY <1>1, <1>4
    <3> QED BY <3>1 DEF Sifted
  <2>2. t \in Seq(S) /\ Of(t) = before \cap T /\ (Once(s) => Once(t))
    BY <1>6
  <2>3. upto = before \cup {s[i]} /\ s[i] \in S /\ i \in 0 .. L
    <3>1. 1 .. i = (1 .. i - 1) \cup {i} /\ i \in 1 .. L
      BY <1>1
    <3> QED BY <1>1, <3>1, ElementOfSeq
  <2> HIDE DEF t
  <2>4. CASE s[i] \in T
    <3> DEFINE new == Append(t, s[i])
               n == Len(t)
    <3>1. n \in Nat /\ DOMAIN t = 1 .. n
      BY <2>2
    <3>2. /\ new \in Seq(S) /\ DOMAIN new = 1 .. n + 1 /\ new[n + 1] = s[i]
          /\ \A a \in 1 .. n : new[a] = t[a]
      BY <2>2, <2>3
    <3> HIDE DEF new, n
    <3>3. Of(new) = Of(t) \cup {s[i]}
      <4>1. 1 .. n + 1 = (1 .. n) \cup {n + 1}
        BY <3>1
      <4> QED BY <3>1, <3>2, <4>1
    <3>4. Once(s) => Once(new)
      <4> SUFFICES ASSUME Once(s) PROVE Once(new)
        OBVIOUS
      <4>1. s[i] \notin Of(t)
        <5>1. \A j \in 1 .. i - 1 : s[j] # s[i]
          BY <1>1
        <5> QED BY <2>2, <5>1
      <4>2. ASSUME NEW a \in 1 .. n + 1, NEW b \in 1 .. n + 1, a # b PROVE new[a] # new[b]
        <5>1. CASE a \in 1 .. n /\ b \in 1 .. n
          BY <2>2, <3>1, <3>2, <4>2, <5>1
        <5>2. CASE a = n + 1
          BY <3>1, <3>2, <4>1, <4>2, <5>2
        <5>3. CASE b = n + 1
          BY <3>1, <3>2, <4>1, <4>2, <5>3
        <5> QED BY <3>1, <5>1, <5>2, <5>3
      <4> QED BY <3>2, <4>2
    <3>5. F[i] = new
      BY <2>1, <2>4 DEF new
    <3>6. Of(new) = upto \cap T
      BY <2>2, <2>3, <2>4, <3>3
    <3> HIDE DEF upto, before, Of, Once
    <3>7. /\ F[i] \in Seq(S) /\ Of(F[i]) = upto \cap T /\ (Once(s) => Once(F[i]))
      BY <3>2, <3>4, <3>5, <3>6
    <3> QED BY <2>3, <3>7 DEF upto
  <2>5. CASE s[i] \notin T
    <3>1. F[i] = t
      BY <2>1, <2>5
    <3>2. upto \cap T = before \cap T
      BY <2>3, <2>5
    <3> HIDE DEF upto, before, Of, Once
    <3>3. /\ F[i] \in Seq(S) /\ Of(F[i]) = upto \cap T /\ (Once(s) => Once(F[i]))
      BY <2>2, <3>1, <3>2
    <3> QED BY <2>3, <3>3 DEF upto
  <2> QED BY <2>4, <2>5
<1>7. L \in P
  <2> HIDE DEF P
  <2> QED BY <1>1, <1>5, <1>6, Climb
<1> HIDE DEF Of, Once
<1>8. Of(F[L]) = {s[j] : j \in 1 .. L} \cap T /\ (Once(s) => Once(F[L]))
  BY <1>7
<1> QED BY <1>1, <1>3, <1>8 DEF Of, Once

\* One element more.
LEMMA SiftAppended ==
  ASSUME NEW S, NEW s \in Seq(S), NEW e \in S, NEW T
  PROVE  Sift(Append(s, e), T) = IF e \in T THEN Append(Sift(s, T), e) ELSE Sift(s, T)
<1> DEFINE L == Len(s)
           new == Append(s, e)
           F == CHOOSE f : f = [i \in 0 .. L |-> Sifted(s, T, f, i)]
           G == CHOOSE f : f = [i \in 0 .. Len(new) |-> Sifted(new, T, f, i)]
           P == {i \in 0 .. L : G[i] = F[i]}
<1>1. /\ L \in Nat /\ new \in Seq(S) /\ Len(new) = L + 1 /\ new[L + 1] = e
      /\ \A i \in 1 .. L : new[i] = s[i]
  OBVIOUS
<1>2. F = [i \in 0 .. L |-> Sifted(s, T, F, i)]
  BY SiftExists
<1>3. Sift(s, T) = F[L] /\ Sift(new, T) = G[Len(new)]
  BY DEF Sift
<1>4. G = [i \in 0 .. Len(new) |-> Sifted(new, T, G, i)]
  <2> HIDE DEF new
  <2> QED BY <1>1, SiftExists
<1> HIDE DEF F, G, L, new
<1>5. /\ \A i \in 0 .. L : F[i] = Sifted(s, T, F, i)
      /\ \A i \in 0 .. L + 1 : G[i] = Sifted(new, T, G, i)
  BY <1>1, <1>2, <1>4
<1>6. 0 \in P
  BY <1>1, <1>5 DEF Sifted
<1>7. ASSUME NEW i \in 1 .. L, i - 1 \in P PROVE i \in P
  <2>1. /\ F[i] = Sifted(s, T, F, i) /\ G[i] = Sifted(new, T, G, i) /\ i # 0 /\ i \in 0 .. L
        /\ new[i] = s[i] /\ G[i - 1] = F[i - 1]
    BY <1>1, <1>5, <1>7
  <2>2. G[i] = F[i]
    BY <2>1 DEF Sifted
  <2> QED BY <2>1, <2>2
<1>8. L \in P
  <2> HIDE DEF P
  <2>1. L \in Nat /\ 0 \in P /\ \A i \in 1 .. L : i - 1 \in P => i \in P
    BY <1>1, <1>6, <1>7
  <2>2. \A i \in 0 .. L : i \in P
    BY <2>1, Climb
  <2> QED BY <2>1, <2>2
<1>9. G[L + 1] = IF e \in T THEN Append(F[L], e) ELSE F[L]
  <2>1. /\ G[L + 1] = Sifted(new, T, G, L + 1) /\ L + 1 # 0 /\ (L + 1) - 1 = L
        /\ G[L] = F[L]
    BY <1>1, <1>5, <1>8
  <2> QED BY <1>1, <2>1 DEF Sifted
<1> QED BY <1>1, <1>3, <1>9 DEF new

\* What flattening i sequences gives, by what i - 1 of them give.
Flattened(seqs, f, i) == IF i = 1 THEN seqs[i] ELSE f[i - 1] \o seqs[i]

\* FlattenSeq goes through the sequences one by one.
LEMMA FlattenSteps ==
  ASSUME NEW S, NEW seqs \in Seq(Seq(S)), seqs # <<>>
  PROVE  \E f \in [1..Len(seqs) -> Seq(S)] :
            /\ f[1] = seqs[1] /\ \A i \in 2..Len(seqs) : f[i] = f[i - 1] \o seqs[i]
            /\ FlattenSeq(seqs) = f[Len(seqs)]
<1> DEFINE L == Len(seqs)
           P == {n \in 0..L : \E f \in [1..n -> Seq(S)] : \A i \in 1..n : f[i] = Flattened(seqs, f, i)}
           F == CHOOSE f : f = [i \in 1..L |-> IF i = 1 THEN seqs[i] ELSE f[i - 1] \o seqs[i]]
<1>1. L \in Nat /\ L # 0 /\ \A i \in 1..L : seqs[i] \in Seq(S)
  OBVIOUS
<1>2. 0 \in P
  <2> DEFINE f == [i \in 1..0 |-> <<>>]
  <2>1. f \in [1..0 -> Seq(S)] /\ \A i \in 1..0 : f[i] = Flattened(seqs, f, i)
    OBVIOUS
  <2>2. \E g \in [1..0 -> Seq(S)] : \A i \in 1..0 : g[i] = Flattened(seqs, g, i)
    <3> HIDE DEF f
    <3> QED BY <2>1
  <2>3. 0 \in 0..L
    BY <1>1
  <2> HIDE DEF L
  <2> QED BY <2>2, <2>3, Zenon
<1>3. ASSUME NEW n \in 1..L, n - 1 \in P PROVE n \in P
  <2>1. PICK f \in [1..n - 1 -> Seq(S)] : \A i \in 1..n - 1 : f[i] = Flattened(seqs, f, i)
    BY <1>3
  <2> DEFINE g == [i \in 1..n |-> IF i = n THEN Flattened(seqs, f, n) ELSE f[i]]
  <2>2. Flattened(seqs, f, n) \in Seq(S)
    <3>1. seqs[n] \in Seq(S)
      BY <1>1
    <3>2. n # 1 => f[n - 1] \in Seq(S)
      BY <1>1, <2>1
    <3> QED BY <3>1, <3>2, ConcatProperties DEF Flattened
  <2>3. g \in [1..n -> Seq(S)]
    BY <2>1, <2>2
  <2>4. ASSUME NEW i \in 1..n PROVE g[i] = Flattened(seqs, g, i)
    <3>1. i # 1 => g[i - 1] = f[i - 1]
      BY <1>1
    <3>2. g[i] = Flattened(seqs, f, i)
      BY <1>1, <2>1
    <3> HIDE DEF g
    <3> QED BY <3>1, <3>2 DEF Flattened
  <2>5. \E k \in [1..n -> Seq(S)] : \A i \in 1..n : k[i] = Flattened(seqs, k, i)
    <3> HIDE DEF g
    <3> QED BY <2>3, <2>4
  <2>6. n \in 0..L
    BY <1>1
  <2> HIDE DEF g, L
  <2> QED BY <2>5, <2>6, Zenon
<1>4. L \in P
  <2> HIDE DEF P, L
  <2>1. \A i \in 0..L : i \in P
    BY <1>1, <1>2, <1>3, Climb
  <2> QED BY <1>1, <2>1
<1>5. PICK f \in [1..L -> Seq(S)] : \A i \in 1..L : f[i] = Flattened(seqs, f, i)
  BY <1>4
<1>6. F = [i \in 1..L |-> Flattened(seqs, F, i)]
  <2>1. f = [i \in 1..L |-> Flattened(seqs, f, i)]
    BY <1>5
  <2> QED BY <2>1 DEF Flattened
<1>7. FlattenSeq(seqs) = F[L]
  BY <1>1 DEF FlattenSeq
<1>8. \A i \in 1..L : F[i] = Flattened(seqs, F, i)
  <2> HIDE DEF F
  <2> QED BY <1>6
<1> HIDE DEF F
<1> DEFINE Q == {n \in 0..L : n # 0 => F[n] \in Seq(S)}
<1>9. \A n \in 0..L : n \in Q
  <2>1. 0 \in Q
    BY <1>1
  <2>2. ASSUME NEW n \in 1..L, n - 1 \in Q PROVE n \in Q
    <3>1. seqs[n] \in Seq(S) /\ F[n] = Flattened(seqs, F, n)
      BY <1>1, <1>8
    <3>2. n # 1 => F[n - 1] \in Seq(S)
      BY <1>1, <2>2
    <3>3. F[n] \in Seq(S)
      BY <3>1, <3>2, ConcatProperties DEF Flattened
    <3> QED BY <1>1, <3>3
  <2> HIDE DEF Q, L
  <2> QED BY <1>1, <2>1, <2>2, Climb
<1>10. F \in [1..L -> Seq(S)]
  <2>1. \A i \in 1..L : F[i] \in Seq(S)
    BY <1>1, <1>9
  <2>2. DOMAIN F = 1..L /\ F = [i \in 1..L |-> F[i]]
    BY <1>6
  <2> QED BY <2>1, <2>2
<1>11. F[1] = seqs[1] /\ \A i \in 2..L : F[i] = F[i - 1] \o seqs[i]
  <2> HIDE DEF L
  <2>1. 1 \in 1..L /\ \A i \in 2..L : i \in 1..L /\ i # 1
    BY <1>1
  <2> QED BY <1>8, <2>1 DEF Flattened
<1> QED BY <1>7, <1>10, <1>11
=============================================================================
