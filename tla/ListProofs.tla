----------------------------- MODULE ListProofs -----------------------------
(***************************************************************************)
(* What the proofs about lists need: induction over the naturals, stated   *)
(* with a set, as an operator cannot be instantiated; and that the filter  *)
(* of a list keeps what it should, in order.                               *)
(***************************************************************************)
EXTENDS Lists, FiniteSets, SequenceTheorems, FiniteSetTheorems, TLAPS

\* Every set of naturals that is not empty has a least element.
LEMMA LeastNat ==
  ASSUME NEW T \in SUBSET Nat, T # {}
  PROVE  \E m \in T : \A k \in T : m <= k
<1> DEFINE R == OpToRel(<, Nat)
<1>1. IsWellFoundedOn(R, Nat)
  BY NatLessThanWellFounded
<1>2. \A x, y \in Nat : y < x => <<y, x>> \in R
  BY DEF OpToRel
<1> HIDE DEF R
<1>3. PICK m \in T : \A y \in T : ~(<<y, m>> \in R)
  BY <1>1, WFMin
<1>4. \A k \in T : ~(k < m)
  <2> TAKE k \in T
  <2>1. k \in Nat /\ m \in Nat
    OBVIOUS
  <2>2. <<k, m>> \notin R
    BY <1>3
  <2> QED
    BY <1>2, <2>1, <2>2
<1> QED
  BY <1>4

\* Induction: a set with 0 that has the next of each number has all of them.
LEMMA EveryNat ==
  ASSUME NEW T, 0 \in T, \A n \in Nat : n \in T => n + 1 \in T
  PROVE  \A n \in Nat : n \in T
<1> DEFINE Out == {n \in Nat : n \notin T}
<1> SUFFICES ASSUME Out # {}
             PROVE  FALSE
  OBVIOUS
<1>1. PICK m \in Out : \A k \in Out : m <= k
  <2> HIDE DEF Out
  <2>1. Out \in SUBSET Nat
    BY DEF Out
  <2> QED
    BY <2>1, LeastNat
<1>2. m \in Nat /\ m # 0
  OBVIOUS
<1>3. m - 1 \in Nat /\ m - 1 \notin Out
  BY <1>1, <1>2
<1>4. (m - 1) + 1 \in T
  BY <1>3
<1> QED
  BY <1>2, <1>4

-----------------------------------------------------------------------------
(* Among. *)

\* F is the filter of every beginning of s, up to its first n.
FiltersUpTo(F, s, T, n) ==
  F = [i \in 0..n |->
         IF i = 0 THEN <<>>
         ELSE IF s[i] \in T THEN Append(F[i - 1], s[i]) ELSE F[i - 1]]

\* The recursion has a solution for every length.
LEMMA FiltersExist ==
  ASSUME NEW s, NEW T
  PROVE  \A n \in Nat : \E F : FiltersUpTo(F, s, T, n)
<1> DEFINE Fine == {n \in Nat : \E F : FiltersUpTo(F, s, T, n)}
<1>1. 0 \in Fine
  <2> DEFINE F == [i \in 0..0 |-> <<>>]
  <2>1. FiltersUpTo(F, s, T, 0)
    BY DEF FiltersUpTo
  <2> QED
    BY <2>1
<1>2. ASSUME NEW n \in Nat, n \in Fine
      PROVE  n + 1 \in Fine
  <2>1. PICK F : FiltersUpTo(F, s, T, n)
    BY <1>2
  <2> DEFINE G == [i \in 0..(n + 1) |->
                     IF i <= n THEN F[i]
                     ELSE IF s[i] \in T THEN Append(F[n], s[i]) ELSE F[n]]
  <2>2. \A i \in 0..n : F[i] = IF i = 0 THEN <<>>
                               ELSE IF s[i] \in T THEN Append(F[i - 1], s[i])
                               ELSE F[i - 1]
    BY <2>1 DEF FiltersUpTo
  <2>3. ASSUME NEW i \in 0..(n + 1)
        PROVE  G[i] = IF i = 0 THEN <<>>
                      ELSE IF s[i] \in T THEN Append(G[i - 1], s[i])
                      ELSE G[i - 1]
    <3>1. CASE i = 0
      BY <3>1, <2>2
    <3>2. CASE i \in 1..n
      <4>1. G[i] = F[i] /\ G[i - 1] = F[i - 1]
        BY <3>2
      <4>2. i \in 0..n /\ i # 0
        BY <3>2
      <4> QED
        BY <4>1, <4>2, <2>2
    <3>3. CASE i = n + 1
      BY <3>3
    <3> QED
      BY <3>1, <3>2, <3>3
  <2>4. FiltersUpTo(G, s, T, n + 1)
    <3>1. G = [i \in 0..(n + 1) |-> G[i]]
      OBVIOUS
    <3> HIDE DEF G
    <3> QED
      BY <3>1, <2>3 DEF FiltersUpTo
  <2> QED
    BY <2>4
<1> HIDE DEF Fine
<1>3. \A n \in Nat : n \in Fine
  BY <1>1, <1>2, EveryNat
<1> QED
  BY <1>3 DEF Fine

\* The filter is one of these solutions.
LEMMA AmongFilters ==
  ASSUME NEW s, NEW T, Len(s) \in Nat
  PROVE  \E F : FiltersUpTo(F, s, T, Len(s)) /\ Among(s, T) = F[Len(s)]
<1> DEFINE G == CHOOSE F : FiltersUpTo(F, s, T, Len(s))
<1>1. FiltersUpTo(G, s, T, Len(s))
  <2>1. \E F : FiltersUpTo(F, s, T, Len(s))
    BY FiltersExist
  <2> QED
    BY <2>1
<1>2. Among(s, T) = G[Len(s)]
  BY DEF Among, FiltersUpTo
<1> HIDE DEF G
<1> QED
  BY <1>1, <1>2

\* p says which place of s each place of t is from: t is the part of the first
\* n elements of s that is in T, in order.
PartOf(p, t, s, T, n) ==
  /\ p \in [1..Len(t) -> 1..n]
  /\ \A j, k \in 1..Len(t) : j < k => p[j] < p[k]
  /\ \A k \in 1..Len(t) : t[k] = s[p[k]] /\ t[k] \in T
  /\ \A i \in 1..n : s[i] \in T => \E k \in 1..Len(t) : p[k] = i

\* What the filter keeps: the elements in T, all of them, in their order.
LEMMA AmongIsPart ==
  ASSUME NEW S, NEW s \in Seq(S), NEW T
  PROVE  /\ Among(s, T) \in Seq(S)
         /\ \E p : PartOf(p, Among(s, T), s, T, Len(s))
<1>1. Len(s) \in Nat
  BY LenProperties
<1>2. PICK F : FiltersUpTo(F, s, T, Len(s)) /\ Among(s, T) = F[Len(s)]
  BY <1>1, AmongFilters
<1>3. \A i \in 0..Len(s) : F[i] = IF i = 0 THEN <<>>
                                  ELSE IF s[i] \in T THEN Append(F[i - 1], s[i])
                                  ELSE F[i - 1]
  BY <1>2 DEF FiltersUpTo
<1> DEFINE Fine == {n \in Nat : n <= Len(s) => /\ F[n] \in Seq(S)
                                               /\ \E p : PartOf(p, F[n], s, T, n)}
<1>4. 0 \in Fine
  <2>1. F[0] = <<>>
    BY <1>1, <1>3
  <2>2. PartOf([k \in 1..0 |-> 0], <<>>, s, T, 0)
    BY DEF PartOf
  <2>3. F[0] \in Seq(S) /\ \E p : PartOf(p, F[0], s, T, 0)
    BY <2>1, <2>2
  <2> QED
    BY <2>3
<1>5. ASSUME NEW n \in Nat, n \in Fine
      PROVE  n + 1 \in Fine
  <2> SUFFICES ASSUME n + 1 <= Len(s)
               PROVE  /\ F[n + 1] \in Seq(S)
                      /\ \E p : PartOf(p, F[n + 1], s, T, n + 1)
    OBVIOUS
  <2>1. F[n] \in Seq(S) /\ \E p : PartOf(p, F[n], s, T, n)
    BY <1>1, <1>5
  <2>2. PICK p : PartOf(p, F[n], s, T, n)
    BY <2>1
  <2>3. n + 1 \in 0..Len(s) /\ n + 1 # 0 /\ n + 1 \in 1..Len(s) /\ (n + 1) - 1 = n
    BY <1>1
  <2>4. F[n + 1] = IF s[n + 1] \in T THEN Append(F[n], s[n + 1]) ELSE F[n]
    BY <1>3, <2>3
  <2>5. s[n + 1] \in S
    BY <2>3, ElementOfSeq
  <2> DEFINE l == Len(F[n])
  <2>6. l \in Nat
    BY <2>1, LenProperties
  <2>7. CASE s[n + 1] \notin T
    <3>1. PartOf(p, F[n], s, T, n + 1)
      BY <2>2, <2>6, <2>7 DEF PartOf
    <3> QED
      BY <3>1, <2>1, <2>4, <2>7
  <2>8. CASE s[n + 1] \in T
    <3> DEFINE t == Append(F[n], s[n + 1])
               q == [k \in 1..(l + 1) |-> IF k <= l THEN p[k] ELSE n + 1]
    <3>1. /\ t \in Seq(S) /\ Len(t) = l + 1
          /\ \A k \in 1..l : t[k] = F[n][k]
          /\ t[l + 1] = s[n + 1]
      BY <2>1, <2>5, AppendProperties
    <3> HIDE DEF t
    <3>2. /\ p \in [1..l -> 1..n]
          /\ \A j, k \in 1..l : j < k => p[j] < p[k]
          /\ \A k \in 1..l : F[n][k] = s[p[k]] /\ F[n][k] \in T
          /\ \A i \in 1..n : s[i] \in T => \E k \in 1..l : p[k] = i
      BY <2>2 DEF PartOf
    <3> HIDE DEF l
    <3>3. q \in [1..(l + 1) -> 1..(n + 1)]
      BY <3>2, <2>6
    <3>4. \A j, k \in 1..(l + 1) : j < k => q[j] < q[k]
      BY <3>2, <2>6
    <3>5. ASSUME NEW k \in 1..(l + 1)
          PROVE  t[k] = s[q[k]] /\ t[k] \in T
      <4>1. CASE k \in 1..l
        <5>1. q[k] = p[k]
          BY <4>1
        <5> HIDE DEF q
        <5> QED
          BY <4>1, <5>1, <3>1, <3>2
      <4>2. CASE k = l + 1
        <5>1. q[k] = n + 1
          BY <4>2, <2>6
        <5> HIDE DEF q
        <5> QED
          BY <4>2, <5>1, <3>1, <2>8
      <4> QED
        BY <4>1, <4>2, <2>6
    <3>6. ASSUME NEW i \in 1..(n + 1), s[i] \in T
          PROVE  \E k \in 1..(l + 1) : q[k] = i
      <4>1. CASE i = n + 1
        BY <4>1, <2>6
      <4>2. CASE i \in 1..n
        <5>1. PICK k \in 1..l : p[k] = i
          BY <4>2, <3>2, <3>6
        <5>2. k \in 1..(l + 1) /\ q[k] = i
          BY <5>1, <2>6
        <5> QED
          BY <5>2
      <4> QED
        BY <4>1, <4>2
    <3> HIDE DEF q
    <3>7. PartOf(q, t, s, T, n + 1)
      BY <3>1, <3>3, <3>4, <3>5, <3>6 DEF PartOf
    <3>8. F[n + 1] = t
      BY <2>4, <2>8 DEF t
    <3> QED
      BY <3>1, <3>7, <3>8
  <2> QED
    BY <2>7, <2>8
<1> HIDE DEF Fine
<1>6. \A n \in Nat : n \in Fine
  BY <1>4, <1>5, EveryNat
<1>7. Len(s) \in Fine
  BY <1>1, <1>6
<1> QED
  BY <1>1, <1>2, <1>7 DEF Fine

=============================================================================
