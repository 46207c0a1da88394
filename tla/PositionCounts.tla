--------------------------- MODULE PositionCounts ---------------------------
(***************************************************************************)
(* Facts about the positions of a sequence whose elements are in a given   *)
(* set, and about their number, for the proofs about queues and channels:  *)
(* appending an element, taking the first one away and erasing any other.  *)
(***************************************************************************)
EXTENDS Integers, Sequences, FiniteSets, TLAPS, FiniteSetTheorems,
        SequenceTheorems, WellFoundedInduction

\* The positions of q whose elements are in E.
Positions(q, E) == {i \in 1 .. Len(q) : q[i] \in E}

\* A nonempty set of positions has a greatest element.
LEMMA Greatest ==
  ASSUME NEW n \in Nat, NEW B \in SUBSET (1 .. n), B # {}
  PROVE  \E j \in B : \A k \in B : k <= j
  <1> DEFINE D == {n - j : j \in B}
  <1>1. D \subseteq Nat /\ D # {}
    <2>1. PICK j \in B : TRUE
      OBVIOUS
    <2>2. n - j \in D
      BY <2>1
    <2>3. ASSUME NEW k \in B PROVE n - k \in Nat
      OBVIOUS
    <2> QED BY <2>2, <2>3
  <1>2. PICK d \in D : \A e \in D : ~(<<e, d>> \in OpToRel(<, Nat))
    BY <1>1, NatLessThanWellFounded, WFMin
  <1>3. \A e \in D : ~(e < d)
    <2>1. ASSUME NEW e \in D, e < d PROVE <<e, d>> \in OpToRel(<, Nat)
      BY <1>1, <2>1 DEF OpToRel
    <2> QED BY <1>2, <2>1
  <1>4. PICK j \in B : d = n - j
    BY <1>2
  <1>5. ASSUME NEW k \in B PROVE k <= j
    <2>1. n - k \in D /\ k \in Nat /\ j \in Nat
      OBVIOUS
    <2>2. ~(n - k < n - j)
      BY <1>3, <1>4, <2>1
    <2> QED BY <2>1, <2>2
  <1> QED BY <1>5

\* The first position is taken away and the others move up.
LEMMA Shift ==
  ASSUME NEW n \in Nat, NEW T \in SUBSET (1 .. n), NEW c \in BOOLEAN,
         NEW S, S = {i + 1 : i \in T} \union (IF c THEN {1} ELSE {})
  PROVE  Cardinality(S) = Cardinality(T) + (IF c THEN 1 ELSE 0)
  <1> DEFINE U == {i + 1 : i \in T}
             f == [i \in T |-> i + 1]
  <1>1. IsFiniteSet(T)
    <2>1. IsFiniteSet(1 .. n)
      BY FS_Interval
    <2> QED BY <2>1, FS_Subset
  <1>2. f \in Bijection(T, U)
    BY DEF Bijection, Injection, Surjection, IsInjective
  <1>3. IsFiniteSet(U) /\ Cardinality(U) = Cardinality(T)
    BY <1>1, <1>2, FS_Bijection DEF ExistsBijection
  <1>4. Cardinality(T) \in Nat
    BY <1>1, FS_CardinalityType
  <1>5. 1 \notin U
    OBVIOUS
  <1>6. CASE c
    <2>1. S = U \union {1}
      BY <1>6
    <2> HIDE DEF U
    <2>2. Cardinality(U \union {1}) = Cardinality(U) + 1
      BY <1>3, <1>5, FS_AddElement
    <2> QED BY <1>3, <1>4, <1>6, <2>1, <2>2
  <1>7. CASE ~c
    <2>1. S = U
      BY <1>7
    <2> QED BY <1>3, <1>4, <1>7, <2>1
  <1> QED BY <1>6, <1>7

\* A position is added at the end.
LEMMA Extend ==
  ASSUME NEW n \in Nat, NEW T \in SUBSET (1 .. n), NEW c \in BOOLEAN,
         NEW S, S = T \union (IF c THEN {n + 1} ELSE {})
  PROVE  Cardinality(S) = Cardinality(T) + (IF c THEN 1 ELSE 0)
  <1>1. IsFiniteSet(T)
    <2>1. IsFiniteSet(1 .. n)
      BY FS_Interval
    <2> QED BY <2>1, FS_Subset
  <1>2. Cardinality(T) \in Nat
    BY <1>1, FS_CardinalityType
  <1>3. n + 1 \notin T
    OBVIOUS
  <1>4. CASE c
    <2>1. S = T \union {n + 1}
      BY <1>4
    <2> QED BY <1>1, <1>2, <1>3, <1>4, <2>1, FS_AddElement
  <1>5. CASE ~c
    <2>1. S = T
      BY <1>5
    <2> QED BY <1>2, <1>5, <2>1
  <1> QED BY <1>4, <1>5

\* The number of positions is a natural number, 0 when there are none; an
\* element appended and the first element each count for one, or for nothing.
LEMMA PositionCount ==
  ASSUME NEW M, NEW q \in Seq(M), NEW E
  PROVE  /\ Cardinality(Positions(q, E)) \in Nat
         /\ Cardinality(Positions(q, E)) = 0 => \A i \in 1 .. Len(q) : q[i] \notin E
         /\ (\A i \in 1 .. Len(q) : q[i] \notin E) => Cardinality(Positions(q, E)) = 0
         /\ \A m \in M : Cardinality(Positions(Append(q, m), E))
                           = Cardinality(Positions(q, E)) + (IF m \in E THEN 1 ELSE 0)
         /\ q # <<>> => Cardinality(Positions(q, E))
                          = Cardinality(Positions(Tail(q), E))
                              + (IF Head(q) \in E THEN 1 ELSE 0)
  <1> DEFINE P(s) == {i \in 1 .. Len(s) : s[i] \in E}
  <1>0. \A s : Positions(s, E) = P(s)
    BY DEF Positions
  <1>1. Len(q) \in Nat
    BY LenProperties
  <1>2. IsFiniteSet(P(q))
    <2>1. IsFiniteSet(1 .. Len(q)) /\ P(q) \in SUBSET (1 .. Len(q))
      BY <1>1, FS_Interval
    <2> QED BY <2>1, FS_Subset
  <1>3. Cardinality(P(q)) \in Nat
    BY <1>2, FS_CardinalityType
  <1>4. Cardinality(P(q)) = 0 => \A i \in 1 .. Len(q) : q[i] \notin E
    <2>1. Cardinality(P(q)) = 0 => P(q) = {}
      BY <1>2, FS_EmptySet
    <2> QED BY <2>1
  <1>7. ASSUME \A i \in 1 .. Len(q) : q[i] \notin E PROVE Cardinality(P(q)) = 0
    <2>1. P(q) = {}
      BY <1>7
    <2> QED BY <2>1, FS_EmptySet
  <1>5. ASSUME NEW m \in M
        PROVE  Cardinality(P(Append(q, m))) = Cardinality(P(q)) + (IF m \in E THEN 1 ELSE 0)
    <2> DEFINE c == m \in E
    <2>1. /\ Len(Append(q, m)) = Len(q) + 1
          /\ \A i \in 1 .. Len(q) : Append(q, m)[i] = q[i]
          /\ Append(q, m)[Len(q) + 1] = m
      BY <1>1, AppendProperties
    <2>2. P(Append(q, m)) = P(q) \union (IF c THEN {Len(q) + 1} ELSE {})
      BY <1>1, <2>1
    <2>3. P(q) \in SUBSET (1 .. Len(q)) /\ c \in BOOLEAN
      OBVIOUS
    <2>4. Cardinality(P(Append(q, m))) = Cardinality(P(q)) + (IF c THEN 1 ELSE 0)
      <3> HIDE DEF P, c
      <3> QED BY ZenonT(40), <1>1, <2>2, <2>3, Extend
    <2> QED BY <2>4
  <1>6. ASSUME q # <<>>
        PROVE  Cardinality(P(q)) = Cardinality(P(Tail(q))) + (IF Head(q) \in E THEN 1 ELSE 0)
    <2> DEFINE c == Head(q) \in E
               n == Len(Tail(q))
    <2>1. /\ n \in Nat /\ Len(q) = n + 1 /\ Head(q) = q[1]
          /\ \A i \in 1 .. n : Tail(q)[i] = q[i + 1]
      BY <1>1, <1>6, HeadTailProperties, LenProperties
    <2>2. P(q) = {i + 1 : i \in P(Tail(q))} \union (IF c THEN {1} ELSE {})
      <3>1. ASSUME NEW i \in 1 .. Len(q), i # 1
            PROVE  i - 1 \in 1 .. n /\ Tail(q)[i - 1] = q[i] /\ i = (i - 1) + 1
        BY <2>1, <3>1
      <3>2. ASSUME NEW i \in 1 .. n
            PROVE  i + 1 \in 1 .. Len(q) /\ Tail(q)[i] = q[i + 1]
        BY <2>1
      <3>3. ASSUME NEW i \in P(q)
            PROVE  i \in {k + 1 : k \in P(Tail(q))} \union (IF c THEN {1} ELSE {})
        <4>1. CASE i = 1
          BY <2>1, <4>1
        <4>2. CASE i # 1
          <5>1. i - 1 \in P(Tail(q)) /\ i = (i - 1) + 1
            BY <3>1, <4>2
          <5> QED BY <5>1
        <4> QED BY <4>1, <4>2
      <3>4. ASSUME NEW i \in P(Tail(q)) PROVE i + 1 \in P(q)
        BY <3>2
      <3>5. c => 1 \in P(q)
        BY <2>1
      <3> QED BY <3>3, <3>4, <3>5
    <2>3. P(Tail(q)) \in SUBSET (1 .. n) /\ c \in BOOLEAN
      OBVIOUS
    <2>4. Cardinality(P(q)) = Cardinality(P(Tail(q))) + (IF c THEN 1 ELSE 0)
      <3> HIDE DEF P, c, n
      <3> QED BY <2>1, <2>2, <2>3, Shift
    <2> QED BY <2>4
  <1> HIDE DEF P
  <1> QED BY <1>0, <1>3, <1>4, <1>5, <1>6, <1>7

\* Erasing the element at i takes away its position and no other.
LEMMA Erased ==
  ASSUME NEW M, NEW q \in Seq(M), NEW r \in Seq(M), NEW i \in 1 .. Len(q), NEW E,
         Len(q) = Len(r) + 1,
         \A j \in 1 .. (i - 1) : r[j] = q[j],
         \A j \in i .. Len(r) : r[j] = q[j + 1]
  PROVE  Cardinality(Positions(q, E))
           = Cardinality(Positions(r, E)) + (IF q[i] \in E THEN 1 ELSE 0)
  <1> DEFINE P == Positions(q, E)
             R == Positions(r, E)
             U == P \ {i}
             up(j) == IF j < i THEN j ELSE j + 1
             f == [j \in R |-> up(j)]
  <1>1. Len(q) \in Nat /\ Len(r) \in Nat
    BY LenProperties
  <1>2. ASSUME NEW j \in R
        PROVE  up(j) \in U
    <2>1. j \in 1 .. Len(r) /\ r[j] \in E
      BY DEF Positions
    <2>2. CASE j < i
      BY <1>1, <2>1, <2>2 DEF Positions
    <2>3. CASE ~(j < i)
      BY <1>1, <2>1, <2>3 DEF Positions
    <2> QED
      BY <2>2, <2>3
  <1>3. ASSUME NEW k \in U
        PROVE  \E j \in R : up(j) = k
    <2>1. k \in 1 .. Len(q) /\ q[k] \in E /\ k # i
      BY DEF Positions
    <2>2. CASE k < i
      <3>1. k \in R
        BY <1>1, <2>1, <2>2 DEF Positions
      <3> QED
        BY <2>2, <3>1
    <2>3. CASE ~(k < i)
      <3>1. k - 1 \in i .. Len(r) /\ r[k - 1] = q[k] /\ k - 1 \in 1 .. Len(r)
        BY <1>1, <2>1, <2>3
      <3>2. k - 1 \in R /\ up(k - 1) = k
        BY <2>1, <3>1 DEF Positions
      <3> QED
        BY <3>2
    <2> QED
      BY <2>2, <2>3
  <1>4. \A j, k \in R : up(j) = up(k) => j = k
    BY DEF Positions
  <1>5. f \in Bijection(R, U)
    <2>1. f \in [R -> U] /\ \A j \in R : f[j] = up(j)
      BY <1>2
    <2> HIDE DEF f, R, U, up
    <2> QED
      BY <1>3, <1>4, <2>1 DEF Bijection, Injection, Surjection, IsInjective
  <1>6. IsFiniteSet(R) /\ IsFiniteSet(P)
    <2>1. IsFiniteSet(1 .. Len(r)) /\ IsFiniteSet(1 .. Len(q))
      BY <1>1, FS_Interval
    <2>2. R \in SUBSET (1 .. Len(r)) /\ P \in SUBSET (1 .. Len(q))
      BY DEF Positions
    <2> QED
      BY <2>1, <2>2, FS_Subset
  <1>7. Cardinality(U) = Cardinality(R)
    <2> HIDE DEF f, R, U
    <2> QED
      BY <1>5, <1>6, FS_Bijection DEF ExistsBijection
  <1>8. Cardinality(P) \in Nat /\ Cardinality(R) \in Nat
    BY <1>6, FS_CardinalityType
  <1>9. Cardinality(U) = IF i \in P THEN Cardinality(P) - 1 ELSE Cardinality(P)
    BY <1>6, FS_RemoveElement
  <1>10. i \in P <=> q[i] \in E
    BY DEF Positions
  <1> HIDE DEF P, R, U
  <1>11. Cardinality(P) = Cardinality(R) + (IF q[i] \in E THEN 1 ELSE 0)
    BY <1>7, <1>8, <1>9, <1>10
  <1> QED
    BY <1>11 DEF P, R
=============================================================================
