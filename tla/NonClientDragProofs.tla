------------------------ MODULE NonClientDragProofs ------------------------
(***************************************************************************)
(* Proofs about NonClientDrag, for any set of cursor positions and any     *)
(* number of inputs.                                                       *)
(*                                                                         *)
(* OneHitTestOutstanding is inductive once the counts of messages are      *)
(* understood.  AckPendingIsExact is not: whether a move or an end on its  *)
(* way will be acknowledged is decided by the proxy's copy of              *)
(* d_ncDragNeedsAck at the time it arrives, and so by the drags that begin *)
(* before it on the channel.  DragInv says that after all of them the      *)
(* proxy's copy will be the host's, and that in a drag no end that has to  *)
(* be acknowledged is left from the drag before.                           *)
(*                                                                         *)
(* DragsAreWellFormed is about the delegate, who learns of a drag late:    *)
(* DragsInv says that the messages on their way lead it to a stage that    *)
(* agrees with the host, and that the last end among them is where the     *)
(* button was released.                                                    *)
(*                                                                         *)
(* A channel is described by a few functions of its contents (Count,       *)
(* Acknowledged, NeedsAfter, NoEnd); ProxyChannel and HostChannel say what *)
(* appending a message and taking the first one do to them, and the proofs *)
(* of the actions use nothing else about sequences.                        *)
(***************************************************************************)
EXTENDS NonClientDrag, PositionCounts

-----------------------------------------------------------------------------
(* Counting messages.                                                      *)

\* Messages of some kinds on a channel.
LEMMA CountFacts ==
  ASSUME NEW M, NEW q \in Seq(M), NEW K
  PROVE  /\ Count(q, K) \in Nat
         /\ Count(q, K) = 0 => \A i \in 1 .. Len(q) : q[i].kind \notin K
         /\ \A m \in M : Count(Append(q, m), K)
                           = Count(q, K) + (IF m.kind \in K THEN 1 ELSE 0)
         /\ q # <<>> => Count(q, K) = Count(Tail(q), K)
                                        + (IF Head(q).kind \in K THEN 1 ELSE 0)
  <1> DEFINE E == {m \in M : m.kind \in K}
  <1>1. ASSUME NEW s \in Seq(M) PROVE Count(s, K) = Cardinality(Positions(s, E))
    <2>1. \A i \in 1 .. Len(s) : s[i] \in M
      BY ElementOfSeq
    <2>2. {i \in 1 .. Len(s) : s[i].kind \in K} = Positions(s, E)
      BY <2>1 DEF Positions
    <2> QED BY <2>2 DEF Count
  <1>2. \A m \in M : m \in E <=> m.kind \in K
    OBVIOUS
  <1> HIDE DEF E
  <1>3. Count(q, K) \in Nat
    BY <1>1, PositionCount
  <1>4. ASSUME Count(q, K) = 0, NEW i \in 1 .. Len(q) PROVE q[i].kind \notin K
    <2>1. q[i] \in M
      BY ElementOfSeq
    <2>2. q[i] \notin E
      BY <1>1, <1>4, PositionCount
    <2> QED BY <1>2, <2>1, <2>2
  <1>5. ASSUME NEW m \in M
        PROVE  Count(Append(q, m), K) = Count(q, K) + (IF m.kind \in K THEN 1 ELSE 0)
    <2>1. Append(q, m) \in Seq(M)
      BY AppendProperties
    <2>2. Cardinality(Positions(Append(q, m), E))
            = Cardinality(Positions(q, E)) + (IF m \in E THEN 1 ELSE 0)
      BY PositionCount
    <2> QED BY <1>1, <1>2, <2>1, <2>2
  <1>6. ASSUME q # <<>>
        PROVE  Count(q, K) = Count(Tail(q), K) + (IF Head(q).kind \in K THEN 1 ELSE 0)
    <2>1. Tail(q) \in Seq(M) /\ Head(q) \in M
      BY <1>6, HeadTailProperties
    <2>2. Cardinality(Positions(q, E))
            = Cardinality(Positions(Tail(q), E)) + (IF Head(q) \in E THEN 1 ELSE 0)
      BY <1>6, PositionCount
    <2> QED BY <1>1, <1>2, <2>1, <2>2
  <1> QED BY <1>3, <1>4, <1>5, <1>6

-----------------------------------------------------------------------------
(* The channel to the proxy, in terms of what the proxy will do with it; b *)
(* is the proxy's copy of d_ncDragNeedsAck before the first message.       *)

DragKinds == {"NCDragMove", "NCDragEnd"}

Begins(q, i) == {j \in 1 .. (i - 1) : q[j].kind = "NCDragBegin"}

\* The proxy's copy of the flag when it gets to position i.
NeedsAt(q, b, i) ==
  IF Begins(q, i) = {} THEN b
  ELSE q[CHOOSE j \in Begins(q, i) : \A k \in Begins(q, i) : k <= j].arg # "HTCAPTION"

\* The copy after all messages, and after the first one.
NeedsAfter(q, b) == NeedsAt(q, b, Len(q) + 1)
NeedsNext(q, b) == IF Head(q).kind = "NCDragBegin" THEN Head(q).arg # "HTCAPTION" ELSE b

\* How many messages will be acknowledged; whether none of some kind is.
Acknowledged(q, b) ==
  Cardinality({i \in 1 .. Len(q) : q[i].kind \in DragKinds /\ NeedsAt(q, b, i)})
NoneOf(q, b, k) ==
  \A i \in 1 .. Len(q) : q[i].kind = k => ~NeedsAt(q, b, i)
NoEnd(q, b) == NoneOf(q, b, "NCDragEnd")
NoMove(q, b) == NoneOf(q, b, "NCDragMove")

\* Only the messages before a position matter.
LEMMA NeedsAppend ==
  ASSUME NEW M, NEW q \in Seq(M), NEW m \in M, NEW b, NEW i \in 1 .. (Len(q) + 1)
  PROVE  NeedsAt(Append(q, m), b, i) = NeedsAt(q, b, i)
  <1>1. Len(q) \in Nat
    BY LenProperties
  <1>2. \A j \in 1 .. (i - 1) : Append(q, m)[j] = q[j]
    BY <1>1, AppendProperties
  <1>3. Begins(Append(q, m), i) = Begins(q, i)
    BY <1>2 DEF Begins
  <1>4. CASE Begins(q, i) = {}
    BY <1>3, <1>4 DEF NeedsAt
  <1>5. CASE Begins(q, i) # {}
    <2> DEFINE l == CHOOSE j \in Begins(q, i) : \A k \in Begins(q, i) : k <= j
    <2>1. Begins(q, i) \in SUBSET (1 .. (i - 1)) /\ i - 1 \in Nat
      BY <1>1 DEF Begins
    <2>2. \E j \in Begins(q, i) : \A k \in Begins(q, i) : k <= j
      BY <1>5, <2>1, Greatest
    <2>3. l \in Begins(q, i)
      BY <2>2
    <2>4. Append(q, m)[l] = q[l]
      BY <1>2, <2>1, <2>3
    <2> HIDE DEF l
    <2>5. NeedsAt(q, b, i) = (q[l].arg # "HTCAPTION")
      BY <1>5 DEF NeedsAt, l
    <2>6. NeedsAt(Append(q, m), b, i) = (Append(q, m)[l].arg # "HTCAPTION")
      BY <1>3, <1>5 DEF NeedsAt, l
    <2> QED BY <2>4, <2>5, <2>6
  <1> QED BY <1>4, <1>5

\* After one more message the copy is that of a drag it begins, or as before.
LEMMA NeedsAfterAppend ==
  ASSUME NEW M, NEW q \in Seq(M), NEW m \in M, NEW b
  PROVE  NeedsAfter(Append(q, m), b) =
           IF m.kind = "NCDragBegin" THEN m.arg # "HTCAPTION" ELSE NeedsAfter(q, b)
  <1> DEFINE n == Len(q)
             s == Append(q, m)
  <1>1. /\ n \in Nat /\ Len(s) = n + 1 /\ s[n + 1] = m
        /\ \A j \in 1 .. n : s[j] = q[j]
    BY LenProperties, AppendProperties
  <1>2. CASE m.kind = "NCDragBegin"
    <2>1. n + 1 \in Begins(s, n + 2)
      BY <1>1, <1>2 DEF Begins
    <2>2. \A k \in Begins(s, n + 2) : k \in 1 .. (n + 1)
      BY <1>1 DEF Begins
    <2>3. (CHOOSE j \in Begins(s, n + 2) : \A k \in Begins(s, n + 2) : k <= j) = n + 1
      <3> DEFINE l == CHOOSE j \in Begins(s, n + 2) : \A k \in Begins(s, n + 2) : k <= j
      <3>1. \A k \in Begins(s, n + 2) : k <= n + 1
        BY <1>1, <2>2
      <3>2. l \in Begins(s, n + 2) /\ \A k \in Begins(s, n + 2) : k <= l
        BY <2>1, <3>1
      <3> HIDE DEF l, s, n
      <3>3. l \in 1 .. (n + 1) /\ n + 1 <= l
        BY <2>1, <2>2, <3>2
      <3>4. l = n + 1
        BY <1>1, <3>3
      <3> QED BY <3>4 DEF l
    <2>4. NeedsAt(s, b, n + 2) = (s[n + 1].arg # "HTCAPTION")
      BY <2>1, <2>3 DEF NeedsAt
    <2>5. Len(s) + 1 = n + 2
      BY <1>1
    <2> HIDE DEF s, n
    <2> QED BY <1>1, <1>2, <2>4, <2>5 DEF NeedsAfter, s
  <1>3. CASE m.kind # "NCDragBegin"
    <2>1. Begins(s, n + 2) = Begins(s, n + 1)
      <3>1. \A j : j \in 1 .. (n + 2 - 1) <=> j \in 1 .. (n + 1 - 1) \/ j = n + 1
        BY <1>1
      <3> HIDE DEF s, n
      <3> QED BY <1>1, <1>3, <3>1 DEF Begins
    <2>2. NeedsAt(s, b, n + 2) = NeedsAt(s, b, n + 1)
      BY <2>1 DEF NeedsAt
    <2>3. NeedsAt(s, b, n + 1) = NeedsAt(q, b, n + 1)
      BY <1>1, NeedsAppend
    <2>4. Len(s) + 1 = n + 2
      BY <1>1
    <2> QED BY <1>3, <2>2, <2>3, <2>4 DEF NeedsAfter
  <1> QED BY <1>2, <1>3

\* Taking the first message changes nothing for the others.
LEMMA NeedsTail ==
  ASSUME NEW M, NEW q \in Seq(M), q # <<>>, NEW b, NEW i \in 1 .. Len(q)
  PROVE  NeedsAt(Tail(q), NeedsNext(q, b), i) = NeedsAt(q, b, i + 1)
  <1> DEFINE t == Tail(q)
             n == Len(t)
             B == Begins(t, i)
             C == Begins(q, i + 1)
  <1>1. /\ n \in Nat /\ Len(q) = n + 1 /\ Head(q) = q[1]
        /\ \A j \in 1 .. n : t[j] = q[j + 1]
    BY HeadTailProperties, LenProperties
  <1>2. \A j \in B : j \in 1 .. n /\ j < i /\ j + 1 \in C
    BY <1>1 DEF Begins
  <1>3. \A j \in C : j = 1 \/ j - 1 \in B
    <2>1. SUFFICES ASSUME NEW j \in C, j # 1 PROVE j - 1 \in B
      OBVIOUS
    <2>2. j \in 1 .. i /\ q[j].kind = "NCDragBegin"
      BY DEF Begins
    <2>3. j - 1 \in 1 .. (i - 1) /\ j - 1 \in 1 .. n /\ (j - 1) + 1 = j
      BY <1>1, <2>1, <2>2
    <2>4. t[j - 1] = q[j]
      BY <1>1, <2>3
    <2> QED BY <2>2, <2>3, <2>4 DEF Begins
  <1>4. 1 \in C <=> Head(q).kind = "NCDragBegin"
    BY <1>1 DEF Begins
  <1>5. CASE B = {}
    <2>1. C \subseteq {1}
      BY <1>3, <1>5
    <2>2. NeedsAt(t, NeedsNext(q, b), i) = NeedsNext(q, b)
      BY <1>5 DEF NeedsAt
    <2>3. CASE Head(q).kind = "NCDragBegin"
      <3>1. C = {1}
        BY <1>4, <2>1, <2>3
      <3>2. (CHOOSE j \in C : \A k \in C : k <= j) = 1
        BY <3>1
      <3> QED BY <1>1, <2>2, <2>3, <3>1, <3>2 DEF NeedsAt, NeedsNext
    <2>4. CASE Head(q).kind # "NCDragBegin"
      <3>1. C = {}
        BY <1>4, <2>1, <2>4
      <3> QED BY <2>2, <2>4, <3>1 DEF NeedsAt, NeedsNext
    <2> QED BY <2>3, <2>4
  <1>6. CASE B # {}
    <2> DEFINE l == CHOOSE j \in B : \A k \in B : k <= j
               r == CHOOSE j \in C : \A k \in C : k <= j
    <2>1. l \in B /\ \A k \in B : k <= l
      <3>1. B \in SUBSET (1 .. n)
        BY <1>2
      <3>2. \E j \in B : \A k \in B : k <= j
        BY <1>1, <1>6, <3>1, Greatest
      <3> QED BY <3>2
    <2>2. l + 1 \in C /\ \A k \in C : k <= l + 1
      <3>1. l \in 1 .. n /\ l + 1 \in C
        BY <1>2, <2>1
      <3>2. ASSUME NEW k \in C PROVE k <= l + 1
        <4>1. k \in Int
          BY DEF Begins
        <4>2. k = 1 \/ k - 1 <= l
          BY <1>3, <2>1
        <4> QED BY <3>1, <4>1, <4>2
      <3> QED BY <3>1, <3>2
    <2>3. r = l + 1
      <3>1. r \in C /\ \A k \in C : k <= r
        BY <2>2
      <3>2. B \subseteq Int /\ C \subseteq Int
        BY DEF Begins
      <3> HIDE DEF l, r, B, C
      <3> QED BY <2>1, <2>2, <3>1, <3>2
    <2>4. t[l] = q[r]
      BY <1>1, <1>2, <2>1, <2>3
    <2>5. C # {}
      BY <2>2
    <2>6. NeedsAt(t, NeedsNext(q, b), i) = (t[l].arg # "HTCAPTION")
      BY <1>6 DEF NeedsAt
    <2>7. NeedsAt(q, b, i + 1) = (q[r].arg # "HTCAPTION")
      BY <2>5 DEF NeedsAt
    <2> HIDE DEF l, r, t, B, C
    <2>8. (t[l].arg # "HTCAPTION") = (q[r].arg # "HTCAPTION")
      BY <2>4
    <2>9. NeedsAt(t, NeedsNext(q, b), i) = NeedsAt(q, b, i + 1)
      BY <2>6, <2>7, <2>8
    <2> QED BY <2>9 DEF t
  <1> QED BY <1>5, <1>6

\* Nor for the copy after all of them.
LEMMA NeedsAfterTail ==
  ASSUME NEW M, NEW q \in Seq(M), q # <<>>, NEW b
  PROVE  NeedsAfter(Tail(q), NeedsNext(q, b)) = NeedsAfter(q, b)
  <1>1. Len(Tail(q)) \in Nat /\ Len(q) = Len(Tail(q)) + 1
    BY HeadTailProperties, LenProperties
  <1>2. Len(q) \in 1 .. Len(q)
    BY <1>1
  <1>3. NeedsAt(Tail(q), NeedsNext(q, b), Len(q)) = NeedsAt(q, b, Len(q) + 1)
    BY <1>2, NeedsTail
  <1> QED BY <1>1, <1>3 DEF NeedsAfter

\* The first message meets the copy as it is.
LEMMA NeedsFirst ==
  ASSUME NEW q, NEW b
  PROVE  NeedsAt(q, b, 1) = b
  <1>1. Begins(q, 1) = {}
    BY DEF Begins
  <1> QED BY <1>1 DEF NeedsAt

\* The copy is a flag at any time.
LEMMA NeedsIsBoolean ==
  ASSUME NEW q, NEW b \in BOOLEAN, NEW i
  PROVE  NeedsAt(q, b, i) \in BOOLEAN
  <1>1. CASE Begins(q, i) = {}
    BY <1>1 DEF NeedsAt
  <1>2. CASE Begins(q, i) # {}
    BY <1>2 DEF NeedsAt
  <1> QED BY <1>1, <1>2

\* What appending a message does to the acknowledgements to come.
LEMMA AcknowledgedAppend ==
  ASSUME NEW M, NEW q \in Seq(M), NEW m \in M, NEW b \in BOOLEAN, NEW k
  PROVE  /\ Acknowledged(Append(q, m), b) =
              Acknowledged(q, b)
                + (IF m.kind \in DragKinds /\ NeedsAfter(q, b) THEN 1 ELSE 0)
         /\ NoneOf(Append(q, m), b, k) <=>
              NoneOf(q, b, k) /\ ~(m.kind = k /\ NeedsAfter(q, b))
  <1> DEFINE n == Len(q)
             s == Append(q, m)
             c == m.kind \in DragKinds /\ NeedsAfter(q, b)
             P(r) == {i \in 1 .. Len(r) : r[i].kind \in DragKinds /\ NeedsAt(r, b, i)}
  <1>1. /\ n \in Nat /\ Len(s) = n + 1 /\ s[n + 1] = m
        /\ \A j \in 1 .. n : s[j] = q[j]
    BY LenProperties, AppendProperties
  <1>2. \A i \in 1 .. (n + 1) : NeedsAt(s, b, i) = NeedsAt(q, b, i)
    BY NeedsAppend
  <1>3. NeedsAt(s, b, n + 1) = NeedsAfter(q, b)
    BY <1>1, <1>2 DEF NeedsAfter
  <1>4. \A i : i \in 1 .. Len(s) <=> i \in 1 .. n \/ i = n + 1
    BY <1>1
  <1>5. n + 1 \notin 1 .. n /\ \A i \in 1 .. n : i \in 1 .. (n + 1)
    BY <1>1
  <1> HIDE DEF s, n
  <1>6. P(s) = P(q) \union (IF c THEN {n + 1} ELSE {})
    <2>1. ASSUME NEW i \in 1 .. n PROVE i \in P(s) <=> i \in P(q)
      <3>1. s[i] = q[i] /\ NeedsAt(s, b, i) = NeedsAt(q, b, i) /\ i \in 1 .. Len(s)
        BY <1>1, <1>2, <1>4, <1>5
      <3> QED BY <3>1 DEF n
    <2>2. n + 1 \in P(s) <=> c
      BY <1>1, <1>3, <1>4
    <2>3. P(s) \subseteq 1 .. Len(s) /\ P(q) \subseteq 1 .. n
      BY DEF n
    <2> HIDE DEF P, c
    <2> QED BY <1>4, <1>5, <2>1, <2>2, <2>3
  <1>7. P(q) \in SUBSET (1 .. n) /\ c \in BOOLEAN
    <2>1. NeedsAfter(q, b) \in BOOLEAN
      BY NeedsIsBoolean DEF NeedsAfter
    <2> QED BY <2>1 DEF n
  <1>8. Cardinality(P(s)) = Cardinality(P(q)) + (IF c THEN 1 ELSE 0)
    <2> HIDE DEF P, c
    <2> QED BY <1>1, <1>6, <1>7, Extend
  <1>9. NoneOf(s, b, k) <=> NoneOf(q, b, k) /\ ~(m.kind = k /\ NeedsAfter(q, b))
    <2> DEFINE Quiet(r, i) == r[i].kind = k => ~NeedsAt(r, b, i)
    <2>1. NoneOf(s, b, k) <=> \A i \in 1 .. Len(s) : Quiet(s, i)
      BY DEF NoneOf
    <2>2. NoneOf(q, b, k) <=> \A i \in 1 .. n : Quiet(q, i)
      BY DEF NoneOf, n
    <2>3. \A i \in 1 .. n : Quiet(s, i) <=> Quiet(q, i)
      BY <1>1, <1>2, <1>5
    <2>4. Quiet(s, n + 1) <=> ~(m.kind = k /\ NeedsAfter(q, b))
      BY <1>1, <1>3
    <2> HIDE DEF Quiet
    <2>5. (\A i \in 1 .. Len(s) : Quiet(s, i)) <=>
            (\A i \in 1 .. n : Quiet(s, i)) /\ Quiet(s, n + 1)
      BY <1>4, Zenon
    <2> QED BY <2>1, <2>2, <2>3, <2>4, <2>5
  <1> QED BY <1>8, <1>9 DEF Acknowledged, s

\* What taking the first message does to them.
LEMMA AcknowledgedTail ==
  ASSUME NEW M, NEW q \in Seq(M), q # <<>>, NEW b \in BOOLEAN, NEW k
  PROVE  /\ Acknowledged(q, b) =
              Acknowledged(Tail(q), NeedsNext(q, b))
                + (IF Head(q).kind \in DragKinds /\ b THEN 1 ELSE 0)
         /\ NoneOf(q, b, k) <=>
              NoneOf(Tail(q), NeedsNext(q, b), k) /\ ~(Head(q).kind = k /\ b)
  <1> DEFINE t == Tail(q)
             n == Len(t)
             d == NeedsNext(q, b)
             c == Head(q).kind \in DragKinds /\ b
             S == {i \in 1 .. Len(q) : q[i].kind \in DragKinds /\ NeedsAt(q, b, i)}
             T == {i \in 1 .. n : t[i].kind \in DragKinds /\ NeedsAt(t, d, i)}
  <1>1. /\ n \in Nat /\ Len(q) = n + 1 /\ Head(q) = q[1]
        /\ \A j \in 1 .. n : t[j] = q[j + 1]
    BY HeadTailProperties, LenProperties
  <1>2. ASSUME NEW i \in 1 .. n
        PROVE  i \in 1 .. Len(q) /\ i + 1 \in 1 .. Len(q)
    BY <1>1
  <1>3. \A i \in 1 .. n : NeedsAt(t, d, i) = NeedsAt(q, b, i + 1)
    BY <1>2, NeedsTail
  <1>4. NeedsAt(q, b, 1) = b /\ 1 \in 1 .. Len(q)
    BY <1>1, NeedsFirst
  <1>5. \A i \in 1 .. Len(q) : i = 1 \/ (i - 1 \in 1 .. n /\ i = (i - 1) + 1)
    BY <1>1
  <1> HIDE DEF t, n, d
  <1>6. S = {i + 1 : i \in T} \union (IF c THEN {1} ELSE {})
    <2>1. ASSUME NEW i \in 1 .. n PROVE i \in T <=> i + 1 \in S
      BY <1>1, <1>2, <1>3
    <2>2. 1 \in S <=> c
      BY <1>1, <1>4
    <2>3. ASSUME NEW i \in S
          PROVE  i \in {j + 1 : j \in T} \union (IF c THEN {1} ELSE {})
      <3>1. i = 1 \/ (i - 1 \in 1 .. n /\ i = (i - 1) + 1)
        BY <1>5
      <3>2. CASE i = 1
        BY <2>2, <2>3, <3>2
      <3>3. CASE i - 1 \in 1 .. n /\ i = (i - 1) + 1
        <4>1. i - 1 \in T
          BY <2>1, <2>3, <3>3
        <4> HIDE DEF T, S
        <4> QED BY <3>3, <4>1
      <3> QED BY <3>1, <3>2, <3>3
    <2>4. ASSUME NEW i \in T PROVE i + 1 \in S
      BY <2>1
    <2> HIDE DEF S, T, c
    <2> QED BY <2>2, <2>3, <2>4
  <1>7. T \in SUBSET (1 .. n) /\ c \in BOOLEAN
    OBVIOUS
  <1>8. Cardinality(S) = Cardinality(T) + (IF c THEN 1 ELSE 0)
    <2> HIDE DEF S, T, c
    <2> QED BY <1>1, <1>6, <1>7, Shift
  <1>9. NoneOf(q, b, k) <=> NoneOf(t, d, k) /\ ~(Head(q).kind = k /\ b)
    <2>1. NoneOf(t, d, k) <=>
            \A i \in 1 .. n : q[i + 1].kind = k => ~NeedsAt(q, b, i + 1)
      BY <1>1, <1>3 DEF NoneOf, n
    <2>2. NoneOf(q, b, k) =>
            /\ \A i \in 1 .. n : q[i + 1].kind = k => ~NeedsAt(q, b, i + 1)
            /\ q[1].kind = k => ~NeedsAt(q, b, 1)
      BY <1>2, <1>4 DEF NoneOf
    <2>3. ASSUME \A i \in 1 .. n : q[i + 1].kind = k => ~NeedsAt(q, b, i + 1),
                 q[1].kind = k => ~NeedsAt(q, b, 1)
          PROVE  NoneOf(q, b, k)
      <3>1. SUFFICES ASSUME NEW i \in 1 .. Len(q)
                     PROVE  q[i].kind = k => ~NeedsAt(q, b, i)
        BY DEF NoneOf
      <3>2. CASE i = 1
        BY <2>3, <3>2
      <3>3. CASE i - 1 \in 1 .. n /\ i = (i - 1) + 1
        <4> DEFINE j == i - 1
        <4>1. j \in 1 .. n /\ i = j + 1
          BY <3>3
        <4> HIDE DEF j
        <4> QED BY <2>3, <4>1
      <3> QED BY <1>5, <3>2, <3>3
    <2> QED BY <1>1, <1>4, <2>1, <2>2, <2>3
  <1> QED BY <1>8, <1>9 DEF Acknowledged, t, n, d

\* The number of acknowledgements to come is a number, and none means that of
\* neither kind any is.
LEMMA AcknowledgedFacts ==
  ASSUME NEW M, NEW q \in Seq(M), NEW b \in BOOLEAN, NEW k \in DragKinds
  PROVE  /\ Acknowledged(q, b) \in Nat
         /\ Acknowledged(q, b) = 0 => NoneOf(q, b, k)
         /\ Acknowledged(<<>>, b) = 0
         /\ NeedsAfter(<<>>, b) = b
  <1> DEFINE S == {i \in 1 .. Len(q) : q[i].kind \in DragKinds /\ NeedsAt(q, b, i)}
  <1>1. IsFiniteSet(S)
    <2>1. IsFiniteSet(1 .. Len(q)) /\ S \in SUBSET (1 .. Len(q))
      BY LenProperties, FS_Interval
    <2> QED BY <2>1, FS_Subset
  <1>2. Acknowledged(q, b) \in Nat
    BY <1>1, FS_CardinalityType DEF Acknowledged
  <1>3. Acknowledged(q, b) = 0 => NoneOf(q, b, k)
    <2>1. Acknowledged(q, b) = Cardinality(S)
      BY DEF Acknowledged
    <2>2. Cardinality(S) = 0 => S = {}
      BY <1>1, FS_EmptySet
    <2>3. S = {} => NoneOf(q, b, k)
      BY DEF NoneOf, DragKinds
    <2> HIDE DEF S
    <2> QED BY <2>1, <2>2, <2>3
  <1>4. Acknowledged(<<>>, b) = 0
    <2>1. {i \in 1 .. Len(<<>>) : <<>>[i].kind \in DragKinds /\ NeedsAt(<<>>, b, i)} = {}
      OBVIOUS
    <2> QED BY <2>1, FS_EmptySet DEF Acknowledged
  <1>5. NeedsAfter(<<>>, b) = b
    <2>1. Len(<<>>) + 1 = 1
      OBVIOUS
    <2> QED BY <2>1, NeedsFirst DEF NeedsAfter
  <1> QED BY <1>2, <1>3, <1>4, <1>5

-----------------------------------------------------------------------------
(* Types.                                                                  *)

\* When a hit test is asked for.
Asks == d_ncHitTestEnabled /\ ~d_ncHitTestPendingAck

\* Concatenating one message or none.
LEMMA Appending ==
  ASSUME NEW M, NEW q \in Seq(M), NEW m \in M, NEW c \in BOOLEAN
  PROVE  q \o (IF c THEN <<m>> ELSE <<>>) = IF c THEN Append(q, m) ELSE q
  <1>1. CASE c
    <2>1. Append(q, m) = q \o <<m>>
      BY AppendIsConcat
    <2> QED BY <1>1, <2>1
  <1>2. CASE ~c
    <2>1. q \o <<>> = q
      BY ConcatEmptySeq
    <2> QED BY <1>2, <2>1
  <1> QED BY <1>1, <1>2

\* The type of toHost does not say that the answer to a hit test carries a
\* code, which the type of d_lastNCHitTestResult needs.
HostMessage == [kind : {"OnNCHitTestResult"}, point : Point, arg : Code]
         \union [kind : {"NCDragMoveAck", "NCDragEndAck"}, point : Point, arg : {"none"}]
         \union [kind : {"EnableNCHitTest"}, point : Point, arg : BOOLEAN]

Typed == TypeOK /\ toHost \in Seq(HostMessage)

\* The messages have the types of their channels.
LEMMA MessageTypes ==
  /\ \A kind \in {"RequestNCHitTest", "NCDragBegin", "NCDragMove", "NCDragEnd"},
       p \in Point, arg \in Code \union {"none"} :
         Message(kind, p, arg) \in ToProxyMessage
  /\ \A p \in Point, arg \in Code :
       Message("OnNCHitTestResult", p, arg) \in HostMessage \intersect ToHostMessage
  /\ \A kind \in {"NCDragMoveAck", "NCDragEndAck"}, p \in Point :
       Message(kind, p, "none") \in HostMessage \intersect ToHostMessage
  /\ \A p \in Point, arg \in BOOLEAN :
       Message("EnableNCHitTest", p, arg) \in HostMessage \intersect ToHostMessage
  /\ \A kind, p, arg : /\ Message(kind, p, arg).kind = kind
                       /\ Message(kind, p, arg).point = p
                       /\ Message(kind, p, arg).arg = arg
  BY DEF Message, ToProxyMessage, ToHostMessage, HostMessage

\* The messages taken from the channel to the host, by kind.
LEMMA HostMessageTypes ==
  ASSUME NEW m \in HostMessage
  PROVE  /\ m.point \in Point
         /\ m.kind = "EnableNCHitTest" => m.arg \in BOOLEAN
         /\ m.kind = "OnNCHitTestResult" => m.arg \in Code
  BY DEF HostMessage

\* What the actions append with \o.
LEMMA Sending ==
  ASSUME Typed
  PROVE  /\ Plain("RequestNCHitTest") \in ToProxyMessage
         /\ toProxy \o HitTestRequest =
              IF Asks THEN Append(toProxy, Plain("RequestNCHitTest")) ELSE toProxy
         /\ HitTestRequest # <<>> <=> Asks
         /\ \A kind \in {"NCDragMoveAck", "NCDragEndAck"} :
              toHost \o Ack(kind, cursor) =
                IF proxyNeedsAck THEN Append(toHost, Message(kind, cursor, "none"))
                ELSE toHost
         /\ Append(toProxy, Plain("RequestNCHitTest")) \in Seq(ToProxyMessage)
         /\ toProxy \o HitTestRequest \in Seq(ToProxyMessage)
         /\ \A kind \in {"NCDragMoveAck", "NCDragEndAck"} :
              /\ toHost \o Ack(kind, cursor) \in Seq(HostMessage)
              /\ toHost \o Ack(kind, cursor) \in Seq(ToHostMessage)
  <1>1. cursor \in Point /\ toProxy \in Seq(ToProxyMessage) /\ toHost \in Seq(HostMessage)
        /\ proxyNeedsAck \in BOOLEAN
    BY DEF Typed, TypeOK
  <1>2. Plain("RequestNCHitTest") \in ToProxyMessage
    BY <1>1, MessageTypes DEF Plain
  <1>3. Asks \in BOOLEAN
    BY DEF Asks
  <1>4. HitTestRequest = IF Asks THEN <<Plain("RequestNCHitTest")>> ELSE <<>>
    BY DEF HitTestRequest, Asks
  <1>5. toProxy \o HitTestRequest =
          IF Asks THEN Append(toProxy, Plain("RequestNCHitTest")) ELSE toProxy
    BY <1>1, <1>2, <1>3, <1>4, Appending
  <1>6. ASSUME NEW kind \in {"NCDragMoveAck", "NCDragEndAck"}
        PROVE  toHost \o Ack(kind, cursor) =
                 IF proxyNeedsAck THEN Append(toHost, Message(kind, cursor, "none"))
                 ELSE toHost
    <2>1. Message(kind, cursor, "none") \in HostMessage
      BY <1>1, MessageTypes
    <2> QED BY <1>1, <2>1, Appending DEF Ack
  <1>7. <<Plain("RequestNCHitTest")>> # <<>>
    OBVIOUS
  <1>8. Append(toProxy, Plain("RequestNCHitTest")) \in Seq(ToProxyMessage)
    BY <1>1, <1>2, AppendProperties
  <1>9. toProxy \o HitTestRequest \in Seq(ToProxyMessage)
    BY <1>1, <1>5, <1>8
  <1>10. ASSUME NEW kind \in {"NCDragMoveAck", "NCDragEndAck"}
         PROVE  /\ toHost \o Ack(kind, cursor) \in Seq(HostMessage)
                /\ toHost \o Ack(kind, cursor) \in Seq(ToHostMessage)
    <2> DEFINE m == Message(kind, cursor, "none")
    <2>1. m \in HostMessage /\ m \in ToHostMessage
      BY <1>1, MessageTypes
    <2> HIDE DEF m
    <2>2. Append(toHost, m) \in Seq(HostMessage)
      BY <1>1, <2>1, AppendProperties
    <2>3. toHost \in Seq(ToHostMessage)
      BY DEF Typed, TypeOK
    <2>4. Append(toHost, m) \in Seq(ToHostMessage)
      BY <2>1, <2>3, AppendProperties
    <2> QED BY <1>1, <1>6, <2>2, <2>3, <2>4 DEF m
  <1> QED BY <1>2, <1>4, <1>5, <1>6, <1>7, <1>8, <1>9, <1>10

\* Taking a message from a channel.
LEMMA Taking ==
  ASSUME Typed
  PROVE  /\ toProxy # <<>> => Head(toProxy) \in ToProxyMessage
                              /\ Tail(toProxy) \in Seq(ToProxyMessage)
         /\ toHost # <<>> => Head(toHost) \in HostMessage
                             /\ Tail(toHost) \in Seq(HostMessage)
                             /\ Tail(toHost) \in Seq(ToHostMessage)
  BY HeadTailProperties DEF Typed, TypeOK

\* The types hold at first.
LEMMA TypedInit == Init => Typed
  <1> SUFFICES ASSUME Init PROVE Typed
    OBVIOUS
  <1>1. <<>> \in Seq(ToProxyMessage) /\ <<>> \in Seq(ToHostMessage)
        /\ <<>> \in Seq(HostMessage)
    BY EmptySeq
  <1>2. 0 \in 0 .. MaxInputs
    BY BoundAssumption
  <1> QED BY <1>1, <1>2 DEF Init, Typed, TypeOK, Code

\* Every action preserves them.
LEMMA TypedNext == Typed /\ [Next]_vars => Typed'
  <1> SUFFICES ASSUME Typed, [Next]_vars PROVE Typed'
    OBVIOUS
  <1> USE DEF Typed, TypeOK, mouseVars, hitTestVars, hostVars, delegateVars
  <1>1. ASSUME NEW p \in Point, CursorMoves(p) PROVE Typed'
    BY <1>1, BoundAssumption DEF CursorMoves
  <1>2. CASE HandleMouseMove
    <2>1. toProxy' \in Seq(ToProxyMessage)
      BY <1>2, Sending DEF HandleMouseMove
    <2> QED BY <1>2, <2>1 DEF HandleMouseMove, OnNCHitTest
  <1>3. CASE ncDragMove
    <2>1. Plain("NCDragMove") \in ToProxyMessage
      BY MessageTypes DEF Plain
    <2>2. toProxy' \in Seq(ToProxyMessage)
      BY <1>3, <2>1, AppendProperties DEF ncDragMove
    <2> QED BY <1>3, <2>2 DEF ncDragMove
  <1>4. CASE ncDragBegin
    <2> DEFINE code == FromWindows(ToWindows(d_lastNCHitTestResult))
               asked == toProxy \o HitTestRequest
    <2>1. code \in Code
      BY DEF FromWindows, ToWindows, Code
    <2>2. Message("NCDragBegin", cursor, code) \in ToProxyMessage
      BY <2>1, MessageTypes
    <2>3. asked \in Seq(ToProxyMessage)
      BY Sending
    <2> HIDE DEF code
    <2>4. asked \o <<Message("NCDragBegin", cursor, code)>>
            = Append(asked, Message("NCDragBegin", cursor, code))
      BY <2>2, <2>3, AppendIsConcat
    <2>5. toProxy' = asked \/ toProxy' = asked \o <<Message("NCDragBegin", cursor, code)>>
      BY <1>4 DEF ncDragBegin, code
    <2> HIDE DEF asked
    <2>6. Append(asked, Message("NCDragBegin", cursor, code)) \in Seq(ToProxyMessage)
      BY <2>2, <2>3, AppendProperties
    <2>7. toProxy' \in Seq(ToProxyMessage)
      BY <2>3, <2>4, <2>5, <2>6
    <2>8. d_ncDragNeedsAck' \in BOOLEAN /\ d_ncDragging' \in BOOLEAN /\ ignored' \in BOOLEAN
      BY <1>4 DEF ncDragBegin
    <2>9. inputs' \in 0 .. MaxInputs
      BY <1>4, BoundAssumption DEF ncDragBegin
    <2> QED BY <1>4, <2>7, <2>8, <2>9 DEF ncDragBegin, OnNCHitTest
  <1>5. CASE ncDragEnd
    <2>1. Plain("NCDragEnd") \in ToProxyMessage
      BY MessageTypes DEF Plain
    <2>2. toProxy' \in Seq(ToProxyMessage)
      BY <1>5, <2>1, AppendProperties DEF ncDragEnd
    <2> QED BY <1>5, <2>2 DEF ncDragEnd
  <1>6. CASE onEnableNCHitTest
    <2>1. Head(toHost) \in HostMessage /\ Tail(toHost) \in Seq(HostMessage)
          /\ Tail(toHost) \in Seq(ToHostMessage)
      BY <1>6, Taking DEF onEnableNCHitTest, Receive
    <2>2. d_ncHitTestEnabled' \in BOOLEAN
      BY <1>6, <2>1, HostMessageTypes DEF onEnableNCHitTest, Receive
    <2>3. d_lastNCHitTestResult' \in Code
      BY <1>6 DEF onEnableNCHitTest, Code
    <2> QED BY <1>6, <2>1, <2>2, <2>3 DEF onEnableNCHitTest
  <1>7. CASE onOnNCHitTestResult
    <2>1. Head(toHost) \in HostMessage /\ Tail(toHost) \in Seq(HostMessage)
          /\ Tail(toHost) \in Seq(ToHostMessage)
      BY <1>7, Taking DEF onOnNCHitTestResult, Receive
    <2>2. d_lastNCHitTestResult' \in Code /\ answeredAt' \in Point
      BY <1>7, <2>1, HostMessageTypes DEF onOnNCHitTestResult, Receive
    <2>3. toProxy' \in Seq(ToProxyMessage) /\ d_ncHitTestPendingAck' \in BOOLEAN
      BY <1>7, Sending DEF onOnNCHitTestResult
    <2> QED BY <1>7, <2>1, <2>2, <2>3 DEF onOnNCHitTestResult
  <1>8. CASE onNCDragMoveAck
    <2>1. Tail(toHost) \in Seq(HostMessage) /\ Tail(toHost) \in Seq(ToHostMessage)
      BY <1>8, Taking DEF onNCDragMoveAck, Receive
    <2>2. /\ Plain("NCDragMove") \in ToProxyMessage
          /\ Message("NCDragEnd", d_ncDragEndPoint, "none") \in ToProxyMessage
      BY MessageTypes DEF Plain
    <2>3. /\ Append(toProxy, Plain("NCDragMove")) \in Seq(ToProxyMessage)
          /\ Append(toProxy, Message("NCDragEnd", d_ncDragEndPoint, "none"))
               \in Seq(ToProxyMessage)
      BY <2>2, AppendProperties
    <2>4. toProxy' \in Seq(ToProxyMessage)
      BY <1>8, <2>3 DEF onNCDragMoveAck
    <2> QED BY ZenonT(40), <1>8, <2>1, <2>4 DEF onNCDragMoveAck
  <1>9. CASE onNCDragEndAck
    <2>1. Tail(toHost) \in Seq(HostMessage) /\ Tail(toHost) \in Seq(ToHostMessage)
      BY <1>9, Taking DEF onNCDragEndAck, Receive
    <2> QED BY ZenonT(40), <1>9, <2>1 DEF onNCDragEndAck
  <1>10. CASE onRequestNCHitTest
    BY <1>10, Taking DEF onRequestNCHitTest, Receive, proxyUnchanged
  <1>11. CASE onNCDragBegin
    <2>1. Head(toProxy).point \in Point /\ Tail(toProxy) \in Seq(ToProxyMessage)
      BY <1>11, Taking DEF onNCDragBegin, Receive, ToProxyMessage
    <2>2. delegate' \in [state : {"idle", "dragging", "stray"}, point : Point]
      BY <1>11, <2>1 DEF onNCDragBegin, Begun
    <2> QED BY <1>11, <2>1, <2>2 DEF onNCDragBegin, proxyUnchanged
  <1>12. CASE onNCDragMove
    <2>1. Tail(toProxy) \in Seq(ToProxyMessage)
      BY <1>12, Taking DEF onNCDragMove, Receive
    <2>2. delegate' \in [state : {"idle", "dragging", "stray"}, point : Point]
      BY <1>12 DEF onNCDragMove, Moved
    <2>3. toHost' \in Seq(HostMessage) /\ toHost' \in Seq(ToHostMessage)
      BY <1>12, Sending DEF onNCDragMove
    <2> QED BY <1>12, <2>1, <2>2, <2>3 DEF onNCDragMove, proxyUnchanged
  <1>13. CASE onNCDragEnd
    <2>1. Head(toProxy).point \in Point /\ Tail(toProxy) \in Seq(ToProxyMessage)
      BY <1>13, Taking DEF onNCDragEnd, Receive, ToProxyMessage
    <2>2. delegate' \in [state : {"idle", "dragging", "stray"}, point : Point]
      BY <1>13, <2>1 DEF onNCDragEnd, Ended
    <2>3. toHost' \in Seq(HostMessage) /\ toHost' \in Seq(ToHostMessage)
      BY <1>13, Sending DEF onNCDragEnd
    <2> QED BY <1>13, <2>1, <2>2, <2>3 DEF onNCDragEnd, proxyUnchanged
  <1>14. ASSUME NEW code \in Code, onNCHitTestResult(code) PROVE Typed'
    <2>1. toHost' \in Seq(HostMessage) /\ toHost' \in Seq(ToHostMessage)
      BY <1>14, MessageTypes, AppendProperties DEF onNCHitTestResult
    <2> QED BY ZenonT(40), <1>14, <2>1 DEF onNCHitTestResult, proxyUnchanged
  <1>15. ASSUME NEW enabled \in BOOLEAN, enableNCHitTest(enabled) PROVE Typed'
    <2>1. toHost' \in Seq(HostMessage) /\ toHost' \in Seq(ToHostMessage)
      BY <1>15, MessageTypes, AppendProperties DEF enableNCHitTest
    <2> QED BY <1>15, <2>1, BoundAssumption DEF enableNCHitTest, proxyUnchanged
  <1>16. CASE UNCHANGED vars
    BY <1>16 DEF vars
  <1> QED BY <1>1, <1>2, <1>3, <1>4, <1>5, <1>6, <1>7, <1>8, <1>9, <1>10, <1>11, <1>12,
             <1>13, <1>14, <1>15, <1>16
          DEF Next, MouseMessage, HostStep, ProxyStep, Answer

\* The channels carry the messages that the handlers expect, and every variable
\* of the three classes keeps its type.
THEOREM TypeCorrect == Spec => []TypeOK
  <1>1. Typed => TypeOK
    BY DEF Typed
  <1> QED BY <1>1, TypedInit, TypedNext, PTL DEF Spec

-----------------------------------------------------------------------------
(* The invariant.                                                          *)

AckKinds == {"NCDragMoveAck", "NCDragEndAck"}

\* As AckPendingIsExact, by position on the channel.
AcksAreExact ==
  Acknowledged(toProxy, proxyNeedsAck) + Count(toHost, AckKinds)
    = IF d_ncDragAckPending THEN 1 ELSE 0

\* When the proxy has got everything, its copy of the flag is the host's.
CopiesWillAgree == NeedsAfter(toProxy, proxyNeedsAck) = d_ncDragNeedsAck

\* In a drag nothing is left of the end of another one.
NoOldEnd ==
  d_ncDragging => /\ NoEnd(toProxy, proxyNeedsAck)
                  /\ Count(toHost, {"NCDragEndAck"}) = 0

DragInv == OneHitTestOutstanding /\ AcksAreExact /\ CopiesWillAgree /\ NoOldEnd

\* What a message does at the end of the channel to the proxy, and leaving it.
LEMMA ProxyChannel ==
  ASSUME NEW q \in Seq(ToProxyMessage), NEW b \in BOOLEAN
  PROVE  /\ Count(q, {"RequestNCHitTest"}) \in Nat
         /\ Acknowledged(q, b) \in Nat
         /\ Acknowledged(q, b) = 0 => NoEnd(q, b) /\ NoMove(q, b)
         /\ \A m \in ToProxyMessage :
              /\ Count(Append(q, m), {"RequestNCHitTest"}) =
                   Count(q, {"RequestNCHitTest"})
                     + (IF m.kind = "RequestNCHitTest" THEN 1 ELSE 0)
              /\ Acknowledged(Append(q, m), b) =
                   Acknowledged(q, b)
                     + (IF m.kind \in DragKinds /\ NeedsAfter(q, b) THEN 1 ELSE 0)
              /\ NeedsAfter(Append(q, m), b) =
                   IF m.kind = "NCDragBegin" THEN m.arg # "HTCAPTION" ELSE NeedsAfter(q, b)
              /\ NoEnd(Append(q, m), b) <=>
                   NoEnd(q, b) /\ ~(m.kind = "NCDragEnd" /\ NeedsAfter(q, b))
              /\ NoMove(Append(q, m), b) <=>
                   NoMove(q, b) /\ ~(m.kind = "NCDragMove" /\ NeedsAfter(q, b))
         /\ q # <<>> =>
              /\ Count(q, {"RequestNCHitTest"}) =
                   Count(Tail(q), {"RequestNCHitTest"})
                     + (IF Head(q).kind = "RequestNCHitTest" THEN 1 ELSE 0)
              /\ Acknowledged(q, b) =
                   Acknowledged(Tail(q), NeedsNext(q, b))
                     + (IF Head(q).kind \in DragKinds /\ b THEN 1 ELSE 0)
              /\ NeedsAfter(Tail(q), NeedsNext(q, b)) = NeedsAfter(q, b)
              /\ NoEnd(q, b) <=>
                   NoEnd(Tail(q), NeedsNext(q, b)) /\ ~(Head(q).kind = "NCDragEnd" /\ b)
              /\ NoMove(q, b) <=>
                   NoMove(Tail(q), NeedsNext(q, b)) /\ ~(Head(q).kind = "NCDragMove" /\ b)
  <1>1. /\ Acknowledged(q, b) \in Nat
        /\ Acknowledged(q, b) = 0 => NoEnd(q, b) /\ NoMove(q, b)
    <2>1. "NCDragEnd" \in DragKinds /\ "NCDragMove" \in DragKinds
      BY DEF DragKinds
    <2> QED BY <2>1, AcknowledgedFacts DEF NoEnd, NoMove
  <1>2. Count(q, {"RequestNCHitTest"}) \in Nat
    BY CountFacts
  <1>3. ASSUME NEW m \in ToProxyMessage
        PROVE  Count(Append(q, m), {"RequestNCHitTest"}) =
                 Count(q, {"RequestNCHitTest"})
                   + (IF m.kind = "RequestNCHitTest" THEN 1 ELSE 0)
    <2>1. Count(Append(q, m), {"RequestNCHitTest"}) =
            Count(q, {"RequestNCHitTest"})
              + (IF m.kind \in {"RequestNCHitTest"} THEN 1 ELSE 0)
      BY CountFacts
    <2> QED BY <2>1
  <1>4. q # <<>> => Count(q, {"RequestNCHitTest"}) =
                      Count(Tail(q), {"RequestNCHitTest"})
                        + (IF Head(q).kind = "RequestNCHitTest" THEN 1 ELSE 0)
    <2>1. q # <<>> => Count(q, {"RequestNCHitTest"}) =
                        Count(Tail(q), {"RequestNCHitTest"})
                          + (IF Head(q).kind \in {"RequestNCHitTest"} THEN 1 ELSE 0)
      BY CountFacts
    <2> QED BY <2>1
  <1>5. ASSUME NEW m \in ToProxyMessage
        PROVE  /\ Acknowledged(Append(q, m), b) =
                    Acknowledged(q, b)
                      + (IF m.kind \in DragKinds /\ NeedsAfter(q, b) THEN 1 ELSE 0)
               /\ NoEnd(Append(q, m), b) <=>
                    NoEnd(q, b) /\ ~(m.kind = "NCDragEnd" /\ NeedsAfter(q, b))
               /\ NoMove(Append(q, m), b) <=>
                    NoMove(q, b) /\ ~(m.kind = "NCDragMove" /\ NeedsAfter(q, b))
    BY AcknowledgedAppend DEF NoEnd, NoMove
  <1>6. ASSUME q # <<>>
        PROVE  /\ Acknowledged(q, b) =
                    Acknowledged(Tail(q), NeedsNext(q, b))
                      + (IF Head(q).kind \in DragKinds /\ b THEN 1 ELSE 0)
               /\ NoEnd(q, b) <=>
                    NoEnd(Tail(q), NeedsNext(q, b)) /\ ~(Head(q).kind = "NCDragEnd" /\ b)
               /\ NoMove(q, b) <=>
                    NoMove(Tail(q), NeedsNext(q, b)) /\ ~(Head(q).kind = "NCDragMove" /\ b)
    BY <1>6, AcknowledgedTail DEF NoEnd, NoMove
  <1> QED BY <1>1, <1>2, <1>3, <1>4, <1>5, <1>6, NeedsAfterAppend, NeedsAfterTail

\* The same for the channel to the host.
LEMMA HostChannel ==
  ASSUME NEW q \in Seq(HostMessage)
  PROVE  /\ Count(q, {"OnNCHitTestResult"}) \in Nat
         /\ Count(q, AckKinds) \in Nat
         /\ Count(q, {"NCDragEndAck"}) \in Nat
         /\ Count(q, AckKinds) = 0 => Count(q, {"NCDragEndAck"}) = 0
         /\ \A m \in HostMessage :
              /\ Count(Append(q, m), {"OnNCHitTestResult"}) =
                   Count(q, {"OnNCHitTestResult"})
                     + (IF m.kind = "OnNCHitTestResult" THEN 1 ELSE 0)
              /\ Count(Append(q, m), AckKinds) =
                   Count(q, AckKinds) + (IF m.kind \in AckKinds THEN 1 ELSE 0)
              /\ Count(Append(q, m), {"NCDragEndAck"}) =
                   Count(q, {"NCDragEndAck"}) + (IF m.kind = "NCDragEndAck" THEN 1 ELSE 0)
         /\ q # <<>> =>
              /\ Count(q, {"OnNCHitTestResult"}) =
                   Count(Tail(q), {"OnNCHitTestResult"})
                     + (IF Head(q).kind = "OnNCHitTestResult" THEN 1 ELSE 0)
              /\ Count(q, AckKinds) =
                   Count(Tail(q), AckKinds) + (IF Head(q).kind \in AckKinds THEN 1 ELSE 0)
              /\ Count(q, {"NCDragEndAck"}) =
                   Count(Tail(q), {"NCDragEndAck"})
                     + (IF Head(q).kind = "NCDragEndAck" THEN 1 ELSE 0)
  <1>1. ASSUME NEW K
        PROVE  /\ Count(q, K) \in Nat
               /\ \A m \in HostMessage : Count(Append(q, m), K) =
                    Count(q, K) + (IF m.kind \in K THEN 1 ELSE 0)
               /\ q # <<>> => Count(q, K) =
                    Count(Tail(q), K) + (IF Head(q).kind \in K THEN 1 ELSE 0)
    BY CountFacts
  <1>2. ASSUME Count(q, AckKinds) = 0 PROVE Count(q, {"NCDragEndAck"}) = 0
    <2>1. \A i \in 1 .. Len(q) : q[i].kind \notin AckKinds
      BY <1>2, CountFacts
    <2>2. {i \in 1 .. Len(q) : q[i].kind \in {"NCDragEndAck"}} = {}
      BY <2>1 DEF AckKinds
    <2> QED BY <2>2, FS_EmptySet DEF Count
  <1>3. ASSUME NEW k
        PROVE  /\ Count(q, {k}) \in Nat
               /\ \A m \in HostMessage : Count(Append(q, m), {k}) =
                    Count(q, {k}) + (IF m.kind = k THEN 1 ELSE 0)
               /\ q # <<>> => Count(q, {k}) =
                    Count(Tail(q), {k}) + (IF Head(q).kind = k THEN 1 ELSE 0)
    <2>1. /\ Count(q, {k}) \in Nat
          /\ \A m \in HostMessage : Count(Append(q, m), {k}) =
               Count(q, {k}) + (IF m.kind \in {k} THEN 1 ELSE 0)
          /\ q # <<>> => Count(q, {k}) =
               Count(Tail(q), {k}) + (IF Head(q).kind \in {k} THEN 1 ELSE 0)
      BY <1>1
    <2> QED BY <2>1
  <1> QED BY <1>1, <1>2, <1>3

\* At first nothing is under way.
LEMMA DragInvInit == Init => DragInv
  <1> SUFFICES ASSUME Init PROVE DragInv
    OBVIOUS
  <1> USE DEF Init
  <1>1. \A K : Count(<<>>, K) = 0
    <2>1. ASSUME NEW K PROVE {i \in 1 .. Len(<<>>) : <<>>[i].kind \in K} = {}
      OBVIOUS
    <2> QED BY <2>1, FS_EmptySet DEF Count
  <1>2. <<>> \in Seq(ToProxyMessage)
    BY EmptySeq
  <1>3. Acknowledged(<<>>, FALSE) = 0 /\ NeedsAfter(<<>>, FALSE) = FALSE
    BY <1>2, AcknowledgedFacts DEF DragKinds
  <1>4. OneHitTestOutstanding
    BY <1>1 DEF OneHitTestOutstanding
  <1>5. AcksAreExact
    <2>1. Acknowledged(toProxy, proxyNeedsAck) = 0
      BY <1>3, Zenon
    <2> QED BY <1>1, <2>1 DEF AcksAreExact
  <1>6. CopiesWillAgree
    BY <1>3 DEF CopiesWillAgree
  <1>7. NoOldEnd
    BY DEF NoOldEnd
  <1> QED BY <1>4, <1>5, <1>6, <1>7 DEF DragInv

\* The steps of the window: a hit test, a move, a begin or an end is sent.
LEMMA WindowSteps ==
  ASSUME Typed, DragInv, MouseMessage \/ ncDragBegin \/ ncDragEnd
  PROVE  DragInv'
  <1> DEFINE q == toProxy
             b == proxyNeedsAck
             asked == IF Asks THEN Append(q, Plain("RequestNCHitTest")) ELSE q
  <1>1. /\ q \in Seq(ToProxyMessage) /\ b \in BOOLEAN /\ toHost \in Seq(HostMessage)
        /\ cursor \in Point /\ d_ncHitTestPendingAck \in BOOLEAN
        /\ d_ncDragNeedsAck \in BOOLEAN
    BY DEF Typed, TypeOK
  <1>2. asked \in Seq(ToProxyMessage) /\ q \o HitTestRequest = asked
    BY Sending
  <1>3. /\ Count(asked, {"RequestNCHitTest"}) =
             Count(q, {"RequestNCHitTest"}) + (IF Asks THEN 1 ELSE 0)
        /\ Acknowledged(asked, b) = Acknowledged(q, b)
        /\ NeedsAfter(asked, b) = NeedsAfter(q, b)
        /\ NoEnd(asked, b) <=> NoEnd(q, b)
    <2>1. /\ Plain("RequestNCHitTest") \in ToProxyMessage
          /\ Plain("RequestNCHitTest").kind = "RequestNCHitTest"
      BY <1>1, MessageTypes DEF Plain
    <2>2. Count(q, {"RequestNCHitTest"}) \in Nat /\ Acknowledged(q, b) \in Nat
      BY <1>1, ProxyChannel
    <2>3. CASE Asks
      BY <1>1, <2>1, <2>2, <2>3, ProxyChannel DEF DragKinds
    <2>4. CASE ~Asks
      BY <2>2, <2>4
    <2> QED BY <2>3, <2>4
  <1>4. /\ \A kind \in {"NCDragMove", "NCDragEnd"} :
             /\ Plain(kind) \in ToProxyMessage
             /\ Plain(kind).kind = kind
        /\ Count(q, {"RequestNCHitTest"}) \in Nat /\ Acknowledged(q, b) \in Nat
        /\ Count(toHost, AckKinds) \in Nat /\ Count(toHost, {"OnNCHitTestResult"}) \in Nat
    BY <1>1, MessageTypes, ProxyChannel, HostChannel DEF Plain
  <1> HIDE DEF asked
  <1>5. CASE HandleMouseMove
    <2>1. /\ toProxy' = asked
          /\ d_ncHitTestPendingAck' <=> d_ncHitTestPendingAck \/ Asks
          /\ UNCHANGED <<hostVars, toHost, delegateVars>>
      BY <1>2, <1>5, Sending DEF HandleMouseMove, OnNCHitTest
    <2>2. OneHitTestOutstanding'
      BY <1>3, <1>4, <2>1
      DEF OneHitTestOutstanding, DragInv, delegateVars, Asks
    <2>3. (AcksAreExact /\ CopiesWillAgree /\ NoOldEnd)'
      BY <1>3, <2>1
      DEF DragInv, AcksAreExact, CopiesWillAgree, NoOldEnd, delegateVars, hostVars
    <2> QED BY <2>2, <2>3 DEF DragInv
  <1>6. CASE ncDragMove
    <2>1. UNCHANGED <<hitTestVars, toHost, delegateVars, d_ncDragNeedsAck, d_ncDragging>>
      BY <1>6 DEF ncDragMove
    <2>2. CASE UNCHANGED <<toProxy, d_ncDragAckPending>>
      BY <2>1, <2>2
      DEF DragInv, OneHitTestOutstanding, AcksAreExact, CopiesWillAgree, NoOldEnd,
          hitTestVars, delegateVars
    <2>3. CASE /\ ~d_ncDragAckPending
               /\ d_ncDragAckPending' = d_ncDragNeedsAck
               /\ toProxy' = Append(q, Plain("NCDragMove"))
      <3>1. /\ Count(toProxy', {"RequestNCHitTest"}) = Count(q, {"RequestNCHitTest"})
            /\ Acknowledged(toProxy', b) =
                 Acknowledged(q, b) + (IF NeedsAfter(q, b) THEN 1 ELSE 0)
            /\ NeedsAfter(toProxy', b) = NeedsAfter(q, b)
            /\ NoEnd(toProxy', b) <=> NoEnd(q, b)
        BY <1>1, <1>4, <2>3, ProxyChannel DEF DragKinds
      <3>2. OneHitTestOutstanding'
        BY <2>1, <3>1 DEF DragInv, OneHitTestOutstanding, hitTestVars, delegateVars
      <3>3. AcksAreExact'
        BY <1>4, <2>1, <2>3, <3>1 DEF DragInv, AcksAreExact, CopiesWillAgree, delegateVars
      <3>4. CopiesWillAgree' /\ NoOldEnd'
        BY <2>1, <3>1 DEF DragInv, CopiesWillAgree, NoOldEnd, delegateVars
      <3> QED BY <3>2, <3>3, <3>4 DEF DragInv
    <2> QED BY <1>6, <2>2, <2>3 DEF ncDragMove
  <1>7. CASE ncDragBegin
    <2> DEFINE code == FromWindows(ToWindows(d_lastNCHitTestResult))
               begin == Message("NCDragBegin", cursor, code)
    <2>1. /\ d_ncHitTestPendingAck' <=> d_ncHitTestPendingAck \/ Asks
          /\ UNCHANGED <<d_ncDragAckPending, toHost, delegateVars>>
      BY <1>7, Sending DEF ncDragBegin, OnNCHitTest
    <2>2. CASE toProxy' = asked /\ UNCHANGED <<d_ncDragNeedsAck, d_ncDragging>>
      <3>1. OneHitTestOutstanding'
        BY <1>3, <1>4, <2>1, <2>2 DEF OneHitTestOutstanding, DragInv, delegateVars, Asks
      <3>2. (AcksAreExact /\ CopiesWillAgree /\ NoOldEnd)'
        BY <1>3, <2>1, <2>2
        DEF DragInv, AcksAreExact, CopiesWillAgree, NoOldEnd, delegateVars
      <3> QED BY <3>1, <3>2 DEF DragInv
    <2>3. CASE /\ ~d_ncDragAckPending
               /\ d_ncDragNeedsAck' = (code # "HTCAPTION")
               /\ toProxy' = asked \o <<begin>>
      <3>1. begin \in ToProxyMessage /\ begin.kind = "NCDragBegin" /\ begin.arg = code
        <4>1. code \in Code
          BY DEF Typed, TypeOK, FromWindows, ToWindows, Code
        <4> HIDE DEF code
        <4> QED BY <1>1, <4>1, MessageTypes
      <3> HIDE DEF begin, code
      <3>2. toProxy' = Append(asked, begin)
        BY <1>2, <2>3, <3>1, AppendIsConcat
      <3>3. /\ Count(toProxy', {"RequestNCHitTest"}) = Count(asked, {"RequestNCHitTest"})
            /\ Acknowledged(toProxy', b) = Acknowledged(asked, b)
            /\ NeedsAfter(toProxy', b) = (code # "HTCAPTION")
            /\ NoEnd(toProxy', b) <=> NoEnd(asked, b)
        <4>1. Count(asked, {"RequestNCHitTest"}) \in Nat /\ Acknowledged(asked, b) \in Nat
          BY <1>1, <1>2, ProxyChannel
        <4> QED BY <1>1, <1>2, <3>1, <3>2, <4>1, ProxyChannel DEF DragKinds
      <3>4. Acknowledged(q, b) = 0 /\ Count(toHost, AckKinds) = 0
        BY <1>4, <2>3 DEF DragInv, AcksAreExact
      <3>5. NoEnd(q, b) /\ Count(toHost, {"NCDragEndAck"}) = 0
        BY <1>1, <3>4, ProxyChannel, HostChannel
      <3>6. OneHitTestOutstanding'
        BY <1>3, <1>4, <2>1, <3>3 DEF OneHitTestOutstanding, DragInv, delegateVars, Asks
      <3>7. AcksAreExact'
        BY <1>3, <2>1, <3>3 DEF DragInv, AcksAreExact, delegateVars
      <3>8. CopiesWillAgree' /\ NoOldEnd'
        BY <1>3, <2>1, <2>3, <3>3, <3>5 DEF CopiesWillAgree, NoOldEnd, delegateVars
      <3> QED BY <3>6, <3>7, <3>8 DEF DragInv
    <2> QED BY <1>2, <1>7, <2>2, <2>3 DEF ncDragBegin, HostMayBegin
  <1>8. CASE ncDragEnd
    <2>1. d_ncDragging' = FALSE /\ UNCHANGED <<hitTestVars, toHost, delegateVars, d_ncDragNeedsAck>>
      BY <1>8 DEF ncDragEnd
    <2>2. CASE UNCHANGED <<toProxy, d_ncDragAckPending>>
      BY <2>1, <2>2
      DEF DragInv, OneHitTestOutstanding, AcksAreExact, CopiesWillAgree, NoOldEnd,
          hitTestVars, delegateVars
    <2>3. CASE /\ ~d_ncDragAckPending
               /\ d_ncDragAckPending' = d_ncDragNeedsAck
               /\ toProxy' = Append(q, Plain("NCDragEnd"))
      <3>1. /\ Count(toProxy', {"RequestNCHitTest"}) = Count(q, {"RequestNCHitTest"})
            /\ Acknowledged(toProxy', b) =
                 Acknowledged(q, b) + (IF NeedsAfter(q, b) THEN 1 ELSE 0)
            /\ NeedsAfter(toProxy', b) = NeedsAfter(q, b)
        BY <1>1, <1>4, <2>3, ProxyChannel DEF DragKinds
      <3>2. OneHitTestOutstanding'
        BY <2>1, <3>1 DEF DragInv, OneHitTestOutstanding, hitTestVars, delegateVars
      <3>3. AcksAreExact'
        BY <1>4, <2>1, <2>3, <3>1 DEF DragInv, AcksAreExact, CopiesWillAgree, delegateVars
      <3>4. CopiesWillAgree' /\ NoOldEnd'
        BY <2>1, <3>1 DEF DragInv, CopiesWillAgree, NoOldEnd, delegateVars
      <3> QED BY <3>2, <3>3, <3>4 DEF DragInv
    <2> QED BY <1>8, <2>2, <2>3 DEF ncDragEnd
  <1> QED BY <1>5, <1>6, <1>7, <1>8 DEF MouseMessage

\* The host takes a message: an answer is followed by another hit test if the
\* cursor has moved, an acknowledged move by a move or the end put off.
LEMMA HostSteps ==
  ASSUME Typed, DragInv, HostStep
  PROVE  DragInv'
  <1> DEFINE q == toProxy
             b == proxyNeedsAck
             h == toHost
  <1>1. /\ q \in Seq(ToProxyMessage) /\ b \in BOOLEAN /\ h \in Seq(HostMessage)
        /\ cursor \in Point /\ d_ncHitTestPendingAck \in BOOLEAN
        /\ d_ncDragNeedsAck \in BOOLEAN /\ d_ncDragEndPoint \in Point
    BY DEF Typed, TypeOK
  <1>2. /\ Count(q, {"RequestNCHitTest"}) \in Nat /\ Acknowledged(q, b) \in Nat
        /\ Count(h, AckKinds) \in Nat /\ Count(h, {"OnNCHitTestResult"}) \in Nat
        /\ Count(h, {"NCDragEndAck"}) \in Nat
    BY <1>1, ProxyChannel, HostChannel
  <1>3. h # <<>> /\ toHost' = Tail(h)
    BY DEF HostStep, onEnableNCHitTest, onOnNCHitTestResult, onNCDragMoveAck,
           onNCDragEndAck, Receive
  <1>4. /\ Count(toHost', AckKinds) \in Nat /\ Count(toHost', {"OnNCHitTestResult"}) \in Nat
        /\ Count(toHost', {"NCDragEndAck"}) \in Nat
    <2>1. Tail(h) \in Seq(HostMessage)
      BY <1>1, <1>3, HeadTailProperties
    <2> QED BY <1>3, <2>1, HostChannel
  <1>5. /\ Count(h, {"OnNCHitTestResult"}) =
             Count(toHost', {"OnNCHitTestResult"})
               + (IF Head(h).kind = "OnNCHitTestResult" THEN 1 ELSE 0)
        /\ Count(h, AckKinds) =
             Count(toHost', AckKinds) + (IF Head(h).kind \in AckKinds THEN 1 ELSE 0)
        /\ Count(h, {"NCDragEndAck"}) =
             Count(toHost', {"NCDragEndAck"})
               + (IF Head(h).kind = "NCDragEndAck" THEN 1 ELSE 0)
    BY <1>1, <1>3, HostChannel
  <1>6. CASE onEnableNCHitTest
    <2>1. /\ Head(h).kind = "EnableNCHitTest"
          /\ UNCHANGED <<d_ncHitTestPendingAck, hostVars, toProxy, delegateVars>>
      BY <1>6 DEF onEnableNCHitTest, Receive
    <2>2. /\ Count(toHost', {"OnNCHitTestResult"}) = Count(h, {"OnNCHitTestResult"})
          /\ Count(toHost', AckKinds) = Count(h, AckKinds)
          /\ Count(toHost', {"NCDragEndAck"}) = Count(h, {"NCDragEndAck"})
      BY <1>4, <1>5, <2>1 DEF AckKinds
    <2> QED BY <2>1, <2>2
            DEF DragInv, OneHitTestOutstanding, AcksAreExact, CopiesWillAgree, NoOldEnd,
                delegateVars, hostVars
  <1>7. CASE onOnNCHitTestResult
    <2>1. /\ Head(h).kind = "OnNCHitTestResult"
          /\ UNCHANGED <<hostVars, delegateVars>>
      BY <1>7 DEF onOnNCHitTestResult, Receive
    <2>2. /\ Count(toHost', {"OnNCHitTestResult"}) = Count(h, {"OnNCHitTestResult"}) - 1
          /\ Count(toHost', AckKinds) = Count(h, AckKinds)
          /\ Count(toHost', {"NCDragEndAck"}) = Count(h, {"NCDragEndAck"})
      BY <1>4, <1>5, <2>1 DEF AckKinds
    <2>3. d_ncHitTestPendingAck
      BY <1>2, <1>4, <2>2 DEF DragInv, OneHitTestOutstanding
    <2>4. CASE toProxy' = Append(q, Plain("RequestNCHitTest")) /\ d_ncHitTestPendingAck'
      <3>1. /\ Plain("RequestNCHitTest") \in ToProxyMessage
            /\ Plain("RequestNCHitTest").kind = "RequestNCHitTest"
        BY <1>1, MessageTypes DEF Plain
      <3>2. /\ Count(toProxy', {"RequestNCHitTest"}) = Count(q, {"RequestNCHitTest"}) + 1
            /\ Acknowledged(toProxy', b) = Acknowledged(q, b)
            /\ NeedsAfter(toProxy', b) = NeedsAfter(q, b)
            /\ NoEnd(toProxy', b) <=> NoEnd(q, b)
        BY <1>1, <1>2, <2>4, <3>1, ProxyChannel DEF DragKinds
      <3>3. OneHitTestOutstanding'
        BY <1>2, <2>1, <2>2, <2>3, <2>4, <3>2
        DEF DragInv, OneHitTestOutstanding, delegateVars
      <3>4. (AcksAreExact /\ CopiesWillAgree /\ NoOldEnd)'
        BY <2>1, <2>2, <3>2
        DEF DragInv, AcksAreExact, CopiesWillAgree, NoOldEnd, delegateVars, hostVars
      <3> QED BY <3>3, <3>4 DEF DragInv
    <2>5. CASE toProxy' = toProxy /\ ~d_ncHitTestPendingAck'
      <3>1. OneHitTestOutstanding'
        BY <1>2, <2>1, <2>2, <2>3, <2>5 DEF DragInv, OneHitTestOutstanding, delegateVars
      <3>2. (AcksAreExact /\ CopiesWillAgree /\ NoOldEnd)'
        BY <2>1, <2>2, <2>5
        DEF DragInv, AcksAreExact, CopiesWillAgree, NoOldEnd, delegateVars, hostVars
      <3> QED BY <3>1, <3>2 DEF DragInv
    <2> QED BY <1>7, <2>4, <2>5 DEF onOnNCHitTestResult
  <1>8. CASE onNCDragMoveAck
    <2>1. /\ Head(h).kind = "NCDragMoveAck"
          /\ UNCHANGED <<hitTestVars, d_ncDragNeedsAck, d_ncDragging, delegateVars>>
      BY <1>8 DEF onNCDragMoveAck, Receive
    <2>2. /\ Count(toHost', {"OnNCHitTestResult"}) = Count(h, {"OnNCHitTestResult"})
          /\ Count(toHost', AckKinds) = Count(h, AckKinds) - 1
          /\ Count(toHost', {"NCDragEndAck"}) = Count(h, {"NCDragEndAck"})
      BY <1>2, <1>4, <1>5, <2>1 DEF AckKinds
    <2>3. Count(toHost', AckKinds) = 0 /\ Acknowledged(q, b) = 0
      BY <1>2, <1>4, <2>2 DEF DragInv, AcksAreExact
    <2>4. CASE toProxy' = toProxy /\ ~d_ncDragAckPending'
      BY <2>1, <2>2, <2>3, <2>4
      DEF DragInv, OneHitTestOutstanding, AcksAreExact, CopiesWillAgree, NoOldEnd,
          delegateVars, hitTestVars
    <2>5. ASSUME NEW m \in ToProxyMessage, m.kind \in DragKinds,
                 m.kind = "NCDragEnd" => ~d_ncDragging,
                 toProxy' = Append(q, m), d_ncDragAckPending' = d_ncDragNeedsAck
          PROVE  DragInv'
      <3>1. /\ Count(toProxy', {"RequestNCHitTest"}) = Count(q, {"RequestNCHitTest"})
            /\ Acknowledged(toProxy', b) = IF NeedsAfter(q, b) THEN 1 ELSE 0
            /\ NeedsAfter(toProxy', b) = NeedsAfter(q, b)
            /\ d_ncDragging => (NoEnd(toProxy', b) <=> NoEnd(q, b))
        BY <1>1, <1>2, <2>3, <2>5, ProxyChannel DEF DragKinds
      <3>2. OneHitTestOutstanding'
        BY <2>1, <2>2, <3>1 DEF DragInv, OneHitTestOutstanding, hitTestVars, delegateVars
      <3>3. AcksAreExact'
        BY <2>1, <2>3, <2>5, <3>1 DEF DragInv, AcksAreExact, CopiesWillAgree, delegateVars
      <3>4. CopiesWillAgree' /\ NoOldEnd'
        BY <2>1, <2>2, <3>1 DEF DragInv, CopiesWillAgree, NoOldEnd, delegateVars
      <3> QED BY <3>2, <3>3, <3>4 DEF DragInv
    <2>6. \A kind \in DragKinds, p \in Point :
            /\ Message(kind, p, "none") \in ToProxyMessage
            /\ Message(kind, p, "none").kind = kind
      BY MessageTypes DEF DragKinds
    <2>7. CASE /\ toProxy' = Append(q, Plain("NCDragMove"))
               /\ d_ncDragAckPending' = d_ncDragNeedsAck
      BY <1>1, <2>5, <2>6, <2>7 DEF Plain, DragKinds
    <2>8. CASE /\ ~d_ncDragging
               /\ toProxy' = Append(q, Message("NCDragEnd", d_ncDragEndPoint, "none"))
               /\ d_ncDragAckPending' = d_ncDragNeedsAck
      BY <1>1, <2>5, <2>6, <2>8 DEF DragKinds
    <2> QED BY <1>8, <2>4, <2>7, <2>8 DEF onNCDragMoveAck
  <1>9. CASE onNCDragEndAck
    <2>1. /\ Head(h).kind = "NCDragEndAck" /\ ~d_ncDragAckPending'
          /\ UNCHANGED <<hitTestVars, d_ncDragNeedsAck, d_ncDragging, toProxy, delegateVars>>
      BY <1>9 DEF onNCDragEndAck, Receive
    <2>2. /\ Count(toHost', {"OnNCHitTestResult"}) = Count(h, {"OnNCHitTestResult"})
          /\ Count(toHost', AckKinds) = Count(h, AckKinds) - 1
          /\ Count(h, {"NCDragEndAck"}) > 0
      BY <1>2, <1>4, <1>5, <2>1 DEF AckKinds
    <2>3. Count(toHost', AckKinds) = 0 /\ Acknowledged(q, b) = 0
      BY <1>2, <1>4, <2>2 DEF DragInv, AcksAreExact
    <2>4. ~d_ncDragging
      BY <1>2, <2>2 DEF DragInv, NoOldEnd
    <2> QED BY <2>1, <2>2, <2>3, <2>4
            DEF DragInv, OneHitTestOutstanding, AcksAreExact, CopiesWillAgree, NoOldEnd,
                delegateVars, hitTestVars
  <1> QED BY <1>6, <1>7, <1>8, <1>9 DEF HostStep

\* The proxy takes a message: a hit test is handed to the delegate, a drag sets
\* the proxy's copy of the flag, a move or an end is acknowledged by it.
LEMMA ProxySteps ==
  ASSUME Typed, DragInv, ProxyStep
  PROVE  DragInv'
  <1> DEFINE q == toProxy
             b == proxyNeedsAck
             h == toHost
             next == NeedsNext(q, b)
  <1>1. /\ q \in Seq(ToProxyMessage) /\ b \in BOOLEAN /\ h \in Seq(HostMessage)
        /\ cursor \in Point /\ hitTestAsked \in BOOLEAN
    BY DEF Typed, TypeOK
  <1>2. /\ Count(q, {"RequestNCHitTest"}) \in Nat /\ Acknowledged(q, b) \in Nat
        /\ Count(h, AckKinds) \in Nat /\ Count(h, {"OnNCHitTestResult"}) \in Nat
        /\ Count(h, {"NCDragEndAck"}) \in Nat
    BY <1>1, ProxyChannel, HostChannel
  <1>3. q # <<>> /\ toProxy' = Tail(q)
    BY DEF ProxyStep, onRequestNCHitTest, onNCDragBegin, onNCDragMove, onNCDragEnd, Receive
  <1>4. next \in BOOLEAN
    BY <1>1 DEF NeedsNext
  <1>5. Count(toProxy', {"RequestNCHitTest"}) \in Nat /\ Acknowledged(toProxy', next) \in Nat
    <2>1. Tail(q) \in Seq(ToProxyMessage)
      BY <1>1, <1>3, HeadTailProperties
    <2> HIDE DEF next
    <2> QED BY <1>3, <1>4, <2>1, ProxyChannel
  <1>6. /\ Count(q, {"RequestNCHitTest"}) =
             Count(toProxy', {"RequestNCHitTest"})
               + (IF Head(q).kind = "RequestNCHitTest" THEN 1 ELSE 0)
        /\ Acknowledged(q, b) =
             Acknowledged(toProxy', next)
               + (IF Head(q).kind \in DragKinds /\ b THEN 1 ELSE 0)
        /\ NeedsAfter(toProxy', next) = NeedsAfter(q, b)
        /\ NoEnd(q, b) <=> NoEnd(toProxy', next) /\ ~(Head(q).kind = "NCDragEnd" /\ b)
    BY <1>1, <1>3, ProxyChannel
  <1> HIDE DEF next
  <1>7. UNCHANGED <<hitTestVars, hostVars>>
    BY DEF ProxyStep, onRequestNCHitTest, onNCDragBegin, onNCDragMove, onNCDragEnd,
           proxyUnchanged
  <1>8. CASE onRequestNCHitTest
    <2>1. /\ Head(q).kind = "RequestNCHitTest" /\ hitTestAsked'
          /\ UNCHANGED <<toHost, proxyNeedsAck>>
      BY <1>8 DEF onRequestNCHitTest, Receive
    <2>2. next = proxyNeedsAck'
      BY <2>1 DEF next, NeedsNext
    <2>3. ~hitTestAsked
      BY <1>2, <1>5, <1>6, <2>1 DEF DragInv, OneHitTestOutstanding
    <2>4. OneHitTestOutstanding'
      BY <1>2, <1>5, <1>6, <1>7, <2>1, <2>3 DEF DragInv, OneHitTestOutstanding, hitTestVars
    <2>5. AcksAreExact'
      BY <1>5, <1>6, <1>7, <2>1, <2>2 DEF DragInv, AcksAreExact, hostVars, DragKinds
    <2>6. CopiesWillAgree' /\ NoOldEnd'
      BY <1>6, <1>7, <2>1, <2>2 DEF DragInv, CopiesWillAgree, NoOldEnd, hostVars
    <2> QED BY <2>4, <2>5, <2>6 DEF DragInv
  <1>9. CASE onNCDragBegin
    <2>1. /\ Head(q).kind = "NCDragBegin"
          /\ proxyNeedsAck' = (Head(q).arg # "HTCAPTION")
          /\ UNCHANGED <<toHost, hitTestAsked>>
      BY <1>9 DEF onNCDragBegin, Receive
    <2>2. next = proxyNeedsAck'
      BY <2>1 DEF next, NeedsNext
    <2>3. OneHitTestOutstanding'
      BY <1>5, <1>6, <1>7, <2>1 DEF DragInv, OneHitTestOutstanding, hitTestVars
    <2>4. AcksAreExact'
      BY <1>5, <1>6, <1>7, <2>1, <2>2 DEF DragInv, AcksAreExact, hostVars, DragKinds
    <2>5. CopiesWillAgree' /\ NoOldEnd'
      BY <1>6, <1>7, <2>1, <2>2 DEF DragInv, CopiesWillAgree, NoOldEnd, hostVars
    <2> QED BY <2>3, <2>4, <2>5 DEF DragInv
  <1>10. ASSUME NEW ack \in AckKinds,
                Head(q).kind = IF ack = "NCDragEndAck" THEN "NCDragEnd" ELSE "NCDragMove",
                toHost' = h \o Ack(ack, cursor),
                UNCHANGED <<proxyNeedsAck, hitTestAsked>>
         PROVE  DragInv'
    <2> DEFINE m == Message(ack, cursor, "none")
    <2>1. m \in HostMessage /\ m.kind = ack
      BY <1>1, <1>10, MessageTypes DEF AckKinds
    <2>2. toHost' = IF b THEN Append(h, m) ELSE h
      BY <1>10, Sending DEF AckKinds
    <2> HIDE DEF m
    <2>3. next = b
      BY <1>10 DEF next, NeedsNext
    <2>4. /\ Count(toHost', {"OnNCHitTestResult"}) = Count(h, {"OnNCHitTestResult"})
          /\ Count(toHost', AckKinds) = Count(h, AckKinds) + (IF b THEN 1 ELSE 0)
          /\ Count(toHost', {"NCDragEndAck"}) =
               Count(h, {"NCDragEndAck"}) + (IF b /\ ack = "NCDragEndAck" THEN 1 ELSE 0)
      <3>1. CASE b
        BY <1>1, <1>2, <1>10, <2>1, <2>2, <3>1, HostChannel DEF AckKinds
      <3>2. CASE ~b
        BY <1>2, <2>2, <3>2
      <3> QED BY <3>1, <3>2
    <2>5. OneHitTestOutstanding'
      BY <1>5, <1>6, <1>7, <1>10, <2>4 DEF DragInv, OneHitTestOutstanding, hitTestVars
    <2>6. Acknowledged(q, b) = Acknowledged(toProxy', b) + (IF b THEN 1 ELSE 0)
      BY <1>5, <1>6, <1>10, <2>3 DEF DragKinds
    <2>7. AcksAreExact'
      BY <1>2, <1>5, <1>7, <1>10, <2>3, <2>4, <2>6 DEF DragInv, AcksAreExact, hostVars
    <2>8. CopiesWillAgree'
      BY <1>6, <1>7, <1>10, <2>3 DEF DragInv, CopiesWillAgree, hostVars
    <2>9. NoOldEnd'
      BY <1>2, <1>6, <1>7, <1>10, <2>3, <2>4 DEF DragInv, NoOldEnd, hostVars
    <2> QED BY <2>5, <2>7, <2>8, <2>9 DEF DragInv
  <1>11. CASE onNCDragMove
    <2>1. /\ Head(q).kind = "NCDragMove" /\ toHost' = h \o Ack("NCDragMoveAck", cursor)
          /\ UNCHANGED <<proxyNeedsAck, hitTestAsked>>
      BY <1>11 DEF onNCDragMove, Receive
    <2> QED BY <1>10, <2>1 DEF AckKinds
  <1>12. CASE onNCDragEnd
    <2>1. /\ Head(q).kind = "NCDragEnd" /\ toHost' = h \o Ack("NCDragEndAck", cursor)
          /\ UNCHANGED <<proxyNeedsAck, hitTestAsked>>
      BY <1>12 DEF onNCDragEnd, Receive
    <2> QED BY <1>10, <2>1 DEF AckKinds
  <1> QED BY <1>8, <1>9, <1>11, <1>12 DEF ProxyStep

\* The application's own steps: an answer, and enableNCHitTest.
LEMMA ApplicationSteps ==
  ASSUME Typed, DragInv, Answer \/ \E enabled \in BOOLEAN : enableNCHitTest(enabled)
  PROVE  DragInv'
  <1> DEFINE h == toHost
  <1>1. h \in Seq(HostMessage) /\ cursor \in Point /\ hitTestAsked \in BOOLEAN
    BY DEF Typed, TypeOK
  <1>2. /\ Count(toProxy, {"RequestNCHitTest"}) \in Nat
        /\ Count(h, AckKinds) \in Nat /\ Count(h, {"OnNCHitTestResult"}) \in Nat
        /\ Count(h, {"NCDragEndAck"}) \in Nat
    BY <1>1, ProxyChannel, HostChannel DEF Typed, TypeOK
  <1>3. ASSUME NEW code \in Code, onNCHitTestResult(code) PROVE DragInv'
    <2> DEFINE m == Message("OnNCHitTestResult", cursor, code)
    <2>1. m \in HostMessage /\ m.kind = "OnNCHitTestResult"
      BY <1>1, MessageTypes
    <2> HIDE DEF m
    <2>2. /\ toHost' = Append(h, m) /\ hitTestAsked /\ ~hitTestAsked'
          /\ UNCHANGED <<hitTestVars, hostVars, toProxy, proxyNeedsAck>>
      BY <1>3 DEF onNCHitTestResult, proxyUnchanged, m
    <2>3. /\ Count(toHost', {"OnNCHitTestResult"}) = Count(h, {"OnNCHitTestResult"}) + 1
          /\ Count(toHost', AckKinds) = Count(h, AckKinds)
          /\ Count(toHost', {"NCDragEndAck"}) = Count(h, {"NCDragEndAck"})
      BY <1>1, <1>2, <2>1, <2>2, HostChannel DEF AckKinds
    <2>4. OneHitTestOutstanding'
      BY <1>2, <2>2, <2>3 DEF DragInv, OneHitTestOutstanding, hitTestVars
    <2>5. (AcksAreExact /\ CopiesWillAgree /\ NoOldEnd)'
      BY <2>2, <2>3 DEF DragInv, AcksAreExact, CopiesWillAgree, NoOldEnd, hostVars
    <2> QED BY <2>4, <2>5 DEF DragInv
  <1>4. ASSUME NEW enabled \in BOOLEAN, enableNCHitTest(enabled) PROVE DragInv'
    <2> DEFINE m == Message("EnableNCHitTest", cursor, enabled)
    <2>1. m \in HostMessage /\ m.kind = "EnableNCHitTest"
      BY <1>1, MessageTypes
    <2> HIDE DEF m
    <2>2. /\ toHost' = Append(h, m)
          /\ UNCHANGED <<hitTestVars, hostVars, toProxy, delegateVars>>
      BY <1>4 DEF enableNCHitTest, proxyUnchanged, m
    <2>3. /\ Count(toHost', {"OnNCHitTestResult"}) = Count(h, {"OnNCHitTestResult"})
          /\ Count(toHost', AckKinds) = Count(h, AckKinds)
          /\ Count(toHost', {"NCDragEndAck"}) = Count(h, {"NCDragEndAck"})
      BY <1>1, <1>2, <2>1, <2>2, HostChannel DEF AckKinds
    <2> QED BY <2>2, <2>3
            DEF DragInv, OneHitTestOutstanding, AcksAreExact, CopiesWillAgree, NoOldEnd,
                hitTestVars, hostVars, delegateVars
  <1> QED BY <1>3, <1>4 DEF Answer

\* DragInv is preserved: a move of the cursor changes none of it, the other
\* steps by the lemmas above.
LEMMA DragInvNext == Typed /\ DragInv /\ [Next]_vars => DragInv'
  <1> SUFFICES ASSUME Typed, DragInv, [Next]_vars PROVE DragInv'
    OBVIOUS
  <1>1. ASSUME NEW p \in Point, CursorMoves(p) PROVE DragInv'
    BY <1>1
    DEF CursorMoves, DragInv, OneHitTestOutstanding, AcksAreExact, CopiesWillAgree,
        NoOldEnd, hitTestVars, hostVars, delegateVars
  <1>2. CASE UNCHANGED vars
    BY <1>2
    DEF vars, DragInv, OneHitTestOutstanding, AcksAreExact, CopiesWillAgree,
        NoOldEnd, hitTestVars, hostVars, delegateVars
  <1> QED BY <1>1, <1>2, WindowSteps, HostSteps, ProxySteps, ApplicationSteps DEF Next

\* DragInv and the types hold in every reachable state.
LEMMA DragInvIsInvariant == Spec => [](Typed /\ DragInv)
  BY TypedInit, TypedNext, DragInvInit, DragInvNext, PTL DEF Spec

\* "Note that there will only be one outstanding hit test per WebView": at any
\* time at most one request, question to the delegate or answer is under way,
\* and exactly one while the host waits for an answer.
THEOREM OneHitTestAtMost == Spec => []OneHitTestOutstanding
  <1>1. DragInv => OneHitTestOutstanding
    BY DEF DragInv
  <1> QED BY <1>1, DragInvIsInvariant, PTL

\* The DCHECKs of onNCDragMoveAck and onNCDragEndAck hold, for any number of
\* drags: one acknowledgement is outstanding when d_ncDragAckPending is set and
\* none otherwise, and that of an end never meets a new drag.
THEOREM AckPendingIsAlwaysExact == Spec => []AckPendingIsExact
  <1>1. Typed /\ DragInv => AckPendingIsExact
    <2> SUFFICES ASSUME Typed, DragInv PROVE AckPendingIsExact
      OBVIOUS
    <2>1. ASSUME NEW i \in 1 .. Len(toProxy)
          PROVE  WillAcknowledge(i) <=>
                   toProxy[i].kind \in DragKinds /\ NeedsAt(toProxy, proxyNeedsAck, i)
      BY DEF WillAcknowledge, NeedsAt, Begins, DragKinds
    <2>2. {i \in 1 .. Len(toProxy) : WillAcknowledge(i)} =
            {i \in 1 .. Len(toProxy) : toProxy[i].kind \in DragKinds
                                         /\ NeedsAt(toProxy, proxyNeedsAck, i)}
      BY <2>1
    <2>3. Outstanding = Acknowledged(toProxy, proxyNeedsAck) + Count(toHost, AckKinds)
      BY <2>2 DEF Outstanding, Acknowledged, AckKinds
    <2>4. Count(toHost, {"NCDragEndAck"}) > 0 => ~d_ncDragging
      BY DEF DragInv, NoOldEnd
    <2> QED BY <2>3, <2>4 DEF AckPendingIsExact, DragInv, AcksAreExact
  <1> QED BY <1>1, DragInvIsInvariant, PTL

-----------------------------------------------------------------------------
(* What the delegate will see of the drags.                                *)

\* b is where the delegate is in a drag once it got message m, which it may get
\* at a.
Stages == {"idle", "dragging"}

Effect(a, m, b) ==
  \/ m.kind = "RequestNCHitTest" /\ b = a
  \/ m.kind = "NCDragBegin" /\ a = "idle" /\ b = "dragging"
  \/ m.kind = "NCDragMove" /\ a = "dragging" /\ b = "dragging"
  \/ m.kind = "NCDragEnd" /\ a = "dragging" /\ b = "idle"

\* s is what the messages q make of a, one after the other, up to b.
Steps(s, a, q, b) ==
  /\ Len(s) = Len(q) + 1
  /\ s[1] = a /\ s[Len(s)] = b
  /\ \A i \in 1 .. Len(q) : Effect(s[i], q[i], s[i + 1])

\* The messages q, none of them stray, lead the delegate from a to b.
Leads(a, q, b) == \E s \in Seq(Stages) : Steps(s, a, q, b)

\* No message, no change.
LEMMA NothingLeads ==
  ASSUME NEW a \in Stages
  PROVE  Leads(a, <<>>, a)
  <1>1. <<a>> \in Seq(Stages) /\ Len(<<a>>) = 1 /\ <<a>>[1] = a
    OBVIOUS
  <1>2. Len(<<>>) = 0
    OBVIOUS
  <1>3. Steps(<<a>>, a, <<>>, a)
    BY <1>1, <1>2 DEF Steps
  <1> QED
    BY <1>1, <1>3 DEF Leads

\* A message that is sent extends the way by its effect.
LEMMA SendingLeads ==
  ASSUME NEW a, NEW b, NEW c \in Stages, NEW q \in Seq(ToProxyMessage),
         NEW m \in ToProxyMessage, Leads(a, q, b), Effect(b, m, c)
  PROVE  Leads(a, Append(q, m), c)
  <1>1. PICK s \in Seq(Stages) : Steps(s, a, q, b)
    BY DEF Leads
  <1> DEFINE t == Append(s, c)
             r == Append(q, m)
  <1>2. /\ t \in Seq(Stages) /\ Len(t) = Len(s) + 1 /\ t[Len(t)] = c
        /\ \A i \in 1 .. Len(s) : t[i] = s[i]
    OBVIOUS
  <1>3. /\ r \in Seq(ToProxyMessage) /\ Len(r) = Len(q) + 1 /\ r[Len(r)] = m
        /\ \A i \in 1 .. Len(q) : r[i] = q[i]
    OBVIOUS
  <1>4. Len(s) = Len(q) + 1 /\ s[1] = a /\ s[Len(s)] = b /\ Len(q) \in Nat
    BY <1>1 DEF Steps
  <1>5. \A i \in 1 .. Len(q) : Effect(s[i], q[i], s[i + 1])
    BY <1>1 DEF Steps
  <1> HIDE DEF t, r
  <1>6. ASSUME NEW i \in 1 .. Len(r) PROVE Effect(t[i], r[i], t[i + 1])
    <2>1. CASE i = Len(r)
      BY <2>1, <1>2, <1>3, <1>4
    <2>2. CASE i \in 1 .. Len(q)
      <3>1. t[i] = s[i] /\ t[i + 1] = s[i + 1] /\ r[i] = q[i]
        BY <2>2, <1>2, <1>3, <1>4
      <3> QED
        BY <3>1, <1>5, <2>2
    <2> QED
      BY <2>1, <2>2, <1>3, <1>4
  <1>7. Len(t) = Len(r) + 1 /\ t[1] = a
    BY <1>2, <1>3, <1>4
  <1>8. Steps(t, a, r, c)
    BY <1>2, <1>6, <1>7 DEF Steps
  <1> QED
    BY <1>8, <1>2 DEF Leads, r

\* The first message is not stray, and the others lead on from there.
LEMMA TakingLeads ==
  ASSUME NEW a, NEW b, NEW q \in Seq(ToProxyMessage), q # <<>>, Leads(a, q, b)
  PROVE  \E c \in Stages : Effect(a, Head(q), c) /\ Leads(c, Tail(q), b)
  <1>1. PICK s \in Seq(Stages) : Steps(s, a, q, b)
    BY DEF Leads
  <1>2. /\ Len(s) = Len(q) + 1 /\ s[1] = a /\ s[Len(s)] = b
        /\ Len(q) \in Nat /\ Len(q) > 0 /\ Head(q) = q[1]
    BY <1>1 DEF Steps
  <1>3. \A i \in 1 .. Len(q) : Effect(s[i], q[i], s[i + 1])
    BY <1>1 DEF Steps
  <1> DEFINE t == Tail(s)
             r == Tail(q)
  <1>4. /\ t \in Seq(Stages) /\ Len(t) = Len(s) - 1
        /\ \A i \in 1 .. Len(t) : t[i] = s[i + 1]
    BY <1>2
  <1>5. /\ Len(r) = Len(q) - 1
        /\ \A i \in 1 .. Len(r) : r[i] = q[i + 1]
    BY <1>2
  <1> HIDE DEF t, r
  <1>6. s[2] \in Stages /\ Effect(a, Head(q), s[2])
    BY <1>2, <1>3
  <1>7. ASSUME NEW i \in 1 .. Len(r) PROVE Effect(t[i], r[i], t[i + 1])
    <2>1. t[i] = s[i + 1] /\ t[i + 1] = s[i + 2] /\ r[i] = q[i + 1]
      BY <1>2, <1>4, <1>5
    <2>2. i + 1 \in 1 .. Len(q) /\ i + 2 = (i + 1) + 1
      BY <1>2, <1>5
    <2> QED
      BY <2>1, <2>2, <1>3
  <1>8. Len(t) = Len(r) + 1 /\ t[1] = s[2] /\ t[Len(t)] = b
    BY <1>2, <1>4, <1>5
  <1>9. Steps(t, s[2], r, b)
    BY <1>7, <1>8 DEF Steps
  <1> QED
    BY <1>4, <1>6, <1>9 DEF Leads, r

\* In a drag the end is not the last message.
LEMMA NoEndInDrag ==
  ASSUME NEW a, NEW q \in Seq(ToProxyMessage), q # <<>>, Leads(a, q, "dragging")
  PROVE  q[Len(q)].kind # "NCDragEnd"
  <1>1. PICK s \in Seq(Stages) : Steps(s, a, q, "dragging")
    BY DEF Leads
  <1>2. Len(q) \in 1 .. Len(q) /\ Len(s) = Len(q) + 1
    BY <1>1 DEF Steps
  <1>3. Effect(s[Len(q)], q[Len(q)], "dragging")
    BY <1>1, <1>2 DEF Steps
  <1> QED BY <1>3 DEF Effect

\* If the last message is the end of a drag that is over, it tells where the
\* button was released.
EndsAt(q, dragging, at) ==
  \A i \in 1 .. Len(q) :
    q[i].kind = "NCDragEnd" /\ ~dragging /\ i = Len(q) => q[i].point = at

\* Only the last message matters.
LEMMA LastEnd ==
  ASSUME NEW q \in Seq(ToProxyMessage), NEW dragging, NEW at
  PROVE  /\ \A m \in ToProxyMessage :
              (m.kind = "NCDragEnd" /\ ~dragging => m.point = at) =>
                EndsAt(Append(q, m), dragging, at)
         /\ q # <<>> /\ EndsAt(q, dragging, at) => EndsAt(Tail(q), dragging, at)
         /\ \A a : Leads(a, q, "dragging") => EndsAt(q, dragging, at)
  <1>1. ASSUME NEW m \in ToProxyMessage,
               m.kind = "NCDragEnd" /\ ~dragging => m.point = at
        PROVE  EndsAt(Append(q, m), dragging, at)
    <2>1. Len(Append(q, m)) = Len(q) + 1 /\ Append(q, m)[Len(q) + 1] = m
      BY AppendProperties
    <2> QED BY <1>1, <2>1 DEF EndsAt
  <1>2. ASSUME q # <<>>, EndsAt(q, dragging, at)
        PROVE  EndsAt(Tail(q), dragging, at)
    <2>1. /\ Len(Tail(q)) = Len(q) - 1 /\ Len(q) \in Nat
          /\ \A i \in 1 .. Len(Tail(q)) : Tail(q)[i] = q[i + 1] /\ i + 1 \in 1 .. Len(q)
      BY <1>2, HeadTailProperties, LenProperties
    <2>2. ASSUME NEW i \in 1 .. Len(Tail(q)), Tail(q)[i].kind = "NCDragEnd",
                 ~dragging, i = Len(Tail(q))
          PROVE  Tail(q)[i].point = at
      <3>1. Tail(q)[i] = q[i + 1] /\ i + 1 \in 1 .. Len(q) /\ i + 1 = Len(q)
        BY <2>1, <2>2
      <3> QED BY <1>2, <2>2, <3>1 DEF EndsAt
    <2> QED BY <2>2 DEF EndsAt
  <1>3. ASSUME NEW a, Leads(a, q, "dragging") PROVE EndsAt(q, dragging, at)
    <2>1. CASE q = <<>>
      BY <2>1 DEF EndsAt
    <2>2. CASE q # <<>>
      BY <1>3, <2>2, NoEndInDrag DEF EndsAt
    <2> QED BY <2>1, <2>2
  <1> QED BY <1>1, <1>2, <1>3

\* What has been sent leads the delegate to stage, and the host knows where that
\* is: in a drag, or in one whose end is put off until a move is acknowledged.
\* The acknowledgement it waits for is one of a move in a drag and of an end
\* outside.
Stage(stage) ==
  /\ Leads(delegate.state, toProxy, stage)
  /\ d_ncDragging => stage = "dragging"
  /\ stage = "dragging" =>
       /\ d_ncDragging \/ (d_ncDragAckPending /\ d_ncDragEndPoint = releasedAt)
       /\ NoEnd(toProxy, proxyNeedsAck)
       /\ Count(toHost, {"NCDragEndAck"}) = 0
  /\ stage = "idle" =>
       /\ NoMove(toProxy, proxyNeedsAck)
       /\ Count(toHost, {"NCDragMoveAck"}) = 0
  /\ EndsAt(toProxy, is_delegate_nc_dragging_, releasedAt)
  /\ is_delegate_nc_dragging_ <=> d_ncDragging

\* As long as no drag was ignored the delegate is led to one of the stages.
DragsInv == ~ignored => \E stage \in Stages : Stage(stage)

\* The acknowledgements on the channel to the host, by kind.
LEMMA AckChannel ==
  ASSUME NEW q \in Seq(HostMessage), NEW k
  PROVE  /\ Count(q, {k}) \in Nat
         /\ \A m \in HostMessage :
              Count(Append(q, m), {k}) = Count(q, {k}) + (IF m.kind = k THEN 1 ELSE 0)
         /\ q # <<>> =>
              /\ Count(q, {k}) = Count(Tail(q), {k}) + (IF Head(q).kind = k THEN 1 ELSE 0)
              /\ Count(Tail(q), {k}) \in Nat
  <1>1. /\ Count(q, {k}) \in Nat
        /\ \A m \in HostMessage :
             Count(Append(q, m), {k}) = Count(q, {k}) + (IF m.kind \in {k} THEN 1 ELSE 0)
        /\ q # <<>> =>
             Count(q, {k}) = Count(Tail(q), {k}) + (IF Head(q).kind \in {k} THEN 1 ELSE 0)
    BY CountFacts
  <1>2. q # <<>> => Tail(q) \in Seq(HostMessage)
    BY HeadTailProperties
  <1>3. q # <<>> => Count(Tail(q), {k}) \in Nat
    BY <1>2, CountFacts
  <1> QED BY <1>1, <1>3

\* Nothing has begun.
LEMMA DragsInvInit == Init => DragsInv
  <1> SUFFICES ASSUME Init PROVE Stage("idle")
    BY DEF DragsInv, Stages
  <1>1. Leads(delegate.state, toProxy, "idle")
    BY NothingLeads DEF Init, Stages
  <1>2. NoMove(toProxy, proxyNeedsAck) /\ EndsAt(toProxy, is_delegate_nc_dragging_, releasedAt)
    BY DEF Init, NoMove, NoneOf, EndsAt
  <1>3. Count(toHost, {"NCDragMoveAck"}) = 0
    <2>1. {i \in 1 .. Len(<<>>) : <<>>[i].kind \in {"NCDragMoveAck"}} = {}
      OBVIOUS
    <2> QED BY <2>1, FS_EmptySet DEF Init, Count
  <1> QED BY <1>1, <1>2, <1>3 DEF Init, Stage

\* Steps that have nothing to do with drags: at most a hit test is asked for.
Aside ==
  /\ UNCHANGED <<delegate, proxyNeedsAck, d_ncDragging, d_ncDragAckPending,
                 d_ncDragEndPoint, releasedAt, is_delegate_nc_dragging_, ignored>>
  /\ \/ UNCHANGED toProxy
     \/ toProxy' = Append(toProxy, Plain("RequestNCHitTest"))
  /\ \A k \in AckKinds : Count(toHost', {k}) = Count(toHost, {k})

\* They keep the drags well formed.
LEMMA AsideKeeps ==
  ASSUME Typed, DragsInv, Aside
  PROVE  DragsInv'
  <1> SUFFICES ASSUME ~ignored, NEW stage \in Stages, Stage(stage)
               PROVE  Stage(stage)'
    BY DEF DragsInv, Aside
  <1>1. /\ toProxy \in Seq(ToProxyMessage) /\ proxyNeedsAck \in BOOLEAN /\ cursor \in Point
    BY DEF Typed, TypeOK
  <1>2. /\ Plain("RequestNCHitTest") \in ToProxyMessage
        /\ Plain("RequestNCHitTest").kind = "RequestNCHitTest"
    BY <1>1, MessageTypes DEF Plain
  <1>3. CASE UNCHANGED toProxy
    BY <1>3 DEF Stage, Aside, AckKinds
  <1>4. CASE toProxy' = Append(toProxy, Plain("RequestNCHitTest"))
    <2>1. Leads(delegate.state, toProxy', stage)
      BY <1>1, <1>2, <1>4, SendingLeads DEF Stage, Effect
    <2>2. /\ NoEnd(toProxy', proxyNeedsAck) <=> NoEnd(toProxy, proxyNeedsAck)
          /\ NoMove(toProxy', proxyNeedsAck) <=> NoMove(toProxy, proxyNeedsAck)
      BY <1>1, <1>2, <1>4, ProxyChannel
    <2>3. EndsAt(toProxy', is_delegate_nc_dragging_, releasedAt)
      BY <1>1, <1>2, <1>4, LastEnd
    <2> QED BY <2>1, <2>2, <2>3 DEF Stage, Aside, AckKinds
  <1> QED BY <1>3, <1>4 DEF Aside

\* The steps that are aside from drags.
LEMMA StepsAside ==
  ASSUME Typed,
         \/ \E p \in Point : CursorMoves(p)
         \/ HandleMouseMove \/ onEnableNCHitTest \/ onOnNCHitTestResult \/ Answer
         \/ \E enabled \in BOOLEAN : enableNCHitTest(enabled)
         \/ UNCHANGED vars
  PROVE  Aside
  <1> USE DEF mouseVars, hostVars, delegateVars, hitTestVars
  <1>1. toHost \in Seq(HostMessage) /\ cursor \in Point
    BY DEF Typed, TypeOK
  <1>2. \A k \in AckKinds : Count(toHost, {k}) \in Nat
    BY <1>1, AckChannel
  <1>3. ASSUME NEW p \in Point, CursorMoves(p) PROVE Aside
    BY <1>3 DEF CursorMoves, Aside
  <1>4. CASE HandleMouseMove
    <2>1. UNCHANGED toProxy \/ toProxy' = Append(toProxy, Plain("RequestNCHitTest"))
      BY <1>4, Sending DEF HandleMouseMove
    <2> QED BY <1>4, <2>1 DEF HandleMouseMove, Aside
  <1>5. ASSUME toHost # <<>>, toHost' = Tail(toHost), Head(toHost).kind \notin AckKinds
        PROVE  \A k \in AckKinds : Count(toHost', {k}) = Count(toHost, {k})
    <2> SUFFICES ASSUME NEW k \in AckKinds PROVE Count(toHost', {k}) = Count(toHost, {k})
      OBVIOUS
    <2>1. /\ Count(toHost, {k}) = Count(Tail(toHost), {k}) + (IF Head(toHost).kind = k THEN 1 ELSE 0)
          /\ Count(Tail(toHost), {k}) \in Nat
      BY <1>1, <1>5, AckChannel
    <2> QED BY <1>5, <2>1
  <1>6. CASE onEnableNCHitTest
    <2>1. \A k \in AckKinds : Count(toHost', {k}) = Count(toHost, {k})
      BY <1>5, <1>6 DEF onEnableNCHitTest, Receive, AckKinds
    <2> QED BY <1>6, <2>1 DEF onEnableNCHitTest, Aside
  <1>7. CASE onOnNCHitTestResult
    <2>1. \A k \in AckKinds : Count(toHost', {k}) = Count(toHost, {k})
      BY <1>5, <1>7 DEF onOnNCHitTestResult, Receive, AckKinds
    <2> QED BY <1>7, <2>1 DEF onOnNCHitTestResult, Aside
  <1>8. ASSUME NEW m \in HostMessage, m.kind \notin AckKinds, toHost' = Append(toHost, m)
        PROVE  \A k \in AckKinds : Count(toHost', {k}) = Count(toHost, {k})
    <2> SUFFICES ASSUME NEW k \in AckKinds PROVE Count(toHost', {k}) = Count(toHost, {k})
      OBVIOUS
    <2>1. Count(toHost', {k}) = Count(toHost, {k}) + (IF m.kind = k THEN 1 ELSE 0)
      BY <1>1, <1>8, AckChannel
    <2> QED BY <1>2, <1>8, <2>1
  <1>9. ASSUME NEW code \in Code, onNCHitTestResult(code) PROVE Aside
    <2> DEFINE m == Message("OnNCHitTestResult", cursor, code)
    <2>1. m \in HostMessage /\ m.kind = "OnNCHitTestResult" /\ m.kind \notin AckKinds
      BY <1>1, MessageTypes DEF AckKinds, Typed, TypeOK
    <2>2. toHost' = Append(toHost, m)
      BY <1>9 DEF onNCHitTestResult
    <2> HIDE DEF m
    <2>3. \A k \in AckKinds : Count(toHost', {k}) = Count(toHost, {k})
      BY <1>8, <2>1, <2>2
    <2> QED BY <1>9, <2>3 DEF onNCHitTestResult, proxyUnchanged, Aside
  <1>10. ASSUME NEW enabled \in BOOLEAN, enableNCHitTest(enabled) PROVE Aside
    <2> DEFINE m == Message("EnableNCHitTest", cursor, enabled)
    <2>1. m \in HostMessage /\ m.kind = "EnableNCHitTest" /\ m.kind \notin AckKinds
      BY <1>1, MessageTypes DEF AckKinds, Typed, TypeOK
    <2>2. toHost' = Append(toHost, m)
      BY <1>10 DEF enableNCHitTest
    <2> HIDE DEF m
    <2>3. \A k \in AckKinds : Count(toHost', {k}) = Count(toHost, {k})
      BY <1>8, <2>1, <2>2
    <2> QED BY <1>10, <2>3 DEF enableNCHitTest, proxyUnchanged, Aside
  <1>11. CASE UNCHANGED vars
    BY <1>11 DEF vars, Aside
  <1> QED BY <1>3, <1>4, <1>6, <1>7, <1>9, <1>10, <1>11 DEF Answer

\* The host sends m, after which the delegate will be at next.
LEMMA SendingStage ==
  ASSUME Typed, NEW stage \in Stages, Stage(stage), NEW next \in Stages,
         NEW m \in ToProxyMessage, Effect(stage, m, next),
         toProxy' = Append(toProxy, m), UNCHANGED <<delegate, proxyNeedsAck>>
  PROVE  /\ Leads(delegate'.state, toProxy', next)
         /\ NoEnd(toProxy', proxyNeedsAck') <=>
              NoEnd(toProxy, proxyNeedsAck)
                /\ ~(m.kind = "NCDragEnd" /\ NeedsAfter(toProxy, proxyNeedsAck))
         /\ NoMove(toProxy', proxyNeedsAck') <=>
              NoMove(toProxy, proxyNeedsAck)
                /\ ~(m.kind = "NCDragMove" /\ NeedsAfter(toProxy, proxyNeedsAck))
         /\ \A dragging, at : (m.kind = "NCDragEnd" /\ ~dragging => m.point = at) =>
              EndsAt(toProxy', dragging, at)
  <1>1. toProxy \in Seq(ToProxyMessage) /\ proxyNeedsAck \in BOOLEAN
    BY DEF Typed, TypeOK
  <1>2. Leads(delegate.state, toProxy', next)
    BY <1>1, SendingLeads DEF Stage
  <1>3. /\ NoEnd(toProxy', proxyNeedsAck) <=>
             NoEnd(toProxy, proxyNeedsAck)
               /\ ~(m.kind = "NCDragEnd" /\ NeedsAfter(toProxy, proxyNeedsAck))
        /\ NoMove(toProxy', proxyNeedsAck) <=>
             NoMove(toProxy, proxyNeedsAck)
               /\ ~(m.kind = "NCDragMove" /\ NeedsAfter(toProxy, proxyNeedsAck))
    BY <1>1, ProxyChannel
  <1>4. \A dragging, at : (m.kind = "NCDragEnd" /\ ~dragging => m.point = at) =>
          EndsAt(toProxy', dragging, at)
    BY <1>1, LastEnd
  <1> QED BY <1>2, <1>3, <1>4

\* A channel without acknowledgements has none of either kind.
LEMMA NoAcks ==
  ASSUME NEW q \in Seq(HostMessage), Count(q, AckKinds) = 0
  PROVE  \A k \in AckKinds : Count(q, {k}) = 0
  <1>1. \A i \in 1 .. Len(q) : q[i].kind \notin AckKinds
    BY CountFacts
  <1>2. ASSUME NEW k \in AckKinds PROVE Count(q, {k}) = 0
    <2>1. {i \in 1 .. Len(q) : q[i].kind \in {k}} = {}
      BY <1>1
    <2> QED BY <2>1, FS_EmptySet DEF Count
  <1> QED BY <1>2

\* With no acknowledgement to come there is none of either kind.
LEMMA NoneToCome ==
  ASSUME Typed, DragInv, ~d_ncDragAckPending
  PROVE  /\ NoEnd(toProxy, proxyNeedsAck) /\ NoMove(toProxy, proxyNeedsAck)
         /\ Count(toHost, {"NCDragEndAck"}) = 0 /\ Count(toHost, {"NCDragMoveAck"}) = 0
  <1>1. toProxy \in Seq(ToProxyMessage) /\ proxyNeedsAck \in BOOLEAN /\ toHost \in Seq(HostMessage)
    BY DEF Typed, TypeOK
  <1>2. Acknowledged(toProxy, proxyNeedsAck) \in Nat /\ Count(toHost, AckKinds) \in Nat
    BY <1>1, ProxyChannel, HostChannel
  <1>3. Acknowledged(toProxy, proxyNeedsAck) = 0 /\ Count(toHost, AckKinds) = 0
    BY <1>2 DEF DragInv, AcksAreExact
  <1>4. \A k \in AckKinds : Count(toHost, {k}) = 0
    BY <1>1, <1>3, NoAcks
  <1> QED BY <1>1, <1>3, <1>4, ProxyChannel DEF AckKinds

\* A movement in a drag is sent, or nothing is while an acknowledgement is
\* pending.
LEMMA MoveKeeps ==
  ASSUME Typed, DragInv, DragsInv, ncDragMove
  PROVE  DragsInv'
  <1> SUFFICES ASSUME ~ignored, NEW stage \in Stages, Stage(stage)
               PROVE  \E next \in Stages : Stage(next)'
    BY DEF DragsInv, ncDragMove
  <1>1. UNCHANGED <<delegate, proxyNeedsAck, d_ncDragging, d_ncDragEndPoint, releasedAt,
                    is_delegate_nc_dragging_, toHost>>
    BY DEF ncDragMove, delegateVars
  <1>2. CASE UNCHANGED <<d_ncDragAckPending, toProxy>>
    BY <1>1, <1>2 DEF Stage
  <1>3. CASE ~d_ncDragAckPending /\ toProxy' = Append(toProxy, Plain("NCDragMove"))
    <2>1. d_ncDragging /\ stage = "dragging"
      BY DEF ncDragMove, Stage
    <2>2. /\ Plain("NCDragMove") \in ToProxyMessage /\ Plain("NCDragMove").kind = "NCDragMove"
      BY MessageTypes DEF Plain, Typed, TypeOK
    <2>3. Effect(stage, Plain("NCDragMove"), stage)
      BY <2>1, <2>2 DEF Effect
    <2>4. /\ Leads(delegate'.state, toProxy', stage)
          /\ NoEnd(toProxy', proxyNeedsAck') <=> NoEnd(toProxy, proxyNeedsAck)
          /\ EndsAt(toProxy', is_delegate_nc_dragging_', releasedAt')
      BY <1>1, <1>3, <2>2, <2>3, SendingStage
    <2>5. Stage(stage)'
      BY <1>1, <2>1, <2>4 DEF Stage
    <2> QED BY <2>5
  <1> QED BY <1>2, <1>3 DEF ncDragMove

\* A drag begins when the one before it is over for the delegate as well, or is
\* ignored.
LEMMA BeginKeeps ==
  ASSUME Typed, DragInv, DragsInv, ncDragBegin
  PROVE  DragsInv'
  <1> DEFINE code == FromWindows(ToWindows(d_lastNCHitTestResult))
             begin == Message("NCDragBegin", cursor, code)
             asked == IF Asks THEN Append(toProxy, Plain("RequestNCHitTest")) ELSE toProxy
  <1>1. CASE ignored'
    BY <1>1 DEF DragsInv
  <1>2. CASE ~ignored'
    <2>1. ~ignored
      BY <1>2 DEF ncDragBegin
    <2>2. PICK stage \in Stages : Stage(stage)
      BY <2>1 DEF DragsInv
    <2>3. /\ toProxy \in Seq(ToProxyMessage) /\ proxyNeedsAck \in BOOLEAN /\ cursor \in Point
          /\ Plain("RequestNCHitTest") \in ToProxyMessage
          /\ Plain("RequestNCHitTest").kind = "RequestNCHitTest"
      BY MessageTypes DEF Plain, Typed, TypeOK
    <2>4. asked \in Seq(ToProxyMessage) /\ toProxy \o HitTestRequest = asked
      BY Sending, <2>3
    <2>5. begin \in ToProxyMessage /\ begin.kind = "NCDragBegin"
      <3>1. code \in Code
        BY DEF Typed, TypeOK, FromWindows, ToWindows, Code
      <3> HIDE DEF code
      <3> QED BY <2>3, <3>1, MessageTypes
    <2>6. /\ ~d_ncDragAckPending /\ d_ncDragging' /\ is_delegate_nc_dragging_'
          /\ ~is_delegate_nc_dragging_ /\ toProxy' = asked \o <<begin>>
          /\ UNCHANGED <<delegate, proxyNeedsAck, toHost>>
      BY <1>2, <2>4 DEF ncDragBegin, HostMayBegin, delegateVars
    <2> HIDE DEF begin, code
    <2>7. toProxy' = Append(asked, begin)
      BY <2>4, <2>5, <2>6, AppendIsConcat
    <2>8. stage = "idle"
      BY <2>2, <2>6 DEF Stage, Stages
    <2>9. Leads(delegate.state, asked, "idle") /\ NoEnd(asked, proxyNeedsAck)
      <3>1. NoEnd(toProxy, proxyNeedsAck)
        BY <2>6, NoneToCome
      <3>2. CASE Asks
        <4>1. asked = Append(toProxy, Plain("RequestNCHitTest"))
          BY <3>2
        <4>2. Leads(delegate.state, asked, "idle")
          BY <2>2, <2>3, <2>8, <4>1, SendingLeads DEF Stage, Effect
        <4>3. NoEnd(asked, proxyNeedsAck)
          BY <2>3, <3>1, <4>1, ProxyChannel
        <4> QED BY <4>2, <4>3
      <3>3. CASE ~Asks
        BY <2>2, <2>8, <3>1, <3>3 DEF Stage
      <3> QED BY <3>2, <3>3
    <2> HIDE DEF asked
    <2>10. Leads(delegate.state, toProxy', "dragging")
      BY <2>4, <2>5, <2>7, <2>9, SendingLeads DEF Effect, Stages
    <2>11. NoEnd(toProxy', proxyNeedsAck)
      BY <2>3, <2>4, <2>5, <2>7, <2>9, ProxyChannel
    <2>12. Count(toHost, {"NCDragEndAck"}) = 0
      BY <2>6, NoneToCome
    <2>13. EndsAt(toProxy', is_delegate_nc_dragging_', releasedAt')
      BY <2>4, <2>5, <2>7, LastEnd
    <2>14. Stage("dragging")'
      BY <2>6, <2>10, <2>11, <2>12, <2>13 DEF Stage
    <2> QED BY <2>14 DEF DragsInv, Stages
  <1> QED BY <1>1, <1>2

\* The end of a drag is sent, or put off and its place remembered.
LEMMA EndKeeps ==
  ASSUME Typed, DragInv, DragsInv, ncDragEnd
  PROVE  DragsInv'
  <1> SUFFICES ASSUME ~ignored, NEW stage \in Stages, Stage(stage)
               PROVE  \E next \in Stages : Stage(next)'
    BY DEF DragsInv, ncDragEnd
  <1>1. /\ UNCHANGED <<delegate, proxyNeedsAck, toHost, cursor>>
        /\ ~d_ncDragging' /\ ~is_delegate_nc_dragging_' /\ releasedAt' = cursor
    BY DEF ncDragEnd, delegateVars
  <1>2. d_ncDragging /\ stage = "dragging"
    BY DEF ncDragEnd, Stage
  <1>3. CASE d_ncDragAckPending /\ d_ncDragEndPoint' = cursor
             /\ UNCHANGED <<d_ncDragAckPending, toProxy>>
    <2>1. EndsAt(toProxy, is_delegate_nc_dragging_', releasedAt')
      <3>1. toProxy \in Seq(ToProxyMessage) /\ Leads(delegate.state, toProxy, "dragging")
        BY <1>2 DEF Typed, TypeOK, Stage
      <3> QED BY <3>1, LastEnd
    <2>2. Stage(stage)'
      BY <1>1, <1>2, <1>3, <2>1 DEF Stage
    <2> QED BY <2>2
  <1>4. CASE ~d_ncDragAckPending /\ toProxy' = Append(toProxy, Plain("NCDragEnd"))
    <2>1. /\ Plain("NCDragEnd") \in ToProxyMessage /\ Plain("NCDragEnd").kind = "NCDragEnd"
          /\ Plain("NCDragEnd").point = cursor
      BY MessageTypes DEF Plain, Typed, TypeOK
    <2>2. Effect(stage, Plain("NCDragEnd"), "idle") /\ "idle" \in Stages
      BY <1>2, <2>1 DEF Effect, Stages
    <2>3. /\ Leads(delegate'.state, toProxy', "idle")
          /\ NoMove(toProxy', proxyNeedsAck') <=> NoMove(toProxy, proxyNeedsAck)
          /\ EndsAt(toProxy', is_delegate_nc_dragging_', releasedAt')
      BY <1>1, <1>4, <2>1, <2>2, SendingStage
    <2>4. NoMove(toProxy, proxyNeedsAck) /\ Count(toHost, {"NCDragMoveAck"}) = 0
      BY <1>4, NoneToCome
    <2>5. Stage("idle")'
      BY <1>1, <2>3, <2>4 DEF Stage
    <2> QED BY <2>2, <2>5
  <1> QED BY <1>3, <1>4 DEF ncDragEnd

\* An acknowledgement is the last one to come; that of a move comes in a drag,
\* possibly one whose end is put off, that of an end outside.
LEMMA AckKeeps ==
  ASSUME Typed, DragInv, DragsInv, onNCDragMoveAck \/ onNCDragEndAck
  PROVE  DragsInv'
  <1> SUFFICES ASSUME ~ignored, NEW stage \in Stages, Stage(stage)
               PROVE  \E next \in Stages : Stage(next)'
    BY DEF DragsInv, onNCDragMoveAck, onNCDragEndAck
  <1>1. /\ toProxy \in Seq(ToProxyMessage) /\ proxyNeedsAck \in BOOLEAN
        /\ toHost \in Seq(HostMessage) /\ cursor \in Point /\ d_ncDragEndPoint \in Point
    BY DEF Typed, TypeOK
  <1>2. /\ UNCHANGED <<delegate, proxyNeedsAck, d_ncDragging, d_ncDragEndPoint,
                       releasedAt, is_delegate_nc_dragging_>>
        /\ toHost # <<>> /\ toHost' = Tail(toHost) /\ Head(toHost).kind \in AckKinds
    BY DEF onNCDragMoveAck, onNCDragEndAck, Receive, mouseVars, delegateVars, AckKinds
  <1>3. /\ Acknowledged(toProxy, proxyNeedsAck) = 0
        /\ Count(toHost', AckKinds) = 0 /\ toHost' \in Seq(HostMessage)
    <2>1. toHost' \in Seq(HostMessage)
      BY <1>1, <1>2, HeadTailProperties
    <2>2. Count(toHost', AckKinds) \in Nat /\ Acknowledged(toProxy, proxyNeedsAck) \in Nat
      BY <1>1, <2>1, HostChannel, ProxyChannel
    <2>3. Count(toHost, AckKinds) = Count(toHost', AckKinds) + 1
      BY <1>1, <1>2, HostChannel
    <2> QED BY <2>1, <2>2, <2>3 DEF DragInv, AcksAreExact
  <1>4. /\ NoEnd(toProxy, proxyNeedsAck) /\ NoMove(toProxy, proxyNeedsAck)
        /\ Count(toHost', {"NCDragEndAck"}) = 0 /\ Count(toHost', {"NCDragMoveAck"}) = 0
    BY <1>1, <1>3, ProxyChannel, NoAcks DEF AckKinds
  <1>5. \A k : Head(toHost).kind = k => Count(toHost, {k}) # 0
    <2> SUFFICES ASSUME NEW k, Head(toHost).kind = k PROVE Count(toHost, {k}) # 0
      OBVIOUS
    <2>1. /\ Count(toHost, {k}) = Count(Tail(toHost), {k}) + 1
          /\ Count(Tail(toHost), {k}) \in Nat
      BY <1>1, <1>2, AckChannel
    <2> QED BY <2>1
  <1>6. CASE onNCDragMoveAck
    <2>1. stage = "dragging"
      <3>1. Head(toHost).kind = "NCDragMoveAck"
        BY <1>6 DEF onNCDragMoveAck, Receive
      <3>2. Count(toHost, {"NCDragMoveAck"}) # 0
        BY <1>5, <3>1
      <3> QED BY <3>2 DEF Stage, Stages
    <2>2. CASE d_ncDragging /\ toProxy' = Append(toProxy, Plain("NCDragMove"))
      <3>1. Plain("NCDragMove") \in ToProxyMessage /\ Plain("NCDragMove").kind = "NCDragMove"
        BY <1>1, MessageTypes DEF Plain
      <3>2. Effect(stage, Plain("NCDragMove"), stage)
        BY <2>1, <3>1 DEF Effect
      <3>3. /\ Leads(delegate'.state, toProxy', stage)
            /\ NoEnd(toProxy', proxyNeedsAck') <=> NoEnd(toProxy, proxyNeedsAck)
            /\ EndsAt(toProxy', is_delegate_nc_dragging_', releasedAt')
        BY <1>2, <2>2, <3>1, <3>2, SendingStage
      <3>4. Stage(stage)'
        BY <1>2, <1>4, <2>1, <2>2, <3>3 DEF Stage
      <3> QED BY <3>4
    <2>3. CASE d_ncDragging /\ UNCHANGED toProxy
      <3>1. Stage(stage)'
        BY <1>2, <1>4, <2>1, <2>3 DEF Stage
      <3> QED BY <3>1
    <2>4. CASE /\ ~d_ncDragging
               /\ toProxy' = Append(toProxy, Message("NCDragEnd", d_ncDragEndPoint, "none"))
      <3> DEFINE m == Message("NCDragEnd", d_ncDragEndPoint, "none")
      <3>1. m \in ToProxyMessage /\ m.kind = "NCDragEnd" /\ m.point = d_ncDragEndPoint
        BY <1>1, MessageTypes
      <3>2. toProxy' = Append(toProxy, m)
        BY <2>4
      <3> HIDE DEF m
      <3>3. Effect(stage, m, "idle") /\ "idle" \in Stages
        BY <2>1, <3>1 DEF Effect, Stages
      <3>4. d_ncDragEndPoint = releasedAt
        BY <2>1, <2>4 DEF Stage
      <3>5. /\ Leads(delegate'.state, toProxy', "idle")
            /\ NoMove(toProxy', proxyNeedsAck') <=> NoMove(toProxy, proxyNeedsAck)
            /\ EndsAt(toProxy', is_delegate_nc_dragging_', releasedAt')
        BY <1>2, <3>1, <3>2, <3>3, <3>4, SendingStage
      <3>6. Stage("idle")'
        BY <1>2, <1>4, <2>4, <3>5 DEF Stage
      <3> QED BY <3>3, <3>6
    <2> QED BY <1>6, <2>2, <2>3, <2>4 DEF onNCDragMoveAck
  <1>7. CASE onNCDragEndAck
    <2>1. stage = "idle" /\ UNCHANGED toProxy
      <3>1. Head(toHost).kind = "NCDragEndAck" /\ UNCHANGED toProxy
        BY <1>7 DEF onNCDragEndAck, Receive
      <3>2. Count(toHost, {"NCDragEndAck"}) # 0
        BY <1>5, <3>1
      <3> QED BY <3>1, <3>2 DEF Stage, Stages
    <2>2. Stage(stage)'
      BY <1>2, <1>4, <2>1 DEF Stage
    <2> QED BY <2>2
  <1> QED BY <1>6, <1>7

\* What the proxy takes is not stray, and an acknowledgement it sends is of the
\* kind that the stage allows.
LEMMA ProxyKeeps ==
  ASSUME Typed, DragInv, DragsInv, ProxyStep
  PROVE  DragsInv'
  <1> USE DEF mouseVars, hostVars, delegateVars
  <1> SUFFICES ASSUME ~ignored, NEW stage \in Stages, Stage(stage)
               PROVE  \E next \in Stages : Stage(next)'
    BY DEF DragsInv, ProxyStep, onRequestNCHitTest, onNCDragBegin, onNCDragMove,
           onNCDragEnd, proxyUnchanged
  <1> DEFINE b == proxyNeedsAck
             next == NeedsNext(toProxy, b)
  <1>1. /\ toProxy \in Seq(ToProxyMessage) /\ b \in BOOLEAN
        /\ toHost \in Seq(HostMessage) /\ cursor \in Point
    BY DEF Typed, TypeOK
  <1>2. /\ toProxy # <<>> /\ toProxy' = Tail(toProxy)
        /\ UNCHANGED <<d_ncDragging, d_ncDragAckPending, d_ncDragEndPoint, releasedAt,
                       is_delegate_nc_dragging_>>
    BY DEF ProxyStep, onRequestNCHitTest, onNCDragBegin, onNCDragMove, onNCDragEnd,
           Receive, proxyUnchanged
  <1>3. PICK c \in Stages : Effect(delegate.state, Head(toProxy), c)
                              /\ Leads(c, toProxy', stage)
    BY <1>1, <1>2, TakingLeads DEF Stage
  <1>4. delegate'.state = c /\ proxyNeedsAck' = next
    BY <1>3 DEF ProxyStep, onRequestNCHitTest, onNCDragBegin, onNCDragMove, onNCDragEnd,
                Receive, Effect, Begun, Moved, Ended, NeedsNext
  <1>5. /\ NoEnd(toProxy, b) <=> NoEnd(toProxy', next) /\ ~(Head(toProxy).kind = "NCDragEnd" /\ b)
        /\ NoMove(toProxy, b) <=> NoMove(toProxy', next) /\ ~(Head(toProxy).kind = "NCDragMove" /\ b)
    BY <1>1, <1>2, ProxyChannel
  <1>6. EndsAt(toProxy', is_delegate_nc_dragging_', releasedAt')
    <2>1. EndsAt(Tail(toProxy), is_delegate_nc_dragging_, releasedAt)
      BY <1>1, <1>2, LastEnd DEF Stage
    <2> QED BY <1>2, <2>1
  <1> HIDE DEF next
  <1>7. /\ stage = "dragging" => Count(toHost', {"NCDragEndAck"}) = 0
        /\ stage = "idle" => Count(toHost', {"NCDragMoveAck"}) = 0
    <2>1. CASE UNCHANGED toHost
      BY <2>1 DEF Stage
    <2>2. ASSUME NEW ack \in AckKinds, b,
                 Head(toProxy).kind = IF ack = "NCDragEndAck" THEN "NCDragEnd" ELSE "NCDragMove",
                 toHost' = Append(toHost, Message(ack, cursor, "none"))
          PROVE  /\ stage = "dragging" => Count(toHost', {"NCDragEndAck"}) = 0
                 /\ stage = "idle" => Count(toHost', {"NCDragMoveAck"}) = 0
      <3> DEFINE m == Message(ack, cursor, "none")
      <3>1. m \in HostMessage /\ m.kind = ack
        BY <1>1, <2>2, MessageTypes DEF AckKinds
      <3>2. toHost' = Append(toHost, m)
        BY <2>2
      <3> HIDE DEF m
      <3>3. ASSUME NEW k, ack # k
            PROVE  Count(toHost', {k}) = Count(toHost, {k})
        <4>1. /\ Count(toHost', {k}) = Count(toHost, {k}) + (IF m.kind = k THEN 1 ELSE 0)
              /\ Count(toHost, {k}) \in Nat
          BY <1>1, <3>1, <3>2, AckChannel
        <4> QED BY <3>1, <3>3, <4>1
      <3>4. /\ stage = "dragging" => ack # "NCDragEndAck"
            /\ stage = "idle" => ack # "NCDragMoveAck"
        BY <1>5, <2>2 DEF Stage, AckKinds
      <3>5. ack # "NCDragEndAck" => Count(toHost', {"NCDragEndAck"}) = Count(toHost, {"NCDragEndAck"})
        BY <3>3, Zenon
      <3>6. ack # "NCDragMoveAck" => Count(toHost', {"NCDragMoveAck"}) = Count(toHost, {"NCDragMoveAck"})
        BY <3>3, Zenon
      <3> QED BY <3>4, <3>5, <3>6 DEF Stage
    <2>3. CASE onNCDragMove
      BY <2>1, <2>2, <2>3, Sending DEF onNCDragMove, Receive, AckKinds
    <2>4. CASE onNCDragEnd
      BY <2>1, <2>2, <2>4, Sending DEF onNCDragEnd, Receive, AckKinds
    <2>5. CASE onRequestNCHitTest \/ onNCDragBegin
      BY <2>1, <2>5 DEF onRequestNCHitTest, onNCDragBegin
    <2> QED BY <2>3, <2>4, <2>5 DEF ProxyStep
  <1>8. Stage(stage)'
    BY <1>2, <1>3, <1>4, <1>5, <1>6, <1>7 DEF Stage
  <1> QED BY <1>8

\* Every step leads the delegate through whole drags.
LEMMA DragsInvNext == Typed /\ DragInv /\ DragsInv /\ [Next]_vars => DragsInv'
  <1> SUFFICES ASSUME Typed, DragInv, DragsInv, [Next]_vars PROVE DragsInv'
    OBVIOUS
  <1>1. CASE \/ \E p \in Point : CursorMoves(p)
             \/ HandleMouseMove \/ onEnableNCHitTest \/ onOnNCHitTestResult \/ Answer
             \/ \E enabled \in BOOLEAN : enableNCHitTest(enabled)
             \/ UNCHANGED vars
    <2>1. Aside
      BY <1>1, StepsAside
    <2> QED BY <2>1, AsideKeeps
  <1> QED BY <1>1, MoveKeeps, BeginKeeps, EndKeeps, AckKeeps, ProxyKeeps
          DEF Next, MouseMessage, HostStep

\* As long as no drag had to be ignored, the delegate gets every drag as one
\* ncDragBegin, its moves and one ncDragEnd, at the place where the button was
\* released, although WebViewHost drops moves and puts off the end while an
\* acknowledgement is pending.
THEOREM DragsAreAlwaysWellFormed == Spec => []DragsAreWellFormed
  <1>1. Spec => [](Typed /\ DragInv /\ DragsInv)
    BY TypedInit, TypedNext, DragInvInit, DragInvNext, DragsInvInit, DragsInvNext, PTL
    DEF Spec
  <1>2. Typed /\ DragsInv => DragsAreWellFormed
    <2> SUFFICES ASSUME Typed, ~ignored, NEW stage \in Stages, Stage(stage)
                 PROVE  DragsAreWellFormed
      BY DEF DragsInv, DragsAreWellFormed
    <2>1. PICK s \in Seq(Stages) : Steps(s, delegate.state, toProxy, stage)
      BY DEF Stage, Leads
    <2>2. delegate.state \in Stages
      <3>1. Len(s) \in Nat /\ Len(s) >= 1 /\ s[1] = delegate.state
        BY <2>1 DEF Steps, Typed, TypeOK
      <3> QED BY <3>1
    <2> QED BY <2>2 DEF Stage, Stages, EndsAt, DragsAreWellFormed
  <1> QED BY <1>1, <1>2, PTL
=============================================================================
