---------------------- MODULE LastRectangleWinsProofs ----------------------
(***************************************************************************)
(* That LastRectangleWins deserves its name: the rectangle asked for last  *)
(* is always the last one that is left to apply.                           *)
(***************************************************************************)
EXTENDS LastRectangleWins, SequenceTheorems, TLAPS

\* What is at the end of a queue of rectangles after each kind of step.
LEMMA EndOfQueue ==
  ASSUME NEW q \in Seq(Rects), NEW r \in Rects
  PROVE  /\ \A n \in 0 .. Len(q) :
              LET p == Append(SubSeq(q, 1, n), r)
              IN  p \in Seq(Rects) /\ p # <<>> /\ p[Len(p)] = r
         /\ \A n \in 0 .. Len(q) : SubSeq(q, 1, n) \in Seq(Rects)
         /\ q # <<>> => /\ Head(q) \in Rects /\ Tail(q) \in Seq(Rects)
                        /\ Tail(q) = <<>> => q[Len(q)] = Head(q)
                        /\ Tail(q) # <<>> => Tail(q)[Len(Tail(q))] = q[Len(q)]
  <1>1. ASSUME NEW n \in 0 .. Len(q)
        PROVE  SubSeq(q, 1, n) \in Seq(Rects)
    OBVIOUS
  <1>2. ASSUME NEW p \in Seq(Rects)
        PROVE  LET t == Append(p, r)
               IN  t \in Seq(Rects) /\ t # <<>> /\ t[Len(t)] = r
    BY AppendProperties
  <1>3. q # <<>> => /\ Head(q) \in Rects /\ Tail(q) \in Seq(Rects)
                    /\ Tail(q) = <<>> => q[Len(q)] = Head(q)
                    /\ Tail(q) # <<>> => Tail(q)[Len(Tail(q))] = q[Len(q)]
    <2> SUFFICES ASSUME q # <<>>
                 PROVE  /\ Head(q) \in Rects /\ Tail(q) \in Seq(Rects)
                        /\ Tail(q) = <<>> => q[Len(q)] = Head(q)
                        /\ Tail(q) # <<>> => Tail(q)[Len(Tail(q))] = q[Len(q)]
      OBVIOUS
    <2>1. Len(q) \in Nat /\ Len(q) > 0 /\ Head(q) = q[1] /\ q[1] \in Rects
      OBVIOUS
    <2>2. /\ Tail(q) \in Seq(Rects)
          /\ Len(Tail(q)) = Len(q) - 1
          /\ \A i \in 1 .. Len(q) - 1 : Tail(q)[i] = q[i + 1]
      OBVIOUS
    <2>3. Tail(q) = <<>> => q[Len(q)] = Head(q)
      <3>1. Tail(q) = <<>> => Len(Tail(q)) = 0
        BY EmptySeq, Zenon
      <3>2. Tail(q) = <<>> => Len(q) = 1
        BY <2>1, <2>2, <3>1
      <3> QED
        BY <2>1, <3>2
    <2>4. Tail(q) # <<>> => Tail(q)[Len(Tail(q))] = q[Len(q)]
      <3>1. Tail(q) # <<>> => Len(Tail(q)) \in 1 .. Len(q) - 1
        BY <2>1, <2>2, EmptySeq
      <3>2. (Len(q) - 1) + 1 = Len(q)
        BY <2>1
      <3>3. Tail(q) # <<>> => Tail(q)[Len(q) - 1] = q[(Len(q) - 1) + 1]
        BY <2>2, <3>1
      <3> QED
        BY <2>2, <3>2, <3>3
    <2> QED
      BY <2>1, <2>2, <2>3, <2>4
  <1> QED
    BY <1>1, <1>2, <1>3

\* While the view is in use, the rectangle asked for last is the one that the
\* window will have when everything is applied.
THEOREM LastIsAlwaysKept ==
  ASSUME EmptyRect \in Rects
  PROVE  Spec => [](TypeOK /\ LastIsKept)
  <1> DEFINE Inv == TypeOK /\ LastIsKept
  <1>1. Init => Inv
    BY DEF Init, TypeOK, LastIsKept
  <1>2. ASSUME Inv, [Next]_vars
        PROVE  Inv'
    <2>1. ASSUME NEW r \in Rects, Request(r)
          PROVE  Inv'
      <3>1. CASE \E n \in 0 .. Len(queue) : queue' = Append(SubSeq(queue, 1, n), r)
        <4>1. queue' \in Seq(Rects) /\ queue' # <<>> /\ queue'[Len(queue')] = r
          <5>1. PICK n \in 0 .. Len(queue) : queue' = Append(SubSeq(queue, 1, n), r)
            BY <3>1
          <5>2. queue \in Seq(Rects)
            BY <1>2 DEF TypeOK
          <5> QED
            BY <2>1, <5>1, <5>2, EndOfQueue
        <4> QED
          BY <1>2, <2>1, <4>1 DEF Request, TypeOK, LastIsKept
      <3>2. CASE r = applied /\ queue' = <<>>
        BY <1>2, <2>1, <3>2 DEF Request, TypeOK, LastIsKept
      <3> QED
        BY <2>1, <3>1, <3>2 DEF Request
    <2>2. CASE Apply
      <3>1. /\ queue \in Seq(Rects) /\ queue # <<>>
            /\ queue' = Tail(queue) /\ applied' = Head(queue)
            /\ UNCHANGED <<wanted, open>>
        BY <1>2, <2>2 DEF Apply, TypeOK
      <3>2. /\ Head(queue) \in Rects /\ Tail(queue) \in Seq(Rects)
            /\ Tail(queue) = <<>> => queue[Len(queue)] = Head(queue)
            /\ Tail(queue) # <<>> => Tail(queue)[Len(Tail(queue))] = queue[Len(queue)]
        BY <3>1, EndOfQueue
      <3> QED
        BY <1>2, <3>1, <3>2 DEF TypeOK, LastIsKept
    <2>3. CASE Close
      <3>1. queue' \in Seq(Rects)
        BY <1>2, <2>3, EndOfQueue DEF Close, TypeOK
      <3> QED
        BY <1>2, <2>3, <3>1 DEF Close, TypeOK, LastIsKept
    <2>4. CASE Discard
      BY <1>2, <2>4 DEF Discard, TypeOK, LastIsKept
    <2>5. CASE UNCHANGED vars
      BY <1>2, <2>5 DEF vars, TypeOK, LastIsKept
    <2> QED
      BY <1>2, <2>1, <2>2, <2>3, <2>4, <2>5 DEF Next
  <1> QED
    BY <1>1, <1>2, PTL DEF Spec
=============================================================================
