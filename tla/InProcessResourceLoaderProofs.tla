-------------------- MODULE InProcessResourceLoaderProofs --------------------
(***************************************************************************)
(* Proofs about InProcessResourceLoader, for any set of requests and any   *)
(* amount of data.                                                         *)
(*                                                                         *)
(* The properties speak of the reference count, of the peer and of the     *)
(* application's loader; the code keeps none of them in one place.         *)
(* LoaderInv ties them together: the flags of a context say where its load *)
(* and its request are, the call on the stack explains the data still owed *)
(* to the peer, and a task is posted at most once, startLoad for a load    *)
(* that the application has not been given and cancelLoad for a request    *)
(* that is gone.                                                           *)
(***************************************************************************)
EXTENDS InProcessResourceLoader, PositionCounts

-----------------------------------------------------------------------------
(* The inductive invariant.                                                *)

\* The flags of r's context say whether the peer is left, what the
\* application knows and whether the peer has had its response.
Tracks(r) ==
  /\ d_context[r].d_totalTransferSize = addedData[r]
  /\ d_context[r].d_responseHeaders <=> peer[r].responses = 0
  /\ peer[r].responses \in {0, 1}
  /\ d_context[r].d_peer <=> pending_requests_[r] = "pending"
  /\ d_context[r].d_started <=> loader[r] # "idle"
  /\ d_context[r].d_finished <=> loader[r] = "finished"
  /\ d_context[r].d_waitingForCancelLoad => pending_requests_[r] = "removed"
  /\ d_context[r].d_canceled => pending_requests_[r] = "removed"
  /\ d_context[r].d_canceled => loader[r] # "idle"
  /\ loader[r] = "cancelled" => d_context[r].d_canceled

\* Nothing has happened to a request that has not been started.
Fresh(r) ==
  pending_requests_[r] = "new" =>
    /\ loader[r] = "idle"
    /\ addedData[r] = 0
    /\ running.request # r
    /\ peer[r].responses = 0
    /\ peer[r].data = 0

\* While its request is pending the peer has all the data but what the call on
\* the stack will give it; only a finished load is complete.
Delivers(r) ==
  /\ pending_requests_[r] = "pending" =>
       addedData[r] = peer[r].data + One(call.request = r /\ call.at = "data")
  /\ peer[r].completed # <<>> =>
       loader[r] = "finished" /\ ~(call.request = r /\ call.at = "finish")
  /\ call.request = r =>
       /\ ~d_context[r].d_responseHeaders
       /\ call.at = "data" => Loading(r)
       /\ call.at # "data" => loader[r] = "finished"

\* A task may be in the queue: startLoad while the load has not started, and
\* cancelLoad when the request is removed and the load is not yet canceled.
Due(t) ==
  /\ pending_requests_[t.request] # "new"
  /\ t.fn = "startLoad" => loader[t.request] = "idle"
  /\ t.fn = "cancelLoad" => /\ pending_requests_[t.request] = "removed"
                            /\ d_context[t.request].d_waitingForCancelLoad
                            /\ ~d_context[t.request].d_canceled

\* No task is posted twice, and all are due.
TasksAreOrdered ==
  /\ \A i, j \in 1 .. Len(tasks) : tasks[i] = tasks[j] => i = j
  /\ \A i \in 1 .. Len(tasks) : Due(tasks[i])

\* What CompletionIsFaithful says of one request.
Faithful(r) ==
  peer[r].completed # <<>> =>
    /\ peer[r].completed = <<"OK">> =>
         /\ ~d_context[r].d_failed
         /\ peer[r].data = addedData[r]
         /\ d_context[r].d_totalTransferSize = addedData[r]
    /\ peer[r].completed = <<"ERR_FAILED">> => d_context[r].d_failed

RequestInv(r) == Tracks(r) /\ Fresh(r) /\ Delivers(r) /\ Faithful(r)

\* The inductive invariant.
LoaderInv ==
  /\ TypeOK
  /\ RefCountIsBalanced
  /\ TasksAreOrdered
  /\ \A r \in Request : RequestInv(r)

-----------------------------------------------------------------------------
(* The message loop's queue.                                               *)

Task == [fn : {"startLoad", "cancelLoad"}, request : Request]

\* The number of tasks about r in a queue.
Queued(q, r) == Cardinality({i \in 1 .. Len(q) : q[i].request = r})

\* The application's reference to r's context, between startLoad and the
\* Release in finish.
ApplicationHolds(r) ==
  /\ d_context[r].d_started
  /\ d_context[r].d_finished => call.request = r /\ call.at \in {"finish", "release"}

\* The references again, in these terms.
LEMMA HoldersAre ==
  ASSUME NEW r \in Request
  PROVE  /\ Holders(r) = One(pending_requests_[r] = "pending") + Queued(tasks, r)
                         + One(running.request = r) + One(ApplicationHolds(r))
         /\ Holders(r)' = One(pending_requests_'[r] = "pending") + Queued(tasks', r)
                         + One(running'.request = r) + One(ApplicationHolds(r)')
  BY DEF Holders, Queued, ApplicationHolds, One

\* Posting a task and taking the first one, counted.
LEMMA QueuedFacts ==
  ASSUME NEW q \in Seq(Task), NEW r \in Request
  PROVE  /\ Queued(q, r) \in Nat
         /\ \A t \in Task : Queued(Append(q, t), r) = Queued(q, r) + One(t.request = r)
         /\ q # <<>> => Queued(q, r) = Queued(Tail(q), r) + One(Head(q).request = r)
         /\ (\A i \in 1 .. Len(q) : q[i].request # r) => Queued(q, r) = 0
  <1> DEFINE E == {t \in Task : t.request = r}
  <1>1. ASSUME NEW s \in Seq(Task) PROVE Queued(s, r) = Cardinality(Positions(s, E))
    <2>1. \A i \in 1 .. Len(s) : s[i] \in Task
      BY ElementOfSeq
    <2>2. {i \in 1 .. Len(s) : s[i].request = r} = Positions(s, E)
      BY <2>1 DEF Positions
    <2> QED BY <2>2 DEF Queued
  <1>2. \A t \in Task : t \in E <=> t.request = r
    OBVIOUS
  <1> HIDE DEF E
  <1>3. Queued(q, r) \in Nat
    BY <1>1, PositionCount
  <1>4. ASSUME NEW t \in Task
        PROVE  Queued(Append(q, t), r) = Queued(q, r) + One(t.request = r)
    <2>1. Append(q, t) \in Seq(Task)
      BY AppendProperties
    <2>2. Cardinality(Positions(Append(q, t), E))
            = Cardinality(Positions(q, E)) + (IF t \in E THEN 1 ELSE 0)
      BY PositionCount
    <2> QED BY <1>1, <1>2, <2>1, <2>2 DEF One
  <1>5. ASSUME q # <<>>
        PROVE  Queued(q, r) = Queued(Tail(q), r) + One(Head(q).request = r)
    <2>1. Tail(q) \in Seq(Task) /\ Head(q) \in Task
      BY <1>5, HeadTailProperties
    <2>2. Cardinality(Positions(q, E))
            = Cardinality(Positions(Tail(q), E)) + (IF Head(q) \in E THEN 1 ELSE 0)
      BY <1>5, PositionCount
    <2> QED BY <1>1, <1>2, <2>1, <2>2 DEF One
  <1>6. ASSUME \A i \in 1 .. Len(q) : q[i].request # r PROVE Queued(q, r) = 0
    <2>1. {i \in 1 .. Len(q) : q[i].request = r} = {}
      BY <1>6
    <2> QED BY <2>1, FS_EmptySet DEF Queued
  <1> QED BY <1>3, <1>4, <1>5, <1>6

\* What an appended task and a taken one do to the positions.
LEMMA QueueFacts ==
  ASSUME NEW q \in Seq(Task)
  PROVE  /\ Len(q) \in Nat
         /\ \A i \in 1 .. Len(q) : q[i] \in Task
         /\ \A t \in Task :
              /\ Append(q, t) \in Seq(Task)
              /\ Len(Append(q, t)) = Len(q) + 1
              /\ \A i \in 1 .. Len(q) : Append(q, t)[i] = q[i]
              /\ Append(q, t)[Len(q) + 1] = t
         /\ q # <<>> =>
              /\ Head(q) \in Task /\ Head(q) = q[1] /\ Len(q) >= 1
              /\ Tail(q) \in Seq(Task)
              /\ Len(Tail(q)) = Len(q) - 1
              /\ \A i \in 1 .. Len(Tail(q)) : i + 1 \in 1 .. Len(q) /\ Tail(q)[i] = q[i + 1]
  <1>1. Len(q) \in Nat /\ \A i \in 1 .. Len(q) : q[i] \in Task
    BY LenProperties, ElementOfSeq
  <1>2. ASSUME NEW t \in Task
        PROVE  /\ Append(q, t) \in Seq(Task)
               /\ Len(Append(q, t)) = Len(q) + 1
               /\ \A i \in 1 .. Len(q) : Append(q, t)[i] = q[i]
               /\ Append(q, t)[Len(q) + 1] = t
    BY <1>1, AppendProperties
  <1>3. ASSUME q # <<>>
        PROVE  /\ Head(q) \in Task /\ Head(q) = q[1] /\ Len(q) >= 1
               /\ Tail(q) \in Seq(Task)
               /\ Len(Tail(q)) = Len(q) - 1
               /\ \A i \in 1 .. Len(Tail(q)) :
                    i + 1 \in 1 .. Len(q) /\ Tail(q)[i] = q[i + 1]
    <2>1. /\ Head(q) \in Task /\ Tail(q) \in Seq(Task)
          /\ Len(Tail(q)) = Len(q) - 1
          /\ \A i \in 1 .. Len(Tail(q)) : Tail(q)[i] = q[i + 1]
      BY <1>3, HeadTailProperties
    <2>2. Len(q) >= 1 /\ Head(q) = q[1]
      BY <1>1, <1>3, EmptySeq
    <2> QED BY <1>1, <2>1, <2>2
  <1> QED BY <1>1, <1>2, <1>3

-----------------------------------------------------------------------------
(* The steps.                                                              *)

\* A step that leaves q and its context alone.
Kept(q) ==
  /\ pending_requests_'[q] = pending_requests_[q]
  /\ d_context'[q] = d_context[q]
  /\ loader'[q] = loader[q]
  /\ addedData'[q] = addedData[q]
  /\ peer'[q] = peer[q]
  /\ running'.request = q => running.request = q
  /\ call.request = q \/ call'.request = q => call' = call

\* Such a step keeps what the invariant says of q.
LEMMA KeptRequest ==
  ASSUME NEW q \in Request, Kept(q), RequestInv(q)
  PROVE  RequestInv(q)'
  <1>1. Tracks(q)'
    BY DEF Kept, RequestInv, Tracks
  <1>2. Fresh(q)'
    BY DEF Kept, RequestInv, Fresh
  <1>3. Delivers(q)'
    <2>1. (call.request = q /\ call.at = "data") <=> (call'.request = q /\ call'.at = "data")
      BY DEF Kept
    <2>2. One(call.request = q /\ call.at = "data")
            = One(call'.request = q /\ call'.at = "data")
      BY <2>1 DEF One
    <2> QED BY <2>2 DEF Kept, RequestInv, Delivers, Loading
  <1>4. Faithful(q)'
    BY DEF Kept, RequestInv, Faithful
  <1> QED BY <1>1, <1>2, <1>3, <1>4 DEF RequestInv

\* It keeps the references to q's context unless it posts a task about q.
LEMMA KeptReferences ==
  ASSUME NEW q \in Request, Kept(q), RefCountIsBalanced,
         Queued(tasks, q) \in Nat, Queued(tasks', q) \in Nat,
         Queued(tasks', q) + One(running'.request = q)
           = Queued(tasks, q) + One(running.request = q)
  PROVE  d_context'[q].ref_count = Holders(q)'
  <1>1. ApplicationHolds(q)' <=> ApplicationHolds(q)
    BY Zenon DEF Kept, ApplicationHolds
  <1>2. One(ApplicationHolds(q)') = One(ApplicationHolds(q))
    BY <1>1 DEF One
  <1>3. One(pending_requests_'[q] = "pending") = One(pending_requests_[q] = "pending")
    BY DEF Kept
  <1>4. \A b : One(b) \in Nat
    BY DEF One
  <1> QED BY <1>2, <1>3, <1>4, HoldersAre DEF Kept, RefCountIsBalanced

\* The fields of a context.
LEMMA ContextFields ==
  ASSUME NEW c \in Context
  PROVE  /\ c.ref_count \in Nat
         /\ c.d_totalTransferSize \in Nat
         /\ c.d_peer \in BOOLEAN /\ c.d_responseHeaders \in BOOLEAN
         /\ c.d_started \in BOOLEAN /\ c.d_waitingForCancelLoad \in BOOLEAN
         /\ c.d_canceled \in BOOLEAN /\ c.d_failed \in BOOLEAN
         /\ c.d_finished \in BOOLEAN
  BY DEF Context

\* What disposal and a posted cancelLoad do to a context.
LEMMA ContextChanges ==
  ASSUME NEW c \in Context
  PROVE  /\ CancelPosted(c) \in Context
         /\ CancelPosted(c).ref_count = c.ref_count + 1
         /\ CancelPosted(c).d_responseHeaders = c.d_responseHeaders
         /\ CancelPosted(c).d_totalTransferSize = c.d_totalTransferSize
         /\ CancelPosted(c).d_started = c.d_started
         /\ CancelPosted(c).d_finished = c.d_finished
         /\ CancelPosted(c).d_waitingForCancelLoad
         /\ CancelPosted(c).d_canceled = c.d_canceled
         /\ CancelPosted(c).d_failed = c.d_failed
  <1>1. CancelPosted(c) \in Context
    <2> DEFINE n == c.ref_count + 1
    <2>1. n \in Nat
      BY ContextFields
    <2>2. CancelPosted(c) = [c EXCEPT !.d_waitingForCancelLoad = TRUE, !.ref_count = n]
      BY DEF CancelPosted
    <2> HIDE DEF n
    <2> QED BY <2>1, <2>2 DEF Context
  <1>2. CancelPosted(c).ref_count = c.ref_count + 1
    BY DEF Context, CancelPosted
  <1>3. /\ CancelPosted(c).d_responseHeaders = c.d_responseHeaders
        /\ CancelPosted(c).d_totalTransferSize = c.d_totalTransferSize
        /\ CancelPosted(c).d_started = c.d_started
        /\ CancelPosted(c).d_finished = c.d_finished
        /\ CancelPosted(c).d_canceled = c.d_canceled
        /\ CancelPosted(c).d_failed = c.d_failed
    BY DEF Context, CancelPosted
  <1>4. CancelPosted(c).d_waitingForCancelLoad
    BY DEF Context, CancelPosted
  <1> QED BY <1>1, <1>2, <1>3, <1>4

\* A step that keeps the queue or posts a task.
LEMMA PostedInOrder ==
  ASSUME TypeOK, TasksAreOrdered,
         \A x \in Task : Due(x) => Due(x)',
         \/ tasks' = tasks
         \/ \E t \in Task : /\ tasks' = Append(tasks, t)
                            /\ ~Due(t) /\ Due(t)'
  PROVE  TasksAreOrdered'
  <1>1. tasks \in Seq(Task)
    BY DEF TypeOK, Task
  <1>2. Len(tasks) \in Nat /\ \A i \in 1 .. Len(tasks) : tasks[i] \in Task
    BY <1>1, QueueFacts
  <1>3. CASE tasks' = tasks
    <2>1. \A i \in 1 .. Len(tasks) : \A x \in Task : x = tasks[i] => Due(x)'
      BY DEF TasksAreOrdered
    <2>2. \A i \in 1 .. Len(tasks') : \A x \in Task : x = tasks'[i] => Due(x)'
      BY <1>3, <2>1
    <2>3. \A i \in 1 .. Len(tasks') : Due(tasks[i])'
      BY <1>2, <1>3, <2>2 DEF Due
    <2> QED BY <1>3, <2>3 DEF TasksAreOrdered
  <1>4. ASSUME NEW t \in Task, tasks' = Append(tasks, t), ~Due(t), Due(t)'
        PROVE  TasksAreOrdered'
    <2>1. /\ Len(tasks') = Len(tasks) + 1
          /\ \A i \in 1 .. Len(tasks) : tasks'[i] = tasks[i]
          /\ tasks'[Len(tasks) + 1] = t
      BY <1>1, <1>4, QueueFacts
    <2>2. \A i \in 1 .. Len(tasks') : i \in 1 .. Len(tasks) \/ i = Len(tasks) + 1
      BY <1>2, <2>1
    <2>3. \A i \in 1 .. Len(tasks) : tasks[i] # t
      BY <1>4 DEF TasksAreOrdered
    <2>4. \A i, j \in 1 .. Len(tasks') : tasks'[i] = tasks'[j] => i = j
      BY <2>1, <2>2, <2>3 DEF TasksAreOrdered
    <2>5. ASSUME NEW i \in 1 .. Len(tasks'), NEW x \in Task, x = tasks'[i]
          PROVE  Due(x)'
      <3>1. CASE i \in 1 .. Len(tasks)
        BY <2>1, <2>5, <3>1 DEF TasksAreOrdered
      <3>2. CASE i = Len(tasks) + 1
        BY <1>4, <2>1, <2>5, <3>2
      <3> QED BY <2>2, <3>1, <3>2
    <2>6. \A i \in 1 .. Len(tasks') : tasks'[i] \in Task
      BY <1>2, <1>4, <2>1, <2>2
    <2>7. \A i \in 1 .. Len(tasks') : Due(tasks[i])'
      BY <2>5, <2>6 DEF Due
    <2> QED BY <2>4, <2>7 DEF TasksAreOrdered
  <1> QED BY <1>3, <1>4

\* The context of a request that somebody holds has a reference to give back.
LEMMA HeldOnce ==
  ASSUME LoaderInv, NEW r \in Request,
         \/ pending_requests_[r] = "pending"
         \/ running.request = r
         \/ ApplicationHolds(r)
  PROVE  d_context[r].ref_count - 1 \in Nat
  <1>1. tasks \in Seq(Task)
    BY DEF LoaderInv, TypeOK, Task
  <1>2. Queued(tasks, r) \in Nat
    BY <1>1, QueuedFacts
  <1>3. d_context[r].ref_count
          = One(pending_requests_[r] = "pending") + Queued(tasks, r)
              + One(running.request = r) + One(ApplicationHolds(r))
    BY HoldersAre DEF LoaderInv, RefCountIsBalanced
  <1> QED BY <1>2, <1>3 DEF One

\* The count is balanced again if it changes by as much as its holders do.
LEMMA Rebalanced ==
  ASSUME LoaderInv, NEW r \in Request, NEW k \in Int,
         d_context'[r].ref_count = d_context[r].ref_count + k,
         Queued(tasks', r) \in Nat, Queued(tasks, r) \in Nat,
           One(pending_requests_'[r] = "pending")
             + (Queued(tasks', r) + One(running'.request = r)) + One(ApplicationHolds(r)')
         = One(pending_requests_[r] = "pending")
             + (Queued(tasks, r) + One(running.request = r)) + One(ApplicationHolds(r)) + k
  PROVE  d_context'[r].ref_count = Holders(r)'
  <1>1. d_context[r].ref_count = Holders(r)
    BY DEF LoaderInv, RefCountIsBalanced
  <1>2. \A b : One(b) \in Nat
    BY DEF One
  <1> QED BY <1>1, <1>2, HoldersAre

\* What is left to show of a step that is about one request only.
LEMMA StepOfRequest ==
  ASSUME LoaderInv, TypeOK', TasksAreOrdered', NEW r \in Request,
         RequestInv(r)', d_context'[r].ref_count = Holders(r)',
         \A q \in Request \ {r} :
           /\ Kept(q)
           /\ Queued(tasks', q) + One(running'.request = q)
                = Queued(tasks, q) + One(running.request = q)
  PROVE  LoaderInv'
  <1>1. tasks \in Seq(Task) /\ tasks' \in Seq(Task)
    BY DEF LoaderInv, TypeOK, Task
  <1>2. ASSUME NEW q \in Request
        PROVE  RequestInv(q)' /\ d_context'[q].ref_count = Holders(q)'
    <2>1. CASE q = r
      BY <2>1
    <2>2. CASE q # r
      <3>1. Queued(tasks, q) \in Nat /\ Queued(tasks', q) \in Nat
        BY <1>1, QueuedFacts
      <3> QED BY <2>2, <3>1, KeptRequest, KeptReferences DEF LoaderInv
    <2> QED BY <2>1, <2>2
  <1> QED BY <1>2 DEF LoaderInv, RefCountIsBalanced

\* StartAsync.
LEMMA StartAsyncKeeps ==
  ASSUME LoaderInv, NEW r \in Request, StartAsync(r)
  PROVE  LoaderInv'
  <1> USE DEF StartAsync
  <1> DEFINE c == [NewContext EXCEPT !.d_peer = TRUE, !.ref_count = 2]
             t == [fn |-> "startLoad", request |-> r]
  <1>1. TypeOK /\ RequestInv(r) /\ tasks \in Seq(Task) /\ t \in Task
    BY DEF LoaderInv, TypeOK, Task
  <1>2. /\ d_context'[r] = c /\ c \in Context
        /\ c.ref_count = 2 /\ c.d_peer /\ c.d_responseHeaders
        /\ c.d_totalTransferSize = 0 /\ ~c.d_started /\ ~c.d_finished
        /\ ~c.d_waitingForCancelLoad /\ ~c.d_canceled /\ ~c.d_failed
    BY <1>1 DEF TypeOK, Context, NewContext
  <1> HIDE DEF c
  <1>3. TypeOK'
    <2>1. tasks' \in Seq(Task)
      BY <1>1, QueueFacts
    <2> QED BY <1>1, <1>2, <2>1 DEF TypeOK, Task
  <1>4. ASSUME NEW q \in Request, q # r PROVE Kept(q)
    BY <1>1, <1>4 DEF Kept, TypeOK
  <1>5. \A i \in 1 .. Len(tasks) : tasks[i].request # r
    BY DEF LoaderInv, TasksAreOrdered, Due
  <1>6. TasksAreOrdered'
    <2>1. ASSUME NEW x \in Task, Due(x) PROVE Due(x)'
      <3>1. x.request \in Request /\ x.request # r
        BY <2>1 DEF Due, Task
      <3>2. Kept(x.request)
        BY <1>4, <3>1
      <3> QED BY <2>1, <3>2 DEF Due, Kept
    <2>2. ~Due(t)
      BY DEF Due
    <2>3. Due(t)'
      BY <1>1 DEF Due, TypeOK, RequestInv, Fresh
    <2> QED BY <1>1, <2>1, <2>2, <2>3, PostedInOrder DEF LoaderInv
  <1>7. RequestInv(r)'
    <2>1. call.request # r
      BY <1>1, <1>2 DEF RequestInv, Delivers, Fresh, Loading
    <2>2. /\ pending_requests_'[r] = "pending" /\ loader'[r] = "idle"
          /\ addedData'[r] = 0 /\ peer'[r].responses = 0 /\ peer'[r].data = 0
          /\ peer'[r].completed = <<>> /\ call' = call
      BY <1>1 DEF TypeOK, RequestInv, Fresh, Delivers
    <2>3. Tracks(r)'
      BY Zenon, <1>2, <2>2 DEF Tracks
    <2>4. Fresh(r)' /\ Faithful(r)'
      BY <2>2 DEF Fresh, Faithful
    <2>5. Delivers(r)'
      BY <2>1, <2>2 DEF Delivers, One
    <2> QED BY <2>3, <2>4, <2>5 DEF RequestInv
  <1>8. d_context'[r].ref_count = Holders(r)'
    <2>1. Queued(tasks, r) = 0 /\ Queued(tasks', r) = Queued(tasks, r) + One(t.request = r)
      BY <1>1, <1>5, QueuedFacts
    <2>2. /\ ~ApplicationHolds(r)' /\ running'.request # r
          /\ pending_requests_'[r] = "pending"
      BY <1>1, <1>2 DEF ApplicationHolds, RequestInv, Fresh, TypeOK
    <2> QED BY <1>2, <2>1, <2>2, HoldersAre DEF One
  <1>9. ASSUME NEW q \in Request, q # r
        PROVE  Queued(tasks', q) + One(running'.request = q)
                 = Queued(tasks, q) + One(running.request = q)
    <2>1. Queued(tasks, q) \in Nat
          /\ Queued(tasks', q) = Queued(tasks, q) + One(t.request = q)
      BY <1>1, QueuedFacts
    <2> QED BY <1>9, <2>1 DEF One
  <1> QED BY <1>3, <1>4, <1>6, <1>7, <1>8, <1>9, StepOfRequest

\* RemovePendingRequest.
LEMMA RemovePendingRequestKeeps ==
  ASSUME LoaderInv, NEW r \in Request, RemovePendingRequest(r)
  PROVE  LoaderInv'
  <1> USE DEF RemovePendingRequest
  <1> DEFINE c == Disposed(d_context[r])
  <1>1. TypeOK /\ RequestInv(r) /\ d_context[r] \in Context
    BY DEF LoaderInv, TypeOK
  <1>2. d_context[r].ref_count - 1 \in Nat
    BY HeldOnce
  <1>3. /\ d_context'[r] = c /\ c \in Context
        /\ c.ref_count = d_context[r].ref_count - 1 /\ ~c.d_peer
        /\ c.d_responseHeaders = d_context[r].d_responseHeaders
        /\ c.d_totalTransferSize = d_context[r].d_totalTransferSize
        /\ c.d_started = d_context[r].d_started
        /\ c.d_finished = d_context[r].d_finished
        /\ c.d_waitingForCancelLoad = d_context[r].d_waitingForCancelLoad
        /\ c.d_canceled = d_context[r].d_canceled
        /\ c.d_failed = d_context[r].d_failed
    BY <1>1, <1>2 DEF TypeOK, Context, Disposed
  <1> HIDE DEF c
  <1>4. TypeOK'
    BY <1>1, <1>3 DEF TypeOK
  <1>5. ASSUME NEW q \in Request, q # r PROVE Kept(q)
    BY <1>1, <1>5 DEF Kept, TypeOK
  <1>6. pending_requests_'[r] = "removed"
    BY <1>1 DEF TypeOK
  <1>7. TasksAreOrdered'
    <2>1. ASSUME NEW x \in Task, Due(x) PROVE Due(x)'
      <3>1. CASE x.request = r
        BY <1>3, <1>6, <2>1, <3>1 DEF Due
      <3>2. CASE x.request # r
        <4>1. Kept(x.request)
          BY <1>5, <3>2 DEF Task
        <4> QED BY <2>1, <4>1 DEF Due, Kept
      <3> QED BY <3>1, <3>2
    <2> QED BY <2>1, PostedInOrder DEF LoaderInv
  <1>8. RequestInv(r)'
    <2>1. Tracks(r)'
      BY Zenon, <1>1, <1>3, <1>6 DEF Tracks, RequestInv
    <2>2. Fresh(r)' /\ Faithful(r)'
      BY <1>1, <1>3, <1>6 DEF Fresh, Faithful, RequestInv
    <2>3. Delivers(r)'
      BY <1>1, <1>3, <1>6 DEF Delivers, RequestInv, Loading
    <2> QED BY <2>1, <2>2, <2>3 DEF RequestInv
  <1>9. d_context'[r].ref_count = Holders(r)'
    <2>1. ApplicationHolds(r)' <=> ApplicationHolds(r)
      BY Zenon, <1>3 DEF ApplicationHolds
    <2>2. tasks \in Seq(Task)
      BY <1>1 DEF TypeOK, Task
    <2>3. Queued(tasks, r) \in Nat
      BY <2>2, QueuedFacts
    <2>4. d_context[r].ref_count = Holders(r)
      BY DEF LoaderInv, RefCountIsBalanced
    <2> QED BY <1>3, <1>6, <2>1, <2>3, <2>4, HoldersAre DEF One
  <1> QED BY <1>4, <1>5, <1>7, <1>8, <1>9, StepOfRequest

\* Cancel.  The request is pending, so nobody has canceled it before and
\* cancelLoad is always posted.
LEMMA CancelKeeps ==
  ASSUME LoaderInv, NEW r \in Request, Cancel(r)
  PROVE  LoaderInv'
  <1> DEFINE d == CancelPosted(d_context[r])
             c == Disposed(d)
             t == [fn |-> "cancelLoad", request |-> r]
  <1>1. /\ TypeOK /\ RequestInv(r) /\ d_context[r] \in Context
        /\ tasks \in Seq(Task) /\ t \in Task
    BY DEF LoaderInv, TypeOK, Task
  <1>2. pending_requests_[r] = "pending" /\ ~CancelIsIgnored(d_context[r])
    BY <1>1 DEF Cancel, CancelIsIgnored, RequestInv, Tracks
  <1>3. /\ pending_requests_' = [pending_requests_ EXCEPT ![r] = "removed"]
        /\ d_context' = [d_context EXCEPT ![r] = c]
        /\ tasks' = Append(tasks, t)
        /\ UNCHANGED <<running, call, loader, addedData, peer>>
    BY <1>2 DEF Cancel
  <1>4. /\ d_context'[r] = c /\ c \in Context
        /\ c.ref_count = d_context[r].ref_count /\ ~c.d_peer
        /\ c.d_responseHeaders = d_context[r].d_responseHeaders
        /\ c.d_totalTransferSize = d_context[r].d_totalTransferSize
        /\ c.d_started = d_context[r].d_started
        /\ c.d_finished = d_context[r].d_finished
        /\ c.d_waitingForCancelLoad
        /\ c.d_canceled = d_context[r].d_canceled
        /\ c.d_failed = d_context[r].d_failed
    <2>1. /\ d \in Context /\ d.ref_count = d_context[r].ref_count + 1
          /\ d.d_responseHeaders = d_context[r].d_responseHeaders
          /\ d.d_totalTransferSize = d_context[r].d_totalTransferSize
          /\ d.d_started = d_context[r].d_started
          /\ d.d_finished = d_context[r].d_finished
          /\ d.d_waitingForCancelLoad
          /\ d.d_canceled = d_context[r].d_canceled
          /\ d.d_failed = d_context[r].d_failed
      BY <1>1, ContextChanges
    <2> HIDE DEF d
    <2>2. d_context[r].ref_count \in Nat /\ d.ref_count - 1 = d_context[r].ref_count
      BY <1>1, <2>1, ContextFields
    <2>3. d_context'[r] = c
      BY <1>1, <1>3 DEF TypeOK
    <2> QED BY <2>1, <2>2, <2>3 DEF Disposed, Context
  <1> HIDE DEF c
  <1>5. TypeOK'
    <2>1. tasks' \in Seq(Task)
      BY <1>1, <1>3, QueueFacts
    <2> QED BY <1>1, <1>3, <1>4, <2>1 DEF TypeOK, Task
  <1>6. ASSUME NEW q \in Request, q # r PROVE Kept(q)
    BY <1>1, <1>3, <1>6 DEF Kept, TypeOK
  <1>7. pending_requests_'[r] = "removed"
    BY <1>1, <1>3 DEF TypeOK
  <1>8. TasksAreOrdered'
    <2>1. ASSUME NEW x \in Task, Due(x) PROVE Due(x)'
      <3>1. CASE x.request = r
        BY <1>2, <1>3, <1>7, <2>1, <3>1 DEF Due
      <3>2. CASE x.request # r
        <4>1. Kept(x.request)
          BY <1>6, <3>2 DEF Task
        <4> QED BY <2>1, <4>1 DEF Due, Kept
      <3> QED BY <3>1, <3>2
    <2>2. ~Due(t)
      BY <1>2 DEF Due
    <2>3. Due(t)'
      BY <1>2, <1>4, <1>7 DEF Due, CancelIsIgnored
    <2> QED BY <1>1, <1>3, <2>1, <2>2, <2>3, PostedInOrder DEF LoaderInv
  <1>9. RequestInv(r)'
    <2>1. Tracks(r)'
      BY Zenon, <1>1, <1>3, <1>4, <1>7 DEF Tracks, RequestInv
    <2>2. Fresh(r)' /\ Faithful(r)'
      BY <1>1, <1>3, <1>4, <1>7 DEF Fresh, Faithful, RequestInv
    <2>3. Delivers(r)'
      BY <1>1, <1>3, <1>4, <1>7 DEF Delivers, RequestInv, Loading
    <2> QED BY <2>1, <2>2, <2>3 DEF RequestInv
  <1>10. d_context'[r].ref_count = Holders(r)'
    <2>1. ApplicationHolds(r)' <=> ApplicationHolds(r)
      BY Zenon, <1>3, <1>4 DEF ApplicationHolds
    <2>2. /\ Queued(tasks, r) \in Nat
          /\ Queued(tasks', r) = Queued(tasks, r) + One(t.request = r)
      BY <1>1, <1>3, QueuedFacts
    <2>3. d_context[r].ref_count = Holders(r)
      BY DEF LoaderInv, RefCountIsBalanced
    <2> QED BY <1>2, <1>3, <1>4, <1>7, <2>1, <2>2, <2>3, HoldersAre DEF One
  <1>11. ASSUME NEW q \in Request, q # r
         PROVE  Queued(tasks', q) + One(running'.request = q)
                  = Queued(tasks, q) + One(running.request = q)
    <2>1. Queued(tasks, q) \in Nat
          /\ Queued(tasks', q) = Queued(tasks, q) + One(t.request = q)
      BY <1>1, <1>3, QueuedFacts
    <2> QED BY <1>3, <1>11, <2>1 DEF One
  <1> QED BY <1>5, <1>6, <1>8, <1>9, <1>10, <1>11, StepOfRequest

\* Running a task moves it from the queue to the stack, and with it the
\* reference it holds.
LEMMA RunTaskFacts ==
  ASSUME LoaderInv, NEW fn, RunTask(fn)
  PROVE  /\ tasks \in Seq(Task) /\ tasks # <<>> /\ Head(tasks) \in Task
         /\ Head(tasks).fn = fn /\ Head(tasks).request \in Request
         /\ running.request \notin Request /\ call = NoCall
         /\ running' \in Task /\ tasks' \in Seq(Task)
         /\ Due(Head(tasks))
         /\ \A q \in Request :
              /\ Queued(tasks, q) \in Nat /\ Queued(tasks', q) \in Nat
              /\ Queued(tasks', q) + One(running'.request = q)
                   = Queued(tasks, q) + One(running.request = q)
         /\ \A i \in 1 .. Len(tasks') :
              i + 1 \in 1 .. Len(tasks) /\ tasks'[i] = tasks[i + 1]
                /\ tasks'[i] \in Task /\ tasks'[i] # Head(tasks)
         /\ \A i, j \in 1 .. Len(tasks') : tasks'[i] = tasks'[j] => i = j
  <1>1. /\ tasks \in Seq(Task) /\ tasks # <<>> /\ running = NoTask /\ call = NoCall
        /\ running' = Head(tasks) /\ tasks' = Tail(tasks) /\ Head(tasks).fn = fn
    BY DEF LoaderInv, TypeOK, Task, RunTask
  <1>2. /\ Len(tasks) \in Nat
        /\ Head(tasks) \in Task /\ Head(tasks) = tasks[1] /\ Len(tasks) >= 1
        /\ Tail(tasks) \in Seq(Task)
        /\ Len(Tail(tasks)) = Len(tasks) - 1
        /\ \A i \in 1 .. Len(Tail(tasks)) :
             i + 1 \in 1 .. Len(tasks) /\ Tail(tasks)[i] = tasks[i + 1]
        /\ \A i \in 1 .. Len(tasks) : tasks[i] \in Task
    BY <1>1, QueueFacts
  <1>3. running.request \notin Request /\ Head(tasks).request \in Request
    BY <1>1, <1>2, RequestAssumption DEF NoTask, Task
  <1>4. Due(Head(tasks))
    <2>1. 1 \in 1 .. Len(tasks)
      BY <1>2
    <2> QED BY <1>1, <1>2, <2>1 DEF LoaderInv, TasksAreOrdered
  <1>5. ASSUME NEW q \in Request
        PROVE  /\ Queued(tasks, q) \in Nat /\ Queued(tasks', q) \in Nat
               /\ Queued(tasks', q) + One(running'.request = q)
                    = Queued(tasks, q) + One(running.request = q)
    <2>1. /\ Queued(tasks, q) \in Nat /\ Queued(tasks', q) \in Nat
          /\ Queued(tasks, q) = Queued(tasks', q) + One(Head(tasks).request = q)
      BY <1>1, <1>2, QueuedFacts
    <2> QED BY <1>1, <1>3, <2>1 DEF One
  <1>6. ASSUME NEW i \in 1 .. Len(tasks')
        PROVE  i + 1 \in 1 .. Len(tasks) /\ tasks'[i] = tasks[i + 1]
                 /\ tasks'[i] \in Task /\ tasks'[i] # Head(tasks)
    <2>1. i + 1 \in 1 .. Len(tasks) /\ tasks'[i] = tasks[i + 1] /\ tasks'[i] \in Task
      BY <1>1, <1>2
    <2>2. 1 \in 1 .. Len(tasks) /\ i + 1 # 1
      BY <1>2
    <2> QED BY <1>2, <2>1, <2>2 DEF LoaderInv, TasksAreOrdered
  <1>7. ASSUME NEW i \in 1 .. Len(tasks'), NEW j \in 1 .. Len(tasks'), tasks'[i] = tasks'[j]
        PROVE  i = j
    <2>1. i + 1 = j + 1
      BY <1>6, <1>7 DEF LoaderInv, TasksAreOrdered
    <2> QED BY <2>1
  <1> QED BY <1>1, <1>2, <1>3, <1>4, <1>5, <1>6, <1>7

\* The tasks left in the queue stay in order if they stay due.
LEMMA RunInOrder ==
  ASSUME LoaderInv, NEW fn, RunTask(fn),
         \A x \in Task : Due(x) /\ x # Head(tasks) => Due(x)'
  PROVE  TasksAreOrdered'
  <1>1. \A i \in 1 .. Len(tasks') :
          i + 1 \in 1 .. Len(tasks) /\ tasks'[i] = tasks[i + 1]
            /\ tasks'[i] \in Task /\ tasks'[i] # Head(tasks)
    BY RunTaskFacts
  <1>2. \A i, j \in 1 .. Len(tasks') : tasks'[i] = tasks'[j] => i = j
    BY RunTaskFacts
  <1>3. \A i \in 1 .. Len(tasks') : \A x \in Task : x = tasks'[i] => Due(x)'
    BY <1>1 DEF LoaderInv, TasksAreOrdered
  <1>4. \A i \in 1 .. Len(tasks') : Due(tasks[i])'
    BY <1>1, <1>3 DEF Due
  <1> QED BY <1>2, <1>4 DEF TasksAreOrdered

\* A task that runs and changes nothing.
LEMMA RunOnlyKeeps ==
  ASSUME LoaderInv, NEW fn, RunTask(fn), NEW r \in Request, r = Head(tasks).request,
         UNCHANGED <<pending_requests_, d_context, call, loader, addedData, peer>>
  PROVE  LoaderInv'
  <1>1. /\ running.request \notin Request /\ call = NoCall
        /\ running' = Head(tasks) /\ tasks' \in Seq(Task) /\ running' \in Task
        /\ Due(Head(tasks))
        /\ \A q \in Request :
             /\ Queued(tasks, q) \in Nat /\ Queued(tasks', q) \in Nat
             /\ Queued(tasks', q) + One(running'.request = q)
                  = Queued(tasks, q) + One(running.request = q)
    BY RunTaskFacts DEF RunTask
  <1>2. TypeOK /\ RequestInv(r) /\ pending_requests_[r] # "new"
    BY <1>1 DEF LoaderInv, Due
  <1>3. \A q \in Request \ {r} : Kept(q)
    BY <1>1 DEF Kept
  <1>4. TypeOK'
    BY <1>1, <1>2 DEF TypeOK, Task
  <1>5. TasksAreOrdered'
    <2>1. \A x \in Task : Due(x) => Due(x)'
      BY DEF Due
    <2> QED BY <2>1, RunInOrder
  <1>6. RequestInv(r)'
    BY <1>2 DEF RequestInv, Tracks, Fresh, Delivers, Faithful, Loading
  <1>7. d_context'[r].ref_count = Holders(r)'
    <2>1. ApplicationHolds(r)' <=> ApplicationHolds(r)
      BY DEF ApplicationHolds
    <2>2. One(ApplicationHolds(r)') = One(ApplicationHolds(r))
      BY <2>1 DEF One
    <2>3.  One(pending_requests_'[r] = "pending")
             + (Queued(tasks', r) + One(running'.request = r)) + One(ApplicationHolds(r)')
         = One(pending_requests_[r] = "pending")
             + (Queued(tasks, r) + One(running.request = r)) + One(ApplicationHolds(r)) + 0
      <3>1. /\ Queued(tasks', r) + One(running'.request = r)
                 = Queued(tasks, r) + One(running.request = r)
            /\ Queued(tasks, r) \in Nat
        BY <1>1
      <3> QED BY <2>2, <3>1 DEF One
    <2>4. d_context'[r].ref_count = d_context[r].ref_count + 0
      <3>1. d_context[r] \in Context
        BY <1>2 DEF TypeOK
      <3>2. d_context[r].ref_count \in Nat
        BY <3>1, ContextFields
      <3> QED BY <3>2
    <2>5. Queued(tasks, r) \in Nat /\ Queued(tasks', r) \in Nat /\ 0 \in Int
      BY <1>1
    <2> QED BY Zenon, <2>3, <2>4, <2>5, Rebalanced
  <1> QED BY <1>1, <1>3, <1>4, <1>5, <1>6, <1>7, StepOfRequest

\* startLoad.
LEMMA StartLoadKeeps ==
  ASSUME LoaderInv, startLoad, NEW r \in Request, r = Head(tasks).request
  PROVE  LoaderInv'
  <1> DEFINE d == d_context[r]
             c == [d EXCEPT !.d_started = TRUE, !.ref_count = d.ref_count + 1]
  <1>1. /\ running.request \notin Request /\ call = NoCall
        /\ running' = Head(tasks) /\ tasks' \in Seq(Task) /\ running' \in Task
        /\ Due(Head(tasks)) /\ Head(tasks).fn = "startLoad"
        /\ \A q \in Request :
             /\ Queued(tasks, q) \in Nat /\ Queued(tasks', q) \in Nat
             /\ Queued(tasks', q) + One(running'.request = q)
                  = Queued(tasks, q) + One(running.request = q)
    BY RunTaskFacts DEF startLoad, RunTask
  <1>2. /\ TypeOK /\ RequestInv(r) /\ d \in Context
        /\ pending_requests_' = pending_requests_ /\ call' = call
        /\ addedData' = addedData /\ peer' = peer
    BY <1>1 DEF LoaderInv, TypeOK, startLoad
  <1>3. loader[r] = "idle" /\ pending_requests_[r] # "new" /\ call.request # r
    BY <1>1, RequestAssumption DEF Due, NoCall
  <1>4. ASSUME NEW q \in Request, q # r,
               d_context'[q] = d_context[q], loader'[q] = loader[q]
        PROVE  Kept(q)
    BY <1>1, <1>2, <1>4, RequestAssumption DEF Kept, NoCall
  <1>5. CASE d.d_waitingForCancelLoad
    <2>1. d_context' = d_context /\ loader' = loader
      BY <1>5 DEF startLoad
    <2> QED BY <1>2, <2>1, RunOnlyKeeps DEF startLoad
  <1>6. CASE ~d.d_waitingForCancelLoad
    <2>1. d_context' = [d_context EXCEPT ![r] = c] /\ loader' = [loader EXCEPT ![r] = "loading"]
      BY <1>6 DEF startLoad
    <2>2. /\ d_context'[r] = c /\ c \in Context /\ loader'[r] = "loading"
          /\ c.ref_count = d.ref_count + 1
          /\ c.d_peer = d.d_peer /\ c.d_responseHeaders = d.d_responseHeaders
          /\ c.d_totalTransferSize = d.d_totalTransferSize
          /\ c.d_started /\ c.d_finished = d.d_finished
          /\ c.d_waitingForCancelLoad = d.d_waitingForCancelLoad
          /\ c.d_canceled = d.d_canceled /\ c.d_failed = d.d_failed
      <3> DEFINE n == d.ref_count + 1
      <3>1. n \in Nat
        BY <1>2, ContextFields
      <3> HIDE DEF n, d
      <3>2. /\ d_context'[r] = c /\ loader'[r] = "loading"
        BY <1>1, <1>2, <2>1 DEF TypeOK
      <3>3. c \in Context /\ c.ref_count = n
        BY <1>2, <3>1 DEF Context, n
      <3>4. c.d_started
        BY <1>2 DEF Context
      <3>5. /\ c.d_peer = d.d_peer /\ c.d_responseHeaders = d.d_responseHeaders
            /\ c.d_totalTransferSize = d.d_totalTransferSize
            /\ c.d_finished = d.d_finished
            /\ c.d_waitingForCancelLoad = d.d_waitingForCancelLoad
            /\ c.d_canceled = d.d_canceled /\ c.d_failed = d.d_failed
        BY <1>2 DEF Context
      <3> QED BY <3>2, <3>3, <3>4, <3>5 DEF n
    <2> HIDE DEF c
    <2>3. TypeOK'
      BY <1>1, <1>2, <2>1, <2>2 DEF TypeOK, Task
    <2>4. \A q \in Request \ {r} : d_context'[q] = d_context[q] /\ loader'[q] = loader[q]
      BY <1>2, <2>1 DEF TypeOK
    <2>5. TasksAreOrdered'
      <3>1. ASSUME NEW x \in Task, Due(x), x # Head(tasks) PROVE Due(x)'
        <4>1. CASE x.request = r
          <5>1. x.fn # "startLoad"
            <6>1. Head(tasks) \in Task
              BY RunTaskFacts DEF startLoad
            <6>2. x.fn = Head(tasks).fn /\ x.request = Head(tasks).request => x = Head(tasks)
              BY <6>1 DEF Task
            <6> QED BY <1>1, <3>1, <4>1, <6>2
          <5>2. x.fn = "cancelLoad"
            BY <5>1 DEF Task
          <5> QED BY <1>6, <3>1, <4>1, <5>2 DEF Due
        <4>2. CASE x.request # r
          <5>1. x.request \in Request \ {r}
            BY <4>2 DEF Task
          <5> QED BY <1>2, <2>4, <3>1, <5>1 DEF Due
        <4> QED BY <4>1, <4>2
      <3> QED BY <3>1, RunInOrder DEF startLoad
    <2>6. RequestInv(r)'
      <3>1. Tracks(r)'
        BY Zenon, <1>2, <1>3, <2>2 DEF RequestInv, Tracks
      <3>2. Fresh(r)'
        BY <1>2, <1>3 DEF Fresh
      <3>3. Faithful(r)'
        BY <1>2, <2>2 DEF RequestInv, Faithful
      <3>4. Delivers(r)'
        BY <1>2, <1>3, <2>2 DEF RequestInv, Delivers
      <3> QED BY <3>1, <3>2, <3>3, <3>4 DEF RequestInv
    <2>7. d_context'[r].ref_count = Holders(r)'
      <3>1. ApplicationHolds(r)'
        BY <1>2, <1>3, <2>2 DEF ApplicationHolds, RequestInv, Tracks
      <3>2. ~ApplicationHolds(r)
        BY <1>2, <1>3 DEF ApplicationHolds, RequestInv, Tracks
      <3>3. d_context[r].ref_count = Holders(r)
        BY <1>1 DEF LoaderInv, RefCountIsBalanced
      <3>4. One(ApplicationHolds(r)') = 1 /\ One(ApplicationHolds(r)) = 0
        BY <3>1, <3>2 DEF One
      <3>5. \A b : One(b) \in Nat
        BY DEF One
      <3> QED BY <1>1, <1>2, <2>2, <3>3, <3>4, <3>5, HoldersAre
    <2> QED BY <1>1, <1>4, <2>3, <2>4, <2>5, <2>6, <2>7, StepOfRequest
  <1> QED BY <1>5, <1>6

\* cancelLoad.  The request is gone, so there is no peer to be told.
LEMMA CancelLoadKeeps ==
  ASSUME LoaderInv, cancelLoad, NEW r \in Request, r = Head(tasks).request
  PROVE  LoaderInv'
  <1> DEFINE d == d_context[r]
             c == [d EXCEPT !.d_waitingForCancelLoad = FALSE, !.d_canceled = TRUE]
  <1>1. /\ running.request \notin Request /\ call = NoCall
        /\ running' = Head(tasks) /\ tasks' \in Seq(Task) /\ running' \in Task
        /\ Due(Head(tasks)) /\ Head(tasks).fn = "cancelLoad"
        /\ \A q \in Request :
             /\ Queued(tasks, q) \in Nat /\ Queued(tasks', q) \in Nat
             /\ Queued(tasks', q) + One(running'.request = q)
                  = Queued(tasks, q) + One(running.request = q)
    BY RunTaskFacts DEF cancelLoad, RunTask
  <1>2. /\ TypeOK /\ RequestInv(r) /\ d \in Context
        /\ pending_requests_' = pending_requests_ /\ call' = call
        /\ addedData' = addedData
    BY <1>1 DEF LoaderInv, TypeOK, cancelLoad
  <1>3. pending_requests_[r] = "removed" /\ call.request # r
    BY <1>1, RequestAssumption DEF Due, NoCall
  <1>4. peer' = peer
    <2>1. ~d_context[r].d_peer
      BY <1>2, <1>3 DEF RequestInv, Tracks
    <2> QED BY <2>1 DEF cancelLoad, Complete
  <1>5. ASSUME NEW q \in Request, q # r,
               d_context'[q] = d_context[q], loader'[q] = loader[q]
        PROVE  Kept(q)
    BY <1>1, <1>2, <1>4, <1>5, RequestAssumption DEF Kept, NoCall
  <1>6. CASE ~d.d_started \/ d.d_finished
    <2>1. d_context' = d_context /\ loader' = loader
      BY <1>6 DEF cancelLoad
    <2> QED BY <1>2, <1>4, <2>1, RunOnlyKeeps DEF cancelLoad
  <1>7. CASE ~(~d.d_started \/ d.d_finished)
    <2>1. /\ d_context' = [d_context EXCEPT ![r] = c]
          /\ loader' = [loader EXCEPT ![r] = "cancelled"]
      BY <1>7 DEF cancelLoad
    <2>2. /\ d_context'[r] = c /\ c \in Context /\ loader'[r] = "cancelled"
          /\ c.ref_count = d.ref_count
          /\ c.d_peer = d.d_peer /\ c.d_responseHeaders = d.d_responseHeaders
          /\ c.d_totalTransferSize = d.d_totalTransferSize
          /\ c.d_started = d.d_started /\ c.d_finished = d.d_finished
          /\ ~c.d_waitingForCancelLoad /\ c.d_canceled /\ c.d_failed = d.d_failed
      <3> HIDE DEF d
      <3>1. d_context'[r] = c /\ loader'[r] = "cancelled"
        BY <1>2, <2>1 DEF TypeOK
      <3>2. c \in Context
        BY <1>2 DEF Context
      <3>3. ~c.d_waitingForCancelLoad /\ c.d_canceled
        BY <1>2 DEF Context
      <3>4. /\ c.ref_count = d.ref_count
            /\ c.d_peer = d.d_peer /\ c.d_responseHeaders = d.d_responseHeaders
            /\ c.d_totalTransferSize = d.d_totalTransferSize
            /\ c.d_started = d.d_started /\ c.d_finished = d.d_finished
            /\ c.d_failed = d.d_failed
        BY <1>2 DEF Context
      <3> QED BY <3>1, <3>2, <3>3, <3>4
    <2> HIDE DEF c
    <2>3. TypeOK'
      BY <1>1, <1>2, <1>4, <2>1, <2>2 DEF TypeOK, Task
    <2>4. \A q \in Request \ {r} : d_context'[q] = d_context[q] /\ loader'[q] = loader[q]
      BY <1>2, <2>1 DEF TypeOK
    <2>5. loader[r] # "idle" /\ loader[r] # "finished"
      BY <1>2, <1>7 DEF RequestInv, Tracks
    <2>6. TasksAreOrdered'
      <3>1. ASSUME NEW x \in Task, Due(x), x # Head(tasks) PROVE Due(x)'
        <4>1. CASE x.request = r
          <5>1. x.fn # "cancelLoad"
            <6>1. Head(tasks) \in Task
              BY RunTaskFacts DEF cancelLoad
            <6>2. x.fn = Head(tasks).fn /\ x.request = Head(tasks).request => x = Head(tasks)
              BY <6>1 DEF Task
            <6> QED BY <1>1, <3>1, <4>1, <6>2
          <5>2. x.fn = "startLoad"
            BY <5>1 DEF Task
          <5> QED BY <2>5, <3>1, <4>1, <5>2 DEF Due
        <4>2. CASE x.request # r
          <5>1. x.request \in Request \ {r}
            BY <4>2 DEF Task
          <5> QED BY <1>2, <2>4, <3>1, <5>1 DEF Due
        <4> QED BY <4>1, <4>2
      <3> QED BY <3>1, RunInOrder DEF cancelLoad
    <2>7. RequestInv(r)'
      <3>1. Tracks(r)'
        BY Zenon, <1>2, <1>3, <1>4, <2>2, <2>5 DEF RequestInv, Tracks
      <3>2. Fresh(r)'
        BY <1>2, <1>3 DEF Fresh
      <3>3. Faithful(r)'
        BY <1>2, <1>4, <2>2 DEF RequestInv, Faithful
      <3>4. Delivers(r)'
        BY <1>2, <1>3, <1>4, <2>2, <2>5 DEF RequestInv, Delivers
      <3> QED BY <3>1, <3>2, <3>3, <3>4 DEF RequestInv
    <2>8. d_context'[r].ref_count = Holders(r)'
      <3>1. ApplicationHolds(r)' <=> ApplicationHolds(r)
        BY Zenon, <1>2, <2>2 DEF ApplicationHolds
      <3>2. One(ApplicationHolds(r)') = One(ApplicationHolds(r))
        BY <3>1 DEF One
      <3>3.  One(pending_requests_'[r] = "pending")
               + (Queued(tasks', r) + One(running'.request = r)) + One(ApplicationHolds(r)')
           = One(pending_requests_[r] = "pending")
               + (Queued(tasks, r) + One(running.request = r)) + One(ApplicationHolds(r)) + 0
        <4>1. /\ Queued(tasks', r) + One(running'.request = r)
                   = Queued(tasks, r) + One(running.request = r)
              /\ Queued(tasks, r) \in Nat
          BY <1>1
        <4> QED BY <1>2, <3>2, <4>1 DEF One
      <3>4. d_context'[r].ref_count = d_context[r].ref_count + 0
        BY <1>2, <2>2, ContextFields
      <3> QED BY <1>1, <3>3, <3>4, Rebalanced
    <2> QED BY <1>1, <1>5, <2>3, <2>4, <2>6, <2>7, <2>8, StepOfRequest
  <1> QED BY <1>6, <1>7

\* The task returns.
LEMMA TaskReturnsKeeps ==
  ASSUME LoaderInv, TaskReturns, NEW r \in Request, r = running.request
  PROVE  LoaderInv'
  <1> DEFINE d == d_context[r]
             n == d.ref_count - 1
             c == [d EXCEPT !.ref_count = n]
  <1>1. /\ TypeOK /\ RequestInv(r) /\ d \in Context /\ tasks \in Seq(Task)
        /\ running' = NoTask /\ call = NoCall /\ call' = call
        /\ UNCHANGED <<pending_requests_, tasks, loader, addedData, peer>>
        /\ d_context' = [d_context EXCEPT ![r] = c]
    BY DEF LoaderInv, TypeOK, TaskReturns, Task
  <1>2. n \in Nat
    BY HeldOnce
  <1>3. /\ d_context'[r] = c /\ c \in Context /\ c.ref_count = n
        /\ c.d_peer = d.d_peer /\ c.d_responseHeaders = d.d_responseHeaders
        /\ c.d_totalTransferSize = d.d_totalTransferSize
        /\ c.d_started = d.d_started /\ c.d_finished = d.d_finished
        /\ c.d_waitingForCancelLoad = d.d_waitingForCancelLoad
        /\ c.d_canceled = d.d_canceled /\ c.d_failed = d.d_failed
    <2> HIDE DEF n, d
    <2>1. d_context'[r] = c
      BY <1>1 DEF TypeOK
    <2>2. c \in Context /\ c.ref_count = n
      BY <1>1, <1>2 DEF Context
    <2>3. /\ c.d_peer = d.d_peer /\ c.d_responseHeaders = d.d_responseHeaders
          /\ c.d_totalTransferSize = d.d_totalTransferSize
          /\ c.d_started = d.d_started /\ c.d_finished = d.d_finished
          /\ c.d_waitingForCancelLoad = d.d_waitingForCancelLoad
          /\ c.d_canceled = d.d_canceled /\ c.d_failed = d.d_failed
      BY <1>1 DEF Context
    <2> QED BY <2>1, <2>2, <2>3
  <1> HIDE DEF c
  <1>4. running'.request \notin Request
    BY <1>1, RequestAssumption DEF NoTask
  <1>5. TypeOK'
    BY <1>1, <1>3 DEF TypeOK
  <1>6. ASSUME NEW q \in Request, q # r PROVE Kept(q)
    BY <1>1, <1>4, <1>6 DEF Kept, TypeOK
  <1>7. TasksAreOrdered'
    <2>1. \A q \in Request :
            /\ d_context'[q].d_waitingForCancelLoad = d_context[q].d_waitingForCancelLoad
            /\ d_context'[q].d_canceled = d_context[q].d_canceled
      BY <1>3, <1>6 DEF Kept
    <2>2. ASSUME NEW x \in Task, Due(x) PROVE Due(x)'
      <3>1. x.request \in Request
        BY DEF Task
      <3> QED BY <1>1, <2>1, <2>2, <3>1 DEF Due
    <2> QED BY <1>1, <2>2, PostedInOrder DEF LoaderInv
  <1>8. RequestInv(r)'
    <2>1. Tracks(r)'
      BY Zenon, <1>1, <1>3 DEF RequestInv, Tracks
    <2>2. Fresh(r)'
      BY <1>1 DEF RequestInv, Fresh
    <2>3. Faithful(r)'
      BY <1>1, <1>3 DEF RequestInv, Faithful
    <2>4. Delivers(r)'
      BY <1>1, <1>3 DEF RequestInv, Delivers, Loading
    <2> QED BY <2>1, <2>2, <2>3, <2>4 DEF RequestInv
  <1>9. d_context'[r].ref_count = Holders(r)'
    <2>1. ApplicationHolds(r)' <=> ApplicationHolds(r)
      BY Zenon, <1>1, <1>3 DEF ApplicationHolds
    <2>2. One(ApplicationHolds(r)') = One(ApplicationHolds(r))
      BY <2>1 DEF One
    <2>3. Queued(tasks, r) \in Nat
      BY <1>1, QueuedFacts
    <2>4.  One(pending_requests_'[r] = "pending")
             + (Queued(tasks', r) + One(running'.request = r)) + One(ApplicationHolds(r)')
         = One(pending_requests_[r] = "pending")
             + (Queued(tasks, r) + One(running.request = r)) + One(ApplicationHolds(r)) + (-1)
      BY <1>1, <1>4, <2>2, <2>3 DEF One
    <2>5. d_context'[r].ref_count = d_context[r].ref_count + (-1)
      BY <1>1, <1>3, ContextFields
    <2> QED BY <1>1, <2>3, <2>4, <2>5, Rebalanced
  <1>10. ASSUME NEW q \in Request, q # r
         PROVE  Queued(tasks', q) + One(running'.request = q)
                  = Queued(tasks, q) + One(running.request = q)
    BY <1>1, <1>4, <1>10 DEF One
  <1> QED BY <1>5, <1>6, <1>7, <1>8, <1>9, <1>10, StepOfRequest

\* What is left to show of a call of the application into r's context, or of
\* the rest of such a call after a callback.
LEMMA CallKeeps ==
  ASSUME LoaderInv, TypeOK', NEW r \in Request, NEW k \in Int, RequestInv(r)',
         UNCHANGED <<pending_requests_, tasks, running>>,
         loader[r] # "idle",
         call.request \in {r, NoRequest}, call'.request \in {r, NoRequest},
         \A q \in Request \ {r} : /\ d_context'[q] = d_context[q] /\ loader'[q] = loader[q]
                                  /\ addedData'[q] = addedData[q] /\ peer'[q] = peer[q],
         d_context'[r].d_waitingForCancelLoad = d_context[r].d_waitingForCancelLoad,
         d_context'[r].d_canceled = d_context[r].d_canceled,
         d_context'[r].ref_count = d_context[r].ref_count + k,
         One(ApplicationHolds(r)') = One(ApplicationHolds(r)) + k
  PROVE  LoaderInv'
  <1>1. TypeOK /\ tasks \in Seq(Task)
    BY DEF LoaderInv, TypeOK, Task
  <1>2. ASSUME NEW q \in Request, q # r PROVE Kept(q)
    BY <1>2, RequestAssumption DEF Kept
  <1>3. TasksAreOrdered'
    <2>1. ASSUME NEW x \in Task, Due(x) PROVE Due(x)'
      <3>1. CASE x.request = r
        <4>1. x.fn # "startLoad"
          BY <2>1, <3>1 DEF Due
        <4> QED BY <2>1, <3>1, <4>1 DEF Due
      <3>2. CASE x.request # r
        <4>1. Kept(x.request)
          BY <1>2, <3>2 DEF Task
        <4> QED BY <2>1, <4>1 DEF Due, Kept
      <3> QED BY <3>1, <3>2
    <2> QED BY <1>1, <2>1, PostedInOrder DEF LoaderInv
  <1>4. d_context'[r].ref_count = Holders(r)'
    <2>1. Queued(tasks, r) \in Nat /\ Queued(tasks', r) = Queued(tasks, r)
      BY <1>1, QueuedFacts
    <2>2. One(ApplicationHolds(r)) \in Nat
      BY DEF One
    <2>3.  One(pending_requests_'[r] = "pending")
             + (Queued(tasks', r) + One(running'.request = r)) + One(ApplicationHolds(r)')
         = One(pending_requests_[r] = "pending")
             + (Queued(tasks, r) + One(running.request = r)) + One(ApplicationHolds(r)) + k
      <3>1. /\ One(pending_requests_'[r] = "pending") = One(pending_requests_[r] = "pending")
            /\ One(running'.request = r) = One(running.request = r)
        OBVIOUS
      <3>2. /\ One(pending_requests_[r] = "pending") \in Nat
            /\ One(running.request = r) \in Nat
        BY DEF One
      <3> QED BY <2>1, <2>2, <3>1, <3>2
    <2> QED BY Zenon, <2>1, <2>3, Rebalanced
  <1>5. \A q \in Request \ {r} : Queued(tasks', q) + One(running'.request = q)
                                   = Queued(tasks, q) + One(running.request = q)
    OBVIOUS
  <1> QED BY <1>2, <1>3, <1>4, <1>5, StepOfRequest

\* A call is about a request, or there is none.
LEMMA CallFacts ==
  ASSUME TypeOK
  PROVE  /\ call # NoCall => /\ call.request \in Request
                             /\ call.at \in {"data", "finish", "release"}
         /\ NoCall.request \notin Request /\ NoCall.request = NoRequest
         /\ NoCall.at = "none"
  BY RequestAssumption DEF TypeOK, NoCall

\* The type of what a peer has been told.
PeerType == [responses : Nat, data : Nat, completed : Seq(Codes)]

\* What a peer has been told, after one more callback.
LEMMA PeerFields ==
  ASSUME NEW p \in PeerType
  PROVE  /\ p.responses \in Nat /\ p.data \in Nat /\ p.completed \in Seq(Codes)
         /\ [p EXCEPT !.responses = p.responses + 1] \in PeerType
         /\ [p EXCEPT !.responses = p.responses + 1].responses = p.responses + 1
         /\ [p EXCEPT !.responses = p.responses + 1].data = p.data
         /\ [p EXCEPT !.responses = p.responses + 1].completed = p.completed
         /\ [p EXCEPT !.data = p.data + 1] \in PeerType
         /\ [p EXCEPT !.data = p.data + 1].responses = p.responses
         /\ [p EXCEPT !.data = p.data + 1].data = p.data + 1
         /\ [p EXCEPT !.data = p.data + 1].completed = p.completed
         /\ \A code \in Codes :
              LET e == [p EXCEPT !.completed = Append(p.completed, code)] IN
              /\ e \in PeerType /\ e.responses = p.responses /\ e.data = p.data
              /\ e.completed # <<>>
              /\ p.completed = <<>> => e.completed = <<code>>
  <1>1. p.responses \in Nat /\ p.data \in Nat /\ p.completed \in Seq(Codes)
    BY DEF PeerType
  <1>2. /\ [p EXCEPT !.responses = p.responses + 1] \in PeerType
        /\ [p EXCEPT !.responses = p.responses + 1].responses = p.responses + 1
        /\ [p EXCEPT !.responses = p.responses + 1].data = p.data
        /\ [p EXCEPT !.responses = p.responses + 1].completed = p.completed
    BY DEF PeerType
  <1>3. /\ [p EXCEPT !.data = p.data + 1] \in PeerType
        /\ [p EXCEPT !.data = p.data + 1].responses = p.responses
        /\ [p EXCEPT !.data = p.data + 1].data = p.data + 1
        /\ [p EXCEPT !.data = p.data + 1].completed = p.completed
    BY DEF PeerType
  <1>4. ASSUME NEW code \in Codes
        PROVE  LET e == [p EXCEPT !.completed = Append(p.completed, code)] IN
               /\ e \in PeerType /\ e.responses = p.responses /\ e.data = p.data
               /\ e.completed # <<>>
               /\ p.completed = <<>> => e.completed = <<code>>
    <2> DEFINE l == Append(p.completed, code)
    <2>1. l \in Seq(Codes) /\ l # <<>> /\ (p.completed = <<>> => l = <<code>>)
      <3>1. l \in Seq(Codes) /\ l # <<>>
        BY <1>1, AppendProperties
      <3>2. Append(<<>>, code) = <<code>>
        BY AppendIsConcat, ConcatEmptySeq, EmptySeq
      <3> QED BY <3>1, <3>2
    <2> HIDE DEF l
    <2>2. LET e == [p EXCEPT !.completed = l] IN
            /\ e \in PeerType /\ e.responses = p.responses /\ e.data = p.data
            /\ e.completed = l
      BY <2>1 DEF PeerType
    <2> QED BY <2>1, <2>2 DEF l
  <1> QED BY <1>1, <1>2, <1>3, <1>4

\* addResponseData.  What it adds is delivered, owed to the peer by the call
\* that stays on the stack, or dropped when there is no peer.
LEMMA AddResponseDataKeeps ==
  ASSUME LoaderInv, NEW r \in Request, addResponseData(r)
  PROVE  LoaderInv'
  <1> DEFINE d == d_context[r]
             n == d.d_totalTransferSize + 1
             c == [d EXCEPT !.d_totalTransferSize = n]
             h == [c EXCEPT !.d_responseHeaders = FALSE]
             p == peer[r]
  <1>1. /\ TypeOK /\ RequestInv(r) /\ d \in Context /\ p \in PeerType
        /\ call = NoCall /\ Loading(r) /\ addedData[r] \in Nat
        /\ addedData' = [addedData EXCEPT ![r] = addedData[r] + 1]
        /\ UNCHANGED <<pending_requests_, tasks, running, loader>>
    BY DEF LoaderInv, TypeOK, PeerType, addResponseData
  <1>2. /\ call.request = NoRequest /\ loader[r] \in {"loading", "cancelled"}
        /\ call.request # r
    BY <1>1, RequestAssumption DEF NoCall, Loading
  <1>3. addedData'[r] = addedData[r] + 1 /\ addedData' \in [Request -> 0 .. MaxData]
    BY <1>1, DataAssumption DEF TypeOK, addResponseData
  <1>4. /\ c \in Context /\ c.ref_count = d.ref_count
        /\ c.d_peer = d.d_peer /\ c.d_responseHeaders = d.d_responseHeaders
        /\ c.d_totalTransferSize = d.d_totalTransferSize + 1
        /\ c.d_started = d.d_started /\ c.d_finished = d.d_finished
        /\ c.d_waitingForCancelLoad = d.d_waitingForCancelLoad
        /\ c.d_canceled = d.d_canceled /\ c.d_failed = d.d_failed
    <2>1. n \in Nat
      BY <1>1, ContextFields
    <2> HIDE DEF n, d
    <2>2. c \in Context /\ c.d_totalTransferSize = n
      BY <1>1, <2>1 DEF Context
    <2>3. /\ c.ref_count = d.ref_count
          /\ c.d_peer = d.d_peer /\ c.d_responseHeaders = d.d_responseHeaders
          /\ c.d_started = d.d_started /\ c.d_finished = d.d_finished
          /\ c.d_waitingForCancelLoad = d.d_waitingForCancelLoad
          /\ c.d_canceled = d.d_canceled /\ c.d_failed = d.d_failed
      BY <1>1 DEF Context
    <2> QED BY <2>2, <2>3 DEF n
  <1>5. /\ h \in Context /\ h.ref_count = c.ref_count
        /\ h.d_peer = c.d_peer /\ ~h.d_responseHeaders
        /\ h.d_totalTransferSize = c.d_totalTransferSize
        /\ h.d_started = c.d_started /\ h.d_finished = c.d_finished
        /\ h.d_waitingForCancelLoad = c.d_waitingForCancelLoad
        /\ h.d_canceled = c.d_canceled /\ h.d_failed = c.d_failed
    <2> HIDE DEF c
    <2> QED BY <1>4 DEF Context
  <1>6. \/ /\ ~c.d_peer
           /\ d_context' = [d_context EXCEPT ![r] = c]
           /\ UNCHANGED <<call, peer>>
        \/ /\ c.d_peer /\ c.d_responseHeaders
           /\ d_context' = [d_context EXCEPT ![r] = h]
           /\ peer' = [peer EXCEPT ![r] = [p EXCEPT !.responses = p.responses + 1]]
           /\ call' = [at |-> "data", request |-> r]
        \/ /\ c.d_peer /\ ~c.d_responseHeaders
           /\ d_context' = [d_context EXCEPT ![r] = c]
           /\ peer' = [peer EXCEPT ![r] = [p EXCEPT !.data = p.data + 1]]
           /\ UNCHANGED call
    BY DEF addResponseData
  <1> HIDE DEF c, h
  <1>7. /\ d.d_started /\ ~d.d_finished /\ addedData[r] = d.d_totalTransferSize
        /\ p.completed = <<>> /\ pending_requests_[r] # "new"
    BY <1>1, <1>2 DEF RequestInv, Tracks, Delivers, Fresh
  <1>8. ASSUME NEW x \in {c, h}, NEW y \in PeerType,
               d_context' = [d_context EXCEPT ![r] = x], peer' = [peer EXCEPT ![r] = y],
               call' \in {call, [at |-> "data", request |-> r]}, RequestInv(r)'
        PROVE  LoaderInv'
    <2>1. /\ x \in Context /\ x.ref_count = d.ref_count
          /\ x.d_started /\ ~x.d_finished
          /\ x.d_waitingForCancelLoad = d.d_waitingForCancelLoad
          /\ x.d_canceled = d.d_canceled
      BY <1>4, <1>5, <1>7, <1>8
    <2>2. d_context'[r] = x /\ peer'[r] = y
      BY <1>1, <1>8 DEF TypeOK
    <2>3. TypeOK'
      BY <1>1, <1>3, <1>8, <2>1 DEF TypeOK, PeerType
    <2>4. \A q \in Request \ {r} : /\ d_context'[q] = d_context[q] /\ loader'[q] = loader[q]
                                   /\ addedData'[q] = addedData[q] /\ peer'[q] = peer[q]
      BY <1>1, <1>8 DEF TypeOK
    <2>5. call'.request \in {r, NoRequest}
      BY <1>2, <1>8
    <2>6. ApplicationHolds(r) /\ ApplicationHolds(r)'
      BY <1>7, <2>1, <2>2 DEF ApplicationHolds
    <2>7. One(ApplicationHolds(r)') = One(ApplicationHolds(r)) + 0
      BY <2>6 DEF One
    <2>8. d_context'[r].ref_count = d_context[r].ref_count + 0
      BY <1>1, <2>1, <2>2, ContextFields
    <2> QED BY <1>1, <1>2, <1>8, <2>1, <2>2, <2>3, <2>4, <2>5, <2>7, <2>8, CallKeeps
  <1>9. CASE /\ ~c.d_peer
             /\ d_context' = [d_context EXCEPT ![r] = c]
             /\ UNCHANGED <<call, peer>>
    <2>1. d_context'[r] = c /\ peer' = [peer EXCEPT ![r] = p]
      BY <1>1, <1>9 DEF TypeOK
    <2>2. pending_requests_[r] # "pending"
      BY <1>1, <1>4, <1>9 DEF RequestInv, Tracks
    <2>3. Tracks(r)'
      <3>1. c.d_totalTransferSize = addedData'[r]
        BY <1>3, <1>4, <1>7
      <3> QED BY Zenon, <1>1, <1>4, <1>9, <2>1, <3>1 DEF RequestInv, Tracks
    <2>4. Fresh(r)' /\ Faithful(r)'
      BY <1>1, <1>7, <1>9 DEF Fresh, Faithful
    <2>5. Delivers(r)'
      BY <1>1, <1>2, <1>7, <1>9, <2>2 DEF Delivers
    <2>6. RequestInv(r)'
      BY <2>3, <2>4, <2>5 DEF RequestInv
    <2> QED BY <1>1, <1>8, <1>9, <2>1, <2>6
  <1>10. CASE /\ c.d_peer /\ c.d_responseHeaders
              /\ d_context' = [d_context EXCEPT ![r] = h]
              /\ peer' = [peer EXCEPT ![r] = [p EXCEPT !.responses = p.responses + 1]]
              /\ call' = [at |-> "data", request |-> r]
    <2> DEFINE y == [p EXCEPT !.responses = p.responses + 1]
    <2>1. d_context'[r] = h /\ peer'[r] = y /\ loader'[r] = loader[r]
      BY <1>1, <1>10 DEF TypeOK
    <2>2. /\ y \in PeerType /\ y.responses = 1 /\ y.data = p.data /\ y.completed = <<>>
          /\ p.data \in Nat
      <3>1. p.responses = 0
        BY <1>1, <1>4, <1>10 DEF RequestInv, Tracks
      <3>2. y \in PeerType /\ y.responses = p.responses + 1 /\ y.data = p.data
            /\ y.completed = p.completed /\ p.data \in Nat
        BY <1>1, PeerFields
      <3> HIDE DEF y
      <3> QED BY <1>7, <3>1, <3>2
    <2> HIDE DEF y
    <2>3. addedData[r] = p.data
      <3>1. pending_requests_[r] = "pending"
        BY <1>1, <1>4, <1>10 DEF RequestInv, Tracks
      <3> QED BY <1>1, <1>2, <2>2, <3>1 DEF RequestInv, Delivers, One
    <2>4. Tracks(r)'
      <3>1. h.d_totalTransferSize = addedData'[r] /\ y.responses # 0 /\ 1 \in {0, 1}
        BY <1>3, <1>4, <1>5, <1>7, <2>2
      <3> QED BY Zenon, <1>1, <1>4, <1>5, <1>10, <2>1, <2>2, <3>1 DEF RequestInv, Tracks
    <2>5. Fresh(r)' /\ Faithful(r)'
      BY <1>1, <1>7, <2>1, <2>2 DEF Fresh, Faithful
    <2>6. Delivers(r)'
      <3>1. One(call'.request = r /\ call'.at = "data") = 1
        BY <1>10 DEF One
      <3>2. addedData'[r] = peer'[r].data + One(call'.request = r /\ call'.at = "data")
        BY <1>3, <2>1, <2>2, <2>3, <3>1
      <3>3. peer'[r].completed = <<>>
        BY <2>1, <2>2
      <3>4. ~d_context'[r].d_responseHeaders /\ Loading(r)' /\ call'.at = "data"
        BY <1>1, <1>5, <1>10, <2>1 DEF Loading
      <3> QED BY <3>2, <3>3, <3>4 DEF Delivers
    <2>7. RequestInv(r)'
      BY <2>4, <2>5, <2>6 DEF RequestInv
    <2>8. y \in PeerType /\ peer' = [peer EXCEPT ![r] = y]
      BY <1>10, <2>2 DEF y
    <2> QED BY <1>8, <1>10, <2>7, <2>8
  <1>11. CASE /\ c.d_peer /\ ~c.d_responseHeaders
              /\ d_context' = [d_context EXCEPT ![r] = c]
              /\ peer' = [peer EXCEPT ![r] = [p EXCEPT !.data = p.data + 1]]
              /\ UNCHANGED call
    <2> DEFINE y == [p EXCEPT !.data = p.data + 1]
    <2>1. d_context'[r] = c /\ peer'[r] = y /\ loader'[r] = loader[r]
      BY <1>1, <1>11 DEF TypeOK
    <2>2. /\ y \in PeerType /\ y.responses = p.responses
          /\ y.data = p.data + 1 /\ y.completed = <<>> /\ p.data \in Nat
      BY <1>1, <1>7, PeerFields
    <2> HIDE DEF y
    <2>3. addedData[r] = p.data
      <3>1. pending_requests_[r] = "pending"
        BY <1>1, <1>4, <1>11 DEF RequestInv, Tracks
      <3> QED BY <1>1, <1>2, <2>2, <3>1 DEF RequestInv, Delivers, One
    <2>4. Tracks(r)'
      <3>1. c.d_totalTransferSize = addedData'[r]
        BY <1>3, <1>4, <1>7
      <3> QED BY Zenon, <1>1, <1>4, <1>11, <2>1, <2>2, <3>1 DEF RequestInv, Tracks
    <2>5. Fresh(r)' /\ Faithful(r)'
      BY <1>1, <1>7, <2>1, <2>2 DEF Fresh, Faithful
    <2>6. Delivers(r)'
      <3>1. One(call'.request = r /\ call'.at = "data") = 0
        BY <1>2, <1>11 DEF One
      <3>2. addedData'[r] = peer'[r].data + One(call'.request = r /\ call'.at = "data")
        BY <1>3, <2>1, <2>2, <2>3, <3>1
      <3>3. peer'[r].completed = <<>> /\ call'.request # r
        BY <1>2, <1>11, <2>1, <2>2
      <3> QED BY <3>2, <3>3 DEF Delivers
    <2>7. RequestInv(r)'
      BY <2>4, <2>5, <2>6 DEF RequestInv
    <2>8. y \in PeerType /\ peer' = [peer EXCEPT ![r] = y]
      BY <1>11, <2>2 DEF y
    <2> QED BY <1>8, <1>11, <2>7, <2>8
  <1> QED BY <1>6, <1>9, <1>10, <1>11

\* The rest of addResponseData: the data that was owed is delivered, if there
\* still is a peer.
LEMMA AddResponseDataContinuesKeeps ==
  ASSUME LoaderInv, addResponseDataContinues, NEW r \in Request, r = call.request
  PROVE  LoaderInv'
  <1> DEFINE p == peer[r]
             y == IF d_context[r].d_peer THEN [p EXCEPT !.data = p.data + 1] ELSE p
  <1>1. /\ TypeOK /\ RequestInv(r) /\ d_context[r] \in Context /\ p \in PeerType
        /\ call.at = "data" /\ call' = NoCall
        /\ UNCHANGED <<pending_requests_, d_context, tasks, running, loader, addedData>>
    BY DEF LoaderInv, TypeOK, PeerType, addResponseDataContinues
  <1>2. call'.request = NoRequest /\ call'.request # r
    BY <1>1, RequestAssumption DEF NoCall
  <1>3. /\ Loading(r) /\ loader[r] \in {"loading", "cancelled"}
        /\ p.completed = <<>> /\ d_context[r].d_started /\ ~d_context[r].d_finished
    BY <1>1 DEF RequestInv, Delivers, Loading, Tracks
  <1>4. peer' = [peer EXCEPT ![r] = y] /\ peer'[r] = y
    BY <1>1 DEF addResponseDataContinues, TypeOK
  <1>5. /\ y \in PeerType /\ y.responses = p.responses /\ y.completed = <<>>
        /\ d_context[r].d_peer => y.data = p.data + 1
        /\ p.data \in Nat
    BY <1>1, <1>3, PeerFields
  <1> HIDE DEF y
  <1>6. TypeOK'
    BY <1>1, <1>4, <1>5 DEF TypeOK, PeerType
  <1>7. Tracks(r)'
    BY Zenon, <1>1, <1>4, <1>5 DEF RequestInv, Tracks
  <1>8. Fresh(r)' /\ Faithful(r)'
    <2>1. pending_requests_'[r] # "new"
      BY <1>1, <1>3 DEF RequestInv, Fresh
    <2> QED BY <1>4, <1>5, <2>1 DEF Fresh, Faithful
  <1>9. Delivers(r)'
    <2>1. One(call.request = r /\ call.at = "data") = 1
      BY <1>1 DEF One
    <2>2. One(call'.request = r /\ call'.at = "data") = 0
      BY <1>2 DEF One
    <2>3. ASSUME pending_requests_[r] = "pending" PROVE addedData[r] = y.data
      <3>1. addedData[r] = p.data + One(call.request = r /\ call.at = "data")
        BY <1>1, <2>3 DEF RequestInv, Delivers
      <3>2. d_context[r].d_peer
        BY <1>1, <2>3 DEF RequestInv, Tracks
      <3> QED BY <1>5, <2>1, <3>1, <3>2
    <2>4. y.data \in Nat
      BY <1>5 DEF PeerType
    <2>5. pending_requests_'[r] = "pending" =>
            addedData'[r] = peer'[r].data + One(call'.request = r /\ call'.at = "data")
      BY <1>1, <1>4, <2>2, <2>3, <2>4
    <2> QED BY <1>2, <1>4, <1>5, <2>5 DEF Delivers
  <1>10. RequestInv(r)'
    BY <1>7, <1>8, <1>9 DEF RequestInv
  <1>11. ApplicationHolds(r) /\ ApplicationHolds(r)'
    BY <1>1, <1>3 DEF ApplicationHolds
  <1>12. One(ApplicationHolds(r)') = One(ApplicationHolds(r)) + 0
    BY <1>11 DEF One
  <1>13. d_context'[r].ref_count = d_context[r].ref_count + 0
    BY <1>1, ContextFields
  <1>14. \A q \in Request \ {r} : /\ d_context'[q] = d_context[q] /\ loader'[q] = loader[q]
                                  /\ addedData'[q] = addedData[q] /\ peer'[q] = peer[q]
    BY <1>1, <1>4 DEF TypeOK
  <1>15. /\ UNCHANGED <<pending_requests_, tasks, running>> /\ 0 \in Int
         /\ loader[r] # "idle"
         /\ call.request \in {r, NoRequest} /\ call'.request \in {r, NoRequest}
         /\ d_context'[r].d_waitingForCancelLoad = d_context[r].d_waitingForCancelLoad
         /\ d_context'[r].d_canceled = d_context[r].d_canceled
    BY <1>1, <1>2, <1>3
  <1> QED BY Zenon, <1>6, <1>10, <1>12, <1>13, <1>14, <1>15, CallKeeps

\* failed.
LEMMA FailedKeeps ==
  ASSUME LoaderInv, NEW r \in Request, failed(r)
  PROVE  LoaderInv'
  <1> DEFINE d == d_context[r]
             c == [d EXCEPT !.d_failed = TRUE]
  <1>1. /\ TypeOK /\ RequestInv(r) /\ d \in Context
        /\ call = NoCall /\ Loading(r)
        /\ d_context' = [d_context EXCEPT ![r] = c]
        /\ UNCHANGED <<pending_requests_, tasks, running, call, loader, addedData, peer>>
    BY DEF LoaderInv, TypeOK, failed
  <1>2. /\ call.request = NoRequest /\ loader[r] \in {"loading", "cancelled"}
        /\ call.request # r
    BY <1>1, RequestAssumption DEF NoCall, Loading
  <1>3. /\ d_context'[r] = c /\ c \in Context /\ c.ref_count = d.ref_count
        /\ c.d_peer = d.d_peer /\ c.d_responseHeaders = d.d_responseHeaders
        /\ c.d_totalTransferSize = d.d_totalTransferSize
        /\ c.d_started = d.d_started /\ c.d_finished = d.d_finished
        /\ c.d_waitingForCancelLoad = d.d_waitingForCancelLoad
        /\ c.d_canceled = d.d_canceled
    <2>1. d_context'[r] = c
      BY <1>1 DEF TypeOK
    <2> HIDE DEF d
    <2>2. /\ c \in Context /\ c.ref_count = d.ref_count
          /\ c.d_peer = d.d_peer /\ c.d_responseHeaders = d.d_responseHeaders
          /\ c.d_totalTransferSize = d.d_totalTransferSize
          /\ c.d_started = d.d_started /\ c.d_finished = d.d_finished
          /\ c.d_waitingForCancelLoad = d.d_waitingForCancelLoad
          /\ c.d_canceled = d.d_canceled
      BY <1>1 DEF Context
    <2> QED BY <2>1, <2>2
  <1> HIDE DEF c
  <1>4. TypeOK'
    BY <1>1, <1>3 DEF TypeOK
  <1>5. RequestInv(r)'
    <2>1. Tracks(r)'
      BY Zenon, <1>1, <1>3 DEF RequestInv, Tracks
    <2>2. Fresh(r)'
      BY <1>1 DEF RequestInv, Fresh
    <2>3. Faithful(r)'
      BY <1>1, <1>2 DEF RequestInv, Faithful, Delivers
    <2>4. Delivers(r)'
      BY <1>1, <1>2, <1>3 DEF RequestInv, Delivers
    <2> QED BY <2>1, <2>2, <2>3, <2>4 DEF RequestInv
  <1>6. ApplicationHolds(r)' <=> ApplicationHolds(r)
    BY Zenon, <1>1, <1>3 DEF ApplicationHolds
  <1>7. One(ApplicationHolds(r)') = One(ApplicationHolds(r)) + 0
    BY <1>6 DEF One
  <1>8. d_context'[r].ref_count = d_context[r].ref_count + 0
    BY <1>1, <1>3, ContextFields
  <1>9. \A q \in Request \ {r} : /\ d_context'[q] = d_context[q] /\ loader'[q] = loader[q]
                                 /\ addedData'[q] = addedData[q] /\ peer'[q] = peer[q]
    BY <1>1 DEF TypeOK
  <1> QED BY <1>1, <1>2, <1>3, <1>4, <1>5, <1>7, <1>8, <1>9, CallKeeps

\* The rest of finish after the callback with the response.
LEMMA FinishContinuesKeeps ==
  ASSUME LoaderInv, finishContinues, NEW r \in Request, r = call.request
  PROVE  LoaderInv'
  <1> DEFINE p == peer[r]
             code == ErrorCode(d_context[r])
             y == IF d_context[r].d_peer
                  THEN [p EXCEPT !.completed = Append(p.completed, code)] ELSE p
  <1>1. /\ TypeOK /\ RequestInv(r) /\ d_context[r] \in Context /\ p \in PeerType
        /\ call.at = "finish" /\ call' = [call EXCEPT !.at = "release"]
        /\ UNCHANGED <<pending_requests_, d_context, tasks, running, loader, addedData>>
    BY DEF LoaderInv, TypeOK, PeerType, finishContinues
  <1>2. call' = [at |-> "release", request |-> r]
    BY <1>1 DEF TypeOK, NoCall
  <1>3. /\ loader[r] = "finished" /\ p.completed = <<>> /\ ~d_context[r].d_responseHeaders
        /\ d_context[r].d_started /\ d_context[r].d_finished
    BY <1>1 DEF RequestInv, Delivers, Tracks
  <1>4. peer' = [peer EXCEPT ![r] = y] /\ peer'[r] = y
    BY <1>1 DEF finishContinues, Complete, TypeOK
  <1>5. /\ code \in Codes
        /\ code = "OK" => ~d_context[r].d_failed
        /\ code = "ERR_FAILED" => d_context[r].d_failed
    BY DEF ErrorCode, Codes
  <1>6. /\ y \in PeerType /\ y.responses = p.responses /\ y.data = p.data
        /\ y.completed = IF d_context[r].d_peer THEN <<code>> ELSE <<>>
    <2> DEFINE e == [p EXCEPT !.completed = Append(p.completed, code)]
    <2> HIDE DEF code
    <2>1. /\ e \in PeerType /\ e.responses = p.responses /\ e.data = p.data
          /\ p.completed = <<>> => e.completed = <<code>>
      BY <1>1, <1>5, PeerFields
    <2>2. y = IF d_context[r].d_peer THEN e ELSE p
      OBVIOUS
    <2> HIDE DEF e, y
    <2> QED BY <1>1, <1>3, <2>1, <2>2
  <1> HIDE DEF y, code
  <1>7. TypeOK'
    BY <1>1, <1>2, <1>4, <1>6 DEF TypeOK, PeerType
  <1>8. Tracks(r)'
    BY Zenon, <1>1, <1>4, <1>6 DEF RequestInv, Tracks
  <1>9. Fresh(r)'
    BY <1>1, <1>3 DEF RequestInv, Fresh
  <1>10. Faithful(r)'
    <2>1. ASSUME d_context[r].d_peer, code = "OK" PROVE p.data = addedData[r]
      <3>1. pending_requests_[r] = "pending"
        BY <1>1, <2>1 DEF RequestInv, Tracks
      <3>2. One(call.request = r /\ call.at = "data") = 0
        BY <1>1 DEF One
      <3> QED BY <1>1, <3>1, <3>2 DEF RequestInv, Delivers, PeerType
    <2>2. d_context[r].d_totalTransferSize = addedData[r]
      BY <1>1 DEF RequestInv, Tracks
    <2>3. ASSUME peer'[r].completed # <<>> PROVE d_context[r].d_peer
      BY <1>4, <1>6, <2>3
    <2>4. \A k : <<code>> = <<k>> => code = k
      OBVIOUS
    <2> QED BY <1>1, <1>4, <1>5, <1>6, <2>1, <2>2, <2>3, <2>4 DEF Faithful
  <1>11. Delivers(r)'
    <2>1. One(call.request = r /\ call.at = "data") = 0
          /\ One(call'.request = r /\ call'.at = "data") = 0
      BY <1>1, <1>2 DEF One
    <2> QED BY <1>1, <1>2, <1>3, <1>4, <1>6, <2>1 DEF RequestInv, Delivers
  <1>12. RequestInv(r)'
    BY <1>8, <1>9, <1>10, <1>11 DEF RequestInv
  <1>13. ApplicationHolds(r) /\ ApplicationHolds(r)'
    BY <1>1, <1>2, <1>3 DEF ApplicationHolds
  <1>14. One(ApplicationHolds(r)') = One(ApplicationHolds(r)) + 0
    BY <1>13 DEF One
  <1>15. d_context'[r].ref_count = d_context[r].ref_count + 0
    BY <1>1, ContextFields
  <1>16. \A q \in Request \ {r} : /\ d_context'[q] = d_context[q] /\ loader'[q] = loader[q]
                                  /\ addedData'[q] = addedData[q] /\ peer'[q] = peer[q]
    BY <1>1, <1>4 DEF TypeOK
  <1>17. /\ UNCHANGED <<pending_requests_, tasks, running>> /\ 0 \in Int
         /\ loader[r] # "idle"
         /\ call.request \in {r, NoRequest} /\ call'.request \in {r, NoRequest}
         /\ d_context'[r].d_waitingForCancelLoad = d_context[r].d_waitingForCancelLoad
         /\ d_context'[r].d_canceled = d_context[r].d_canceled
    BY <1>1, <1>2, <1>3
  <1> QED BY Zenon, <1>7, <1>12, <1>14, <1>15, <1>16, <1>17, CallKeeps

\* The Release at the end of finish.
LEMMA FinishReleasesKeeps ==
  ASSUME LoaderInv, finishReleases, NEW r \in Request, r = call.request
  PROVE  LoaderInv'
  <1> DEFINE d == d_context[r]
             n == d.ref_count - 1
             c == [d EXCEPT !.ref_count = n]
  <1>1. /\ TypeOK /\ RequestInv(r) /\ d \in Context
        /\ call.at = "release" /\ call' = NoCall
        /\ d_context' = [d_context EXCEPT ![r] = c]
        /\ UNCHANGED <<pending_requests_, tasks, running, loader, addedData, peer>>
    BY DEF LoaderInv, TypeOK, finishReleases
  <1>2. call'.request = NoRequest /\ call'.request # r
    BY <1>1, RequestAssumption DEF NoCall
  <1>3. loader[r] = "finished" /\ d.d_started /\ d.d_finished
    BY <1>1 DEF RequestInv, Delivers, Tracks
  <1>4. ApplicationHolds(r)
    BY <1>1, <1>3 DEF ApplicationHolds
  <1>5. n \in Nat
    BY <1>4, HeldOnce
  <1>6. /\ d_context'[r] = c /\ c \in Context /\ c.ref_count = n
        /\ c.d_peer = d.d_peer /\ c.d_responseHeaders = d.d_responseHeaders
        /\ c.d_totalTransferSize = d.d_totalTransferSize
        /\ c.d_started = d.d_started /\ c.d_finished = d.d_finished
        /\ c.d_waitingForCancelLoad = d.d_waitingForCancelLoad
        /\ c.d_canceled = d.d_canceled /\ c.d_failed = d.d_failed
    <2> HIDE DEF n, d
    <2>1. d_context'[r] = c
      BY <1>1 DEF TypeOK
    <2>2. c \in Context /\ c.ref_count = n
      BY <1>1, <1>5 DEF Context
    <2>3. /\ c.d_peer = d.d_peer /\ c.d_responseHeaders = d.d_responseHeaders
          /\ c.d_totalTransferSize = d.d_totalTransferSize
          /\ c.d_started = d.d_started /\ c.d_finished = d.d_finished
          /\ c.d_waitingForCancelLoad = d.d_waitingForCancelLoad
          /\ c.d_canceled = d.d_canceled /\ c.d_failed = d.d_failed
      BY <1>1 DEF Context
    <2> QED BY <2>1, <2>2, <2>3
  <1> HIDE DEF c
  <1>7. TypeOK'
    BY <1>1, <1>6 DEF TypeOK
  <1>8. RequestInv(r)'
    <2>1. Tracks(r)'
      BY Zenon, <1>1, <1>6 DEF RequestInv, Tracks
    <2>2. Fresh(r)'
      BY <1>1 DEF RequestInv, Fresh
    <2>3. Faithful(r)'
      BY <1>1, <1>6 DEF RequestInv, Faithful
    <2>4. Delivers(r)'
      <3>1. One(call.request = r /\ call.at = "data") = 0
            /\ One(call'.request = r /\ call'.at = "data") = 0
        BY <1>1, <1>2 DEF One
      <3> QED BY <1>1, <1>2, <3>1 DEF RequestInv, Delivers
    <2> QED BY <2>1, <2>2, <2>3, <2>4 DEF RequestInv
  <1>9. ~ApplicationHolds(r)'
    BY <1>2, <1>3, <1>6 DEF ApplicationHolds
  <1>10. One(ApplicationHolds(r)') = One(ApplicationHolds(r)) + (-1)
    BY <1>4, <1>9 DEF One
  <1>11. d_context'[r].ref_count = d_context[r].ref_count + (-1)
    BY <1>1, <1>6, ContextFields
  <1>12. \A q \in Request \ {r} : /\ d_context'[q] = d_context[q] /\ loader'[q] = loader[q]
                                  /\ addedData'[q] = addedData[q] /\ peer'[q] = peer[q]
    BY <1>1 DEF TypeOK
  <1> QED BY <1>1, <1>2, <1>3, <1>6, <1>7, <1>8, <1>10, <1>11, <1>12, CallKeeps

\* finish, up to its first callback.
LEMMA FinishKeeps ==
  ASSUME LoaderInv, NEW r \in Request, finish(r)
  PROVE  LoaderInv'
  <1> DEFINE d == d_context[r]
             c == [d EXCEPT !.d_finished = TRUE]
             h == [c EXCEPT !.d_responseHeaders = FALSE]
             n == c.ref_count - 1
             f == [c EXCEPT !.ref_count = n]
             p == peer[r]
  <1>1. /\ TypeOK /\ RequestInv(r) /\ d \in Context /\ p \in PeerType
        /\ call = NoCall /\ Loading(r)
        /\ loader' = [loader EXCEPT ![r] = "finished"] /\ loader'[r] = "finished"
        /\ UNCHANGED <<pending_requests_, tasks, running, addedData>>
    BY DEF LoaderInv, TypeOK, PeerType, finish
  <1>2. /\ call.request = NoRequest /\ loader[r] \in {"loading", "cancelled"}
        /\ call.request # r
    BY <1>1, RequestAssumption DEF NoCall, Loading
  <1>3. /\ d.d_started /\ ~d.d_finished /\ p.completed = <<>>
        /\ pending_requests_[r] # "new" /\ p.data \in Nat
    BY <1>1, <1>2 DEF RequestInv, Tracks, Delivers, Fresh, PeerType
  <1>4. ApplicationHolds(r)
    BY <1>3 DEF ApplicationHolds
  <1>5. /\ c \in Context /\ c.ref_count = d.ref_count
        /\ c.d_peer = d.d_peer /\ c.d_responseHeaders = d.d_responseHeaders
        /\ c.d_totalTransferSize = d.d_totalTransferSize
        /\ c.d_started = d.d_started /\ c.d_finished
        /\ c.d_waitingForCancelLoad = d.d_waitingForCancelLoad
        /\ c.d_canceled = d.d_canceled /\ c.d_failed = d.d_failed
    <2> HIDE DEF d
    <2>1. c \in Context /\ c.d_finished
      BY <1>1 DEF Context
    <2>2. /\ c.ref_count = d.ref_count
          /\ c.d_peer = d.d_peer /\ c.d_responseHeaders = d.d_responseHeaders
          /\ c.d_totalTransferSize = d.d_totalTransferSize
          /\ c.d_started = d.d_started
          /\ c.d_waitingForCancelLoad = d.d_waitingForCancelLoad
          /\ c.d_canceled = d.d_canceled /\ c.d_failed = d.d_failed
      BY <1>1 DEF Context
    <2> QED BY <2>1, <2>2
  <1>6. \/ /\ c.d_waitingForCancelLoad \/ ~c.d_peer
           /\ d_context' = [d_context EXCEPT ![r] = f]
           /\ UNCHANGED <<call, peer>>
        \/ /\ ~c.d_waitingForCancelLoad /\ c.d_peer
           /\ c.d_responseHeaders
           /\ d_context' = [d_context EXCEPT ![r] = h]
           /\ peer' = [peer EXCEPT ![r] = [p EXCEPT !.responses = p.responses + 1]]
           /\ call' = [at |-> "finish", request |-> r]
        \/ /\ ~c.d_waitingForCancelLoad /\ c.d_peer
           /\ ~c.d_responseHeaders
           /\ d_context' = [d_context EXCEPT ![r] = c]
           /\ peer' = Complete(r, ErrorCode(c))
           /\ call' = [at |-> "release", request |-> r]
    BY DEF finish
  <1>7. /\ h \in Context /\ h.ref_count = c.ref_count
        /\ h.d_peer = c.d_peer /\ ~h.d_responseHeaders
        /\ h.d_totalTransferSize = c.d_totalTransferSize
        /\ h.d_started = c.d_started /\ h.d_finished = c.d_finished
        /\ h.d_waitingForCancelLoad = c.d_waitingForCancelLoad
        /\ h.d_canceled = c.d_canceled /\ h.d_failed = c.d_failed
    <2> HIDE DEF c
    <2> QED BY <1>5 DEF Context
  <1>8. /\ f \in Context /\ f.ref_count = c.ref_count + (-1)
        /\ f.d_peer = c.d_peer /\ f.d_responseHeaders = c.d_responseHeaders
        /\ f.d_totalTransferSize = c.d_totalTransferSize
        /\ f.d_started = c.d_started /\ f.d_finished = c.d_finished
        /\ f.d_waitingForCancelLoad = c.d_waitingForCancelLoad
        /\ f.d_canceled = c.d_canceled /\ f.d_failed = c.d_failed
    <2>1. d.ref_count - 1 \in Nat
      BY <1>4, HeldOnce
    <2> HIDE DEF c, d
    <2>2. n \in Nat /\ n = c.ref_count + (-1)
      BY <1>5, <2>1, ContextFields
    <2> HIDE DEF n
    <2>3. f \in Context /\ f.ref_count = n
      BY <1>5, <2>2 DEF Context
    <2>4. /\ f.d_peer = c.d_peer /\ f.d_responseHeaders = c.d_responseHeaders
          /\ f.d_totalTransferSize = c.d_totalTransferSize
          /\ f.d_started = c.d_started /\ f.d_finished = c.d_finished
          /\ f.d_waitingForCancelLoad = c.d_waitingForCancelLoad
          /\ f.d_canceled = c.d_canceled /\ f.d_failed = c.d_failed
      BY <1>5 DEF Context
    <2> QED BY <2>2, <2>3, <2>4
  <1> HIDE DEF c, h, f
  <1>9. ASSUME NEW x \in {c, h, f}, NEW y \in PeerType, NEW k \in Int,
               d_context' = [d_context EXCEPT ![r] = x], peer' = [peer EXCEPT ![r] = y],
               x.ref_count = d.ref_count + k,
               One(ApplicationHolds(r)') = One(ApplicationHolds(r)) + k,
               \/ call' = call
               \/ call' = [at |-> "finish", request |-> r]
               \/ call' = [at |-> "release", request |-> r],
               RequestInv(r)'
        PROVE  LoaderInv'
    <2>1. /\ x \in Context
          /\ x.d_waitingForCancelLoad = d.d_waitingForCancelLoad
          /\ x.d_canceled = d.d_canceled
      BY <1>5, <1>7, <1>8, <1>9
    <2>2. d_context'[r] = x /\ peer'[r] = y
      BY <1>1, <1>9 DEF TypeOK
    <2>3. TypeOK'
      BY <1>1, <1>9, <2>1 DEF TypeOK, PeerType
    <2>4. \A q \in Request \ {r} : /\ d_context'[q] = d_context[q] /\ loader'[q] = loader[q]
                                   /\ addedData'[q] = addedData[q] /\ peer'[q] = peer[q]
      BY <1>1, <1>9 DEF TypeOK
    <2>5. call'.request \in {r, NoRequest}
      BY <1>2, <1>9
    <2> QED BY <1>1, <1>2, <1>9, <2>1, <2>2, <2>3, <2>4, <2>5, CallKeeps
  <1>10. One(call.request = r /\ call.at = "data") = 0
    BY <1>2 DEF One
  <1>11. CASE /\ c.d_waitingForCancelLoad \/ ~c.d_peer
              /\ d_context' = [d_context EXCEPT ![r] = f]
              /\ UNCHANGED <<call, peer>>
    <2>1. d_context'[r] = f /\ peer' = [peer EXCEPT ![r] = p]
      BY <1>1, <1>11 DEF TypeOK
    <2>2. Tracks(r)'
      BY ZenonT(40), <1>1, <1>3, <1>5, <1>8, <1>11, <2>1 DEF RequestInv, Tracks
    <2>3. Fresh(r)' /\ Faithful(r)'
      BY <1>1, <1>3, <1>11 DEF Fresh, Faithful
    <2>4. Delivers(r)'
      BY <1>1, <1>2, <1>3, <1>11 DEF RequestInv, Delivers
    <2>5. RequestInv(r)'
      BY <2>2, <2>3, <2>4 DEF RequestInv
    <2>6. ~ApplicationHolds(r)'
      BY <1>2, <1>5, <1>8, <1>11, <2>1 DEF ApplicationHolds
    <2>7. One(ApplicationHolds(r)') = One(ApplicationHolds(r)) + (-1)
      BY <1>4, <2>6 DEF One
    <2>8. f.ref_count = d.ref_count + (-1)
      BY <1>5, <1>8
    <2>9. f \in {c, h, f} /\ -1 \in Int
      OBVIOUS
    <2> QED BY Zenon, <1>1, <1>9, <1>11, <2>1, <2>5, <2>7, <2>8, <2>9
  <1>12. CASE /\ ~c.d_waitingForCancelLoad /\ c.d_peer
              /\ c.d_responseHeaders
              /\ d_context' = [d_context EXCEPT ![r] = h]
              /\ peer' = [peer EXCEPT ![r] = [p EXCEPT !.responses = p.responses + 1]]
              /\ call' = [at |-> "finish", request |-> r]
    <2> DEFINE y == [p EXCEPT !.responses = p.responses + 1]
    <2>1. d_context'[r] = h /\ peer'[r] = y
      BY <1>1, <1>12 DEF TypeOK
    <2>2. /\ y \in PeerType /\ y.responses = 1 /\ y.data = p.data /\ y.completed = <<>>
      <3>1. p.responses = 0
        BY <1>1, <1>5, <1>12 DEF RequestInv, Tracks
      <3>2. y \in PeerType /\ y.responses = p.responses + 1 /\ y.data = p.data
            /\ y.completed = p.completed
        BY <1>1, PeerFields
      <3> HIDE DEF y
      <3> QED BY <1>3, <3>1, <3>2
    <2>3. peer' = [peer EXCEPT ![r] = y]
      BY <1>12
    <2> HIDE DEF y
    <2>4. Tracks(r)'
      <3>1. y.responses # 0 /\ 1 \in {0, 1}
        BY <2>2
      <3> QED BY ZenonT(40), <1>1, <1>3, <1>5, <1>7, <1>12, <2>1, <2>2, <3>1 DEF RequestInv, Tracks
    <2>5. Fresh(r)' /\ Faithful(r)'
      BY <1>1, <1>3, <2>1, <2>2 DEF Fresh, Faithful
    <2>6. Delivers(r)'
      <3>1. One(call'.request = r /\ call'.at = "data") = 0
        BY <1>12 DEF One
      <3>2. pending_requests_'[r] = "pending" =>
              addedData'[r] = peer'[r].data + One(call'.request = r /\ call'.at = "data")
        BY <1>1, <1>10, <2>1, <2>2, <3>1 DEF RequestInv, Delivers
      <3>3. peer'[r].completed = <<>>
        BY <2>1, <2>2
      <3>4. ~d_context'[r].d_responseHeaders /\ loader'[r] = "finished" /\ call'.at # "data"
        BY <1>1, <1>7, <1>12, <2>1
      <3> QED BY <3>2, <3>3, <3>4 DEF Delivers
    <2>7. RequestInv(r)'
      BY <2>4, <2>5, <2>6 DEF RequestInv
    <2>8. ApplicationHolds(r)'
      BY <1>3, <1>5, <1>7, <1>12, <2>1 DEF ApplicationHolds
    <2>9. One(ApplicationHolds(r)') = One(ApplicationHolds(r)) + 0
      BY <1>4, <2>8 DEF One
    <2>10. h.ref_count = d.ref_count + 0
      BY <1>1, <1>5, <1>7, ContextFields
    <2>11. h \in {c, h, f} /\ 0 \in Int
      OBVIOUS
    <2> QED BY Zenon, <1>9, <1>12, <2>2, <2>3, <2>7, <2>9, <2>10, <2>11
  <1>13. CASE /\ ~c.d_waitingForCancelLoad /\ c.d_peer
              /\ ~c.d_responseHeaders
              /\ d_context' = [d_context EXCEPT ![r] = c]
              /\ peer' = Complete(r, ErrorCode(c))
              /\ call' = [at |-> "release", request |-> r]
    <2> DEFINE code == ErrorCode(c)
               y == [p EXCEPT !.completed = Append(p.completed, code)]
    <2>1. /\ code \in Codes
          /\ code = "OK" => ~c.d_failed
          /\ code = "ERR_FAILED" => c.d_failed
      BY DEF ErrorCode, Codes
    <2>2. /\ peer' = [peer EXCEPT ![r] = y] /\ peer'[r] = y /\ d_context'[r] = c
      BY <1>1, <1>5, <1>13 DEF Complete, TypeOK
    <2> HIDE DEF code
    <2>3. /\ y \in PeerType /\ y.responses = p.responses /\ y.data = p.data
          /\ p.completed = <<>> => y.completed = <<code>>
      BY <1>1, <2>1, PeerFields
    <2> HIDE DEF y
    <2>4. y.completed = <<code>>
      BY <1>3, <2>3
    <2>5. pending_requests_[r] = "pending"
      BY <1>1, <1>5, <1>13 DEF RequestInv, Tracks
    <2>6. p.data = addedData[r]
      BY <1>1, <1>3, <1>10, <2>5 DEF RequestInv, Delivers
    <2>7. Tracks(r)'
      BY Zenon, <1>1, <1>3, <1>5, <1>13, <2>2, <2>3, <2>5 DEF RequestInv, Tracks
    <2>8. Fresh(r)'
      BY <1>1, <1>3 DEF Fresh
    <2>9. Faithful(r)'
      <3>1. \A z : <<code>> = <<z>> => code = z
        OBVIOUS
      <3>2. c.d_totalTransferSize = addedData[r]
        BY <1>1, <1>5 DEF RequestInv, Tracks
      <3> QED BY <1>1, <2>1, <2>2, <2>3, <2>4, <2>6, <3>1, <3>2 DEF Faithful
    <2>10. Delivers(r)'
      <3>1. One(call'.request = r /\ call'.at = "data") = 0
        BY <1>13 DEF One
      <3>2. addedData'[r] = peer'[r].data + One(call'.request = r /\ call'.at = "data")
        BY <1>1, <1>3, <2>2, <2>3, <2>6, <3>1
      <3>3. /\ ~d_context'[r].d_responseHeaders /\ loader'[r] = "finished"
            /\ call'.at = "release"
        BY <1>1, <1>13, <2>2
      <3> QED BY <3>2, <3>3 DEF Delivers
    <2>11. RequestInv(r)'
      BY <2>7, <2>8, <2>9, <2>10 DEF RequestInv
    <2>12. ApplicationHolds(r)'
      BY <1>3, <1>5, <1>13, <2>2 DEF ApplicationHolds
    <2>13. One(ApplicationHolds(r)') = One(ApplicationHolds(r)) + 0
      BY <1>4, <2>12 DEF One
    <2>14. c.ref_count = d.ref_count + 0
      BY <1>1, <1>5, ContextFields
    <2>15. c \in {c, h, f} /\ 0 \in Int
      OBVIOUS
    <2> QED BY Zenon, <1>9, <1>13, <2>2, <2>3, <2>11, <2>13, <2>14, <2>15
  <1> QED BY <1>6, <1>11, <1>12, <1>13

-----------------------------------------------------------------------------
(* The theorems.                                                           *)

\* The initial state.
LEMMA LoaderInvInit == Init => LoaderInv
  <1> SUFFICES ASSUME Init PROVE LoaderInv
    OBVIOUS
  <1> USE DEF Init
  <1>1. NoContext \in Context /\ NoContext.ref_count = 0 /\ ~NoContext.d_peer
        /\ NoContext.d_responseHeaders /\ NoContext.d_totalTransferSize = 0
        /\ ~NoContext.d_started /\ ~NoContext.d_finished /\ ~NoContext.d_canceled
        /\ ~NoContext.d_waitingForCancelLoad
    BY DEF NoContext, NewContext, Context
  <1>2. TypeOK
    <2>1. <<>> \in Seq(Task) /\ <<>> \in Seq(Codes)
      BY EmptySeq
    <2> QED BY <1>1, <2>1, DataAssumption DEF TypeOK, Task
  <1>3. NoTask.request \notin Request /\ NoCall.request \notin Request
    BY RequestAssumption DEF NoTask, NoCall
  <1>4. Len(tasks) = 0 /\ 1 .. Len(tasks) = {}
    BY EmptySeq
  <1>5. ASSUME NEW r \in Request PROVE d_context[r].ref_count = Holders(r)
    <2>1. Queued(tasks, r) = 0
      BY <1>4, FS_EmptySet DEF Queued
    <2>2. ~ApplicationHolds(r)
      BY <1>1 DEF ApplicationHolds
    <2> QED BY <1>1, <1>3, <2>1, <2>2, HoldersAre DEF One
  <1>6. TasksAreOrdered
    BY <1>4 DEF TasksAreOrdered
  <1>7. ASSUME NEW r \in Request PROVE RequestInv(r)
    <2>1. Tracks(r)
      BY <1>1 DEF Tracks
    <2>2. Fresh(r) /\ Faithful(r)
      BY <1>3 DEF Fresh, Faithful
    <2>3. Delivers(r)
      BY <1>3 DEF Delivers
    <2> QED BY <2>1, <2>2, <2>3 DEF RequestInv
  <1> QED BY <1>2, <1>5, <1>6, <1>7 DEF LoaderInv, RefCountIsBalanced

\* Every step.
LEMMA LoaderInvNext == LoaderInv /\ [Next]_vars => LoaderInv'
  <1> SUFFICES ASSUME LoaderInv, [Next]_vars PROVE LoaderInv'
    OBVIOUS
  <1>1. ASSUME NEW r \in Request, PeerStep(r) \/ ApplicationStep(r) PROVE LoaderInv'
    BY <1>1, StartAsyncKeeps, CancelKeeps, RemovePendingRequestKeeps,
       AddResponseDataKeeps, FailedKeeps, FinishKeeps DEF PeerStep, ApplicationStep
  <1>2. CASE startLoad
    <2>1. Head(tasks).request \in Request
      BY <1>2, RunTaskFacts DEF startLoad
    <2> QED BY <1>2, <2>1, StartLoadKeeps
  <1>3. CASE cancelLoad
    <2>1. Head(tasks).request \in Request
      BY <1>3, RunTaskFacts DEF cancelLoad
    <2> QED BY <1>3, <2>1, CancelLoadKeeps
  <1>4. CASE TaskReturns
    <2>1. running.request \in Request
      BY <1>4 DEF TaskReturns, LoaderInv, TypeOK
    <2> QED BY <1>4, <2>1, TaskReturnsKeeps
  <1>5. CASE ContinueCall
    <2>1. call # NoCall
      BY <1>5 DEF ContinueCall, addResponseDataContinues, finishContinues, finishReleases,
                  NoCall
    <2>2. call.request \in Request
      BY <2>1, CallFacts DEF LoaderInv
    <2> QED BY <1>5, <2>2, AddResponseDataContinuesKeeps, FinishContinuesKeeps,
               FinishReleasesKeeps DEF ContinueCall
  <1>6. CASE UNCHANGED vars
    <2>1. TypeOK' /\ TasksAreOrdered'
      <3>1. TypeOK'
        BY <1>6 DEF vars, LoaderInv, TypeOK
      <3>2. ASSUME NEW x \in Task, Due(x) PROVE Due(x)'
        BY <1>6, <3>2 DEF vars, Due
      <3>3. tasks' = tasks
        BY <1>6 DEF vars
      <3> QED BY <3>1, <3>2, <3>3, PostedInOrder DEF LoaderInv
    <2>2. ASSUME NEW r \in Request
          PROVE  RequestInv(r)' /\ d_context'[r].ref_count = Holders(r)'
      <3>1. Kept(r) /\ tasks' = tasks /\ running' = running
        BY <1>6 DEF vars, Kept
      <3>2. tasks \in Seq(Task)
        BY DEF LoaderInv, TypeOK, Task
      <3>3. Queued(tasks, r) \in Nat
        BY <3>2, QueuedFacts
      <3> QED BY <3>1, <3>3, KeptRequest, KeptReferences DEF LoaderInv
    <2> QED BY <2>1, <2>2 DEF LoaderInv, RefCountIsBalanced
  <1> QED BY <1>1, <1>2, <1>3, <1>4, <1>5, <1>6 DEF Next, LoopStep

\* LoaderInv is an invariant.
THEOREM LoaderInvIsInvariant == Spec => []LoaderInv
  BY LoaderInvInit, LoaderInvNext, PTL DEF Spec

\* Type correctness: in particular no reference count falls below zero.
THEOREM TypeCorrect == Spec => []TypeOK
  <1>1. LoaderInv => TypeOK
    BY DEF LoaderInv
  <1> QED BY <1>1, LoaderInvIsInvariant, PTL

\* The AddRef and Release calls of startLoad and finish, the bridge's
\* reference and those of the posted tasks are balanced in every state.
THEOREM RefCountIsAlwaysBalanced == Spec => []RefCountIsBalanced
  <1>1. LoaderInv => RefCountIsBalanced
    BY DEF LoaderInv
  <1> QED BY <1>1, LoaderInvIsInvariant, PTL

\* A request completed with OK has delivered all of its data, and only a load
\* that failed completes with ERR_FAILED.
THEOREM CompletionIsAlwaysFaithful == Spec => []CompletionIsFaithful
  <1>1. LoaderInv => CompletionIsFaithful
    BY DEF LoaderInv, RequestInv, Faithful, CompletionIsFaithful
  <1> QED BY <1>1, LoaderInvIsInvariant, PTL

\* The assertions of the two tasks: startLoad finds a load neither started nor
\* canceled, cancelLoad one that waits for it.
TaskDChecks ==
  tasks # <<>> =>
    LET c == d_context[Head(tasks).request] IN
      /\ Head(tasks).fn = "startLoad" => ~c.d_started /\ ~c.d_canceled
      /\ Head(tasks).fn = "cancelLoad" => c.d_waitingForCancelLoad

\* The DCHECKs at the beginning of startLoad and cancelLoad hold whatever has
\* happened since the task was posted.
THEOREM TaskDChecksHold == Spec => []TaskDChecks
  <1>1. ASSUME LoaderInv PROVE TaskDChecks
    <2>1. tasks \in Seq(Task)
      BY <1>1 DEF LoaderInv, TypeOK, Task
    <2>2. ASSUME tasks # <<>>
          PROVE  Due(Head(tasks)) /\ Head(tasks).request \in Request
      <3>1. Head(tasks) \in Task /\ Head(tasks) = tasks[1] /\ 1 \in 1 .. Len(tasks)
        BY <2>1, <2>2, QueueFacts
      <3> QED BY <1>1, <3>1 DEF LoaderInv, TasksAreOrdered, Task
    <2> QED BY <1>1, <2>2 DEF TaskDChecks, Due, LoaderInv, RequestInv, Tracks
  <1> QED BY <1>1, LoaderInvIsInvariant, PTL

\* What one callback may do to what the peer of a pending request has been
\* told: the response comes first, and once.
Called(p, y) ==
  /\ p.completed = <<>>
  /\ p.responses = 0 => y = [p EXCEPT !.responses = 1]
  /\ p.responses = 1 => y.responses = 1

\* A step that calls a peer calls that of one request only.
LEMMA CallsInOrder ==
  ASSUME LoaderInv, NEW r \in Request, NEW y, peer' = [peer EXCEPT ![r] = y],
         y # peer[r] => pending_requests_[r] = "pending" /\ Called(peer[r], y)
  PROVE  \A q \in Request : peer'[q] # peer[q] =>
           /\ pending_requests_[q] = "pending"
           /\ peer[q].completed = <<>>
           /\ peer[q].responses = 0 => peer'[q] = [peer[q] EXCEPT !.responses = 1]
           /\ peer[q].responses = 1 => peer'[q].responses = 1
  <1>1. peer'[r] = y /\ \A q \in Request : q # r => peer'[q] = peer[q]
    BY DEF LoaderInv, TypeOK
  <1> QED BY <1>1 DEF Called

\* Every step calls peers in order.
LEMMA StepCallsInOrder ==
  ASSUME LoaderInv, Next
  PROVE  \A q \in Request : peer'[q] # peer[q] =>
           /\ pending_requests_[q] = "pending"
           /\ peer[q].completed = <<>>
           /\ peer[q].responses = 0 => peer'[q] = [peer[q] EXCEPT !.responses = 1]
           /\ peer[q].responses = 1 => peer'[q].responses = 1
  <1> DEFINE Goal == \A q \in Request : peer'[q] # peer[q] =>
                       /\ pending_requests_[q] = "pending"
                       /\ peer[q].completed = <<>>
                       /\ peer[q].responses = 0 => peer'[q] = [peer[q] EXCEPT !.responses = 1]
                       /\ peer[q].responses = 1 => peer'[q].responses = 1
  <1>1. TypeOK /\ \A r \in Request : RequestInv(r) /\ peer[r] \in PeerType
    BY DEF LoaderInv, TypeOK, PeerType
  <1>2. peer' = peer => Goal
    OBVIOUS
  <1> HIDE DEF Goal
  <1>3. ASSUME NEW r \in Request, addResponseData(r) PROVE Goal
    <2> DEFINE p == peer[r]
    <2>1. loader[r] \in {"loading", "cancelled"}
      BY <1>3 DEF addResponseData, Loading
    <2>2. p.completed = <<>> /\ p.responses \in {0, 1}
      BY <1>1, <2>1 DEF RequestInv, Delivers, Tracks
    <2>3. CASE ~d_context[r].d_peer
      <3>1. peer' = peer
        BY <1>1, <1>3, <2>3, ContextFields DEF addResponseData, TypeOK, Context
      <3> QED BY <1>2, <3>1
    <2>4. CASE d_context[r].d_peer /\ d_context[r].d_responseHeaders
      <3> DEFINE y == [p EXCEPT !.responses = p.responses + 1]
      <3>1. peer' = [peer EXCEPT ![r] = y]
        BY <1>1, <1>3, <2>4 DEF addResponseData, TypeOK, Context
      <3>2. pending_requests_[r] = "pending" /\ p.responses = 0
        BY <1>1, <2>4 DEF RequestInv, Tracks
      <3>3. Called(p, y)
        BY <2>2, <3>2 DEF Called
      <3> HIDE DEF y
      <3> QED BY <3>1, <3>2, <3>3, CallsInOrder DEF Goal
    <2>5. CASE d_context[r].d_peer /\ ~d_context[r].d_responseHeaders
      <3> DEFINE y == [p EXCEPT !.data = p.data + 1]
      <3>1. peer' = [peer EXCEPT ![r] = y]
        BY <1>1, <1>3, <2>5 DEF addResponseData, TypeOK, Context
      <3>2. pending_requests_[r] = "pending" /\ p.responses # 0
        BY <1>1, <2>5 DEF RequestInv, Tracks
      <3>3. Called(p, y)
        BY <1>1, <2>2, <3>2, PeerFields DEF Called
      <3> HIDE DEF y
      <3> QED BY <3>1, <3>2, <3>3, CallsInOrder DEF Goal
    <2> QED BY <2>3, <2>4, <2>5
  <1>4. ASSUME addResponseDataContinues PROVE Goal
    <2> DEFINE r == call.request
               p == peer[r]
               y == [p EXCEPT !.data = p.data + 1]
    <2>1. call # NoCall /\ call.at = "data"
      BY <1>4 DEF addResponseDataContinues, NoCall
    <2>2. r \in Request
      BY <1>1, <2>1, CallFacts
    <2>3. p.completed = <<>> /\ p.responses = 1
      BY <1>1, <2>1, <2>2 DEF RequestInv, Delivers, Tracks, Loading
    <2>4. CASE ~d_context[r].d_peer
      BY <1>2, <1>4, <2>4 DEF addResponseDataContinues
    <2>5. CASE d_context[r].d_peer
      <3>1. peer' = [peer EXCEPT ![r] = y]
        BY <1>4, <2>5 DEF addResponseDataContinues
      <3>2. pending_requests_[r] = "pending"
        BY <1>1, <2>2, <2>5 DEF RequestInv, Tracks
      <3>3. Called(p, y)
        BY <1>1, <2>2, <2>3, PeerFields DEF Called
      <3> HIDE DEF y
      <3> QED BY <2>2, <3>1, <3>2, <3>3, CallsInOrder DEF Goal
    <2> QED BY <2>4, <2>5
  <1>5. ASSUME NEW r \in Request, NEW code \in Codes, peer' = Complete(r, code),
               peer[r].completed = <<>>, peer[r].responses = 1 \/ ~d_context[r].d_peer
        PROVE  Goal
    <2> DEFINE p == peer[r]
               y == [p EXCEPT !.completed = Append(p.completed, code)]
    <2>1. CASE ~d_context[r].d_peer
      BY <1>2, <1>5, <2>1 DEF Complete
    <2>2. CASE d_context[r].d_peer
      <3>1. peer' = [peer EXCEPT ![r] = y]
        BY <1>5, <2>2 DEF Complete
      <3>2. pending_requests_[r] = "pending"
        BY <1>1, <2>2 DEF RequestInv, Tracks
      <3>3. y.responses = p.responses
        BY <1>1, PeerFields
      <3> HIDE DEF y
      <3>4. Called(p, y)
        BY <1>5, <2>2, <3>3 DEF Called
      <3> QED BY <3>1, <3>2, <3>4, CallsInOrder DEF Goal
    <2> QED BY <2>1, <2>2
  <1>6. \A c : ErrorCode(c) \in Codes
    BY DEF ErrorCode, Codes
  <1>7. ASSUME NEW r \in Request, finish(r) PROVE Goal
    <2> DEFINE p == peer[r]
               c == [d_context[r] EXCEPT !.d_finished = TRUE]
    <2>1. loader[r] \in {"loading", "cancelled"}
      BY <1>7 DEF finish, Loading
    <2>2. p.completed = <<>> /\ p.responses \in {0, 1}
      BY <1>1, <2>1 DEF RequestInv, Delivers, Tracks
    <2>3. /\ c.d_peer = d_context[r].d_peer
          /\ c.d_responseHeaders = d_context[r].d_responseHeaders
      BY <1>1 DEF TypeOK, Context
    <2>4. \/ peer' = peer
          \/ c.d_peer /\ c.d_responseHeaders
             /\ peer' = [peer EXCEPT ![r] = [p EXCEPT !.responses = p.responses + 1]]
          \/ c.d_peer /\ ~c.d_responseHeaders /\ peer' = Complete(r, ErrorCode(c))
      BY <1>7 DEF finish
    <2> HIDE DEF c
    <2>5. CASE c.d_peer /\ c.d_responseHeaders
               /\ peer' = [peer EXCEPT ![r] = [p EXCEPT !.responses = p.responses + 1]]
      <3> DEFINE y == [p EXCEPT !.responses = p.responses + 1]
      <3>1. pending_requests_[r] = "pending" /\ p.responses = 0
        BY <1>1, <2>3, <2>5 DEF RequestInv, Tracks
      <3>2. Called(p, y)
        BY <2>2, <3>1 DEF Called
      <3>3. peer' = [peer EXCEPT ![r] = y]
        BY <2>5
      <3> HIDE DEF y
      <3> QED BY <3>1, <3>2, <3>3, CallsInOrder DEF Goal
    <2>6. CASE c.d_peer /\ ~c.d_responseHeaders /\ peer' = Complete(r, ErrorCode(c))
      <3>1. p.responses = 1
        BY <1>1, <2>2, <2>3, <2>6 DEF RequestInv, Tracks
      <3> QED BY <1>5, <1>6, <2>2, <2>6, <3>1
    <2> QED BY <1>2, <2>4, <2>5, <2>6
  <1>8. ASSUME finishContinues PROVE Goal
    <2>1. call # NoCall /\ call.at = "finish"
      BY <1>8 DEF finishContinues, NoCall
    <2>2. call.request \in Request
      BY <1>1, <2>1, CallFacts
    <2>3. peer[call.request].completed = <<>> /\ peer[call.request].responses = 1
      BY <1>1, <2>1, <2>2 DEF RequestInv, Delivers, Tracks
    <2>4. peer' = Complete(call.request, ErrorCode(d_context[call.request]))
      BY <1>8 DEF finishContinues
    <2>5. ErrorCode(d_context[call.request]) \in Codes
      BY <1>6
    <2> QED BY Zenon, <1>5, <2>2, <2>3, <2>4, <2>5
  <1>9. ASSUME cancelLoad PROVE Goal
    <2>1. /\ Head(tasks).request \in Request /\ Due(Head(tasks))
          /\ Head(tasks).fn = "cancelLoad"
      BY <1>9, RunTaskFacts DEF cancelLoad
    <2>2. ~d_context[Head(tasks).request].d_peer
      BY <1>1, <2>1 DEF Due, RequestInv, Tracks
    <2>3. peer' = peer
      BY <1>9, <2>2 DEF cancelLoad, Complete
    <2> QED BY <1>2, <2>3
  <1>10. ASSUME \/ \E r \in Request : PeerStep(r) \/ failed(r)
                \/ startLoad \/ TaskReturns \/ finishReleases
         PROVE  Goal
    <2>1. peer' = peer
      BY <1>10 DEF PeerStep, StartAsync, Cancel, RemovePendingRequest, failed, startLoad,
                   TaskReturns, finishReleases
    <2> QED BY <1>2, <2>1
  <1> HIDE DEF Goal
  <1>11. \/ \E r \in Request : addResponseData(r) \/ finish(r)
         \/ addResponseDataContinues \/ finishContinues \/ cancelLoad
         \/ \E r \in Request : PeerStep(r) \/ failed(r)
         \/ startLoad \/ TaskReturns \/ finishReleases
    BY DEF Next, ApplicationStep, LoopStep, ContinueCall
  <1>12. Goal
    BY Zenon, <1>3, <1>4, <1>7, <1>8, <1>9, <1>10, <1>11
  <1> QED BY <1>12 DEF Goal

\* The peer is called only while its request is pending and not complete, and
\* gets its response before anything else and once.
THEOREM PeerIsAlwaysCalledInOrder == Spec => PeerIsCalledInOrder
  <1>1. LoaderInv /\ [Next]_vars =>
          [\A r \in Request : peer'[r] # peer[r] =>
             /\ pending_requests_[r] = "pending"
             /\ peer[r].completed = <<>>
             /\ peer[r].responses = 0 => peer'[r] = [peer[r] EXCEPT !.responses = 1]
             /\ peer[r].responses = 1 => peer'[r].responses = 1]_vars
    BY StepCallsInOrder
  <1> QED BY <1>1, LoaderInvIsInvariant, PTL DEF Spec, PeerIsCalledInOrder

\* Only cancelLoad takes its task from the queue, and it cancels only a load
\* that the application has and has not been told to cancel.
LEMMA StepCancelsWhileLoading ==
  ASSUME LoaderInv, Next, NEW r \in Request,
         running = NoTask, running' = [fn |-> "cancelLoad", request |-> r],
         loader'[r] = "cancelled"
  PROVE  loader[r] = "loading"
  <1>1. running' # running
    BY RequestAssumption DEF NoTask
  <1>2. startLoad \/ cancelLoad
    BY <1>1 DEF Next, PeerStep, StartAsync, Cancel, RemovePendingRequest, ApplicationStep,
                addResponseData, failed, finish, LoopStep, TaskReturns, ContinueCall,
                addResponseDataContinues, finishContinues, finishReleases
  <1>3. cancelLoad /\ Head(tasks) = [fn |-> "cancelLoad", request |-> r]
    BY <1>2 DEF startLoad, cancelLoad, RunTask
  <1>4. Due(Head(tasks))
    BY <1>3, RunTaskFacts DEF cancelLoad
  <1>5. TypeOK /\ RequestInv(r) /\ ~d_context[r].d_canceled
    BY <1>3, <1>4 DEF LoaderInv, Due
  <1>6. loader[r] \in {"idle", "loading", "cancelled", "finished"}
    BY <1>5 DEF TypeOK
  <1>7. loader[r] # "cancelled"
    BY <1>5 DEF RequestInv, Tracks
  <1>8. d_context[r].d_started /\ ~d_context[r].d_finished
    BY <1>3, <1>7 DEF cancelLoad
  <1> QED BY <1>5, <1>6, <1>7, <1>8 DEF RequestInv, Tracks

\* ResourceLoader::cancel is called for loads in progress only, and once.
THEOREM LoaderIsCanceledOnlyWhileLoading == Spec => LoaderIsCanceledWhileLoading
  <1>1. LoaderInv /\ [Next]_vars =>
          [\A r \in Request :
             /\ running = NoTask
             /\ running' = [fn |-> "cancelLoad", request |-> r]
             /\ loader'[r] = "cancelled"
             => loader[r] = "loading"]_vars
    BY StepCancelsWhileLoading
  <1> QED BY <1>1, LoaderInvIsInvariant, PTL DEF Spec, LoaderIsCanceledWhileLoading
=============================================================================
