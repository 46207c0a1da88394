----------------------- MODULE InProcessResourceLoader -----------------------
(***************************************************************************)
(* The resource loads that the application serves itself: the requests of  *)
(* content::ResourceDispatcher that have a bridge, blpwtk2's               *)
(* InProcessResourceLoaderBridge and its InProcessResourceContext, and the *)
(* application's ResourceLoader on the other side.                         *)
(*                                                                         *)
(* Everything runs on the application's main thread, but not in order: the *)
(* context starts and cancels the load from posted tasks, the application  *)
(* answers at any time, also from inside those tasks, and the peer may     *)
(* cancel or drop its request from inside every callback it gets.  A step  *)
(* ends where foreign code runs: `running' is the posted task on the       *)
(* stack, `call' the application's call into the context that is waiting   *)
(* for a callback of the peer to return.                                   *)
(*                                                                         *)
(* The application keeps the contract of blpwtk2_resourcecontext.h: it     *)
(* calls a context between start and finish, and failed is followed by     *)
(* finish.  Headers and bytes are counted, not kept.                       *)
(***************************************************************************)
EXTENDS Integers, Sequences, FiniteSets

CONSTANTS Request,     \* request ids
          NoRequest,   \* no request
          MaxData      \* bound on the chunks the application adds per request

ASSUME RequestAssumption == NoRequest \notin Request
ASSUME DataAssumption == MaxData \in Nat

VARIABLES
  pending_requests_,     \* [Request -> {"new", "pending", "removed"}]
  d_context,             \* the context of each request
  tasks,                 \* startLoad and cancelLoad tasks on the message loop
  running,               \* the task on the stack
  call,                  \* the call into a context that is on the stack
  loader,                \* what the application knows of each load
  addedData,             \* chunks the application has added
  peer                   \* what the peer of each request has been told

vars == <<pending_requests_, d_context, tasks, running, call, loader, addedData, peer>>

NoTask == [fn |-> "none", request |-> NoRequest]
NoCall == [at |-> "none", request |-> NoRequest]

Codes == {"OK", "ERR_FAILED", "ERR_ABORTED"}

Context == [ref_count : Nat,
            d_peer : BOOLEAN, d_responseHeaders : BOOLEAN,
            d_totalTransferSize : Nat,
            d_started : BOOLEAN, d_waitingForCancelLoad : BOOLEAN,
            d_canceled : BOOLEAN, d_failed : BOOLEAN, d_finished : BOOLEAN]

\* A context as the bridge's constructor makes it, with the bridge's reference.
NewContext == [ref_count |-> 1,
               d_peer |-> FALSE, d_responseHeaders |-> TRUE,
               d_totalTransferSize |-> 0,
               d_started |-> FALSE, d_waitingForCancelLoad |-> FALSE,
               d_canceled |-> FALSE, d_failed |-> FALSE, d_finished |-> FALSE]

NoContext == [NewContext EXCEPT !.ref_count = 0]

Init ==
  /\ pending_requests_ = [r \in Request |-> "new"]
  /\ d_context = [r \in Request |-> NoContext]
  /\ tasks = <<>>
  /\ running = NoTask
  /\ call = NoCall
  /\ loader = [r \in Request |-> "idle"]
  /\ addedData = [r \in Request |-> 0]
  /\ peer = [r \in Request |-> [responses |-> 0, data |-> 0, completed |-> <<>>]]

-----------------------------------------------------------------------------
(* ResourceDispatcher and the bridge, on behalf of the peer.               *)

\* StartAsync: create the bridge, Start it, record the pending request.  The
\* posted task holds a reference to the context.
StartAsync(r) ==
  /\ pending_requests_[r] = "new"
  /\ pending_requests_' = [pending_requests_ EXCEPT ![r] = "pending"]
  /\ d_context' = [d_context EXCEPT
                     ![r] = [NewContext EXCEPT !.d_peer = TRUE, !.ref_count = 2]]
  /\ tasks' = Append(tasks, [fn |-> "startLoad", request |-> r])
  /\ UNCHANGED <<running, call, loader, addedData, peer>>

\* ~InProcessResourceLoaderBridge: dispose the context, drop the reference.
Disposed(c) == [c EXCEPT !.d_peer = FALSE, !.ref_count = @ - 1]

\* RemovePendingRequest deletes the bridge.
RemovePendingRequest(r) ==
  /\ pending_requests_[r] = "pending"
  /\ pending_requests_' = [pending_requests_ EXCEPT ![r] = "removed"]
  /\ d_context' = [d_context EXCEPT ![r] = Disposed(@)]
  /\ UNCHANGED <<tasks, running, call, loader, addedData, peer>>

CancelIsIgnored(c) == c.d_waitingForCancelLoad \/ c.d_canceled

\* A cancel that is not ignored; the posted task holds a reference.
CancelPosted(c) == [c EXCEPT !.d_waitingForCancelLoad = TRUE, !.ref_count = @ + 1]

\* ResourceDispatcher::Cancel: cancel the bridge, which posts cancelLoad
\* unless it already has, and then RemovePendingRequest.
Cancel(r) ==
  /\ pending_requests_[r] = "pending"
  /\ pending_requests_' = [pending_requests_ EXCEPT ![r] = "removed"]
  /\ IF CancelIsIgnored(d_context[r])
     THEN /\ d_context' = [d_context EXCEPT ![r] = Disposed(@)]
          /\ UNCHANGED tasks
     ELSE /\ d_context' = [d_context EXCEPT ![r] = Disposed(CancelPosted(@))]
          /\ tasks' = Append(tasks, [fn |-> "cancelLoad", request |-> r])
  /\ UNCHANGED <<running, call, loader, addedData, peer>>

-----------------------------------------------------------------------------
(* The posted tasks.  The message loop runs them one at a time, in order.  *)

RunTask(fn) ==
  /\ running = NoTask /\ call = NoCall
  /\ tasks # <<>>
  /\ Head(tasks).fn = fn
  /\ running' = Head(tasks)
  /\ tasks' = Tail(tasks)

\* Mutant: no reference is taken for the application.
startLoadNoAddRef ==
  /\ RunTask("startLoad")
  /\ LET r == Head(tasks).request IN
       IF d_context[r].d_waitingForCancelLoad
       THEN UNCHANGED <<d_context, loader>>
       ELSE /\ d_context' = [d_context EXCEPT ![r].d_started = TRUE]
            /\ loader' = [loader EXCEPT ![r] = "loading"]
  /\ UNCHANGED <<pending_requests_, call, addedData, peer>>

\* Start the load on the application, with a reference on its behalf.
startLoad ==
  /\ RunTask("startLoad")
  /\ LET r == Head(tasks).request IN
       IF d_context[r].d_waitingForCancelLoad
       THEN UNCHANGED <<d_context, loader>>
       ELSE /\ d_context' = [d_context EXCEPT ![r].d_started = TRUE,
                                              ![r].ref_count = @ + 1]
            /\ loader' = [loader EXCEPT ![r] = "loading"]
  /\ UNCHANGED <<pending_requests_, call, addedData, peer>>

\* OnCompletedRequest(code), if there still is a peer.
Complete(r, code) ==
  IF d_context[r].d_peer
  THEN [peer EXCEPT ![r].completed = Append(@, code)]
  ELSE peer

\* Mutant: the application is told to cancel what it has already finished.
cancelLoadThoughFinished ==
  /\ RunTask("cancelLoad")
  /\ LET r == Head(tasks).request IN
       IF ~d_context[r].d_started
       THEN /\ peer' = Complete(r, "ERR_ABORTED")
            /\ UNCHANGED <<d_context, loader>>
       ELSE /\ d_context' = [d_context EXCEPT ![r].d_waitingForCancelLoad = FALSE,
                                              ![r].d_canceled = TRUE]
            /\ loader' = [loader EXCEPT ![r] = "cancelled"]
            /\ UNCHANGED peer
  /\ UNCHANGED <<pending_requests_, call, addedData>>

\* Tell the application to cancel, unless the load never reached it or it has
\* finished in the meantime.
cancelLoad ==
  /\ RunTask("cancelLoad")
  /\ LET r == Head(tasks).request IN
       IF ~d_context[r].d_started \/ d_context[r].d_finished
       THEN /\ peer' = Complete(r, "ERR_ABORTED")
            /\ UNCHANGED <<d_context, loader>>
       ELSE /\ d_context' = [d_context EXCEPT ![r].d_waitingForCancelLoad = FALSE,
                                              ![r].d_canceled = TRUE]
            /\ loader' = [loader EXCEPT ![r] = "cancelled"]
            /\ UNCHANGED peer
  /\ UNCHANGED <<pending_requests_, call, addedData>>

\* The task returns and is destroyed with the reference it holds.
TaskReturns ==
  /\ running # NoTask /\ call = NoCall
  /\ d_context' = [d_context EXCEPT ![running.request].ref_count = @ - 1]
  /\ running' = NoTask
  /\ UNCHANGED <<pending_requests_, tasks, call, loader, addedData, peer>>

-----------------------------------------------------------------------------
(* The application's calls into a context.                                 *)

Loading(r) == loader[r] \in {"loading", "cancelled"}

\* addResponseData.  The first data sends the headers; what follows happens
\* after the peer's OnReceivedResponse has returned.
addResponseData(r) ==
  /\ call = NoCall
  /\ Loading(r)
  /\ ~d_context[r].d_failed
  /\ addedData[r] < MaxData
  /\ addedData' = [addedData EXCEPT ![r] = @ + 1]
  /\ LET c == [d_context[r] EXCEPT !.d_totalTransferSize = @ + 1] IN
       \/ /\ ~c.d_peer
          /\ d_context' = [d_context EXCEPT ![r] = c]
          /\ UNCHANGED <<call, peer>>
       \/ /\ c.d_peer /\ c.d_responseHeaders
          /\ d_context' = [d_context EXCEPT ![r] = [c EXCEPT !.d_responseHeaders = FALSE]]
          /\ peer' = [peer EXCEPT ![r].responses = @ + 1]
          /\ call' = [at |-> "data", request |-> r]
       \/ /\ c.d_peer /\ ~c.d_responseHeaders
          /\ d_context' = [d_context EXCEPT ![r] = c]
          /\ peer' = [peer EXCEPT ![r].data = @ + 1]
          /\ UNCHANGED call
  /\ UNCHANGED <<pending_requests_, tasks, running, loader>>

\* Mutant: the peer is not looked at again after its callback.
addResponseDataUnchecked ==
  /\ call.at = "data"
  /\ peer' = [peer EXCEPT ![call.request].data = @ + 1]
  /\ call' = NoCall
  /\ UNCHANGED <<pending_requests_, d_context, tasks, running, loader, addedData>>

\* Mutant: the data that comes with the headers is lost.
addResponseDataDropsFirst ==
  /\ call.at = "data"
  /\ call' = NoCall
  /\ UNCHANGED <<pending_requests_, d_context, tasks, running, loader, addedData, peer>>

\* Back from OnReceivedResponse: the bridge might have been disposed.
addResponseDataContinues ==
  /\ call.at = "data"
  /\ peer' = IF d_context[call.request].d_peer
             THEN [peer EXCEPT ![call.request].data = @ + 1]
             ELSE peer
  /\ call' = NoCall
  /\ UNCHANGED <<pending_requests_, d_context, tasks, running, loader, addedData>>

failed(r) ==
  /\ call = NoCall
  /\ Loading(r)
  /\ ~d_context[r].d_failed
  /\ d_context' = [d_context EXCEPT ![r].d_failed = TRUE]
  /\ UNCHANGED <<pending_requests_, tasks, running, call, loader, addedData, peer>>

ErrorCode(c) == IF c.d_failed THEN "ERR_FAILED"
                ELSE IF c.d_canceled THEN "ERR_ABORTED" ELSE "OK"

\* finish, up to its first callback: with headers to send that is
\* OnReceivedResponse, otherwise OnCompletedRequest, and without a peer, or
\* with cancelLoad still to come, there is none.
finish(r) ==
  /\ call = NoCall
  /\ Loading(r)
  /\ loader' = [loader EXCEPT ![r] = "finished"]
  /\ LET c == [d_context[r] EXCEPT !.d_finished = TRUE] IN
       \/ /\ c.d_waitingForCancelLoad \/ ~c.d_peer
          /\ d_context' = [d_context EXCEPT ![r] = [c EXCEPT !.ref_count = @ - 1]]
          /\ UNCHANGED <<call, peer>>
       \/ /\ ~c.d_waitingForCancelLoad /\ c.d_peer
          /\ c.d_responseHeaders
          /\ d_context' = [d_context EXCEPT ![r] = [c EXCEPT !.d_responseHeaders = FALSE]]
          /\ peer' = [peer EXCEPT ![r].responses = @ + 1]
          /\ call' = [at |-> "finish", request |-> r]
       \/ /\ ~c.d_waitingForCancelLoad /\ c.d_peer
          /\ ~c.d_responseHeaders
          /\ d_context' = [d_context EXCEPT ![r] = c]
          /\ peer' = Complete(r, ErrorCode(c))
          /\ call' = [at |-> "release", request |-> r]
  /\ UNCHANGED <<pending_requests_, tasks, running, addedData>>

\* Mutant: a request whose headers finish had to send is not completed.
finishContinuesIncomplete ==
  /\ call.at = "finish"
  /\ call' = [call EXCEPT !.at = "release"]
  /\ UNCHANGED <<pending_requests_, d_context, tasks, running, loader, addedData, peer>>

\* Back from OnReceivedResponse: complete the request if the peer is left.
finishContinues ==
  /\ call.at = "finish"
  /\ peer' = Complete(call.request, ErrorCode(d_context[call.request]))
  /\ call' = [call EXCEPT !.at = "release"]
  /\ UNCHANGED <<pending_requests_, d_context, tasks, running, loader, addedData>>

\* Mutant: the application's reference is kept.
finishWithoutRelease ==
  /\ call.at = "release"
  /\ call' = NoCall
  /\ UNCHANGED <<pending_requests_, d_context, tasks, running, loader, addedData, peer>>

\* Back from OnCompletedRequest: drop the application's reference.
finishReleases ==
  /\ call.at = "release"
  /\ d_context' = [d_context EXCEPT ![call.request].ref_count = @ - 1]
  /\ call' = NoCall
  /\ UNCHANGED <<pending_requests_, tasks, running, loader, addedData, peer>>

-----------------------------------------------------------------------------
PeerStep(r) == StartAsync(r) \/ Cancel(r) \/ RemovePendingRequest(r)

LoopStep == startLoad \/ cancelLoad \/ TaskReturns

ApplicationStep(r) == addResponseData(r) \/ failed(r) \/ finish(r)

ContinueCall == addResponseDataContinues \/ finishContinues \/ finishReleases

Next ==
  \/ \E r \in Request : PeerStep(r) \/ ApplicationStep(r)
  \/ LoopStep
  \/ ContinueCall

Spec == Init /\ [][Next]_vars

(***************************************************************************)
(* Fairness: the message loop runs, calls return, and the application      *)
(* finishes every load it was given, as its contract demands.  Nothing     *)
(* makes the peer cancel or drop a request.                                *)
(***************************************************************************)
Fairness ==
  /\ WF_vars(LoopStep)
  /\ WF_vars(ContinueCall)
  /\ \A r \in Request : SF_vars(finish(r))

FairSpec == Spec /\ Fairness

-----------------------------------------------------------------------------
(* Properties.                                                             *)

TypeOK ==
  /\ pending_requests_ \in [Request -> {"new", "pending", "removed"}]
  /\ d_context \in [Request -> Context]
  /\ tasks \in Seq([fn : {"startLoad", "cancelLoad"}, request : Request])
  /\ running \in {NoTask} \union [fn : {"startLoad", "cancelLoad"}, request : Request]
  /\ call \in {NoCall} \union [at : {"data", "finish", "release"}, request : Request]
  /\ loader \in [Request -> {"idle", "loading", "cancelled", "finished"}]
  /\ addedData \in [Request -> 0..MaxData]
  /\ peer \in [Request -> [responses : Nat, data : Nat, completed : Seq(Codes)]]

One(b) == IF b THEN 1 ELSE 0

\* The references that should exist: the bridge's, those of the queued tasks
\* and of the one running, and from startLoad to the Release in finish the
\* application's.
Holders(r) ==
    One(pending_requests_[r] = "pending")
  + Cardinality({i \in 1..Len(tasks) : tasks[i].request = r})
  + One(running.request = r)
  + One(/\ d_context[r].d_started
        /\ d_context[r].d_finished => call.request = r /\ call.at \in {"finish", "release"})

\* The hand-made AddRef and Release are balanced whatever the order of start,
\* cancel, finish and disposal: the context is deleted neither too early nor
\* not at all.
RefCountIsBalanced == \A r \in Request : d_context[r].ref_count = Holders(r)

\* The peer is a raw pointer: it is called only while its request is pending,
\* not again once the request is complete, with the response first and only
\* once.
PeerIsCalledInOrder ==
  [][\A r \in Request : peer'[r] # peer[r] =>
       /\ pending_requests_[r] = "pending"
       /\ peer[r].completed = <<>>
       /\ peer[r].responses = 0 => peer'[r] = [peer[r] EXCEPT !.responses = 1]
       /\ peer[r].responses = 1 => peer'[r].responses = 1]_vars

\* A request that completes without error has delivered everything that the
\* application added, and d_totalTransferSize says so; one that completes
\* with ERR_FAILED has failed.
CompletionIsFaithful ==
  \A r \in Request : peer[r].completed # <<>> =>
    /\ peer[r].completed = <<"OK">> =>
         /\ ~d_context[r].d_failed
         /\ peer[r].data = addedData[r]
         /\ d_context[r].d_totalTransferSize = addedData[r]
    /\ peer[r].completed = <<"ERR_FAILED">> => d_context[r].d_failed

\* ResourceLoader::cancel is called only for a load the application has been
\* given and has not finished, and once: the context may not be touched after
\* finish.
LoaderIsCanceledWhileLoading ==
  [][\A r \in Request :
       /\ running = NoTask
       /\ running' = [fn |-> "cancelLoad", request |-> r]
       /\ loader'[r] = "cancelled"
       => loader[r] = "loading"]_vars

\* Every context is deleted in the end, once its request is gone.
ContextIsDeleted ==
  \A r \in Request :
    pending_requests_[r] = "removed" ~> d_context[r].ref_count = 0

\* Every request that its peer keeps is completed.
RequestCompletes ==
  \A r \in Request : pending_requests_[r] = "pending" ~>
    pending_requests_[r] = "removed" \/ peer[r].completed # <<>>
=============================================================================
