----------------------------- MODULE ViewChannel -----------------------------
(***************************************************************************)
(* The life of a WebView whose two halves are joined by a channel: a       *)
(* WebViewProxy on the application's main thread, a WebViewHost and its    *)
(* WebViewImpl on the browser-main thread, and the routes that             *)
(* ProcessClientImpl and ProcessHostImpl keep for them.                    *)
(*                                                                         *)
(* A view is named by its routing id.  Ids of views that the application   *)
(* creates (ClientViews) and of those that a page opens (HostViews) come   *)
(* from two counters, 0x10000 apart, and are taken to be different.        *)
(*                                                                         *)
(* Both directions of the channel keep the order.  The application's       *)
(* process may die at any time: what it has not yet delivered is lost, the *)
(* rest of its messages is handled, and then its ProcessHostImpl is        *)
(* deleted (by ProcessHostManager or by Toolkit).  Messages that only pass *)
(* a call through (reload, focus, zoom and the like) are left out, and so  *)
(* is the routing id of the RenderView, which only makes a resize start    *)
(* early.  No message of a view is synchronous.                            *)
(***************************************************************************)
EXTENDS Integers, Sequences, FiniteSets

CONSTANTS ClientViews,  \* views created with Toolkit::createWebView
          HostViews,    \* views opened by a page
          RenderHost,   \* the ManagedRenderProcessHost, in the task queue
          Rects, EmptyRect,
          Texts,        \* texts searched for
          NoText,       \* d_text of a new FindOnPage
          MaxReqId,     \* INT_MAX
          MaxCalls,     \* bound on calls of loadUrl, move and find
          MaxEvents     \* bound on views opened and windows closed by pages

Views == ClientViews \union HostViews

ASSUME ViewAssumption ==
  /\ ClientViews \intersect HostViews = {}
  /\ RenderHost \notin Views
  /\ IsFiniteSet(Views)
ASSUME RectAssumption == EmptyRect \in Rects
ASSUME TextAssumption == NoText \notin Texts
ASSUME BoundAssumption == MaxReqId \in Nat \ {0} /\ MaxCalls \in Nat /\ MaxEvents \in Nat

VARIABLES
  \* WebViewProxy, by routing id; "live" while ProcessClientImpl has a route
  proxy, d_delegate, d_lastMoveRect, d_moveAckPending, d_find,
  sentRect,      \* history: the rectangle of the last Move sent
  \* ProcessHostImpl's routes to WebViewHosts, and the WebViewImpls
  route, impl, rect,
  finding,       \* requests that the page is searching for
  opener,        \* history: the view that opened this one, or itself
  \* deletions posted to browser-main; the render process host; the process
  \* host and the process of the application
  tasks, renderHost, processHost, client,
  \* the channel, and the counters for the bounds
  toHost, toClient, inputs

moveVars == <<d_lastMoveRect, d_moveAckPending, sentRect>>
hostVars == <<route, impl, rect, finding, opener, tasks, renderHost, processHost>>
proxyVars == <<proxy, d_delegate>>
vars == <<proxyVars, moveVars, d_find, hostVars, client, toHost, toClient,
          inputs>>

Message(type, v) == [type |-> type, view |-> v]
New(v, inProcess) == [type |-> "New", view |-> v, inProcess |-> inProcess]
MoveMsg(v, r) == [type |-> "Move", view |-> v, rect |-> r]
MoveAck(v, r) == [type |-> "MoveAck", view |-> v, rect |-> r]
FindMsg(v, id, t) == [type |-> "Find", view |-> v, reqId |-> id, text |-> t]
FindState(v, id, n) ==
  [type |-> "FindState", view |-> v, reqId |-> id, matches |-> n]
DidCreateNewView(v, w) == [type |-> "DidCreateNewView", view |-> v, new |-> w]

\* FindOnPage: matches stands for the counts; 0, or the text they belong to.
NewFind == [text |-> NoText, reqId |-> 0, matches |-> 0]
NoImpl == [state |-> "none", ready |-> FALSE, destroyed |-> FALSE,
           inProcess |-> FALSE, loading |-> FALSE, early |-> FALSE]

Init ==
  /\ proxy = [v \in Views |-> "none"]
  /\ d_delegate = [v \in Views |-> FALSE]
  /\ d_lastMoveRect = [v \in Views |-> EmptyRect]
  /\ d_moveAckPending = [v \in Views |-> FALSE]
  /\ sentRect = [v \in Views |-> EmptyRect]
  /\ d_find = [v \in Views |-> NewFind]
  /\ route = [v \in Views |-> "none"]
  /\ impl = [v \in Views |-> NoImpl]
  /\ rect = [v \in Views |-> EmptyRect]
  /\ finding = [v \in Views |-> {}]
  /\ opener = [v \in Views |-> v]
  /\ tasks = <<>>
  /\ renderHost = "none"
  /\ processHost = "live"
  /\ client = "live"
  /\ toHost = <<>>
  /\ toClient = <<>>
  /\ inputs = [calls |-> 0, events |-> 0]

Call == inputs.calls < MaxCalls /\ inputs' = [inputs EXCEPT !.calls = @ + 1]
Event == inputs.events < MaxEvents /\ inputs' = [inputs EXCEPT !.events = @ + 1]

-----------------------------------------------------------------------------
(* The application's main thread.                                          *)

CreateWebView(v, delegate, inProcess) ==
  /\ proxy[v] = "none"
  /\ client = "live"
  /\ proxy' = [proxy EXCEPT ![v] = "live"]
  /\ d_delegate' = [d_delegate EXCEPT ![v] = delegate]
  /\ toHost' = Append(toHost, New(v, inProcess))
  /\ UNCHANGED <<moveVars, d_find, hostVars, client, toClient, inputs>>

LoadUrl(v) ==
  /\ proxy[v] = "live"
  /\ Call
  /\ toHost' = Append(toHost, Message("LoadUrl", v))
  /\ UNCHANGED <<proxyVars, moveVars, d_find, hostVars, client, toClient>>

\* moveImpl, with d_lastMoveRect already set to r.
MoveImpl(v, r) ==
  /\ d_moveAckPending' = [d_moveAckPending EXCEPT ![v] = TRUE]
  /\ sentRect' = [sentRect EXCEPT ![v] = r]
  /\ toHost' = Append(toHost, MoveMsg(v, r))

\* Mutant: moves are not held back while one is unacknowledged.
MoveEagerly(v, r) ==
  /\ proxy[v] = "live"
  /\ Call
  /\ r # d_lastMoveRect[v]
  /\ d_lastMoveRect' = [d_lastMoveRect EXCEPT ![v] = r]
  /\ MoveImpl(v, r)
  /\ UNCHANGED <<proxyVars, d_find, hostVars, client, toClient>>

\* WebViewProxy::move.  Asking again for the last rectangle does nothing.
Move(v, r) ==
  /\ proxy[v] = "live"
  /\ Call
  /\ r # d_lastMoveRect[v]
  /\ d_lastMoveRect' = [d_lastMoveRect EXCEPT ![v] = r]
  /\ IF d_moveAckPending[v]
     THEN UNCHANGED <<d_moveAckPending, sentRect, toHost>>
     ELSE MoveImpl(v, r)
  /\ UNCHANGED <<proxyVars, d_find, hostVars, client, toClient>>

\* FindOnPage::makeRequest: searching on for the same text keeps the id.
MakeRequest(f, t) ==
  IF f.text = t
  THEN f
  ELSE [text |-> t, reqId |-> IF f.reqId = MaxReqId THEN 1 ELSE f.reqId + 1,
        matches |-> 0]

Find(v, t) ==
  /\ proxy[v] = "live"
  /\ Call
  /\ LET f == MakeRequest(d_find[v], t)
     IN /\ d_find' = [d_find EXCEPT ![v] = f]
        /\ toHost' = Append(toHost, FindMsg(v, f.reqId, f.text))
  /\ UNCHANGED <<proxyVars, moveVars, hostVars, client, toClient>>

\* Mutant: the host is not told.
DestroySilently(v) ==
  /\ proxy[v] = "live"
  /\ proxy' = [proxy EXCEPT ![v] = "gone"]
  /\ UNCHANGED <<d_delegate, moveVars, d_find, hostVars, client, toHost,
                 toClient, inputs>>

\* WebViewProxy::destroy, called by the application at any time.
Destroy(v) ==
  /\ proxy[v] = "live"
  /\ proxy' = [proxy EXCEPT ![v] = "gone"]
  /\ toHost' = Append(toHost, Message("Destroy", v))
  /\ UNCHANGED <<d_delegate, moveVars, d_find, hostVars, client, toClient,
                 inputs>>

-----------------------------------------------------------------------------
(* ProcessClientImpl::OnMessageReceived.  A message for a view without a   *)
(* route is dropped, whatever it says.                                     *)

Receive(type) ==
  /\ toClient # <<>>
  /\ Head(toClient).type = type
  /\ proxy[Head(toClient).view] = "live"
  /\ toClient' = Tail(toClient)

DropMessage ==
  /\ toClient # <<>>
  /\ proxy[Head(toClient).view] # "live"
  /\ toClient' = Tail(toClient)
  /\ UNCHANGED <<proxyVars, moveVars, d_find, hostVars, client, toHost, inputs>>

\* Mutant: the last acknowledgement ends it, whatever was asked for since.
OnMoveAckForgetful ==
  LET m == Head(toClient) IN
    /\ Receive("MoveAck")
    /\ d_moveAckPending' = [d_moveAckPending EXCEPT ![m.view] = FALSE]
    /\ UNCHANGED <<proxyVars, d_lastMoveRect, sentRect, d_find, hostVars,
                   client, toHost, inputs>>

OnMoveAck ==
  LET m == Head(toClient) IN
    /\ Receive("MoveAck")
    /\ IF m.rect # d_lastMoveRect[m.view]
       THEN MoveImpl(m.view, d_lastMoveRect[m.view])
       ELSE /\ d_moveAckPending' = [d_moveAckPending EXCEPT ![m.view] = FALSE]
            /\ UNCHANGED <<sentRect, toHost>>
    /\ UNCHANGED <<proxyVars, d_lastMoveRect, d_find, hostVars, client, inputs>>

\* Mutant: counts are taken from any reply.
ApplyAnyUpdate(f, m) ==
  [f EXCEPT !.matches = IF m.matches = -1 THEN @ ELSE m.matches]

\* Mutant: a count of -1 is shown.
ApplyRawUpdate(f, m) ==
  IF m.reqId # f.reqId THEN f ELSE [f EXCEPT !.matches = m.matches]

\* FindOnPage::applyUpdate.  A count of -1 leaves the old one.
ApplyUpdate(f, m) ==
  IF m.reqId # f.reqId
  THEN f
  ELSE [f EXCEPT !.matches = IF m.matches = -1 THEN @ ELSE m.matches]

OnFindState ==
  LET m == Head(toClient) IN
    /\ Receive("FindState")
    /\ d_find' = [d_find EXCEPT ![m.view] =
                    IF d_delegate[m.view] THEN ApplyUpdate(@, m) ELSE @]
    /\ UNCHANGED <<proxyVars, moveVars, hostVars, client, toHost, inputs>>

\* The application's delegate keeps the new view, with a delegate or without,
\* or destroys it, as WebViewDelegate does by default; without a delegate
\* for the opener the new view is destroyed.
OnDidCreateNewView(keep, delegate) ==
  LET m == Head(toClient) IN
    /\ Receive("DidCreateNewView")
    /\ keep => d_delegate[m.view]
    /\ delegate => keep
    /\ proxy' = [proxy EXCEPT ![m.new] = IF keep THEN "live" ELSE "gone"]
    /\ d_delegate' = [d_delegate EXCEPT ![m.new] = delegate]
    /\ toHost' = IF keep THEN toHost
                 ELSE Append(toHost, Message("Destroy", m.new))
    /\ UNCHANGED <<moveVars, d_find, hostVars, client, inputs>>

\* The delegate may keep the view for now; without one it is destroyed.
OnDestroyView(keep) ==
  LET m == Head(toClient) IN
    /\ Receive("DestroyView")
    /\ keep => d_delegate[m.view]
    /\ proxy' = [proxy EXCEPT ![m.view] = IF keep THEN @ ELSE "gone"]
    /\ toHost' = IF keep THEN toHost
                 ELSE Append(toHost, Message("Destroy", m.view))
    /\ UNCHANGED <<d_delegate, moveVars, d_find, hostVars, client, inputs>>

\* The process of the application ends without a word.  Only what the channel
\* has already taken is delivered.
ClientDies ==
  /\ client = "live"
  /\ client' = "gone"
  /\ proxy' = [v \in Views |-> IF proxy[v] = "live" THEN "gone" ELSE proxy[v]]
  /\ \E n \in 0 .. Len(toHost) : toHost' = SubSeq(toHost, 1, n)
  /\ toClient' = <<>>
  /\ UNCHANGED <<d_delegate, moveVars, d_find, hostVars, inputs>>

-----------------------------------------------------------------------------
(* The browser-main thread: ProcessHostImpl::OnMessageReceived.            *)

Handle(type) ==
  /\ processHost = "live"
  /\ toHost # <<>>
  /\ Head(toHost).type = type
  /\ toHost' = Tail(toHost)

\* Send to the client, or to nobody when it has gone.
SendToClient(m) ==
  toClient' = IF client = "live" THEN Append(toClient, m) ELSE toClient

\* Which WebViewHost gets the message, if there still is one.
Listener(v) == route[v] = "live"

NewImpl(inProcess, loading) ==
  [NoImpl EXCEPT !.state = "live", !.inProcess = inProcess, !.loading = loading]

\* onWebViewNew.  The first in-process view brings the render process host.
OnWebViewNew ==
  LET m == Head(toHost) IN
    /\ Handle("New")
    /\ route' = [route EXCEPT ![m.view] = "live"]
    /\ impl' = [impl EXCEPT ![m.view] = NewImpl(m.inProcess, FALSE)]
    /\ renderHost' = IF m.inProcess /\ renderHost = "none" THEN "live"
                     ELSE renderHost
    /\ UNCHANGED <<proxyVars, moveVars, d_find, rect, finding, opener, tasks,
                   processHost, client, toClient, inputs>>

OnLoadUrl ==
  LET m == Head(toHost) IN
    /\ Handle("LoadUrl")
    /\ impl' = [impl EXCEPT ![m.view].loading = @ \/ Listener(m.view)]
    /\ UNCHANGED <<proxyVars, moveVars, d_find, route, rect, finding, opener,
                   tasks, renderHost, processHost, client, toClient, inputs>>

OnMove ==
  LET m == Head(toHost) IN
    /\ Handle("Move")
    /\ rect' = [rect EXCEPT ![m.view] = IF Listener(m.view) THEN m.rect ELSE @]
    /\ IF Listener(m.view)
       THEN SendToClient(MoveAck(m.view, m.rect))
       ELSE UNCHANGED toClient
    /\ UNCHANGED <<proxyVars, moveVars, d_find, route, impl, finding, opener,
                   tasks, renderHost, processHost, client, inputs>>

OnFind ==
  LET m == Head(toHost) IN
    /\ Handle("Find")
    /\ finding' = [finding EXCEPT ![m.view] =
         IF Listener(m.view)
         THEN @ \union {[reqId |-> m.reqId, text |-> m.text]}
         ELSE @]
    /\ UNCHANGED <<proxyVars, moveVars, d_find, route, impl, rect, opener,
                   tasks, renderHost, processHost, client, toClient, inputs>>

\* WebViewImpl::destroy: deleted soon if its first page has been committed,
\* otherwise when it will be.
Destroyed(i) ==
  [i EXCEPT !.destroyed = TRUE, !.early = ~i.ready,
            !.state = IF i.ready THEN "deletingSoon" ELSE @]

\* onWebViewDestroy and ~WebViewHost.
OnWebViewDestroy ==
  LET m == Head(toHost) IN
    /\ Handle("Destroy")
    /\ route' = [route EXCEPT ![m.view] = "gone"]
    /\ impl' = [impl EXCEPT ![m.view] = Destroyed(@)]
    /\ tasks' = IF impl[m.view].ready THEN Append(tasks, m.view) ELSE tasks
    /\ UNCHANGED <<proxyVars, moveVars, d_find, rect, finding, opener,
                   renderHost, processHost, client, toClient, inputs>>

\* The orders in which a set of listeners can be deleted.
Orders(S) ==
  {s \in [1 .. Cardinality(S) -> S] : \A i, j \in DOMAIN s :
                                        s[i] = s[j] => i = j}

\* ~ProcessHostImpl: every listener, the channel, then the render process host
\* by DeleteSoon.
DeleteProcessHost ==
  /\ client = "gone"
  /\ processHost = "live"
  /\ processHost' = "deleted"
  /\ route' = [v \in Views |-> IF Listener(v) THEN "gone" ELSE route[v]]
  /\ impl' = [v \in Views |-> IF Listener(v) THEN Destroyed(impl[v]) ELSE impl[v]]
  /\ \E s \in Orders({v \in Views : Listener(v) /\ impl[v].ready}) :
       tasks' = tasks \o s \o (IF renderHost = "live" THEN <<RenderHost>> ELSE <<>>)
  /\ toHost' = <<>>
  /\ UNCHANGED <<proxyVars, moveVars, d_find, rect, finding, opener,
                 renderHost, client, toClient, inputs>>

RunTask ==
  /\ tasks # <<>>
  /\ tasks' = Tail(tasks)
  /\ IF Head(tasks) = RenderHost
     THEN renderHost' = "deleted" /\ UNCHANGED impl
     ELSE /\ impl' = [impl EXCEPT ![Head(tasks)].state = "deleted"]
          /\ UNCHANGED renderHost
  /\ UNCHANGED <<proxyVars, moveVars, d_find, route, rect, finding, opener,
                 processHost, client, toHost, toClient, inputs>>

-----------------------------------------------------------------------------
(* Events of the page, as WebContents reports them to its WebViewImpl.     *)

\* The page can still be heard: the view has not been deleted, nor has the
\* render process host through which it speaks.
Heard(v) ==
  /\ impl[v].state \in {"live", "deletingSoon"}
  /\ impl[v].inProcess => renderHost = "live"

\* A page runs scripts once it has been committed; one that was opened by
\* another page can be scripted by that page from the start.
Scripted(v) == Heard(v) /\ (impl[v].ready \/ v \in HostViews)

\* Mutant: a commit posts the deletion although destroy has posted it.
DidNavigateDeletesAgain(v) ==
  /\ Heard(v)
  /\ impl[v].loading
  /\ impl' = [impl EXCEPT ![v].loading = FALSE, ![v].ready = TRUE,
                          ![v].state = IF impl[v].destroyed THEN "deletingSoon"
                                       ELSE @]
  /\ tasks' = IF impl[v].destroyed THEN Append(tasks, v) ELSE tasks
  /\ UNCHANGED <<proxyVars, moveVars, d_find, route, rect, finding, opener,
                 renderHost, processHost, client, toHost, toClient, inputs>>

\* didNavigateMainFramePostCommit: the view is ready, and goes if it was
\* destroyed before.
DidNavigateMainFramePostCommit(v) ==
  /\ Heard(v)
  /\ impl[v].loading
  /\ impl' = [impl EXCEPT ![v].loading = FALSE, ![v].ready = TRUE,
                          ![v].state = IF impl[v].destroyed THEN "deletingSoon"
                                       ELSE @]
  /\ tasks' = IF impl[v].destroyed /\ impl[v].state # "deletingSoon"
              THEN Append(tasks, v) ELSE tasks
  /\ UNCHANGED <<proxyVars, moveVars, d_find, route, rect, finding, opener,
                 renderHost, processHost, client, toHost, toClient, inputs>>

\* The page opens another view.  The WebViewHost of the opener makes one for
\* it, unless the opener has been destroyed: then it is destroyed as well.
WebContentsCreated(v, w) ==
  /\ Scripted(v)
  /\ impl[w].state = "none"
  /\ Event
  /\ opener' = [opener EXCEPT ![w] = v]
  /\ LET i == NewImpl(impl[v].inProcess, TRUE) IN
       IF impl[v].destroyed
       THEN /\ impl' = [impl EXCEPT ![w] = Destroyed(i)]
            /\ UNCHANGED <<route, toClient>>
       ELSE /\ impl' = [impl EXCEPT ![w] = i]
            /\ route' = [route EXCEPT ![w] = "live"]
            /\ SendToClient(DidCreateNewView(v, w))
  /\ UNCHANGED <<proxyVars, moveVars, d_find, rect, finding, tasks, renderHost,
                 processHost, client, toHost>>

\* The page closes its window; the application is asked to destroy the view.
CloseContents(v) ==
  /\ Scripted(v)
  /\ ~impl[v].destroyed
  /\ Event
  /\ SendToClient(Message("DestroyView", v))
  /\ UNCHANGED <<proxyVars, moveVars, d_find, hostVars, client, toHost>>

\* The page reports on one of the requests, at any time and in any order.
FindReply(v) ==
  /\ Heard(v)
  /\ \E q \in finding[v] :
       /\ finding' = [finding EXCEPT ![v] = @ \ {q}]
       /\ \E n \in {-1, q.text} :
            IF impl[v].destroyed THEN UNCHANGED toClient
            ELSE SendToClient(FindState(v, q.reqId, n))
  /\ UNCHANGED <<proxyVars, moveVars, d_find, route, impl, rect, opener, tasks,
                 renderHost, processHost, client, toHost, inputs>>

-----------------------------------------------------------------------------

ClientStep ==
  \/ DropMessage \/ OnMoveAck \/ OnFindState
  \/ \E keep, delegate \in BOOLEAN : OnDidCreateNewView(keep, delegate)
  \/ \E keep \in BOOLEAN : OnDestroyView(keep)

HostStep ==
  \/ OnWebViewNew \/ OnLoadUrl \/ OnMove \/ OnFind \/ OnWebViewDestroy

Next ==
  \/ \E v \in ClientViews, delegate, inProcess \in BOOLEAN :
       CreateWebView(v, delegate, inProcess)
  \/ \E v \in Views :
       \/ LoadUrl(v) \/ Destroy(v)
       \/ \E r \in Rects : Move(v, r)
       \/ \E t \in Texts : Find(v, t)
       \/ DidNavigateMainFramePostCommit(v) \/ CloseContents(v) \/ FindReply(v)
       \/ \E w \in HostViews : WebContentsCreated(v, w)
  \/ ClientStep
  \/ HostStep
  \/ ClientDies
  \/ DeleteProcessHost
  \/ RunTask

Spec == Init /\ [][Next]_vars

\* Both message loops run.
FairSpec == Spec /\ WF_vars(ClientStep) /\ WF_vars(HostStep)

-----------------------------------------------------------------------------
(* Properties.                                                             *)

Impls == [state : {"none", "live", "deletingSoon", "deleted"}, ready : BOOLEAN,
          destroyed : BOOLEAN, inProcess : BOOLEAN, loading : BOOLEAN,
          early : BOOLEAN]

Finds == [text : Texts \union {NoText}, reqId : 0 .. MaxReqId,
          matches : {0} \union Texts]
Requests == [reqId : 0 .. MaxReqId, text : Texts]
Inputs == [calls : 0 .. MaxCalls, events : 0 .. MaxEvents]

ToHostMessages ==
  [type : {"LoadUrl", "Destroy"}, view : Views]
  \union [type : {"New"}, view : ClientViews, inProcess : BOOLEAN]
  \union [type : {"Move"}, view : Views, rect : Rects]
  \union [type : {"Find"}, view : Views, reqId : 0 .. MaxReqId, text : Texts]

ToClientMessages ==
  [type : {"DestroyView"}, view : Views]
  \union [type : {"MoveAck"}, view : Views, rect : Rects]
  \union [type : {"FindState"}, view : Views, reqId : 0 .. MaxReqId,
          matches : {-1} \union Texts]
  \union [type : {"DidCreateNewView"}, view : Views, new : HostViews]

\* The type invariant of proxies, hosts, implementations and the channel.
TypeOK ==
  /\ proxy \in [Views -> {"none", "live", "gone"}]
  /\ d_delegate \in [Views -> BOOLEAN]
  /\ d_lastMoveRect \in [Views -> Rects]
  /\ d_moveAckPending \in [Views -> BOOLEAN]
  /\ sentRect \in [Views -> Rects]
  /\ d_find \in [Views -> Finds]
  /\ route \in [Views -> {"none", "live", "gone"}]
  /\ impl \in [Views -> Impls]
  /\ rect \in [Views -> Rects]
  /\ finding \in [Views -> SUBSET Requests]
  /\ opener \in [Views -> Views]
  /\ tasks \in Seq(Views \union {RenderHost})
  /\ renderHost \in {"none", "live", "deleted"}
  /\ processHost \in {"live", "deleted"}
  /\ client \in {"live", "gone"}
  /\ toHost \in Seq(ToHostMessages)
  /\ toClient \in Seq(ToClientMessages)
  /\ inputs \in Inputs

Is(m, type, v) == m.type = type /\ m.view = v
MovesOf(v) == {i \in DOMAIN toHost : Is(toHost[i], "Move", v)}
AcksOf(v) == {i \in DOMAIN toClient : Is(toClient[i], "MoveAck", v)}

\* A proxy waits for an acknowledgement exactly when one Move or one MoveAck
\* is on its way, so onMoveAck's DCHECK holds and a view cannot be stuck
\* holding back its rectangle.
MoveAckIsExact ==
  \A v \in Views : proxy[v] = "live" =>
    Cardinality(MovesOf(v)) + Cardinality(AcksOf(v))
      = IF d_moveAckPending[v] THEN 1 ELSE 0

\* What stands for the abstract queue: the Move on its way to the host, then
\* the rectangle held back.
MoveQueue(v) ==
  LET sent == IF MovesOf(v) = {} THEN <<>> ELSE <<sentRect[v]>>
  IN  IF proxy[v] = "live" /\ d_lastMoveRect[v] # sentRect[v]
      THEN Append(sent, d_lastMoveRect[v])
      ELSE sent

Mover(v) == INSTANCE LastRectangleWins
  WITH wanted <- d_lastMoveRect[v], queue <- MoveQueue(v), applied <- rect[v],
       open <- proxy[v] # "gone"

\* The moves of every view, with their acknowledgements, implement
\* LastRectangleWins, also across destroy, a dead client and a deleted host.
MovesAreLastRectangleWins ==
  /\ \A v \in Views : Mover(v)!Init
  /\ [][\A v \in Views : [Mover(v)!Next]_(Mover(v)!vars)]_vars

\* The rectangle asked for last is applied, however many were asked for while
\* an acknowledgement was outstanding.
LastRectangleIsApplied ==
  \A v \in Views, r \in Rects :
    (proxy[v] = "live" /\ d_lastMoveRect[v] = r)
      ~> (rect[v] = r \/ d_lastMoveRect[v] # r \/ proxy[v] # "live")

\* A DidCreateNewView that tells of v is on its way to the client.
IsAnnounced(v) ==
  \E i \in DOMAIN toClient :
    toClient[i].type = "DidCreateNewView" /\ toClient[i].new = v

\* A view that a page opened while its opener's proxy was being destroyed: the
\* message about it is dropped, and nobody will destroy it.  Its page may open
\* others, and the messages about them are dropped too.
Leaked(v) ==
  /\ proxy[v] = "none" /\ ~IsAnnounced(v)
  /\ proxy[opener[v]] # "live" /\ ~IsAnnounced(opener[v])

\* The views that count for their browser context are those with a WebViewHost,
\* which uses a WebViewImpl only until it has destroyed it; and while the
\* client lives each of them has a proxy, or is about to get one, or is about
\* to be destroyed, unless it leaked together with its opener.
ViewsAreOwned ==
  \A v \in Views :
    /\ Listener(v) <=> impl[v].state # "none" /\ ~impl[v].destroyed
    /\ Listener(v) /\ client = "live" =>
         \/ proxy[v] = "live"
         \/ IsAnnounced(v)
         \/ \E i \in DOMAIN toHost : Is(toHost[i], "Destroy", v)
         \/ Leaked(v)

\* The counts that a proxy shows belong to the text it searches for now: late
\* replies to an earlier search are not taken for it.
FindCountsAreOfThisText ==
  \A v \in Views : d_find[v].matches \in {0, d_find[v].text}

\* A WebViewImpl is posted for deletion once, after it was destroyed and is
\* ready, although destroy and a late commit can both post it; and no view is
\* in use any more when the render process host is deleted.
DeletionIsOrdered ==
  /\ \A i, j \in DOMAIN tasks : tasks[i] = tasks[j] => i = j
  /\ \A v \in Views :
       (\E i \in DOMAIN tasks : tasks[i] = v) <=> impl[v].state = "deletingSoon"
  /\ \A v \in Views : impl[v].state \in {"deletingSoon", "deleted"} =>
                        impl[v].ready /\ impl[v].destroyed
  /\ renderHost = "deleted" =>
       \A v \in Views : impl[v].state # "none" => impl[v].destroyed

\* processhostimpl.cc:87-89: "This needs to use DeleteSoon because
\* WebViewImpl::destroy uses DeleteSoon, and we need to ensure that the render
\* process host outlives the WebViewImpl."  When it is deleted, every
\* in-process WebViewImpl there ever was has been deleted before it.
RenderHostOutlivesImpls ==
  renderHost = "deleted" =>
    \A v \in Views : impl[v].inProcess => impl[v].state = "deleted"
=============================================================================
