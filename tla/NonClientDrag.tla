---------------------------- MODULE NonClientDrag ----------------------------
(***************************************************************************)
(* Non-client hit testing and dragging of a WebView whose window belongs   *)
(* to the browser-main thread while its delegate lives in the application. *)
(*                                                                         *)
(* Mouse messages arrive at the window (HWNDMessageHandler), go through    *)
(* WebViewImpl to WebViewHost, and from there as messages to WebViewProxy, *)
(* which calls the delegate and acknowledges.  The two threads share only  *)
(* the two message channels, both in order, and the mouse cursor, which    *)
(* either can ask for at any time.                                         *)
(*                                                                         *)
(* Windows keeps one WM_MOUSEMOVE per window, so mouseMoved is a flag; it  *)
(* may be set at first, when the window opens under the cursor.  Of the    *)
(* hit-test codes those that the code tells apart are kept: HTCLIENT,      *)
(* HTCAPTION, HTBOTTOMRIGHT and HTOBJECT, its disguise.  The delegate is   *)
(* installed all the time.                                                 *)
(***************************************************************************)
EXTENDS Integers, Sequences, FiniteSets

CONSTANTS Point,       \* cursor positions
          MaxInputs    \* bound on cursor movements, button presses and
                       \* enableNCHitTest calls together

ASSUME PointAssumption == Point # {}
ASSUME BoundAssumption == MaxInputs \in Nat

VARIABLES
  \* the mouse
  cursor, mouseMoved, releasedAt,
  \* HWNDMessageHandler
  is_delegate_nc_dragging_,
  \* WebViewImpl
  d_ncHitTestEnabled, d_lastNCHitTestResult, d_ncHitTestPendingAck,
  answeredAt,                 \* history: the position of the last answer
  \* WebViewHost
  d_ncDragAckPending, d_ncDragNeedsAck, d_ncDragging, d_ncDragEndPoint,
  \* the channels
  toProxy, toHost,
  \* WebViewProxy's copy of d_ncDragNeedsAck, and the delegate
  proxyNeedsAck, hitTestAsked, delegate,
  \* whether some drag has been ignored; counter for the bound
  ignored, inputs

mouseVars    == <<cursor, mouseMoved, releasedAt>>
hitTestVars  == <<d_ncHitTestEnabled, d_lastNCHitTestResult,
                  d_ncHitTestPendingAck, answeredAt>>
hostVars     == <<d_ncDragAckPending, d_ncDragNeedsAck, d_ncDragging,
                  d_ncDragEndPoint, ignored>>
delegateVars == <<proxyNeedsAck, hitTestAsked, delegate>>
vars == <<mouseVars, is_delegate_nc_dragging_, hitTestVars, hostVars, toProxy,
          toHost, delegateVars, inputs>>

Code == {"HTCLIENT", "HTCAPTION", "HTBOTTOMRIGHT"}

\* What Windows is told instead of HTBOTTOMRIGHT, and back.
ToWindows(code) == IF code = "HTBOTTOMRIGHT" THEN "HTOBJECT" ELSE code

\* Mutant: the disguise is not taken off.
FromWindowsDisguised(code) == code

FromWindows(code) == IF code = "HTOBJECT" THEN "HTBOTTOMRIGHT" ELSE code

\* Messages: a kind, a position and a code or flag.
Message(kind, point, arg) == [kind |-> kind, point |-> point, arg |-> arg]
Plain(kind) == Message(kind, cursor, "none")

Init ==
  /\ cursor \in Point
  /\ mouseMoved \in BOOLEAN
  /\ releasedAt = cursor
  /\ is_delegate_nc_dragging_ = FALSE
  /\ d_ncHitTestEnabled = FALSE
  /\ d_lastNCHitTestResult = "HTCLIENT"
  /\ d_ncHitTestPendingAck = FALSE
  /\ answeredAt = cursor
  /\ d_ncDragAckPending = FALSE
  /\ d_ncDragNeedsAck = FALSE
  /\ d_ncDragging = FALSE
  /\ d_ncDragEndPoint = cursor
  /\ toProxy = <<>>
  /\ toHost = <<>>
  /\ proxyNeedsAck = FALSE
  /\ hitTestAsked = FALSE
  /\ delegate = [state |-> "idle", point |-> cursor]
  /\ ignored = FALSE
  /\ inputs = 0

-----------------------------------------------------------------------------
(* The mouse and the window, on the browser-main thread.                   *)

CursorMoves(p) ==
  /\ inputs < MaxInputs
  /\ p # cursor
  /\ cursor' = p
  /\ mouseMoved' = TRUE
  /\ inputs' = inputs + 1
  /\ UNCHANGED <<releasedAt, is_delegate_nc_dragging_, hitTestVars, hostVars,
                 toProxy, toHost, delegateVars>>

\* Mutant: a hit test is requested whether or not one is outstanding.
HitTestRequestAlways ==
  IF d_ncHitTestEnabled THEN <<Plain("RequestNCHitTest")>> ELSE <<>>

\* WebViewImpl::OnNCHitTest: ask the delegate unless an answer is pending.
HitTestRequest ==
  IF d_ncHitTestEnabled /\ ~d_ncHitTestPendingAck
  THEN <<Plain("RequestNCHitTest")>>
  ELSE <<>>

OnNCHitTest ==
  /\ d_ncHitTestPendingAck' = (d_ncHitTestPendingAck \/ HitTestRequest # <<>>)
  /\ UNCHANGED <<d_ncHitTestEnabled, d_lastNCHitTestResult, answeredAt>>

\* WM_NCHITTEST for a mouse movement outside a drag.
HandleMouseMove ==
  /\ mouseMoved
  /\ ~is_delegate_nc_dragging_
  /\ mouseMoved' = FALSE
  /\ OnNCHitTest
  /\ toProxy' = toProxy \o HitTestRequest
  /\ UNCHANGED <<cursor, releasedAt, is_delegate_nc_dragging_, hostVars, toHost,
                 delegateVars, inputs>>

\* WM_MOUSEMOVE in a drag: WebViewHost::ncDragMove, ignored while an
\* acknowledgement is pending.
ncDragMove ==
  /\ mouseMoved
  /\ is_delegate_nc_dragging_
  /\ mouseMoved' = FALSE
  /\ \/ /\ d_ncDragAckPending
        /\ UNCHANGED <<d_ncDragAckPending, toProxy>>
     \/ /\ ~d_ncDragAckPending
        /\ d_ncDragAckPending' = d_ncDragNeedsAck
        /\ toProxy' = Append(toProxy, Plain("NCDragMove"))
  /\ UNCHANGED <<cursor, releasedAt, is_delegate_nc_dragging_, hitTestVars,
                 d_ncDragNeedsAck, d_ncDragging, d_ncDragEndPoint, ignored,
                 toHost, delegateVars, inputs>>

\* WebViewHost::ncDragBegin ignores a drag while an acknowledgement is pending.
HostMayBegin == ~d_ncDragAckPending

\* WM_NCLBUTTONDOWN on a non-client area: OnNCHitTest has named the area,
\* WebViewImpl::OnNCDragBegin takes the drag, WebViewHost::ncDragBegin
\* forwards or ignores it.
ncDragBegin ==
  /\ inputs < MaxInputs
  /\ ~is_delegate_nc_dragging_
  /\ d_ncHitTestEnabled
  /\ ToWindows(d_lastNCHitTestResult) # "HTCLIENT"
  /\ inputs' = inputs + 1
  /\ is_delegate_nc_dragging_' = TRUE
  /\ OnNCHitTest
  /\ LET code == FromWindows(ToWindows(d_lastNCHitTestResult)) IN
       \/ /\ ~HostMayBegin
          /\ ignored' = TRUE
          /\ toProxy' = toProxy \o HitTestRequest
          /\ UNCHANGED <<d_ncDragNeedsAck, d_ncDragging>>
       \/ /\ HostMayBegin
          /\ d_ncDragNeedsAck' = (code # "HTCAPTION")
          /\ d_ncDragging' = TRUE
          /\ toProxy' = toProxy \o HitTestRequest
                          \o <<Message("NCDragBegin", cursor, code)>>
          /\ UNCHANGED ignored
  /\ UNCHANGED <<mouseVars, d_ncDragAckPending, d_ncDragEndPoint, toHost,
                 delegateVars>>

\* Mutant: the place where the button was released is not remembered.
ncDragEndForgets ==
  /\ is_delegate_nc_dragging_
  /\ is_delegate_nc_dragging_' = FALSE
  /\ releasedAt' = cursor
  /\ d_ncDragging' = FALSE
  /\ \/ /\ d_ncDragAckPending
        /\ UNCHANGED <<d_ncDragAckPending, d_ncDragEndPoint, toProxy>>
     \/ /\ ~d_ncDragAckPending
        /\ d_ncDragAckPending' = d_ncDragNeedsAck
        /\ toProxy' = Append(toProxy, Plain("NCDragEnd"))
        /\ UNCHANGED d_ncDragEndPoint
  /\ UNCHANGED <<cursor, mouseMoved, hitTestVars, d_ncDragNeedsAck, ignored, toHost,
                 delegateVars, inputs>>

\* WM_LBUTTONUP or WM_CAPTURECHANGED: WebViewHost::ncDragEnd, put off while an
\* acknowledgement is pending.
ncDragEnd ==
  /\ is_delegate_nc_dragging_
  /\ is_delegate_nc_dragging_' = FALSE
  /\ releasedAt' = cursor
  /\ d_ncDragging' = FALSE
  /\ \/ /\ d_ncDragAckPending
        /\ d_ncDragEndPoint' = cursor
        /\ UNCHANGED <<d_ncDragAckPending, toProxy>>
     \/ /\ ~d_ncDragAckPending
        /\ d_ncDragAckPending' = d_ncDragNeedsAck
        /\ toProxy' = Append(toProxy, Plain("NCDragEnd"))
        /\ UNCHANGED d_ncDragEndPoint
  /\ UNCHANGED <<cursor, mouseMoved, hitTestVars, d_ncDragNeedsAck, ignored, toHost,
                 delegateVars, inputs>>

-----------------------------------------------------------------------------
(* WebViewHost's message handlers.                                         *)

Receive(channel, kind) == channel # <<>> /\ Head(channel).kind = kind

onEnableNCHitTest ==
  /\ Receive(toHost, "EnableNCHitTest")
  /\ d_ncHitTestEnabled' = Head(toHost).arg
  /\ d_lastNCHitTestResult' = "HTCLIENT"
  /\ toHost' = Tail(toHost)
  /\ UNCHANGED <<mouseVars, is_delegate_nc_dragging_, d_ncHitTestPendingAck,
                 answeredAt, hostVars, toProxy, delegateVars, inputs>>

\* Mutant: the answer for an old position is taken as final.
onOnNCHitTestResultOnce ==
  /\ Receive(toHost, "OnNCHitTestResult")
  /\ d_lastNCHitTestResult' = Head(toHost).arg
  /\ answeredAt' = Head(toHost).point
  /\ d_ncHitTestPendingAck' = FALSE
  /\ toHost' = Tail(toHost)
  /\ UNCHANGED <<mouseVars, is_delegate_nc_dragging_, d_ncHitTestEnabled, hostVars,
                 toProxy, delegateVars, inputs>>

\* The answer to a hit test; ask again if the cursor has moved since.
onOnNCHitTestResult ==
  /\ Receive(toHost, "OnNCHitTestResult")
  /\ d_lastNCHitTestResult' = Head(toHost).arg
  /\ answeredAt' = Head(toHost).point
  /\ IF d_ncHitTestEnabled /\ Head(toHost).point # cursor
     THEN /\ d_ncHitTestPendingAck' = TRUE
          /\ toProxy' = Append(toProxy, Plain("RequestNCHitTest"))
     ELSE /\ d_ncHitTestPendingAck' = FALSE
          /\ UNCHANGED toProxy
  /\ toHost' = Tail(toHost)
  /\ UNCHANGED <<mouseVars, is_delegate_nc_dragging_, d_ncHitTestEnabled, hostVars,
                 delegateVars, inputs>>

\* Mutant: no further move is sent for a cursor that has moved on.
onNCDragMoveAckNoCatchUp ==
  /\ Receive(toHost, "NCDragMoveAck")
  /\ toHost' = Tail(toHost)
  /\ \/ /\ d_ncDragging
        /\ d_ncDragAckPending' = FALSE
        /\ UNCHANGED toProxy
     \/ /\ ~d_ncDragging
        /\ d_ncDragAckPending' = d_ncDragNeedsAck
        /\ toProxy' = Append(toProxy, Message("NCDragEnd", d_ncDragEndPoint, "none"))
  /\ UNCHANGED <<mouseVars, is_delegate_nc_dragging_, hitTestVars, d_ncDragNeedsAck,
                 d_ncDragging, d_ncDragEndPoint, ignored, delegateVars, inputs>>

\* Mutant: the acknowledgement of the end is not waited for.
onNCDragMoveAckNotPending ==
  /\ Receive(toHost, "NCDragMoveAck")
  /\ toHost' = Tail(toHost)
  /\ d_ncDragAckPending' = (d_ncDragging /\ Head(toHost).point # cursor)
  /\ toProxy' = IF ~d_ncDragging
                THEN Append(toProxy, Message("NCDragEnd", d_ncDragEndPoint, "none"))
                ELSE IF Head(toHost).point # cursor
                     THEN Append(toProxy, Plain("NCDragMove"))
                     ELSE toProxy
  /\ UNCHANGED <<mouseVars, is_delegate_nc_dragging_, hitTestVars, d_ncDragNeedsAck,
                 d_ncDragging, d_ncDragEndPoint, ignored, delegateVars, inputs>>

\* Mutant: an end that was put off is forgotten.
onNCDragMoveAckNoEnd ==
  /\ Receive(toHost, "NCDragMoveAck")
  /\ toHost' = Tail(toHost)
  /\ d_ncDragAckPending' = (d_ncDragging /\ Head(toHost).point # cursor)
  /\ toProxy' = IF d_ncDragAckPending' THEN Append(toProxy, Plain("NCDragMove")) ELSE toProxy
  /\ UNCHANGED <<mouseVars, is_delegate_nc_dragging_, hitTestVars, d_ncDragNeedsAck,
                 d_ncDragging, d_ncDragEndPoint, ignored, delegateVars, inputs>>

\* A move is acknowledged: catch up with the cursor, or send the end that was
\* put off.
onNCDragMoveAck ==
  /\ Receive(toHost, "NCDragMoveAck")
  /\ toHost' = Tail(toHost)
  /\ \/ /\ d_ncDragging /\ Head(toHost).point # cursor
        /\ d_ncDragAckPending' = d_ncDragNeedsAck
        /\ toProxy' = Append(toProxy, Plain("NCDragMove"))
     \/ /\ d_ncDragging /\ Head(toHost).point = cursor
        /\ d_ncDragAckPending' = FALSE
        /\ UNCHANGED toProxy
     \/ /\ ~d_ncDragging
        /\ d_ncDragAckPending' = d_ncDragNeedsAck
        /\ toProxy' = Append(toProxy, Message("NCDragEnd", d_ncDragEndPoint, "none"))
  /\ UNCHANGED <<mouseVars, is_delegate_nc_dragging_, hitTestVars, d_ncDragNeedsAck,
                 d_ncDragging, d_ncDragEndPoint, ignored, delegateVars, inputs>>

onNCDragEndAck ==
  /\ Receive(toHost, "NCDragEndAck")
  /\ toHost' = Tail(toHost)
  /\ d_ncDragAckPending' = FALSE
  /\ UNCHANGED <<mouseVars, is_delegate_nc_dragging_, hitTestVars, d_ncDragNeedsAck,
                 d_ncDragging, d_ncDragEndPoint, ignored, toProxy, delegateVars,
                 inputs>>

-----------------------------------------------------------------------------
(* WebViewProxy and the delegate, in the application.                      *)

Ack(kind, point) == IF proxyNeedsAck THEN <<Message(kind, point, "none")>> ELSE <<>>

proxyUnchanged == <<mouseVars, is_delegate_nc_dragging_, hitTestVars, hostVars>>

enableNCHitTest(enabled) ==
  /\ inputs < MaxInputs
  /\ inputs' = inputs + 1
  /\ toHost' = Append(toHost, Message("EnableNCHitTest", cursor, enabled))
  /\ UNCHANGED <<proxyUnchanged, toProxy, delegateVars>>

onRequestNCHitTest ==
  /\ Receive(toProxy, "RequestNCHitTest")
  /\ hitTestAsked' = TRUE
  /\ toProxy' = Tail(toProxy)
  /\ UNCHANGED <<proxyUnchanged, toHost, proxyNeedsAck, delegate, inputs>>

\* The delegate answers for the current cursor, with any code.
onNCHitTestResult(code) ==
  /\ hitTestAsked
  /\ hitTestAsked' = FALSE
  /\ toHost' = Append(toHost, Message("OnNCHitTestResult", cursor, code))
  /\ UNCHANGED <<proxyUnchanged, toProxy, proxyNeedsAck, delegate, inputs>>

\* What the delegate sees: a begin, moves and an end; anything else is stray.
Begun(p) == [state |-> IF delegate.state = "idle" THEN "dragging" ELSE "stray", point |-> p]
Moved(p) == [state |-> IF delegate.state = "dragging" THEN "dragging" ELSE "stray", point |-> p]
Ended(p) == [state |-> IF delegate.state = "dragging" THEN "idle" ELSE "stray", point |-> p]

onNCDragBegin ==
  /\ Receive(toProxy, "NCDragBegin")
  /\ proxyNeedsAck' = (Head(toProxy).arg # "HTCAPTION")
  /\ delegate' = Begun(Head(toProxy).point)
  /\ toProxy' = Tail(toProxy)
  /\ UNCHANGED <<proxyUnchanged, toHost, hitTestAsked, inputs>>

\* The delegate gets the cursor as it is now, and so does the acknowledgement.
onNCDragMove ==
  /\ Receive(toProxy, "NCDragMove")
  /\ delegate' = Moved(cursor)
  /\ toHost' = toHost \o Ack("NCDragMoveAck", cursor)
  /\ toProxy' = Tail(toProxy)
  /\ UNCHANGED <<proxyUnchanged, proxyNeedsAck, hitTestAsked, inputs>>

onNCDragEnd ==
  /\ Receive(toProxy, "NCDragEnd")
  /\ delegate' = Ended(Head(toProxy).point)
  /\ toHost' = toHost \o Ack("NCDragEndAck", cursor)
  /\ toProxy' = Tail(toProxy)
  /\ UNCHANGED <<proxyUnchanged, proxyNeedsAck, hitTestAsked, inputs>>

-----------------------------------------------------------------------------
HostStep == onEnableNCHitTest \/ onOnNCHitTestResult \/ onNCDragMoveAck \/ onNCDragEndAck

ProxyStep == onRequestNCHitTest \/ onNCDragBegin \/ onNCDragMove \/ onNCDragEnd

Answer == \E code \in Code : onNCHitTestResult(code)

MouseMessage == HandleMouseMove \/ ncDragMove

Next ==
  \/ \E p \in Point : CursorMoves(p)
  \/ MouseMessage \/ ncDragBegin \/ ncDragEnd
  \/ HostStep \/ ProxyStep \/ Answer
  \/ \E enabled \in BOOLEAN : enableNCHitTest(enabled)

Spec == Init /\ [][Next]_vars

(***************************************************************************)
(* Fairness: both message loops run, so messages on the channels and mouse *)
(* messages are handled, and the delegate answers a hit test.  The user is *)
(* free to hold the mouse still, or the button down, for ever.             *)
(***************************************************************************)
FairSpec ==
  Spec /\ WF_vars(HostStep) /\ WF_vars(ProxyStep) /\ WF_vars(Answer)
       /\ WF_vars(MouseMessage)

-----------------------------------------------------------------------------
(* Properties.                                                             *)

ToProxyMessage == [kind : {"RequestNCHitTest", "NCDragBegin", "NCDragMove", "NCDragEnd"},
                   point : Point, arg : Code \union {"none"}]
ToHostMessage == [kind : {"OnNCHitTestResult", "NCDragMoveAck", "NCDragEndAck"},
                  point : Point, arg : Code \union {"none"}]
            \union [kind : {"EnableNCHitTest"}, point : Point, arg : BOOLEAN]

TypeOK ==
  /\ {cursor, releasedAt, answeredAt, d_ncDragEndPoint} \subseteq Point
  /\ mouseMoved \in BOOLEAN
  /\ is_delegate_nc_dragging_ \in BOOLEAN
  /\ d_ncHitTestEnabled \in BOOLEAN
  /\ d_lastNCHitTestResult \in Code
  /\ d_ncHitTestPendingAck \in BOOLEAN
  /\ d_ncDragAckPending \in BOOLEAN
  /\ d_ncDragNeedsAck \in BOOLEAN
  /\ d_ncDragging \in BOOLEAN
  /\ toProxy \in Seq(ToProxyMessage)
  /\ toHost \in Seq(ToHostMessage)
  /\ proxyNeedsAck \in BOOLEAN
  /\ hitTestAsked \in BOOLEAN
  /\ delegate \in [state : {"idle", "dragging", "stray"}, point : Point]
  /\ ignored \in BOOLEAN
  /\ inputs \in 0..MaxInputs

Count(channel, kinds) == Cardinality({i \in 1..Len(channel) : channel[i].kind \in kinds})

\* Whether the proxy will acknowledge the i-th message on its way: that is
\* decided by the drag the proxy takes it to belong to.
WillAcknowledge(i) ==
  LET begins == {j \in 1..(i - 1) : toProxy[j].kind = "NCDragBegin"}
      last == CHOOSE j \in begins : \A k \in begins : k <= j
  IN  /\ toProxy[i].kind \in {"NCDragMove", "NCDragEnd"}
      /\ IF begins = {} THEN proxyNeedsAck ELSE toProxy[last].arg # "HTCAPTION"

\* The acknowledgements that are still to reach the host.
Outstanding ==
  Cardinality({i \in 1..Len(toProxy) : WillAcknowledge(i)})
  + Count(toHost, {"NCDragMoveAck", "NCDragEndAck"})

\* The DCHECKs of onNCDragMoveAck and onNCDragEndAck, and the reason they hold:
\* d_ncDragAckPending says that exactly one acknowledgement is outstanding, in
\* spite of the two copies of d_ncDragNeedsAck, and that of an end never finds
\* a new drag begun.
AckPendingIsExact ==
  /\ Outstanding = (IF d_ncDragAckPending THEN 1 ELSE 0)
  /\ Count(toHost, {"NCDragEndAck"}) > 0 => ~d_ncDragging

\* blpwtk2_webviewdelegate.h: "Note that there will only be one outstanding hit
\* test per WebView."  It stays so when hit testing is switched off and on.
OneHitTestOutstanding ==
  Count(toProxy, {"RequestNCHitTest"}) + (IF hitTestAsked THEN 1 ELSE 0)
    + Count(toHost, {"OnNCHitTestResult"}) = (IF d_ncHitTestPendingAck THEN 1 ELSE 0)

\* As long as no drag had to be ignored, the delegate sees every drag as one
\* begin, its moves and one end, and the end where the button was released.
DragsAreWellFormed ==
  ~ignored =>
    /\ delegate.state # "stray"
    /\ \A i \in 1..Len(toProxy) :
         toProxy[i].kind = "NCDragEnd" /\ ~is_delegate_nc_dragging_
           /\ i = Len(toProxy) => toProxy[i].point = releasedAt

\* webviewhost.cc:536-537: "We'll just ignore the second drag for now."  Nothing of
\* an ignored drag reaches the delegate: it sees moves and ends only of drags
\* that it has seen begin.
SecondDragIsIgnored == delegate.state # "stray"

\* The delegate learns of the end of every drag it has seen begin, although the
\* end may be put off until an acknowledgement.
DragEndIsDelivered ==
  delegate.state = "dragging" /\ ~d_ncDragging ~> delegate.state # "dragging"

\* Moves are dropped while one is unacknowledged, but never the last one: in a
\* drag the delegate learns where the cursor has come to rest.
RestingCursorIsReported ==
  d_ncDragging /\ delegate.point # cursor
    ~> ~d_ncDragging \/ delegate.point = cursor

\* webviewimpl.cc:576: "Re-request it if the mouse position has changed, so that
\* we always have the latest info."  Once a hit test is under way, there comes
\* an answer for the place where the cursor is.
HitTestCatchesUp ==
  d_ncHitTestPendingAck /\ d_ncHitTestEnabled
    ~> ~d_ncHitTestEnabled \/ answeredAt = cursor
=============================================================================
