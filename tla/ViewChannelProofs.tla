------------------------- MODULE ViewChannelProofs -------------------------
(***************************************************************************)
(* Proofs about ViewChannel, for any views, rectangles, texts and bounds.  *)
(*                                                                         *)
(* TypeCorrect is proved first and by itself.  MoveAckIsExact is not       *)
(* inductive: that an acknowledgement finds its proxy waiting depends on   *)
(* at most one Move or MoveAck of the view being anywhere, which depends   *)
(* on who may still send one, which depends on the lives of the proxy, its *)
(* WebViewHost and its WebViewImpl.  IndInv states those facts per view,   *)
(* through what the channels carry (None, AtMostOne, NewIsFirst) rather    *)
(* than through positions, so that each kind of step on a channel (Sends,  *)
(* Receives, a loss) needs to be understood once.  The steps that keep it  *)
(* are classified at the same time by what they do to the rectangles of a  *)
(* view (MoveStep); the refinement of LastRectangleWins follows from that  *)
(* classification alone.                                                   *)
(*                                                                         *)
(* LivesInv adds to IndInv what ties proxy, WebViewHost and WebViewImpl    *)
(* together over their whole lives (LifeInv), what DeleteSoon has posted   *)
(* (DeletionInv) and in which order pages' views are announced             *)
(* (OpenerInv).  Most steps only chat about views that stay as they are;   *)
(* LifeSteps sorts them out once for all three.  Searches are a world of   *)
(* their own: FindInv needs nothing but the types.                         *)
(***************************************************************************)
EXTENDS ViewChannel, TLAPS, FiniteSetTheorems, SequenceTheorems

-----------------------------------------------------------------------------
(* What a channel carries: nothing of a set M of messages, or at most one; *)
(* and whether the first message about a view is the one that creates it.  *)

None(q, M) == \A i \in DOMAIN q : q[i] \notin M
AtMostOne(q, M) == \A i, j \in DOMAIN q : q[i] \in M /\ q[j] \in M => i = j
NewIsFirst(q, v) ==
  \E i \in DOMAIN q : /\ Is(q[i], "New", v)
                      /\ \A j \in 1 .. (i - 1) : q[j].view # v

ToHost(v) == {m \in ToHostMessages : m.view = v}
Destroys(v) == {m \in ToHostMessages : Is(m, "Destroy", v)}
Moves(v) == {m \in ToHostMessages : Is(m, "Move", v)}
Acks(v) == {m \in ToClientMessages : Is(m, "MoveAck", v)}
Announcements(v) ==
  {m \in ToClientMessages : m.type = "DidCreateNewView" /\ m.new = v}
WithAnotherRect(M, r) == {m \in M : m.rect # r}

-----------------------------------------------------------------------------
(* The inductive invariant, by the part of the protocol it is about.       *)

\* The client has proxies only while it lives, and the host outlives it;
\* nobody writes to a dead client.
Lives(v) ==
  /\ proxy[v] = "live" => client = "live"
  /\ client # "live" => toClient = <<>>
  /\ client = "live" => processHost = "live"

\* Messages are sent by a proxy, Destroy by one that goes.
Senders(v) ==
  /\ proxy[v] = "none" => None(toHost, ToHost(v)) /\ None(toClient, Acks(v))
  /\ proxy[v] # "gone" => None(toHost, Destroys(v))

\* A proxy has a WebViewHost by the time its other messages arrive.
Routed(v) ==
  proxy[v] = "live" => route[v] = "live" \/ NewIsFirst(toHost, v)

\* Each view that a page opens is announced once, before it has a proxy.
Announced(v) ==
  /\ AtMostOne(toClient, Announcements(v))
  /\ ~None(toClient, Announcements(v)) =>
       route[v] = "live" /\ impl[v].state # "none" /\ proxy[v] = "none"
  /\ v \in HostViews /\ proxy[v] # "none" => impl[v].state # "none"

\* At most one Move or MoveAck of a view is on its way, with the rectangle
\* that was sent last.
OneInFlight(v) ==
  /\ AtMostOne(toHost, Moves(v)) /\ AtMostOne(toClient, Acks(v))
  /\ None(toHost, Moves(v)) \/ None(toClient, Acks(v))
  /\ None(toHost, WithAnotherRect(Moves(v), sentRect[v]))
  /\ None(toClient, WithAnotherRect(Acks(v), sentRect[v]))

\* What the proxy knows of it, and what the window has.
Settled(v) ==
  /\ proxy[v] = "live" =>
       (d_moveAckPending[v] <=> ~(None(toHost, Moves(v)) /\ None(toClient, Acks(v))))
  /\ proxy[v] = "none" => ~d_moveAckPending[v]
  /\ proxy[v] # "gone" /\ ~d_moveAckPending[v] => d_lastMoveRect[v] = sentRect[v]
  /\ proxy[v] # "gone" /\ None(toHost, Moves(v)) => rect[v] = sentRect[v]

ViewInv(v) ==
  /\ Lives(v) /\ Senders(v) /\ Routed(v)
  /\ Announced(v) /\ OneInFlight(v) /\ Settled(v)

IndInv == TypeOK /\ \A v \in Views : ViewInv(v)

-----------------------------------------------------------------------------
(* The channel: what can be read from it, and what sending and receiving   *)
(* do to its messages.                                                     *)

\* A message to the host has the fields that its handler reads.
LEMMA ToHostFields ==
  ASSUME NEW m \in ToHostMessages
  PROVE  /\ m.view \in Views
         /\ m.type = "New" => m.view \in ClientViews /\ m.inProcess \in BOOLEAN
         /\ m.type = "Move" => m.rect \in Rects
         /\ m.type = "Find" => m.reqId \in 0 .. MaxReqId /\ m.text \in Texts
  BY DEF ToHostMessages, Views

\* So has a message to the client.
LEMMA ToClientFields ==
  ASSUME NEW m \in ToClientMessages
  PROVE  /\ m.view \in Views
         /\ m.type = "MoveAck" => m.rect \in Rects
         /\ m.type = "FindState" => /\ m.reqId \in 0 .. MaxReqId
                                    /\ m.matches \in {-1} \union Texts
         /\ m.type = "DidCreateNewView" => m.new \in HostViews
  BY DEF ToClientMessages, Views

\* What the constructors make are such messages.
LEMMA Constructors ==
  /\ \A v \in ClientViews, b \in BOOLEAN : New(v, b) \in ToHostMessages
  /\ \A v \in Views, r \in Rects : MoveMsg(v, r) \in ToHostMessages
  /\ \A v \in Views, q \in Requests : FindMsg(v, q.reqId, q.text) \in ToHostMessages
  /\ \A v \in Views : /\ Message("LoadUrl", v) \in ToHostMessages
                      /\ Message("Destroy", v) \in ToHostMessages
                      /\ Message("DestroyView", v) \in ToClientMessages
  /\ \A v \in Views, r \in Rects : MoveAck(v, r) \in ToClientMessages
  /\ \A v \in Views, id \in 0 .. MaxReqId, n \in {-1} \union Texts :
       FindState(v, id, n) \in ToClientMessages
  /\ \A v \in Views, w \in HostViews : DidCreateNewView(v, w) \in ToClientMessages
  BY DEF ToHostMessages, ToClientMessages, New, MoveMsg, FindMsg, Message,
         MoveAck, FindState, DidCreateNewView, Requests

\* Sending appends.
LEMMA AppendFacts ==
  ASSUME NEW S, NEW q \in Seq(S), NEW m \in S
  PROVE  /\ Append(q, m) \in Seq(S)
         /\ DOMAIN q = 1 .. Len(q) /\ Len(q) \in Nat
         /\ DOMAIN Append(q, m) = 1 .. Len(q) + 1
         /\ \A i \in 1 .. Len(q) : Append(q, m)[i] = q[i] /\ q[i] \in S
         /\ Append(q, m)[Len(q) + 1] = m
  OBVIOUS

\* What is sent to the client arrives, unless nobody listens.
LEMMA SentToClient ==
  ASSUME NEW m \in ToClientMessages, SendToClient(m),
         toClient \in Seq(ToClientMessages)
  PROVE  /\ toClient' \in Seq(ToClientMessages)
         /\ client = "live" => toClient' = Append(toClient, m)
         /\ client # "live" => toClient' = toClient
  BY DEF SendToClient

\* Receiving takes the first message; the others move up.
LEMMA TailFacts ==
  ASSUME NEW S, NEW q \in Seq(S), q # <<>>
  PROVE  /\ Tail(q) \in Seq(S)
         /\ Head(q) = q[1] /\ Head(q) \in S
         /\ DOMAIN q = 1 .. Len(q) /\ Len(q) \in Nat \ {0}
         /\ DOMAIN Tail(q) = 1 .. Len(q) - 1
         /\ \A i \in 1 .. Len(q) - 1 : Tail(q)[i] = q[i + 1]
         /\ \A i \in 1 .. Len(q) : q[i] \in S
  OBVIOUS

\* A dying client loses the end of what it had sent.
LEMMA SubSeqFacts ==
  ASSUME NEW S, NEW q \in Seq(S), NEW n \in 0 .. Len(q)
  PROVE  /\ SubSeq(q, 1, n) \in Seq(S)
         /\ DOMAIN q = 1 .. Len(q) /\ Len(q) \in Nat
         /\ DOMAIN SubSeq(q, 1, n) = 1 .. n
         /\ \A i \in 1 .. n : SubSeq(q, 1, n)[i] = q[i]
  OBVIOUS

-----------------------------------------------------------------------------
(* Types.                                                                  *)

\* A new WebViewImpl and one that is destroyed are WebViewImpls.
LEMMA ImplTypes ==
  /\ NoImpl \in Impls
  /\ \A b, c \in BOOLEAN : NewImpl(b, c) \in Impls
  /\ \A i \in Impls : Destroyed(i) \in Impls
  BY DEF Impls, NoImpl, NewImpl, Destroyed

\* A request has an id that fits, and a reply leaves counts of some text.
LEMMA FindTypes ==
  /\ NewFind \in Finds
  /\ \A f \in Finds, t \in Texts :
       /\ MakeRequest(f, t) \in Finds
       /\ MakeRequest(f, t).text = t
       /\ MakeRequest(f, t).reqId \in 0 .. MaxReqId
  /\ \A f \in Finds, m \in ToClientMessages :
       m.type = "FindState" => ApplyUpdate(f, m) \in Finds
  BY ToClientFields, BoundAssumption DEF NewFind, MakeRequest, ApplyUpdate, Finds

\* The bounded counters stay within their bounds.
LEMMA InputTypes ==
  ASSUME inputs \in Inputs, Call \/ Event
  PROVE  inputs' \in Inputs
  BY BoundAssumption DEF Inputs, Call, Event

\* An order of finitely many views is a sequence of them.
LEMMA OrdersAreSequences ==
  ASSUME NEW S \in SUBSET Views, NEW s \in Orders(S)
  PROVE  s \in Seq(Views)
  <1>1. IsFiniteSet(S)
    BY ViewAssumption, FS_Subset
  <1>2. Cardinality(S) \in Nat
    BY <1>1, FS_CardinalityType
  <1> QED
    BY <1>2 DEF Orders

\* No view exists and the channels are empty: the initial state has its types.
LEMMA InitType == Init => TypeOK
  BY ImplTypes, FindTypes, RectAssumption, BoundAssumption
  DEF Init, TypeOK, Inputs

\* The application's calls keep the types.
LEMMA CallTypes ==
  ASSUME TypeOK, NEW v \in Views,
         \/ LoadUrl(v) \/ Destroy(v)
         \/ \E r \in Rects : Move(v, r)
         \/ \E t \in Texts : Find(v, t)
         \/ \E d, b \in BOOLEAN : v \in ClientViews /\ CreateWebView(v, d, b)
  PROVE  TypeOK'
  <1>1. CASE LoadUrl(v)
    BY <1>1, Constructors, InputTypes
    DEF TypeOK, LoadUrl, proxyVars, moveVars, hostVars
  <1>2. CASE Destroy(v)
    BY <1>2, Constructors DEF TypeOK, Destroy, moveVars, hostVars
  <1>3. CASE \E r \in Rects : Move(v, r)
    <2>1. PICK r \in Rects : Move(v, r)
      BY <1>3
    <2>2. inputs' \in Inputs
      BY <2>1, InputTypes DEF TypeOK, Move
    <2>3. CASE d_moveAckPending[v]
      BY <2>1, <2>2, <2>3 DEF TypeOK, Move, proxyVars, hostVars
    <2>4. CASE ~d_moveAckPending[v]
      <3>1. MoveMsg(v, r) \in ToHostMessages
        BY Constructors
      <3>2. MoveImpl(v, r)
        BY <2>1, <2>4 DEF Move
      <3>3. toHost' \in Seq(ToHostMessages)
        BY <3>1, <3>2 DEF TypeOK, MoveImpl
      <3>4. /\ d_moveAckPending' \in [Views -> BOOLEAN]
            /\ sentRect' \in [Views -> Rects]
        BY <3>2 DEF TypeOK, MoveImpl
      <3> QED
        BY <2>1, <2>2, <3>3, <3>4 DEF TypeOK, Move, proxyVars, hostVars
    <2> QED
      BY <2>3, <2>4
  <1>4. CASE \E t \in Texts : Find(v, t)
    <2>1. PICK t \in Texts : Find(v, t)
      BY <1>4
    <2>2. MakeRequest(d_find[v], t) \in Finds
      BY FindTypes DEF TypeOK
    <2>3. toHost' \in Seq(ToHostMessages)
      BY <2>1, FindTypes DEF TypeOK, Find, FindMsg, ToHostMessages
    <2> QED
      BY <2>1, <2>2, <2>3, InputTypes
      DEF TypeOK, Find, proxyVars, moveVars, hostVars
  <1>5. CASE \E d, b \in BOOLEAN : v \in ClientViews /\ CreateWebView(v, d, b)
    BY <1>5, Constructors DEF TypeOK, CreateWebView, moveVars, hostVars
  <1> QED
    BY <1>1, <1>2, <1>3, <1>4, <1>5

\* So do the handlers of ProcessClientImpl, and the end of the client.
LEMMA ClientTypes ==
  ASSUME TypeOK, ClientStep \/ ClientDies
  PROVE  TypeOK'
  <1> DEFINE m == Head(toClient)
  <1>1. toClient # <<>> => /\ m \in ToClientMessages
                           /\ Tail(toClient) \in Seq(ToClientMessages)
    BY DEF TypeOK
  <1>2. CASE DropMessage
    BY <1>1, <1>2 DEF TypeOK, DropMessage, proxyVars, moveVars, hostVars
  <1>3. CASE OnMoveAck
    <2>1. m \in ToClientMessages /\ toClient' \in Seq(ToClientMessages)
      BY <1>1, <1>3 DEF OnMoveAck, Receive
    <2>2. m.view \in Views
      BY <2>1, ToClientFields
    <2>3. CASE m.rect # d_lastMoveRect[m.view]
      <3>1. MoveMsg(m.view, d_lastMoveRect[m.view]) \in ToHostMessages
        BY <2>2, Constructors DEF TypeOK
      <3>2. MoveImpl(m.view, d_lastMoveRect[m.view])
        BY <1>3, <2>3 DEF OnMoveAck
      <3>3. toHost' \in Seq(ToHostMessages)
        BY <3>1, <3>2 DEF TypeOK, MoveImpl
      <3>4. /\ d_moveAckPending' \in [Views -> BOOLEAN]
            /\ sentRect' \in [Views -> Rects]
        BY <2>2, <3>2 DEF TypeOK, MoveImpl
      <3> QED
        BY <1>3, <2>1, <3>3, <3>4 DEF TypeOK, OnMoveAck, proxyVars, hostVars
    <2>4. CASE m.rect = d_lastMoveRect[m.view]
      BY <1>3, <2>1, <2>2, <2>4 DEF TypeOK, OnMoveAck, proxyVars, hostVars
    <2> QED
      BY <2>3, <2>4
  <1>4. CASE OnFindState
    <2>1. /\ m \in ToClientMessages /\ m.type = "FindState"
          /\ toClient' \in Seq(ToClientMessages)
      BY <1>1, <1>4 DEF OnFindState, Receive
    <2>2. m.view \in Views
      BY <2>1, ToClientFields
    <2>3. d_find' \in [Views -> Finds]
      BY <1>4, <2>1, <2>2, FindTypes DEF TypeOK, OnFindState
    <2> QED
      BY <1>4, <2>1, <2>3 DEF TypeOK, OnFindState, proxyVars, moveVars, hostVars
  <1>5. ASSUME NEW keep \in BOOLEAN, NEW delegate \in BOOLEAN,
               OnDidCreateNewView(keep, delegate)
        PROVE  TypeOK'
    <2>1. /\ m \in ToClientMessages /\ m.type = "DidCreateNewView"
          /\ toClient' \in Seq(ToClientMessages)
      BY <1>1, <1>5 DEF OnDidCreateNewView, Receive
    <2>2. m.new \in Views
      BY <2>1, ToClientFields DEF Views
    <2> QED
      BY <1>5, <2>1, <2>2, Constructors
      DEF TypeOK, OnDidCreateNewView, moveVars, hostVars
  <1>6. ASSUME NEW keep \in BOOLEAN, OnDestroyView(keep)
        PROVE  TypeOK'
    <2>1. m \in ToClientMessages /\ toClient' \in Seq(ToClientMessages)
      BY <1>1, <1>6 DEF OnDestroyView, Receive
    <2>2. m.view \in Views
      BY <2>1, ToClientFields
    <2> QED
      BY <1>6, <2>1, <2>2, Constructors
      DEF TypeOK, OnDestroyView, moveVars, hostVars
  <1>7. CASE ClientDies
    <2>1. toHost' \in Seq(ToHostMessages)
      BY <1>7, SubSeqFacts DEF TypeOK, ClientDies
    <2> QED
      BY <1>7, <2>1 DEF TypeOK, ClientDies, moveVars, hostVars
  <1> QED
    BY <1>2, <1>3, <1>4, <1>5, <1>6, <1>7 DEF ClientStep

\* So do the handlers of ProcessHostImpl.
LEMMA HostTypes ==
  ASSUME TypeOK, HostStep
  PROVE  TypeOK'
  <1> DEFINE m == Head(toHost)
  <1>1. /\ m \in ToHostMessages
        /\ toHost' \in Seq(ToHostMessages)
    <2>1. toHost # <<>> /\ toHost' = Tail(toHost)
      BY DEF HostStep, OnWebViewNew, OnLoadUrl, OnMove, OnFind,
             OnWebViewDestroy, Handle
    <2> QED
      BY <2>1 DEF TypeOK
  <1>2. m.view \in Views
    BY <1>1, ToHostFields
  <1>3. CASE OnWebViewNew
    <2>1. m.inProcess \in BOOLEAN
      BY <1>1, <1>3, ToHostFields DEF OnWebViewNew, Handle
    <2>2. impl' \in [Views -> Impls]
      BY <1>2, <1>3, <2>1, ImplTypes DEF TypeOK, OnWebViewNew
    <2> QED
      BY <1>1, <1>2, <1>3, <2>2
      DEF TypeOK, OnWebViewNew, Handle, proxyVars, moveVars
  <1>4. CASE OnLoadUrl
    <2>1. impl' \in [Views -> Impls]
      <3>1. \A i \in Impls, b \in BOOLEAN : [i EXCEPT !.loading = b] \in Impls
        BY DEF Impls
      <3> QED
        BY <1>2, <1>4, <3>1 DEF TypeOK, OnLoadUrl
    <2> QED
      BY <1>1, <1>4, <2>1 DEF TypeOK, OnLoadUrl, Handle, proxyVars, moveVars
  <1>5. CASE OnMove
    <2>1. m.rect \in Rects
      BY <1>1, <1>5, ToHostFields DEF OnMove, Handle
    <2>2. toClient' \in Seq(ToClientMessages)
      <3>1. MoveAck(m.view, m.rect) \in ToClientMessages
        BY <1>2, <2>1, Constructors
      <3> QED
        BY <1>5, <3>1, SentToClient DEF TypeOK, OnMove
    <2> QED
      BY <1>1, <1>2, <1>5, <2>1, <2>2
      DEF TypeOK, OnMove, Handle, proxyVars, moveVars
  <1>6. CASE OnFind
    <2>1. m.reqId \in 0 .. MaxReqId /\ m.text \in Texts
      BY <1>1, <1>6, ToHostFields DEF OnFind, Handle
    <2>2. [reqId |-> m.reqId, text |-> m.text] \in Requests
      BY <2>1 DEF Requests
    <2>3. finding' \in [Views -> SUBSET Requests]
      BY <1>2, <1>6, <2>2 DEF TypeOK, OnFind
    <2> QED
      BY <1>1, <1>6, <2>3 DEF TypeOK, OnFind, Handle, proxyVars, moveVars
  <1>7. CASE OnWebViewDestroy
    <2>1. impl' \in [Views -> Impls]
      BY <1>2, <1>7, ImplTypes DEF TypeOK, OnWebViewDestroy
    <2> QED
      BY <1>1, <1>2, <1>7, <2>1
      DEF TypeOK, OnWebViewDestroy, Handle, proxyVars, moveVars
  <1> QED
    BY <1>3, <1>4, <1>5, <1>6, <1>7 DEF HostStep

\* So do deletions.
LEMMA DeletionTypes ==
  ASSUME TypeOK, DeleteProcessHost \/ RunTask
  PROVE  TypeOK'
  <1>1. CASE DeleteProcessHost
    <2>1. impl' \in [Views -> Impls]
      BY <1>1, ImplTypes DEF TypeOK, DeleteProcessHost
    <2>2. tasks' \in Seq(Views \union {RenderHost})
      <3>1. PICK s \in Orders({v \in Views : Listener(v) /\ impl[v].ready}) :
              tasks' = tasks \o s \o (IF renderHost = "live" THEN <<RenderHost>> ELSE <<>>)
        BY <1>1 DEF DeleteProcessHost
      <3>2. s \in Seq(Views \union {RenderHost})
        BY OrdersAreSequences
      <3> DEFINE t == IF renderHost = "live" THEN <<RenderHost>> ELSE <<>>
      <3>3. t \in Seq(Views \union {RenderHost})
        <4>1. \A S : \A e \in S : <<e>> \in Seq(S) /\ <<>> \in Seq(S)
          OBVIOUS
        <4>2. RenderHost \in Views \union {RenderHost}
          OBVIOUS
        <4>3. <<RenderHost>> \in Seq(Views \union {RenderHost})
          BY <4>1, <4>2, Zenon
        <4>4. <<>> \in Seq(Views \union {RenderHost})
          OBVIOUS
        <4> QED
          BY <4>3, <4>4, Zenon
      <3>4. tasks \o s \in Seq(Views \union {RenderHost})
        BY <3>2 DEF TypeOK
      <3> QED
        BY <3>1, <3>3, <3>4
    <2> QED
      BY <1>1, <2>1, <2>2 DEF TypeOK, DeleteProcessHost, proxyVars, moveVars
  <1>2. CASE RunTask
    <2>1. /\ Head(tasks) \in Views \union {RenderHost}
          /\ tasks' \in Seq(Views \union {RenderHost})
      BY <1>2 DEF TypeOK, RunTask
    <2>2. impl' \in [Views -> Impls]
      <3>1. \A i \in Impls : [i EXCEPT !.state = "deleted"] \in Impls
        BY DEF Impls
      <3> QED
        BY <1>2, <2>1, <3>1 DEF TypeOK, RunTask
    <2> QED
      BY <1>2, <2>1, <2>2 DEF TypeOK, RunTask, proxyVars, moveVars
  <1> QED
    BY <1>1, <1>2

\* So do the events of pages.
LEMMA PageTypes ==
  ASSUME TypeOK, NEW v \in Views,
         \/ DidNavigateMainFramePostCommit(v) \/ CloseContents(v) \/ FindReply(v)
         \/ \E w \in HostViews : WebContentsCreated(v, w)
  PROVE  TypeOK'
  <1>1. CASE DidNavigateMainFramePostCommit(v)
    <2>1. impl' \in [Views -> Impls]
      <3>1. \A i \in Impls : \A st \in {"deletingSoon", i.state} :
              [i EXCEPT !.loading = FALSE, !.ready = TRUE, !.state = st] \in Impls
        BY DEF Impls
      <3> QED
        BY <1>1, <3>1 DEF TypeOK, DidNavigateMainFramePostCommit
    <2> QED
      BY <1>1, <2>1
      DEF TypeOK, DidNavigateMainFramePostCommit, proxyVars, moveVars
  <1>2. CASE CloseContents(v)
    BY <1>2, Constructors, InputTypes
    DEF TypeOK, CloseContents, SendToClient, proxyVars, moveVars, hostVars
  <1>3. CASE FindReply(v)
    <2>1. PICK q \in finding[v] :
            /\ finding' = [finding EXCEPT ![v] = @ \ {q}]
            /\ \E n \in {-1, q.text} :
                 IF impl[v].destroyed THEN UNCHANGED toClient
                 ELSE SendToClient(FindState(v, q.reqId, n))
      BY <1>3 DEF FindReply
    <2>2. q.reqId \in 0 .. MaxReqId /\ q.text \in Texts
      BY <2>1 DEF TypeOK, Requests
    <2>3. toClient' \in Seq(ToClientMessages)
      <3>1. PICK n \in {-1, q.text} :
              IF impl[v].destroyed THEN UNCHANGED toClient
              ELSE SendToClient(FindState(v, q.reqId, n))
        BY <2>1
      <3>2. FindState(v, q.reqId, n) \in ToClientMessages
        BY <2>2, Constructors
      <3> QED
        BY <3>1, <3>2, SentToClient DEF TypeOK
    <2>4. finding' \in [Views -> SUBSET Requests]
      BY <2>1 DEF TypeOK
    <2> QED
      BY <1>3, <2>3, <2>4 DEF TypeOK, FindReply, proxyVars, moveVars
  <1>4. ASSUME NEW w \in HostViews, WebContentsCreated(v, w)
        PROVE  TypeOK'
    <2>1. w \in Views
      BY DEF Views
    <2>2. impl[v].inProcess \in BOOLEAN
      BY DEF TypeOK, Impls
    <2>3. impl' \in [Views -> Impls]
      <3>1. /\ NewImpl(impl[v].inProcess, TRUE) \in Impls
            /\ Destroyed(NewImpl(impl[v].inProcess, TRUE)) \in Impls
        BY <2>2, ImplTypes
      <3>2. \/ impl' = [impl EXCEPT ![w] = NewImpl(impl[v].inProcess, TRUE)]
            \/ impl' = [impl EXCEPT ![w] = Destroyed(NewImpl(impl[v].inProcess, TRUE))]
        BY <1>4 DEF WebContentsCreated
      <3>3. impl \in [Views -> Impls]
        BY DEF TypeOK
      <3> QED
        BY <2>1, <3>1, <3>2, <3>3
    <2>4. /\ toClient' \in Seq(ToClientMessages)
          /\ route' \in [Views -> {"none", "live", "gone"}]
      <3>1. DidCreateNewView(v, w) \in ToClientMessages
        BY Constructors
      <3> QED
        BY ZenonT(40), <1>4, <2>1, <3>1, SentToClient DEF TypeOK, WebContentsCreated
    <2> QED
      BY <1>4, <2>1, <2>3, <2>4, InputTypes
      DEF TypeOK, WebContentsCreated, proxyVars, moveVars
  <1> QED
    BY <1>1, <1>2, <1>3, <1>4

\* Every step of the client, the host and the pages keeps the types.
LEMMA TypeStep ==
  ASSUME TypeOK, [Next]_vars
  PROVE  TypeOK'
  <1>1. CASE UNCHANGED vars
    BY <1>1 DEF TypeOK, vars, proxyVars, moveVars, hostVars
  <1> QED
    BY <1>1, CallTypes, ClientTypes, HostTypes, DeletionTypes, PageTypes
    DEF Next, Views

\* Proxies, hosts, implementations and the channel keep their types: the ids
\* of find requests stay within int, and the counts shown are never negative.
THEOREM TypeCorrect == Spec => []TypeOK
  BY InitType, TypeStep, PTL DEF Spec

-----------------------------------------------------------------------------
(* What sending and receiving do to what a channel carries.                *)

\* q1 is what q becomes when m is sent on it.
Sends(q, q1, m) ==
  /\ \A M : m \notin M => /\ None(q1, M) <=> None(q, M)
                          /\ AtMostOne(q, M) => AtMostOne(q1, M)
  /\ \A M : m \in M => /\ ~None(q1, M)
                       /\ None(q, M) => AtMostOne(q1, M)
  /\ \A v : NewIsFirst(q, v) => NewIsFirst(q1, v)

\* q1 is what q becomes when its first message m is received.
Receives(q, q1, m) ==
  /\ \A M : None(q, M) => None(q1, M) /\ m \notin M
  /\ \A M : AtMostOne(q, M) => AtMostOne(q1, M)
  /\ \A M : m \notin M => (None(q1, M) <=> None(q, M))
  /\ \A M : m \in M /\ AtMostOne(q, M) => None(q1, M)
  /\ \A v : NewIsFirst(q, v) => \/ Is(m, "New", v)
                                \/ m.view # v /\ NewIsFirst(q1, v)

\* What a Send adds to a channel: one message, at its end.
LEMMA SendEffect ==
  ASSUME NEW S, NEW q \in Seq(S), NEW m \in S
  PROVE  Sends(q, Append(q, m), m)
  <1> DEFINE p == Append(q, m)
  <1>1. /\ DOMAIN q = 1 .. Len(q) /\ Len(q) \in Nat /\ DOMAIN p = 1 .. Len(q) + 1
        /\ \A i \in 1 .. Len(q) : p[i] = q[i]
        /\ p[Len(q) + 1] = m
    BY AppendFacts
  <1> HIDE DEF p
  <1>2. ASSUME NEW M, m \notin M
        PROVE  /\ None(p, M) <=> None(q, M)
               /\ AtMostOne(q, M) => AtMostOne(p, M)
    BY <1>1, <1>2 DEF None, AtMostOne
  <1>3. ASSUME NEW M, m \in M
        PROVE  /\ ~None(p, M)
               /\ None(q, M) => AtMostOne(p, M)
    BY <1>1, <1>3 DEF None, AtMostOne
  <1>4. ASSUME NEW v, NewIsFirst(q, v)
        PROVE  NewIsFirst(p, v)
    BY <1>1, <1>4 DEF NewIsFirst
  <1> QED
    BY <1>2, <1>3, <1>4 DEF p, Sends

\* The WebViewNew that a proxy's constructor sends is the first message about
\* its view.
LEMMA NewBecomesFirst ==
  ASSUME NEW q \in Seq(ToHostMessages), NEW m \in ToHostMessages, NEW v,
         None(q, ToHost(v)), Is(m, "New", v)
  PROVE  NewIsFirst(Append(q, m), v)
  <1>1. /\ DOMAIN q = 1 .. Len(q) /\ Len(q) \in Nat
        /\ DOMAIN Append(q, m) = 1 .. Len(q) + 1
        /\ \A i \in 1 .. Len(q) : Append(q, m)[i] = q[i] /\ q[i] \in ToHostMessages
        /\ Append(q, m)[Len(q) + 1] = m
    BY AppendFacts
  <1>2. \A i \in 1 .. Len(q) : q[i].view # v
    BY <1>1 DEF None, ToHost
  <1> QED
    BY <1>1, <1>2 DEF NewIsFirst

\* What handling a message takes from a channel: its head.
LEMMA ReceiveEffect ==
  ASSUME NEW S, NEW q \in Seq(S), q # <<>>
  PROVE  Receives(q, Tail(q), Head(q))
  <1> DEFINE p == Tail(q)
  <1>1. /\ DOMAIN q = 1 .. Len(q) /\ Len(q) \in Nat \ {0}
        /\ DOMAIN p = 1 .. Len(q) - 1 /\ Head(q) = q[1]
        /\ \A i \in 1 .. Len(q) - 1 : p[i] = q[i + 1]
    BY TailFacts
  <1>2. \A i \in DOMAIN q : i = 1 \/ (i - 1 \in DOMAIN p /\ q[i] = p[i - 1])
    BY <1>1
  <1>3. \A i \in DOMAIN p : i + 1 \in DOMAIN q /\ p[i] = q[i + 1] /\ i \in Nat
    BY <1>1
  <1>4. 1 \in DOMAIN q /\ Head(q) = q[1]
    BY <1>1
  <1> HIDE DEF p
  <1>5. ASSUME NEW M
        PROVE  /\ None(q, M) => None(p, M) /\ Head(q) \notin M
               /\ AtMostOne(q, M) => AtMostOne(p, M)
               /\ Head(q) \notin M => (None(p, M) <=> None(q, M))
               /\ Head(q) \in M /\ AtMostOne(q, M) => None(p, M)
    <2>1. None(q, M) => None(p, M) /\ Head(q) \notin M
      BY <1>3, <1>4 DEF None
    <2>2. AtMostOne(q, M) => AtMostOne(p, M)
      BY <1>3 DEF AtMostOne
    <2>3. Head(q) \notin M => (None(p, M) => None(q, M))
      BY <1>2, <1>4 DEF None
    <2>4. ASSUME Head(q) \in M, AtMostOne(q, M), NEW i \in DOMAIN p, p[i] \in M
          PROVE  FALSE
      <3>1. i + 1 = 1
        BY <1>3, <1>4, <2>4 DEF AtMostOne
      <3> QED
        BY <1>3, <3>1
    <2> QED
      BY <2>1, <2>2, <2>3, <2>4 DEF None
  <1>6. ASSUME NEW v, NewIsFirst(q, v), ~Is(Head(q), "New", v)
        PROVE  Head(q).view # v /\ NewIsFirst(p, v)
    <2>1. PICK i \in DOMAIN q : /\ Is(q[i], "New", v)
                                /\ \A j \in 1 .. (i - 1) : q[j].view # v
      BY <1>6 DEF NewIsFirst
    <2>2. i # 1
      BY <1>4, <1>6, <2>1
    <2>3. i \in Nat /\ i > 1
      BY <1>1, <2>2
    <2>4. i - 1 \in DOMAIN p /\ Is(p[i - 1], "New", v)
      BY <1>2, <2>1, <2>2
    <2>5. \A j \in 1 .. ((i - 1) - 1) : p[j].view # v
      BY <1>1, <2>1, <2>3
    <2>6. Head(q).view # v
      BY <1>4, <2>1, <2>3
    <2> QED
      BY <2>4, <2>5, <2>6 DEF NewIsFirst
  <1> QED
    BY <1>5, <1>6 DEF p, Receives

\* Losing the last messages, as when the client dies, adds nothing to a
\* channel.
LEMMA LossEffect ==
  ASSUME NEW S, NEW q \in Seq(S), NEW n \in 0 .. Len(q)
  PROVE  /\ \A M : None(q, M) => None(SubSeq(q, 1, n), M)
         /\ \A M : AtMostOne(q, M) => AtMostOne(SubSeq(q, 1, n), M)
  <1>1. /\ DOMAIN q = 1 .. Len(q) /\ Len(q) \in Nat /\ DOMAIN SubSeq(q, 1, n) = 1 .. n
        /\ \A i \in 1 .. n : SubSeq(q, 1, n)[i] = q[i]
    BY SubSeqFacts
  <1> QED
    BY <1>1 DEF None, AtMostOne

\* An empty channel carries nothing.
LEMMA NothingCarried ==
  \A M : None(<<>>, M) /\ AtMostOne(<<>>, M)
  BY DEF None, AtMostOne

\* A channel that carries nothing of a set carries nothing of its subsets.
LEMMA NoneSubset ==
  ASSUME NEW q, NEW M, NEW N \in SUBSET M, None(q, M)
  PROVE  None(q, N)
  BY DEF None

-----------------------------------------------------------------------------
(* Every step keeps the invariant of every view.                           *)

\* Which of the sets a message belongs to.
LEMMA Members ==
  ASSUME NEW v
  PROVE  /\ \A m \in ToHostMessages :
              /\ m \in ToHost(v) <=> m.view = v
              /\ m \in Destroys(v) <=> Is(m, "Destroy", v)
              /\ m \in Moves(v) <=> Is(m, "Move", v)
              /\ \A r : m \in WithAnotherRect(Moves(v), r) <=>
                          Is(m, "Move", v) /\ m.rect # r
         /\ \A m \in ToClientMessages :
              /\ m \in Announcements(v) <=> m.type = "DidCreateNewView" /\ m.new = v
              /\ m \in Acks(v) <=> Is(m, "MoveAck", v)
              /\ \A r : m \in WithAnotherRect(Acks(v), r) <=>
                          Is(m, "MoveAck", v) /\ m.rect # r
  BY DEF ToHost, Destroys, Moves, Acks, Announcements, WithAnotherRect

\* A channel without messages of a view has no moves of it, and so on.
LEMMA NoneOfView ==
  ASSUME NEW q, NEW v
  PROVE  /\ None(q, ToHost(v)) => None(q, Moves(v)) /\ None(q, Destroys(v))
         /\ \A r : None(q, Moves(v)) => None(q, WithAnotherRect(Moves(v), r))
         /\ \A r : None(q, Acks(v)) => None(q, WithAnotherRect(Acks(v), r))
  BY DEF None, ToHost, Moves, Destroys, WithAnotherRect, Is

\* What a step may do to the moves of v: nothing;
Keeps(v) ==
  /\ UNCHANGED <<proxy[v], d_lastMoveRect[v], sentRect[v], rect[v]>>
  /\ None(toHost', Moves(v)) <=> None(toHost, Moves(v))

\* give it a proxy, or take that away, maybe with a Move that is lost;
Opens(v) ==
  /\ proxy[v] = "none" /\ proxy'[v] = "live"
  /\ UNCHANGED <<d_lastMoveRect[v], sentRect[v], rect[v]>>
  /\ d_lastMoveRect[v] = sentRect[v]
  /\ None(toHost, Moves(v)) /\ None(toHost', Moves(v))

Closes(v) ==
  /\ proxy[v] # "gone" /\ proxy'[v] = "gone"
  /\ UNCHANGED <<d_lastMoveRect[v], sentRect[v], rect[v]>>
  /\ None(toHost, Moves(v)) => None(toHost', Moves(v))

Loses(v) ==
  /\ proxy[v] = "gone" /\ proxy'[v] = "gone"
  /\ UNCHANGED <<d_lastMoveRect[v], sentRect[v], rect[v]>>
  /\ None(toHost', Moves(v))

\* ask for a rectangle, which is held back or sent;
Asks(v) ==
  /\ proxy[v] = "live" /\ proxy'[v] = "live"
  /\ d_lastMoveRect'[v] \in Rects /\ rect'[v] = rect[v]
  /\ \/ /\ sentRect'[v] = sentRect[v]
        /\ None(toHost', Moves(v)) <=> None(toHost, Moves(v))
        /\ None(toHost, Moves(v)) => rect[v] = sentRect[v]
     \/ /\ sentRect'[v] = d_lastMoveRect'[v] /\ d_lastMoveRect[v] = sentRect[v]
        /\ None(toHost, Moves(v)) /\ ~None(toHost', Moves(v))

\* send the one that was held back;
Resends(v) ==
  /\ proxy[v] = "live" /\ proxy'[v] = "live"
  /\ UNCHANGED <<d_lastMoveRect[v], rect[v]>>
  /\ d_lastMoveRect[v] # sentRect[v] /\ sentRect'[v] = d_lastMoveRect[v]
  /\ None(toHost, Moves(v)) /\ ~None(toHost', Moves(v))

\* or apply the one that arrives.
Applies(v) ==
  /\ UNCHANGED <<proxy[v], d_lastMoveRect[v], sentRect[v]>>
  /\ rect'[v] = sentRect[v]
  /\ ~None(toHost, Moves(v)) /\ None(toHost', Moves(v))

MoveStep(v) ==
  \/ Keeps(v) \/ Opens(v) \/ Closes(v) \/ Loses(v)
  \/ Asks(v) \/ Resends(v) \/ Applies(v)

\* Sending a message that is not about the window.
LEMMA PlainSend ==
  ASSUME TypeOK, NEW v \in Views, ViewInv(v),
         NEW m \in ToHostMessages, m.type \notin {"Move", "Destroy"},
         proxy[m.view] # "none", toHost' = Append(toHost, m),
         UNCHANGED <<proxy, moveVars, hostVars, client, toClient>>
  PROVE  ViewInv(v)' /\ MoveStep(v)
  <1>1. Sends(toHost, toHost', m)
    BY SendEffect DEF TypeOK
  <1>2. /\ m \in ToHost(v) <=> m.view = v
        /\ m \notin Destroys(v) /\ m \notin Moves(v)
        /\ m \notin WithAnotherRect(Moves(v), sentRect[v])
    BY Members DEF Is
  <1>3. Senders(v)'
    BY <1>1, <1>2 DEF ViewInv, Senders, Sends
  <1>4. Routed(v)'
    BY <1>1 DEF ViewInv, Routed, Sends, hostVars
  <1>5. OneInFlight(v)'
    BY <1>1, <1>2 DEF ViewInv, OneInFlight, Sends, moveVars
  <1>6. Settled(v)'
    BY <1>1, <1>2 DEF ViewInv, Settled, Sends, moveVars, hostVars
  <1>20. MoveStep(v)
    BY <1>1, <1>2 DEF MoveStep, Keeps, Sends, moveVars, hostVars
  <1> QED
    BY <1>20, <1>3, <1>4, <1>5, <1>6 DEF ViewInv, Lives, Announced, hostVars

\* A new proxy sends New before anything else.
LEMMA CreateKeeps ==
  ASSUME TypeOK, NEW v \in Views, ViewInv(v), NEW u \in ClientViews, NEW d,
         NEW b \in BOOLEAN, CreateWebView(u, d, b)
  PROVE  ViewInv(v)' /\ MoveStep(v)
  <1> DEFINE m == New(u, b)
  <1>1. m \in ToHostMessages /\ m.type = "New" /\ m.view = u /\ u \in Views
    BY Constructors DEF New, Views
  <1>2. toHost' = Append(toHost, m) /\ Sends(toHost, toHost', m)
    BY <1>1, SendEffect DEF TypeOK, CreateWebView
  <1> HIDE DEF m
  <1>3. /\ m \in ToHost(v) <=> u = v
        /\ m \notin Destroys(v) /\ m \notin Moves(v)
        /\ m \notin WithAnotherRect(Moves(v), sentRect[v])
    BY <1>1, Members DEF Is
  <1>4. /\ proxy[u] = "none" /\ client = "live"
        /\ proxy'[v] = IF u = v THEN "live" ELSE proxy[v]
        /\ UNCHANGED <<d_lastMoveRect, d_moveAckPending, sentRect, route, impl,
                       rect, processHost, client, toClient>>
    BY <1>1 DEF CreateWebView, TypeOK, moveVars, hostVars
  <1>5. Lives(v)'
    BY <1>4 DEF ViewInv, Lives
  <1>6. Senders(v)'
    BY <1>2, <1>3, <1>4 DEF ViewInv, Senders, Sends
  <1>7. Routed(v)'
    <2>1. CASE u = v
      <3>1. None(toHost, ToHost(v))
        BY <1>4, <2>1 DEF ViewInv, Senders
      <3>2. NewIsFirst(toHost', v)
        BY <1>1, <1>2, <2>1, <3>1, NewBecomesFirst DEF TypeOK, Is
      <3> QED
        BY <3>2 DEF Routed
    <2>2. CASE u # v
      BY <1>2, <1>4, <2>2 DEF ViewInv, Routed, Sends
    <2> QED
      BY <2>1, <2>2
  <1>8. Announced(v)'
    <2>1. u \notin HostViews
      BY ViewAssumption
    <2>2. None(toClient, Announcements(u))
      BY <2>1, ToClientFields DEF None, Announcements
    <2> QED
      BY <1>4, <2>1, <2>2 DEF ViewInv, Announced
  <1>9. OneInFlight(v)'
    BY <1>2, <1>3, <1>4 DEF ViewInv, OneInFlight, Sends
  <1>10. Settled(v)'
    BY <1>2, <1>3, <1>4, NoneOfView DEF ViewInv, Senders, Settled, Sends
  <1>20. MoveStep(v)
    BY <1>2, <1>3, <1>4, NoneOfView DEF MoveStep, ViewInv, Senders, Settled, Keeps, Opens, Sends
  <1> QED
    BY <1>20, <1>5, <1>6, <1>7, <1>8, <1>9, <1>10 DEF ViewInv

\* A proxy that is destroyed says so, and nothing more.
LEMMA DestroyKeeps ==
  ASSUME TypeOK, NEW v \in Views, ViewInv(v), NEW u \in Views, Destroy(u)
  PROVE  ViewInv(v)' /\ MoveStep(v)
  <1> DEFINE m == Message("Destroy", u)
  <1>1. m \in ToHostMessages /\ m.type = "Destroy" /\ m.view = u
    BY Constructors DEF Message
  <1>2. Sends(toHost, toHost', m)
    BY <1>1, SendEffect DEF TypeOK, Destroy
  <1> HIDE DEF m
  <1>3. /\ m \in ToHost(v) <=> u = v
        /\ m \in Destroys(v) <=> u = v
        /\ m \notin Moves(v)
        /\ m \notin WithAnotherRect(Moves(v), sentRect[v])
    BY <1>1, Members DEF Is
  <1>4. /\ proxy[u] = "live"
        /\ proxy'[v] = IF u = v THEN "gone" ELSE proxy[v]
        /\ UNCHANGED <<d_lastMoveRect, d_moveAckPending, sentRect, route, impl,
                       rect, processHost, client, toClient>>
    BY DEF Destroy, TypeOK, moveVars, hostVars
  <1>5. Lives(v)'
    BY <1>4 DEF ViewInv, Lives
  <1>6. Senders(v)'
    BY <1>2, <1>3, <1>4 DEF ViewInv, Senders, Sends
  <1>7. Routed(v)'
    BY <1>2, <1>4 DEF ViewInv, Routed, Sends
  <1>8. Announced(v)'
    BY <1>4 DEF ViewInv, Announced
  <1>9. OneInFlight(v)'
    BY <1>2, <1>3, <1>4 DEF ViewInv, OneInFlight, Sends
  <1>10. Settled(v)'
    BY <1>2, <1>3, <1>4 DEF ViewInv, Settled, Sends
  <1>20. MoveStep(v)
    BY <1>2, <1>3, <1>4 DEF MoveStep, Keeps, Closes, Sends
  <1> QED
    BY <1>20, <1>5, <1>6, <1>7, <1>8, <1>9, <1>10 DEF ViewInv

\* A Move is sent only when no Move or MoveAck of its view is on its way.
LEMMA MoveKeeps ==
  ASSUME TypeOK, NEW v \in Views, ViewInv(v), NEW u \in Views, NEW r \in Rects,
         Move(u, r)
  PROVE  ViewInv(v)' /\ MoveStep(v)
  <1> DEFINE m == MoveMsg(u, r)
  <1>1. m \in ToHostMessages /\ m.type = "Move" /\ m.view = u /\ m.rect = r
    BY Constructors DEF MoveMsg
  <1>2. /\ proxy[u] = "live"
        /\ d_lastMoveRect'[v] = IF u = v THEN r ELSE d_lastMoveRect[v]
        /\ UNCHANGED <<proxy, route, impl, rect, processHost, client, toClient>>
    BY DEF Move, TypeOK, proxyVars, hostVars
  <1>3. CASE d_moveAckPending[u]
    <2>1. UNCHANGED <<d_moveAckPending, sentRect, toHost>>
      BY <1>3 DEF Move
    <2>2. Settled(v)'
      BY <1>2, <1>3, <2>1 DEF ViewInv, Settled
    <2>3. MoveStep(v)
      BY <1>2, <2>1 DEF ViewInv, Settled, MoveStep, Keeps, Asks
    <2> QED
      BY <1>2, <2>1, <2>2, <2>3
      DEF ViewInv, Lives, Senders, Routed, Announced, OneInFlight
  <1>4. CASE ~d_moveAckPending[u]
    <2>1. /\ Sends(toHost, toHost', m)
          /\ d_moveAckPending'[v] = IF u = v THEN TRUE ELSE d_moveAckPending[v]
          /\ sentRect'[v] = IF u = v THEN r ELSE sentRect[v]
      <3>1. MoveImpl(u, r)
        BY <1>4 DEF Move
      <3> QED
        BY <3>1, <1>1, SendEffect DEF MoveImpl, TypeOK
    <2> HIDE DEF m
    <2>2. /\ m \in ToHost(v) <=> u = v
          /\ m \notin Destroys(v)
          /\ m \in Moves(v) <=> u = v
          /\ m \notin WithAnotherRect(Moves(v), sentRect'[v])
      BY <1>1, <2>1, Members DEF Is
    <2>3. u = v => None(toHost, Moves(v)) /\ None(toClient, Acks(v))
      BY <1>2, <1>4 DEF ViewInv, Settled
    <2>4. Senders(v)'
      BY <1>2, <2>1, <2>2 DEF ViewInv, Senders, Sends
    <2>5. Routed(v)'
      BY <1>2, <2>1 DEF ViewInv, Routed, Sends
    <2>6. OneInFlight(v)'
      BY <1>2, <2>1, <2>2, <2>3, NoneOfView DEF ViewInv, OneInFlight, Sends
    <2>7. Settled(v)'
      BY <1>2, <2>1, <2>2 DEF ViewInv, Settled, Sends
    <2>8. MoveStep(v)
      BY <1>2, <1>4, <2>1, <2>2, <2>3
      DEF ViewInv, Settled, MoveStep, Keeps, Asks, Sends
    <2> QED
      BY <1>2, <2>4, <2>5, <2>6, <2>7, <2>8 DEF ViewInv, Lives, Announced
  <1> QED
    BY <1>3, <1>4

\* The client takes a message that is not an acknowledgement for a live proxy.
LEMMA PlainReceive ==
  ASSUME TypeOK, NEW v \in Views, ViewInv(v),
         toClient # <<>>, toClient' = Tail(toClient),
         Is(Head(toClient), "MoveAck", v) => proxy[v] # "live",
         UNCHANGED <<proxy, moveVars, hostVars, client, toHost>>
  PROVE  ViewInv(v)' /\ MoveStep(v)
  <1> DEFINE m == Head(toClient)
  <1>1. m \in ToClientMessages /\ Receives(toClient, toClient', m)
    BY TailFacts, ReceiveEffect DEF TypeOK
  <1> HIDE DEF m
  <1>2. m \in Acks(v) => proxy[v] # "live"
    BY <1>1, Members DEF m
  <1>3. Settled(v)'
    BY <1>1, <1>2 DEF ViewInv, Settled, Receives, moveVars, hostVars
  <1>4. Announced(v)'
    BY <1>1 DEF ViewInv, Announced, Receives, hostVars
  <1>5. OneInFlight(v)'
    BY <1>1 DEF ViewInv, OneInFlight, Receives, moveVars
  <1>6. Senders(v)'
    BY <1>1 DEF ViewInv, Senders, Receives
  <1>20. MoveStep(v)
    BY DEF MoveStep, Keeps, moveVars, hostVars
  <1> QED
    BY <1>20, <1>3, <1>4, <1>5, <1>6 DEF ViewInv, Lives, Routed, hostVars

\* The acknowledgement is that of the last Move; another one may follow.
LEMMA OnMoveAckKeeps ==
  ASSUME TypeOK, NEW v \in Views, ViewInv(v), OnMoveAck
  PROVE  ViewInv(v)' /\ MoveStep(v)
  <1> DEFINE m == Head(toClient)
             u == m.view
             r == d_lastMoveRect[u]
             s == MoveMsg(u, r)
  <1>1. /\ m \in ToClientMessages /\ Receives(toClient, toClient', m)
        /\ m.type = "MoveAck" /\ proxy[u] = "live"
    BY TailFacts, ReceiveEffect DEF TypeOK, OnMoveAck, Receive
  <1>2. u \in Views /\ r \in Rects
    BY <1>1, ToClientFields DEF TypeOK
  <1>3. s \in ToHostMessages /\ s.type = "Move" /\ s.view = u /\ s.rect = r
    BY <1>2, Constructors DEF MoveMsg
  <1>4. UNCHANGED <<proxy, d_lastMoveRect, route, impl, rect, processHost, client>>
    BY DEF OnMoveAck, proxyVars, hostVars
  <1>5. \/ /\ m.rect # r
           /\ Sends(toHost, toHost', s)
           /\ d_moveAckPending'[v] = IF u = v THEN TRUE ELSE d_moveAckPending[v]
           /\ sentRect'[v] = IF u = v THEN r ELSE sentRect[v]
        \/ /\ m.rect = r
           /\ d_moveAckPending'[v] = IF u = v THEN FALSE ELSE d_moveAckPending[v]
           /\ UNCHANGED <<sentRect, toHost>>
    <2>1. CASE m.rect # r
      <3>1. MoveImpl(u, r)
        BY <2>1 DEF OnMoveAck
      <3> QED
        BY <2>1, <3>1, <1>2, <1>3, SendEffect DEF MoveImpl, TypeOK
    <2>2. CASE m.rect = r
      BY <1>2, <2>2 DEF OnMoveAck, TypeOK
    <2> QED
      BY <2>1, <2>2
  <1> HIDE DEF m, u, r, s
  <1>6. /\ m \in Acks(v) <=> u = v
        /\ m \notin Announcements(v)
        /\ m \in WithAnotherRect(Acks(v), sentRect[v]) <=> u = v /\ m.rect # sentRect[v]
    BY <1>1, Members DEF Is, u
  <1>7. /\ s \in ToHost(v) <=> u = v
        /\ s \notin Destroys(v)
        /\ s \in Moves(v) <=> u = v
        /\ u = v => s \notin WithAnotherRect(Moves(v), r)
        /\ u # v => s \notin WithAnotherRect(Moves(v), sentRect[v])
    BY <1>3, Members DEF Is
  <1>8. u = v => /\ None(toHost, Moves(v)) /\ None(toClient', Acks(v))
                 /\ m.rect = sentRect[v] /\ r = d_lastMoveRect[v]
    BY <1>1, <1>6 DEF ViewInv, OneInFlight, Receives, r
  <1>9. Senders(v)'
    BY <1>1, <1>4, <1>5, <1>6, <1>7 DEF ViewInv, Senders, Receives, Sends
  <1>10. Routed(v)'
    BY <1>4, <1>5 DEF ViewInv, Routed, Sends
  <1>11. Announced(v)'
    BY <1>1, <1>4, <1>6 DEF ViewInv, Announced, Receives
  <1>12. OneInFlight(v)'
    <2>1. CASE u = v
      BY <1>1, <1>5, <1>7, <1>8, <2>1, NoneOfView
      DEF ViewInv, OneInFlight, Receives, Sends
    <2>2. CASE u # v
      BY <1>1, <1>5, <1>6, <1>7, <2>2 DEF ViewInv, OneInFlight, Receives, Sends
    <2> QED
      BY <2>1, <2>2
  <1>13. Settled(v)'
    <2>1. CASE u = v
      BY <1>1, <1>4, <1>5, <1>7, <1>8, <2>1 DEF ViewInv, Settled, Sends
    <2>2. CASE u # v
      BY <1>1, <1>4, <1>5, <1>6, <1>7, <2>2 DEF ViewInv, Settled, Receives, Sends
    <2> QED
      BY <2>1, <2>2
  <1>20. MoveStep(v)
    BY <1>1, <1>4, <1>5, <1>7, <1>8 DEF MoveStep, Keeps, Resends, Sends, u
  <1> QED
    BY <1>20, <1>4, <1>9, <1>10, <1>11, <1>12, <1>13
    DEF ViewInv, Lives, OnMoveAck, Receive

\* The new proxy of an announced view has a WebViewHost.
LEMMA OnDidCreateNewViewKeeps ==
  ASSUME TypeOK, NEW v \in Views, ViewInv(v), NEW keep \in BOOLEAN,
         NEW delegate \in BOOLEAN, OnDidCreateNewView(keep, delegate)
  PROVE  ViewInv(v)' /\ MoveStep(v)
  <1> DEFINE m == Head(toClient)
             u == m.new
             s == Message("Destroy", u)
  <1>1. /\ m \in ToClientMessages /\ Receives(toClient, toClient', m)
        /\ m.type = "DidCreateNewView" /\ proxy[m.view] = "live"
    BY TailFacts, ReceiveEffect DEF TypeOK, OnDidCreateNewView, Receive
  <1>2. u \in Views /\ m.view \in Views
    BY <1>1, ToClientFields DEF Views
  <1>3. s \in ToHostMessages /\ s.type = "Destroy" /\ s.view = u
    BY <1>2, Constructors DEF Message
  <1>4. /\ UNCHANGED <<d_lastMoveRect, d_moveAckPending, sentRect, route, impl,
                       rect, processHost, client>>
        /\ proxy'[v] = IF u # v THEN proxy[v] ELSE IF keep THEN "live" ELSE "gone"
    BY <1>2 DEF OnDidCreateNewView, TypeOK, moveVars, hostVars
  <1>5. IF keep THEN toHost' = toHost ELSE Sends(toHost, toHost', s)
    BY <1>3, SendEffect DEF OnDidCreateNewView, TypeOK
  <1> HIDE DEF m, u, s
  <1>6. /\ m \notin Acks(v) /\ m \notin WithAnotherRect(Acks(v), sentRect[v])
        /\ m \in Announcements(v) <=> u = v
    BY <1>1, Members DEF Is, u
  <1>7. /\ s \in ToHost(v) <=> u = v
        /\ s \in Destroys(v) <=> u = v
        /\ s \notin Moves(v) /\ s \notin WithAnotherRect(Moves(v), sentRect[v])
    BY <1>3, Members DEF Is
  <1>8. u = v => /\ route[v] = "live" /\ impl[v].state # "none" /\ proxy[v] = "none"
                 /\ None(toClient', Announcements(v))
    BY <1>1, <1>6 DEF ViewInv, Announced, Receives
  <1>9. client = "live"
    BY DEF OnDidCreateNewView, Receive, ViewInv, Lives
  <1>10. Lives(v)'
    BY <1>4, <1>9 DEF ViewInv, Lives
  <1>11. Senders(v)'
    BY <1>1, <1>4, <1>5, <1>6, <1>7, <1>8, NoneOfView
    DEF ViewInv, Senders, Receives, Sends
  <1>12. Routed(v)'
    BY <1>4, <1>5, <1>8 DEF ViewInv, Routed, Sends
  <1>13. Announced(v)'
    BY <1>1, <1>4, <1>6, <1>8 DEF ViewInv, Announced, Receives
  <1>14. OneInFlight(v)'
    BY <1>1, <1>4, <1>5, <1>6, <1>7 DEF ViewInv, OneInFlight, Receives, Sends
  <1>15. Settled(v)'
    BY <1>1, <1>4, <1>5, <1>6, <1>7, <1>8, NoneOfView
    DEF ViewInv, Senders, Settled, Receives, Sends
  <1>20. MoveStep(v)
    BY <1>4, <1>5, <1>7, <1>8, NoneOfView DEF MoveStep, ViewInv, Senders, Settled, Keeps, Opens, Closes, Sends
  <1> QED
    BY <1>20, <1>10, <1>11, <1>12, <1>13, <1>14, <1>15 DEF ViewInv

\* The page's window was closed and the application destroys the proxy.
LEMMA OnDestroyViewKeeps ==
  ASSUME TypeOK, NEW v \in Views, ViewInv(v), OnDestroyView(FALSE)
  PROVE  ViewInv(v)' /\ MoveStep(v)
  <1> DEFINE m == Head(toClient)
             u == m.view
             s == Message("Destroy", u)
  <1>1. /\ m \in ToClientMessages /\ Receives(toClient, toClient', m)
        /\ m.type = "DestroyView" /\ proxy[u] = "live"
    BY TailFacts, ReceiveEffect DEF TypeOK, OnDestroyView, Receive
  <1>2. u \in Views
    BY <1>1, ToClientFields
  <1>3. s \in ToHostMessages /\ s.type = "Destroy" /\ s.view = u
    BY <1>2, Constructors DEF Message
  <1>4. /\ UNCHANGED <<d_lastMoveRect, d_moveAckPending, sentRect, route, impl,
                       rect, processHost, client>>
        /\ proxy'[v] = IF u # v THEN proxy[v] ELSE "gone"
    BY <1>2 DEF OnDestroyView, TypeOK, moveVars, hostVars
  <1>5. Sends(toHost, toHost', s)
    BY <1>3, SendEffect DEF OnDestroyView, TypeOK
  <1> HIDE DEF m, u, s
  <1>6. /\ m \notin Acks(v) /\ m \notin WithAnotherRect(Acks(v), sentRect[v])
        /\ m \notin Announcements(v)
    BY <1>1, Members DEF Is
  <1>7. /\ s \in ToHost(v) <=> u = v
        /\ s \in Destroys(v) <=> u = v
        /\ s \notin Moves(v) /\ s \notin WithAnotherRect(Moves(v), sentRect[v])
    BY <1>3, Members DEF Is
  <1>8. Senders(v)'
    BY <1>1, <1>4, <1>5, <1>6, <1>7 DEF ViewInv, Senders, Receives, Sends
  <1>9. Routed(v)'
    BY <1>4, <1>5 DEF ViewInv, Routed, Sends
  <1>10. Announced(v)'
    BY <1>1, <1>4, <1>6 DEF ViewInv, Announced, Receives
  <1>11. OneInFlight(v)'
    BY <1>1, <1>4, <1>5, <1>6, <1>7 DEF ViewInv, OneInFlight, Receives, Sends
  <1>12. Settled(v)'
    BY <1>1, <1>4, <1>5, <1>6, <1>7 DEF ViewInv, Settled, Receives, Sends
  <1>20. MoveStep(v)
    BY <1>1, <1>4, <1>5, <1>7 DEF MoveStep, Keeps, Closes, Sends
  <1> QED
    BY <1>20, <1>4, <1>8, <1>9, <1>10, <1>11, <1>12
    DEF ViewInv, Lives, OnDestroyView, Receive

\* The client dies, and with it its proxies and what it has not delivered.
LEMMA ClientDiesKeeps ==
  ASSUME TypeOK, NEW v \in Views, ViewInv(v), ClientDies
  PROVE  ViewInv(v)' /\ MoveStep(v)
  <1>1. /\ \A M : None(toHost, M) => None(toHost', M)
        /\ \A M : AtMostOne(toHost, M) => AtMostOne(toHost', M)
        /\ \A M : None(toClient', M) /\ AtMostOne(toClient', M)
    BY LossEffect, NothingCarried DEF ClientDies, TypeOK
  <1>2. /\ client' = "gone" /\ proxy'[v] # "live" /\ toClient' = <<>>
        /\ proxy'[v] = "none" <=> proxy[v] = "none"
        /\ proxy'[v] # "gone" => proxy[v] = "none"
        /\ UNCHANGED <<d_lastMoveRect, d_moveAckPending, sentRect, route, impl, rect>>
    BY DEF ClientDies, TypeOK, moveVars, hostVars
  <1>3. Senders(v)'
    BY <1>1, <1>2 DEF ViewInv, Senders
  <1>4. Announced(v)'
    BY <1>1, <1>2 DEF ViewInv, Announced
  <1>5. OneInFlight(v)'
    BY <1>1, <1>2 DEF ViewInv, OneInFlight
  <1>6. Settled(v)'
    BY <1>1, <1>2, NoneOfView DEF ViewInv, Senders, Settled
  <1>20. MoveStep(v)
    <2>1. CASE proxy[v] = "none"
      BY <1>1, <1>2, <2>1, NoneOfView DEF ViewInv, Senders, MoveStep, Keeps, TypeOK
    <2>2. CASE proxy[v] = "live"
      BY <1>1, <1>2, <2>2 DEF MoveStep, Closes, TypeOK
    <2>3. CASE proxy[v] = "gone"
      BY <1>1, <1>2, <2>3 DEF MoveStep, Keeps, Loses
    <2> QED
      BY <2>1, <2>2, <2>3 DEF TypeOK
  <1> QED
    BY <1>20, <1>2, <1>3, <1>4, <1>5, <1>6 DEF ViewInv, Lives, Routed

\* The host takes a message that changes no route and no window.
LEMMA PlainHandle ==
  ASSUME TypeOK, NEW v \in Views, ViewInv(v),
         toHost # <<>>, toHost' = Tail(toHost),
         Head(toHost).type \notin {"New", "Move"},
         UNCHANGED <<proxy, moveVars, rect, processHost, client, toClient>>,
         impl[v].state # "none" => impl'[v].state # "none",
         route'[v] # route[v] => Is(Head(toHost), "Destroy", v)
  PROVE  ViewInv(v)' /\ MoveStep(v)
  <1> DEFINE m == Head(toHost)
  <1>1. m \in ToHostMessages /\ Receives(toHost, toHost', m)
    BY TailFacts, ReceiveEffect DEF TypeOK
  <1>2. m.type \notin {"New", "Move"} /\ (route'[v] # route[v] => Is(m, "Destroy", v))
    OBVIOUS
  <1> HIDE DEF m
  <1>3. m \notin Moves(v)
    BY <1>1, <1>2, Members DEF Is
  <1>4. route'[v] # route[v] => proxy[v] = "gone"
    BY <1>1, <1>2, Members DEF ViewInv, Senders, Receives
  <1>5. Senders(v)'
    BY <1>1 DEF ViewInv, Senders, Receives
  <1>6. Routed(v)'
    BY <1>1, <1>2, <1>4 DEF ViewInv, Routed, Receives, Is
  <1>7. Announced(v)'
    BY <1>4 DEF ViewInv, Announced
  <1>8. OneInFlight(v)'
    BY <1>1 DEF ViewInv, OneInFlight, Receives, moveVars
  <1>9. Settled(v)'
    BY <1>1, <1>3 DEF ViewInv, Settled, Receives, moveVars
  <1>20. MoveStep(v)
    BY <1>1, <1>3 DEF MoveStep, Keeps, Receives, moveVars
  <1> QED
    BY <1>20, <1>5, <1>6, <1>7, <1>8, <1>9 DEF ViewInv, Lives

\* New gives the proxy its route.
LEMMA OnWebViewNewKeeps ==
  ASSUME TypeOK, NEW v \in Views, ViewInv(v), OnWebViewNew
  PROVE  ViewInv(v)' /\ MoveStep(v)
  <1> DEFINE m == Head(toHost)
  <1>1. /\ m \in ToHostMessages /\ Receives(toHost, toHost', m) /\ m.type = "New"
    BY TailFacts, ReceiveEffect DEF TypeOK, OnWebViewNew, Handle
  <1>2. m.view \in Views
    BY <1>1, ToHostFields
  <1>3. /\ UNCHANGED <<proxy, d_lastMoveRect, d_moveAckPending, sentRect, rect,
                       processHost, client, toClient>>
        /\ route'[v] = IF m.view = v THEN "live" ELSE route[v]
        /\ impl[v].state # "none" => impl'[v].state # "none"
    BY <1>2 DEF OnWebViewNew, TypeOK, proxyVars, moveVars, NewImpl, NoImpl
  <1> HIDE DEF m
  <1>4. m \notin Moves(v)
    BY <1>1, Members DEF Is
  <1>5. Senders(v)'
    BY <1>1, <1>3 DEF ViewInv, Senders, Receives
  <1>6. Routed(v)'
    BY <1>1, <1>3 DEF ViewInv, Routed, Receives, Is
  <1>7. Announced(v)'
    BY <1>3 DEF ViewInv, Announced
  <1>8. OneInFlight(v)'
    BY <1>1, <1>3 DEF ViewInv, OneInFlight, Receives
  <1>9. Settled(v)'
    BY <1>1, <1>3, <1>4 DEF ViewInv, Settled, Receives
  <1>20. MoveStep(v)
    BY <1>1, <1>3, <1>4 DEF MoveStep, Keeps, Receives
  <1> QED
    BY <1>20, <1>3, <1>5, <1>6, <1>7, <1>8, <1>9 DEF ViewInv, Lives

\* A Move is applied and acknowledged whenever its proxy is still there.
LEMMA OnMoveKeeps ==
  ASSUME TypeOK, NEW v \in Views, ViewInv(v), OnMove
  PROVE  ViewInv(v)' /\ MoveStep(v)
  <1> DEFINE m == Head(toHost)
             u == m.view
             s == MoveAck(u, m.rect)
  <1>1. /\ m \in ToHostMessages /\ Receives(toHost, toHost', m) /\ m.type = "Move"
    BY TailFacts, ReceiveEffect DEF TypeOK, OnMove, Handle
  <1>2. u \in Views /\ m.rect \in Rects
    BY <1>1, ToHostFields
  <1>3. /\ s \in ToClientMessages /\ s.type = "MoveAck" /\ s.view = u
        /\ s.rect = m.rect
    BY <1>2, Constructors DEF MoveAck
  <1>4. /\ UNCHANGED <<proxy, d_lastMoveRect, d_moveAckPending, sentRect, route,
                       impl, processHost, client>>
        /\ rect'[v] = IF u = v /\ Listener(u) THEN m.rect ELSE rect[v]
    BY <1>2 DEF OnMove, TypeOK, proxyVars, moveVars
  <1>5. IF Listener(u) /\ client = "live" THEN Sends(toClient, toClient', s)
        ELSE toClient' = toClient
    <2>1. CASE Listener(u)
      <3>1. SendToClient(s)
        BY <2>1 DEF OnMove
      <3> QED
        BY <1>3, <2>1, <3>1, SentToClient, SendEffect DEF TypeOK
    <2>2. CASE ~Listener(u)
      BY <2>2 DEF OnMove
    <2> QED
      BY <2>1, <2>2
  <1> HIDE DEF m, u, s
  <1>6. /\ m \in Moves(v) <=> u = v
        /\ m \in WithAnotherRect(Moves(v), sentRect[v]) <=> u = v /\ m.rect # sentRect[v]
        /\ m \in ToHost(v) <=> u = v
    BY <1>1, Members DEF Is, u
  <1>7. /\ s \in Acks(v) <=> u = v
        /\ s \in WithAnotherRect(Acks(v), sentRect[v]) <=> u = v /\ m.rect # sentRect[v]
        /\ s \notin Announcements(v)
    BY <1>3, Members DEF Is
  <1>8. u = v => /\ None(toHost', Moves(v)) /\ None(toClient, Acks(v))
                 /\ m.rect = sentRect[v] /\ proxy[v] # "none"
    BY <1>1, <1>6 DEF ViewInv, OneInFlight, Senders, Receives
  <1>9. u = v /\ proxy[v] = "live" => Listener(u) /\ client = "live"
    BY <1>1 DEF ViewInv, Routed, Lives, Receives, Listener, Is, u
  <1>10. Senders(v)'
    BY <1>1, <1>4, <1>5, <1>7, <1>8 DEF ViewInv, Senders, Receives, Sends
  <1>11. Routed(v)'
    BY <1>1, <1>4, <1>9 DEF ViewInv, Routed, Receives, Is, Listener, u
  <1>12. Announced(v)'
    BY <1>4, <1>5, <1>7 DEF ViewInv, Announced, Sends
  <1>13. OneInFlight(v)'
    BY <1>1, <1>4, <1>5, <1>6, <1>7, <1>8 DEF ViewInv, OneInFlight, Receives, Sends
  <1>14. Settled(v)'
    <2>1. proxy[v] \in {"none", "live", "gone"}
      BY DEF TypeOK
    <2>2. CASE u = v
      BY <1>1, <1>4, <1>5, <1>6, <1>7, <1>8, <1>9, <2>1, <2>2
      DEF ViewInv, Settled, Receives, Sends
    <2>3. CASE u # v
      BY <1>1, <1>4, <1>5, <1>6, <1>7, <2>3 DEF ViewInv, Settled, Receives, Sends
    <2> QED
      BY <2>2, <2>3
  <1>20. MoveStep(v)
    <2>1. CASE u = v /\ Listener(u)
      BY <1>1, <1>4, <1>6, <1>8, <2>1 DEF MoveStep, Applies, Receives
    <2>2. CASE u = v /\ ~Listener(u)
      BY <1>4, <1>8, <1>9, <2>2 DEF MoveStep, Loses, TypeOK
    <2>3. CASE u # v
      BY <1>1, <1>4, <1>6, <2>3 DEF MoveStep, Keeps, Receives
    <2> QED
      BY <2>1, <2>2, <2>3
  <1> QED
    BY <1>20, <1>4, <1>5, <1>10, <1>11, <1>12, <1>13, <1>14 DEF ViewInv, Lives

\* The process host goes after its client.
LEMMA DeleteProcessHostKeeps ==
  ASSUME TypeOK, NEW v \in Views, ViewInv(v), DeleteProcessHost
  PROVE  ViewInv(v)' /\ MoveStep(v)
  <1>1. \A M : None(toHost', M) /\ AtMostOne(toHost', M)
    BY NothingCarried DEF DeleteProcessHost
  <1>2. /\ client = "gone" /\ proxy[v] # "live"
        /\ UNCHANGED <<proxy, d_lastMoveRect, d_moveAckPending, sentRect, rect,
                       client, toClient>>
    BY DEF DeleteProcessHost, ViewInv, Lives, proxyVars, moveVars
  <1>3. impl[v].state # "none" => impl'[v].state # "none"
    BY DEF DeleteProcessHost, TypeOK, Destroyed, Impls
  <1>4. Settled(v)'
    BY <1>1, <1>2, NoneOfView DEF ViewInv, Senders, Settled, TypeOK
  <1>5. None(toClient, Announcements(v))
    BY <1>2, NothingCarried DEF ViewInv, Lives
  <1>20. MoveStep(v)
    BY <1>1, <1>2, NoneOfView DEF MoveStep, ViewInv, Senders, Keeps, Loses, TypeOK
  <1> QED
    BY <1>20, <1>1, <1>2, <1>3, <1>4, <1>5
    DEF ViewInv, Lives, Senders, Routed, OneInFlight, Announced

\* Steps that change neither the channel, nor proxies, nor windows.
LEMMA QuietStep ==
  ASSUME NEW v \in Views, ViewInv(v),
         UNCHANGED <<proxy, moveVars, route, rect, processHost, client, toHost,
                     toClient>>,
         impl[v].state # "none" => impl'[v].state # "none"
  PROVE  ViewInv(v)' /\ MoveStep(v)
  BY DEF ViewInv, Lives, Senders, Routed, Announced, OneInFlight, Settled,
         MoveStep, Keeps, moveVars

\* The host reports something that is not an acknowledgement.
LEMMA PlainReport ==
  ASSUME TypeOK, NEW v \in Views, ViewInv(v),
         NEW m \in ToClientMessages, SendToClient(m),
         m.type \notin {"MoveAck", "DidCreateNewView"},
         UNCHANGED <<proxy, moveVars, route, impl, rect, processHost, client, toHost>>
  PROVE  ViewInv(v)' /\ MoveStep(v)
  <1>1. IF client = "live" THEN Sends(toClient, toClient', m)
        ELSE toClient' = toClient
    <2>1. toClient \in Seq(ToClientMessages)
      BY DEF TypeOK
    <2>2. Sends(toClient, Append(toClient, m), m)
      BY <2>1, SendEffect
    <2> QED
      BY <2>1, <2>2, SentToClient
  <1>2. /\ m \notin Acks(v) /\ m \notin Announcements(v)
        /\ m \notin WithAnotherRect(Acks(v), sentRect[v])
    BY Members DEF Is
  <1>3. Senders(v)' /\ Announced(v)'
    BY <1>1, <1>2 DEF ViewInv, Senders, Announced, Sends
  <1>4. OneInFlight(v)' /\ Settled(v)'
    BY <1>1, <1>2 DEF ViewInv, OneInFlight, Settled, Sends, moveVars
  <1>20. MoveStep(v)
    BY DEF MoveStep, Keeps, moveVars
  <1> QED
    BY <1>20, <1>1, <1>3, <1>4 DEF ViewInv, Lives, Routed

\* A view that a page opens gets a fresh id, a route, and then is announced.
LEMMA WebContentsCreatedKeeps ==
  ASSUME TypeOK, NEW v \in Views, ViewInv(v), NEW u \in Views,
         NEW w \in HostViews, WebContentsCreated(u, w)
  PROVE  ViewInv(v)' /\ MoveStep(v)
  <1> DEFINE m == DidCreateNewView(u, w)
  <1>1. /\ m \in ToClientMessages /\ m.type = "DidCreateNewView" /\ m.new = w
        /\ w \in Views
    BY Constructors DEF DidCreateNewView, Views
  <1>2. /\ UNCHANGED <<proxy, d_lastMoveRect, d_moveAckPending, sentRect, rect,
                       processHost, client, toHost>>
        /\ impl[w].state = "none"
        /\ impl'[v].state = IF v = w THEN "live" ELSE impl[v].state
    <2>1. /\ NewImpl(impl[u].inProcess, TRUE).state = "live"
          /\ Destroyed(NewImpl(impl[u].inProcess, TRUE)).state = "live"
      BY DEF NewImpl, NoImpl, Destroyed
    <2>2. impl'[v].state = IF v = w THEN "live" ELSE impl[v].state
      BY <1>1, <2>1 DEF WebContentsCreated, TypeOK
    <2> QED
      BY <2>2 DEF WebContentsCreated, proxyVars, moveVars
  <1>3. \/ UNCHANGED <<route, toClient>>
        \/ /\ route'[v] = IF v = w THEN "live" ELSE route[v]
           /\ IF client = "live" THEN Sends(toClient, toClient', m)
              ELSE toClient' = toClient
    <2>1. CASE impl[u].destroyed
      BY <2>1 DEF WebContentsCreated
    <2>2. CASE ~impl[u].destroyed
      <3>1. SendToClient(m) /\ route' = [route EXCEPT ![w] = "live"]
        BY <2>2 DEF WebContentsCreated
      <3> QED
        BY <1>1, <3>1, SentToClient, SendEffect DEF TypeOK
    <2> QED
      BY <2>1, <2>2
  <1> HIDE DEF m
  <1>4. /\ m \notin Acks(v) /\ m \notin WithAnotherRect(Acks(v), sentRect[v])
        /\ m \in Announcements(v) <=> v = w
    BY <1>1, Members DEF Is
  <1>5. v = w => proxy[v] = "none" /\ None(toClient, Announcements(v))
    BY <1>2 DEF ViewInv, Announced
  <1>6. Senders(v)'
    BY <1>2, <1>3, <1>4 DEF ViewInv, Senders, Sends
  <1>7. Announced(v)'
    BY <1>2, <1>3, <1>4, <1>5 DEF ViewInv, Announced, Sends
  <1>8. OneInFlight(v)'
    BY <1>2, <1>3, <1>4 DEF ViewInv, OneInFlight, Sends
  <1>9. Settled(v)'
    BY <1>2, <1>3, <1>4 DEF ViewInv, Settled, Sends
  <1>10. Lives(v)' /\ Routed(v)'
    BY <1>2, <1>3, <1>5 DEF ViewInv, Lives, Routed
  <1>20. MoveStep(v)
    BY <1>2 DEF MoveStep, Keeps
  <1> QED
    BY <1>20, <1>6, <1>7, <1>8, <1>9, <1>10 DEF ViewInv

-----------------------------------------------------------------------------
(* The theorems.                                                           *)

\* Before any call the invariant holds of every view.
LEMMA InitInv == Init => IndInv
  <1>1. ASSUME Init, NEW v \in Views
        PROVE  ViewInv(v)
    BY <1>1, NothingCarried
    DEF Init, ViewInv, Lives, Senders, Routed, Announced, OneInFlight, Settled
  <1> QED
    BY <1>1, InitType DEF IndInv

\* The application's calls.
LEMMA CallsKeep ==
  ASSUME TypeOK, NEW v \in Views, ViewInv(v), NEW u \in Views,
         LoadUrl(u) \/ \E t \in Texts : Find(u, t)
  PROVE  ViewInv(v)' /\ MoveStep(v)
  <1>1. CASE LoadUrl(u)
    <2> DEFINE m == Message("LoadUrl", u)
    <2>1. m \in ToHostMessages /\ m.type = "LoadUrl" /\ m.view = u
      BY Constructors DEF Message
    <2>2. proxy[u] = "live" /\ toHost' = Append(toHost, m)
      BY <1>1 DEF LoadUrl
    <2>3. UNCHANGED <<proxy, moveVars, hostVars, client, toClient>>
      BY <1>1 DEF LoadUrl, proxyVars
    <2> HIDE DEF m
    <2> QED
      BY <2>1, <2>2, <2>3, PlainSend
  <1>2. ASSUME NEW t \in Texts, Find(u, t)
        PROVE  ViewInv(v)' /\ MoveStep(v)
    <2> DEFINE f == MakeRequest(d_find[u], t)
               m == FindMsg(u, f.reqId, f.text)
    <2>1. f.reqId \in 0 .. MaxReqId /\ f.text \in Texts
      BY FindTypes DEF TypeOK
    <2> HIDE DEF f
    <2>2. m \in ToHostMessages /\ m.type = "Find" /\ m.view = u
      BY <2>1 DEF FindMsg, ToHostMessages
    <2>3. proxy[u] = "live" /\ toHost' = Append(toHost, m)
      BY <1>2 DEF Find, f
    <2>4. UNCHANGED <<proxy, moveVars, hostVars, client, toClient>>
      BY <1>2 DEF Find, proxyVars
    <2> HIDE DEF m
    <2> QED
      BY <2>2, <2>3, <2>4, PlainSend
  <1> QED
    BY <1>1, <1>2

\* The handlers of the client, and its end.
LEMMA ClientStepsKeep ==
  ASSUME TypeOK, NEW v \in Views, ViewInv(v), ClientStep \/ ClientDies
  PROVE  ViewInv(v)' /\ MoveStep(v)
  <1>1. CASE DropMessage
    BY <1>1, PlainReceive DEF DropMessage, proxyVars, Is
  <1>2. CASE OnFindState
    <2>1. /\ toClient # <<>> /\ toClient' = Tail(toClient)
          /\ Head(toClient).type = "FindState"
          /\ UNCHANGED <<proxy, moveVars, hostVars, client, toHost>>
      BY <1>2 DEF OnFindState, Receive, proxyVars
    <2> QED
      BY <2>1, PlainReceive DEF Is
  <1>3. CASE OnDestroyView(TRUE)
    <2>1. /\ toClient # <<>> /\ toClient' = Tail(toClient)
          /\ Head(toClient).type = "DestroyView"
          /\ UNCHANGED <<moveVars, hostVars, client, toHost>>
      BY <1>3 DEF OnDestroyView, Receive
    <2>2. UNCHANGED proxy
      BY <1>3 DEF OnDestroyView, TypeOK
    <2> QED
      BY <2>1, <2>2, PlainReceive DEF Is
  <1> QED
    BY <1>1, <1>2, <1>3, OnMoveAckKeeps, OnDidCreateNewViewKeeps,
       OnDestroyViewKeeps, ClientDiesKeeps DEF ClientStep

\* The handlers of the host.
LEMMA HostStepsKeep ==
  ASSUME TypeOK, NEW v \in Views, ViewInv(v), HostStep
  PROVE  ViewInv(v)' /\ MoveStep(v)
  <1> DEFINE m == Head(toHost)
  <1>1. toHost # <<>> /\ toHost' = Tail(toHost) /\ m \in ToHostMessages
    <2>1. toHost # <<>> /\ toHost' = Tail(toHost)
      BY DEF HostStep, OnWebViewNew, OnLoadUrl, OnMove, OnFind,
             OnWebViewDestroy, Handle
    <2> QED
      BY <2>1 DEF TypeOK
  <1>2. m.view \in Views
    BY <1>1, ToHostFields
  <1>3. CASE OnLoadUrl
    <2>1. /\ m.type = "LoadUrl"
          /\ UNCHANGED <<proxy, moveVars, rect, processHost, client, toClient, route>>
      BY <1>3 DEF OnLoadUrl, Handle, proxyVars
    <2>2. impl'[v].state = impl[v].state
      BY <1>2, <1>3 DEF OnLoadUrl, TypeOK, Impls
    <2> QED
      BY <1>1, <2>1, <2>2, PlainHandle
  <1>4. CASE OnFind
    <2>1. /\ m.type = "Find"
          /\ UNCHANGED <<proxy, moveVars, rect, processHost, client, toClient,
                         route, impl>>
      BY <1>4 DEF OnFind, Handle, proxyVars
    <2> QED
      BY <1>1, <2>1, PlainHandle
  <1>5. CASE OnWebViewDestroy
    <2>1. /\ m.type = "Destroy"
          /\ UNCHANGED <<proxy, moveVars, rect, processHost, client, toClient>>
      BY <1>5 DEF OnWebViewDestroy, Handle, proxyVars
    <2>2. \A i \in Impls : i.state # "none" => Destroyed(i).state # "none"
      BY DEF Impls, Destroyed
    <2>3. impl[v].state # "none" => impl'[v].state # "none"
      BY <1>2, <1>5, <2>2 DEF OnWebViewDestroy, TypeOK
    <2>4. route'[v] # route[v] => Is(m, "Destroy", v)
      BY <1>2, <1>5, <2>1 DEF OnWebViewDestroy, TypeOK, Is
    <2> QED
      BY <1>1, <2>1, <2>3, <2>4, PlainHandle
  <1> QED
    BY <1>3, <1>4, <1>5, OnWebViewNewKeeps, OnMoveKeeps DEF HostStep

\* Deletions and the events of pages.
LEMMA OtherStepsKeep ==
  ASSUME TypeOK, NEW v \in Views, ViewInv(v),
         \/ RunTask
         \/ \E u \in Views : \/ DidNavigateMainFramePostCommit(u)
                             \/ CloseContents(u) \/ FindReply(u)
  PROVE  ViewInv(v)' /\ MoveStep(v)
  <1>1. CASE RunTask
    <2>1. UNCHANGED <<proxy, moveVars, route, rect, processHost, client, toHost,
                      toClient>>
      BY <1>1 DEF RunTask, proxyVars
    <2>2. impl[v].state # "none" => impl'[v].state # "none"
      <3>1. \A i \in Impls : [i EXCEPT !.state = "deleted"].state = "deleted"
        BY DEF Impls
      <3>2. Head(tasks) = RenderHost \/ Head(tasks) \in Views
        BY <1>1 DEF RunTask, TypeOK
      <3>3. CASE Head(tasks) = RenderHost
        BY <1>1, <3>3 DEF RunTask
      <3>4. CASE Head(tasks) # RenderHost
        <4>1. impl' = [impl EXCEPT ![Head(tasks)] = [@ EXCEPT !.state = "deleted"]]
          BY <1>1, <3>4 DEF RunTask
        <4>2. impl \in [Views -> Impls]
          BY DEF TypeOK
        <4> QED
          BY <3>1, <3>2, <3>4, <4>1, <4>2
      <3> QED
        BY <3>3, <3>4
    <2> QED
      BY <2>1, <2>2, QuietStep
  <1>2. ASSUME NEW u \in Views, DidNavigateMainFramePostCommit(u)
        PROVE  ViewInv(v)' /\ MoveStep(v)
    <2>1. UNCHANGED <<proxy, moveVars, route, rect, processHost, client, toHost,
                      toClient>>
      BY <1>2 DEF DidNavigateMainFramePostCommit, proxyVars
    <2>2. impl[v].state # "none" => impl'[v].state # "none"
      BY <1>2 DEF DidNavigateMainFramePostCommit, TypeOK, Impls
    <2> QED
      BY <2>1, <2>2, QuietStep
  <1>3. ASSUME NEW u \in Views, CloseContents(u)
        PROVE  ViewInv(v)' /\ MoveStep(v)
    <2> DEFINE m == Message("DestroyView", u)
    <2>1. m \in ToClientMessages /\ m.type = "DestroyView"
      BY Constructors DEF Message
    <2>2. /\ SendToClient(m)
          /\ UNCHANGED <<proxy, moveVars, route, impl, rect, processHost, client,
                         toHost>>
      BY <1>3 DEF CloseContents, proxyVars, hostVars
    <2> HIDE DEF m
    <2> QED
      BY <2>1, <2>2, PlainReport
  <1>4. ASSUME NEW u \in Views, FindReply(u)
        PROVE  ViewInv(v)' /\ MoveStep(v)
    <2>1. UNCHANGED <<proxy, moveVars, route, impl, rect, processHost, client,
                      toHost>>
      BY <1>4 DEF FindReply, proxyVars
    <2>6. PICK q \in finding[u] : \E n \in {-1, q.text} :
            IF impl[u].destroyed THEN UNCHANGED toClient
            ELSE SendToClient(FindState(u, q.reqId, n))
      BY <1>4 DEF FindReply
    <2>2. PICK n \in {-1, q.text} :
            IF impl[u].destroyed THEN UNCHANGED toClient
            ELSE SendToClient(FindState(u, q.reqId, n))
      BY <2>6
    <2> DEFINE m == FindState(u, q.reqId, n)
    <2>3. m \in ToClientMessages /\ m.type = "FindState"
      BY <2>2 DEF TypeOK, Requests, FindState, ToClientMessages
    <2> HIDE DEF m
    <2>4. CASE impl[u].destroyed
      BY <2>1, <2>2, <2>4, QuietStep
    <2>5. CASE ~impl[u].destroyed
      <3>1. SendToClient(m)
        BY <2>2, <2>5 DEF m
      <3> QED
        BY <2>1, <2>3, <3>1, PlainReport
    <2> QED
      BY <2>4, <2>5
  <1> QED
    BY <1>1, <1>2, <1>3, <1>4

\* Every step keeps the invariant of every view, and does to the rectangles of
\* a view one of the things that MoveStep lists.
LEMMA NextKeeps ==
  ASSUME IndInv, [Next]_vars
  PROVE  IndInv' /\ \A v \in Views : MoveStep(v)
  <1>1. TypeOK /\ TypeOK'
    BY TypeStep DEF IndInv
  <1>2. ASSUME NEW v \in Views
        PROVE  ViewInv(v)' /\ MoveStep(v)
    <2>1. ViewInv(v)
      BY DEF IndInv
    <2>2. CASE UNCHANGED vars
      BY <2>1, <2>2, QuietStep DEF vars, proxyVars, hostVars
    <2>3. CASE ClientStep \/ ClientDies \/ HostStep
      BY <1>1, <2>1, <2>3, ClientStepsKeep, HostStepsKeep
    <2>4. ASSUME NEW u \in ClientViews, NEW d \in BOOLEAN, NEW b \in BOOLEAN,
                 CreateWebView(u, d, b)
          PROVE  ViewInv(v)' /\ MoveStep(v)
      BY <1>1, <2>1, <2>4, CreateKeeps
    <2>5. ASSUME NEW u \in Views,
                 \/ LoadUrl(u) \/ Destroy(u)
                 \/ \E r \in Rects : Move(u, r)
                 \/ \E t \in Texts : Find(u, t)
          PROVE  ViewInv(v)' /\ MoveStep(v)
      BY <1>1, <2>1, <2>5, CallsKeep, DestroyKeeps, MoveKeeps
    <2>6. ASSUME NEW u \in Views,
                 \/ DidNavigateMainFramePostCommit(u) \/ CloseContents(u)
                 \/ FindReply(u)
                 \/ \E w \in HostViews : WebContentsCreated(u, w)
          PROVE  ViewInv(v)' /\ MoveStep(v)
      BY <1>1, <2>1, <2>6, OtherStepsKeep, WebContentsCreatedKeeps
    <2>7. CASE DeleteProcessHost \/ RunTask
      BY <1>1, <2>1, <2>7, DeleteProcessHostKeeps, OtherStepsKeep
    <2> QED
      BY <2>2, <2>3, <2>4, <2>5, <2>6, <2>7 DEF Next
  <1> QED
    BY <1>1, <1>2 DEF IndInv

\* The inductive invariant holds in every reachable state: at every moment each
\* proxy, WebViewHost and WebViewImpl agree on the life of their view, and its
\* d_moveAckPending agrees with what the two channels carry.
THEOREM Inductive == Spec => []IndInv
  BY InitInv, NextKeeps, PTL DEF Spec

\* What the indices of the moves or acknowledgements tell.
LEMMA Indices ==
  ASSUME NEW v, NEW q, NEW M,
         \/ q \in Seq(ToHostMessages) /\ M = Moves(v)
         \/ q \in Seq(ToClientMessages) /\ M = Acks(v),
         NEW I, I = {i \in DOMAIN q : q[i] \in M}
  PROVE  /\ None(q, M) <=> I = {}
         /\ AtMostOne(q, M) => Cardinality(I) = IF None(q, M) THEN 0 ELSE 1
  <1>1. None(q, M) <=> I = {}
    BY DEF None
  <1>2. ASSUME AtMostOne(q, M), ~None(q, M)
        PROVE  Cardinality(I) = 1
    <2>1. PICK i \in I : TRUE
      BY <1>1, <1>2
    <2>2. I = {i}
      BY <1>2, <2>1 DEF AtMostOne
    <2> QED
      BY <2>2, FS_Singleton
  <1>3. None(q, M) => Cardinality(I) = 0
    BY <1>1, FS_EmptySet
  <1> QED
    BY <1>1, <1>2, <1>3

\* The two ways to name the positions of a view's moves agree.
LEMMA IndexSets ==
  ASSUME NEW v
  PROVE  /\ \A q \in Seq(ToHostMessages) :
              {i \in DOMAIN q : Is(q[i], "Move", v)} = {i \in DOMAIN q : q[i] \in Moves(v)}
         /\ \A q \in Seq(ToClientMessages) :
              {i \in DOMAIN q : Is(q[i], "MoveAck", v)} = {i \in DOMAIN q : q[i] \in Acks(v)}
  BY DEF Moves, Acks

\* A proxy waits for an acknowledgement exactly when one Move or one MoveAck
\* is on its way, whatever is destroyed, opened or lost meanwhile.
THEOREM MoveAckIsExactAlways == Spec => []MoveAckIsExact
  <1>1. ASSUME IndInv, NEW v \in Views, proxy[v] = "live"
        PROVE  Cardinality(MovesOf(v)) + Cardinality(AcksOf(v))
                 = IF d_moveAckPending[v] THEN 1 ELSE 0
    <2>1. /\ toHost \in Seq(ToHostMessages) /\ toClient \in Seq(ToClientMessages)
          /\ d_moveAckPending[v] \in BOOLEAN
          /\ OneInFlight(v) /\ Settled(v)
      BY <1>1 DEF IndInv, ViewInv, TypeOK
    <2>2. Cardinality(MovesOf(v)) = IF None(toHost, Moves(v)) THEN 0 ELSE 1
      BY <2>1, Indices, IndexSets DEF MovesOf, OneInFlight
    <2>3. Cardinality(AcksOf(v)) = IF None(toClient, Acks(v)) THEN 0 ELSE 1
      BY <2>1, Indices, IndexSets DEF AcksOf, OneInFlight
    <2> QED
      BY <1>1, <2>1, <2>2, <2>3 DEF OneInFlight, Settled
  <1>2. IndInv => MoveAckIsExact
    BY <1>1 DEF MoveAckIsExact
  <1> QED
    BY <1>2, Inductive, PTL

-----------------------------------------------------------------------------
(* The moves of a view implement LastRectangleWins.                        *)

\* The Move on its way to the host, and the abstract queue.
SentQueue(carried, sent) == IF carried THEN <<sent>> ELSE <<>>
QueueOf(carried, sent, live, last) ==
  IF live /\ last # sent THEN Append(SentQueue(carried, sent), last)
  ELSE SentQueue(carried, sent)

\* The queue of the abstract specification, by what the channel carries rather
\* than by counting: at most the rectangle on its way and the one remembered.
LEMMA MoveQueueIs ==
  ASSUME NEW v
  PROVE  /\ TypeOK => MoveQueue(v) = QueueOf(~None(toHost, Moves(v)), sentRect[v],
                         proxy[v] = "live", d_lastMoveRect[v])
         /\ TypeOK' => MoveQueue(v)' = QueueOf(~None(toHost', Moves(v)), sentRect'[v],
                          proxy'[v] = "live", d_lastMoveRect'[v])
  <1>1. ASSUME NEW q \in Seq(ToHostMessages)
        PROVE  {i \in DOMAIN q : Is(q[i], "Move", v)} = {} <=> None(q, Moves(v))
    <2>1. {i \in DOMAIN q : Is(q[i], "Move", v)} = {i \in DOMAIN q : q[i] \in Moves(v)}
      BY IndexSets
    <2> QED
      BY <2>1 DEF None
  <1>2. TypeOK => (MovesOf(v) = {} <=> None(toHost, Moves(v)))
    BY <1>1 DEF TypeOK, MovesOf
  <1>3. TypeOK' => (MovesOf(v)' = {} <=> None(toHost', Moves(v)))
    BY <1>1 DEF TypeOK, MovesOf
  <1> QED
    BY <1>2, <1>3 DEF MoveQueue, QueueOf, SentQueue

\* Taking a queue apart.
LEMMA SubSeqOfAppend ==
  ASSUME NEW S, NEW q \in Seq(S), NEW m \in S
  PROVE  /\ SubSeq(q, 1, Len(q)) = q /\ SubSeq(q, 1, 0) = <<>>
         /\ SubSeq(Append(q, m), 1, Len(q)) = q
         /\ q # <<>> => /\ Append(q, m) # <<>> /\ Head(Append(q, m)) = Head(q)
                        /\ Tail(Append(q, m)) = Append(Tail(q), m)
  <1>1. SubSeq(q, 1, Len(q)) = q /\ SubSeq(q, 1, 0) = <<>>
    OBVIOUS
  <1>2. SubSeq(Append(q, m), 1, Len(q)) = q
    OBVIOUS
  <1>3. q # <<>> => /\ Append(q, m) # <<>> /\ Head(Append(q, m)) = Head(q)
                    /\ Tail(Append(q, m)) = Append(Tail(q), m)
    BY HeadTailAppend, AppendProperties
  <1> QED
    BY <1>1, <1>2, <1>3

\* The ends and the prefixes of such a queue.
LEMMA QueueFacts ==
  ASSUME NEW c \in BOOLEAN, NEW sent \in Rects, NEW last \in Rects
  PROVE  LET q == SentQueue(c, sent)
         IN  /\ q \in Seq(Rects) /\ Len(q) \in 0 .. Len(q) /\ Len(q) \in Nat
             /\ SubSeq(q, 1, Len(q)) = q /\ SubSeq(q, 1, 0) = <<>>
             /\ Append(q, last) \in Seq(Rects) /\ Len(Append(q, last)) = Len(q) + 1
             /\ SubSeq(Append(q, last), 1, Len(q)) = q
             /\ SubSeq(Append(q, last), 1, 0) = <<>>
             /\ c => /\ q # <<>> /\ Head(q) = sent /\ Tail(q) = <<>>
                     /\ Append(q, last) # <<>> /\ Head(Append(q, last)) = sent
                     /\ Tail(Append(q, last)) = <<last>>
             /\ q = IF c THEN <<sent>> ELSE <<>>
             /\ Append(<<>>, last) = <<last>> /\ Append(<<>>, sent) = <<sent>>
  <1> DEFINE q == SentQueue(c, sent)
  <1>1. q \in Seq(Rects) /\ q = IF c THEN <<sent>> ELSE <<>>
    BY DEF SentQueue
  <1>2. Append(<<>>, last) = <<last>> /\ Append(<<>>, sent) = <<sent>>
    OBVIOUS
  <1>3. c => q # <<>> /\ Head(q) = sent /\ Tail(q) = <<>>
    BY <1>1
  <1> HIDE DEF q
  <1>4. /\ Append(q, last) \in Seq(Rects) /\ Len(Append(q, last)) = Len(q) + 1
        /\ Len(q) \in Nat
    BY <1>1
  <1>5. SubSeq(q, 1, Len(q)) = q /\ SubSeq(q, 1, 0) = <<>>
    BY <1>1, SubSeqOfAppend
  <1>6. SubSeq(Append(q, last), 1, Len(q)) = q
    BY <1>1, SubSeqOfAppend
  <1>7. SubSeq(Append(q, last), 1, 0) = <<>>
    BY <1>4
  <1>8. c => /\ Append(q, last) # <<>> /\ Head(Append(q, last)) = sent
             /\ Tail(Append(q, last)) = <<last>>
    <2>1. q \in Seq(Rects)
      BY <1>1
    <2>2. q # <<>> => /\ Append(q, last) # <<>> /\ Head(Append(q, last)) = Head(q)
                      /\ Tail(Append(q, last)) = Append(Tail(q), last)
      BY <2>1, SubSeqOfAppend
    <2> QED
      BY <1>2, <1>3, <2>2
  <1> QED
    BY <1>1, <1>2, <1>3, <1>4, <1>5, <1>6, <1>7, <1>8 DEF q

\* Each thing that a step may do to the moves of a view is a step of the
\* abstract specification, or none.
LEMMA MoverStep ==
  ASSUME TypeOK, TypeOK', NEW v \in Views, MoveStep(v)
  PROVE  [Mover(v)!Next]_(Mover(v)!vars)
  <1> DEFINE c == ~None(toHost, Moves(v))
             c1 == ~None(toHost', Moves(v))
             s == sentRect[v]
             s1 == sentRect'[v]
             l == d_lastMoveRect[v]
             l1 == d_lastMoveRect'[v]
             q == SentQueue(c, s)
             q1 == SentQueue(c1, s1)
  <1>1. /\ MoveQueue(v) = IF proxy[v] = "live" /\ l # s THEN Append(q, l) ELSE q
        /\ MoveQueue(v)' = IF proxy'[v] = "live" /\ l1 # s1 THEN Append(q1, l1) ELSE q1
    BY MoveQueueIs DEF QueueOf
  <1>2. s \in Rects /\ s1 \in Rects /\ l \in Rects /\ l1 \in Rects
    BY DEF TypeOK
  <1>3. c \in BOOLEAN /\ c1 \in BOOLEAN
    OBVIOUS
  <1>4. CASE Keeps(v)
    <2>1. /\ d_lastMoveRect'[v] = d_lastMoveRect[v] /\ rect'[v] = rect[v]
          /\ proxy'[v] = proxy[v] /\ MoveQueue(v)' = MoveQueue(v)
      BY <1>1, <1>4 DEF Keeps
    <2> QED
      BY <2>1 DEF Mover!vars
  <1>5. CASE Opens(v)
    <2>1. /\ d_lastMoveRect'[v] = d_lastMoveRect[v] /\ rect'[v] = rect[v]
          /\ proxy[v] # "gone" /\ proxy'[v] # "gone" /\ MoveQueue(v)' = MoveQueue(v)
      BY <1>1, <1>5 DEF Opens
    <2> QED
      BY <2>1 DEF Mover!vars
  <1>6. CASE Closes(v)
    <2>1. /\ d_lastMoveRect'[v] = d_lastMoveRect[v] /\ rect'[v] = rect[v]
          /\ proxy[v] # "gone" /\ proxy'[v] = "gone"
      BY <1>6 DEF Closes
    <2>2. MoveQueue(v)' \in {q, <<>>}
      BY <1>1, <1>6, <2>1 DEF Closes, SentQueue
    <2>3. \E n \in 0 .. Len(MoveQueue(v)) : MoveQueue(v)' = SubSeq(MoveQueue(v), 1, n)
      <3>1. /\ Len(q) \in Nat /\ SubSeq(q, 1, Len(q)) = q /\ SubSeq(q, 1, 0) = <<>>
            /\ Len(Append(q, l)) = Len(q) + 1
            /\ SubSeq(Append(q, l), 1, Len(q)) = q
            /\ SubSeq(Append(q, l), 1, 0) = <<>>
        BY ZenonT(40), <1>2, <1>3, QueueFacts
      <3>2. /\ Len(MoveQueue(v)) \in Nat /\ Len(q) \in 0 .. Len(MoveQueue(v))
            /\ SubSeq(MoveQueue(v), 1, Len(q)) = q
            /\ SubSeq(MoveQueue(v), 1, 0) = <<>>
        BY <1>1, <3>1
      <3>3. CASE MoveQueue(v)' = q
        BY <3>2, <3>3
      <3>4. CASE MoveQueue(v)' = <<>>
        <4>1. 0 \in 0 .. Len(MoveQueue(v))
          BY <3>2
        <4> QED
          BY <3>2, <3>4, <4>1
      <3> QED
        BY <2>2, <3>3, <3>4
    <2> QED
      BY <2>1, <2>3 DEF Mover!Next, Mover!Close
  <1>7. CASE Loses(v)
    <2>1. /\ d_lastMoveRect'[v] = d_lastMoveRect[v] /\ rect'[v] = rect[v]
          /\ proxy[v] = "gone" /\ proxy'[v] = "gone" /\ MoveQueue(v)' = <<>>
      BY <1>1, <1>7 DEF Loses, SentQueue
    <2> QED
      BY <2>1 DEF Mover!Next, Mover!Discard
  <1>8. CASE Asks(v)
    <2>1. /\ rect'[v] = rect[v] /\ proxy[v] = "live" /\ proxy'[v] = "live"
      BY <1>8 DEF Asks
    <2>2. \/ \E n \in 0 .. Len(MoveQueue(v)) :
                MoveQueue(v)' = Append(SubSeq(MoveQueue(v), 1, n), l1)
          \/ l1 = rect[v] /\ MoveQueue(v)' = <<>>
      <3>1. /\ Len(q) \in Nat /\ SubSeq(q, 1, Len(q)) = q /\ SubSeq(q, 1, 0) = <<>>
            /\ Len(Append(q, l)) = Len(q) + 1
            /\ SubSeq(Append(q, l), 1, Len(q)) = q
            /\ SubSeq(Append(q, l), 1, 0) = <<>>
            /\ q = IF c THEN <<s>> ELSE <<>>
        BY ZenonT(40), <1>2, <1>3, QueueFacts
      <3>2. q1 = (IF c1 THEN <<s1>> ELSE <<>>) /\ Append(<<>>, l1) = <<l1>>
        BY <1>2, <1>3, QueueFacts
      <3>3. /\ Len(q) \in 0 .. Len(MoveQueue(v)) /\ 0 \in 0 .. Len(MoveQueue(v))
            /\ SubSeq(MoveQueue(v), 1, Len(q)) = q
            /\ SubSeq(MoveQueue(v), 1, 0) = <<>>
        BY <1>1, <3>1
      <3>4. CASE l1 # s1
        <4>1. MoveQueue(v)' = Append(q1, l1) /\ s1 = s /\ (c1 <=> c)
          BY <1>1, <1>8, <2>1, <3>4 DEF Asks
        <4>2. q1 = q
          BY <3>1, <3>2, <4>1
        <4> QED
          BY <3>3, <4>1, <4>2
      <3>5. CASE l1 = s1 /\ c1
        <4>1. MoveQueue(v)' = Append(<<>>, l1)
          BY <1>1, <3>2, <3>5
        <4> QED
          BY <3>3, <4>1
      <3>6. CASE l1 = s1 /\ ~c1
        <4>1. MoveQueue(v)' = <<>>
          BY <1>1, <3>2, <3>6
        <4>2. l1 = rect[v]
          BY <1>8, <3>6 DEF Asks
        <4> QED
          BY <4>1, <4>2
      <3> QED
        BY <3>4, <3>5, <3>6
    <2> QED
      BY <1>2, <2>1, <2>2 DEF Mover!Next, Mover!Request
  <1>9. CASE Resends(v)
    <2>1. /\ d_lastMoveRect'[v] = d_lastMoveRect[v] /\ rect'[v] = rect[v]
          /\ proxy[v] # "gone" /\ proxy'[v] # "gone"
      BY <1>9 DEF Resends
    <2>2. Append(<<>>, l) = <<l>> /\ q = <<>> /\ q1 = <<l>>
      BY <1>2, <1>9 DEF Resends, SentQueue
    <2>3. MoveQueue(v)' = MoveQueue(v)
      BY <1>1, <1>9, <2>2 DEF Resends
    <2> QED
      BY <2>1, <2>3 DEF Mover!vars
  <1>10. CASE Applies(v)
    <2>1. /\ d_lastMoveRect'[v] = d_lastMoveRect[v] /\ proxy'[v] = proxy[v]
          /\ c /\ ~c1 /\ s1 = s /\ rect'[v] = s
      BY <1>10 DEF Applies
    <2>2. /\ q # <<>> /\ Head(q) = s /\ Tail(q) = <<>>
          /\ Append(q, l) # <<>> /\ Head(Append(q, l)) = s /\ Tail(Append(q, l)) = <<l>>
          /\ Append(<<>>, l) = <<l>>
      <3>1. TRUE \in BOOLEAN /\ q = SentQueue(TRUE, s)
        BY <2>1 DEF SentQueue
      <3> QED
        BY <1>2, <3>1, QueueFacts
    <2>3. q1 = <<>>
      BY <2>1 DEF SentQueue
    <2>4. /\ MoveQueue(v) # <<>> /\ rect'[v] = Head(MoveQueue(v))
          /\ MoveQueue(v)' = Tail(MoveQueue(v))
      BY <1>1, <2>1, <2>2, <2>3
    <2> QED
      BY <2>1, <2>4 DEF Mover!Next, Mover!Apply
  <1> QED
    BY <1>4, <1>5, <1>6, <1>7, <1>8, <1>9, <1>10 DEF MoveStep

\* The moves of every view implement the abstract specification: what the
\* application asked for last is never lost while it keeps the view.
THEOREM MovesRefine == Spec => MovesAreLastRectangleWins
  <1>1. Init => \A v \in Views : Mover(v)!Init
    <2>1. ASSUME Init, NEW v \in Views
          PROVE  Mover(v)!Init
      <3>1. MoveQueue(v) = <<>>
        BY <2>1 DEF Init, MoveQueue, MovesOf
      <3> QED
        BY <2>1, <3>1 DEF Init, Mover!Init
    <2> QED
      BY <2>1
  <1>2. ASSUME IndInv, [Next]_vars
        PROVE  [\A v \in Views : [Mover(v)!Next]_(Mover(v)!vars)]_vars
    BY <1>2, NextKeeps, MoverStep DEF IndInv
  <1> QED
    BY <1>1, <1>2, Inductive, PTL DEF Spec, MovesAreLastRectangleWins

-----------------------------------------------------------------------------
(* The lives of views: who owns a WebViewHost, and what the channels say   *)
(* about it.                                                               *)

News(v) == {m \in ToHostMessages : Is(m, "New", v)}

\* A view has a WebViewHost from the creation of its WebViewImpl until that is
\* destroyed, and none outlives the process host.
Hosted(v) ==
  /\ Listener(v) <=> impl[v].state # "none" /\ ~impl[v].destroyed
  /\ impl[v].state = "none" =>
       /\ ~impl[v].destroyed /\ ~impl[v].ready /\ ~impl[v].inProcess
       /\ opener[v] = v
  /\ processHost = "deleted" => ~Listener(v)

\* New is sent once and is handled before anything else about its view.
Begun(v) ==
  /\ AtMostOne(toHost, News(v))
  /\ ~None(toHost, News(v)) => impl[v].state = "none"
  /\ impl[v].state = "none" => None(toHost, ToHost(v)) \/ NewIsFirst(toHost, v)
  /\ v \in ClientViews /\ proxy[v] = "none" => impl[v].state = "none"

\* Destroy is sent once, and a view is destroyed because of it unless the client
\* has gone.
Ended(v) ==
  /\ AtMostOne(toHost, Destroys(v))
  /\ proxy[v] = "live" \/ ~None(toHost, Destroys(v)) => ~impl[v].destroyed
  /\ proxy[v] = "gone" /\ client = "live" =>
       impl[v].destroyed \/ ~None(toHost, Destroys(v))

LifeInv(v) == Hosted(v) /\ Begun(v) /\ Ended(v)

-----------------------------------------------------------------------------
\* A WebViewImpl is where it was in its life.
SameLife(v) ==
  /\ impl'[v].state = impl[v].state /\ impl'[v].ready = impl[v].ready
  /\ impl'[v].destroyed = impl[v].destroyed
  /\ impl'[v].inProcess = impl[v].inProcess /\ impl'[v].early = impl[v].early

\* Steps that only pass on, drop or answer messages: no view is created,
\* destroyed or announced.
Chats ==
  /\ \A v \in Views : SameLife(v)
  /\ UNCHANGED <<proxy, route, opener, tasks, renderHost, processHost, client>>
  /\ \/ UNCHANGED toHost
     \/ \E m \in ToHostMessages : /\ m.type \notin {"New", "Destroy"}
                                  /\ proxy[m.view] = "live"
                                  /\ toHost' = Append(toHost, m)
     \/ /\ toHost # <<>> /\ Head(toHost).type \notin {"New", "Destroy"}
        /\ toHost' = Tail(toHost)
  /\ \/ UNCHANGED toClient
     \/ \E m \in ToClientMessages : /\ m.type # "DidCreateNewView"
                                    /\ toClient' = Append(toClient, m)
     \/ /\ toClient # <<>> /\ toClient' = Tail(toClient)
        /\ Head(toClient).type = "DidCreateNewView" =>
             proxy[Head(toClient).view] # "live"

\* A proxy is destroyed, by the application or because the page closed.
Closing(u) ==
  /\ proxy[u] = "live"
  /\ proxy' = [proxy EXCEPT ![u] = "gone"]
  /\ toHost' = Append(toHost, Message("Destroy", u))
  /\ \/ UNCHANGED toClient
     \/ /\ toClient # <<>> /\ toClient' = Tail(toClient)
        /\ Head(toClient).type # "DidCreateNewView"
  /\ UNCHANGED <<route, impl, opener, tasks, renderHost, processHost, client>>

\* The application's calls about a view that it has.
LEMMA CallsChat ==
  ASSUME TypeOK, NEW u \in Views,
         \/ LoadUrl(u)
         \/ \E r \in Rects : Move(u, r)
         \/ \E t \in Texts : Find(u, t)
  PROVE  Chats
  <1>1. CASE LoadUrl(u)
    <2> DEFINE m == Message("LoadUrl", u)
    <2>1. m \in ToHostMessages /\ m.type = "LoadUrl" /\ m.view = u
      BY Constructors DEF Message
    <2>2. proxy[u] = "live" /\ toHost' = Append(toHost, m)
      BY <1>1 DEF LoadUrl
    <2> HIDE DEF m
    <2>3. \E n \in ToHostMessages : /\ n.type \notin {"New", "Destroy"}
                                    /\ proxy[n.view] = "live"
                                    /\ toHost' = Append(toHost, n)
      BY <2>1, <2>2
    <2> QED
      BY <1>1, <2>3 DEF LoadUrl, Chats, SameLife, proxyVars, hostVars
  <1>2. ASSUME NEW r \in Rects, Move(u, r)
        PROVE  Chats
    <2>1. UNCHANGED <<proxy, hostVars, client, toClient>>
      BY <1>2 DEF Move, proxyVars
    <2>2. CASE d_moveAckPending[u]
      <3>1. UNCHANGED toHost
        BY <1>2, <2>2 DEF Move
      <3> QED
        BY <2>1, <3>1 DEF Chats, SameLife, hostVars
    <2>3. CASE ~d_moveAckPending[u]
      <3> DEFINE m == MoveMsg(u, r)
      <3>1. m \in ToHostMessages /\ m.type = "Move" /\ m.view = u
        BY Constructors DEF MoveMsg
      <3>2. proxy[u] = "live" /\ toHost' = Append(toHost, m)
        BY <1>2, <2>3 DEF Move, MoveImpl
      <3> HIDE DEF m
      <3>3. \E n \in ToHostMessages : /\ n.type \notin {"New", "Destroy"}
                                      /\ proxy[n.view] = "live"
                                      /\ toHost' = Append(toHost, n)
        BY <3>1, <3>2
      <3> QED
        BY <2>1, <3>3 DEF Chats, SameLife, hostVars
    <2> QED
      BY <2>2, <2>3
  <1>3. ASSUME NEW t \in Texts, Find(u, t)
        PROVE  Chats
    <2> DEFINE f == MakeRequest(d_find[u], t)
               m == FindMsg(u, f.reqId, f.text)
    <2>1. f.reqId \in 0 .. MaxReqId /\ f.text \in Texts
      BY FindTypes DEF TypeOK
    <2> HIDE DEF f
    <2>2. m \in ToHostMessages /\ m.type = "Find" /\ m.view = u
      BY <2>1 DEF FindMsg, ToHostMessages
    <2>3. proxy[u] = "live" /\ toHost' = Append(toHost, m)
      BY <1>3 DEF Find, f
    <2> HIDE DEF m
    <2>4. \E n \in ToHostMessages : /\ n.type \notin {"New", "Destroy"}
                                    /\ proxy[n.view] = "live"
                                    /\ toHost' = Append(toHost, n)
      BY <2>2, <2>3
    <2> QED
      BY <1>3, <2>4 DEF Find, Chats, SameLife, proxyVars, hostVars
  <1> QED
    BY <1>1, <1>2, <1>3

\* The handlers of the client that keep its proxies.
LEMMA ClientChats ==
  ASSUME TypeOK, DropMessage \/ OnMoveAck \/ OnFindState \/ OnDestroyView(TRUE)
  PROVE  Chats
  <1>1. CASE DropMessage
    BY <1>1 DEF DropMessage, Chats, SameLife, proxyVars, hostVars
  <1>2. CASE OnMoveAck
    <2> DEFINE u == Head(toClient).view
               r == d_lastMoveRect[u]
               m == MoveMsg(u, r)
    <2>1. /\ toClient # <<>> /\ toClient' = Tail(toClient) /\ proxy[u] = "live"
          /\ Head(toClient).type # "DidCreateNewView"
          /\ UNCHANGED <<proxy, hostVars, client>>
      BY <1>2 DEF OnMoveAck, Receive, proxyVars
    <2>2. u \in Views /\ r \in Rects
      <3>1. Head(toClient) \in ToClientMessages
        BY <2>1, TailFacts DEF TypeOK
      <3> QED
        BY <3>1, ToClientFields DEF TypeOK
    <2>3. m \in ToHostMessages /\ m.type = "Move" /\ m.view = u
      BY <2>2, Constructors DEF MoveMsg
    <2>4. UNCHANGED toHost \/ toHost' = Append(toHost, m)
      BY <1>2 DEF OnMoveAck, MoveImpl
    <2>5. \/ UNCHANGED toHost
          \/ \E n \in ToHostMessages : /\ n.type \notin {"New", "Destroy"}
                                       /\ proxy[n.view] = "live"
                                       /\ toHost' = Append(toHost, n)
      <3> HIDE DEF m, u
      <3> QED
        BY <2>1, <2>3, <2>4
    <2> QED
      BY <2>1, <2>5 DEF Chats, SameLife, hostVars
  <1>3. CASE OnFindState
    BY <1>3 DEF OnFindState, Receive, Chats, SameLife, proxyVars, hostVars
  <1>4. CASE OnDestroyView(TRUE)
    <2>1. UNCHANGED proxy
      BY <1>4 DEF OnDestroyView, TypeOK
    <2> QED
      BY <1>4, <2>1 DEF OnDestroyView, Receive, Chats, SameLife, hostVars
  <1> QED
    BY <1>1, <1>2, <1>3, <1>4

\* The handlers of the host that create and destroy nothing.
LEMMA HostChats ==
  ASSUME TypeOK, OnLoadUrl \/ OnMove \/ OnFind
  PROVE  Chats
  <1> DEFINE m == Head(toHost)
  <1>1. toHost # <<>> /\ toHost' = Tail(toHost) /\ m.type \notin {"New", "Destroy"}
    BY DEF OnLoadUrl, OnMove, OnFind, Handle
  <1>2. m \in ToHostMessages
    BY <1>1, TailFacts DEF TypeOK
  <1>3. m.view \in Views
    BY <1>2, ToHostFields
  <1>4. CASE OnLoadUrl
    <2>1. \A v \in Views : SameLife(v)
      <3>1. \A i \in Impls : \A b : LET j == [i EXCEPT !.loading = b] IN
              /\ j.state = i.state /\ j.ready = i.ready /\ j.destroyed = i.destroyed
              /\ j.inProcess = i.inProcess /\ j.early = i.early
        BY DEF Impls
      <3> DEFINE b == impl[m.view].loading \/ Listener(m.view)
      <3>2. impl' = [impl EXCEPT ![m.view] = [@ EXCEPT !.loading = b]]
        BY <1>4 DEF OnLoadUrl
      <3>3. impl \in [Views -> Impls]
        BY DEF TypeOK
      <3> HIDE DEF b, m
      <3> QED
        BY <1>3, <3>1, <3>2, <3>3 DEF SameLife
    <2> QED
      BY <1>1, <1>4, <2>1 DEF OnLoadUrl, Chats, proxyVars
  <1>5. CASE OnMove
    <2> DEFINE s == MoveAck(m.view, m.rect)
    <2>1. m.rect \in Rects
      BY <1>2, <1>5, ToHostFields DEF OnMove, Handle
    <2>2. s \in ToClientMessages /\ s.type = "MoveAck"
      BY <1>3, <2>1, Constructors DEF MoveAck
    <2>3. UNCHANGED toClient \/ toClient' = Append(toClient, s)
      BY <1>5 DEF OnMove, SendToClient
    <2> HIDE DEF s
    <2>4. \/ UNCHANGED toClient
          \/ \E n \in ToClientMessages : /\ n.type # "DidCreateNewView"
                                         /\ toClient' = Append(toClient, n)
      BY <2>2, <2>3
    <2> QED
      BY <1>1, <1>5, <2>4 DEF OnMove, Chats, SameLife, proxyVars
  <1>6. CASE OnFind
    BY <1>1, <1>6 DEF OnFind, Chats, SameLife, proxyVars
  <1> QED
    BY <1>4, <1>5, <1>6

\* Reports of a page to its proxy.
LEMMA PageChats ==
  ASSUME TypeOK, NEW u \in Views, CloseContents(u) \/ FindReply(u)
  PROVE  Chats
  <1>1. CASE CloseContents(u)
    <2> DEFINE m == Message("DestroyView", u)
    <2>1. m \in ToClientMessages /\ m.type = "DestroyView"
      BY Constructors DEF Message
    <2>2. UNCHANGED toClient \/ toClient' = Append(toClient, m)
      BY <1>1 DEF CloseContents, SendToClient
    <2> HIDE DEF m
    <2>3. \/ UNCHANGED toClient
          \/ \E n \in ToClientMessages : /\ n.type # "DidCreateNewView"
                                         /\ toClient' = Append(toClient, n)
      BY <2>1, <2>2
    <2> QED
      BY <1>1, <2>3 DEF CloseContents, Chats, SameLife, proxyVars, hostVars
  <1>2. CASE FindReply(u)
    <2>1. PICK q \in finding[u] : \E n \in {-1, q.text} :
            IF impl[u].destroyed THEN UNCHANGED toClient
            ELSE SendToClient(FindState(u, q.reqId, n))
      BY <1>2 DEF FindReply
    <2>2. PICK n \in {-1, q.text} :
            IF impl[u].destroyed THEN UNCHANGED toClient
            ELSE SendToClient(FindState(u, q.reqId, n))
      BY <2>1
    <2> DEFINE m == FindState(u, q.reqId, n)
    <2>3. m \in ToClientMessages /\ m.type = "FindState"
      BY <2>2 DEF TypeOK, Requests, FindState, ToClientMessages
    <2>4. UNCHANGED toClient \/ toClient' = Append(toClient, m)
      BY <2>2 DEF SendToClient
    <2> HIDE DEF m
    <2>5. \/ UNCHANGED toClient
          \/ \E k \in ToClientMessages : /\ k.type # "DidCreateNewView"
                                         /\ toClient' = Append(toClient, k)
      BY <2>3, <2>4
    <2> QED
      BY <1>2, <2>5 DEF FindReply, Chats, SameLife, proxyVars
  <1> QED
    BY <1>1, <1>2

\* Every step chats or does one of ten things to the life of some view.
LEMMA LifeSteps ==
  ASSUME TypeOK, [Next]_vars
  PROVE  \/ Chats
         \/ \E u \in ClientViews, d, b \in BOOLEAN : CreateWebView(u, d, b)
         \/ \E u \in Views : Closing(u)
         \/ \E keep, d \in BOOLEAN : OnDidCreateNewView(keep, d)
         \/ ClientDies \/ OnWebViewNew \/ OnWebViewDestroy
         \/ DeleteProcessHost \/ RunTask
         \/ \E u \in Views : \/ DidNavigateMainFramePostCommit(u)
                             \/ \E w \in HostViews : WebContentsCreated(u, w)
  <1>1. CASE UNCHANGED vars
    BY <1>1 DEF vars, Chats, SameLife, proxyVars, hostVars
  <1>2. ASSUME NEW u \in Views, Destroy(u)
        PROVE  Closing(u)
    BY <1>2 DEF Destroy, Closing, hostVars
  <1>3. ASSUME OnDestroyView(FALSE)
        PROVE  \E u \in Views : Closing(u)
    <2> DEFINE u == Head(toClient).view
    <2>1. u \in Views
      <3>1. toClient # <<>>
        BY <1>3 DEF OnDestroyView, Receive
      <3>2. Head(toClient) \in ToClientMessages
        BY <3>1, TailFacts DEF TypeOK
      <3> QED
        BY <3>2, ToClientFields
    <2>2. Closing(u)
      BY <1>3 DEF OnDestroyView, Receive, Closing, hostVars
    <2> QED
      BY <2>1, <2>2
  <1>4. ASSUME ClientStep
        PROVE  \/ Chats \/ \E u \in Views : Closing(u)
               \/ \E keep, d \in BOOLEAN : OnDidCreateNewView(keep, d)
    <2>1. ASSUME NEW keep \in BOOLEAN, OnDestroyView(keep)
          PROVE  Chats \/ \E u \in Views : Closing(u)
      <3>1. CASE keep = TRUE
        BY <2>1, <3>1, ClientChats
      <3>2. CASE keep = FALSE
        BY <2>1, <3>2, <1>3
      <3> QED
        BY <3>1, <3>2
    <2> QED
      BY <1>4, <2>1, ClientChats DEF ClientStep
  <1>5. HostStep => Chats \/ OnWebViewNew \/ OnWebViewDestroy
    BY HostChats DEF HostStep
  <1> QED
    BY <1>1, <1>2, <1>4, <1>5, CallsChat, PageChats DEF Next

-----------------------------------------------------------------------------
(* Steps of the application keep the lives of the views.                   *)

\* What may happen on the channel to the host that does not begin or end v.
Passes(v) ==
  \/ UNCHANGED toHost
  \/ \E m \in ToHostMessages :
       /\ Sends(toHost, toHost', m)
       /\ m.view # v \/ (m.type \notin {"New", "Destroy"} /\ proxy[v] = "live")
  \/ \E m \in ToHostMessages :
       /\ Receives(toHost, toHost', m)
       /\ m.view # v \/ m.type \notin {"New", "Destroy"}

\* Which messages begin and end a view.
LEMMA LifeMembers ==
  ASSUME NEW v, NEW m \in ToHostMessages
  PROVE  /\ m \in News(v) <=> m.type = "New" /\ m.view = v
         /\ m \in Destroys(v) <=> m.type = "Destroy" /\ m.view = v
         /\ m \in ToHost(v) <=> m.view = v
  BY DEF News, Destroys, ToHost, Is

\* A channel without messages about a view does not begin or end it.
LEMMA NoneAboutView ==
  ASSUME NEW q, NEW v, None(q, ToHost(v))
  PROVE  None(q, News(v)) /\ None(q, Destroys(v))
  BY DEF None, ToHost, News, Destroys, Is

\* A step that leaves a view and its messages alone leaves its life alone.
LEMMA LifeQuiet ==
  ASSUME NEW v \in Views, ViewInv(v), LifeInv(v),
         UNCHANGED <<proxy[v], route[v], opener[v], client, processHost>>,
         impl'[v].state = "none" <=> impl[v].state = "none",
         impl'[v].destroyed = impl[v].destroyed,
         impl[v].state = "none" => SameLife(v),
         Passes(v)
  PROVE  LifeInv(v)'
  <1>1. Hosted(v)'
    BY DEF LifeInv, Hosted, Listener, SameLife
  <1>2. CASE UNCHANGED toHost
    BY <1>1, <1>2 DEF LifeInv, Begun, Ended
  <1>3. ASSUME NEW m \in ToHostMessages, Sends(toHost, toHost', m),
               m.view # v \/ (m.type \notin {"New", "Destroy"} /\ proxy[v] = "live")
        PROVE  LifeInv(v)'
    <2>1. /\ m \notin News(v) /\ m \notin Destroys(v)
          /\ m \in ToHost(v) => proxy[v] = "live"
      BY <1>3, LifeMembers
    <2>2. /\ None(toHost', News(v)) <=> None(toHost, News(v))
          /\ None(toHost', Destroys(v)) <=> None(toHost, Destroys(v))
          /\ AtMostOne(toHost, News(v)) => AtMostOne(toHost', News(v))
          /\ AtMostOne(toHost, Destroys(v)) => AtMostOne(toHost', Destroys(v))
          /\ NewIsFirst(toHost, v) => NewIsFirst(toHost', v)
          /\ None(toHost, ToHost(v)) /\ proxy[v] # "live" => None(toHost', ToHost(v))
      BY <1>3, <2>1 DEF Sends
    <2>3. proxy[v] = "live" /\ impl[v].state = "none" => NewIsFirst(toHost, v)
      BY DEF ViewInv, Routed, LifeInv, Hosted, Listener
    <2>4. Begun(v)'
      BY <2>2, <2>3 DEF LifeInv, Begun
    <2>5. Ended(v)'
      BY <2>2 DEF LifeInv, Ended
    <2> QED
      BY <1>1, <2>4, <2>5 DEF LifeInv
  <1>4. ASSUME NEW m \in ToHostMessages, Receives(toHost, toHost', m),
               m.view # v \/ m.type \notin {"New", "Destroy"}
        PROVE  LifeInv(v)'
    <2>1. m \notin News(v) /\ m \notin Destroys(v) /\ ~Is(m, "New", v)
      BY <1>4, LifeMembers DEF Is
    <2>2. /\ None(toHost', News(v)) <=> None(toHost, News(v))
          /\ None(toHost', Destroys(v)) <=> None(toHost, Destroys(v))
          /\ AtMostOne(toHost, News(v)) => AtMostOne(toHost', News(v))
          /\ AtMostOne(toHost, Destroys(v)) => AtMostOne(toHost', Destroys(v))
          /\ NewIsFirst(toHost, v) => NewIsFirst(toHost', v)
          /\ None(toHost, ToHost(v)) => None(toHost', ToHost(v))
      BY <1>4, <2>1 DEF Receives
    <2>4. Begun(v)'
      BY <2>2 DEF LifeInv, Begun
    <2>5. Ended(v)'
      BY <2>2 DEF LifeInv, Ended
    <2> QED
      BY <1>1, <2>4, <2>5 DEF LifeInv
  <1> QED
    BY <1>2, <1>3, <1>4 DEF Passes

\* Steps that create, destroy and delete nothing keep the life of every view.
LEMMA ChatsKeepLife ==
  ASSUME TypeOK, NEW v \in Views, ViewInv(v), LifeInv(v), Chats
  PROVE  LifeInv(v)'
  <1>1. Passes(v)
    <2>1. CASE UNCHANGED toHost
      BY <2>1 DEF Passes
    <2>2. ASSUME NEW m \in ToHostMessages, m.type \notin {"New", "Destroy"},
                 proxy[m.view] = "live", toHost' = Append(toHost, m)
          PROVE  Passes(v)
      <3>1. Sends(toHost, toHost', m)
        BY <2>2, SendEffect DEF TypeOK
      <3> QED
        BY <2>2, <3>1 DEF Passes
    <2>3. ASSUME toHost # <<>>, Head(toHost).type \notin {"New", "Destroy"},
                 toHost' = Tail(toHost)
          PROVE  Passes(v)
      <3>1. Head(toHost) \in ToHostMessages /\ Receives(toHost, toHost', Head(toHost))
        BY <2>3, TailFacts, ReceiveEffect DEF TypeOK
      <3> QED
        BY <2>3, <3>1 DEF Passes
    <2> QED
      BY <2>1, <2>2, <2>3 DEF Chats
  <1> QED
    BY <1>1, LifeQuiet DEF Chats, SameLife

\* A new proxy: its view has not been heard of.
LEMMA CreateKeepsLife ==
  ASSUME TypeOK, NEW v \in Views, ViewInv(v), LifeInv(v), NEW u \in ClientViews,
         NEW d \in BOOLEAN, NEW b \in BOOLEAN, CreateWebView(u, d, b)
  PROVE  LifeInv(v)'
  <1> DEFINE m == New(u, b)
  <1>1. m \in ToHostMessages /\ m.type = "New" /\ m.view = u /\ u \in Views
    BY Constructors DEF New, Views
  <1>2. toHost' = Append(toHost, m) /\ Sends(toHost, toHost', m)
    BY <1>1, SendEffect DEF TypeOK, CreateWebView
  <1> HIDE DEF m
  <1>3. /\ proxy[u] = "none"
        /\ proxy'[v] = IF u = v THEN "live" ELSE proxy[v]
        /\ UNCHANGED <<route, impl, opener, processHost, client>>
    BY <1>1 DEF CreateWebView, TypeOK, hostVars
  <1>4. CASE u # v
    <2>1. Passes(v)
      BY <1>1, <1>2, <1>4 DEF Passes
    <2> QED
      BY <1>3, <1>4, <2>1, LifeQuiet DEF SameLife
  <1>5. CASE u = v
    <2>1. /\ proxy[v] = "none" /\ proxy'[v] = "live" /\ None(toHost, ToHost(v))
          /\ impl[v].state = "none"
      BY <1>3, <1>5 DEF ViewInv, Senders, LifeInv, Begun
    <2>2. None(toHost, News(v)) /\ None(toHost, Destroys(v))
      BY <2>1, NoneAboutView
    <2>3. m \in News(v) /\ m \notin Destroys(v)
      BY <1>1, <1>5, LifeMembers
    <2>4. NewIsFirst(toHost', v)
      BY <1>1, <1>2, <1>5, <2>1, NewBecomesFirst DEF TypeOK, Is
    <2>5. AtMostOne(toHost', News(v)) /\ None(toHost', Destroys(v))
          /\ AtMostOne(toHost', Destroys(v))
      BY <1>2, <2>2, <2>3 DEF Sends, LifeInv, Ended
    <2>6. Hosted(v)'
      BY <1>3 DEF LifeInv, Hosted, Listener
    <2>7. Begun(v)'
      BY <1>3, <2>1, <2>4, <2>5 DEF Begun
    <2>8. Ended(v)'
      BY <1>3, <2>1, <2>5 DEF LifeInv, Hosted, Ended
    <2> QED
      BY <2>6, <2>7, <2>8 DEF LifeInv
  <1> QED
    BY <1>4, <1>5

\* A Destroy that is sent for a view whose WebViewHost is, or will be, there.
LEMMA DestroySent ==
  ASSUME TypeOK, NEW v \in Views, ViewInv(v), LifeInv(v), NEW u \in Views,
         toHost' = Append(toHost, Message("Destroy", u)),
         proxy' = [proxy EXCEPT ![u] = "gone"],
         proxy[u] = "live" \/ (proxy[u] = "none" /\ route[u] = "live"),
         UNCHANGED <<route, impl, opener, processHost, client>>
  PROVE  LifeInv(v)'
  <1> DEFINE m == Message("Destroy", u)
  <1>1. m \in ToHostMessages /\ m.type = "Destroy" /\ m.view = u
    BY Constructors DEF Message
  <1>2. Sends(toHost, toHost', m)
    BY <1>1, SendEffect DEF TypeOK
  <1> HIDE DEF m
  <1>3. proxy'[v] = IF u = v THEN "gone" ELSE proxy[v]
    BY DEF TypeOK
  <1>4. CASE u # v
    <2>1. Passes(v)
      BY <1>1, <1>2, <1>4 DEF Passes
    <2> QED
      BY <1>3, <1>4, <2>1, LifeQuiet DEF SameLife
  <1>5. CASE u = v
    <2>1. m \notin News(v) /\ m \in Destroys(v) /\ m \in ToHost(v)
      BY <1>1, <1>5, LifeMembers
    <2>2. None(toHost, Destroys(v))
      BY <1>5 DEF ViewInv, Senders
    <2>3. ~impl[v].destroyed /\ (impl[v].state = "none" => NewIsFirst(toHost, v))
      BY <1>5 DEF ViewInv, Routed, LifeInv, Hosted, Ended, Listener
    <2>4. /\ AtMostOne(toHost', News(v)) /\ AtMostOne(toHost', Destroys(v))
          /\ None(toHost', News(v)) <=> None(toHost, News(v))
          /\ ~None(toHost', Destroys(v))
          /\ NewIsFirst(toHost, v) => NewIsFirst(toHost', v)
      BY <1>2, <2>1, <2>2 DEF Sends, LifeInv, Begun
    <2>5. Hosted(v)'
      BY DEF LifeInv, Hosted, Listener
    <2>6. Begun(v)'
      BY <1>3, <1>5, <2>3, <2>4 DEF LifeInv, Begun
    <2>7. Ended(v)'
      BY <1>3, <1>5, <2>3, <2>4 DEF Ended
    <2> QED
      BY <2>5, <2>6, <2>7 DEF LifeInv
  <1> QED
    BY <1>4, <1>5

\* The view that the client is told of, and what it has.
LEMMA Told ==
  ASSUME TypeOK, \A v \in Views : ViewInv(v), NEW keep, NEW d,
         OnDidCreateNewView(keep, d)
  PROVE  LET m == Head(toClient)
         IN  /\ m \in ToClientMessages /\ m.type = "DidCreateNewView"
             /\ m.new \in HostViews /\ m.new \in Views /\ m.view \in Views
             /\ proxy[m.view] = "live" /\ client = "live"
             /\ proxy[m.new] = "none" /\ route[m.new] = "live"
             /\ impl[m.new].state # "none"
             /\ toClient # <<>> /\ toClient' = Tail(toClient)
             /\ Receives(toClient, toClient', m)
  <1> DEFINE m == Head(toClient)
  <1>1. /\ m \in ToClientMessages /\ Receives(toClient, toClient', m)
        /\ m.type = "DidCreateNewView" /\ proxy[m.view] = "live"
        /\ toClient # <<>> /\ toClient' = Tail(toClient)
    BY TailFacts, ReceiveEffect DEF TypeOK, OnDidCreateNewView, Receive
  <1> HIDE DEF m
  <1>2. m.new \in HostViews /\ m.new \in Views /\ m.view \in Views
    BY <1>1, ToClientFields DEF Views
  <1>3. m \in Announcements(m.new)
    BY <1>1, Members
  <1>4. ~None(toClient, Announcements(m.new))
    BY <1>1, <1>3 DEF Receives
  <1>5. Announced(m.new) /\ Lives(m.view)
    BY <1>2 DEF ViewInv
  <1> QED
    BY <1>1, <1>2, <1>4, <1>5 DEF Announced, Lives, m

\* So do the ends of a proxy and the news of a view that a page opened.
LEMMA ClientEventsKeepLife ==
  ASSUME TypeOK, \A w \in Views : ViewInv(w), NEW v \in Views, LifeInv(v),
         \/ \E u \in Views : Closing(u)
         \/ \E keep, d \in BOOLEAN : OnDidCreateNewView(keep, d)
  PROVE  LifeInv(v)'
  <1>1. ASSUME NEW u \in Views, Closing(u)
        PROVE  LifeInv(v)'
    BY <1>1, DestroySent DEF Closing
  <1>2. ASSUME NEW d \in BOOLEAN, OnDidCreateNewView(FALSE, d)
        PROVE  LifeInv(v)'
    <2> DEFINE u == Head(toClient).new
    <2>1. u \in Views /\ proxy[u] = "none" /\ route[u] = "live"
      BY <1>2, Told
    <2>2. /\ proxy' = [proxy EXCEPT ![u] = "gone"]
          /\ toHost' = Append(toHost, Message("Destroy", u))
          /\ UNCHANGED <<route, impl, opener, processHost, client>>
      BY <1>2 DEF OnDidCreateNewView, hostVars
    <2> HIDE DEF u
    <2> QED
      BY <2>1, <2>2, DestroySent
  <1>3. ASSUME NEW d \in BOOLEAN, OnDidCreateNewView(TRUE, d)
        PROVE  LifeInv(v)'
    <2> DEFINE u == Head(toClient).new
    <2>1. /\ u \in Views /\ u \in HostViews /\ proxy[u] = "none"
          /\ route[u] = "live" /\ impl[u].state # "none"
      BY <1>3, Told
    <2>2. /\ proxy' = [proxy EXCEPT ![u] = "live"]
          /\ UNCHANGED <<toHost, route, impl, opener, processHost, client>>
      BY <1>3 DEF OnDidCreateNewView, hostVars
    <2> HIDE DEF u
    <2>3. proxy'[v] = IF u = v THEN "live" ELSE proxy[v]
      BY <2>2 DEF TypeOK
    <2>4. u = v => ~impl[v].destroyed
      BY <2>1 DEF LifeInv, Hosted, Listener
    <2> QED
      BY <2>1, <2>2, <2>3, <2>4 DEF LifeInv, Hosted, Begun, Ended, Listener
  <1> QED
    BY <1>1, <1>2, <1>3

\* What is left of the messages about a view begins where they began.
LEMMA LossKeepsFirst ==
  ASSUME NEW q \in Seq(ToHostMessages), NEW n \in 0 .. Len(q), NEW v,
         NewIsFirst(q, v), ~None(SubSeq(q, 1, n), ToHost(v))
  PROVE  NewIsFirst(SubSeq(q, 1, n), v)
  <1> DEFINE p == SubSeq(q, 1, n)
  <1>1. /\ DOMAIN q = 1 .. Len(q) /\ Len(q) \in Nat /\ DOMAIN p = 1 .. n
        /\ \A i \in 1 .. n : p[i] = q[i]
    BY SubSeqFacts
  <1> HIDE DEF p
  <1>2. PICK i \in DOMAIN q : Is(q[i], "New", v) /\ \A j \in 1 .. (i - 1) : q[j].view # v
    BY DEF NewIsFirst
  <1>3. PICK k \in DOMAIN p : p[k].view = v
    BY DEF None, ToHost, p
  <1>4. i \in DOMAIN p
    BY <1>1, <1>2, <1>3
  <1>5. Is(p[i], "New", v) /\ \A j \in 1 .. (i - 1) : p[j].view # v
    BY <1>1, <1>2, <1>4
  <1> QED
    BY <1>4, <1>5 DEF NewIsFirst, p

\* So does the death of the client: what it had not sent is lost with it.
LEMMA ClientDiesKeepsLife ==
  ASSUME TypeOK, NEW v \in Views, ViewInv(v), LifeInv(v), ClientDies
  PROVE  LifeInv(v)'
  <1>1. PICK n \in 0 .. Len(toHost) : toHost' = SubSeq(toHost, 1, n)
    BY DEF ClientDies
  <1>2. /\ \A M : None(toHost, M) => None(toHost', M)
        /\ \A M : AtMostOne(toHost, M) => AtMostOne(toHost', M)
    BY <1>1, LossEffect DEF TypeOK
  <1>3. NewIsFirst(toHost, v) => None(toHost', ToHost(v)) \/ NewIsFirst(toHost', v)
    BY <1>1, LossKeepsFirst DEF TypeOK
  <1>4. /\ client' = "gone" /\ proxy'[v] # "live"
        /\ proxy'[v] = "none" => proxy[v] = "none"
        /\ UNCHANGED <<route, impl, opener, processHost>>
    BY DEF ClientDies, TypeOK, hostVars
  <1>5. Hosted(v)'
    BY <1>4 DEF LifeInv, Hosted, Listener
  <1>6. Begun(v)'
    BY <1>2, <1>3, <1>4 DEF LifeInv, Begun
  <1>7. Ended(v)'
    BY <1>2, <1>4 DEF LifeInv, Ended
  <1> QED
    BY <1>5, <1>6, <1>7 DEF LifeInv

-----------------------------------------------------------------------------
(* What the steps of the host do to its WebViewImpls.                      *)

Posted(q, x) == \E i \in DOMAIN q : q[i] = x

\* A WebViewImpl is posted for deletion when it is destroyed and ready.
Deleting(v) ==
  /\ Posted(tasks, v) <=> impl[v].state = "deletingSoon"
  /\ impl[v].state \in {"deletingSoon", "deleted"} => impl[v].ready /\ impl[v].destroyed
  /\ impl[v].destroyed => \/ impl[v].early
                          \/ impl[v].state \in {"deletingSoon", "deleted"}

\* What a destroyed WebViewImpl is.
LEMMA DestroyedFacts ==
  ASSUME NEW i \in Impls
  PROVE  LET j == Destroyed(i)
         IN  /\ j.destroyed /\ (j.early <=> ~i.ready) /\ (j.ready <=> i.ready)
             /\ j.inProcess = i.inProcess
             /\ j.state = IF i.ready THEN "deletingSoon" ELSE i.state
  BY DEF Impls, Destroyed

\* What a new one is, and one that is destroyed at once.
LEMMA NewFacts ==
  ASSUME NEW b \in BOOLEAN, NEW c \in BOOLEAN
  PROVE  LET i == NewImpl(b, c)
         IN  /\ i \in Impls
             /\ i.state = "live" /\ ~i.ready /\ ~i.destroyed /\ i.inProcess = b
             /\ ~i.early
  BY DEF Impls, NewImpl, NoImpl

\* The first commit makes a WebViewImpl ready; if it was destroyed before, it is
\* posted now.
LEMMA NavigateFacts ==
  ASSUME TypeOK, NEW u \in Views, DidNavigateMainFramePostCommit(u), NEW v \in Views
  PROVE  /\ impl[u].state \in {"live", "deletingSoon"}
         /\ impl[u].inProcess => renderHost = "live"
         /\ impl'[v].destroyed = impl[v].destroyed
         /\ impl'[v].inProcess = impl[v].inProcess
         /\ impl'[v].early = impl[v].early
         /\ v # u => impl'[v] = impl[v]
         /\ impl'[u].ready
         /\ impl'[u].state = IF impl[u].destroyed THEN "deletingSoon" ELSE impl[u].state
         /\ tasks' = IF impl[u].destroyed /\ impl[u].state # "deletingSoon"
                     THEN Append(tasks, u) ELSE tasks
         /\ UNCHANGED <<proxy, route, opener, renderHost, processHost, client,
                        toHost, toClient>>
  <1>1. impl \in [Views -> Impls]
    BY DEF TypeOK
  <1> DEFINE s == IF impl[u].destroyed THEN "deletingSoon" ELSE impl[u].state
  <1>2. impl' = [impl EXCEPT ![u] = [@ EXCEPT !.loading = FALSE, !.ready = TRUE, !.state = s]]
    BY <1>1 DEF DidNavigateMainFramePostCommit, Impls
  <1> HIDE DEF s
  <1>3. \A i \in Impls : LET j == [i EXCEPT !.loading = FALSE, !.ready = TRUE, !.state = s]
                         IN  /\ j.destroyed = i.destroyed /\ j.inProcess = i.inProcess
                             /\ j.early = i.early /\ j.ready /\ j.state = s
    BY DEF Impls
  <1>4. /\ impl'[v].destroyed = impl[v].destroyed
        /\ impl'[v].inProcess = impl[v].inProcess
        /\ impl'[v].early = impl[v].early
        /\ v # u => impl'[v] = impl[v]
        /\ impl'[u].ready /\ impl'[u].state = s
    BY <1>1, <1>2, <1>3
  <1>5. /\ impl[u].state \in {"live", "deletingSoon"}
        /\ impl[u].inProcess => renderHost = "live"
    BY DEF DidNavigateMainFramePostCommit, Heard
  <1>6. UNCHANGED <<proxy, route, opener, renderHost, processHost, client,
                    toHost, toClient>>
    BY DEF DidNavigateMainFramePostCommit, proxyVars
  <1>7. tasks' = IF impl[u].destroyed /\ impl[u].state # "deletingSoon"
                 THEN Append(tasks, u) ELSE tasks
    BY DEF DidNavigateMainFramePostCommit
  <1> QED
    BY <1>4, <1>5, <1>6, <1>7 DEF s

\* The deletion that runs first.
LEMMA RunTaskFacts ==
  ASSUME TypeOK, RunTask, NEW v \in Views
  PROVE  /\ tasks # <<>> /\ tasks' = Tail(tasks)
         /\ impl'[v].ready = impl[v].ready
         /\ impl'[v].destroyed = impl[v].destroyed
         /\ impl'[v].inProcess = impl[v].inProcess
         /\ impl'[v].early = impl[v].early
         /\ impl'[v].state = IF Head(tasks) = v THEN "deleted" ELSE impl[v].state
         /\ renderHost' = IF Head(tasks) = RenderHost THEN "deleted" ELSE renderHost
         /\ UNCHANGED <<proxy, route, opener, processHost, client, toHost, toClient>>
  <1>1. \A i \in Impls : LET j == [i EXCEPT !.state = "deleted"]
                         IN  /\ j.ready = i.ready /\ j.destroyed = i.destroyed
                             /\ j.inProcess = i.inProcess /\ j.early = i.early
                             /\ j.state = "deleted"
    BY DEF Impls
  <1>2. /\ tasks # <<>> /\ tasks' = Tail(tasks)
        /\ UNCHANGED <<proxy, route, opener, processHost, client, toHost, toClient>>
    BY DEF RunTask, proxyVars
  <1>3. impl \in [Views -> Impls] /\ v # RenderHost
    BY ViewAssumption DEF TypeOK
  <1>4. CASE Head(tasks) = RenderHost
    BY <1>2, <1>3, <1>4 DEF RunTask
  <1>5. CASE Head(tasks) # RenderHost
    <2>1. Head(tasks) \in Views
      BY <1>2, <1>5, TailFacts DEF TypeOK
    <2>2. impl' = [impl EXCEPT ![Head(tasks)] = [@ EXCEPT !.state = "deleted"]]
      BY <1>5 DEF RunTask
    <2>3. UNCHANGED renderHost
      BY <1>5 DEF RunTask
    <2> QED
      BY <1>1, <1>2, <1>3, <1>5, <2>1, <2>2, <2>3
  <1> QED
    BY <1>4, <1>5

\* The view that a page opens.
LEMMA CreatedFacts ==
  ASSUME TypeOK, NEW u \in Views, NEW w \in HostViews, WebContentsCreated(u, w),
         NEW v \in Views
  PROVE  /\ w \in Views /\ impl[w].state = "none"
         /\ impl[u].state \in {"live", "deletingSoon"}
         /\ impl[u].inProcess => renderHost = "live"
         /\ opener'[v] = IF v = w THEN u ELSE opener[v]
         /\ v # w => impl'[v] = impl[v] /\ route'[v] = route[v]
         /\ impl'[w].state = "live" /\ ~impl'[w].ready
         /\ impl'[w].inProcess = impl[u].inProcess
         /\ impl[u].destroyed =>
              /\ impl'[w].destroyed /\ impl'[w].early
              /\ UNCHANGED <<route, toClient>>
         /\ ~impl[u].destroyed =>
              /\ ~impl'[w].destroyed /\ route'[w] = "live"
              /\ SendToClient(DidCreateNewView(u, w))
         /\ UNCHANGED <<proxy, tasks, renderHost, processHost, client, toHost>>
  <1> DEFINE i == NewImpl(impl[u].inProcess, TRUE)
  <1>1. impl \in [Views -> Impls] /\ w \in Views /\ impl[u].inProcess \in BOOLEAN
    BY DEF TypeOK, Views, Impls
  <1>2. /\ i \in Impls /\ i.state = "live" /\ ~i.ready /\ ~i.destroyed
        /\ i.inProcess = impl[u].inProcess /\ ~i.early
    BY <1>1, NewFacts
  <1>3. /\ Destroyed(i).destroyed /\ Destroyed(i).early /\ ~Destroyed(i).ready
        /\ Destroyed(i).inProcess = impl[u].inProcess
        /\ Destroyed(i).state = "live"
    BY <1>2, DestroyedFacts
  <1>4. /\ impl[u].destroyed => /\ impl' = [impl EXCEPT ![w] = Destroyed(i)]
                                /\ UNCHANGED <<route, toClient>>
        /\ ~impl[u].destroyed => /\ impl' = [impl EXCEPT ![w] = i]
                                 /\ route' = [route EXCEPT ![w] = "live"]
                                 /\ SendToClient(DidCreateNewView(u, w))
    BY DEF WebContentsCreated
  <1> HIDE DEF i
  <1>5. /\ v # w => impl'[v] = impl[v] /\ route'[v] = route[v]
        /\ impl'[w].state = "live" /\ ~impl'[w].ready
        /\ impl'[w].inProcess = impl[u].inProcess
        /\ impl[u].destroyed => impl'[w].destroyed /\ impl'[w].early
        /\ ~impl[u].destroyed => ~impl'[w].destroyed /\ route'[w] = "live"
    BY <1>1, <1>2, <1>3, <1>4 DEF TypeOK
  <1>6. /\ impl[w].state = "none" /\ impl[u].state \in {"live", "deletingSoon"}
        /\ impl[u].inProcess => renderHost = "live"
        /\ UNCHANGED <<proxy, tasks, renderHost, processHost, client, toHost>>
    BY DEF WebContentsCreated, Scripted, Heard, proxyVars
  <1>7. opener'[v] = IF v = w THEN u ELSE opener[v]
    BY <1>1 DEF WebContentsCreated, TypeOK
  <1> QED
    BY <1>1, <1>4, <1>5, <1>6, <1>7

\* What New and Destroy do at the host.
LEMMA NewHandled ==
  ASSUME TypeOK, OnWebViewNew
  PROVE  LET m == Head(toHost)
         IN  /\ m \in ToHostMessages /\ m.type = "New" /\ m.view \in Views
             /\ Receives(toHost, toHost', m) /\ processHost = "live"
             /\ \A v \in Views :
                  /\ v # m.view => impl'[v] = impl[v] /\ route'[v] = route[v]
                  /\ v = m.view => /\ route'[v] = "live" /\ impl'[v].state = "live"
                                   /\ ~impl'[v].ready /\ ~impl'[v].destroyed
                                   /\ impl'[v].inProcess = m.inProcess
             /\ renderHost' = IF m.inProcess /\ renderHost = "none" THEN "live"
                              ELSE renderHost
             /\ UNCHANGED <<proxy, opener, tasks, processHost, client, toClient>>
  <1> DEFINE m == Head(toHost)
  <1>1. /\ m \in ToHostMessages /\ Receives(toHost, toHost', m) /\ m.type = "New"
    BY TailFacts, ReceiveEffect DEF TypeOK, OnWebViewNew, Handle
  <1>2. m.view \in Views /\ m.inProcess \in BOOLEAN
    BY <1>1, ToHostFields
  <1>3. LET i == NewImpl(m.inProcess, FALSE)
        IN  i.state = "live" /\ ~i.ready /\ ~i.destroyed /\ i.inProcess = m.inProcess
    BY <1>2, NewFacts
  <1>4. /\ route' = [route EXCEPT ![m.view] = "live"]
        /\ impl' = [impl EXCEPT ![m.view] = NewImpl(m.inProcess, FALSE)]
        /\ processHost = "live"
        /\ renderHost' = IF m.inProcess /\ renderHost = "none" THEN "live"
                         ELSE renderHost
        /\ UNCHANGED <<proxy, opener, tasks, processHost, client, toClient>>
    BY DEF OnWebViewNew, Handle, proxyVars
  <1>5. impl \in [Views -> Impls] /\ route \in [Views -> {"none", "live", "gone"}]
    BY DEF TypeOK
  <1> HIDE DEF m
  <1>6. \A v \in Views :
           /\ v # m.view => impl'[v] = impl[v] /\ route'[v] = route[v]
           /\ v = m.view => /\ route'[v] = "live" /\ impl'[v].state = "live"
                            /\ ~impl'[v].ready /\ ~impl'[v].destroyed
                            /\ impl'[v].inProcess = m.inProcess
    BY <1>2, <1>3, <1>4, <1>5
  <1> QED
    BY <1>1, <1>2, <1>4, <1>6 DEF m

\* What onWebViewDestroy does to the view of the message and to the others.
LEMMA DestroyHandled ==
  ASSUME TypeOK, OnWebViewDestroy
  PROVE  LET m == Head(toHost)
         IN  /\ m \in ToHostMessages /\ m.type = "Destroy" /\ m.view \in Views
             /\ Receives(toHost, toHost', m) /\ processHost = "live"
             /\ \A v \in Views :
                  /\ v # m.view => impl'[v] = impl[v] /\ route'[v] = route[v]
                  /\ v = m.view => route'[v] = "gone" /\ impl'[v] = Destroyed(impl[v])
             /\ tasks' = IF impl[m.view].ready THEN Append(tasks, m.view) ELSE tasks
             /\ UNCHANGED <<proxy, opener, renderHost, processHost, client, toClient>>
  <1> DEFINE m == Head(toHost)
  <1>1. /\ m \in ToHostMessages /\ Receives(toHost, toHost', m) /\ m.type = "Destroy"
    BY TailFacts, ReceiveEffect DEF TypeOK, OnWebViewDestroy, Handle
  <1>2. m.view \in Views
    BY <1>1, ToHostFields
  <1>4. /\ route' = [route EXCEPT ![m.view] = "gone"]
        /\ impl' = [impl EXCEPT ![m.view] = Destroyed(@)]
        /\ processHost = "live"
        /\ tasks' = IF impl[m.view].ready THEN Append(tasks, m.view) ELSE tasks
        /\ UNCHANGED <<proxy, opener, renderHost, processHost, client, toClient>>
    BY DEF OnWebViewDestroy, Handle, proxyVars
  <1>5. impl \in [Views -> Impls] /\ route \in [Views -> {"none", "live", "gone"}]
    BY DEF TypeOK
  <1> HIDE DEF m
  <1> QED
    BY <1>1, <1>2, <1>4, <1>5 DEF m

-----------------------------------------------------------------------------
(* Steps of the host and of the pages keep the lives of the views.         *)

\* New is handled once, and creates the view.
LEMMA NewKeepsLife ==
  ASSUME TypeOK, NEW v \in Views, ViewInv(v), LifeInv(v), OnWebViewNew
  PROVE  LifeInv(v)'
  <1> DEFINE m == Head(toHost)
  <1>1. /\ m \in ToHostMessages /\ m.type = "New" /\ m.view \in Views
        /\ Receives(toHost, toHost', m) /\ processHost = "live"
        /\ v # m.view => impl'[v] = impl[v] /\ route'[v] = route[v]
        /\ v = m.view => /\ route'[v] = "live" /\ impl'[v].state = "live"
                         /\ ~impl'[v].ready /\ ~impl'[v].destroyed
        /\ UNCHANGED <<proxy, opener, tasks, processHost, client, toClient>>
    BY NewHandled
  <1> HIDE DEF m
  <1>2. CASE m.view # v
    <2>1. Passes(v)
      BY <1>1, <1>2 DEF Passes
    <2> QED
      BY <1>1, <1>2, <2>1, LifeQuiet DEF SameLife
  <1>3. CASE m.view = v
    <2>1. m \in News(v) /\ m \notin Destroys(v) /\ m \in ToHost(v)
      BY <1>1, <1>3, LifeMembers
    <2>2. /\ None(toHost', News(v)) /\ AtMostOne(toHost', News(v))
          /\ AtMostOne(toHost', Destroys(v))
          /\ None(toHost', Destroys(v)) <=> None(toHost, Destroys(v))
          /\ ~None(toHost, News(v)) /\ ~None(toHost, ToHost(v))
      BY <1>1, <2>1 DEF Receives, LifeInv, Begun, Ended
    <2>3. proxy[v] # "none" /\ impl[v].state = "none" /\ ~impl[v].destroyed
      BY <2>2 DEF ViewInv, Senders, LifeInv, Begun, Hosted
    <2>4. Hosted(v)'
      BY <1>1, <1>3 DEF Hosted, Listener
    <2>5. Begun(v)'
      BY <1>1, <1>3, <2>2, <2>3 DEF Begun
    <2>6. Ended(v)'
      BY <1>1, <1>3, <2>2, <2>3 DEF LifeInv, Ended
    <2> QED
      BY <2>4, <2>5, <2>6 DEF LifeInv
  <1> QED
    BY <1>2, <1>3

\* A Destroy that arrives finds its view, not destroyed yet.
LEMMA DestroyFindsView ==
  ASSUME NEW v \in Views, ViewInv(v), LifeInv(v), NEW m \in ToHostMessages,
         m.type = "Destroy", m.view = v, Receives(toHost, toHost', m)
  PROVE  /\ impl[v].state # "none" /\ ~impl[v].destroyed /\ proxy[v] = "gone"
         /\ None(toHost', Destroys(v)) /\ AtMostOne(toHost', Destroys(v))
         /\ AtMostOne(toHost', News(v))
         /\ None(toHost', News(v))
  <1>1. m \notin News(v) /\ m \in Destroys(v) /\ m \in ToHost(v) /\ ~Is(m, "New", v)
    BY LifeMembers DEF Is
  <1>2. ~None(toHost, Destroys(v)) /\ ~None(toHost, ToHost(v))
    BY <1>1 DEF Receives
  <1>3. ~NewIsFirst(toHost, v)
    BY <1>1 DEF Receives, Is
  <1>4. impl[v].state # "none" /\ ~impl[v].destroyed /\ proxy[v] = "gone"
    BY <1>2, <1>3 DEF ViewInv, Senders, LifeInv, Begun, Ended
  <1>5. None(toHost, News(v))
    BY <1>4 DEF LifeInv, Begun
  <1> QED
    BY <1>1, <1>4, <1>5 DEF Receives, LifeInv, Begun, Ended

\* onWebViewDestroy ends the life of the view it finds.
LEMMA DestroyKeepsLife ==
  ASSUME TypeOK, NEW v \in Views, ViewInv(v), LifeInv(v), OnWebViewDestroy
  PROVE  LifeInv(v)'
  <1> DEFINE m == Head(toHost)
  <1>1. /\ m \in ToHostMessages /\ m.type = "Destroy" /\ m.view \in Views
        /\ Receives(toHost, toHost', m)
        /\ v # m.view => impl'[v] = impl[v] /\ route'[v] = route[v]
        /\ v = m.view => route'[v] = "gone" /\ impl'[v] = Destroyed(impl[v])
        /\ UNCHANGED <<proxy, opener, processHost, client>>
    BY DestroyHandled
  <1> HIDE DEF m
  <1>2. CASE m.view # v
    <2>1. Passes(v)
      BY <1>1, <1>2 DEF Passes
    <2> QED
      BY <1>1, <1>2, <2>1, LifeQuiet DEF SameLife
  <1>3. CASE m.view = v
    <2>1. /\ impl[v].state # "none" /\ proxy[v] = "gone"
          /\ None(toHost', Destroys(v)) /\ AtMostOne(toHost', Destroys(v))
          /\ None(toHost', News(v)) /\ AtMostOne(toHost', News(v))
      BY <1>1, <1>3, DestroyFindsView
    <2>2. impl[v] \in Impls
      BY DEF TypeOK
    <2>3. impl'[v].destroyed /\ impl'[v].state # "none"
      BY <1>1, <1>3, <2>1, <2>2, DestroyedFacts
    <2> QED
      BY <1>1, <1>3, <2>1, <2>3 DEF LifeInv, Hosted, Begun, Ended, Listener
  <1> QED
    BY <1>2, <1>3

\* What the end of the process host does to a view.
LEMMA HostDeleted ==
  ASSUME TypeOK, DeleteProcessHost, NEW v \in Views
  PROVE  /\ client = "gone" /\ processHost = "live" /\ processHost' = "deleted"
         /\ toHost' = <<>>
         /\ Listener(v) => route'[v] = "gone" /\ impl'[v] = Destroyed(impl[v])
         /\ ~Listener(v) => route'[v] = route[v] /\ impl'[v] = impl[v]
         /\ UNCHANGED <<proxy, opener, renderHost, client, toClient>>
  BY DEF DeleteProcessHost, TypeOK, proxyVars

\* Deleting the ProcessHostImpl, and the tasks that DeleteSoon posted, keep them.
LEMMA DeletionsKeepLife ==
  ASSUME TypeOK, NEW v \in Views, ViewInv(v), LifeInv(v), Deleting(v),
         DeleteProcessHost \/ RunTask
  PROVE  LifeInv(v)'
  <1>1. CASE DeleteProcessHost
    <2>1. /\ client = "gone" /\ toHost' = <<>>
          /\ Listener(v) => route'[v] = "gone" /\ impl'[v] = Destroyed(impl[v])
          /\ ~Listener(v) => route'[v] = route[v] /\ impl'[v] = impl[v]
          /\ UNCHANGED <<proxy, opener, client>>
      BY <1>1, HostDeleted
    <2>2. \A M : None(toHost', M) /\ AtMostOne(toHost', M)
      BY <2>1, NothingCarried
    <2>3. impl[v] \in Impls /\ proxy[v] # "live"
      BY <2>1 DEF TypeOK, ViewInv, Lives
    <2>4. Listener(v) => impl'[v].destroyed /\ impl'[v].state # "none"
      BY <2>1, <2>3, DestroyedFacts DEF LifeInv, Hosted
    <2> QED
      BY <2>1, <2>2, <2>3, <2>4 DEF LifeInv, Hosted, Begun, Ended, Listener
  <1>2. CASE RunTask
    <2>1. /\ tasks # <<>> /\ impl'[v].ready = impl[v].ready
          /\ impl'[v].destroyed = impl[v].destroyed
          /\ impl'[v].inProcess = impl[v].inProcess
          /\ impl'[v].early = impl[v].early
          /\ impl'[v].state = IF Head(tasks) = v THEN "deleted" ELSE impl[v].state
          /\ UNCHANGED <<proxy, route, opener, processHost, client, toHost>>
      BY <1>2, RunTaskFacts
    <2>2. Head(tasks) = v => impl[v].state = "deletingSoon"
      <3>1. 1 \in DOMAIN tasks /\ tasks[1] = Head(tasks)
        BY <2>1, TailFacts DEF TypeOK
      <3> QED
        BY <3>1 DEF Deleting, Posted
    <2>3. Passes(v)
      BY <2>1 DEF Passes
    <2> QED
      BY <2>1, <2>2, <2>3, LifeQuiet DEF SameLife
  <1> QED
    BY <1>1, <1>2

\* So do the first commit of a page and a page that opens another view.
LEMMA PagesKeepLife ==
  ASSUME TypeOK, \A x \in Views : LifeInv(x), NEW v \in Views, ViewInv(v),
         NEW u \in Views,
         \/ DidNavigateMainFramePostCommit(u)
         \/ \E w \in HostViews : WebContentsCreated(u, w)
  PROVE  LifeInv(v)'
  <1>1. CASE DidNavigateMainFramePostCommit(u)
    <2>1. /\ impl[u].state \in {"live", "deletingSoon"}
          /\ impl'[v].destroyed = impl[v].destroyed
          /\ v # u => impl'[v] = impl[v]
          /\ impl'[u].state = IF impl[u].destroyed THEN "deletingSoon" ELSE impl[u].state
          /\ UNCHANGED <<proxy, route, opener, processHost, client, toHost>>
      BY <1>1, NavigateFacts
    <2>2. Passes(v)
      BY <2>1 DEF Passes
    <2> QED
      BY <2>1, <2>2, LifeQuiet DEF SameLife
  <1>2. ASSUME NEW w \in HostViews, WebContentsCreated(u, w)
        PROVE  LifeInv(v)'
    <2>1. /\ w \in Views /\ impl[w].state = "none"
          /\ impl[u].state \in {"live", "deletingSoon"}
          /\ opener'[v] = IF v = w THEN u ELSE opener[v]
          /\ v # w => impl'[v] = impl[v] /\ route'[v] = route[v]
          /\ impl'[w].state = "live"
          /\ impl[u].destroyed => impl'[w].destroyed /\ route'[w] = route[w]
          /\ ~impl[u].destroyed => ~impl'[w].destroyed /\ route'[w] = "live"
          /\ UNCHANGED <<proxy, processHost, client, toHost>>
      BY <1>2, CreatedFacts
    <2>2. CASE v # w
      <3>1. Passes(v)
        BY <2>1 DEF Passes
      <3> QED
        BY <2>1, <2>2, <3>1, LifeQuiet DEF SameLife
    <2>3. CASE v = w
      <3>1. proxy[v] = "none" /\ None(toHost, ToHost(v))
        BY <2>1, <2>3 DEF ViewInv, Announced, Senders
      <3>2. None(toHost, News(v)) /\ None(toHost, Destroys(v))
        BY <3>1, NoneAboutView
      <3>3. v \notin ClientViews
        BY <2>3, ViewAssumption
      <3>4. ~Listener(v) /\ (~impl[u].destroyed => Listener(u))
        BY <2>1, <2>3 DEF LifeInv, Hosted
      <3>5. processHost = "deleted" => impl[u].destroyed
        BY <3>4 DEF LifeInv, Hosted
      <3>6. Hosted(v)'
        BY <2>1, <2>3, <3>4, <3>5 DEF Hosted, Listener
      <3>7. Begun(v)'
        BY <2>1, <2>3, <3>1, <3>2, <3>3 DEF LifeInv, Begun
      <3>8. Ended(v)'
        BY <2>1, <3>1, <3>2 DEF LifeInv, Ended
      <3> QED
        BY <3>6, <3>7, <3>8 DEF LifeInv
    <2> QED
      BY <2>2, <2>3
  <1> QED
    BY <1>1, <1>2

-----------------------------------------------------------------------------
(* The queue of deletions.                                                 *)

\* Posting a task adds it to those that are posted.
LEMMA PostedAppend ==
  ASSUME NEW S, NEW q \in Seq(S), NEW a \in S, NEW x
  PROVE  Posted(Append(q, a), x) <=> Posted(q, x) \/ x = a
  BY AppendFacts DEF Posted

\* Running a task that was posted once takes it away.
LEMMA PostedTail ==
  ASSUME NEW S, NEW q \in Seq(S), q # <<>>, NEW x,
         \A i, j \in DOMAIN q : q[i] = q[j] => i = j
  PROVE  Posted(Tail(q), x) <=> Posted(q, x) /\ x # Head(q)
  <1>1. /\ Head(q) = q[1] /\ DOMAIN q = 1 .. Len(q) /\ Len(q) \in Nat \ {0}
        /\ DOMAIN Tail(q) = 1 .. Len(q) - 1
        /\ \A i \in 1 .. Len(q) - 1 : Tail(q)[i] = q[i + 1]
    BY TailFacts
  <1>2. ASSUME Posted(Tail(q), x)
        PROVE  Posted(q, x) /\ x # Head(q)
    <2>1. PICK i \in 1 .. Len(q) - 1 : q[i + 1] = x
      BY <1>1, <1>2 DEF Posted
    <2>2. i + 1 \in DOMAIN q /\ 1 \in DOMAIN q /\ i + 1 # 1
      BY <1>1
    <2> QED
      BY <1>1, <2>1, <2>2 DEF Posted
  <1>3. ASSUME Posted(q, x), x # Head(q)
        PROVE  Posted(Tail(q), x)
    <2>1. PICK i \in 1 .. Len(q) : q[i] = x
      BY <1>1, <1>3 DEF Posted
    <2>2. i # 1
      BY <1>1, <1>3, <2>1
    <2>3. i - 1 \in 1 .. Len(q) - 1 /\ (i - 1) + 1 = i
      BY <1>1, <2>2
    <2>4. Tail(q)[i - 1] = x
      BY <1>1, <2>1, <2>3
    <2> QED
      BY <1>1, <2>3, <2>4 DEF Posted
  <1> QED
    BY <1>2, <1>3

\* What is posted in two goes is posted.
LEMMA PostedConcat ==
  ASSUME NEW S, NEW q \in Seq(S), NEW s \in Seq(S), NEW x
  PROVE  /\ q \o s \in Seq(S)
         /\ Posted(q \o s, x) <=> Posted(q, x) \/ Posted(s, x)
         /\ DOMAIN q = 1 .. Len(q) /\ Len(q) \in Nat
         /\ DOMAIN s = 1 .. Len(s) /\ Len(s) \in Nat
         /\ DOMAIN (q \o s) = 1 .. Len(q) + Len(s)
         /\ \A i \in 1 .. Len(q) + Len(s) :
              (q \o s)[i] = IF i <= Len(q) THEN q[i] ELSE s[i - Len(q)]
  <1>1. /\ q \o s \in Seq(S)
        /\ DOMAIN q = 1 .. Len(q) /\ Len(q) \in Nat
        /\ DOMAIN s = 1 .. Len(s) /\ Len(s) \in Nat
        /\ DOMAIN (q \o s) = 1 .. Len(q) + Len(s)
        /\ \A i \in 1 .. Len(q) + Len(s) :
             (q \o s)[i] = IF i <= Len(q) THEN q[i] ELSE s[i - Len(q)]
    OBVIOUS
  <1> DEFINE p == q \o s
  <1> HIDE DEF p
  <1>2. Posted(p, x) => Posted(q, x) \/ Posted(s, x)
    BY <1>1 DEF Posted, p
  <1>3. Posted(q, x) => Posted(p, x)
    BY <1>1 DEF Posted, p
  <1>4. ASSUME NEW i \in DOMAIN s, s[i] = x
        PROVE  Posted(p, x)
    <2>1. i + Len(q) \in 1 .. Len(q) + Len(s) /\ ~(i + Len(q) <= Len(q))
          /\ (i + Len(q)) - Len(q) = i
      BY <1>1
    <2>2. p[i + Len(q)] = x
      BY <1>1, <1>4, <2>1 DEF p
    <2> QED
      BY <1>1, <2>1, <2>2 DEF Posted, p
  <1> QED
    BY <1>1, <1>2, <1>3, <1>4 DEF Posted, p

\* An order of a set of views has each of them, once.
LEMMA OrdersFacts ==
  ASSUME NEW S \in SUBSET Views, NEW s \in Orders(S)
  PROVE  /\ s \in Seq(Views)
         /\ \A x : Posted(s, x) <=> x \in S
         /\ \A i, j \in DOMAIN s : s[i] = s[j] => i = j
  <1>1. IsFiniteSet(S)
    BY ViewAssumption, FS_Subset
  <1>2. Cardinality(S) \in Nat
    BY <1>1, FS_CardinalityType
  <1> DEFINE n == Cardinality(S)
  <1>3. s \in [1 .. n -> S] /\ \A i, j \in DOMAIN s : s[i] = s[j] => i = j
    BY DEF Orders
  <1>4. s \in Injection(1 .. n, S)
    BY <1>3 DEF Injection, IsInjective
  <1>5. Cardinality(1 .. n) = n
    BY <1>2, FS_Interval
  <1>6. s \in Surjection(1 .. n, S)
    BY <1>1, <1>4, <1>5, FS_Injection
  <1>7. \A x : Posted(s, x) <=> x \in S
    BY <1>3, <1>6 DEF Surjection, Posted
  <1> QED
    BY <1>3, <1>7, OrdersAreSequences

-----------------------------------------------------------------------------
(* The tasks posted by DeleteSoon, and the render process host.            *)

\* The render process host is there for every in-process view, and when it has
\* gone only those destroyed early are left.
Rendered(v) ==
  /\ impl[v].inProcess => renderHost # "none"
  /\ renderHost = "deleted" /\ impl[v].inProcess /\ impl[v].state # "deleted" =>
       impl[v].early

\* Nothing is posted twice; the render process host is posted by the process
\* host, after the views that go with it.
TaskOrder ==
  /\ \A i, j \in DOMAIN tasks : tasks[i] = tasks[j] => i = j
  /\ Posted(tasks, RenderHost) => processHost = "deleted" /\ renderHost = "live"
  /\ renderHost = "deleted" => processHost = "deleted"
  /\ \A i, j \in DOMAIN tasks :
       tasks[i] = RenderHost /\ i < j => impl[tasks[j]].early

DeletionInv == TaskOrder /\ \A v \in Views : Deleting(v) /\ Rendered(v)

\* Steps that post and run no task keep what DeleteSoon has posted in order.
LEMMA QuietKeepsDeletion ==
  ASSUME TypeOK, DeletionInv, \A v \in Views : SameLife(v),
         UNCHANGED <<tasks, renderHost, processHost>>
  PROVE  DeletionInv'
  <1>1. \A v \in Views : Deleting(v)' /\ Rendered(v)'
    BY DEF DeletionInv, Deleting, Rendered, SameLife
  <1>2. ASSUME NEW i \in DOMAIN tasks, NEW j \in DOMAIN tasks,
               tasks[i] = RenderHost, i < j
        PROVE  impl'[tasks[j]].early
    <2>1. i # j /\ tasks[j] \in Views \union {RenderHost}
      BY <1>2 DEF TypeOK
    <2>2. tasks[j] \in Views /\ impl[tasks[j]].early
      BY <1>2, <2>1 DEF DeletionInv, TaskOrder
    <2> QED
      BY <2>2 DEF SameLife
  <1>3. TaskOrder'
    BY <1>2 DEF DeletionInv, TaskOrder
  <1> QED
    BY <1>1, <1>3 DEF DeletionInv

\* While the process host lives, the render process host has not been posted.
LEMMA RenderHostStays ==
  ASSUME DeletionInv, processHost = "live"
  PROVE  ~Posted(tasks, RenderHost) /\ renderHost # "deleted"
  BY DEF DeletionInv, TaskOrder

\* The queue when a view that is not in it is posted.
LEMMA PostView ==
  ASSUME TypeOK, DeletionInv, NEW u \in Views, ~Posted(tasks, u),
         tasks' = Append(tasks, u)
  PROVE  /\ \A i, j \in DOMAIN tasks' : tasks'[i] = tasks'[j] => i = j
         /\ \A x : Posted(tasks', x) <=> Posted(tasks, x) \/ x = u
         /\ \A i, j \in DOMAIN tasks' : tasks'[i] = RenderHost /\ i < j =>
              \/ tasks'[j] = u
              \/ /\ i \in DOMAIN tasks /\ j \in DOMAIN tasks
                 /\ tasks[i] = RenderHost /\ tasks'[j] = tasks[j]
  <1> DEFINE S == Views \union {RenderHost}
  <1>1. tasks \in Seq(S) /\ u \in S /\ u # RenderHost
    BY ViewAssumption DEF TypeOK
  <1>2. /\ DOMAIN tasks = 1 .. Len(tasks) /\ Len(tasks) \in Nat
        /\ DOMAIN tasks' = 1 .. Len(tasks) + 1
        /\ \A i \in 1 .. Len(tasks) : tasks'[i] = tasks[i]
        /\ tasks'[Len(tasks) + 1] = u
    BY <1>1, AppendFacts
  <1>3. \A x : Posted(tasks', x) <=> Posted(tasks, x) \/ x = u
    BY <1>1, PostedAppend
  <1>4. \A i \in 1 .. Len(tasks) : tasks[i] # u
    BY <1>2 DEF Posted
  <1>5. \A i, j \in DOMAIN tasks' : tasks'[i] = tasks'[j] => i = j
    BY <1>2, <1>4 DEF DeletionInv, TaskOrder
  <1>6. ASSUME NEW i \in DOMAIN tasks', NEW j \in DOMAIN tasks',
               tasks'[i] = RenderHost, i < j
        PROVE  \/ tasks'[j] = u
               \/ /\ i \in DOMAIN tasks /\ j \in DOMAIN tasks
                  /\ tasks[i] = RenderHost /\ tasks'[j] = tasks[j]
    BY <1>1, <1>2, <1>6
  <1> QED
    BY <1>3, <1>5, <1>6

\* So does onWebViewNew: the render process host that it may bring is not posted.
LEMMA NewKeepsDeletion ==
  ASSUME TypeOK, DeletionInv, \A v \in Views : ViewInv(v) /\ LifeInv(v),
         OnWebViewNew
  PROVE  DeletionInv'
  <1> DEFINE m == Head(toHost)
  <1>1. /\ m \in ToHostMessages /\ m.type = "New" /\ m.view \in Views
        /\ Receives(toHost, toHost', m) /\ processHost = "live"
        /\ renderHost' = IF m.inProcess /\ renderHost = "none" THEN "live"
                         ELSE renderHost
        /\ UNCHANGED <<tasks, processHost>>
    BY NewHandled
  <1>2. \A v \in Views :
           /\ v # m.view => impl'[v] = impl[v]
           /\ v = m.view => /\ impl'[v].state = "live" /\ ~impl'[v].destroyed
                            /\ impl'[v].inProcess = m.inProcess
    BY NewHandled
  <1> HIDE DEF m
  <1>3. impl[m.view].state = "none"
    <2>1. m \in News(m.view)
      BY <1>1, LifeMembers
    <2>2. ~None(toHost, News(m.view))
      BY <1>1, <2>1 DEF Receives
    <2> QED
      BY <1>1, <2>2 DEF LifeInv, Begun
  <1>4. ~Posted(tasks, RenderHost) /\ renderHost # "deleted"
    BY <1>1, RenderHostStays
  <1>5. TaskOrder'
    BY <1>1, <1>4 DEF DeletionInv, TaskOrder, Posted
  <1>6. ASSUME NEW v \in Views
        PROVE  Deleting(v)' /\ Rendered(v)'
    <2>1. Deleting(v) /\ Rendered(v)
      BY DEF DeletionInv
    <2>2. CASE v = m.view
      <3>1. ~Posted(tasks, v)
        BY <1>3, <2>1, <2>2 DEF Deleting
      <3> QED
        BY <1>1, <1>2, <1>4, <2>2, <3>1 DEF Deleting, Rendered
    <2>3. CASE v # m.view
      BY <1>1, <1>2, <1>4, <2>1, <2>3 DEF Deleting, Rendered
    <2> QED
      BY <2>2, <2>3
  <1> QED
    BY <1>5, <1>6 DEF DeletionInv

\* So does onWebViewDestroy, which posts a WebViewImpl that is ready.
LEMMA DestroyKeepsDeletion ==
  ASSUME TypeOK, DeletionInv, \A v \in Views : ViewInv(v) /\ LifeInv(v),
         OnWebViewDestroy
  PROVE  DeletionInv'
  <1> DEFINE m == Head(toHost)
  <1>1. /\ m \in ToHostMessages /\ m.type = "Destroy" /\ m.view \in Views
        /\ Receives(toHost, toHost', m) /\ processHost = "live"
        /\ tasks' = IF impl[m.view].ready THEN Append(tasks, m.view) ELSE tasks
        /\ UNCHANGED <<renderHost, processHost>>
    BY DestroyHandled
  <1>2. \A v \in Views :
           /\ v # m.view => impl'[v] = impl[v]
           /\ v = m.view => impl'[v] = Destroyed(impl[v])
    BY DestroyHandled
  <1> HIDE DEF m
  <1> DEFINE u == m.view
             i == impl[u]
  <1>3. u \in Views /\ i \in Impls
    BY <1>1 DEF TypeOK
  <1>4. /\ impl'[u].destroyed /\ (impl'[u].early <=> ~i.ready)
        /\ (impl'[u].ready <=> i.ready)
        /\ impl'[u].inProcess = i.inProcess
        /\ impl'[u].state = IF i.ready THEN "deletingSoon" ELSE i.state
    BY <1>2, <1>3, DestroyedFacts
  <1>5. ~i.destroyed
    BY <1>1, <1>3, DestroyFindsView
  <1>6. ~Posted(tasks, RenderHost) /\ renderHost # "deleted"
    BY <1>1, RenderHostStays
  <1>7. i.state \notin {"deletingSoon", "deleted"} /\ ~Posted(tasks, u)
    BY <1>3, <1>5 DEF DeletionInv, Deleting
  <1> HIDE DEF u, i
  <1>8. /\ \A x : Posted(tasks', x) <=> Posted(tasks, x) \/ (i.ready /\ x = u)
        /\ \A j, k \in DOMAIN tasks' : tasks'[j] = tasks'[k] => j = k
    <2>1. CASE i.ready
      BY <1>1, <1>3, <1>7, <2>1, PostView DEF u, i
    <2>2. CASE ~i.ready
      BY <1>1, <2>2 DEF u, i, DeletionInv, TaskOrder
    <2> QED
      BY <2>1, <2>2
  <1>9. TaskOrder'
    <2>1. u # RenderHost
      BY <1>3, ViewAssumption
    <2>2. ~Posted(tasks', RenderHost)
      BY <1>6, <1>8, <2>1
    <2> QED
      BY <1>1, <1>6, <1>8, <2>2 DEF TaskOrder, Posted
  <1>10. ASSUME NEW v \in Views
         PROVE  Deleting(v)' /\ Rendered(v)'
    <2>1. Deleting(v) /\ Rendered(v)
      BY DEF DeletionInv
    <2>2. CASE v = u
      BY <1>1, <1>4, <1>6, <1>7, <1>8, <2>1, <2>2 DEF Deleting, Rendered, i
    <2>3. CASE v # u
      BY <1>1, <1>2, <1>6, <1>8, <2>1, <2>3 DEF Deleting, Rendered, u
    <2> QED
      BY <2>2, <2>3
  <1> QED
    BY <1>9, <1>10 DEF DeletionInv

\* So does the first commit, which posts a WebViewImpl that was destroyed before it.
LEMMA NavigateKeepsDeletion ==
  ASSUME TypeOK, DeletionInv, NEW u \in Views, DidNavigateMainFramePostCommit(u)
  PROVE  DeletionInv'
  <1>1. /\ impl[u].state \in {"live", "deletingSoon"}
        /\ impl[u].inProcess => renderHost = "live"
        /\ impl'[u].ready
        /\ impl'[u].state = IF impl[u].destroyed THEN "deletingSoon" ELSE impl[u].state
        /\ tasks' = IF impl[u].destroyed /\ impl[u].state # "deletingSoon"
                    THEN Append(tasks, u) ELSE tasks
        /\ UNCHANGED <<renderHost, processHost>>
    BY NavigateFacts
  <1>2. \A v \in Views : /\ impl'[v].destroyed = impl[v].destroyed
                         /\ impl'[v].inProcess = impl[v].inProcess
                         /\ impl'[v].early = impl[v].early
                         /\ v # u => impl'[v] = impl[v]
    BY NavigateFacts
  <1>3. /\ impl[u].state = "deletingSoon" => impl[u].destroyed
        /\ impl[u].destroyed /\ impl[u].state = "live" => impl[u].early
        /\ Posted(tasks, u) <=> impl[u].state = "deletingSoon"
    BY DEF DeletionInv, Deleting
  <1> DEFINE post == impl[u].destroyed /\ impl[u].state # "deletingSoon"
  <1>4. /\ \A x : Posted(tasks', x) <=> Posted(tasks, x) \/ (post /\ x = u)
        /\ \A j, k \in DOMAIN tasks' : tasks'[j] = tasks'[k] => j = k
        /\ \A i, j \in DOMAIN tasks' : tasks'[i] = RenderHost /\ i < j =>
             \/ post /\ tasks'[j] = u
             \/ /\ i \in DOMAIN tasks /\ j \in DOMAIN tasks
                /\ tasks[i] = RenderHost /\ tasks'[j] = tasks[j]
    <2>1. CASE post
      BY <1>1, <1>3, <2>1, PostView
    <2>2. CASE ~post
      BY <1>1, <2>2 DEF DeletionInv, TaskOrder
    <2> QED
      BY <2>1, <2>2
  <1> HIDE DEF post
  <1>5. ASSUME NEW i \in DOMAIN tasks', NEW j \in DOMAIN tasks',
               tasks'[i] = RenderHost, i < j
        PROVE  impl'[tasks'[j]].early
    <2>1. CASE post /\ tasks'[j] = u
      BY <1>1, <1>2, <1>3, <2>1 DEF post
    <2>2. CASE /\ i \in DOMAIN tasks /\ j \in DOMAIN tasks
               /\ tasks[i] = RenderHost /\ tasks'[j] = tasks[j]
      <3>1. i # j /\ tasks[j] \in Views \union {RenderHost}
        BY <1>5, <2>2 DEF TypeOK
      <3>2. tasks[j] \in Views /\ impl[tasks[j]].early
        BY <1>5, <2>2, <3>1 DEF DeletionInv, TaskOrder
      <3> QED
        BY <1>2, <2>2, <3>2
    <2> QED
      BY <1>4, <1>5, <2>1, <2>2
  <1>6. TaskOrder'
    <2>1. u # RenderHost
      BY ViewAssumption
    <2>2. Posted(tasks', RenderHost) <=> Posted(tasks, RenderHost)
      BY <1>4, <2>1
    <2> QED
      BY <1>1, <1>4, <1>5, <2>2 DEF DeletionInv, TaskOrder
  <1>7. ASSUME NEW v \in Views
        PROVE  Deleting(v)' /\ Rendered(v)'
    <2>1. Deleting(v) /\ Rendered(v)
      BY DEF DeletionInv
    <2>2. CASE v = u
      BY <1>1, <1>2, <1>3, <1>4, <2>1, <2>2 DEF Deleting, Rendered, post
    <2>3. CASE v # u
      BY <1>1, <1>2, <1>4, <2>1, <2>3 DEF Deleting, Rendered
    <2> QED
      BY <2>2, <2>3
  <1> QED
    BY <1>6, <1>7 DEF DeletionInv

\* So does a page that opens a view: the new WebViewImpl is not posted.
LEMMA CreatedKeepsDeletion ==
  ASSUME TypeOK, DeletionInv, NEW u \in Views, NEW w \in HostViews,
         WebContentsCreated(u, w)
  PROVE  DeletionInv'
  <1>1. /\ w \in Views /\ impl[w].state = "none"
        /\ impl[u].inProcess => renderHost = "live"
        /\ impl'[w].state = "live" /\ impl'[w].inProcess = impl[u].inProcess
        /\ impl[u].destroyed => impl'[w].early
        /\ ~impl[u].destroyed => ~impl'[w].destroyed
        /\ UNCHANGED <<tasks, renderHost, processHost>>
    BY CreatedFacts
  <1>2. \A v \in Views : v # w => impl'[v] = impl[v]
    BY CreatedFacts
  <1>3. ~Posted(tasks, w)
    BY <1>1 DEF DeletionInv, Deleting
  <1>4. ASSUME NEW i \in DOMAIN tasks, NEW j \in DOMAIN tasks,
               tasks[i] = RenderHost, i < j
        PROVE  impl'[tasks[j]].early
    <2>1. i # j /\ tasks[j] \in Views \union {RenderHost} /\ tasks[j] # w
      BY <1>3, <1>4 DEF TypeOK, Posted
    <2>2. tasks[j] \in Views /\ impl[tasks[j]].early
      BY <1>4, <2>1 DEF DeletionInv, TaskOrder
    <2> QED
      BY <1>2, <2>1, <2>2
  <1>5. TaskOrder'
    BY <1>1, <1>4 DEF DeletionInv, TaskOrder
  <1>6. ASSUME NEW v \in Views
        PROVE  Deleting(v)' /\ Rendered(v)'
    BY <1>1, <1>2, <1>3 DEF DeletionInv, Deleting, Rendered
  <1> QED
    BY <1>5, <1>6 DEF DeletionInv

\* The queue after its first deletion.
LEMMA RunTaskKeepsDeletion ==
  ASSUME TypeOK, DeletionInv, \A v \in Views : LifeInv(v), RunTask
  PROVE  DeletionInv'
  <1> DEFINE S == Views \union {RenderHost}
             h == Head(tasks)
  <1>1. /\ tasks # <<>> /\ tasks' = Tail(tasks)
        /\ renderHost' = (IF h = RenderHost THEN "deleted" ELSE renderHost)
        /\ UNCHANGED processHost
    BY DEF RunTask
  <1>2. tasks \in Seq(S) /\ \A i, j \in DOMAIN tasks : tasks[i] = tasks[j] => i = j
    BY DEF TypeOK, DeletionInv, TaskOrder
  <1>3. \A x : Posted(tasks', x) <=> Posted(tasks, x) /\ x # h
    BY <1>1, <1>2, PostedTail
  <1>4. /\ h = tasks[1] /\ DOMAIN tasks = 1 .. Len(tasks) /\ Len(tasks) \in Nat \ {0}
        /\ DOMAIN tasks' = 1 .. Len(tasks) - 1
        /\ \A i \in 1 .. Len(tasks) - 1 : tasks'[i] = tasks[i + 1]
        /\ \A i \in 1 .. Len(tasks) : tasks[i] \in S
    BY <1>1, <1>2, TailFacts
  <1>5. ASSUME NEW v \in Views
        PROVE  /\ impl'[v].ready = impl[v].ready
               /\ impl'[v].destroyed = impl[v].destroyed
               /\ impl'[v].inProcess = impl[v].inProcess
               /\ impl'[v].early = impl[v].early
               /\ impl'[v].state = IF h = v THEN "deleted" ELSE impl[v].state
    BY RunTaskFacts
  <1> HIDE DEF h, S
  <1>6. Posted(tasks, h) /\ \A i \in 2 .. Len(tasks) : tasks[i] # h
    BY <1>2, <1>4 DEF Posted
  <1>7. \A i, j \in DOMAIN tasks' : tasks'[i] = tasks'[j] => i = j
    <2>1. ASSUME NEW i \in DOMAIN tasks', NEW j \in DOMAIN tasks', tasks'[i] = tasks'[j]
          PROVE  i = j
      <3>1. i + 1 \in DOMAIN tasks /\ j + 1 \in DOMAIN tasks /\ i \in Nat /\ j \in Nat
            /\ tasks[i + 1] = tasks[j + 1]
        BY <1>4, <2>1
      <3>2. i + 1 = j + 1
        BY <1>2, <3>1
      <3> QED
        BY <3>1, <3>2
    <2> QED
      BY <2>1
  <1>8. ASSUME NEW i \in DOMAIN tasks', NEW j \in DOMAIN tasks',
               tasks'[i] = RenderHost, i < j
        PROVE  impl'[tasks'[j]].early
    <2>1. i + 1 \in DOMAIN tasks /\ j + 1 \in DOMAIN tasks /\ i + 1 < j + 1
          /\ tasks[i + 1] = RenderHost /\ tasks'[j] = tasks[j + 1]
      BY <1>4, <1>8
    <2>2. impl[tasks[j + 1]].early /\ tasks[j + 1] # RenderHost
      BY <1>2, <1>4, <2>1 DEF DeletionInv, TaskOrder
    <2>3. tasks[j + 1] \in Views
      BY <1>4, <2>1, <2>2 DEF S
    <2> QED
      BY <1>5, <2>1, <2>2, <2>3
  <1>9. TaskOrder'
    <2>1. /\ Posted(tasks, RenderHost) => processHost = "deleted" /\ renderHost = "live"
          /\ renderHost = "deleted" => processHost = "deleted"
      BY DEF DeletionInv, TaskOrder
    <2>2. Posted(tasks', RenderHost) => processHost' = "deleted" /\ renderHost' = "live"
      BY <1>1, <1>3, <2>1
    <2>3. renderHost' = "deleted" => processHost' = "deleted"
      BY <1>1, <1>6, <2>1
    <2> QED
      BY <1>7, <1>8, <2>2, <2>3 DEF TaskOrder
  <1>10. ASSUME NEW v \in Views
         PROVE  Deleting(v)'
    <2>1. Deleting(v)
      BY DEF DeletionInv
    <2>2. CASE h = v
      BY <1>3, <1>5, <1>6, <2>1, <2>2 DEF Deleting
    <2>3. CASE h # v
      BY <1>3, <1>5, <2>1, <2>3 DEF Deleting
    <2> QED
      BY <2>2, <2>3
  \* The render process host goes last: whatever is not yet deleted is early.
  <1>11. ASSUME NEW v \in Views, h = RenderHost, impl[v].inProcess,
                impl[v].state # "deleted"
         PROVE  impl[v].early
    <2>1. processHost = "deleted" /\ Hosted(v) /\ Deleting(v) /\ impl[v].state \in
            {"none", "live", "deletingSoon", "deleted"}
      BY <1>6, <1>11 DEF DeletionInv, TaskOrder, LifeInv, TypeOK, Impls
    <2>2. CASE impl[v].state = "deletingSoon"
      <3>1. PICK j \in DOMAIN tasks : tasks[j] = v
        BY <2>1, <2>2 DEF Deleting, Posted
      <3>2. j # 1
        BY <1>4, <1>11, <3>1, ViewAssumption
      <3>3. 1 \in DOMAIN tasks /\ 1 < j /\ tasks[1] = RenderHost
        BY <1>4, <1>11, <3>2
      <3> QED
        BY <3>1, <3>3 DEF DeletionInv, TaskOrder
    <2>3. CASE impl[v].state = "live"
      BY <2>1, <2>3 DEF Hosted, Deleting
    <2>4. CASE impl[v].state = "none"
      BY <1>11, <2>1, <2>4 DEF Hosted
    <2> QED
      BY <1>11, <2>1, <2>2, <2>3, <2>4
  <1>12. ASSUME NEW v \in Views
         PROVE  Rendered(v)'
    <2>1. Rendered(v)
      BY DEF DeletionInv
    <2>2. impl'[v].state # "deleted" => impl[v].state # "deleted"
      BY <1>5
    <2> QED
      BY <1>1, <1>5, <1>11, <2>1, <2>2 DEF Rendered
  <1> QED
    BY <1>9, <1>10, <1>12 DEF DeletionInv

\* Two queues without repetition that share nothing.
LEMMA ConcatIsInjective ==
  ASSUME NEW S, NEW q \in Seq(S), NEW s \in Seq(S),
         \A i, j \in DOMAIN q : q[i] = q[j] => i = j,
         \A i, j \in DOMAIN s : s[i] = s[j] => i = j,
         \A x : ~(Posted(q, x) /\ Posted(s, x))
  PROVE  \A i, j \in DOMAIN (q \o s) : (q \o s)[i] = (q \o s)[j] => i = j
  <1> DEFINE p == q \o s
  <1>1. /\ DOMAIN q = 1 .. Len(q) /\ Len(q) \in Nat
        /\ DOMAIN s = 1 .. Len(s) /\ Len(s) \in Nat
        /\ DOMAIN p = 1 .. Len(q) + Len(s)
        /\ \A i \in 1 .. Len(q) + Len(s) :
             p[i] = IF i <= Len(q) THEN q[i] ELSE s[i - Len(q)]
    BY PostedConcat
  <1> HIDE DEF p
  <1>2. \A i \in DOMAIN q, j \in DOMAIN s : q[i] # s[j]
    BY DEF Posted
  <1>3. ASSUME NEW i \in DOMAIN p, NEW j \in DOMAIN p, p[i] = p[j]
        PROVE  i = j
    <2>1. CASE i <= Len(q) /\ j <= Len(q)
      BY <1>1, <1>3, <2>1
    <2>2. CASE i <= Len(q) /\ ~(j <= Len(q))
      <3>1. i \in DOMAIN q /\ j - Len(q) \in DOMAIN s
        BY <1>1, <2>2
      <3> QED
        BY <1>1, <1>2, <1>3, <2>2, <3>1
    <2>3. CASE ~(i <= Len(q)) /\ j <= Len(q)
      <3>1. j \in DOMAIN q /\ i - Len(q) \in DOMAIN s
        BY <1>1, <2>3
      <3> QED
        BY <1>1, <1>2, <1>3, <2>3, <3>1
    <2>4. CASE ~(i <= Len(q)) /\ ~(j <= Len(q))
      <3>1. i - Len(q) \in DOMAIN s /\ j - Len(q) \in DOMAIN s
            /\ s[i - Len(q)] = s[j - Len(q)]
        BY <1>1, <1>3, <2>4
      <3>2. i - Len(q) = j - Len(q)
        BY <3>1
      <3> QED
        BY <1>1, <3>2
    <2> QED
      BY <1>1, <2>1, <2>2, <2>3, <2>4
  <1> QED
    BY <1>3 DEF p

\* The end of the process host posts every WebViewImpl that is ready, then the
\* render process host.
LEMMA HostDeletedKeepsDeletion ==
  ASSUME TypeOK, DeletionInv, \A v \in Views : LifeInv(v), DeleteProcessHost
  PROVE  DeletionInv'
  <1> DEFINE S == Views \union {RenderHost}
             Going == {v \in Views : Listener(v) /\ impl[v].ready}
             last == IF renderHost = "live" THEN <<RenderHost>> ELSE <<>>
  <1>1. /\ processHost = "live" /\ processHost' = "deleted"
        /\ UNCHANGED renderHost
    BY DEF DeleteProcessHost
  <1>2. \A v \in Views :
          /\ Listener(v) => impl'[v] = Destroyed(impl[v])
          /\ ~Listener(v) => impl'[v] = impl[v]
    BY HostDeleted
  <1>3. PICK s \in Orders(Going) : tasks' = (tasks \o s) \o last
    BY DEF DeleteProcessHost
  <1>4. /\ s \in Seq(Views)
        /\ \A x : Posted(s, x) <=> x \in Going
        /\ \A i, j \in DOMAIN s : s[i] = s[j] => i = j
    <2>1. Going \in SUBSET Views
      OBVIOUS
    <2> HIDE DEF Going
    <2> QED
      BY <2>1, OrdersFacts
  <1>5. /\ tasks \in Seq(S) /\ s \in Seq(S) /\ last \in Seq(S)
        /\ \A i, j \in DOMAIN tasks : tasks[i] = tasks[j] => i = j
    <2>1. tasks \in Seq(S)
      BY DEF TypeOK
    <2>2. s \in Seq(S)
      BY <1>4
    <2>3. last \in Seq(S)
      <3>1. RenderHost \in S
        OBVIOUS
      <3> HIDE DEF S
      <3>2. <<RenderHost>> \in Seq(S) /\ <<>> \in Seq(S)
        BY <3>1
      <3> QED
        BY <3>2
    <2> QED
      BY <2>1, <2>2, <2>3 DEF DeletionInv, TaskOrder
  <1>6. /\ \A x : Posted(last, x) <=> x = RenderHost /\ renderHost = "live"
        /\ \A i, j \in DOMAIN last : last[i] = last[j] => i = j
    BY DEF Posted
  <1>7. ~Posted(tasks, RenderHost) /\ renderHost # "deleted"
    BY <1>1, RenderHostStays
  <1>8. \A v \in Views : Listener(v) =>
          /\ ~impl[v].destroyed /\ impl[v].state \notin {"none", "deletingSoon", "deleted"}
          /\ ~Posted(tasks, v)
    BY DEF LifeInv, Hosted, DeletionInv, Deleting
  <1>9. RenderHost \notin Views
    BY ViewAssumption
  <1> HIDE DEF last, Going, S
  <1> DEFINE q == tasks \o s
  <1>10. /\ q \in Seq(S)
         /\ \A x : Posted(q, x) <=> Posted(tasks, x) \/ x \in Going
         /\ \A i, j \in DOMAIN q : q[i] = q[j] => i = j
    <2>1. \A x : ~(Posted(tasks, x) /\ Posted(s, x))
      BY <1>4, <1>8 DEF Going
    <2>2. q \in Seq(S) /\ \A x : Posted(q, x) <=> Posted(tasks, x) \/ Posted(s, x)
      BY <1>5, PostedConcat
    <2>3. \A i, j \in DOMAIN q : q[i] = q[j] => i = j
      BY <1>4, <1>5, <2>1, ConcatIsInjective
    <2> QED
      BY <1>4, <2>2, <2>3
  <1> HIDE DEF q
  <1>11. ~Posted(q, RenderHost)
    BY <1>7, <1>9, <1>10 DEF Going
  <1>12. tasks' = q \o last
    BY <1>3 DEF q
  <1>13. /\ \A x : Posted(tasks', x) <=> Posted(q, x) \/ Posted(last, x)
         /\ \A i, j \in DOMAIN tasks' : tasks'[i] = tasks'[j] => i = j
    <2>1. \A x : ~(Posted(q, x) /\ Posted(last, x))
      BY <1>6, <1>11
    <2>2. \A x : Posted(q \o last, x) <=> Posted(q, x) \/ Posted(last, x)
      BY <1>5, <1>10, PostedConcat
    <2>3. \A i, j \in DOMAIN (q \o last) : (q \o last)[i] = (q \o last)[j] => i = j
      BY <1>5, <1>6, <1>10, <2>1, ConcatIsInjective
    <2> QED
      BY <1>12, <2>2, <2>3
  <1>14. ASSUME NEW i \in DOMAIN tasks', NEW j \in DOMAIN tasks',
                tasks'[i] = RenderHost, i < j
         PROVE  FALSE
    <2>1. /\ DOMAIN q = 1 .. Len(q) /\ Len(q) \in Nat
          /\ DOMAIN tasks' = 1 .. Len(q) + Len(last) /\ Len(last) \in Nat
          /\ \A k \in 1 .. Len(q) + Len(last) :
               tasks'[k] = IF k <= Len(q) THEN q[k] ELSE last[k - Len(q)]
      BY <1>5, <1>10, <1>12, PostedConcat
    <2>2. Len(last) <= 1
      BY DEF last
    <2>3. i = Len(q) + 1
      BY <1>11, <1>14, <2>1, <2>2 DEF Posted
    <2> QED
      BY <1>14, <2>1, <2>2, <2>3
  <1>15. TaskOrder'
    <2>1. Posted(tasks', RenderHost) => renderHost = "live"
      BY <1>6, <1>11, <1>13
    <2> QED
      BY <1>1, <1>13, <1>14, <2>1 DEF TaskOrder
  <1>16. ASSUME NEW v \in Views
         PROVE  Deleting(v)' /\ Rendered(v)'
    <2>1. Posted(tasks', v) <=> Posted(tasks, v) \/ v \in Going
      BY <1>6, <1>9, <1>10, <1>13
    <2>2. Deleting(v) /\ Rendered(v) /\ impl[v] \in Impls
      BY DEF DeletionInv, TypeOK
    <2>3. CASE ~Listener(v)
      BY <1>1, <1>2, <2>1, <2>2, <2>3 DEF Deleting, Rendered, Going
    <2>4. CASE Listener(v)
      <3> DEFINE i == impl[v]
                 k == impl'[v]
      <3>1. /\ k.destroyed /\ (k.early <=> ~i.ready) /\ (k.ready <=> i.ready)
            /\ k.inProcess = i.inProcess
            /\ k.state = IF i.ready THEN "deletingSoon" ELSE i.state
        BY <1>2, <2>2, <2>4, DestroyedFacts
      <3>2. ~i.destroyed /\ i.state \notin {"deletingSoon", "deleted"} /\ ~Posted(tasks, v)
        BY <1>8, <2>4
      <3>3. Posted(tasks', v) <=> i.ready
        BY <2>1, <2>4, <3>2 DEF Going
      <3>4. Deleting(v)'
        BY <3>1, <3>2, <3>3 DEF Deleting
      <3>5. Rendered(v)'
        BY <1>1, <1>7, <2>2, <3>1 DEF Rendered
      <3> QED
        BY <3>4, <3>5
    <2> QED
      BY <2>3, <2>4
  <1> QED
    BY <1>15, <1>16 DEF DeletionInv

-----------------------------------------------------------------------------
(* Views that pages open.                                                  *)

Announces(m) == m.type = "DidCreateNewView"

\* A view is announced by the one that opened it, after that one itself.
AnnouncedInOrder ==
  \A i \in DOMAIN toClient : Announces(toClient[i]) =>
    /\ toClient[i].view = opener[toClient[i].new]
    /\ \A j \in DOMAIN toClient :
         Announces(toClient[j]) /\ toClient[j].new = toClient[i].view => j < i

\* A view without a proxy that will not get one has an opener like that.
Opened(v) ==
  /\ impl[v].state # "none" => impl[opener[v]].state # "none"
  /\ Listener(v) /\ client = "live" /\ proxy[v] = "none"
     /\ None(toClient, Announcements(v)) =>
       proxy[opener[v]] # "live" /\ None(toClient, Announcements(opener[v]))

OpenerInv == AnnouncedInOrder /\ \A v \in Views : Opened(v)

\* What may happen on the channel to the client that announces nothing.
Reports ==
  \/ UNCHANGED toClient
  \/ \E m \in ToClientMessages : ~Announces(m) /\ toClient' = Append(toClient, m)
  \/ toClient # <<>> /\ toClient' = Tail(toClient) /\ ~Announces(Head(toClient))

\* Receiving keeps the order of what is left.
LEMMA ReceivingKeepsOrder ==
  ASSUME TypeOK, AnnouncedInOrder, UNCHANGED opener, toClient # <<>>,
         toClient' = Tail(toClient)
  PROVE  AnnouncedInOrder'
  <1>1. /\ DOMAIN toClient = 1 .. Len(toClient) /\ Len(toClient) \in Nat \ {0}
        /\ DOMAIN toClient' = 1 .. Len(toClient) - 1
        /\ \A i \in 1 .. Len(toClient) - 1 : toClient'[i] = toClient[i + 1]
    BY TailFacts DEF TypeOK
  <1>2. \A i \in DOMAIN toClient' : /\ i + 1 \in DOMAIN toClient /\ i \in Int
                                    /\ toClient'[i] = toClient[i + 1]
    BY <1>1
  <1>3. ASSUME NEW i \in DOMAIN toClient', Announces(toClient'[i])
        PROVE  /\ toClient'[i].view = opener[toClient'[i].new]
               /\ \A j \in DOMAIN toClient' :
                    Announces(toClient'[j]) /\ toClient'[j].new = toClient'[i].view => j < i
    <2>1. /\ toClient[i + 1].view = opener[toClient[i + 1].new]
          /\ \A j \in DOMAIN toClient :
               Announces(toClient[j]) /\ toClient[j].new = toClient[i + 1].view => j < i + 1
      BY <1>2, <1>3 DEF AnnouncedInOrder
    <2>2. ASSUME NEW j \in DOMAIN toClient', Announces(toClient'[j]),
                 toClient'[j].new = toClient'[i].view
          PROVE  j < i
      <3>1. j + 1 < i + 1
        BY <1>2, <2>1, <2>2
      <3> QED
        BY <1>2, <3>1
    <2> QED
      BY <1>2, <2>1, <2>2
  <1> QED
    BY <1>3 DEF AnnouncedInOrder

\* Reports announce nothing.
LEMMA ReportsKeep ==
  ASSUME TypeOK, AnnouncedInOrder, UNCHANGED opener, Reports
  PROVE  /\ AnnouncedInOrder'
         /\ \A v \in Views : None(toClient', Announcements(v)) <=>
                               None(toClient, Announcements(v))
  <1>1. CASE UNCHANGED toClient
    BY <1>1 DEF AnnouncedInOrder
  <1>2. ASSUME NEW m \in ToClientMessages, ~Announces(m), toClient' = Append(toClient, m)
        PROVE  /\ AnnouncedInOrder'
               /\ \A v \in Views : None(toClient', Announcements(v)) <=>
                                     None(toClient, Announcements(v))
    <2>1. /\ DOMAIN toClient = 1 .. Len(toClient) /\ Len(toClient) \in Nat
          /\ DOMAIN toClient' = 1 .. Len(toClient) + 1
          /\ \A i \in 1 .. Len(toClient) : toClient'[i] = toClient[i]
          /\ toClient'[Len(toClient) + 1] = m
      BY <1>2, AppendFacts DEF TypeOK
    <2>2. \A i \in DOMAIN toClient' : Announces(toClient'[i]) =>
            i \in DOMAIN toClient /\ toClient'[i] = toClient[i]
      BY <1>2, <2>1
    <2>3. AnnouncedInOrder'
      BY <2>2 DEF AnnouncedInOrder
    <2>4. Sends(toClient, toClient', m)
      BY <1>2, SendEffect DEF TypeOK
    <2>5. \A v : m \notin Announcements(v)
      BY <1>2, Members DEF Announces
    <2> QED
      BY <2>3, <2>4, <2>5 DEF Sends
  <1>3. ASSUME toClient # <<>>, toClient' = Tail(toClient), ~Announces(Head(toClient))
        PROVE  /\ AnnouncedInOrder'
               /\ \A v \in Views : None(toClient', Announcements(v)) <=>
                                     None(toClient, Announcements(v))
    <2> DEFINE m == Head(toClient)
    <2>1. m \in ToClientMessages /\ Receives(toClient, toClient', m)
      BY <1>3, TailFacts, ReceiveEffect DEF TypeOK
    <2>2. \A v : m \notin Announcements(v)
      BY <1>3, <2>1, Members DEF Announces
    <2> HIDE DEF m
    <2>3. \A v \in Views : None(toClient', Announcements(v)) <=>
                             None(toClient, Announcements(v))
      BY <2>1, <2>2 DEF Receives
    <2> QED
      BY <1>3, <2>3, ReceivingKeepsOrder
  <1> QED
    BY <1>1, <1>2, <1>3 DEF Reports

\* Steps that open nothing and create no proxy.
LEMMA QuietKeepsOpeners ==
  ASSUME TypeOK, OpenerInv, Reports, UNCHANGED <<opener, client>>,
         \A v \in Views : /\ impl'[v].state = "none" <=> impl[v].state = "none"
                          /\ route'[v] = "live" => route[v] = "live"
                          /\ proxy'[v] = "none" => proxy[v] = "none"
                          /\ proxy'[v] = "live" => proxy[v] = "live"
  PROVE  OpenerInv'
  <1>1. /\ AnnouncedInOrder'
        /\ \A v \in Views : None(toClient', Announcements(v)) <=>
                              None(toClient, Announcements(v))
    BY ReportsKeep DEF OpenerInv
  <1>2. ASSUME NEW v \in Views
        PROVE  Opened(v)'
    <2>1. opener[v] \in Views /\ Opened(v)
      BY DEF TypeOK, OpenerInv
    <2> QED
      BY <1>1, <2>1 DEF Opened, Listener
  <1> QED
    BY <1>1, <1>2 DEF OpenerInv

\* A dropped announcement leaks the view, and its opener is not announced.
LEMMA DropKeepsOpeners ==
  ASSUME TypeOK, OpenerInv, UNCHANGED <<opener, client, proxy, route>>,
         \A v \in Views : impl'[v].state = impl[v].state,
         toClient # <<>>, toClient' = Tail(toClient),
         Announces(Head(toClient)), proxy[Head(toClient).view] # "live"
  PROVE  OpenerInv'
  <1> DEFINE m == Head(toClient)
  <1>1. /\ m \in ToClientMessages /\ Receives(toClient, toClient', m) /\ Announces(m)
        /\ proxy[m.view] # "live"
    BY TailFacts, ReceiveEffect DEF TypeOK
  <1>2. AnnouncedInOrder'
    BY ReceivingKeepsOrder DEF OpenerInv
  <1>3. m.view = opener[m.new] /\ None(toClient', Announcements(m.view))
    <2>1. /\ m = toClient[1] /\ DOMAIN toClient = 1 .. Len(toClient)
          /\ Len(toClient) \in Nat \ {0} /\ DOMAIN toClient' = 1 .. Len(toClient) - 1
          /\ \A i \in 1 .. Len(toClient) - 1 : toClient'[i] = toClient[i + 1]
      BY TailFacts DEF TypeOK
    <2> HIDE DEF m
    <2>2. /\ m.view = opener[m.new]
          /\ \A j \in DOMAIN toClient :
               Announces(toClient[j]) /\ toClient[j].new = m.view => j < 1
      BY <1>1, <2>1 DEF OpenerInv, AnnouncedInOrder
    <2>3. ASSUME NEW i \in DOMAIN toClient', toClient'[i] \in Announcements(m.view)
          PROVE  FALSE
      <3>1. i + 1 \in DOMAIN toClient /\ ~(i + 1 < 1) /\ toClient'[i] = toClient[i + 1]
        BY <2>1
      <3> QED
        BY <2>2, <2>3, <3>1 DEF Announcements, Announces
    <2> QED
      BY <2>2, <2>3 DEF None
  <1> HIDE DEF m
  <1>4. ASSUME NEW v \in Views
        PROVE  Opened(v)'
    <2>1. opener[v] \in Views /\ Opened(v)
      BY DEF TypeOK, OpenerInv
    <2>2. m \in Announcements(v) <=> m.new = v
      BY <1>1, Members DEF Announces
    <2>3. CASE m.new = v
      BY <1>1, <1>3, <2>1, <2>3 DEF Opened
    <2>4. CASE m.new # v
      <3>1. None(toClient', Announcements(v)) <=> None(toClient, Announcements(v))
        BY <1>1, <2>2, <2>4 DEF Receives
      <3>2. None(toClient, Announcements(opener[v])) => None(toClient', Announcements(opener[v]))
        BY <1>1 DEF Receives
      <3> QED
        BY <2>1, <3>1, <3>2 DEF Opened, Listener
    <2> QED
      BY <2>3, <2>4
  <1> QED
    BY <1>2, <1>4 DEF OpenerInv

\* Steps that create, destroy and delete nothing keep who opened what.
LEMMA ChatsKeepOpeners ==
  ASSUME TypeOK, OpenerInv, Chats
  PROVE  OpenerInv'
  <1>1. /\ \A v \in Views : impl'[v].state = impl[v].state
        /\ UNCHANGED <<opener, client, proxy, route>>
    BY DEF Chats, SameLife
  <1>2. CASE Reports
    BY <1>1, <1>2, QuietKeepsOpeners
  <1>3. CASE ~Reports
    BY <1>1, <1>3, DropKeepsOpeners DEF Chats, Reports, Announces
  <1> QED
    BY <1>2, <1>3

\* A view that the client is told of is not the opener of a leaked one.
LEMMA ToldKeepsOpeners ==
  ASSUME TypeOK, \A v \in Views : ViewInv(v), OpenerInv,
         NEW keep \in BOOLEAN, NEW d \in BOOLEAN, OnDidCreateNewView(keep, d)
  PROVE  OpenerInv'
  <1> DEFINE m == Head(toClient)
             u == m.new
  <1>1. /\ m \in ToClientMessages /\ Announces(m) /\ u \in Views
        /\ toClient # <<>> /\ toClient' = Tail(toClient)
        /\ Receives(toClient, toClient', m)
    BY Told DEF Announces
  <1>2. /\ proxy' = [proxy EXCEPT ![u] = IF keep THEN "live" ELSE "gone"]
        /\ UNCHANGED <<route, impl, opener, client>>
    BY DEF OnDidCreateNewView, hostVars
  <1>3. AnnouncedInOrder'
    BY <1>1, <1>2, ReceivingKeepsOrder DEF OpenerInv
  <1> HIDE DEF m, u
  <1>4. \A v \in Views : proxy'[v] = IF v # u THEN proxy[v] ELSE IF keep THEN "live" ELSE "gone"
    BY <1>2 DEF TypeOK
  <1>5. m \in Announcements(u) /\ \A v : v # u => m \notin Announcements(v)
    BY <1>1, Members DEF Announces, u
  <1>6. ~None(toClient, Announcements(u))
    BY <1>1, <1>5 DEF Receives
  <1>7. ASSUME NEW v \in Views
        PROVE  Opened(v)'
    <2>1. opener[v] \in Views /\ Opened(v)
      BY DEF TypeOK, OpenerInv
    <2>2. CASE v = u
      BY <1>2, <1>4, <2>1, <2>2 DEF Opened
    <2>3. CASE v # u
      <3>1. None(toClient', Announcements(v)) <=> None(toClient, Announcements(v))
        BY <1>1, <1>5, <2>3 DEF Receives
      <3>2. None(toClient, Announcements(opener[v])) => None(toClient', Announcements(opener[v]))
        BY <1>1 DEF Receives
      <3> QED
        BY <1>2, <1>4, <1>6, <2>1, <2>3, <3>1, <3>2 DEF Opened, Listener
    <2> QED
      BY <2>2, <2>3
  <1> QED
    BY <1>3, <1>7 DEF OpenerInv

\* A view that the application creates has opened nothing.
LEMMA CreateKeepsOpeners ==
  ASSUME TypeOK, \A v \in Views : LifeInv(v), OpenerInv, NEW u \in ClientViews,
         NEW d \in BOOLEAN, NEW b \in BOOLEAN, CreateWebView(u, d, b)
  PROVE  OpenerInv'
  <1>1. /\ u \in Views /\ proxy[u] = "none"
        /\ proxy' = [proxy EXCEPT ![u] = "live"]
        /\ UNCHANGED <<route, impl, opener, client, toClient>>
    BY DEF CreateWebView, hostVars, Views
  <1>2. \A v \in Views : proxy'[v] = IF v # u THEN proxy[v] ELSE "live"
    BY <1>1 DEF TypeOK
  <1>3. impl[u].state = "none"
    BY <1>1 DEF LifeInv, Begun
  <1>4. AnnouncedInOrder'
    BY <1>1 DEF OpenerInv, AnnouncedInOrder
  <1>5. ASSUME NEW v \in Views
        PROVE  Opened(v)'
    <2>1. opener[v] \in Views /\ Opened(v)
      BY DEF TypeOK, OpenerInv
    <2>2. Listener(v) => opener[v] # u
      BY <1>3, <2>1 DEF LifeInv, Hosted, Opened
    <2> QED
      BY <1>1, <1>2, <2>1, <2>2 DEF Opened, Listener
  <1> QED
    BY <1>4, <1>5 DEF OpenerInv

\* New arrives while its proxy is there, or has been.
LEMMA NewKeepsOpeners ==
  ASSUME TypeOK, \A v \in Views : ViewInv(v) /\ LifeInv(v), OpenerInv, OnWebViewNew
  PROVE  OpenerInv'
  <1> DEFINE m == Head(toHost)
  <1>1. /\ m \in ToHostMessages /\ m.type = "New" /\ m.view \in Views
        /\ Receives(toHost, toHost', m)
        /\ \A v \in Views :
             /\ v # m.view => impl'[v] = impl[v] /\ route'[v] = route[v]
             /\ v = m.view => impl'[v].state = "live"
        /\ UNCHANGED <<proxy, opener, client, toClient>>
    BY NewHandled
  <1> HIDE DEF m
  <1>2. m \in News(m.view) /\ m \in ToHost(m.view)
    BY <1>1, LifeMembers
  <1>3. ~None(toHost, News(m.view)) /\ ~None(toHost, ToHost(m.view))
    BY <1>1, <1>2 DEF Receives
  <1>4. proxy[m.view] # "none" /\ impl[m.view].state = "none" /\ opener[m.view] = m.view
    BY <1>1, <1>3 DEF ViewInv, Senders, LifeInv, Begun, Hosted
  <1>5. AnnouncedInOrder'
    BY <1>1 DEF OpenerInv, AnnouncedInOrder
  <1>6. ASSUME NEW v \in Views
        PROVE  Opened(v)'
    <2>1. opener[v] \in Views /\ Opened(v)
      BY DEF TypeOK, OpenerInv
    <2> QED
      BY <1>1, <1>4, <2>1 DEF Opened, Listener
  <1> QED
    BY <1>5, <1>6 DEF OpenerInv

\* A view that is opened is announced behind everything else, unless its opener
\* was destroyed.
LEMMA CreatedKeepsOpeners ==
  ASSUME TypeOK, \A v \in Views : ViewInv(v) /\ LifeInv(v), OpenerInv,
         NEW u \in Views, NEW w \in HostViews, WebContentsCreated(u, w)
  PROVE  OpenerInv'
  <1> DEFINE m == DidCreateNewView(u, w)
  <1>1. /\ w \in Views /\ impl[w].state = "none"
        /\ impl[u].state \in {"live", "deletingSoon"}
        /\ impl'[w].state = "live"
        /\ impl[u].destroyed => UNCHANGED <<route, toClient>>
        /\ ~impl[u].destroyed => SendToClient(m)
        /\ UNCHANGED <<proxy, client>>
    BY CreatedFacts
  <1>2. \A v \in Views : /\ opener'[v] = IF v = w THEN u ELSE opener[v]
                         /\ v # w => impl'[v] = impl[v] /\ route'[v] = route[v]
    BY CreatedFacts
  <1>3. /\ m \in ToClientMessages /\ Announces(m) /\ m.view = u /\ m.new = w
    BY Constructors DEF DidCreateNewView, Announces
  <1> HIDE DEF m
  <1>4. u # w /\ ~Listener(w) /\ None(toClient, Announcements(w))
    BY <1>1 DEF LifeInv, Hosted, ViewInv, Announced
  <1>5. ASSUME NEW i \in DOMAIN toClient, Announces(toClient[i])
        PROVE  /\ toClient[i].new \in Views /\ toClient[i].new # w
               /\ toClient[i].view # w
    <2> DEFINE n == toClient[i].new
    <2>1. toClient[i] \in ToClientMessages
      BY <1>5 DEF TypeOK
    <2>2. n \in Views /\ toClient[i] \in Announcements(n)
      BY <1>5, <2>1, ToClientFields, Members DEF Announces, Views
    <2>3. n # w /\ ~None(toClient, Announcements(n))
      BY <1>4, <2>2 DEF None
    <2>4. impl[n].state # "none"
      BY <2>2, <2>3 DEF ViewInv, Announced
    <2>5. toClient[i].view = opener[n]
      BY <1>5 DEF OpenerInv, AnnouncedInOrder
    <2>6. impl[opener[n]].state # "none"
      BY <2>2, <2>4 DEF OpenerInv, Opened
    <2> QED
      BY <1>1, <2>2, <2>3, <2>5, <2>6
  <1>6. CASE UNCHANGED toClient /\ (impl[u].destroyed \/ client # "live")
    <2>1. AnnouncedInOrder'
      BY <1>2, <1>5, <1>6 DEF OpenerInv, AnnouncedInOrder
    <2>2. ASSUME NEW v \in Views
          PROVE  Opened(v)'
      <3>1. opener[v] \in Views /\ Opened(v)
        BY DEF TypeOK, OpenerInv
      <3> QED
        BY <1>1, <1>2, <1>4, <1>6, <3>1 DEF Opened, Listener
    <2> QED
      BY <2>1, <2>2 DEF OpenerInv
  <1>7. CASE toClient' = Append(toClient, m) /\ ~impl[u].destroyed
    <2>1. /\ DOMAIN toClient = 1 .. Len(toClient) /\ Len(toClient) \in Nat
          /\ DOMAIN toClient' = 1 .. Len(toClient) + 1
          /\ \A i \in 1 .. Len(toClient) : toClient'[i] = toClient[i]
          /\ toClient'[Len(toClient) + 1] = m
      BY <1>3, <1>7, AppendFacts DEF TypeOK
    <2>2. ASSUME NEW i \in DOMAIN toClient', Announces(toClient'[i])
          PROVE  /\ toClient'[i].view = opener'[toClient'[i].new]
                 /\ \A j \in DOMAIN toClient' :
                      Announces(toClient'[j]) /\ toClient'[j].new = toClient'[i].view => j < i
      <3>1. CASE i = Len(toClient) + 1
        BY <1>1, <1>2, <1>3, <1>4, <2>1, <3>1
      <3>2. CASE i # Len(toClient) + 1
        <4>1. i \in DOMAIN toClient /\ toClient'[i] = toClient[i]
          BY <2>1, <3>2
        <4>2. /\ toClient[i].new \in Views /\ toClient[i].new # w /\ toClient[i].view # w
              /\ toClient[i].view = opener[toClient[i].new]
              /\ \A j \in DOMAIN toClient :
                   Announces(toClient[j]) /\ toClient[j].new = toClient[i].view => j < i
          BY <1>5, <2>2, <4>1 DEF OpenerInv, AnnouncedInOrder
        <4> QED
          BY <1>2, <1>3, <2>1, <4>1, <4>2
      <3> QED
        BY <3>1, <3>2
    <2>3. AnnouncedInOrder'
      BY <2>2 DEF AnnouncedInOrder
    <2>4. Sends(toClient, toClient', m)
      BY <1>3, <1>7, SendEffect DEF TypeOK
    <2>5. \A v : m \in Announcements(v) <=> v = w
      BY <1>3, Members DEF Announces
    <2>6. ASSUME NEW v \in Views
          PROVE  Opened(v)'
      <3>1. opener[v] \in Views /\ Opened(v) /\ Hosted(v)
        BY DEF TypeOK, OpenerInv, LifeInv
      <3>2. CASE v = w
        <4>1. ~None(toClient', Announcements(v))
          BY <2>4, <2>5, <3>2 DEF Sends
        <4> QED
          BY <1>1, <1>2, <1>4, <3>2, <4>1 DEF Opened
      <3>3. CASE v # w
        <4>1. None(toClient', Announcements(v)) <=> None(toClient, Announcements(v))
          BY <2>4, <2>5, <3>3 DEF Sends
        <4>2. impl[v].state # "none" => opener[v] # w
          BY <1>1, <3>1 DEF Opened
        <4>3. opener[v] # w => (None(toClient', Announcements(opener[v])) <=>
                                  None(toClient, Announcements(opener[v])))
          BY <2>4, <2>5 DEF Sends
        <4> QED
          BY <1>1, <1>2, <3>1, <3>3, <4>1, <4>2, <4>3 DEF Opened, Hosted, Listener
      <3> QED
        BY <3>2, <3>3
    <2> QED
      BY <2>3, <2>6 DEF OpenerInv
  <1> QED
    BY <1>1, <1>6, <1>7 DEF SendToClient

-----------------------------------------------------------------------------
(* All of it together.                                                     *)

\* The lives of the views, with what IndInv says of their messages.
LivesInv ==
  /\ IndInv
  /\ \A v \in Views : LifeInv(v)
  /\ DeletionInv
  /\ OpenerInv

\* No view lives in the initial state.
LEMMA LivesInit == Init => LivesInv
  <1> SUFFICES ASSUME Init PROVE LivesInv
    OBVIOUS
  <1>1. IndInv
    BY InitInv
  <1>2. toHost = <<>> /\ toClient = <<>> /\ tasks = <<>> /\ processHost = "live"
        /\ renderHost = "none"
    BY DEF Init
  <1>3. ASSUME NEW v \in Views
        PROVE  /\ proxy[v] = "none" /\ route[v] = "none" /\ opener[v] = v
               /\ impl[v].state = "none" /\ ~impl[v].ready /\ ~impl[v].destroyed
               /\ ~impl[v].inProcess /\ ~impl[v].early
    BY DEF Init, NoImpl
  <1>4. \A v \in Views : LifeInv(v)
    BY <1>2, <1>3, NothingCarried DEF LifeInv, Hosted, Begun, Ended, Listener
  <1>5. DeletionInv
    BY <1>2, <1>3 DEF DeletionInv, TaskOrder, Deleting, Rendered, Posted
  <1>6. OpenerInv
    BY <1>2, <1>3 DEF OpenerInv, AnnouncedInOrder, Opened, Listener
  <1> QED
    BY <1>1, <1>4, <1>5, <1>6 DEF LivesInv

\* Steps on proxies leave what is posted for deletion alone.
LEMMA ProxiesKeepDeletion ==
  ASSUME TypeOK, DeletionInv, UNCHANGED <<impl, tasks, renderHost, processHost>>
  PROVE  DeletionInv'
  BY QuietKeepsDeletion DEF SameLife

\* So do the ends of proxies, hosts and implementations to who opened what.
LEMMA EndsKeepOpeners ==
  ASSUME TypeOK, OpenerInv, \A v \in Views : LifeInv(v), DeletionInv,
         \/ \E u \in Views : Closing(u) \/ DidNavigateMainFramePostCommit(u)
         \/ ClientDies \/ OnWebViewDestroy \/ DeleteProcessHost \/ RunTask,
         \A v \in Views : ViewInv(v)
  PROVE  OpenerInv'
  <1>1. ASSUME NEW u \in Views, Closing(u)
        PROVE  OpenerInv'
    <2>1. /\ Reports /\ UNCHANGED <<opener, client, impl, route>>
      BY <1>1 DEF Closing, Reports, Announces
    <2>2. \A v \in Views : /\ proxy'[v] = "none" => proxy[v] = "none"
                           /\ proxy'[v] = "live" => proxy[v] = "live"
      BY <1>1 DEF Closing, TypeOK
    <2> QED
      BY <2>1, <2>2, QuietKeepsOpeners
  <1>2. ASSUME NEW u \in Views, DidNavigateMainFramePostCommit(u)
        PROVE  OpenerInv'
    <2>1. \A v \in Views :
            /\ impl[u].state \in {"live", "deletingSoon"}
            /\ v # u => impl'[v] = impl[v]
            /\ impl'[u].state = IF impl[u].destroyed THEN "deletingSoon" ELSE impl[u].state
            /\ UNCHANGED <<proxy, route, opener, client, toClient>>
      BY <1>2, NavigateFacts
    <2>2. /\ UNCHANGED <<proxy, route, opener, client>> /\ Reports
      BY <2>1 DEF Reports
    <2> QED
      BY <2>1, <2>2, QuietKeepsOpeners
  <1>3. CASE ClientDies
    <2>1. toClient' = <<>> /\ client' = "gone" /\ UNCHANGED <<impl, opener>>
      BY <1>3 DEF ClientDies, hostVars
    <2> QED
      BY <2>1 DEF OpenerInv, AnnouncedInOrder, Opened
  <1>4. CASE OnWebViewDestroy
    <2> DEFINE m == Head(toHost)
    <2>1. /\ m \in ToHostMessages /\ m.type = "Destroy" /\ m.view \in Views
          /\ Receives(toHost, toHost', m)
          /\ \A v \in Views :
               /\ v # m.view => impl'[v] = impl[v] /\ route'[v] = route[v]
               /\ v = m.view => route'[v] = "gone" /\ impl'[v] = Destroyed(impl[v])
          /\ UNCHANGED <<proxy, opener, client, toClient>>
      BY <1>4, DestroyHandled
    <2> HIDE DEF m
    <2>2. impl[m.view].state # "none" /\ impl[m.view] \in Impls
      BY <2>1, DestroyFindsView DEF TypeOK
    <2>3. impl'[m.view].state # "none"
      BY <2>1, <2>2, DestroyedFacts
    <2> QED
      BY <2>1, <2>2, <2>3, QuietKeepsOpeners DEF Reports
  <1>5. CASE DeleteProcessHost
    <2>1. /\ client = "gone" /\ UNCHANGED <<opener, client, toClient, proxy>>
      BY <1>5 DEF DeleteProcessHost, proxyVars
    <2>2. ASSUME NEW v \in Views
          PROVE  impl'[v].state = "none" <=> impl[v].state = "none"
      <3>1. /\ Listener(v) => impl'[v] = Destroyed(impl[v])
            /\ ~Listener(v) => impl'[v] = impl[v]
        BY <1>5, HostDeleted
      <3>2. impl[v] \in Impls /\ (Listener(v) => impl[v].state # "none")
        BY DEF TypeOK, LifeInv, Hosted
      <3> QED
        BY <3>1, <3>2, DestroyedFacts
    <2>3. ASSUME NEW v \in Views
          PROVE  route'[v] = "live" => route[v] = "live"
      BY <1>5, HostDeleted DEF Listener
    <2> QED
      BY <2>1, <2>2, <2>3, QuietKeepsOpeners DEF Reports
  <1>6. CASE RunTask
    <2>1. /\ tasks # <<>> /\ UNCHANGED <<proxy, route, opener, client, toClient>>
      BY <1>6 DEF RunTask, proxyVars
    <2>2. ASSUME NEW v \in Views
          PROVE  impl'[v].state = "none" <=> impl[v].state = "none"
      <3>1. impl'[v].state = IF Head(tasks) = v THEN "deleted" ELSE impl[v].state
        BY <1>6, RunTaskFacts
      <3>2. 1 \in DOMAIN tasks /\ tasks[1] = Head(tasks)
        BY <2>1, TailFacts DEF TypeOK
      <3>3. Head(tasks) = v => impl[v].state = "deletingSoon"
        BY <3>2 DEF DeletionInv, Deleting, Posted
      <3> QED
        BY <3>1, <3>3
    <2> QED
      BY <2>1, <2>2, QuietKeepsOpeners DEF Reports
  <1> QED
    BY <1>1, <1>2, <1>3, <1>4, <1>5, <1>6

\* Every step keeps the lives of the views, by the kind of step that it is.
LEMMA LivesStep ==
  ASSUME LivesInv, [Next]_vars
  PROVE  LivesInv'
  <1>1. /\ TypeOK /\ (\A v \in Views : ViewInv(v)) /\ (\A v \in Views : LifeInv(v))
        /\ DeletionInv /\ OpenerInv /\ \A v \in Views : Deleting(v)
    BY DEF LivesInv, IndInv, DeletionInv
  <1>2. IndInv'
    BY NextKeeps DEF LivesInv
  <1> DEFINE Rest == (\A v \in Views : LifeInv(v)') /\ DeletionInv' /\ OpenerInv'
  <1>3. ASSUME Chats
        PROVE  Rest
    <2>1. \A v \in Views : SameLife(v)
      BY <1>3 DEF Chats
    <2>2. UNCHANGED <<tasks, renderHost, processHost>>
      BY <1>3 DEF Chats
    <2>3. DeletionInv'
      BY <1>1, <2>1, <2>2, QuietKeepsDeletion
    <2> QED
      BY <1>1, <1>3, <2>3, ChatsKeepLife, ChatsKeepOpeners
  <1>4. ASSUME NEW u \in ClientViews, NEW d \in BOOLEAN, NEW b \in BOOLEAN,
               CreateWebView(u, d, b)
        PROVE  Rest
    <2>1. UNCHANGED <<impl, tasks, renderHost, processHost>>
      BY <1>4 DEF CreateWebView, hostVars
    <2> QED
      BY <1>1, <1>4, <2>1, ProxiesKeepDeletion, CreateKeepsLife, CreateKeepsOpeners
  <1>5. ASSUME NEW u \in Views, Closing(u)
        PROVE  Rest
    <2>1. UNCHANGED <<impl, tasks, renderHost, processHost>>
      BY <1>5 DEF Closing
    <2> QED
      BY <1>1, <1>5, <2>1, ProxiesKeepDeletion, ClientEventsKeepLife, EndsKeepOpeners
  <1>6. ASSUME NEW keep \in BOOLEAN, NEW d \in BOOLEAN, OnDidCreateNewView(keep, d)
        PROVE  Rest
    <2>1. UNCHANGED <<impl, tasks, renderHost, processHost>>
      BY <1>6 DEF OnDidCreateNewView, hostVars
    <2> QED
      BY <1>1, <1>6, <2>1, ProxiesKeepDeletion, ClientEventsKeepLife, ToldKeepsOpeners
  <1>7. ASSUME ClientDies
        PROVE  Rest
    <2>1. UNCHANGED <<impl, tasks, renderHost, processHost>>
      BY <1>7 DEF ClientDies, hostVars
    <2> QED
      BY <1>1, <1>7, <2>1, ProxiesKeepDeletion, ClientDiesKeepsLife, EndsKeepOpeners
  <1>8. ASSUME OnWebViewNew
        PROVE  Rest
    BY <1>1, <1>8, NewKeepsLife, NewKeepsDeletion, NewKeepsOpeners
  <1>9. ASSUME OnWebViewDestroy
        PROVE  Rest
    BY <1>1, <1>9, DestroyKeepsLife, DestroyKeepsDeletion, EndsKeepOpeners
  <1>10. ASSUME DeleteProcessHost
         PROVE  Rest
    BY <1>1, <1>10, DeletionsKeepLife, HostDeletedKeepsDeletion, EndsKeepOpeners
  <1>11. ASSUME RunTask
         PROVE  Rest
    BY <1>1, <1>11, DeletionsKeepLife, RunTaskKeepsDeletion, EndsKeepOpeners
  <1>12. ASSUME NEW u \in Views, DidNavigateMainFramePostCommit(u)
         PROVE  Rest
    BY <1>1, <1>12, PagesKeepLife, NavigateKeepsDeletion, EndsKeepOpeners
  <1>13. ASSUME NEW u \in Views, NEW w \in HostViews, WebContentsCreated(u, w)
         PROVE  Rest
    BY <1>1, <1>13, PagesKeepLife, CreatedKeepsDeletion, CreatedKeepsOpeners
  <1> HIDE DEF Rest
  <1>14. Rest
    BY <1>1, <1>3, <1>4, <1>5, <1>6, <1>7, <1>8, <1>9, <1>10, <1>11, <1>12, <1>13,
       LifeSteps
  <1> QED
    BY <1>2, <1>14 DEF Rest, LivesInv

\* At every moment the lives of all views are in order.
THEOREM LivesInductive == Spec => []LivesInv
  BY LivesInit, LivesStep, PTL DEF Spec

\* The views that count for their browser context are those whose WebViewHost
\* has not destroyed its WebViewImpl, and nobody but a leaked one is without
\* somebody who will destroy it.
THEOREM ViewsAreAlwaysOwned == Spec => []ViewsAreOwned
  <1>1. ASSUME LivesInv, NEW v \in Views
        PROVE  /\ Listener(v) <=> impl[v].state # "none" /\ ~impl[v].destroyed
               /\ Listener(v) /\ client = "live" =>
                    \/ proxy[v] = "live"
                    \/ IsAnnounced(v)
                    \/ \E i \in DOMAIN toHost : Is(toHost[i], "Destroy", v)
                    \/ Leaked(v)
    <2>1. /\ Hosted(v) /\ Ended(v) /\ Opened(v) /\ proxy[v] \in {"none", "live", "gone"}
          /\ toHost \in Seq(ToHostMessages) /\ toClient \in Seq(ToClientMessages)
      BY <1>1 DEF LivesInv, LifeInv, OpenerInv, IndInv, TypeOK
    <2>2. \A x : None(toClient, Announcements(x)) <=> ~IsAnnounced(x)
      BY <2>1 DEF None, Announcements, IsAnnounced
    <2>3. ~None(toHost, Destroys(v)) => \E i \in DOMAIN toHost : Is(toHost[i], "Destroy", v)
      BY DEF None, Destroys
    <2> QED
      BY <2>1, <2>2, <2>3 DEF Hosted, Ended, Opened, Leaked
  <1>2. LivesInv => ViewsAreOwned
    BY <1>1 DEF ViewsAreOwned
  <1> QED
    BY <1>2, LivesInductive, PTL

\* A WebViewImpl is posted for deletion once, after it was destroyed and is
\* ready, although destroy and a late commit can both post it; and no view is
\* in use any more when the render process host is deleted.
THEOREM DeletionIsAlwaysOrdered == Spec => []DeletionIsOrdered
  <1>1. ASSUME LivesInv, renderHost = "deleted", NEW v \in Views, impl[v].state # "none"
        PROVE  impl[v].destroyed
    BY <1>1 DEF LivesInv, DeletionInv, TaskOrder, LifeInv, Hosted
  <1>2. LivesInv => DeletionIsOrdered
    BY <1>1 DEF LivesInv, DeletionInv, TaskOrder, Deleting, Posted, DeletionIsOrdered
  <1> QED
    BY <1>2, LivesInductive, PTL

\* How far the order of DeleteSoon carries: the render process host is deleted
\* after every in-process WebViewImpl that was ready when it was destroyed.
\* The one that was not is what RenderHostOutlivesImpls fails for.
ReadyImplsGoFirst ==
  renderHost = "deleted" =>
    \A v \in Views : impl[v].inProcess /\ ~impl[v].early => impl[v].state = "deleted"

\* ~ProcessHostImpl posts the render process host behind every in-process
\* WebViewImpl that its listeners have posted.
THEOREM ReadyImplsAlwaysGoFirst == Spec => []ReadyImplsGoFirst
  <1>1. LivesInv => ReadyImplsGoFirst
    BY DEF LivesInv, DeletionInv, Rendered, ReadyImplsGoFirst
  <1> QED
    BY <1>1, LivesInductive, PTL

-----------------------------------------------------------------------------
(* Searches on the page.                                                   *)

\* A request with this id and text is an earlier one, or the one of f.
Fits(id, text, f) == id <= f.reqId /\ (id = f.reqId => text = f.text)

\* Messages about requests that do not fit.
WrongFinds(v, f) ==
  {m \in ToHostMessages : Is(m, "Find", v) /\ ~Fits(m.reqId, m.text, f)}
WrongStates(v, f) ==
  {m \in ToClientMessages : /\ Is(m, "FindState", v) /\ m.matches # -1
                            /\ ~Fits(m.reqId, m.matches, f)}

\* Ids only grow, and the counts shown are those of the text searched for.
FindInv(v) ==
  /\ d_find[v].reqId <= inputs.calls
  /\ None(toHost, WrongFinds(v, d_find[v]))
  /\ \A q \in finding[v] : Fits(q.reqId, q.text, d_find[v])
  /\ None(toClient, WrongStates(v, d_find[v]))
  /\ d_find[v].matches \in {0, d_find[v].text}

\* A request for another text has an id that was not used, while ids last.
LEMMA NewRequestFits ==
  ASSUME NEW f \in Finds, NEW t \in Texts, f.reqId < MaxReqId
  PROVE  LET g == MakeRequest(f, t)
         IN  /\ g.text = t /\ g.reqId \in Nat
             /\ g.reqId = f.reqId \/ g.reqId = f.reqId + 1
             /\ f.matches \in {0, f.text} => g.matches \in {0, g.text}
             /\ \A id \in Nat : \A x : Fits(id, x, f) => Fits(id, x, g)
             /\ Fits(g.reqId, t, g)
  <1>1. f.reqId \in Nat /\ MaxReqId \in Nat
    BY BoundAssumption DEF Finds
  <1>2. CASE f.text = t
    BY <1>1, <1>2 DEF MakeRequest, Fits
  <1>3. CASE f.text # t
    BY <1>1, <1>3 DEF MakeRequest, Fits
  <1> QED
    BY <1>2, <1>3

\* Messages about find requests.
LEMMA FindMembers ==
  ASSUME NEW v, NEW f
  PROVE  /\ \A m \in ToHostMessages : m \in WrongFinds(v, f) <=>
              m.type = "Find" /\ m.view = v /\ ~Fits(m.reqId, m.text, f)
         /\ \A m \in ToClientMessages : m \in WrongStates(v, f) <=>
              /\ m.type = "FindState" /\ m.view = v /\ m.matches # -1
              /\ ~Fits(m.reqId, m.matches, f)
  BY DEF WrongFinds, WrongStates, Is

\* What the other steps do to the messages about requests: they carry others,
\* deliver or lose them.
FindQuiet(v) ==
  /\ \A f : None(toHost, WrongFinds(v, f)) => None(toHost', WrongFinds(v, f))
  /\ \A f : None(toClient, WrongStates(v, f)) => None(toClient', WrongStates(v, f))

\* The messages that a step sends and receives, none of which is a new Find or
\* FindState.
LEMMA FindQuietSteps ==
  ASSUME TypeOK, NEW v \in Views,
         \/ UNCHANGED toHost
         \/ \E m \in ToHostMessages : m.type # "Find" /\ toHost' = Append(toHost, m)
         \/ toHost # <<>> /\ toHost' = Tail(toHost)
         \/ \E n \in 0 .. Len(toHost) : toHost' = SubSeq(toHost, 1, n)
         \/ toHost' = <<>>,
         \/ UNCHANGED toClient
         \/ \E m \in ToClientMessages : m.type # "FindState" /\ toClient' = Append(toClient, m)
         \/ toClient # <<>> /\ toClient' = Tail(toClient)
         \/ toClient' = <<>>
  PROVE  FindQuiet(v)
  <1>1. ASSUME NEW f, None(toHost, WrongFinds(v, f))
        PROVE  None(toHost', WrongFinds(v, f))
    <2>1. CASE UNCHANGED toHost
      BY <1>1, <2>1
    <2>2. ASSUME NEW m \in ToHostMessages, m.type # "Find", toHost' = Append(toHost, m)
          PROVE  None(toHost', WrongFinds(v, f))
      <3>1. Sends(toHost, toHost', m) /\ m \notin WrongFinds(v, f)
        BY <2>2, SendEffect, FindMembers DEF TypeOK
      <3> QED
        BY <1>1, <3>1 DEF Sends
    <2>3. CASE toHost # <<>> /\ toHost' = Tail(toHost)
      <3>1. Receives(toHost, toHost', Head(toHost))
        BY <2>3, ReceiveEffect DEF TypeOK
      <3> QED
        BY <1>1, <3>1 DEF Receives
    <2>4. ASSUME NEW n \in 0 .. Len(toHost), toHost' = SubSeq(toHost, 1, n)
          PROVE  None(toHost', WrongFinds(v, f))
      BY <1>1, <2>4, LossEffect DEF TypeOK
    <2>5. CASE toHost' = <<>>
      BY <2>5, NothingCarried
    <2> QED
      BY <2>1, <2>2, <2>3, <2>4, <2>5
  <1>2. ASSUME NEW f, None(toClient, WrongStates(v, f))
        PROVE  None(toClient', WrongStates(v, f))
    <2>1. CASE UNCHANGED toClient
      BY <1>2, <2>1
    <2>2. ASSUME NEW m \in ToClientMessages, m.type # "FindState",
                 toClient' = Append(toClient, m)
          PROVE  None(toClient', WrongStates(v, f))
      <3>1. Sends(toClient, toClient', m) /\ m \notin WrongStates(v, f)
        BY <2>2, SendEffect, FindMembers DEF TypeOK
      <3> QED
        BY <1>2, <3>1 DEF Sends
    <2>3. CASE toClient # <<>> /\ toClient' = Tail(toClient)
      <3>1. Receives(toClient, toClient', Head(toClient))
        BY <2>3, ReceiveEffect DEF TypeOK
      <3> QED
        BY <1>2, <3>1 DEF Receives
    <2>4. CASE toClient' = <<>>
      BY <2>4, NothingCarried
    <2> QED
      BY <2>1, <2>2, <2>3, <2>4
  <1> QED
    BY <1>1, <1>2 DEF FindQuiet

\* Steps that search for nothing.
LEMMA OthersKeepFind ==
  ASSUME TypeOK, NEW v \in Views, FindInv(v), FindQuiet(v),
         UNCHANGED <<d_find[v], finding[v]>>,
         UNCHANGED inputs \/ Call \/ Event
  PROVE  FindInv(v)'
  <1>1. inputs'.calls = inputs.calls \/ inputs'.calls = inputs.calls + 1
    BY DEF Call, Event, TypeOK, Inputs
  <1>2. d_find[v].reqId \in Int /\ inputs.calls \in Int
    BY BoundAssumption DEF TypeOK, Finds, Inputs
  <1>3. d_find'[v].reqId <= inputs'.calls
    BY <1>1, <1>2 DEF FindInv
  <1> QED
    BY <1>3 DEF FindInv, FindQuiet

\* A search: its request is the one of the proxy, and what was asked before fits.
LEMMA SearchKeepsFind ==
  ASSUME MaxCalls <= MaxReqId, TypeOK, NEW u \in Views, NEW t \in Texts, Find(u, t),
         NEW v \in Views, FindInv(v), FindInv(u)
  PROVE  FindInv(v)'
  <1> DEFINE f == d_find[u]
             g == MakeRequest(f, t)
             m == FindMsg(u, g.reqId, g.text)
  <1>1. /\ inputs.calls < MaxCalls /\ inputs'.calls = inputs.calls + 1
        /\ inputs.calls \in Nat
    BY DEF Find, Call, TypeOK, Inputs
  <1>2. f \in Finds /\ f.reqId \in Nat /\ d_find[v].reqId \in Nat
    BY DEF TypeOK, Finds
  <1>3. f.reqId < MaxReqId
    BY <1>1, <1>2, BoundAssumption DEF FindInv
  <1>4. /\ g.text = t /\ g.reqId \in Nat
        /\ g.reqId = f.reqId \/ g.reqId = f.reqId + 1
        /\ f.matches \in {0, f.text} => g.matches \in {0, g.text}
        /\ \A id \in Nat : \A x : Fits(id, x, f) => Fits(id, x, g)
        /\ Fits(g.reqId, t, g)
    BY <1>2, <1>3, NewRequestFits
  <1>5. m \in ToHostMessages /\ m.type = "Find" /\ m.view = u /\ m.reqId = g.reqId
        /\ m.text = g.text
    <2>1. g.reqId \in 0 .. MaxReqId /\ g.text \in Texts
      BY <1>2, FindTypes
    <2> HIDE DEF g
    <2> QED
      BY <2>1 DEF FindMsg, ToHostMessages
  <1>6. /\ toHost' = Append(toHost, m) /\ d_find' = [d_find EXCEPT ![u] = g]
        /\ UNCHANGED <<finding, toClient>>
    BY DEF Find, hostVars
  <1> HIDE DEF m, g
  <1>7. Sends(toHost, toHost', m)
    BY <1>5, <1>6, SendEffect DEF TypeOK
  <1>8. CASE v # u
    <2>1. d_find'[v] = d_find[v]
      BY <1>6, <1>8 DEF TypeOK
    <2>2. m \notin WrongFinds(v, d_find[v])
      BY <1>5, <1>8, FindMembers
    <2>3. None(toHost', WrongFinds(v, d_find[v]))
      BY <1>7, <2>2 DEF Sends, FindInv
    <2>4. d_find[v].reqId <= inputs'.calls
      BY <1>1, <1>2 DEF FindInv
    <2> QED
      BY <1>6, <2>1, <2>3, <2>4 DEF FindInv
  <1>9. CASE v = u
    <2>1. d_find'[v] = g
      BY <1>6, <1>9 DEF TypeOK
    <2>2. None(toHost', WrongFinds(v, g))
      <3>1. WrongFinds(v, g) \subseteq WrongFinds(v, f)
        <4>1. ASSUME NEW n \in WrongFinds(v, g)
              PROVE  n \in WrongFinds(v, f)
          <5>1. n \in ToHostMessages /\ n.type = "Find" /\ n.view = v
                /\ ~Fits(n.reqId, n.text, g)
            BY FindMembers DEF WrongFinds
          <5>2. n.reqId \in Nat
            BY <5>1, ToHostFields
          <5> QED
            BY <1>4, <5>1, <5>2, FindMembers
        <4> QED
          BY <4>1
      <3>2. None(toHost, WrongFinds(v, g))
        BY <1>9, <3>1, NoneSubset DEF FindInv
      <3>3. m \notin WrongFinds(v, g)
        BY <1>4, <1>5, FindMembers
      <3> QED
        BY <1>7, <3>2, <3>3 DEF Sends
    <2>3. None(toClient, WrongStates(v, g))
      <3>1. WrongStates(v, g) \subseteq WrongStates(v, f)
        <4>1. ASSUME NEW n \in WrongStates(v, g)
              PROVE  n \in WrongStates(v, f)
          <5>1. n \in ToClientMessages /\ n.type = "FindState" /\ n.view = v
                /\ n.matches # -1 /\ ~Fits(n.reqId, n.matches, g)
            BY FindMembers DEF WrongStates
          <5>2. n.reqId \in Nat
            BY <5>1, ToClientFields
          <5> QED
            BY <1>4, <5>1, <5>2, FindMembers
        <4> QED
          BY <4>1
      <3> QED
        BY <1>9, <3>1, NoneSubset DEF FindInv
    <2>4. \A q \in finding[v] : Fits(q.reqId, q.text, g)
      <3>1. \A q \in finding[v] : q.reqId \in Nat
        BY DEF TypeOK, Requests
      <3> QED
        BY <1>4, <1>9, <3>1 DEF FindInv
    <2>5. g.reqId <= inputs'.calls
      BY <1>1, <1>2, <1>4, <1>9 DEF FindInv
    <2>6. g.matches \in {0, g.text}
      BY <1>4, <1>9 DEF FindInv
    <2> QED
      BY <1>6, <2>1, <2>2, <2>3, <2>4, <2>5, <2>6 DEF FindInv
  <1> QED
    BY <1>8, <1>9

\* The host hands a request that fits to the page.
LEMMA OnFindKeepsFind ==
  ASSUME TypeOK, OnFind, NEW v \in Views, FindInv(v)
  PROVE  FindInv(v)'
  <1> DEFINE m == Head(toHost)
  <1>1. /\ toHost # <<>> /\ m.type = "Find" /\ toHost' = Tail(toHost)
        /\ UNCHANGED <<d_find, toClient, inputs>>
    BY DEF OnFind, Handle
  <1>2. m \in ToHostMessages /\ Receives(toHost, toHost', m)
    BY <1>1, TailFacts, ReceiveEffect DEF TypeOK
  <1>3. None(toHost', WrongFinds(v, d_find[v])) /\ m \notin WrongFinds(v, d_find[v])
    BY <1>2 DEF Receives, FindInv
  <1>4. \A q \in finding'[v] :
          q \in finding[v] \/ (m.view = v /\ q = [reqId |-> m.reqId, text |-> m.text])
    BY DEF OnFind, TypeOK
  <1> HIDE DEF m
  <1>5. m.view = v => Fits(m.reqId, m.text, d_find[v])
    BY <1>1, <1>2, <1>3, FindMembers
  <1>6. \A q \in finding'[v] : Fits(q.reqId, q.text, d_find[v])
    BY <1>4, <1>5 DEF FindInv
  <1> QED
    BY <1>1, <1>3, <1>6 DEF FindInv

\* The page's report on a request that fits carries the counts of its text.
LEMMA ReplyKeepsFind ==
  ASSUME TypeOK, NEW u \in Views, FindReply(u), NEW v \in Views, FindInv(v)
  PROVE  FindInv(v)'
  <1>1. PICK q \in finding[u] :
          /\ finding' = [finding EXCEPT ![u] = @ \ {q}]
          /\ \E n \in {-1, q.text} :
               IF impl[u].destroyed THEN UNCHANGED toClient
               ELSE SendToClient(FindState(u, q.reqId, n))
    BY DEF FindReply
  <1>2. PICK n \in {-1, q.text} :
          IF impl[u].destroyed THEN UNCHANGED toClient
          ELSE SendToClient(FindState(u, q.reqId, n))
    BY <1>1
  <1> DEFINE m == FindState(u, q.reqId, n)
  <1>3. /\ m \in ToClientMessages /\ m.type = "FindState" /\ m.view = u
        /\ m.reqId = q.reqId /\ m.matches = n
    BY <1>2 DEF TypeOK, Requests, FindState, ToClientMessages
  <1>4. UNCHANGED toClient \/ toClient' = Append(toClient, m)
    BY <1>2 DEF SendToClient
  <1> HIDE DEF m
  <1>5. UNCHANGED <<d_find, toHost, inputs>>
    BY DEF FindReply
  <1>6. \A p \in finding'[v] : p \in finding[v]
    BY <1>1 DEF TypeOK
  <1>7. u = v => Fits(q.reqId, q.text, d_find[v])
    BY <1>1 DEF FindInv
  <1>8. m \notin WrongStates(v, d_find[v])
    BY <1>2, <1>3, <1>7, FindMembers
  <1>9. None(toClient', WrongStates(v, d_find[v]))
    <2>1. CASE UNCHANGED toClient
      BY <2>1 DEF FindInv
    <2>2. CASE toClient' = Append(toClient, m)
      <3>1. Sends(toClient, toClient', m)
        BY <1>3, <2>2, SendEffect DEF TypeOK
      <3> QED
        BY <1>8, <3>1 DEF Sends, FindInv
    <2> QED
      BY <1>4, <2>1, <2>2
  <1> QED
    BY <1>5, <1>6, <1>9 DEF FindInv

\* applyUpdate takes counts only from a reply to the request made last.
LEMMA OnFindStateKeepsFind ==
  ASSUME TypeOK, OnFindState, NEW v \in Views, FindInv(v)
  PROVE  FindInv(v)'
  <1> DEFINE m == Head(toClient)
  <1>1. /\ toClient # <<>> /\ m.type = "FindState" /\ toClient' = Tail(toClient)
        /\ UNCHANGED <<finding, toHost, inputs>>
    BY DEF OnFindState, Receive, hostVars
  <1>2. m \in ToClientMessages /\ Receives(toClient, toClient', m)
    BY <1>1, TailFacts, ReceiveEffect DEF TypeOK
  <1>3. /\ None(toClient', WrongStates(v, d_find[v]))
        /\ m \notin WrongStates(v, d_find[v])
    BY <1>2 DEF Receives, FindInv
  <1>4. \/ d_find'[v] = d_find[v]
        \/ m.view = v /\ d_find'[v] = ApplyUpdate(d_find[v], m)
    BY DEF OnFindState, TypeOK
  <1> HIDE DEF m
  <1>5. CASE d_find'[v] = d_find[v]
    BY <1>1, <1>3, <1>5 DEF FindInv
  <1>6. CASE m.view = v /\ d_find'[v] = ApplyUpdate(d_find[v], m)
    <2> DEFINE f == d_find[v]
               g == ApplyUpdate(f, m)
    <2>1. m.matches # -1 => Fits(m.reqId, m.matches, f)
      BY <1>1, <1>2, <1>3, <1>6, FindMembers
    <2>2. f \in Finds
      BY DEF TypeOK
    <2>3. f.matches \in {0, f.text}
      BY DEF FindInv
    <2> HIDE DEF f
    <2>4. g.reqId = f.reqId /\ g.text = f.text /\ g.matches \in {0, g.text}
      BY <2>1, <2>2, <2>3 DEF ApplyUpdate, Fits, Finds
    <2> HIDE DEF g
    <2>5. \A id, x : Fits(id, x, g) <=> Fits(id, x, f)
      BY <2>4 DEF Fits
    <2>6. WrongFinds(v, g) = WrongFinds(v, f) /\ WrongStates(v, g) = WrongStates(v, f)
      BY <2>5 DEF WrongFinds, WrongStates
    <2>7. d_find'[v] = g
      BY <1>6 DEF f, g
    <2>8. f = d_find[v]
      BY DEF f
    <2> QED
      BY <1>1, <1>3, <2>4, <2>5, <2>6, <2>7, <2>8 DEF FindInv
  <1> QED
    BY <1>4, <1>5, <1>6

\* What a step that searches for nothing does: it sends other messages,
\* receives, or loses what was sent.
Indifferent ==
  /\ \/ UNCHANGED toHost
     \/ \E m \in ToHostMessages : m.type # "Find" /\ toHost' = Append(toHost, m)
     \/ toHost # <<>> /\ toHost' = Tail(toHost)
     \/ \E n \in 0 .. Len(toHost) : toHost' = SubSeq(toHost, 1, n)
     \/ toHost' = <<>>
  /\ \/ UNCHANGED toClient
     \/ \E m \in ToClientMessages : m.type # "FindState" /\ toClient' = Append(toClient, m)
     \/ toClient # <<>> /\ toClient' = Tail(toClient)
     \/ toClient' = <<>>
  /\ UNCHANGED <<d_find, finding>>
  /\ UNCHANGED inputs \/ Call \/ Event

\* The application's other calls.
LEMMA CallsAreIndifferent ==
  ASSUME TypeOK, NEW u \in Views,
         \/ LoadUrl(u) \/ Destroy(u)
         \/ \E r \in Rects : Move(u, r)
         \/ \E d, b \in BOOLEAN : u \in ClientViews /\ CreateWebView(u, d, b)
  PROVE  Indifferent
  <1>1. CASE LoadUrl(u)
    <2>1. Message("LoadUrl", u) \in ToHostMessages /\ Message("LoadUrl", u).type = "LoadUrl"
      BY Constructors DEF Message
    <2> QED
      BY <1>1, <2>1 DEF LoadUrl, Indifferent, hostVars
  <1>2. CASE Destroy(u)
    <2>1. Message("Destroy", u) \in ToHostMessages /\ Message("Destroy", u).type = "Destroy"
      BY Constructors DEF Message
    <2> QED
      BY <1>2, <2>1 DEF Destroy, Indifferent, hostVars
  <1>3. ASSUME NEW r \in Rects, Move(u, r)
        PROVE  Indifferent
    <2>1. MoveMsg(u, r) \in ToHostMessages /\ MoveMsg(u, r).type = "Move"
      BY Constructors DEF MoveMsg
    <2>2. UNCHANGED toHost \/ toHost' = Append(toHost, MoveMsg(u, r))
      BY <1>3 DEF Move, MoveImpl
    <2> QED
      BY <1>3, <2>1, <2>2 DEF Move, Indifferent, hostVars
  <1>4. ASSUME NEW d \in BOOLEAN, NEW b \in BOOLEAN, u \in ClientViews,
               CreateWebView(u, d, b)
        PROVE  Indifferent
    <2>1. New(u, b) \in ToHostMessages /\ New(u, b).type = "New"
      BY <1>4, Constructors DEF New
    <2> QED
      BY <1>4, <2>1 DEF CreateWebView, Indifferent, hostVars
  <1> QED
    BY <1>1, <1>2, <1>3, <1>4

\* The other handlers of the client, and its end.
LEMMA ClientIsIndifferent ==
  ASSUME TypeOK,
         \/ DropMessage \/ OnMoveAck \/ ClientDies
         \/ \E keep, d \in BOOLEAN : OnDidCreateNewView(keep, d)
         \/ \E keep \in BOOLEAN : OnDestroyView(keep)
  PROVE  Indifferent
  <1> DEFINE c == Head(toClient)
  <1>1. toClient # <<>> => c \in ToClientMessages
    BY TailFacts DEF TypeOK
  <1>2. CASE DropMessage
    BY <1>2 DEF DropMessage, Indifferent, hostVars
  <1>3. CASE OnMoveAck
    <2> DEFINE m == MoveMsg(c.view, d_lastMoveRect[c.view])
    <2>1. toClient # <<>> /\ toClient' = Tail(toClient)
      BY <1>3 DEF OnMoveAck, Receive
    <2>2. c.view \in Views /\ d_lastMoveRect[c.view] \in Rects
      BY <1>1, <2>1, ToClientFields DEF TypeOK
    <2>3. m \in ToHostMessages /\ m.type = "Move"
      BY <2>2, Constructors DEF MoveMsg
    <2>4. UNCHANGED toHost \/ toHost' = Append(toHost, m)
      BY <1>3 DEF OnMoveAck, MoveImpl
    <2>5. UNCHANGED <<d_find, finding, inputs>>
      BY <1>3 DEF OnMoveAck, hostVars
    <2> HIDE DEF m
    <2> QED
      BY <2>1, <2>3, <2>4, <2>5 DEF Indifferent
  <1>4. ASSUME NEW keep \in BOOLEAN, NEW d \in BOOLEAN, OnDidCreateNewView(keep, d)
        PROVE  Indifferent
    <2> DEFINE m == Message("Destroy", c.new)
    <2>1. toClient # <<>> /\ toClient' = Tail(toClient) /\ c.type = "DidCreateNewView"
      BY <1>4 DEF OnDidCreateNewView, Receive
    <2>2. c.new \in Views
      BY <1>1, <2>1, ToClientFields DEF Views
    <2>3. m \in ToHostMessages /\ m.type = "Destroy"
      BY <2>2, Constructors DEF Message
    <2>4. UNCHANGED toHost \/ toHost' = Append(toHost, m)
      BY <1>4 DEF OnDidCreateNewView
    <2>5. UNCHANGED <<d_find, finding, inputs>>
      BY <1>4 DEF OnDidCreateNewView, hostVars
    <2> HIDE DEF m
    <2> QED
      BY <2>1, <2>3, <2>4, <2>5 DEF Indifferent
  <1>5. ASSUME NEW keep \in BOOLEAN, OnDestroyView(keep)
        PROVE  Indifferent
    <2> DEFINE m == Message("Destroy", c.view)
    <2>1. toClient # <<>> /\ toClient' = Tail(toClient)
      BY <1>5 DEF OnDestroyView, Receive
    <2>2. c.view \in Views
      BY <1>1, <2>1, ToClientFields
    <2>3. m \in ToHostMessages /\ m.type = "Destroy"
      BY <2>2, Constructors DEF Message
    <2>4. UNCHANGED toHost \/ toHost' = Append(toHost, m)
      BY <1>5 DEF OnDestroyView
    <2>5. UNCHANGED <<d_find, finding, inputs>>
      BY <1>5 DEF OnDestroyView, hostVars
    <2> HIDE DEF m
    <2> QED
      BY <2>1, <2>3, <2>4, <2>5 DEF Indifferent
  <1>6. CASE ClientDies
    BY <1>6 DEF ClientDies, Indifferent, hostVars
  <1> QED
    BY <1>2, <1>3, <1>4, <1>5, <1>6

\* The other handlers of the host, its end and the tasks it posted.
LEMMA HostIsIndifferent ==
  ASSUME TypeOK,
         \/ OnWebViewNew \/ OnLoadUrl \/ OnMove \/ OnWebViewDestroy
         \/ DeleteProcessHost \/ RunTask
  PROVE  Indifferent
  <1>1. CASE OnWebViewNew \/ OnLoadUrl \/ OnWebViewDestroy
    BY <1>1 DEF OnWebViewNew, OnLoadUrl, OnWebViewDestroy, Handle, Indifferent
  <1>2. CASE OnMove
    <2> DEFINE c == Head(toHost)
               m == MoveAck(c.view, c.rect)
    <2>1. toHost # <<>> /\ toHost' = Tail(toHost) /\ c.type = "Move"
      BY <1>2 DEF OnMove, Handle
    <2>2. c \in ToHostMessages
      BY <2>1, TailFacts DEF TypeOK
    <2>3. c.view \in Views /\ c.rect \in Rects
      BY <2>1, <2>2, ToHostFields
    <2>4. m \in ToClientMessages /\ m.type = "MoveAck"
      BY <2>3, Constructors DEF MoveAck
    <2>5. UNCHANGED toClient \/ toClient' = Append(toClient, m)
      BY <1>2 DEF OnMove, SendToClient
    <2>6. UNCHANGED <<d_find, finding, inputs>>
      BY <1>2 DEF OnMove
    <2> HIDE DEF m
    <2> QED
      BY <2>1, <2>4, <2>5, <2>6 DEF Indifferent
  <1>3. CASE DeleteProcessHost \/ RunTask
    BY <1>3 DEF DeleteProcessHost, RunTask, Indifferent
  <1> QED
    BY <1>1, <1>2, <1>3

\* The other events of a page.
LEMMA PageIsIndifferent ==
  ASSUME TypeOK, NEW u \in Views,
         \/ DidNavigateMainFramePostCommit(u) \/ CloseContents(u)
         \/ \E w \in HostViews : WebContentsCreated(u, w)
  PROVE  Indifferent
  <1>1. CASE DidNavigateMainFramePostCommit(u)
    BY <1>1 DEF DidNavigateMainFramePostCommit, Indifferent
  <1>2. CASE CloseContents(u)
    <2> DEFINE m == Message("DestroyView", u)
    <2>1. m \in ToClientMessages /\ m.type = "DestroyView"
      BY Constructors DEF Message
    <2>2. UNCHANGED toClient \/ toClient' = Append(toClient, m)
      BY <1>2 DEF CloseContents, SendToClient
    <2>3. UNCHANGED <<d_find, finding, toHost>> /\ Event
      BY <1>2 DEF CloseContents, hostVars
    <2> HIDE DEF m
    <2> QED
      BY <2>1, <2>2, <2>3 DEF Indifferent
  <1>3. ASSUME NEW w \in HostViews, WebContentsCreated(u, w)
        PROVE  Indifferent
    <2> DEFINE m == DidCreateNewView(u, w)
    <2>1. m \in ToClientMessages /\ m.type = "DidCreateNewView"
      BY Constructors DEF DidCreateNewView
    <2>2. UNCHANGED toClient \/ toClient' = Append(toClient, m)
      BY <1>3 DEF WebContentsCreated, SendToClient
    <2>3. UNCHANGED <<d_find, finding, toHost>> /\ Event
      BY <1>3 DEF WebContentsCreated
    <2> HIDE DEF m
    <2> QED
      BY <2>1, <2>2, <2>3 DEF Indifferent
  <1> QED
    BY <1>1, <1>2, <1>3

\* Every step keeps the searches of every view.
LEMMA FindStep ==
  ASSUME MaxCalls <= MaxReqId, TypeOK, \A v \in Views : FindInv(v), [Next]_vars
  PROVE  \A v \in Views : FindInv(v)'
  <1>1. ASSUME Indifferent, NEW v \in Views
        PROVE  FindInv(v)'
    <2>1. FindQuiet(v)
      BY <1>1, FindQuietSteps DEF Indifferent
    <2>2. UNCHANGED <<d_find[v], finding[v]>> /\ (UNCHANGED inputs \/ Call \/ Event)
      BY <1>1 DEF Indifferent
    <2> QED
      BY <2>1, <2>2, OthersKeepFind
  <1>2. ASSUME ClientStep, ~OnFindState
        PROVE  Indifferent
    BY <1>2, ClientIsIndifferent DEF ClientStep
  <1>3. ASSUME HostStep, ~OnFind
        PROVE  Indifferent
    BY <1>3, HostIsIndifferent DEF HostStep
  <1>4. ASSUME NEW u \in ClientViews, NEW d \in BOOLEAN, NEW b \in BOOLEAN,
               CreateWebView(u, d, b)
        PROVE  Indifferent
    <2>1. u \in Views
      BY DEF Views
    <2> QED
      BY <1>4, <2>1, CallsAreIndifferent
  <1>5. UNCHANGED vars => Indifferent
    BY DEF vars, hostVars, Indifferent
  <1>6. \/ Indifferent \/ OnFind \/ OnFindState
        \/ \E u \in Views : FindReply(u) \/ \E t \in Texts : Find(u, t)
    BY <1>2, <1>3, <1>4, <1>5, CallsAreIndifferent, ClientIsIndifferent,
       HostIsIndifferent, PageIsIndifferent DEF Next
  <1> QED
    BY <1>1, <1>6, SearchKeepsFind, OnFindKeepsFind, ReplyKeepsFind,
       OnFindStateKeepsFind

\* As long as the ids of an application's searches do not start over, which
\* takes more calls than there are ids, FindOnPage::applyUpdate never shows the
\* counts of a text that is not the one searched for now, however late and in
\* whatever order the replies arrive.
THEOREM CountsAreOfThisText ==
  ASSUME MaxCalls <= MaxReqId
  PROVE  Spec => []FindCountsAreOfThisText
  <1> DEFINE Inv == TypeOK /\ \A v \in Views : FindInv(v)
  <1>1. Init => Inv
    <2>1. Init => TypeOK
      BY InitType
    <2>2. ASSUME Init, NEW v \in Views
          PROVE  FindInv(v)
      BY <2>2, NothingCarried DEF Init, NewFind, FindInv
    <2> QED
      BY <2>1, <2>2
  <1>2. Inv /\ [Next]_vars => Inv'
    BY TypeStep, FindStep
  <1>3. Inv => FindCountsAreOfThisText
    BY DEF FindInv, FindCountsAreOfThisText
  <1> HIDE DEF Inv
  <1> QED
    BY <1>1, <1>2, <1>3, PTL DEF Spec
=============================================================================
