-------------------------- MODULE ToolkitLifecycle --------------------------
(***************************************************************************)
(* Startup and shutdown of the toolkit: ToolkitImpl on the application's   *)
(* main thread, BrowserThread with its posted tasks, the in-process        *)
(* renderer, the process hosts of this process (Local) and of the          *)
(* processes that have connected to it (Remotes), and the browser contexts *)
(* that the profiles of all of them share.                                 *)
(*                                                                         *)
(* In RENDERER_MAIN mode the application is a client of its own in-process *)
(* host, and browser-main is a thread of its own.  In ORIGINAL mode        *)
(* browser-main is the application's main thread: profiles are browser     *)
(* contexts, views are WebViewImpls, and only the in-process renderer has  *)
(* another thread.  A remote client is a process that was given a host     *)
(* channel; it runs the same ToolkitImpl without a browser of its own.     *)
(*                                                                         *)
(* A client has one profile at a time and destroys its views before its    *)
(* profile, its profile before the toolkit (asserted by ProfileProxy and   *)
(* ToolkitImpl).  How ProcessHostManager finds out that a process has      *)
(* ended is the subject of the module of that name; here a host is "held"  *)
(* between its removal from the vector and the post of its deletion.       *)
(***************************************************************************)
EXTENDS Integers, Sequences, FiniteSets, SequencesExt

CONSTANTS Remotes,      \* processes that connect to this one
          Local,        \* this process as a client of itself
          Contexts,     \* browser contexts: data directories, incognito ones
          NoContext,
          MaxViews,     \* bound on the views of a client
          MaxPending    \* bound on messages waiting when another call is made

Hosts == Remotes \union {Local}

ASSUME HostAssumption == Local \notin Remotes /\ IsFiniteSet(Remotes)
ASSUME ContextAssumption == NoContext \notin Contexts
ASSUME BoundAssumption == MaxViews \in Nat /\ MaxPending \in Nat

VARIABLES
  mode,                  \* Statics::threadMode
  app,                   \* where the application is in ToolkitImpl
  signalled,             \* the event that BrowserThread::sync waits for
  \* clients: ProcessClientImpl, ProfileProxy and its d_numWebViews
  client, profile, proxies,
  pipe, replied,         \* messages to the host; the reply to the final Sync
  \* ProcessHostImpl, its ProfileHost and WebViewHosts, its render process host
  host, d_receivedFinalSync, profileHost, viewHosts, renderHost,
  errorHandled,          \* history: channelErrorHandler was called for a host
  \* the browser-main thread
  browser, tasks, manager,
  \* BrowserContextImpl
  context, d_numWebViews,
  \* InProcessRendererThread and Statics::rendererMessageLoop
  rendererThread, rendererLoop

clientVars == <<client, profile, proxies, replied>>
hostVars == <<host, d_receivedFinalSync, profileHost, viewHosts, renderHost,
              errorHandled>>
contextVars == <<context, d_numWebViews>>
rendererVars == <<rendererThread, rendererLoop>>
vars == <<mode, app, signalled, clientVars, pipe, hostVars, browser, tasks,
          manager, contextVars, rendererVars>>

Init ==
  /\ mode \in {"RENDERER_MAIN", "ORIGINAL"}
  /\ app = "new"
  /\ signalled = FALSE
  /\ client = [h \in Hosts |-> "none"]
  /\ profile = [h \in Hosts |-> NoContext]
  /\ proxies = [h \in Hosts |-> 0]
  /\ pipe = [h \in Hosts |-> <<>>]
  /\ replied = [h \in Hosts |-> FALSE]
  /\ host = [h \in Hosts |-> "none"]
  /\ d_receivedFinalSync = [h \in Hosts |-> FALSE]
  /\ profileHost = [h \in Hosts |-> NoContext]
  /\ viewHosts = [h \in Hosts |-> 0]
  /\ renderHost = [h \in Hosts |-> "none"]
  /\ errorHandled = [h \in Hosts |-> FALSE]
  /\ browser = "none"
  /\ tasks = <<>>
  /\ manager = "none"
  /\ context = [c \in Contexts |-> "none"]
  /\ d_numWebViews = [c \in Contexts |-> 0]
  /\ rendererThread = "none"
  /\ rendererLoop = FALSE

-----------------------------------------------------------------------------
(* Browser contexts and views, on browser-main.                            *)

\* BrowserContextImplManager::obtainBrowserContextImpl for a new profile.
ObtainContext(h, c) ==
  /\ profileHost' = [profileHost EXCEPT ![h] = c]
  /\ context' = [context EXCEPT ![c] = IF @ = "none" THEN "live" ELSE @]

\* Mutant: the WebViewImpl and its host both count the view.
AddViewTwice(h) ==
  /\ viewHosts' = [viewHosts EXCEPT ![h] = @ + 1]
  /\ d_numWebViews' = [d_numWebViews EXCEPT ![profileHost[h]] = @ + 2]

AddView(h) ==
  /\ viewHosts' = [viewHosts EXCEPT ![h] = @ + 1]
  /\ d_numWebViews' = [d_numWebViews EXCEPT ![profileHost[h]] = @ + 1]

RemoveView(h) ==
  /\ viewHosts' = [viewHosts EXCEPT ![h] = @ - 1]
  /\ d_numWebViews' = [d_numWebViews EXCEPT ![profileHost[h]] = @ - 1]

Task(kind, h) == <<kind, h>>
Plain(kind) == Task(kind, Local)

\* The views of the hosts in S that are counted on context c.
ViewsOn(c, S) ==
  {v \in S \X (1 .. MaxViews) :
     profileHost[v[1]] = c /\ v[2] <= viewHosts[v[1]]}

\* ~ProcessHostImpl for every host of S, with rest the tasks still to run: the
\* views are destroyed, the render process hosts posted for deletion.
DeleteHosts(S, rest) ==
  /\ host' = [h \in Hosts |-> IF h \in S THEN "deleted" ELSE host[h]]
  /\ viewHosts' = [h \in Hosts |-> IF h \in S THEN 0 ELSE viewHosts[h]]
  /\ d_numWebViews' = [c \in Contexts |->
                         d_numWebViews[c] - Cardinality(ViewsOn(c, S))]
  /\ tasks' = rest \o SetToSeq({Task("deleteRenderHost", h) :
                                h \in {g \in S : renderHost[g] = "live"}})
  /\ UNCHANGED <<d_receivedFinalSync, profileHost, renderHost, errorHandled>>

\* What destroyBrowserContexts and ~BrowserContextImplManager do to all contexts.
\* One that was made in between is deleted too, but stays marked as live: it has
\* never been destroyed.
MoveContexts(from, to) ==
  context' = [c \in Contexts |-> IF context[c] = from THEN to ELSE context[c]]

-----------------------------------------------------------------------------
(* Clients: createProfile, createWebView and what undoes them.             *)

Send(h, m) == pipe' = [pipe EXCEPT ![h] = Append(@, m)]

Calls(h) ==
  /\ client[h] = "running"
  /\ Len(pipe[h]) < MaxPending

CreateProfile(h, c) ==
  /\ Calls(h)
  /\ profile[h] = NoContext
  /\ profile' = [profile EXCEPT ![h] = c]
  /\ Send(h, <<"ProfileNew", c>>)
  /\ UNCHANGED <<mode, app, signalled, client, proxies, replied, hostVars,
                 browser, tasks, manager, contextVars, rendererVars>>

DestroyProfile(h) ==
  /\ Calls(h)
  /\ profile[h] # NoContext /\ proxies[h] = 0
  /\ profile' = [profile EXCEPT ![h] = NoContext]
  /\ Send(h, <<"ProfileDestroy">>)
  /\ UNCHANGED <<mode, app, signalled, client, proxies, replied, hostVars,
                 browser, tasks, manager, contextVars, rendererVars>>

CreateWebView(h, inProcess) ==
  /\ Calls(h)
  /\ profile[h] # NoContext /\ proxies[h] < MaxViews
  /\ proxies' = [proxies EXCEPT ![h] = @ + 1]
  /\ Send(h, <<"WebViewNew", inProcess>>)
  /\ UNCHANGED <<mode, app, signalled, client, profile, replied, hostVars,
                 browser, tasks, manager, contextVars, rendererVars>>

DestroyWebView(h) ==
  /\ Calls(h)
  /\ proxies[h] > 0
  /\ proxies' = [proxies EXCEPT ![h] = @ - 1]
  /\ Send(h, <<"WebViewDestroy">>)
  /\ UNCHANGED <<mode, app, signalled, client, profile, replied, hostVars,
                 browser, tasks, manager, contextVars, rendererVars>>

\* shutdownThreads: a profile that is left (the default one) is destroyed, and
\* the final Sync is sent, which waits for its reply.
SendFinalSync(h) ==
  /\ client[h] = "running"
  /\ proxies[h] = 0
  /\ client' = [client EXCEPT ![h] = "finalSync"]
  /\ profile' = [profile EXCEPT ![h] = NoContext]
  /\ pipe' = [pipe EXCEPT ![h] = @
        \o (IF profile[h] # NoContext THEN <<<<"ProfileDestroy">>>> ELSE <<>>)
        \o <<<<"Sync">>>>]
  /\ UNCHANGED <<mode, signalled, proxies, replied, hostVars, browser,
                 manager, contextVars, rendererVars>>

\* d_processClient.reset(): the host sees the channel close.
CloseChannel(h) ==
  /\ client[h] = "finalSync"
  /\ replied[h]
  /\ client' = [client EXCEPT ![h] = "closed"]
  /\ Send(h, <<"Close">>)
  /\ UNCHANGED <<mode, profile, proxies, replied, hostVars, browser, manager,
                 contextVars, rendererVars>>

-----------------------------------------------------------------------------
(* Other processes.                                                        *)

\* createHostChannel, and the other process connects to it.
RemoteConnects(h) ==
  /\ client[h] = "none"
  /\ app = "running"
  /\ client' = [client EXCEPT ![h] = "running"]
  /\ host' = [host EXCEPT ![h] = "live"]
  /\ UNCHANGED <<mode, app, signalled, profile, proxies, replied, pipe,
                 d_receivedFinalSync, profileHost, viewHosts, renderHost,
                 errorHandled, browser, tasks, manager, contextVars,
                 rendererVars>>

RemoteShutsDown(h) == SendFinalSync(h) /\ UNCHANGED <<app, tasks>>
RemoteCloses(h) == CloseChannel(h) /\ UNCHANGED <<app, signalled, tasks>>

\* The process ends in the middle; what it had already sent is still read.
RemoteDies(h) ==
  /\ client[h] \in {"running", "finalSync"}
  /\ client' = [client EXCEPT ![h] = "died"]
  /\ Send(h, <<"Close">>)
  /\ UNCHANGED <<mode, app, signalled, profile, proxies, replied, hostVars,
                 browser, tasks, manager, contextVars, rendererVars>>

\* ProcessHostManager's thread notices the end of the process...
WatchErases(h) ==
  /\ client[h] \in {"closed", "died"}
  /\ host[h] = "live"
  /\ manager = "live"
  /\ host' = [host EXCEPT ![h] = "held"]
  /\ UNCHANGED <<mode, app, signalled, clientVars, pipe, d_receivedFinalSync,
                 profileHost, viewHosts, renderHost, errorHandled, browser,
                 tasks, manager, contextVars, rendererVars>>

\* ... and posts the deletion of its host.
WatchPosts(h) ==
  /\ host[h] = "held"
  /\ host' = [host EXCEPT ![h] = "posted"]
  /\ tasks' = Append(tasks, Task("deleteHost", h))
  /\ UNCHANGED <<mode, app, signalled, clientVars, pipe, d_receivedFinalSync,
                 profileHost, viewHosts, renderHost, errorHandled, browser,
                 manager, contextVars, rendererVars>>

-----------------------------------------------------------------------------
(* ProcessHostImpl: messages, on browser-main.                             *)

BrowserRuns ==
  /\ browser \in {"running", "quitting"}
  /\ mode = "ORIGINAL" => app \in {"running", "draining"}

Handle(h, type) ==
  /\ BrowserRuns
  /\ host[h] \in {"live", "held", "posted"}
  /\ pipe[h] # <<>>
  /\ Head(pipe[h])[1] = type
  /\ pipe' = [pipe EXCEPT ![h] = Tail(@)]
  /\ UNCHANGED <<mode, app, signalled, client, profile, proxies, host, browser,
                 tasks, manager, rendererVars>>

OnProfileNew(h) ==
  /\ Handle(h, "ProfileNew")
  /\ ObtainContext(h, Head(pipe[h])[2])
  /\ UNCHANGED <<replied, d_receivedFinalSync, viewHosts, renderHost,
                 errorHandled, d_numWebViews>>

\* BrowserContextImpl::destroy does nothing.
OnProfileDestroy(h) ==
  /\ Handle(h, "ProfileDestroy")
  /\ profileHost' = [profileHost EXCEPT ![h] = NoContext]
  /\ UNCHANGED <<replied, d_receivedFinalSync, viewHosts, renderHost,
                 errorHandled, contextVars>>

OnWebViewNew(h) ==
  /\ Handle(h, "WebViewNew")
  /\ AddView(h)
  /\ renderHost' = [renderHost EXCEPT ![h] =
       IF Head(pipe[h])[2] THEN "live" ELSE @]
  /\ UNCHANGED <<replied, d_receivedFinalSync, profileHost, errorHandled,
                 context>>

OnWebViewDestroy(h) ==
  /\ Handle(h, "WebViewDestroy")
  /\ RemoveView(h)
  /\ UNCHANGED <<replied, d_receivedFinalSync, profileHost, renderHost,
                 errorHandled, context>>

\* Mutant: the final Sync is treated like any other.
OnPlainSync(h) ==
  /\ Handle(h, "Sync")
  /\ replied' = [replied EXCEPT ![h] = TRUE]
  /\ UNCHANGED <<d_receivedFinalSync, profileHost, viewHosts, renderHost,
                 errorHandled, contextVars>>

OnSync(h) ==
  /\ Handle(h, "Sync")
  /\ replied' = [replied EXCEPT ![h] = TRUE]
  /\ d_receivedFinalSync' = [d_receivedFinalSync EXCEPT ![h] = TRUE]
  /\ UNCHANGED <<profileHost, viewHosts, renderHost, errorHandled, contextVars>>

OnChannelError(h) ==
  /\ Handle(h, "Close")
  /\ errorHandled' = [errorHandled EXCEPT ![h] = ~d_receivedFinalSync[h]]
  /\ UNCHANGED <<replied, d_receivedFinalSync, profileHost, viewHosts,
                 renderHost, contextVars>>

-----------------------------------------------------------------------------
(* Tasks of browser-main.                                                  *)

Runs(kind) ==
  /\ BrowserRuns
  /\ tasks # <<>>
  /\ Head(tasks)[1] = kind
  /\ UNCHANGED <<mode, app, clientVars, pipe, rendererVars>>

CreateInProcessHost ==
  /\ Runs("createHost")
  /\ host' = [host EXCEPT ![Local] = "live"]
  /\ tasks' = Tail(tasks)
  /\ UNCHANGED <<signalled, d_receivedFinalSync, profileHost, viewHosts,
                 renderHost, errorHandled, browser, manager, contextVars>>

Signal ==
  /\ Runs("signal")
  /\ signalled' = TRUE
  /\ tasks' = Tail(tasks)
  /\ UNCHANGED <<hostVars, browser, manager, contextVars>>

\* destroyInProcessHost, and the deletion that ProcessHostManager has posted.
DestroyHost ==
  /\ Runs("destroyHost") \/ Runs("deleteHost")
  /\ DeleteHosts({Head(tasks)[2]}, Tail(tasks))
  /\ UNCHANGED <<signalled, browser, manager, context>>

\* ~ProcessHostManager joins its thread, then deletes the hosts it has left.
ManagedHosts == {h \in Remotes : host[h] = "live"}
WatchHasPosted == \A h \in Remotes : host[h] # "held"

\* Mutant: the watch thread is not joined.
DestroyManagerWithoutJoin ==
  /\ Runs("destroyManager")
  /\ manager' = "gone"
  /\ DeleteHosts(ManagedHosts, Tail(tasks))
  /\ UNCHANGED <<signalled, browser, context>>

DestroyProcessHostManager ==
  /\ Runs("destroyManager")
  /\ WatchHasPosted
  /\ manager' = "gone"
  /\ DeleteHosts(ManagedHosts, Tail(tasks))
  /\ UNCHANGED <<signalled, browser, context>>

DestroyBrowserContexts ==
  /\ Runs("destroyContexts")
  /\ MoveContexts("live", "destroyed")
  /\ tasks' = Tail(tasks)
  /\ UNCHANGED <<signalled, hostVars, browser, manager, d_numWebViews>>

DeleteRenderHost ==
  /\ Runs("deleteRenderHost")
  /\ renderHost' = [renderHost EXCEPT ![Head(tasks)[2]] = "deleted"]
  /\ tasks' = Tail(tasks)
  /\ UNCHANGED <<signalled, host, d_receivedFinalSync, profileHost, viewHosts,
                 errorHandled, browser, manager, contextVars>>

QuitWhenIdle ==
  /\ Runs("quit")
  /\ browser' = "quitting"
  /\ tasks' = Tail(tasks)
  /\ UNCHANGED <<signalled, hostVars, manager, contextVars>>

\* Mutant: the loop ends at once.
BrowserMainQuits ==
  /\ browser = "quitting"
  /\ browser' = "ended"
  /\ MoveContexts("destroyed", "deleted")
  /\ UNCHANGED <<mode, app, signalled, clientVars, pipe, hostVars, tasks,
                 manager, d_numWebViews, rendererVars>>

\* The loop is idle: run() returns, and ~BrowserMainRunner deletes the contexts.
BrowserMainEnds ==
  /\ browser = "quitting"
  /\ tasks = <<>>
  /\ browser' = "ended"
  /\ MoveContexts("destroyed", "deleted")
  /\ UNCHANGED <<mode, app, signalled, clientVars, pipe, hostVars, tasks,
                 manager, d_numWebViews, rendererVars>>

-----------------------------------------------------------------------------
(* The application's main thread, RENDERER_MAIN.                           *)

\* startupThreads starts BrowserThread and waits for its message loop.
StartBrowserThread ==
  /\ mode = "RENDERER_MAIN"
  /\ app = "new"
  /\ app' = "starting"
  /\ browser' = "starting"
  /\ UNCHANGED <<mode, signalled, clientVars, pipe, hostVars, tasks, manager,
                 contextVars, rendererVars>>

BrowserThreadMain ==
  /\ browser = "starting"
  /\ browser' = "running"
  /\ manager' = "live"
  /\ UNCHANGED <<mode, app, signalled, clientVars, pipe, hostVars, tasks,
                 contextVars, rendererVars>>

InitRendererAndHost ==
  /\ app = "starting"
  /\ browser = "running"
  /\ app' = "startingHost"
  /\ rendererLoop' = TRUE
  /\ tasks' = tasks \o <<Plain("createHost"), Plain("signal")>>
  /\ signalled' = FALSE
  /\ UNCHANGED <<mode, clientVars, pipe, hostVars, browser, manager,
                 contextVars, rendererThread>>

CreateProcessClient ==
  /\ app = "startingHost"
  /\ signalled
  /\ app' = "running"
  /\ client' = [client EXCEPT ![Local] = "running"]
  /\ UNCHANGED <<mode, signalled, profile, proxies, replied, pipe, hostVars,
                 browser, tasks, manager, contextVars, rendererVars>>

ShutdownThreads ==
  /\ app = "running"
  /\ SendFinalSync(Local)
  /\ app' = "finalSync"
  /\ UNCHANGED tasks

PostDestructions ==
  /\ app = "finalSync"
  /\ CloseChannel(Local)
  /\ app' = "destroying"
  /\ tasks' = tasks \o <<Plain("destroyHost"), Plain("destroyManager"),
                         Plain("destroyContexts"), Plain("signal")>>
  /\ signalled' = FALSE

\* InProcessRenderer::cleanup, and ~BrowserThread up to its Join.
CleanupAndQuit ==
  /\ app = "destroying"
  /\ signalled
  /\ app' = "joining"
  /\ rendererLoop' = FALSE
  /\ tasks' = Append(tasks, Plain("quit"))
  /\ UNCHANGED <<mode, signalled, clientVars, pipe, hostVars, browser, manager,
                 contextVars, rendererThread>>

JoinBrowserThread ==
  /\ app = "joining"
  /\ browser = "ended"
  /\ app' = "stopped"
  /\ UNCHANGED <<mode, signalled, clientVars, pipe, hostVars, browser, tasks,
                 manager, contextVars, rendererVars>>

-----------------------------------------------------------------------------
(* The application's main thread, ORIGINAL; it is browser-main as well.    *)

StartOriginal ==
  /\ mode = "ORIGINAL"
  /\ app = "new"
  /\ app' = "running"
  /\ browser' = "running"
  /\ manager' = "live"
  /\ rendererThread' = "starting"
  /\ UNCHANGED <<mode, signalled, clientVars, pipe, hostVars, tasks,
                 contextVars, rendererLoop>>

\* Init and CleanUp of InProcessRendererThread, on that thread.
RendererThreadInit ==
  /\ rendererThread = "starting"
  /\ rendererThread' = "running"
  /\ rendererLoop' = TRUE
  /\ UNCHANGED <<mode, app, signalled, clientVars, pipe, hostVars, browser,
                 tasks, manager, contextVars>>

RendererThreadCleanUp ==
  /\ app = "originalCleanup"
  /\ rendererThread = "running"
  /\ rendererThread' = "ended"
  /\ rendererLoop' = FALSE
  /\ UNCHANGED <<mode, app, signalled, clientVars, pipe, hostVars, browser,
                 tasks, manager, contextVars>>

OriginalCall ==
  /\ mode = "ORIGINAL"
  /\ app = "running"
  /\ UNCHANGED <<mode, app, signalled, clientVars, pipe, host,
                 d_receivedFinalSync, errorHandled, browser, tasks, manager,
                 rendererVars>>

OriginalCreateProfile(c) ==
  /\ OriginalCall
  /\ profileHost[Local] = NoContext
  /\ ObtainContext(Local, c)
  /\ UNCHANGED <<viewHosts, renderHost, d_numWebViews>>

\* BrowserContextImpl::destroy: the context stays, the application may not use it.
OriginalDestroyProfile ==
  /\ OriginalCall
  /\ profileHost[Local] # NoContext /\ viewHosts[Local] = 0
  /\ profileHost' = [profileHost EXCEPT ![Local] = NoContext]
  /\ UNCHANGED <<viewHosts, renderHost, contextVars>>

\* The first in-process view gives the renderer its channel, through a message
\* loop that the renderer's thread may not have set yet: that ends the process.
NeedsRendererLoop(inProcess) == inProcess /\ renderHost[Local] # "live"

setChannelNameTooEarly ==
  /\ mode = "ORIGINAL"
  /\ app = "running"
  /\ profileHost[Local] # NoContext
  /\ NeedsRendererLoop(TRUE) /\ ~rendererLoop
  /\ app' = "crashed"
  /\ browser' = "ended"
  /\ UNCHANGED <<mode, signalled, clientVars, pipe, hostVars, tasks, manager,
                 contextVars, rendererVars>>

OriginalCreateWebView(inProcess) ==
  /\ OriginalCall
  /\ profileHost[Local] # NoContext /\ viewHosts[Local] < MaxViews
  /\ NeedsRendererLoop(inProcess) => rendererLoop
  /\ AddView(Local)
  /\ renderHost' = [renderHost EXCEPT ![Local] = IF inProcess THEN "live" ELSE @]
  /\ UNCHANGED <<profileHost, context>>

OriginalDestroyWebView ==
  /\ OriginalCall
  /\ viewHosts[Local] > 0
  /\ RemoveView(Local)
  /\ UNCHANGED <<profileHost, renderHost, context>>

\* shutdownThreads: the manager, the contexts, then MainMessagePump::cleanup,
\* which runs the tasks that are left.
OriginalShutdown ==
  /\ mode = "ORIGINAL"
  /\ app = "running"
  /\ viewHosts[Local] = 0
  /\ WatchHasPosted
  /\ app' = "draining"
  /\ manager' = "gone"
  /\ DeleteHosts(ManagedHosts, tasks)
  /\ MoveContexts("live", "destroyed")
  /\ UNCHANGED <<mode, signalled, clientVars, pipe, browser, rendererVars>>

OriginalDrained ==
  /\ app = "draining"
  /\ tasks = <<>>
  /\ app' = "originalCleanup"
  /\ UNCHANGED <<mode, signalled, clientVars, pipe, hostVars, browser, tasks,
                 manager, contextVars, rendererVars>>

\* The renderer thread is joined, then the render process host and the
\* BrowserMainRunner go.
OriginalStop ==
  /\ app = "originalCleanup"
  /\ rendererThread = "ended"
  /\ app' = "stopped"
  /\ browser' = "ended"
  /\ renderHost' = [renderHost EXCEPT ![Local] =
       IF @ = "live" THEN "deleted" ELSE @]
  /\ MoveContexts("destroyed", "deleted")
  /\ UNCHANGED <<mode, signalled, clientVars, pipe, host, d_receivedFinalSync,
                 profileHost, viewHosts, errorHandled, tasks, manager,
                 d_numWebViews, rendererVars>>

-----------------------------------------------------------------------------

\* The messages of one channel.
MessageStep(h) ==
  \/ OnProfileNew(h) \/ OnProfileDestroy(h) \/ OnWebViewNew(h)
  \/ OnWebViewDestroy(h) \/ OnSync(h) \/ OnChannelError(h)

TaskStep ==
  \/ CreateInProcessHost \/ Signal \/ DestroyHost \/ DestroyProcessHostManager
  \/ DestroyBrowserContexts \/ DeleteRenderHost \/ QuitWhenIdle

\* The steps that the application takes once it has begun to shut down.
AppStep ==
  \/ PostDestructions \/ CleanupAndQuit \/ JoinBrowserThread
  \/ OriginalDrained \/ OriginalStop

\* Around browser-main's loop, and on the renderer's thread.
LoopStep == BrowserThreadMain \/ BrowserMainEnds
RendererStep == RendererThreadInit \/ RendererThreadCleanUp

Next ==
  \/ StartBrowserThread \/ InitRendererAndHost \/ CreateProcessClient
  \/ ShutdownThreads
  \/ StartOriginal \/ OriginalShutdown \/ OriginalDestroyWebView
  \/ OriginalDestroyProfile \/ setChannelNameTooEarly
  \/ \E c \in Contexts : OriginalCreateProfile(c)
  \/ \E inProcess \in BOOLEAN : OriginalCreateWebView(inProcess)
  \/ \E h \in Hosts :
       \/ \E c \in Contexts : CreateProfile(h, c)
       \/ \E inProcess \in BOOLEAN : CreateWebView(h, inProcess)
       \/ DestroyProfile(h) \/ DestroyWebView(h)
  \/ \E h \in Remotes :
       \/ RemoteConnects(h) \/ RemoteShutsDown(h) \/ RemoteCloses(h)
       \/ RemoteDies(h) \/ WatchErases(h) \/ WatchPosts(h)
  \/ \E h \in Hosts : MessageStep(h)
  \/ TaskStep \/ AppStep \/ LoopStep \/ RendererStep

Spec == Init /\ [][Next]_vars

\* Every thread of this process is scheduled, and browser-main, which serves
\* its tasks and the messages of its channels in the order of their arrival,
\* gets to each of them.  Nothing is assumed of the application's calls or of
\* other processes.
FairSpec ==
  /\ Spec
  /\ WF_vars(TaskStep) /\ WF_vars(AppStep) /\ WF_vars(LoopStep)
  /\ WF_vars(RendererStep)
  /\ \A h \in Hosts : WF_vars(MessageStep(h))
  /\ \A h \in Remotes : WF_vars(WatchPosts(h))

-----------------------------------------------------------------------------
(* Properties.                                                             *)

Messages ==
  {<<"ProfileNew", c>> : c \in Contexts}
  \union {<<"WebViewNew", b>> : b \in BOOLEAN}
  \union {<<"ProfileDestroy">>, <<"WebViewDestroy">>, <<"Sync">>, <<"Close">>}

TaskKinds ==
  {"createHost", "signal", "destroyHost", "deleteHost", "destroyManager",
   "destroyContexts", "deleteRenderHost", "quit"}

\* The type invariant; in particular no context counts more views than the
\* clients may have, nor fewer than none.
TypeOK ==
  /\ mode \in {"RENDERER_MAIN", "ORIGINAL"}
  /\ app \in {"new", "starting", "startingHost", "running", "finalSync",
              "destroying", "joining", "draining", "originalCleanup",
              "stopped", "crashed"}
  /\ signalled \in BOOLEAN
  /\ client \in [Hosts -> {"none", "running", "finalSync", "closed", "died"}]
  /\ profile \in [Hosts -> Contexts \union {NoContext}]
  /\ proxies \in [Hosts -> 0 .. MaxViews]
  /\ pipe \in [Hosts -> Seq(Messages)]
  /\ replied \in [Hosts -> BOOLEAN]
  /\ host \in [Hosts -> {"none", "live", "held", "posted", "deleted"}]
  /\ d_receivedFinalSync \in [Hosts -> BOOLEAN]
  /\ profileHost \in [Hosts -> Contexts \union {NoContext}]
  /\ viewHosts \in [Hosts -> 0 .. MaxViews]
  /\ renderHost \in [Hosts -> {"none", "live", "deleted"}]
  /\ errorHandled \in [Hosts -> BOOLEAN]
  /\ browser \in {"none", "starting", "running", "quitting", "ended"}
  /\ tasks \in Seq(TaskKinds \X Hosts)
  /\ manager \in {"none", "live", "gone"}
  /\ context \in [Contexts -> {"none", "live", "destroyed", "deleted"}]
  /\ d_numWebViews \in [Contexts -> 0 .. MaxViews * Cardinality(Hosts)]
  /\ rendererThread \in {"none", "starting", "running", "ended"}
  /\ rendererLoop \in BOOLEAN

\* When ~BrowserMainRunner has deleted the contexts, whatever used them is gone:
\* no view is counted on one, and no process host is left that could call it.
\* Also a host whose process ended in the middle of the shutdown, and whose
\* deletion the watch thread has posted behind everything else, goes first.
NothingOutlivesItsContext ==
  browser = "ended" /\ app # "crashed" =>
    /\ \A c \in Contexts : d_numWebViews[c] = 0
    /\ \A h \in Hosts : host[h] \in {"none", "deleted"}

\* The DCHECKs of BrowserContextImpl: "DCHECK(0 == d_numWebViews)" in
\* reallyDestroy and "DCHECK(!d_isDestroyed)" in decrementWebViewCount
\* (browsercontextimpl.cc:157 and 138), by which no view is counted on a context
\* that has been destroyed; and "DCHECK(d_isDestroyed)" in its destructor (line
\* 118), by which none is made anew after destroyBrowserContexts.
ContextsAreIdle ==
  \A c \in Contexts :
    /\ context[c] \in {"destroyed", "deleted"} => d_numWebViews[c] = 0
    /\ app = "stopped" => context[c] # "live"

\* channelErrorHandler, which ends the process, is called only for a client
\* that died: an orderly shutdown always gets its final Sync in before the
\* channel closes.
ChannelErrorMeansDeath ==
  \A h \in Hosts : errorHandled[h] => client[h] = "died"

\* Everything that was posted for deletion has been deleted.
AllDeleted ==
  \A h \in Hosts : /\ host[h] \in {"none", "deleted"}
                   /\ renderHost[h] \in {"none", "deleted"}

\* shutdownThreads ends: no wait for a reply, an event or a thread is for ever,
\* and in neither mode is a process host or a render process host left when the
\* message loop that would delete it has gone.
ShutdownCompletes ==
  app \in {"finalSync", "draining"} ~> (app = "stopped" /\ AllDeleted)
=============================================================================
