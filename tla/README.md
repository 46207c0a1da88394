# A TLA+ verification project for chromium.bb

chromium.bb is Bloomberg's trimmed Chromium (48.0.2564) with an embedding
toolkit of its own, **blpwtk2**, under `src/src/blpwtk2`. Most of the tree is
upstream or vendored code. What is particular to this repository, and what this
project models, is how blpwtk2 lets an application host Chromium inside its own
process, its own Windows message loop and its own loaders: the main message
pump, the manager of other processes, the in-process resource loader, and the
view objects whose halves live on different threads or in different processes.
Upstream code (`base/message_loop`, `base/timer`, `content/child`,
`ui/views/win`) is modelled exactly as far as those parts call it.

## 1. Inventory

| Component (source) | State | Operations | Interacts with | Module |
|---|---|---|---|---|
| ProcessHostManager (`blpwtk2_processhostmanager.*`) | list of unconnected hosts with expire times, vector of connected hosts, one-shot timer, wakeup event, shutdown flag | addProcessHost, timerExpired, ThreadMain, posted deleteProcessHost, destructor | browser-main thread and watch thread share lists under `d_lock`; posts tasks to browser-main | `ProcessHostManager` |
| Main message pump (`blpwtk2_mainmessagepump.*`) | `d_hasAutoPumpTimer`, `d_moreWorkIsPlausible`, modal flags, `have_work_` of its base class | handleWorkMessage, handleTimerMessage, scheduleMoreWorkIfNecessary, ScheduleDelayedWork, postHandleMessage, cleanup, Windows hooks | application's message loop, any thread that posts tasks | `MainMessagePump` |
| Message loop (`base/message_loop`) | incoming queue and `message_loop_scheduled_`, work queue, delayed queue | PostPendingTask, ReloadWorkQueue, DoWork, DoDelayedWork, ScheduleWork, RescheduleTimer | lock, interlocked flag, Windows queue | `MainMessagePump` |
| In-process resource loading (`blpwtk2_inprocessresourceloaderbridge.cc`) | reference-counted context with started/waiting/canceled/failed/finished flags, pending request, posted tasks | StartAsync, Cancel, RemovePendingRequest, startLoad, cancelLoad, addResponseData, failed, finish | ResourceDispatcher and its peer; the application's ResourceLoader, re-entrantly | `InProcessResourceLoader` |
| Non-client hit test and drag (`blpwtk2_webview{impl,host,proxy}.cc`, `hwnd_message_handler.cc`) | pending hit test, drag flags on both sides, put-off end point | hit test request/answer, drag begin/move/end, acknowledgements | two in-order channels and the mouse cursor | `NonClientDrag` |
| View channel: WebViewHost/WebViewProxy/WebViewImpl | rectangles and the move acknowledgement, find requests, routing ids, readiness for deletion | createWebView, loadUrl, move, find, destroy, views opened or closed by pages, deferred deletion | routes of ProcessHostImpl/ProcessClientImpl, the page, the render process host | `ViewChannel`, implementing `LastRectangleWins` |
| ProcessHostImpl / ProcessClientImpl | channel, routes, process handle, final-sync flag | OnMessageReceived, OnChannelConnected, OnChannelError, addRoute/removeRoute, destructor | IPC channel, ProcessHostManager | `ViewChannel` (routes), `ToolkitLifecycle` (final Sync, errors), `ProcessHostManager` (connection) |
| Toolkit lifecycle (`blpwtk2_toolkitimpl.cc`, `browserthread`, `browsermainrunner`, `inprocessrenderer`) | thread mode, threads and their loops, posted tasks | startup, createHostChannel, createProfile, shutdown | every other component; blocking `sync()` and joins | `ToolkitLifecycle` |
| Profiles (`profileproxy/host`, `browsercontextimpl*`, `urlrequestcontextgetterimpl`) | counts of profiles and views per context, lazily built request context | create, destroy, incref/decref | browser-main; the request context also on the IO thread | `ToolkitLifecycle`, without the request context |
| Find on page (`blpwtk2_findonpage.cc`) | text, current request id, counts | makeRequest, applyUpdate | view channel | `ViewChannel` |
| Desktop streams registry | map of ids with expiry | register, look up | browser-main | not modelled |
| Embedder clients, JavaScript widgets, IPC traits, views glue | none or immutable | value conversions, forwarding | | not modelled |
| Upstream Chromium, V8, Blink, Skia | | | | not modelled |

What is hard in this code:

* *Threads without a common lock.* The watch thread waits with no lock on a
  vector built earlier; `have_work_` is a tri-state flag handled with
  interlocked operations by every posting thread.
* *Believed state.* The pump believes that a Windows timer or a modal loop
  exists; both copies of `d_ncDragNeedsAck` are set at different times.
* *Re-entrancy.* Peers cancel or drop requests from inside the callbacks the
  context makes; the application answers from inside `start`.
* *Hand-made lifetimes.* AddRef and Release over three paths of `finish`; hosts
  deleted by a timer, by a posted task or by a destructor.
* *Liveness by convention.* One-shot timers, put-off drag ends, dropped moves:
  each relies on a later step to make good what was left undone.

`PROJECT.json` lists these as hazards, each at its line, with the properties
that would catch it.

The correctness of each component, in one line:

* ProcessHostManager: every host has exactly one owner until it is deleted once
  and for cause; the watch thread erases the right host, misses no connection
  and always ends when the manager is destroyed.
* Main message pump: no queued task is without a wakeup, at most one work
  message is queued, tasks run once and in order, every task runs.
* In-process loader: the reference count equals the holders; the peer is called
  only while it exists, response first, completion once and last, with a code
  that tells the truth; every kept request completes, every context dies.
* Hit test and drag: one acknowledgement and one hit test outstanding; the
  delegate sees begin, moves, end; the end and the last position always arrive.
* Views: the last rectangle wins; a proxy never waits for an acknowledgement
  that is not coming; counts shown belong to the text searched for; every view
  with a host has somebody who will destroy it; what is deleted is deleted once
  and in order.
* Toolkit: shutdown terminates in both thread modes and leaves no process host;
  contexts are destroyed idle; an orderly exit is not taken for a failure.

## 2. The modules

Each module keeps the names of the source. A step ends where another thread or
foreign code can run; everything a handler does before that is one step.
Definitions marked *Mutant* are wrong variants of the definition that follows
them; they are used by no specification, only to show that a property can fail.

### ProcessHostManager

Browser-main runs `addProcessHost`, `OnChannelConnected`, the timer, posted
deletions and the destructor; the watch thread runs `ThreadMain`. Every critical
section is one step, except `timerExpired`: it holds `d_lock` over its loop and
signals from inside it, so it is one step per entry and `LockFree` is
`browserMain # "expiring"`. The destructor is three steps (flag, stop timer and
signal, join and delete), ThreadMain seven (build, the two outcomes of WaitMany,
reset, check, erase, post). `WaitMany` returns the lowest signalled index as
`waitable_event_win.cc` does. The two CHECKs that can end the process (more
handles than `MaximumWaitObjects`, failed `OpenProcess`) are recorded in
`checkFailed` and stop both threads. `now`, the peers and the handle of a
process are the environment. `deletes` counts deletions and is history.

### MainMessagePump

One module for the pump and the two base classes it is built from, because what
matters is their interplay: `have_work_`, `message_loop_scheduled_` and the
Windows queue. The main thread has a program counter `pc` that follows
`handleWorkMessage`/`handleTimerMessage` through `doWork`
(`DoWork`, `DoDelayedWork`), `AfterWork`, the two interlocked operations of
`scheduleMoreWorkIfNecessary`, `Rearm` and, in MANUAL mode outside modal loops,
`PostHandleMessage`. Threads that post are one process, since PostPendingTask
holds `incoming_queue_lock_`; its exchange and its PostMessage are separate
steps. `ScheduleWork` on the main thread is one step: the main thread is the
only one that takes messages out, so nobody can see the flag set and the
message missing except another poster, who then does nothing in either case.
`shouldStopDoingWork` is a hint that may answer TRUE at any time and must when
a message waits. Windows is external: one timer per window and id, WM_TIMER
only when no posted message waits, one pending application message. Modal loops
("dialog", noticed by WH_MSGFILTER and forgotten in postHandleMessage;
"sizemove", noticed at both ends by WH_CALLWNDPROC) begin in the handler of an
application message.

### InProcessResourceLoader

All on one thread. `tasks` are the posted closures, each holding a reference;
`running` is the closure on the stack, `call` the application's call into the
context that waits for a callback of the peer. While either is set, the peer may
still start, cancel or drop requests, which is how re-entrancy appears. Cancel
from the dispatcher is cancel plus RemovePendingRequest plus disposal, as in
`ResourceDispatcher::Cancel`. The contract of `blpwtk2_resourcecontext.h` (calls
between start and finish, `failed` followed by `finish`) is assumed of the
application; a cancelled load still has to finish. Bytes and headers are counted.

### NonClientDrag

The window, WebViewImpl and WebViewHost on browser-main, WebViewProxy and the
delegate in the application, two in-order channels. The cursor is read by both
sides at the time of handling, as `GetCursorPos` does. `HTBOTTOMRIGHT` is told
to Windows as `HTOBJECT` and translated back, as the code does. `ignored`
records that `ncDragBegin` has dropped a drag; `delegate.state = "stray"` that
the delegate got a begin, move or end out of turn.

### LastRectangleWins and ViewChannel

`LastRectangleWins` says what `WebView::move` promises: rectangles asked for are
queued, those before the last may be dropped, the rest is applied in order, and
the last one is forgotten only when the view is destroyed.

`ViewChannel` is the protocol behind that promise and the rest of the life of a
view. Its variables are those of WebViewProxy and FindOnPage (`d_lastMoveRect`,
`d_moveAckPending`, `d_find`), the two route tables (`proxy`, `route`), the
WebViewImpls, and the two directions of the channel. One action is one call of
the application, one message handled, one posted deletion or one event of a
page. The channel keeps its order. The application's process may die at any
time: a suffix of what it sent is lost, the rest is handled, then the
ProcessHostImpl is deleted. A message for a view without a route is dropped on
either side. Pages are the environment: a page runs scripts once it is
committed, and one opened by another page from the start (`Scripted`).

`MovesAreLastRectangleWins` is the refinement, per view: `wanted` is
`d_lastMoveRect`, `applied` the rectangle of the WebViewImpl, and the abstract
queue is the Move on its way, if any, followed by the rectangle held back, if
it differs from the one sent.

`ViewsAreOwned` carries an exception that the code has: a page opens a view while
its opener's proxy is being destroyed. The DidCreateNewView is dropped by
ProcessClientImpl, so no proxy exists and nobody destroys the WebViewHost before
its ProcessHostImpl goes (`Leaked`). The page of a view that leaked can open
others, whose announcements are dropped in the same way: the leak passes on.

A WebViewImpl destroyed before its first commit is not deleted until that commit,
and ~ProcessHostImpl does not wait for it (`early` records it). That the render
process host outlives every WebViewImpl is therefore the violated property
`RenderHostOutlivesImpls`; `DeletionIsOrdered` is what holds of all of them, and
the theorem ReadyImplsAlwaysGoFirst what holds of the others.

Routing ids come from two counters 0x10000 apart, and are assumed distinct; that
nothing enforces it is listed as a hazard. No routed message is synchronous.

### ToolkitLifecycle

Startup and shutdown in both thread modes. In RENDERER_MAIN mode the application
thread (`app`) starts BrowserThread, waits in `sync()`, becomes a client of its
own in-process host, and at shutdown sends the final Sync, closes its channel
and posts the three destructions (host, ProcessHostManager, contexts) in that
order before it quits and joins browser-main. In ORIGINAL mode the same thread
is both: shutdown destroys the manager and the contexts directly, and then
`MainMessagePump::cleanup` drains the task queue ("draining"), which is where
render process hosts posted with DeleteSoon go. `tasks` is browser-main's queue;
the loop quits when idle, after the tasks that were posted meanwhile. Other
processes (`Remotes`) connect, use profiles and views, leave in order or die.
What ProcessHostManager's thread does is reduced to "held" (erased from the
vector, deletion not yet posted) and "posted"; the manager's destructor joins
it, so it cannot run while a host is held. The full manager is the module of
that name. A remote whose host is deleted before it is answered is left waiting
for its reply; what the client side does about that is its own channel error
handler and is not modelled, since the properties are about this process.

In ORIGINAL mode the renderer's thread sets `Statics::rendererMessageLoop`
itself, and nothing waits for it: `init` asserts the loop right after starting
the thread, and `setChannelName` dereferences it for the first in-process view.
A view created before the thread has come so far ends the process
(`setChannelNameTooEarly`, "crashed"); nothing is claimed of such a run.

A deletion that the watch thread posts before or during the shutdown runs after
the destruction of the contexts, and until then the host handles what its process
has sent. The assertions of BrowserContextImpl make no exception for that:
`ContextsAreIdle` states them and is violated. What the code achieves is
`NothingOutlivesItsContext`: when the contexts are deleted, at the end of
browser-main, these hosts and their views are gone as well. The theorem
OnlyEndedProcessesEverLinger says that nothing else breaks the assertions.

## 3. Runs

All runs are exhaustive for their constants; states are distinct states.

| Run | Bounds | States | Shows |
|---|---|---|---|
| process_host_manager | 2 hosts, timeouts {1,2}, MaxTime 3, 64 wait objects | 69,001 | TypeOK, IndexDenotesExitedPeer, NoMissedConnection, JoinWillReturn, OwnedExactlyOnce, DeletedForCause, ExitedPeerIsCleanedUp, ShutdownCompletes |
| pump | MANUAL, MANUAL with work messages disabled (where PostMessage may fail), AUTOMATIC; 2 tasks (one quits), 1 delayed task, MaxTime 1 | 137,233 | TypeOK, HaveWorkDChecks, OneWorkMessage, RunInPostOrder, OnlyAutoPumpTimerIsMissing, DelayedWorkIsArmed, EveryTaskRuns |
| resource_loader | 2 requests, 2 chunks each | 104,916 | TypeOK, RefCountIsBalanced, CompletionIsFaithful, PeerIsCalledInOrder, LoaderIsCanceledWhileLoading, ContextIsDeleted, RequestCompletes |
| nonclient_drag | 2 points, 5 inputs (cursor movements, button presses and enableNCHitTest calls, in any mix) | 423,994 | TypeOK, AckPendingIsExact, OneHitTestOutstanding, DragsAreWellFormed, DragEndIsDelivered, RestingCursorIsReported, HitTestCatchesUp |
| view_channel | 1 view of the application and 1 that a page can open, 3 rectangles, 2 texts, INT_MAX = 2, 3 calls of loadUrl, move and find, 1 event | 348,911 | TypeOK, MoveAckIsExact, ViewsAreOwned, FindCountsAreOfThisText, DeletionIsOrdered, MovesAreLastRectangleWins, LastRectangleIsApplied |
| toolkit_lifecycle | both modes, this process and 1 other, 1 view each, 2 contexts, 2 messages pending | 208,969 | TypeOK, NothingOutlivesItsContext, ChannelErrorMeansDeath, ShutdownCompletes |
| process_host_timeout, pump_auto_timer, pump_no_work_message, nonclient_second_drag, view_render_host, toolkit_contexts | as their cfg files | | the disagreements of section 4 |

Why the bounds are enough. Two hosts with different timeouts make the timer be
restarted for an earlier entry, make an entry outlive the firing of the timer,
let the vector grow while the watch thread holds an index, and let the
destructor meet both lists non-empty; each host is used once, so a third only
repeats these. In the pump a wakeup is lost between one task and the next, so
two tasks show it; one delayed task shows a timer set, killed and set again;
MaxTime 1 has a time before and a time at a deadline. PostMessage may fail in one
mode only: it takes the wakeup with it, and the properties about wakeups are
stated for a queue that is never full (`Reliable`). The run pump_auto_timer has
three tasks, because in MANUAL mode two rounds have to leave one behind, and a
delayed one, which can be left behind without a timer too. A resource request interacts with another only
through the message loop and the stack, so two suffice; two chunks tell the
first, which sends the headers, from the next. A drag meets at most the end of
the drag before it, and five inputs in any mix give two drags with movements, or
hit testing switched on, off and on again under a drag. In the view channel three
calls are a move sent, one held back and a third that overrides it (or a return
to the first, since there are three rectangles and EmptyRect is one), or three
searches, which with INT_MAX = 2 make the request id start over; the channel is
unbounded, and calls to create and destroy views are not counted. Within one
event a page either opens a view or closes itself; a view that is opened and
then closed by its page is beyond the bound of the run, and is covered for the
moves by the proofs. With two texts an id that starts over belongs to the same
text again. With three texts and INT_MAX = 2 TLC finds a reply for the first
text taken for the third, because the code accepts a reply delayed by a full
cycle of ids; it takes INT_MAX searches while one reply is on its way, and is
the reason for the assumption of the theorem CountsAreOfThisText. In the toolkit, one other process shows every
order of its messages, its end, the watch thread and the posted destructions;
two contexts tell a shared one from a private one; two messages pending let a
call overtake nothing but leave work behind at shutdown.

`CHECK_DEADLOCK FALSE` is set everywhere: all these systems may stop for good,
with everything cleaned up or the user idle.

### Fairness

* ProcessHostManager: time passes; browser-main runs due timers, posted tasks
  and the rest of a destructor it has begun; Windows schedules the watch thread.
  Nothing about callers, peers, or when the manager is destroyed.
* MainMessagePump: the main thread finishes a handler, a posting thread finishes
  a post, time passes. Posted messages are taken from the Windows queue in
  order, hence strong fairness of handling a work message and an application
  message. Nothing about the user, who need not produce messages or end a modal
  loop, and nothing about WM_TIMER, which Windows delivers only when the queue
  is empty. EveryTaskRuns needs them and says so in its statement: while messages
  keep coming and modal loops end (`UserIsThere`) every task runs, a delayed one
  if Windows does not starve WM_TIMER for ever. Without the user tasks may be
  left behind, which is the disagreement pump_auto_timer.
* InProcessResourceLoader: the loop runs its tasks, calls return, and the
  application finishes each load (its contract; strong, since calls of the other
  request can interrupt). Nothing about the peer.
* NonClientDrag: both message loops run and the delegate answers a hit test.
  The user may stop moving or hold the button for ever.
* ViewChannel: the two message loops handle the messages of the channel. Nothing
  about calls, pages, the death of the client or posted deletions.
* ToolkitLifecycle: each thread of this process is scheduled (the tasks of
  browser-main, its loop, the shutdown the application has begun, the renderer
  thread, the watch thread that holds a host) and browser-main gets to the
  messages of each channel, because tasks and channel messages are served in
  order of arrival. Nothing about the application's calls or other processes.

## 4. Where code and documentation disagree

Each of these is a run that must end with a violation; the quotations are in
`PROJECT.json`.

1. *process_host_timeout.* `d_timer` is one-shot and `timerExpired` does not
   restart it for the entries it keeps, so a host with a later timeout is never
   destroyed unless another host is added.
2. *pump_auto_timer.* The auto-pump timer does not keep firing. It is asked for
   with the current time, which `RescheduleTimer` turns into `ScheduleWork`. In
   AUTOMATIC mode that does nothing while `have_work_` is 2: no timer, no message.
   In MANUAL mode it posts a work message, and `d_hasAutoPumpTimer` is set though
   there is no timer; when the next round also stops early, in a modal loop or
   because PeekMessage finds no message, the request for a timer is a no-op, and
   what is queued, or delayed, waits until the application calls postHandleMessage
   for a message that may not come. TLC prints the shortest trace, the one of AUTOMATIC
   mode; with `Config <- ManualConfig` in the cfg it prints the one of a modal
   loop. The trace outside any modal loop has 19 states.
3. *pump_no_work_message.* With work messages disabled while doing work, a task
   posted between the end of `doWork` and the reset of `have_work_` has no
   wakeup, and `message_loop_scheduled_` prevents a later one.
4. *nonclient_second_drag.* A drag ignored by `ncDragBegin` is not ignored by
   `ncDragMove` and `ncDragEnd`: the delegate gets moves or an end of a drag it
   never saw begin. `DragsAreWellFormed` states what holds otherwise.
5. *view_render_host.* ~ProcessHostImpl posts the deletion of the render process
   host "to ensure that the render process host outlives the WebViewImpl", but a
   WebViewImpl destroyed before its first commit is not in the queue before it.
6. *toolkit_contexts.* The DCHECKs of BrowserContextImpl fail for a process that
   died before or during the shutdown: its host is posted for deletion behind the
   destruction of the contexts, still has views, and still creates views and
   profiles from what the process had sent.

What holds of the pump in its most reliable configuration (MANUAL, work messages
enabled, room in the Windows queue) is OnlyAutoPumpTimerIsMissing: the auto-pump
timer is the only wakeup that can be missing.

## 5. Proofs

Eight modules hold proofs, all checked by TLAPS to the last step. PositionCounts
is the lemmas that the others share: the positions of a sequence that hold a
given element, and how many there are after an element is appended, taken from
the head or erased in the middle.

### ProcessHostManagerProofs

For any set of hosts, timeouts, clock bound and wait limit (assumptions
`HostAssumption`: NoHost is no host; `TimeAssumption`: times are naturals;
`WaitAssumption`: at least one handle):

| Theorem | Establishes |
|---|---|
| InductiveInvariant | `Spec => []IInv` |
| TypeCorrect | `[]TypeOK` |
| IndexStaysValid | `[]IndexDenotesExitedPeer` |
| NoConnectionMissed | `[]NoMissedConnection` |
| JoinReturns | `[]JoinWillReturn` |
| OnlyDeletedForCause | the action property DeletedForCause |
| AlwaysOwnedExactlyOnce | `[]OwnedExactlyOnce` |

None of the properties is inductive. The step from "WaitMany returned index i"
to "element i of the shared vector is that process" is sound only because the
watch thread alone removes from the vector: between building its copy and
erasing, the copy is a *prefix* of the shared vector. `IInv` is the conjunction
of TypeOK, VectorIsPrefix (that fact), LongerIsSignalled (a vector longer than
the copy comes with a signal), IndexIsExited, HeldIsExited and PostedIsExited
(the exited process followed from the index through the local variable to the
posted task), FlagBeforeSignal (the destructor's order, without which the reset
of the event could swallow the only wakeup), ExpireNowIsPast (the time read
before the loop is not later than now) and JoinWillReturn. The proof goes action
by action: lemma NextTypeOK for types, NextVector, NextExited and NextShutdown
for groups of conjuncts, QuietSteps for the steps that leave a group's variables
alone. DeletedForCause then needs only PostedIsExited and ExpireNowIsPast.

OwnedExactlyOnce counts: the owners of a host are its positions in two lists and
in the queue of tasks, the local variable of the watch thread and the deletions
so far. Each action hands a host on from one of these to another (`HandsOn`), and
the lemmas of PositionCounts say what that does to the cardinalities. The local
variable has to be part of the invariant (HeldToPost: it names a host only
between the erasing and the post), because otherwise the watch thread could
overwrite the last owner.

### ViewChannelProofs and LastRectangleWinsProofs

For any finite set of views, any rectangles, texts and bounds (`ViewAssumption`:
the two kinds of ids are disjoint and the render process host is not a view;
`RectAssumption`: EmptyRect is a rectangle; `TextAssumption`: NoText is not a
text; `BoundAssumption`: the bounds are naturals, MaxReqId positive):

| Theorem | Establishes |
|---|---|
| TypeCorrect | `[]TypeOK` |
| Inductive | `Spec => []IndInv` |
| MoveAckIsExactAlways | `[]MoveAckIsExact` |
| MovesRefine | `Spec => MovesAreLastRectangleWins`, the refinement |
| LivesInductive | `Spec => []LivesInv` |
| ViewsAreAlwaysOwned | `[]ViewsAreOwned` |
| DeletionIsAlwaysOrdered | `[]DeletionIsOrdered` |
| ReadyImplsAlwaysGoFirst | the render process host is deleted after every in-process WebViewImpl that was ready when it was destroyed |
| CountsAreOfThisText | `[]FindCountsAreOfThisText`, if MaxCalls <= MaxReqId: the ids do not start over |
| LastIsAlwaysKept (LastRectangleWinsProofs) | in the abstract specification, the rectangle asked for last is the last one left to apply |

MoveAckIsExact is not inductive: that an acknowledgement finds its proxy waiting
depends on there being at most one Move or MoveAck of the view anywhere, hence
on who may still send one, hence on the lives of proxy, host and WebViewImpl.
`IndInv` is TypeOK and, for every view, Lives (who is alive, and that nobody
writes to a dead client), Senders (no message of a view before its proxy, no
Destroy while it lives), Routed (a proxy has a WebViewHost, or its New is ahead
of everything else it sent), Announced (a view opened by a page is announced
once, before it has a proxy), OneInFlight and Settled (what is remembered, sent
and applied agree when nothing is on its way). They speak of what a channel
carries (`None`, `AtMostOne`, `NewIsFirst`), not of positions, so that sending,
receiving and losing messages are each understood in one lemma.

The lemmas of the individual actions prove, besides IndInv, which of seven things
the action does to the rectangles of a view (`MoveStep`: Keeps, Opens, Closes,
Loses, Asks, Resends, Applies). The refinement follows from that classification
without looking at the actions again. MovesRefine together with LastIsAlwaysKept
says that no interleaving of moves, acknowledgements, destruction, death of the
client and deletion of the host loses the last rectangle of a live view.

`LivesInv` adds to IndInv what a view's WebViewHost, WebViewImpl, posted deletion
and opener have to do with each other: LifeInv, DeletionInv and OpenerInv. The
last is about chains of views: announcements come in the order in which views
opened each other, and a view that never had a proxy and will not get one has an
opener that has none and will not get one either. The first attempt at it failed
because a view opened by a leaked view was not `Leaked` in the model's own words;
the definition now says what the code does.
CountsAreOfThisText follows from an invariant of its own (FindInv): every reply on
its way, and every request still to be answered, carries an id of at most that of
the last search, and one that carries that id is for the text of that search.

### MainMessagePumpProofs

For any tasks, clock bound and set of modes (`TaskAssumption`: delayed tasks are
apart from the others; `ConfigAssumption`: work messages are disabled in MANUAL
mode only; `PostMessageAssumption`: PostMessage may fail in some of the modes;
`TimeAssumption`: the clock bound is a natural), plus what the theorem itself
assumes:

| Theorem | Assumes | Establishes |
|---|---|---|
| TypeCorrect | | `[]TypeOK` |
| WakeIsInvariant | PostMessage does not fail in AUTOMATIC mode | `Spec => []Wake` |
| HaveWorkDChecksHold | the same | `[]HaveWorkDChecks` |
| OneWorkMessageAtMost | the same | `[]OneWorkMessage` |
| WakeupsAreInvariant | the same | Wake, and Wakeups and Covered in the reliable configuration, always |
| OnlyAutoPumpTimerIsEverMissing | the same | `[]OnlyAutoPumpTimerIsMissing` |
| DelayedWorkIsAlwaysArmed | the same | `[]DelayedWorkIsArmed` |
| RunsAlwaysInPostOrder | | `[]RunInPostOrder` |

The assumption is needed: in AUTOMATIC mode a PostMessage that fails clears
have_work_ under the main thread. OnlyAutoPumpTimerIsMissing and
DelayedWorkIsArmed are about the configuration `Reliable` (MANUAL mode with work
messages enabled and a queue that is not full), which is part of their statement:
the other ones are those of the findings pump_auto_timer and
pump_no_work_message.

That one work message at most is queued, and that a queued one finds have_work_
set, depend on each other: nobody posts while the flag is set, and nobody clears
it while a message is there or about to be posted. In AUTOMATIC mode the main
thread turns 1 into 2 and 2 into 0 with no lock, which looks as if it could
clear the flag between another thread's exchange and its PostMessage. `Wake`
contains the reason why it does not: a thread that posts holds
`incoming_queue_lock_` until after PostMessage and sets message_loop_scheduled_
last (PosterIsScheduling); until then the work queue is empty and only the lock
can give the main thread a task (NothingUnscheduled), so it cannot get through
another DoWork, and a 2 of its own is back at 1 before it goes idle
(PosterIsSeen). The other conjuncts follow the flag (FlagIsSet, FlagIsKept,
TwoIsOwn, AutoPumpIsFlagged) and the program counter (ModesOfPc). `Wakeups` adds
for the reliable configuration that a set flag comes with a message
(FlagMeansMessage), that outside DoWork a set message_loop_scheduled_ does or the
pump remembers that there may be more work (ScheduledMeansMessage), that the delayed time reported
by DoDelayedWork is that of the first delayed task (ReportedTimeIsRight) and
that the timer is set for it (TimerIsSet). `Covered` is about work that the pump
has put off: it has a message or a due timer before it, or the application has a
message whose postHandleMessage will see to it, or the pump counts on the
auto-pump timer (PutOffIsCovered). For that it must know a modal loop when it is
in one (ModalIsKnown), since postHandleMessage is not called there.

RunInPostOrder is about `Line`, the tasks that have run followed by those in the
work queue and in the incoming queue: it holds every posted task without delay,
once, and two of them are in it in the order in which they were posted. It is
stated with "holds" and "precedes" and not by filtering the sequences, because
both are understood from the parts of a concatenation (ConcatOrder) and the
result of a filter is not. `PostOrderInv` adds that no task is posted twice and
that an entry without a delayed_run_time is a task posted without delay and the
others are not (DelaysAreKept): otherwise DeferTask, which takes an entry out of
the line, and DoDelayedWorkRun, which puts a task into the middle of it, could
disturb the order.

### NonClientDragProofs

For any non-empty set of positions and any number of inputs:

| Theorem | Establishes |
|---|---|
| TypeCorrect | `[]TypeOK` |
| OneHitTestAtMost | `[]OneHitTestOutstanding` |
| AckPendingIsAlwaysExact | `[]AckPendingIsExact` |
| DragsAreAlwaysWellFormed | `[]DragsAreWellFormed` |

TypeOK is not inductive, because the type of the channel allows an answer
without a code; `Typed` adds what is really sent. AckPendingIsExact depends on
what the proxy will do with messages still on their way, hence on the drags that
begin before them. `DragInv` speaks of that directly: AcksAreExact (the
acknowledgements to come, counted with the copy of d_ncDragNeedsAck that the
proxy will have at each position), CopiesWillAgree (after all messages the copy
is the host's) and NoOldEnd (in a drag no acknowledged end of the drag before is
left on either channel). Lemmas ProxyChannel and HostChannel say what sending
and taking a message do to these counts; below them are Greatest, Shift and
Extend of PositionCounts. The actions are then arithmetic.

DragsAreWellFormed is about what the delegate is told, which lags behind the
host by what is on the channel. `DragsInv` says that, as long as no drag was
ignored, the messages on their way lead the delegate from its state, by steps a
well-formed drag allows, to the stage "idle" or "dragging". In the second the
host is dragging, or has put off the end until a move is acknowledged and kept
the point where the button was released; no end that has to be acknowledged is
left then. In the first no such move is left. The last end on the channel is
where the button was released (EndsAt). TLC checked DragsInv with six inputs
before it was proved.

### InProcessResourceLoaderProofs

For any requests, data and bounds (`RequestAssumption`, `DataAssumption`):

| Theorem | Establishes |
|---|---|
| LoaderInvIsInvariant | `Spec => []LoaderInv` |
| TypeCorrect | `[]TypeOK` |
| RefCountIsAlwaysBalanced | `[]RefCountIsBalanced` |
| CompletionIsAlwaysFaithful | `[]CompletionIsFaithful` |
| TaskDChecksHold | the DCHECKs at the head of each posted task |
| PeerIsAlwaysCalledInOrder | the action property PeerIsCalledInOrder |
| LoaderIsCanceledOnlyWhileLoading | the action property LoaderIsCanceledWhileLoading |

The context is reference counted by hand in one place (startLoad's AddRef and the
Release in finish) and by the tasks that are bound to it everywhere else, and its
flags are all that the code knows of the request, the peer and the application's
loader. `LoaderInv` is TypeOK, RefCountIsBalanced, TasksAreOrdered (no task is
posted twice; a startLoad waits only while the load has not started, a cancelLoad
only when the request is gone and the load is not canceled) and, for each request,
Tracks (what each flag says of the other parties), Fresh (nothing has happened to
a request that was not started), Delivers (the peer has all the data but what the
call on the stack is about to give it) and Faithful. TasksAreOrdered is what makes
the count inductive: a second cancelLoad in the queue would hold a reference that
the flags do not show. The references of tasks are counted by position, with
PositionCounts; the two action properties follow from the invariant before the
step.

### ToolkitLifecycleProofs

For any finite set of remote processes, any contexts and bounds
(`HostAssumption`: Local is none of the remote processes, which are finitely many;
`ContextAssumption`: NoContext is no context; `BoundAssumption`: the bounds are
naturals), and both thread modes:

| Theorem | Establishes |
|---|---|
| InvIsInvariant | `Spec => []Inv` |
| TypeCorrect | `[]TypeOK`: no context counts fewer views than none |
| ChannelErrorAlwaysMeansDeath | `[]ChannelErrorMeansDeath` |
| EndingIsInvariant | `Spec => [](Inv /\ Ending)` |
| NothingEverOutlivesItsContext | `[]NothingOutlivesItsContext` |
| OnlyEndedProcessesEverLinger | a destroyed context counts only views of hosts posted for deletion, and one is made anew only for a process that died |

What a host does depends on messages that were sent in an earlier state of its
client. `Served` says that they fit: the messages in the pipe lead, one effect
after the other (`Leads`), from the profile and the views of the host to those of
the client, so a WebViewDestroy finds a view and a ProfileDestroy finds none.
`Channel` says that the final Sync is the last thing before the Close, and that
once it is answered only the Close is left, so a client that shut down in order
has been seen to do so when its channel ends. `Ordered` and `Announced` say that
the tasks of startup and shutdown are in the queue of browser-main in their order
and only in their phase; the others may be anywhere between them. `Phases` and
`Gone` draw the conclusion for the hosts, `LateContexts` for the contexts. `Count`
says that the count of a context is the number of views of the hosts that have
it: when the contexts are destroyed the only hosts left are those posted for
deletion (OnlyEndedProcessesEverLinger). `Ending` follows these to the end: a host
that is posted has its deletion in the queue, the manager with its thread is gone
before the loop is told to end, so none is posted after that, and the loop ends
with an empty queue. Two parts were found when a step failed: that
browser-main is not quitting while the task that makes it quit is still in its
queue, and that in ORIGINAL mode there is no client of the own process.

### Only model-checked

Every invariant of the passing runs is stated by a theorem, some of them under
the assumptions given above. What stays with TLC is FindCountsAreOfThisText with
ids that start over, where it does not hold for every set of texts (section 3),
and the liveness properties: liveness under fairness and ENABLED are outside this
prover, as is what a recursive definition computes for all inputs. No module
declares a RECURSIVE operator.

## 6. Not modelled

* Nested run loops, non-nestable tasks, high-resolution timers and the IO pump
  of `base/message_loop`: blpwtk2 itself starts no nested RunLoop on the main
  pump.
* `preHandleMessage`: `init` pushes a run state with a null dispatcher, so it only
  calls the message filter and changes no state.
* Contents of headers, statuses and bytes; SyncLoad, which the bridge rejects;
  SetDefersLoading, which does not affect bridged requests (a hazard of its own).
* Serialization (IPC traits), JavaScript values, menus, printing, drawing: pure
  conversions or pass-through.
* Calls that a WebViewHost only passes through (reload, focus, zoom, edit
  commands, tooltips, region), context menus and file choosers; the routing id
  of the RenderView, which only lets a resize start early.
* The channel that `setChannelName` opens to the RenderThread, and the affinity
  map of the in-process renderer; command-line switches, sandbox and dictionary
  setup of the toolkit; the client side of a channel error.
* The URL request context that is built lazily on the IO thread, proxy and
  spell-check settings of a profile.
* The desktop streams registry: every operation is one operation on a map.
* Upstream Chromium, V8, Blink, Skia beyond the functions listed in the map.
  They are more than 99 % of the 2.3 million lines of the tree, so the map covers
  a small share of it by design; the share of blpwtk2's stateful code is what the
  project aims at.

## 7. What could follow

1. The lazily built request context between browser-main and the IO thread.
2. ToolkitLifecycle composed with the full ProcessHostManager instead of its
   two-state summary.
