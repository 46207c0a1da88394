--------------------------- MODULE MainMessagePump ---------------------------
(***************************************************************************)
(* blpwtk2::MainMessagePump, the pump that runs Chromium's tasks from the  *)
(* Windows message loop of the application, together with the two pieces   *)
(* of base/message_loop it relies on: IncomingTaskQueue, through which any *)
(* thread posts tasks, and MessagePumpForUI, which turns "there is work"   *)
(* into a posted kMsgHaveWork or a WM_TIMER.                               *)
(*                                                                         *)
(* The main thread's program counter is pc.  All other threads appear as   *)
(* one posting process: PostPendingTask runs under incoming_queue_lock_,   *)
(* so at most one thread is inside it, and `posting' says where.           *)
(*                                                                         *)
(* Abstracted: what a task does (except that it may call Quit), message    *)
(* contents, and shouldStopDoingWork, which the code calls "just a hint":  *)
(* it answers TRUE whenever it likes and must do so only when a message is *)
(* waiting.  The application's modal loops are entered from the handler of *)
(* one of its own messages, never from inside a task.                      *)
(***************************************************************************)
EXTENDS Integers, Sequences, FiniteSets

CONSTANTS Task,                \* tasks posted with no delay
          DelayedTask,         \* tasks posted with a delay
          QuitTask,            \* those of them that call MessageLoop::QuitNow
          Config,              \* possible values of the two Statics below
          PostMessageMayFail,  \* those of them in which the Windows queue can be full
          MaxTime              \* bound on the clock

ASSUME TaskAssumption ==
  /\ Task \intersect DelayedTask = {}
  /\ QuitTask \subseteq Task \union DelayedTask
ASSUME ConfigAssumption ==
  Config \subseteq {<<"MANUAL", FALSE>>, <<"MANUAL", TRUE>>, <<"AUTOMATIC", FALSE>>}
ASSUME PostMessageAssumption == PostMessageMayFail \subseteq Config
ASSUME TimeAssumption == MaxTime \in Nat

VARIABLES
  \* Statics, fixed by ToolkitCreateParams
  pumpMode, workMessageWhileDoingWorkDisabled,
  \* IncomingTaskQueue and MessageLoop
  incoming_queue_, message_loop_scheduled_, work_queue_, delayed_work_queue_,
  \* MessagePumpForUI
  have_work_, delayed_work_time_, state_,
  \* MainMessagePump
  d_hasAutoPumpTimer, d_moreWorkIsPlausible,
  \* Windows: kMsgHaveWork messages, the pump's SetTimer, other messages
  workMessages, osTimer, appMessage,
  \* modal loops: the one running, and what the pump believes
  modalLoop, s_isInModal, os_modal_loop_,
  \* control
  now, pc, handling, posting,
  \* history: tasks in the order they were posted and run
  posted, ran

statics   == <<pumpMode, workMessageWhileDoingWorkDisabled>>
queueVars == <<incoming_queue_, message_loop_scheduled_>>
loopVars  == <<work_queue_, delayed_work_queue_, ran>>
wakeVars  == <<have_work_, workMessages>>
timerVars == <<delayed_work_time_, osTimer, d_hasAutoPumpTimer>>
modalVars == <<modalLoop, s_isInModal, os_modal_loop_>>
postVars  == <<posting, posted>>
vars == <<statics, queueVars, loopVars, wakeVars, timerVars, modalVars,
          postVars, state_, d_moreWorkIsPlausible, appMessage, now, pc, handling>>

Manual == pumpMode = "MANUAL"
Automatic == pumpMode = "AUTOMATIC"

Null == -1                             \* a null base::TimeTicks
NoTimer == [on |-> FALSE, at |-> 0]
PendingTask == [task : Task \union DelayedTask, delayed_run_time : {Null} \union Nat]

Init ==
  /\ \E c \in Config : pumpMode = c[1] /\ workMessageWhileDoingWorkDisabled = c[2]
  /\ incoming_queue_ = <<>>
  /\ message_loop_scheduled_ = FALSE
  /\ work_queue_ = <<>>
  /\ delayed_work_queue_ = <<>>
  /\ have_work_ = 0
  /\ delayed_work_time_ = Null
  /\ state_ = "running"
  /\ d_hasAutoPumpTimer = FALSE
  /\ d_moreWorkIsPlausible = FALSE
  /\ workMessages = 0
  /\ osTimer = NoTimer
  /\ appMessage = FALSE
  /\ modalLoop = "none"
  /\ s_isInModal = FALSE
  /\ os_modal_loop_ = FALSE
  /\ now = 0
  /\ pc = "idle"
  /\ handling = "none"
  /\ posting = "none"
  /\ posted = <<>>
  /\ ran = <<>>

-----------------------------------------------------------------------------
(* MessagePumpForUI.                                                       *)

\* PostMessage fails when the Windows queue is full.
QueueMayBeFull == statics \in PostMessageMayFail

\* Mutant: have_work_ counts the requests instead of remembering one.
ScheduleWorkCounts ==
  /\ have_work_' = have_work_ + 1
  /\ workMessages' = IF have_work_ = 0 THEN workMessages + 1 ELSE workMessages

\* Mutant: a message is posted although one is waiting.
ScheduleWorkAlwaysPosts ==
  /\ have_work_' = 1
  /\ workMessages' = workMessages + 1

\* ScheduleWork on the main thread: set have_work_, post kMsgHaveWork only if
\* it was 0.  When PostMessage fails the flag is reset.
ScheduleWork ==
  \/ /\ have_work_ # 0
     /\ have_work_' = 1
     /\ UNCHANGED workMessages
  \/ /\ have_work_ = 0
     /\ have_work_' = 1
     /\ workMessages' = workMessages + 1
  \/ /\ have_work_ = 0
     /\ QueueMayBeFull
     /\ UNCHANGED wakeVars

\* MessagePumpForUI::ScheduleDelayedWork and RescheduleTimer: a time that has
\* come is ScheduleWork, only a later one is a SetTimer.
BaseScheduleDelayedWork(t, timer) ==
  /\ delayed_work_time_' = t
  /\ IF t <= now
     THEN ScheduleWork /\ osTimer' = timer
     ELSE UNCHANGED wakeVars /\ osTimer' = [on |-> TRUE, at |-> t]

\* MainMessagePump's override; auto and timer are the values of
\* d_hasAutoPumpTimer and of the Windows timer at the time of the call.
ScheduleDelayedWork(t, auto, timer) ==
  IF auto
  THEN UNCHANGED <<delayed_work_time_, wakeVars>> /\ osTimer' = timer
  ELSE BaseScheduleDelayedWork(t, timer)

\* In AUTOMATIC mode a timer for a time that has come is the auto-pump timer.
AutoAfterScheduling(t, auto) == auto \/ (Automatic /\ t <= now)

-----------------------------------------------------------------------------
(* IncomingTaskQueue, run by any thread.                                   *)

\* AddToIncomingQueue/PostPendingTask up to the decision to schedule.  The
\* thread goes on holding the lock when it has to.
PostTask(t, when) ==
  /\ posting = "none"
  /\ \A i \in 1..Len(posted) : posted[i] # t
  /\ incoming_queue_' =
       Append(incoming_queue_, [task |-> t, delayed_run_time |-> when])
  /\ posted' = Append(posted, t)
  /\ posting' = IF ~message_loop_scheduled_ /\ incoming_queue_ = <<>>
                THEN "exchange"
                ELSE "none"
  /\ UNCHANGED <<statics, message_loop_scheduled_, loopVars, wakeVars, timerVars,
                 modalVars, state_, d_moreWorkIsPlausible, appMessage, now, pc,
                 handling>>

PostImmediateTask == \E t \in Task : PostTask(t, Null)

PostDelayedTask == \E t \in DelayedTask, w \in (now + 1)..MaxTime : PostTask(t, w)

\* ScheduleWork on the posting thread, first half: InterlockedExchange.
PosterExchange ==
  /\ posting = "exchange"
  /\ have_work_' = 1
  /\ posting' = IF have_work_ = 0 THEN "post" ELSE "none"
  /\ message_loop_scheduled_' = (have_work_ # 0 \/ message_loop_scheduled_)
  /\ UNCHANGED <<statics, incoming_queue_, loopVars, workMessages, timerVars,
                 modalVars, posted, state_, d_moreWorkIsPlausible, appMessage,
                 now, pc, handling>>

\* Second half: PostMessage.  Either way the loop now counts as scheduled.
PosterPostMessage ==
  /\ posting = "post"
  /\ posting' = "none"
  /\ message_loop_scheduled_' = TRUE
  /\ \/ workMessages' = workMessages + 1 /\ UNCHANGED have_work_
     \/ QueueMayBeFull /\ have_work_' = 0 /\ UNCHANGED workMessages
  /\ UNCHANGED <<statics, incoming_queue_, loopVars, timerVars, modalVars, posted,
                 state_, d_moreWorkIsPlausible, appMessage, now, pc, handling>>

LockFree == posting = "none"

-----------------------------------------------------------------------------
(* MessageLoop::DoWork and DoDelayedWork, called from doWork and cleanup.  *)

\* The iteration is over: in a handler shouldStopDoingWork may end it and
\* must when a message waits; cleanup only stops when nothing is left, then
\* pops the run state and the pump is not used again.
AfterIteration(more) ==
  IF handling = "cleanup"
  THEN IF more THEN {"DoWork"} ELSE {"cleaned"}
  ELSE IF state_' # "running" THEN {"afterWork"}
  ELSE {"afterWork"} \union
       (IF more /\ workMessages = 0 /\ ~appMessage THEN {"DoWork"} ELSE {})

StateAfter(t) == IF t \in QuitTask THEN "quit" ELSE state_

\* Mutant: the scheduled flag stays set when the loop runs dry.
ReloadNothingStaysScheduled ==
  /\ pc = "DoWork"
  /\ work_queue_ = <<>>
  /\ LockFree
  /\ incoming_queue_ = <<>>
  /\ d_moreWorkIsPlausible' = FALSE
  /\ pc' = "DoDelayedWork"
  /\ UNCHANGED <<statics, queueVars, loopVars, wakeVars, timerVars, modalVars,
                 postVars, state_, appMessage, now, handling>>

\* ReloadWorkQueue finds nothing: the next post has to schedule again.
ReloadNothing ==
  /\ pc = "DoWork"
  /\ work_queue_ = <<>>
  /\ LockFree
  /\ incoming_queue_ = <<>>
  /\ message_loop_scheduled_' = FALSE
  /\ d_moreWorkIsPlausible' = FALSE
  /\ pc' = "DoDelayedWork"
  /\ UNCHANGED <<statics, incoming_queue_, loopVars, wakeVars, timerVars,
                 modalVars, postVars, state_, appMessage, now, handling>>

\* Mutant: the incoming queue is copied, not swapped with an empty one.
ReloadWorkQueueCopies ==
  /\ pc = "DoWork"
  /\ work_queue_ = <<>>
  /\ LockFree
  /\ incoming_queue_ # <<>>
  /\ work_queue_' = incoming_queue_
  /\ UNCHANGED <<statics, queueVars, delayed_work_queue_, ran, wakeVars,
                 timerVars, modalVars, postVars, state_, d_moreWorkIsPlausible,
                 appMessage, now, pc, handling>>

ReloadWorkQueue ==
  /\ pc = "DoWork"
  /\ work_queue_ = <<>>
  /\ LockFree
  /\ incoming_queue_ # <<>>
  /\ work_queue_' = incoming_queue_
  /\ incoming_queue_' = <<>>
  /\ UNCHANGED <<statics, message_loop_scheduled_, delayed_work_queue_, ran,
                 wakeVars, timerVars, modalVars, postVars, state_,
                 d_moreWorkIsPlausible, appMessage, now, pc, handling>>

\* AddToDelayedWorkQueue: a priority queue, first posted first among equals.
Earlier(e) == {i \in 1..Len(delayed_work_queue_) :
                 delayed_work_queue_[i].delayed_run_time <= e.delayed_run_time}
Insert(e) ==
  LET k == Cardinality(Earlier(e))
  IN  SubSeq(delayed_work_queue_, 1, k) \o <<e>>
      \o SubSeq(delayed_work_queue_, k + 1, Len(delayed_work_queue_))

\* DoWork meets a delayed task: move it, and reschedule if it is now on top.
DeferTask ==
  /\ pc = "DoWork"
  /\ work_queue_ # <<>>
  /\ LET e == Head(work_queue_) IN
       /\ e.delayed_run_time # Null
       /\ delayed_work_queue_' = Insert(e)
       /\ work_queue_' = Tail(work_queue_)
       /\ IF Earlier(e) = {}
          THEN /\ ScheduleDelayedWork(e.delayed_run_time, d_hasAutoPumpTimer, osTimer)
               /\ d_hasAutoPumpTimer' =
                    AutoAfterScheduling(e.delayed_run_time, d_hasAutoPumpTimer)
          ELSE UNCHANGED <<wakeVars, timerVars>>
  /\ UNCHANGED <<statics, queueVars, ran, modalVars, postVars, state_,
                 d_moreWorkIsPlausible, appMessage, now, pc, handling>>

\* DoWork runs one task and returns true.  A task that quits ends doWork.
RunTask ==
  /\ pc = "DoWork"
  /\ work_queue_ # <<>>
  /\ LET e == Head(work_queue_) IN
       /\ e.delayed_run_time = Null
       /\ ran' = Append(ran, e.task)
       /\ state_' = StateAfter(e.task)
  /\ work_queue_' = Tail(work_queue_)
  /\ d_moreWorkIsPlausible' = TRUE
  /\ pc' = IF state_' # "running" /\ handling # "cleanup"
           THEN "afterWork"
           ELSE "DoDelayedWork"
  /\ UNCHANGED <<statics, queueVars, delayed_work_queue_, wakeVars, timerVars,
                 modalVars, postVars, appMessage, now, handling>>

\* DoDelayedWork, nothing due: report when something will be.
DoDelayedWorkNotDue ==
  /\ pc = "DoDelayedWork"
  /\ \/ /\ delayed_work_queue_ = <<>>
        /\ delayed_work_time_' = Null
     \/ /\ delayed_work_queue_ # <<>>
        /\ Head(delayed_work_queue_).delayed_run_time > now
        /\ delayed_work_time_' = Head(delayed_work_queue_).delayed_run_time
  /\ UNCHANGED state_
  /\ pc' \in AfterIteration(d_moreWorkIsPlausible)
  /\ UNCHANGED <<statics, queueVars, loopVars, wakeVars, osTimer,
                 d_hasAutoPumpTimer, modalVars, postVars, d_moreWorkIsPlausible,
                 appMessage, now, handling>>

\* DoDelayedWork runs the task on top of the queue.
DoDelayedWorkRun ==
  /\ pc = "DoDelayedWork"
  /\ delayed_work_queue_ # <<>>
  /\ LET e == Head(delayed_work_queue_) IN
       /\ e.delayed_run_time <= now
       /\ ran' = Append(ran, e.task)
       /\ state_' = StateAfter(e.task)
  /\ delayed_work_queue_' = Tail(delayed_work_queue_)
  /\ delayed_work_time_' = IF Tail(delayed_work_queue_) = <<>>
                           THEN delayed_work_time_
                           ELSE delayed_work_queue_[2].delayed_run_time
  /\ d_moreWorkIsPlausible' = TRUE
  /\ pc' \in AfterIteration(TRUE)
  /\ UNCHANGED <<statics, queueVars, work_queue_, wakeVars, osTimer,
                 d_hasAutoPumpTimer, modalVars, postVars, appMessage, now,
                 handling>>

-----------------------------------------------------------------------------
(* MainMessagePump: the handlers of kMsgHaveWork and WM_TIMER.             *)

\* doWork returns at once outside init/cleanup and after Quit.
StartOfDoWork == IF state_ = "running" THEN "DoWork" ELSE "afterWork"

HandleWorkMessage ==
  /\ pc = "idle"
  /\ workMessages > 0
  /\ workMessages' = workMessages - 1
  /\ have_work_' = IF Automatic THEN 2
                   ELSE IF workMessageWhileDoingWorkDisabled THEN have_work_
                   ELSE 0
  /\ handling' = "work"
  /\ pc' = StartOfDoWork
  /\ UNCHANGED <<statics, queueVars, loopVars, timerVars, modalVars, postVars,
                 state_, d_moreWorkIsPlausible, appMessage, now>>

\* Windows has a WM_TIMER for the pump.
TimerIsDue == osTimer.on /\ osTimer.at <= now

\* WM_TIMER comes after posted messages.  Only the auto-pump timer is left on.
HandleTimerMessage ==
  /\ pc = "idle"
  /\ workMessages = 0
  /\ TimerIsDue
  /\ osTimer' = IF d_hasAutoPumpTimer THEN osTimer ELSE NoTimer
  /\ handling' = "timer"
  /\ pc' = StartOfDoWork
  /\ UNCHANGED <<statics, queueVars, loopVars, wakeVars, delayed_work_time_,
                 d_hasAutoPumpTimer, modalVars, postVars, state_,
                 d_moreWorkIsPlausible, appMessage, now>>

\* With work messages disabled have_work_ is only reset after doWork.
AfterWork ==
  /\ pc = "afterWork"
  /\ have_work_' = IF /\ handling = "work" /\ Manual
                      /\ workMessageWhileDoingWorkDisabled
                   THEN 0
                   ELSE have_work_
  /\ pc' = IF Automatic /\ state_ = "running" THEN "exchange1" ELSE "rearm"
  /\ UNCHANGED <<statics, queueVars, loopVars, workMessages, timerVars, modalVars,
                 postVars, state_, d_moreWorkIsPlausible, appMessage, now, handling>>

(* scheduleMoreWorkIfNecessary, in three steps: the two interlocked        *)
(* operations of AUTOMATIC mode, then the rest.                            *)

Exchange1To2 ==
  /\ pc = "exchange1"
  /\ have_work_' = IF have_work_ = 1 THEN 2 ELSE have_work_
  /\ d_moreWorkIsPlausible' = (have_work_ = 1 \/ d_moreWorkIsPlausible)
  /\ pc' = IF d_moreWorkIsPlausible' THEN "rearm" ELSE "exchange2"
  /\ UNCHANGED <<statics, queueVars, loopVars, workMessages, timerVars, modalVars,
                 postVars, state_, appMessage, now, handling>>

\* Mutant: a plain exchange, which also swallows a 1.
Exchange2To0Always ==
  /\ pc = "exchange2"
  /\ have_work_' = 0
  /\ pc' = "rearm"
  /\ UNCHANGED <<statics, queueVars, loopVars, workMessages, timerVars, modalVars,
                 postVars, state_, d_moreWorkIsPlausible, appMessage, now, handling>>

\* 2 becomes 0; a 1 that slipped in becomes 2 again and keeps the work going.
Exchange2To0 ==
  /\ pc = "exchange2"
  /\ have_work_' = IF have_work_ = 1 THEN 2 ELSE 0
  /\ d_moreWorkIsPlausible' = (have_work_ = 1)
  /\ pc' = "rearm"
  /\ UNCHANGED <<statics, queueVars, loopVars, workMessages, timerVars, modalVars,
                 postVars, state_, appMessage, now, handling>>

\* The handler of a message returns: the application's own loop then calls
\* postHandleMessage in MANUAL mode, a modal loop does not.
ReturnFrom(message) ==
  IF Manual /\ modalLoop' = "none"
  THEN pc' = "postHandleMessage" /\ handling' = message
  ELSE pc' = "idle" /\ handling' = "none"

PeekMessage == workMessages > 0 \/ appMessage \/ TimerIsDue

\* Outside init/cleanup and after Quit: stop everything.
RearmStopped ==
  /\ state_ # "running"
  /\ osTimer' = IF d_hasAutoPumpTimer THEN NoTimer ELSE osTimer
  /\ d_hasAutoPumpTimer' = FALSE
  /\ d_moreWorkIsPlausible' = FALSE
  /\ delayed_work_time_' = Null
  /\ UNCHANGED wakeVars

\* More work and nobody to call postHandleMessage: use the auto-pump timer.
RearmAutoPump ==
  /\ state_ = "running"
  /\ d_moreWorkIsPlausible
  /\ Automatic \/ os_modal_loop_ \/ ~PeekMessage
  /\ ScheduleDelayedWork(now, d_hasAutoPumpTimer, osTimer)
  /\ d_hasAutoPumpTimer' = TRUE
  /\ UNCHANGED d_moreWorkIsPlausible

\* More work, and postHandleMessage will come: leave it to that, or post now.
RearmManual ==
  /\ state_ = "running"
  /\ d_moreWorkIsPlausible
  /\ ~(Automatic \/ os_modal_loop_ \/ ~PeekMessage)
  /\ IF workMessageWhileDoingWorkDisabled THEN ScheduleWork ELSE UNCHANGED wakeVars
  /\ UNCHANGED <<timerVars, d_moreWorkIsPlausible>>

\* No more work: kill the auto-pump timer, wait for the next delayed task.
TimerAfterKill == IF d_hasAutoPumpTimer THEN NoTimer ELSE osTimer

\* Mutant: the next delayed task gets no timer.
RearmIdleNoDelayedWork ==
  /\ state_ = "running"
  /\ ~d_moreWorkIsPlausible
  /\ osTimer' = TimerAfterKill
  /\ d_hasAutoPumpTimer' = FALSE
  /\ UNCHANGED <<delayed_work_time_, wakeVars, d_moreWorkIsPlausible>>

RearmIdle ==
  /\ state_ = "running"
  /\ ~d_moreWorkIsPlausible
  /\ IF delayed_work_time_ = Null
     THEN /\ osTimer' = TimerAfterKill
          /\ d_hasAutoPumpTimer' = FALSE
          /\ UNCHANGED <<delayed_work_time_, wakeVars>>
     ELSE /\ ScheduleDelayedWork(delayed_work_time_, FALSE, TimerAfterKill)
          /\ d_hasAutoPumpTimer' = AutoAfterScheduling(delayed_work_time_, FALSE)
  /\ UNCHANGED d_moreWorkIsPlausible

Rearm ==
  /\ pc = "rearm"
  /\ UNCHANGED modalVars
  /\ RearmStopped \/ RearmAutoPump \/ RearmManual \/ RearmIdle
  /\ ReturnFrom(handling)
  /\ UNCHANGED <<statics, queueVars, loopVars, postVars, state_, appMessage, now>>

\* Mutant: remaining work is not scheduled after the application's messages.
PostHandleMessageOnlyModal ==
  /\ pc = "postHandleMessage"
  /\ os_modal_loop_' = (os_modal_loop_ /\ ~s_isInModal)
  /\ s_isInModal' = FALSE
  /\ pc' = "idle"
  /\ handling' = "none"
  /\ UNCHANGED <<statics, queueVars, loopVars, wakeVars, timerVars, modalLoop,
                 postVars, state_, d_moreWorkIsPlausible, appMessage, now>>

\* postHandleMessage: leave the modal state; after any message but our own
\* kMsgHaveWork, replace the auto-pump timer by a work message.
PostHandleMessage ==
  /\ pc = "postHandleMessage"
  /\ os_modal_loop_' = (os_modal_loop_ /\ ~s_isInModal)
  /\ s_isInModal' = FALSE
  /\ IF d_moreWorkIsPlausible /\ handling # "work"
     THEN /\ osTimer' = TimerAfterKill
          /\ d_hasAutoPumpTimer' = FALSE
          /\ ScheduleWork
     ELSE UNCHANGED <<osTimer, d_hasAutoPumpTimer, wakeVars>>
  /\ pc' = "idle"
  /\ handling' = "none"
  /\ UNCHANGED <<statics, queueVars, loopVars, delayed_work_time_, modalLoop,
                 postVars, state_, d_moreWorkIsPlausible, appMessage, now>>

\* cleanup: run DoWork and DoDelayedWork until both have nothing to do.
Cleanup ==
  /\ pc = "idle"
  /\ modalLoop = "none"
  /\ state_ \in {"running", "quit"}
  /\ handling' = "cleanup"
  /\ pc' = "DoWork"
  /\ UNCHANGED <<statics, queueVars, loopVars, wakeVars, timerVars, modalVars,
                 postVars, state_, d_moreWorkIsPlausible, appMessage, now>>

-----------------------------------------------------------------------------
(* The application and Windows.                                            *)

Tick ==
  /\ now < MaxTime
  /\ now' = now + 1
  /\ UNCHANGED <<statics, queueVars, loopVars, wakeVars, timerVars, modalVars,
                 postVars, state_, d_moreWorkIsPlausible, appMessage, pc, handling>>

AppMessageArrives ==
  /\ ~appMessage
  /\ appMessage' = TRUE
  /\ UNCHANGED <<statics, queueVars, loopVars, wakeVars, timerVars, modalVars,
                 postVars, state_, d_moreWorkIsPlausible, now, pc, handling>>

HandleAppMessage ==
  /\ pc = "idle"
  /\ appMessage
  /\ appMessage' = FALSE
  /\ UNCHANGED modalVars
  /\ ReturnFrom("other")
  /\ UNCHANGED <<statics, queueVars, loopVars, wakeVars, timerVars, postVars,
                 state_, d_moreWorkIsPlausible, now>>

\* The handler of a message opens a dialog or starts moving a window: the
\* hooks set os_modal_loop_ and schedule work.
EnterModalLoop(kind) ==
  /\ pc = "idle"
  /\ appMessage
  /\ modalLoop = "none"
  /\ appMessage' = FALSE
  /\ modalLoop' = kind
  /\ IF kind = "dialog" /\ s_isInModal
     THEN UNCHANGED <<s_isInModal, os_modal_loop_, wakeVars>>
     ELSE /\ s_isInModal' = (s_isInModal \/ kind = "dialog")
          /\ os_modal_loop_' = TRUE
          /\ ScheduleWork
  /\ UNCHANGED <<statics, queueVars, loopVars, timerVars, postVars, state_,
                 d_moreWorkIsPlausible, now, pc, handling>>

\* Only WM_EXITSIZEMOVE and WM_EXITMENULOOP are noticed; a dialog's end is
\* found out in postHandleMessage.
ExitModalLoop ==
  /\ pc = "idle"
  /\ modalLoop # "none"
  /\ modalLoop' = "none"
  /\ os_modal_loop_' = (os_modal_loop_ /\ modalLoop = "dialog")
  /\ ReturnFrom("other")
  /\ UNCHANGED <<statics, queueVars, loopVars, wakeVars, timerVars, s_isInModal,
                 postVars, state_, d_moreWorkIsPlausible, appMessage, now>>

\* The application takes one of its own messages out of the queue.
TakeAppMessage ==
  HandleAppMessage \/ \E kind \in {"dialog", "sizemove"} : EnterModalLoop(kind)

-----------------------------------------------------------------------------
PosterStep == PostImmediateTask \/ PostDelayedTask \/ PosterExchange \/ PosterPostMessage

WorkStep ==
  \/ ReloadNothing \/ ReloadWorkQueue \/ DeferTask \/ RunTask
  \/ DoDelayedWorkNotDue \/ DoDelayedWorkRun
  \/ AfterWork \/ Exchange1To2 \/ Exchange2To0 \/ Rearm \/ PostHandleMessage

ApplicationStep ==
  HandleWorkMessage \/ HandleTimerMessage \/ TakeAppMessage \/ ExitModalLoop \/ Cleanup

Next == PosterStep \/ WorkStep \/ ApplicationStep \/ Tick \/ AppMessageArrives

Spec == Init /\ [][Next]_vars

(***************************************************************************)
(* Fairness.  The main thread finishes a handler it has started, a thread  *)
(* that posts is scheduled, time passes.  Windows delivers posted messages *)
(* in order, so a kMsgHaveWork or an application message that stays in the *)
(* queue is handled although others arrive (SF).  Nothing is assumed of    *)
(* the user, who need not produce messages or close a modal loop, and      *)
(* nothing of WM_TIMER, which Windows may starve: a property that needs    *)
(* them says so itself.                                                    *)
(***************************************************************************)
Fairness ==
  /\ WF_vars(WorkStep)
  /\ WF_vars(PosterExchange \/ PosterPostMessage)
  /\ WF_vars(Tick)
  /\ SF_vars(HandleWorkMessage)
  /\ SF_vars(TakeAppMessage)

FairSpec == Spec /\ Fairness

-----------------------------------------------------------------------------
(* Properties.                                                             *)

TypeOK ==
  /\ <<pumpMode, workMessageWhileDoingWorkDisabled>> \in Config
  /\ incoming_queue_ \in Seq(PendingTask)
  /\ message_loop_scheduled_ \in BOOLEAN
  /\ work_queue_ \in Seq(PendingTask)
  /\ delayed_work_queue_ \in Seq(PendingTask)
  /\ have_work_ \in 0..2
  /\ delayed_work_time_ \in {Null} \union Nat
  /\ state_ \in {"running", "quit"}
  /\ d_hasAutoPumpTimer \in BOOLEAN
  /\ d_moreWorkIsPlausible \in BOOLEAN
  /\ workMessages \in Nat
  /\ osTimer \in [on : BOOLEAN, at : Nat]
  /\ appMessage \in BOOLEAN
  /\ modalLoop \in {"none", "dialog", "sizemove"}
  /\ s_isInModal \in BOOLEAN
  /\ os_modal_loop_ \in BOOLEAN
  /\ now \in Nat
  /\ pc \in {"idle", "DoWork", "DoDelayedWork", "afterWork", "exchange1",
             "exchange2", "rearm", "postHandleMessage", "cleaned"}
  /\ handling \in {"none", "work", "timer", "other", "cleanup"}
  /\ posting \in {"none", "exchange", "post"}
  /\ posted \in Seq(Task \union DelayedTask)
  /\ ran \in Seq(Task \union DelayedTask)

\* The DCHECKs on have_work_ in handleWorkMessage (lines 410, 415 and 446):
\* whenever a kMsgHaveWork is waiting or being handled, the flag says so.
HaveWorkDChecks ==
  /\ workMessages > 0 => have_work_ \in (IF Automatic THEN {1, 2} ELSE {1})
  /\ /\ pc = "afterWork" /\ handling = "work"
     /\ Manual /\ workMessageWhileDoingWorkDisabled
     => have_work_ = 1

\* have_work_ keeps the Windows queue from filling up with kMsgHaveWork: there
\* is never more than one in it, counting one a thread is about to post.
OneWorkMessage == workMessages + (IF posting = "post" THEN 1 ELSE 0) <= 1

Holds(q, t) == \E i \in 1..Len(q) : q[i] = t
Precedes(q, s, t) == \E i, j \in 1..Len(q) : i < j /\ q[i] = s /\ q[j] = t
TasksOf(q) == [i \in 1..Len(q) |-> q[i].task]

\* The tasks that have run and those that are to be run, in that order.
Line == (ran \o TasksOf(work_queue_)) \o TasksOf(incoming_queue_)

\* Tasks without delay run exactly once and in the order they were posted,
\* across the hand-over from the incoming queue to the work queue.
RunInPostOrder ==
  /\ \A t \in Task : /\ Holds(Line, t) <=> Holds(posted, t)
                     /\ ~Precedes(Line, t, t)
  /\ \A s, t \in Task : Precedes(Line, s, t) <=> Precedes(posted, s, t)

Waiting == incoming_queue_ # <<>> \/ work_queue_ # <<>>

\* Outside a modal loop the application calls postHandleMessage for each of
\* its messages, so one that is waiting will get remaining work going.
PostHandleMessageComes ==
  Manual /\ modalLoop = "none" /\ appMessage /\ d_moreWorkIsPlausible

\* Something in Windows or in another thread will make the pump run again.
WakeupPending ==
  \/ workMessages > 0
  \/ osTimer.on
  \/ posting # "none"
  \/ PostHandleMessageComes

\* Lost wakeup: the application waits in GetMessage while there is work, and
\* nothing will do it.  For a queued task the next post would not help either,
\* because message_loop_scheduled_ is still set.
Stalled(work) == pc = "idle" /\ state_ = "running" /\ work /\ ~WakeupPending

\* The configuration in which the pump is at its best: MANUAL mode, work
\* messages enabled and room in the Windows queue.
Reliable == Manual /\ ~workMessageWhileDoingWorkDisabled /\ ~QueueMayBeFull

\* In that configuration the auto-pump timer is the only wakeup that can be
\* missing (AutoPumpTimerKeepsFiring is about that one).  While the application
\* waits for messages, a queued task has a work message, a thread about to
\* post one, a WM_TIMER or a message of the application before it, or the pump
\* relies on the auto-pump timer.  Then it also remembers that there is work,
\* so that the next postHandleMessage gets it going.
OnlyAutoPumpTimerIsMissing ==
  Reliable /\ pc = "idle" /\ state_ = "running" /\ Waiting =>
    \/ workMessages > 0 \/ posting # "none" \/ TimerIsDue \/ PostHandleMessageComes
    \/ d_hasAutoPumpTimer /\ d_moreWorkIsPlausible

\* In that configuration, and unless the pump relies on the auto-pump timer, a
\* delayed task never waits for a WM_TIMER that is not set: while the
\* application waits for messages there is a timer no later than the first
\* task, or a message before it at which one will be set.
DelayedWorkIsArmed ==
  /\ Reliable /\ pc = "idle" /\ state_ = "running"
  /\ delayed_work_queue_ # <<>> /\ ~d_hasAutoPumpTimer
  => \/ workMessages > 0 \/ posting = "post" \/ TimerIsDue \/ PostHandleMessageComes
     \/ osTimer.on /\ osTimer.at <= Head(delayed_work_queue_).delayed_run_time

\* mainmessagepump.cc:41-44: "To work around this, we start an auto-pump timer
\* to do the remaining work.  This timer will keep firing until we no longer
\* have any work to do, or until postHandleMessage is eventually called."  For
\* AUTOMATIC mode line 51 says the same.  A queued task, or a delayed one, for
\* which no other timer is set, never waits with no message and no timer to come,
\* in a modal loop or outside.
AutoPumpTimerKeepsFiring ==
  d_hasAutoPumpTimer => ~Stalled(Waiting \/ delayed_work_queue_ # <<>>)

\* mainmessagepump.cc:404: "If there is work remaining after doWork(), then we
\* will schedule it in scheduleMoreWorkIfNecessary()".  With work messages
\* disabled while doing work, a task posted during doWork is not forgotten.
RemainingWorkIsScheduled == workMessageWhileDoingWorkDisabled => ~Stalled(Waiting)

\* A task is run, unless the loop is told to quit or the toolkit shut down.
Runs(t) ==
  Holds(posted, t) ~> Holds(ran, t) \/ state_ # "running" \/ handling = "cleanup"

\* Messages keep coming, and modal loops end: both are up to the user.
UserIsThere == []<>appMessage /\ []<>(modalLoop = "none")

\* A lost auto-pump timer is made up for by postHandleMessage: in the reliable
\* configuration, and as long as the user is there, every task is eventually
\* run, a delayed one also if Windows does not starve WM_TIMER.
EveryTaskRuns ==
  Reliable /\ UserIsThere =>
    /\ \A t \in Task : Runs(t)
    /\ SF_vars(HandleTimerMessage) => \A t \in DelayedTask : Runs(t)
=============================================================================
