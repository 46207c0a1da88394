----------------------- MODULE MainMessagePumpProofs -----------------------
(***************************************************************************)
(* Proofs about MainMessagePump, for any tasks, clock bound and set of     *)
(* configurations.                                                         *)
(*                                                                         *)
(* That the Windows queue holds one work message at most, and that a       *)
(* waiting one always finds have_work_ set, depend on each other: nobody   *)
(* posts while the flag is set, and nobody clears it while a message is    *)
(* there or a thread is about to post one.  The second half is easy in     *)
(* MANUAL mode.  In AUTOMATIC mode the main thread turns 1 into 2 and 2    *)
(* into 0 with no lock, and what saves it is the other lock: a thread that *)
(* is about to post holds incoming_queue_lock_, so the main thread cannot  *)
(* get through another DoWork before it has posted (Wake, below).          *)
(*                                                                         *)
(* That tasks run in the order they were posted needs to know besides that *)
(* no task is posted twice and that the delay of an entry says what kind   *)
(* of task it is (PostOrderInv).                                           *)
(*                                                                         *)
(* That work is never left without a message or a timer, except where the  *)
(* auto-pump timer was scheduled and not set, needs to know that a set     *)
(* have_work_ has its message, that the time DoDelayedWork reports is that *)
(* of the first delayed task and a timer is set for it (Wakeups), and that *)
(* work which the pump has put off has a message before it or counts on    *)
(* that timer (Covered).                                                   *)
(***************************************************************************)
EXTENDS MainMessagePump, TLAPS, FiniteSetTheorems, SequenceTheorems

-----------------------------------------------------------------------------
(* The type invariant.                                                     *)

\* The queues and histories.
Queues ==
  /\ incoming_queue_ \in Seq(PendingTask)
  /\ work_queue_ \in Seq(PendingTask)
  /\ delayed_work_queue_ \in Seq(PendingTask)
  /\ posted \in Seq(Task \union DelayedTask)
  /\ ran \in Seq(Task \union DelayedTask)

\* Everything else.
Scalars ==
  /\ <<pumpMode, workMessageWhileDoingWorkDisabled>> \in Config
  /\ message_loop_scheduled_ \in BOOLEAN
  /\ have_work_ \in 0..2
  /\ delayed_work_time_ \in {Null} \union Nat
  /\ state_ \in {"running", "quit"}
  /\ d_hasAutoPumpTimer \in BOOLEAN
  /\ d_moreWorkIsPlausible \in BOOLEAN
  /\ workMessages \in Nat
  /\ osTimer \in [on : BOOLEAN, at : Nat]
  /\ appMessage \in BOOLEAN
  /\ modalLoop \in {"none", "dialog", "sizemove"}
  /\ s_isInModal \in BOOLEAN
  /\ os_modal_loop_ \in BOOLEAN
  /\ now \in Nat
  /\ pc \in {"idle", "DoWork", "DoDelayedWork", "afterWork", "exchange1",
             "exchange2", "rearm", "postHandleMessage", "cleaned"}
  /\ handling \in {"none", "work", "timer", "other", "cleanup"}
  /\ posting \in {"none", "exchange", "post"}

\* TypeOK in two halves, before and after a step.
LEMMA TypeParts ==
  /\ TypeOK <=> Queues /\ Scalars
  /\ TypeOK' <=> Queues' /\ Scalars'
  BY DEF TypeOK, Queues, Scalars

\* The mode and the flag are among the three that Statics can have.
LEMMA Modes ==
  ASSUME <<pumpMode, workMessageWhileDoingWorkDisabled>> \in Config
  PROVE  /\ pumpMode \in {"MANUAL", "AUTOMATIC"}
         /\ workMessageWhileDoingWorkDisabled \in BOOLEAN
         /\ workMessageWhileDoingWorkDisabled => pumpMode = "MANUAL"
  BY ConfigAssumption

\* An element inserted into the delayed queue leaves a queue of such elements.
LEMMA InsertType ==
  ASSUME NEW S, delayed_work_queue_ \in Seq(S), NEW e \in S
  PROVE  Insert(e) \in Seq(S)
  <1> DEFINE q == delayed_work_queue_
             k == Cardinality(Earlier(e))
  <1>1. Len(q) \in Nat
    BY LenProperties
  <1>2. IsFiniteSet(1 .. Len(q)) /\ Cardinality(1 .. Len(q)) = Len(q)
    <2>1. ASSUME NEW n \in Nat
          PROVE  IsFiniteSet(1 .. n) /\ Cardinality(1 .. n) = n
      BY FS_Interval
    <2> QED BY <1>1, <2>1
  <1>3. Earlier(e) \in SUBSET (1 .. Len(q))
    BY DEF Earlier
  <1>4. k \in 0 .. Len(q)
    <2>1. IsFiniteSet(Earlier(e)) /\ k <= Cardinality(1 .. Len(q))
      BY <1>2, <1>3, FS_Subset
    <2>2. k \in Nat
      BY <2>1, FS_CardinalityType
    <2> QED BY <2>1, <2>2, <1>1, <1>2
  <1>5. SubSeq(q, 1, k) \in Seq(S)
        /\ SubSeq(q, k + 1, Len(q)) \in Seq(S)
    <2> HIDE DEF k
    <2> QED BY <1>1, <1>4, SubSeqProperties
  <1>6. <<e>> \in Seq(S)
    OBVIOUS
  <1> HIDE DEF k
  <1>7. (SubSeq(q, 1, k) \o <<e>>) \o SubSeq(q, k + 1, Len(q)) \in Seq(S)
    BY <1>5, <1>6, ConcatProperties
  <1> QED BY <1>7 DEF Insert, k

\* What ScheduleWork leaves in the flag and in the Windows queue.
LEMMA ScheduleWorkType ==
  ASSUME ScheduleWork, have_work_ \in 0 .. 2, workMessages \in Nat
  PROVE  have_work_' \in 0 .. 2 /\ workMessages' \in Nat
  BY DEF ScheduleWork, wakeVars

\* What ScheduleDelayedWork leaves in the members it may touch.
LEMMA ScheduleDelayedWorkType ==
  ASSUME NEW t \in Nat, NEW auto \in BOOLEAN, NEW timer \in [on : BOOLEAN, at : Nat],
         ScheduleDelayedWork(t, auto, timer),
         have_work_ \in 0 .. 2, workMessages \in Nat,
         delayed_work_time_ \in {Null} \union Nat, now \in Nat
  PROVE  /\ have_work_' \in 0 .. 2 /\ workMessages' \in Nat
         /\ delayed_work_time_' \in {Null} \union Nat
         /\ osTimer' \in [on : BOOLEAN, at : Nat]
  <1>1. CASE auto
    BY <1>1 DEF ScheduleDelayedWork, wakeVars
  <1>2. CASE ~auto /\ t <= now
    <2>1. ScheduleWork /\ osTimer' = timer /\ delayed_work_time_' = t
      BY <1>2 DEF ScheduleDelayedWork, BaseScheduleDelayedWork
    <2> QED BY <2>1, ScheduleWorkType
  <1>3. CASE ~auto /\ ~(t <= now)
    <2>1. /\ delayed_work_time_' = t /\ osTimer' = [on |-> TRUE, at |-> t]
          /\ UNCHANGED wakeVars
      BY <1>3, Zenon DEF ScheduleDelayedWork, BaseScheduleDelayedWork
    <2>2. osTimer' \in [on : BOOLEAN, at : Nat]
      BY <2>1, Zenon
    <2> QED BY <2>1, <2>2 DEF wakeVars
  <1> QED BY <1>1, <1>2, <1>3

\* The steps of a thread that posts.
LEMMA PosterType ==
  ASSUME TypeOK, PosterStep
  PROVE  TypeOK'
  <1>1. Queues /\ Scalars
    BY TypeParts
  <1>2. ASSUME NEW t \in Task \union DelayedTask, NEW when \in {Null} \union Nat,
               PostTask(t, when)
        PROVE  TypeOK'
    <2>1. [task |-> t, delayed_run_time |-> when] \in PendingTask
      BY DEF PendingTask
    <2>2. Queues'
      BY <1>1, <1>2, <2>1, AppendProperties DEF Queues, PostTask, loopVars
    <2>3. Scalars'
      BY <1>1, <1>2 DEF Scalars, PostTask, statics, loopVars, wakeVars, timerVars,
                        modalVars
    <2> QED BY <2>2, <2>3, TypeParts
  <1>3. CASE PostImmediateTask
    BY <1>2, <1>3 DEF PostImmediateTask
  <1>4. CASE PostDelayedTask
    <2>1. PICK t \in DelayedTask, w \in (now + 1) .. MaxTime : PostTask(t, w)
      BY <1>4 DEF PostDelayedTask
    <2>2. w \in Nat
      BY <1>1, TimeAssumption DEF Scalars
    <2> QED BY <1>2, <2>1, <2>2
  <1>5. CASE PosterExchange
    <2>1. Queues'
      BY <1>1, <1>5 DEF Queues, PosterExchange, loopVars
    <2>2. Scalars'
      BY <1>1, <1>5 DEF Scalars, PosterExchange, statics, timerVars, modalVars
    <2> QED BY <2>1, <2>2, TypeParts
  <1>6. CASE PosterPostMessage
    <2>1. Queues'
      BY <1>1, <1>6 DEF Queues, PosterPostMessage, loopVars
    <2>2. Scalars'
      BY <1>1, <1>6 DEF Scalars, PosterPostMessage, statics, timerVars, modalVars
    <2> QED BY <2>1, <2>2, TypeParts
  <1> QED BY <1>3, <1>4, <1>5, <1>6 DEF PosterStep

\* The steps inside DoWork and DoDelayedWork.
LEMMA LoopType ==
  ASSUME TypeOK,
         \/ ReloadNothing \/ ReloadWorkQueue \/ DeferTask \/ RunTask
         \/ DoDelayedWorkNotDue \/ DoDelayedWorkRun
  PROVE  TypeOK'
  <1>1. Queues /\ Scalars
    BY TypeParts
  <1>2. \A more : AfterIteration(more) \subseteq {"DoWork", "cleaned", "afterWork"}
    BY DEF AfterIteration
  <1>3. \A t : StateAfter(t) \in {"running", "quit"}
    BY <1>1 DEF StateAfter, Scalars
  <1>4. CASE ReloadNothing
    <2>1. Queues'
      BY <1>1, <1>4 DEF Queues, ReloadNothing, loopVars, postVars
    <2>2. message_loop_scheduled_' \in BOOLEAN /\ d_moreWorkIsPlausible' \in BOOLEAN
      BY <1>4, Zenon DEF ReloadNothing
    <2>3. /\ pc' = "DoDelayedWork"
          /\ UNCHANGED <<statics, wakeVars, timerVars, modalVars, postVars, state_,
                         appMessage, now, handling>>
      BY <1>4, Zenon DEF ReloadNothing
    <2>4. Scalars'
      BY <1>1, <2>2, <2>3 DEF Scalars, statics, wakeVars, timerVars,
                              modalVars, postVars
    <2> QED BY <2>1, <2>4, TypeParts
  <1>5. CASE ReloadWorkQueue
    <2>1. Queues'
      BY <1>1, <1>5, EmptySeq DEF Queues, ReloadWorkQueue, postVars
    <2>2. Scalars'
      BY <1>1, <1>5 DEF Scalars, ReloadWorkQueue, statics, wakeVars, timerVars,
                        modalVars, postVars
    <2> QED BY <2>1, <2>2, TypeParts
  <1>6. CASE DeferTask
    <2> DEFINE e == Head(work_queue_)
    <2>1. e \in PendingTask /\ Tail(work_queue_) \in Seq(PendingTask)
      BY <1>1, <1>6, HeadTailProperties DEF Queues, DeferTask
    <2>2. e.delayed_run_time \in Nat
      BY <1>6, <2>1 DEF DeferTask, PendingTask
    <2>3. Queues'
      BY <1>1, <1>6, <2>1, InsertType DEF Queues, DeferTask, queueVars, postVars
    <2>4. /\ have_work_' \in 0 .. 2 /\ workMessages' \in Nat
          /\ delayed_work_time_' \in {Null} \union Nat
          /\ osTimer' \in [on : BOOLEAN, at : Nat]
          /\ d_hasAutoPumpTimer' \in BOOLEAN
      <3>1. CASE Earlier(e) = {}
        <4>1. ScheduleDelayedWork(e.delayed_run_time, d_hasAutoPumpTimer, osTimer)
          BY <1>6, <3>1 DEF DeferTask
        <4>2. d_hasAutoPumpTimer' \in BOOLEAN
          BY <1>1, <1>6, <3>1 DEF DeferTask, AutoAfterScheduling, Scalars
        <4> QED BY <1>1, <2>2, <4>1, <4>2, ScheduleDelayedWorkType DEF Scalars
      <3>2. CASE Earlier(e) # {}
        BY <1>1, <1>6, <3>2 DEF Scalars, DeferTask, wakeVars, timerVars
      <3> QED BY <3>1, <3>2
    <2>5. Scalars'
      BY <1>1, <1>6, <2>4 DEF Scalars, DeferTask, statics, queueVars, modalVars,
                              postVars
    <2> QED BY <2>3, <2>5, TypeParts
  <1>7. CASE RunTask
    <2>1. /\ Head(work_queue_) \in PendingTask
          /\ Tail(work_queue_) \in Seq(PendingTask)
      BY <1>1, <1>7, HeadTailProperties DEF Queues, RunTask
    <2>2. Queues'
      BY <1>1, <1>7, <2>1, AppendProperties DEF Queues, RunTask, queueVars, postVars,
                                                PendingTask
    <2>3. Scalars'
      BY <1>1, <1>3, <1>7 DEF Scalars, RunTask, statics, queueVars, wakeVars,
                              timerVars, modalVars, postVars
    <2> QED BY <2>2, <2>3, TypeParts
  <1>8. CASE DoDelayedWorkNotDue
    <2>1. delayed_work_time_' \in {Null} \union Nat
      <3>1. CASE delayed_work_queue_ = <<>> /\ delayed_work_time_' = Null
        BY <3>1
      <3>2. CASE /\ delayed_work_queue_ # <<>>
                 /\ Head(delayed_work_queue_).delayed_run_time > now
                 /\ delayed_work_time_' = Head(delayed_work_queue_).delayed_run_time
        <4>1. Head(delayed_work_queue_) \in PendingTask
          BY <1>1, <3>2, HeadTailProperties DEF Queues
        <4> QED BY <3>2, <4>1 DEF PendingTask
      <3> QED BY <1>8, <3>1, <3>2 DEF DoDelayedWorkNotDue
    <2>2. Queues'
      BY <1>1, <1>8 DEF Queues, DoDelayedWorkNotDue, queueVars, loopVars, postVars
    <2>3. pc' \in {"DoWork", "cleaned", "afterWork"}
      BY <1>2, <1>8 DEF DoDelayedWorkNotDue
    <2>4. Scalars'
      BY <1>1, <1>8, <2>1, <2>3 DEF Scalars, DoDelayedWorkNotDue, statics,
                                    queueVars, wakeVars, modalVars, postVars
    <2> QED BY <2>2, <2>4, TypeParts
  <1>9. CASE DoDelayedWorkRun
    <2> DEFINE q == delayed_work_queue_
    <2>1. /\ Head(q) \in PendingTask /\ Tail(q) \in Seq(PendingTask)
          /\ Len(Tail(q)) = Len(q) - 1 /\ Len(q) \in Nat
      BY <1>1, <1>9, HeadTailProperties, LenProperties DEF Queues, DoDelayedWorkRun
    <2>2. Tail(q) # <<>> => q[2] \in PendingTask
      BY <1>1, <2>1, EmptySeq, ElementOfSeq DEF Queues
    <2>3. delayed_work_time_' \in {Null} \union Nat
      BY <1>1, <1>9, <2>2 DEF DoDelayedWorkRun, PendingTask, Scalars
    <2>4. Queues'
      BY <1>1, <1>9, <2>1, AppendProperties DEF Queues, DoDelayedWorkRun, queueVars,
                                                postVars, PendingTask
    <2>5. pc' \in {"DoWork", "cleaned", "afterWork"}
      BY <1>2, <1>9 DEF DoDelayedWorkRun
    <2>6. Scalars'
      BY <1>1, <1>3, <1>9, <2>3, <2>5 DEF Scalars, DoDelayedWorkRun, statics,
                                          queueVars, wakeVars, modalVars, postVars
    <2> QED BY <2>4, <2>6, TypeParts
  <1> QED BY <1>4, <1>5, <1>6, <1>7, <1>8, <1>9

\* The steps of the pump after doWork.
LEMMA PumpType ==
  ASSUME TypeOK,
         AfterWork \/ Exchange1To2 \/ Exchange2To0 \/ Rearm \/ PostHandleMessage
  PROVE  TypeOK'
  <1>1. Queues /\ Scalars
    BY TypeParts
  <1>2. Queues'
    BY <1>1 DEF Queues, AfterWork, Exchange1To2, Exchange2To0, Rearm,
                PostHandleMessage, queueVars, loopVars, postVars
  <1>3. NoTimer \in [on : BOOLEAN, at : Nat] /\ TimerAfterKill \in [on : BOOLEAN, at : Nat]
    BY <1>1 DEF NoTimer, TimerAfterKill, Scalars
  <1>4. CASE AfterWork \/ Exchange1To2 \/ Exchange2To0
    <2>1. /\ d_moreWorkIsPlausible' \in BOOLEAN
          /\ UNCHANGED <<statics, message_loop_scheduled_, workMessages, timerVars,
                         modalVars, postVars, state_, appMessage, now, handling>>
      BY <1>1, <1>4 DEF Scalars, AfterWork, Exchange1To2, Exchange2To0, queueVars
    <2>2. have_work_' \in 0 .. 2
      BY <1>1, <1>4 DEF Scalars, AfterWork, Exchange1To2, Exchange2To0
    <2>3. pc' \in {"exchange1", "exchange2", "rearm"}
      BY <1>4 DEF AfterWork, Exchange1To2, Exchange2To0
    <2>4. Scalars'
      BY <1>1, <2>1, <2>2, <2>3 DEF Scalars, statics, timerVars, modalVars, postVars
    <2> QED BY <1>2, <2>4, TypeParts
  <1>5. CASE Rearm
    <2>1. /\ have_work_' \in 0 .. 2 /\ workMessages' \in Nat
          /\ delayed_work_time_' \in {Null} \union Nat
          /\ osTimer' \in [on : BOOLEAN, at : Nat]
          /\ d_hasAutoPumpTimer' \in BOOLEAN /\ d_moreWorkIsPlausible' \in BOOLEAN
      <3>1. CASE RearmStopped
        BY <1>1, <1>3, <3>1 DEF RearmStopped, Scalars, wakeVars
      <3>2. CASE RearmAutoPump
        <4>1. ScheduleDelayedWork(now, d_hasAutoPumpTimer, osTimer)
          BY <3>2 DEF RearmAutoPump
        <4> QED BY <1>1, <3>2, <4>1, ScheduleDelayedWorkType DEF RearmAutoPump, Scalars
      <3>3. CASE RearmManual
        BY <1>1, <3>3, ScheduleWorkType DEF RearmManual, Scalars, wakeVars, timerVars
      <3>4. CASE RearmIdle
        <4>1. CASE delayed_work_time_ = Null
          BY <1>1, <1>3, <3>4, <4>1 DEF RearmIdle, Scalars, wakeVars
        <4>2. CASE delayed_work_time_ # Null
          <5>1. ScheduleDelayedWork(delayed_work_time_, FALSE, TimerAfterKill)
            BY <3>4, <4>2 DEF RearmIdle
          <5>2. delayed_work_time_ \in Nat
            BY <1>1, <4>2 DEF Scalars
          <5>3. d_hasAutoPumpTimer' \in BOOLEAN /\ d_moreWorkIsPlausible' \in BOOLEAN
            BY <1>1, <3>4, <4>2 DEF RearmIdle, AutoAfterScheduling, Scalars
          <5> QED BY <1>1, <1>3, <5>1, <5>2, <5>3, ScheduleDelayedWorkType DEF Scalars
        <4> QED BY <4>1, <4>2
      <3> QED BY <1>5, <3>1, <3>2, <3>3, <3>4 DEF Rearm
    <2>2. Scalars'
      BY <1>1, <1>5, <2>1 DEF Scalars, Rearm, ReturnFrom, statics, queueVars,
                              modalVars, postVars
    <2> QED BY <1>2, <2>2, TypeParts
  <1>6. CASE PostHandleMessage
    <2>1. /\ have_work_' \in 0 .. 2 /\ workMessages' \in Nat
          /\ osTimer' \in [on : BOOLEAN, at : Nat]
          /\ d_hasAutoPumpTimer' \in BOOLEAN
      BY <1>1, <1>3, <1>6, ScheduleWorkType DEF PostHandleMessage, Scalars, wakeVars
    <2>2. Scalars'
      BY <1>1, <1>6, <2>1 DEF Scalars, PostHandleMessage, statics, queueVars, postVars
    <2> QED BY <1>2, <2>2, TypeParts
  <1> QED BY <1>4, <1>5, <1>6

\* The steps of the application and of Windows.
LEMMA ApplicationType ==
  ASSUME TypeOK, ApplicationStep \/ Tick \/ AppMessageArrives
  PROVE  TypeOK'
  <1>1. Queues /\ Scalars
    BY TypeParts
  <1>2. Queues'
    BY <1>1 DEF Queues, ApplicationStep, TakeAppMessage, HandleWorkMessage,
                HandleTimerMessage, HandleAppMessage, ExitModalLoop,
                EnterModalLoop, Cleanup, Tick, AppMessageArrives, queueVars,
                loopVars, postVars
  <1>3. Scalars'
    <2>1. CASE HandleWorkMessage
      BY <1>1, <2>1 DEF Scalars, HandleWorkMessage, StartOfDoWork, statics,
                        queueVars, timerVars, modalVars, postVars
    <2>2. CASE HandleTimerMessage
      BY <1>1, <2>2 DEF Scalars, HandleTimerMessage, StartOfDoWork, NoTimer, statics,
                        queueVars, wakeVars, modalVars, postVars
    <2>0. ReturnFrom("other") => /\ pc' \in {"idle", "postHandleMessage"}
                                 /\ handling' \in {"none", "other"}
      BY DEF ReturnFrom
    <2>3. CASE HandleAppMessage
      <3>1. /\ pc' \in {"idle", "postHandleMessage"} /\ handling' \in {"none", "other"}
            /\ appMessage' \in BOOLEAN
            /\ UNCHANGED <<pumpMode, workMessageWhileDoingWorkDisabled,
                           message_loop_scheduled_, have_work_, workMessages,
                           delayed_work_time_, osTimer, d_hasAutoPumpTimer, modalLoop,
                           s_isInModal, os_modal_loop_,
                           posting, state_, d_moreWorkIsPlausible, now>>
        BY <2>0, <2>3 DEF HandleAppMessage, statics, queueVars, wakeVars, timerVars,
                          modalVars, postVars
      <3> QED BY <1>1, <3>1 DEF Scalars
    <2>4. CASE ExitModalLoop
      <3>1. /\ pc' \in {"idle", "postHandleMessage"} /\ handling' \in {"none", "other"}
            /\ modalLoop' = "none" /\ os_modal_loop_' \in BOOLEAN
            /\ UNCHANGED <<pumpMode, workMessageWhileDoingWorkDisabled,
                           message_loop_scheduled_, have_work_, workMessages,
                           delayed_work_time_, osTimer, d_hasAutoPumpTimer, s_isInModal,
                           appMessage,
                           posting, state_, d_moreWorkIsPlausible, now>>
        BY <2>0, <2>4, <1>1 DEF ExitModalLoop, Scalars, statics, queueVars, wakeVars,
                                timerVars, postVars
      <3> QED BY <1>1, <3>1 DEF Scalars
    <2>5. ASSUME NEW kind \in {"dialog", "sizemove"}, EnterModalLoop(kind)
          PROVE  Scalars'
      <3>1. have_work_' \in 0 .. 2 /\ workMessages' \in Nat
            /\ s_isInModal' \in BOOLEAN /\ os_modal_loop_' \in BOOLEAN
        BY <1>1, <2>5, ScheduleWorkType DEF EnterModalLoop, Scalars, wakeVars
      <3>2. /\ modalLoop' \in {"dialog", "sizemove"} /\ appMessage' \in BOOLEAN
            /\ UNCHANGED <<pumpMode, workMessageWhileDoingWorkDisabled,
                           message_loop_scheduled_, delayed_work_time_, osTimer,
                           d_hasAutoPumpTimer, posting, state_,
                           d_moreWorkIsPlausible, now, pc, handling>>
        BY <2>5 DEF EnterModalLoop, statics, queueVars, timerVars, postVars
      <3> QED BY <1>1, <3>1, <3>2 DEF Scalars
    <2>6. CASE Cleanup
      BY <1>1, <2>6 DEF Scalars, Cleanup, statics, queueVars, wakeVars, timerVars,
                        modalVars, postVars
    <2>7. CASE Tick
      BY <1>1, <2>7 DEF Scalars, Tick, statics, queueVars, wakeVars, timerVars,
                        modalVars, postVars
    <2>8. CASE AppMessageArrives
      BY <1>1, <2>8 DEF Scalars, AppMessageArrives, statics, queueVars, wakeVars,
                        timerVars, modalVars, postVars
    <2> QED BY <2>1, <2>2, <2>3, <2>4, <2>5, <2>6, <2>7, <2>8 DEF ApplicationStep, TakeAppMessage
  <1> QED BY <1>2, <1>3, TypeParts

\* A pump is created with members of the right type.
LEMMA InitType == Init => TypeOK
  <1> SUFFICES ASSUME Init PROVE TypeOK
    OBVIOUS
  <1>1. Queues
    BY EmptySeq DEF Init, Queues
  <1>2. <<pumpMode, workMessageWhileDoingWorkDisabled>> \in Config
    <2>1. PICK c \in Config : pumpMode = c[1] /\ workMessageWhileDoingWorkDisabled = c[2]
      BY DEF Init
    <2>2. c = <<c[1], c[2]>>
      <3>1. \A a, b : <<a, b>>[1] = a /\ <<a, b>>[2] = b
        OBVIOUS
      <3>2. \E a, b : c = <<a, b>>
        BY ConfigAssumption, Zenon
      <3> QED BY <3>1, <3>2, Zenon
    <2> QED BY <2>1, <2>2
  <1>3. /\ message_loop_scheduled_ \in BOOLEAN /\ d_hasAutoPumpTimer \in BOOLEAN
        /\ d_moreWorkIsPlausible \in BOOLEAN /\ appMessage \in BOOLEAN
        /\ s_isInModal \in BOOLEAN /\ os_modal_loop_ \in BOOLEAN
    BY Zenon DEF Init
  <1>4. osTimer \in [on : BOOLEAN, at : Nat]
    <2>1. 0 \in Nat
      OBVIOUS
    <2> QED BY <2>1, Zenon DEF Init, NoTimer
  <1>5. /\ have_work_ = 0 /\ delayed_work_time_ = Null /\ state_ = "running"
        /\ workMessages = 0 /\ modalLoop = "none" /\ now = 0 /\ pc = "idle"
        /\ handling = "none" /\ posting = "none"
    BY Zenon DEF Init
  <1>6. Scalars
    BY <1>2, <1>3, <1>4, <1>5 DEF Scalars
  <1> QED BY <1>1, <1>6, TypeParts

\* Every step of any thread keeps the types.
LEMMA StepType ==
  ASSUME TypeOK, [Next]_vars
  PROVE  TypeOK'
  <1>1. CASE Next
    BY <1>1, PosterType, LoopType, PumpType, ApplicationType DEF Next, WorkStep
  <1>2. CASE UNCHANGED vars
    BY <1>2 DEF TypeOK, vars, statics, queueVars, loopVars, wakeVars, timerVars,
                modalVars, postVars
  <1> QED BY <1>1, <1>2

\* Every member of the pump, of the message loop and of Windows' queue keeps its
\* type; in particular have_work_ has no fourth value.
THEOREM TypeCorrect == Spec => []TypeOK
  BY InitType, StepType, PTL DEF Spec

-----------------------------------------------------------------------------
(* The invariant of have_work_, kMsgHaveWork and the two locks.            *)

\* A work message waits, or a thread is about to post one.
Waking == workMessages > 0 \/ posting = "post"

\* Until message_loop_scheduled_ is set, only a thread that is posting can have
\* left a task in the queues; so the main thread, which needs the lock to
\* find one, cannot run a task before that thread has let go of it.
NothingUnscheduled ==
  ~message_loop_scheduled_ =>
    work_queue_ = <<>> /\ (posting = "none" => incoming_queue_ = <<>>)
PosterIsScheduling == posting # "none" => ~message_loop_scheduled_

\* The flag says that there is, or will be, a work message.
FlagIsSet == Waking => have_work_ \in (IF Automatic THEN {1, 2} ELSE {1})

\* With work messages disabled the flag stays set while work is done.
FlagIsKept ==
  /\ pc \in {"DoWork", "DoDelayedWork", "afterWork"} /\ handling = "work"
  /\ Manual /\ workMessageWhileDoingWorkDisabled
  => have_work_ = 1 /\ ~Waking

\* Where the main thread can be in a handler before it decides about the flag.
Deciding == {"DoWork", "DoDelayedWork", "afterWork", "exchange1", "exchange2"}

\* AUTOMATIC mode.  A 2 found by the main thread in a handler is its own, so
\* that it may turn it into 0.
TwoIsOwn ==
  Automatic /\ handling # "cleanup" /\ pc \in Deciding /\ have_work_ = 2 => ~Waking

\* The auto-pump timer is only believed in while the flag is set.
AutoPumpIsFlagged ==
  /\ Automatic /\ state_ = "running" /\ d_hasAutoPumpTimer
  /\ pc = "rearm" => d_moreWorkIsPlausible
  => have_work_ # 0

\* A thread about to post came from a flag of 0, hence without the auto-pump
\* timer, and so the main thread sets its 2 back to 1 before it goes idle.
PosterIsSeen ==
  Automatic /\ posting = "post" /\ handling # "cleanup" =>
    /\ have_work_ = 2 =>
         /\ pc = "rearm" /\ ~d_hasAutoPumpTimer
         /\ d_moreWorkIsPlausible /\ state_ = "running"
    /\ state_ = "running" /\ pc \in Deciding \ {"DoWork"} => ~d_hasAutoPumpTimer

\* postHandleMessage is for MANUAL mode, the exchanges for AUTOMATIC.
ModesOfPc ==
  /\ pc = "postHandleMessage" => Manual
  /\ pc \in {"exchange1", "exchange2"} => Automatic /\ state_ = "running"
  /\ pc \in {"exchange1", "exchange2", "rearm", "afterWork"} => handling # "cleanup"
  /\ pc = "idle" => handling = "none"
  /\ pc = "exchange2" => ~d_moreWorkIsPlausible

\* What is about the flag.
Flags ==
  /\ FlagIsSet /\ OneWorkMessage /\ FlagIsKept
  /\ TwoIsOwn /\ AutoPumpIsFlagged /\ PosterIsSeen /\ ModesOfPc

\* What the flag relies on in AUTOMATIC mode: PostMessage does not fail.  First
\* as an assumption on the constants, then as what it means in a state.
AutomaticNeverFull == \A c \in PostMessageMayFail : c[1] # "AUTOMATIC"
RoomWhenAutomatic == Automatic => ~QueueMayBeFull

\* The inductive invariant.
Wake == TypeOK /\ NothingUnscheduled /\ PosterIsScheduling /\ Flags

\* What each way of scheduling work does to the flag and the Windows queue: a
\* message is posted only for a flag of 0, and the flag is 0 afterwards only
\* if PostMessage has failed.
Scheduled ==
  /\ have_work_' = 1 \/ (QueueMayBeFull /\ have_work_ = 0 /\ have_work_' = 0)
  /\ workMessages' = IF have_work_ = 0 /\ have_work_' = 1 THEN workMessages + 1
                     ELSE workMessages

\* ScheduleWork is one of those ways.
LEMMA ScheduleWorkIs ==
  ASSUME ScheduleWork, have_work_ \in 0 .. 2
  PROVE  Scheduled
  BY DEF ScheduleWork, Scheduled, wakeVars

\* ScheduleDelayedWork leaves the flag alone or schedules work, and does the
\* latter for a time that has come and no auto-pump timer.
LEMMA ScheduleDelayedWorkIs ==
  ASSUME NEW t \in Nat, NEW auto \in BOOLEAN, NEW timer,
         ScheduleDelayedWork(t, auto, timer), have_work_ \in 0 .. 2, now \in Nat
  PROVE  /\ Scheduled \/ UNCHANGED wakeVars
         /\ ~auto /\ t <= now => Scheduled
         /\ auto => UNCHANGED wakeVars
  <1>1. CASE auto
    BY <1>1 DEF ScheduleDelayedWork
  <1>2. CASE ~auto /\ t <= now
    <2>1. ScheduleWork
      BY <1>2 DEF ScheduleDelayedWork, BaseScheduleDelayedWork
    <2> QED BY <1>2, <2>1, ScheduleWorkIs
  <1>3. CASE ~auto /\ ~(t <= now)
    BY <1>3, Zenon DEF ScheduleDelayedWork, BaseScheduleDelayedWork
  <1> QED BY <1>1, <1>2, <1>3

\* The tasks and the lock.
LEMMA StepUnscheduled ==
  ASSUME TypeOK, NothingUnscheduled, PosterIsScheduling, [Next]_vars
  PROVE  NothingUnscheduled' /\ PosterIsScheduling'
  <1> USE DEF NothingUnscheduled, PosterIsScheduling
  <1>1. Queues /\ Scalars
    BY TypeParts
  <1>2. message_loop_scheduled_ \in BOOLEAN /\ posting \in {"none", "exchange", "post"}
    BY <1>1 DEF Scalars
  <1>3. ASSUME NEW t, NEW when, PostTask(t, when)
        PROVE  NothingUnscheduled' /\ PosterIsScheduling'
    BY <1>2, <1>3 DEF PostTask, loopVars
  <1>4. CASE PosterExchange \/ PosterPostMessage
    BY <1>2, <1>4 DEF PosterExchange, PosterPostMessage, loopVars
  <1>5. CASE ReloadNothing
    BY <1>2, <1>5 DEF ReloadNothing, loopVars, postVars, LockFree
  <1>6. CASE ReloadWorkQueue
    BY <1>2, <1>6 DEF ReloadWorkQueue, postVars, LockFree
  <1>7. CASE DeferTask \/ RunTask
    BY <1>2, <1>7 DEF DeferTask, RunTask, queueVars, postVars
  <1>8. CASE UNCHANGED <<queueVars, work_queue_, postVars>>
    BY <1>8 DEF queueVars, postVars
  <1>9. CASE Next
    <2>1. CASE PosterStep
      BY <1>3, <1>4, <2>1 DEF PosterStep, PostImmediateTask, PostDelayedTask
    <2>2. CASE WorkStep
      <3>1. CASE \/ DoDelayedWorkNotDue \/ DoDelayedWorkRun \/ AfterWork
                 \/ Exchange1To2 \/ Exchange2To0 \/ Rearm \/ PostHandleMessage
        BY <1>8, <3>1 DEF DoDelayedWorkNotDue, DoDelayedWorkRun, AfterWork,
             Exchange1To2, Exchange2To0, Rearm, PostHandleMessage, loopVars
      <3> QED BY <1>5, <1>6, <1>7, <2>2, <3>1 DEF WorkStep
    <2>3. CASE ApplicationStep \/ Tick \/ AppMessageArrives
      BY <1>8, <2>3 DEF ApplicationStep, TakeAppMessage, HandleWorkMessage, HandleTimerMessage,
           HandleAppMessage, ExitModalLoop, EnterModalLoop, Cleanup, Tick,
           AppMessageArrives, loopVars
    <2> QED BY <1>9, <2>1, <2>2, <2>3 DEF Next
  <1> QED BY <1>8, <1>9 DEF vars, loopVars

\* A thread that posts.
LEMMA PosterFlags ==
  ASSUME TypeOK, NothingUnscheduled, PosterIsScheduling, Flags, PosterStep,
         RoomWhenAutomatic
  PROVE  Flags'
  <1> USE DEF Flags, FlagIsSet, OneWorkMessage, FlagIsKept, TwoIsOwn,
              AutoPumpIsFlagged, PosterIsSeen, ModesOfPc, Waking, Automatic, Manual,
              Deciding, RoomWhenAutomatic
  <1>1. Scalars
    BY TypeParts
  <1>2. CASE PostImmediateTask \/ PostDelayedTask
    <2>1. PICK t, when : PostTask(t, when)
      BY <1>2 DEF PostImmediateTask, PostDelayedTask
    <2> QED BY <1>1, <2>1 DEF Scalars, PostTask, statics, wakeVars, timerVars
  <1>3. CASE PosterExchange
    BY <1>1, <1>3 DEF Scalars, PosterExchange, statics, timerVars
  <1>4. CASE PosterPostMessage
    BY <1>1, <1>4 DEF Scalars, PosterPostMessage, statics, timerVars
  <1> QED BY <1>2, <1>3, <1>4 DEF PosterStep

\* DoWork and DoDelayedWork.
LEMMA LoopFlags ==
  ASSUME TypeOK, NothingUnscheduled, PosterIsScheduling, Flags,
         RoomWhenAutomatic,
         \/ ReloadNothing \/ ReloadWorkQueue \/ DeferTask \/ RunTask
         \/ DoDelayedWorkNotDue \/ DoDelayedWorkRun
  PROVE  Flags'
  <1> USE DEF Flags, FlagIsSet, OneWorkMessage, FlagIsKept, TwoIsOwn,
              AutoPumpIsFlagged, PosterIsSeen, ModesOfPc, Waking, Automatic, Manual,
              Deciding, RoomWhenAutomatic
  <1>1. Queues /\ Scalars
    BY TypeParts
  <1>4. CASE ReloadNothing
    BY <1>1, <1>4 DEF Scalars, ReloadNothing, LockFree, statics, wakeVars, timerVars,
                      postVars
  <1>5. CASE ReloadWorkQueue
    BY <1>1, <1>5 DEF Scalars, ReloadWorkQueue, statics, wakeVars, timerVars, postVars
  <1>6. CASE DeferTask
    <2> DEFINE e == Head(work_queue_)
    <2>1. posting # "post"
      BY <1>6 DEF DeferTask, NothingUnscheduled, PosterIsScheduling
    <2>2. e.delayed_run_time \in Nat
      <3>1. e \in PendingTask
        BY <1>1, <1>6, HeadTailProperties DEF Queues, DeferTask
      <3> QED BY <1>6, <3>1 DEF DeferTask, PendingTask
    <2>3. \/ UNCHANGED <<wakeVars, timerVars>>
          \/ /\ ScheduleDelayedWork(e.delayed_run_time, d_hasAutoPumpTimer, osTimer)
             /\ d_hasAutoPumpTimer' =
                  AutoAfterScheduling(e.delayed_run_time, d_hasAutoPumpTimer)
      BY <1>6 DEF DeferTask
    <2>4. /\ Scheduled \/ UNCHANGED wakeVars
          /\ Automatic /\ d_hasAutoPumpTimer' => d_hasAutoPumpTimer \/ Scheduled
      BY <1>1, <2>2, <2>3, ScheduleDelayedWorkIs
         DEF Scalars, AutoAfterScheduling, wakeVars, timerVars
    <2> QED BY <1>1, <1>6, <2>1, <2>4 DEF Scalars, DeferTask, Scheduled, statics,
                                          wakeVars, postVars
  <1>7. CASE RunTask
    BY <1>1, <1>7 DEF Scalars, RunTask, NothingUnscheduled, PosterIsScheduling,
                      StateAfter, statics, wakeVars, timerVars, postVars
  <1>8. CASE DoDelayedWorkNotDue
    BY <1>1, <1>8 DEF Scalars, DoDelayedWorkNotDue, AfterIteration, statics,
                      wakeVars, postVars
  <1>9. CASE DoDelayedWorkRun
    BY <1>1, <1>9 DEF Scalars, DoDelayedWorkRun, AfterIteration, StateAfter, statics,
                      wakeVars, postVars
  <1> QED BY <1>4, <1>5, <1>6, <1>7, <1>8, <1>9

\* The pump after doWork.
LEMMA PumpFlags ==
  ASSUME TypeOK, Flags, RoomWhenAutomatic,
         AfterWork \/ Exchange1To2 \/ Exchange2To0 \/ Rearm \/ PostHandleMessage
  PROVE  Flags'
  <1> USE DEF Flags, FlagIsSet, OneWorkMessage, FlagIsKept, TwoIsOwn,
              AutoPumpIsFlagged, PosterIsSeen, ModesOfPc, Waking, Automatic, Manual,
              Deciding, RoomWhenAutomatic
  <1>1. Scalars
    BY TypeParts
  <1>2. CASE AfterWork
    BY <1>1, <1>2 DEF Scalars, AfterWork, statics, timerVars, postVars
  <1>3. CASE Exchange1To2
    <2>1. /\ have_work_ = 1 => have_work_' = 2 /\ d_moreWorkIsPlausible' /\ pc' = "rearm"
          /\ have_work_ # 1 /\ d_moreWorkIsPlausible =>
               have_work_' = have_work_ /\ d_moreWorkIsPlausible' /\ pc' = "rearm"
          /\ have_work_ # 1 /\ ~d_moreWorkIsPlausible =>
               have_work_' = have_work_ /\ ~d_moreWorkIsPlausible' /\ pc' = "exchange2"
      BY <1>3 DEF Exchange1To2
    <2>2. /\ pc = "exchange1"
          /\ UNCHANGED <<statics, timerVars, posting, state_, workMessages, handling>>
      BY <1>3 DEF Exchange1To2, postVars
    <2> QED BY <1>1, <2>1, <2>2 DEF Scalars, statics, timerVars
  <1>4. CASE Exchange2To0
    <2>1. /\ have_work_ = 1 => have_work_' = 2 /\ d_moreWorkIsPlausible'
          /\ have_work_ # 1 => have_work_' = 0 /\ ~d_moreWorkIsPlausible'
      BY <1>4 DEF Exchange2To0
    <2>2. /\ pc = "exchange2" /\ pc' = "rearm"
          /\ UNCHANGED <<statics, timerVars, posting, state_, workMessages, handling>>
      BY <1>4 DEF Exchange2To0, postVars
    <2> QED BY <1>1, <2>1, <2>2 DEF Scalars, statics, timerVars
  <1>5. CASE Rearm
    <2>1. /\ pc = "rearm" /\ pc' \in {"idle", "postHandleMessage"}
          /\ pc' = "postHandleMessage" => Manual
          /\ pc' = "idle" => handling' = "none"
          /\ UNCHANGED <<statics, posting, state_>>
      BY <1>5 DEF Rearm, ReturnFrom, postVars
    <2>2. CASE RearmStopped
      BY <1>1, <2>1, <2>2 DEF Scalars, RearmStopped, statics, wakeVars
    <2>3. CASE RearmAutoPump
      <3>1. ScheduleDelayedWork(now, d_hasAutoPumpTimer, osTimer)
        BY <2>3 DEF RearmAutoPump
      <3>2. /\ ~d_hasAutoPumpTimer => Scheduled
            /\ d_hasAutoPumpTimer => UNCHANGED wakeVars
        BY <1>1, <3>1, ScheduleDelayedWorkIs DEF Scalars
      <3> QED BY <1>1, <2>1, <2>3, <3>2 DEF Scalars, RearmAutoPump, Scheduled,
                                            statics, wakeVars
    <2>4. CASE RearmManual
      <3>1. Scheduled \/ UNCHANGED wakeVars
        BY <1>1, <2>4, ScheduleWorkIs DEF RearmManual, Scalars
      <3>2. pumpMode # "AUTOMATIC" /\ UNCHANGED timerVars
        BY <2>4 DEF RearmManual
      <3> QED BY <1>1, <2>1, <3>1, <3>2 DEF Scalars, Scheduled, statics, wakeVars,
                                            timerVars
    <2>5. CASE RearmIdle
      <3>1. /\ Scheduled \/ UNCHANGED wakeVars
            /\ Automatic /\ d_hasAutoPumpTimer' => Scheduled
        <4>1. CASE delayed_work_time_ = Null
          BY <1>1, <2>5, <4>1 DEF RearmIdle
        <4>2. CASE delayed_work_time_ # Null
          <5>1. ScheduleDelayedWork(delayed_work_time_, FALSE, TimerAfterKill)
            BY <2>5, <4>2 DEF RearmIdle
          <5>2. delayed_work_time_ \in Nat
            BY <1>1, <4>2 DEF Scalars
          <5> QED BY <1>1, <2>5, <4>2, <5>1, <5>2, ScheduleDelayedWorkIs
                  DEF RearmIdle, AutoAfterScheduling, Scalars
        <4> QED BY <4>1, <4>2
      <3>2. ~d_moreWorkIsPlausible
        BY <2>5 DEF RearmIdle
      <3> QED BY <1>1, <2>1, <3>1, <3>2 DEF Scalars, Scheduled, statics, wakeVars
    <2> QED BY <1>5, <2>2, <2>3, <2>4, <2>5 DEF Rearm
  <1>6. CASE PostHandleMessage
    <2>1. Scheduled \/ UNCHANGED wakeVars
      BY <1>1, <1>6, ScheduleWorkIs DEF PostHandleMessage, Scalars
    <2>2. /\ pumpMode # "AUTOMATIC" /\ pc' = "idle" /\ handling' = "none"
          /\ UNCHANGED <<statics, posting, state_>>
      BY <1>6 DEF PostHandleMessage, postVars
    <2> QED BY <1>1, <2>1, <2>2 DEF Scalars, Scheduled, statics, wakeVars
  <1> QED BY <1>2, <1>3, <1>4, <1>5, <1>6

\* The application and Windows.
LEMMA ApplicationFlags ==
  ASSUME TypeOK, Flags, RoomWhenAutomatic,
         ApplicationStep \/ Tick \/ AppMessageArrives
  PROVE  Flags'
  <1> USE DEF Flags, FlagIsSet, OneWorkMessage, FlagIsKept, TwoIsOwn,
              AutoPumpIsFlagged, PosterIsSeen, ModesOfPc, Waking, Automatic, Manual,
              Deciding, RoomWhenAutomatic
  <1>1. Scalars
    BY TypeParts
  <1>2. CASE HandleWorkMessage
    <2>1. /\ pumpMode \in {"MANUAL", "AUTOMATIC"}
          /\ workMessageWhileDoingWorkDisabled \in BOOLEAN
          /\ workMessageWhileDoingWorkDisabled => pumpMode = "MANUAL"
      BY <1>1, Modes DEF Scalars
    <2> QED BY <1>1, <1>2, <2>1 DEF Scalars, HandleWorkMessage, StartOfDoWork,
                                    statics, timerVars, postVars
  <1>3. CASE HandleTimerMessage
    BY <1>1, <1>3 DEF Scalars, HandleTimerMessage, StartOfDoWork, statics, wakeVars,
                      postVars
  <1>4. CASE HandleAppMessage
    BY <1>1, <1>4 DEF Scalars, HandleAppMessage, ReturnFrom, statics, wakeVars,
                      timerVars, postVars
  <1>5. CASE ExitModalLoop
    BY <1>1, <1>5 DEF Scalars, ExitModalLoop, ReturnFrom, statics, wakeVars,
                      timerVars, postVars
  <1>6. ASSUME NEW kind \in {"dialog", "sizemove"}, EnterModalLoop(kind)
        PROVE  Flags'
    <2>1. Scheduled \/ UNCHANGED wakeVars
      BY <1>1, <1>6, ScheduleWorkIs DEF EnterModalLoop, Scalars
    <2>2. pc = "idle" /\ UNCHANGED <<statics, timerVars, posting, state_, pc, handling>>
      BY <1>6 DEF EnterModalLoop, postVars
    <2> QED BY <1>1, <2>1, <2>2 DEF Scalars, Scheduled, statics, wakeVars, timerVars
  <1>7. CASE Cleanup
    BY <1>1, <1>7 DEF Scalars, Cleanup, statics, wakeVars, timerVars, postVars
  <1>8. CASE Tick \/ AppMessageArrives
    BY <1>1, <1>8 DEF Tick, AppMessageArrives, statics, wakeVars, timerVars, postVars
  <1> QED BY <1>2, <1>3, <1>4, <1>5, <1>6, <1>7, <1>8 DEF ApplicationStep, TakeAppMessage

\* The assumption on the constants is one on the mode of the pump.
LEMMA RoomInQueue ==
  ASSUME AutomaticNeverFull
  PROVE  RoomWhenAutomatic
  BY DEF AutomaticNeverFull, RoomWhenAutomatic, QueueMayBeFull, Automatic, statics

\* A new pump has no messages and no tasks.
LEMMA InitWake == Init => Wake
  BY InitType, EmptySeq
     DEF Init, Wake, NothingUnscheduled, PosterIsScheduling, Flags, FlagIsSet,
         OneWorkMessage, FlagIsKept, TwoIsOwn, AutoPumpIsFlagged, PosterIsSeen,
         ModesOfPc, Waking, Deciding

\* Every step of any thread keeps the invariant.
LEMMA StepWake ==
  ASSUME AutomaticNeverFull, Wake, [Next]_vars
  PROVE  Wake'
  <1>1. TypeOK' /\ NothingUnscheduled' /\ PosterIsScheduling'
    BY StepType, StepUnscheduled DEF Wake
  <1>2. CASE Next
    <2>1. Flags'
      BY <1>2, RoomInQueue, PosterFlags, LoopFlags, PumpFlags, ApplicationFlags
         DEF Wake, Next, WorkStep
    <2> QED BY <1>1, <2>1 DEF Wake
  <1>3. CASE UNCHANGED vars
    BY <1>1, <1>3 DEF Wake, Flags, FlagIsSet, OneWorkMessage, FlagIsKept, TwoIsOwn,
         AutoPumpIsFlagged, PosterIsSeen, ModesOfPc, Waking, Automatic, Manual, vars,
         statics, wakeVars, timerVars, postVars
  <1> QED BY <1>2, <1>3

\* The inductive invariant of have_work_, the work messages and the lock, in
\* every mode, as long as Windows' queue is not full in AUTOMATIC mode.
THEOREM WakeIsInvariant ==
  ASSUME AutomaticNeverFull
  PROVE  Spec => []Wake
  <1>1. Init => Wake
    BY InitWake
  <1>2. Wake /\ [Next]_vars => Wake'
    BY StepWake
  <1> QED BY <1>1, <1>2, PTL DEF Spec

\* The DCHECKs of handleWorkMessage hold.
THEOREM HaveWorkDChecksHold ==
  ASSUME AutomaticNeverFull
  PROVE  Spec => []HaveWorkDChecks
  <1>1. Wake => HaveWorkDChecks
    BY DEF Wake, Flags, FlagIsSet, FlagIsKept, Waking, HaveWorkDChecks
  <1> QED BY <1>1, WakeIsInvariant, PTL

\* The Windows queue never holds two work messages, however many threads post
\* and whatever the main thread does to the flag meanwhile.
THEOREM OneWorkMessageAtMost ==
  ASSUME AutomaticNeverFull
  PROVE  Spec => []OneWorkMessage
  <1>1. Wake => OneWorkMessage
    BY DEF Wake, Flags
  <1> QED BY <1>1, WakeIsInvariant, PTL

-----------------------------------------------------------------------------
(* The order in which tasks run.  Nothing is said of what a sequence of    *)
(* tasks is as a whole: Holds and Precedes of a concatenation follow from  *)
(* those of its parts, and the steps of the program use nothing else.      *)

\* Membership and order in a concatenation.
LEMMA ConcatOrder ==
  ASSUME NEW S, NEW a \in Seq(S), NEW b \in Seq(S), NEW s, NEW t
  PROVE  /\ Holds(a \o b, t) <=> Holds(a, t) \/ Holds(b, t)
         /\ Precedes(a \o b, s, t) <=> \/ Precedes(a, s, t)
                                       \/ Precedes(b, s, t)
                                       \/ Holds(a, s) /\ Holds(b, t)
  <1> DEFINE c == a \o b
             m == Len(a)
             n == Len(b)
  <1>1. /\ m \in Nat /\ n \in Nat /\ Len(c) = m + n
        /\ \A i \in 1 .. m + n : c[i] = IF i <= m THEN a[i] ELSE b[i - m]
    BY ConcatProperties, LenProperties
  <1>2. /\ \A i \in 1 .. m : i \in 1 .. Len(c) /\ c[i] = a[i]
        /\ \A i \in 1 .. n : i + m \in 1 .. Len(c) /\ c[i + m] = b[i]
        /\ \A i \in 1 .. Len(c) : \/ i \in 1 .. m
                                  \/ i - m \in 1 .. n /\ (i - m) + m = i
    BY <1>1
  <1> HIDE DEF c, m, n
  <1>3. Holds(c, t) <=> Holds(a, t) \/ Holds(b, t)
    <2>1. ASSUME Holds(c, t) PROVE Holds(a, t) \/ Holds(b, t)
      <3>1. PICK i \in 1 .. Len(c) : c[i] = t
        BY <2>1 DEF Holds
      <3>2. CASE i \in 1 .. m
        BY <1>2, <3>1, <3>2 DEF Holds, m
      <3>3. CASE i - m \in 1 .. n /\ (i - m) + m = i
        <4>1. b[i - m] = t
          BY <1>2, <3>1, <3>3
        <4> QED BY <3>3, <4>1 DEF Holds, n
      <3> QED BY <1>2, <3>1, <3>2, <3>3
    <2>2. ASSUME Holds(a, t) PROVE Holds(c, t)
      BY <1>2, <2>2 DEF Holds, m
    <2>3. ASSUME Holds(b, t) PROVE Holds(c, t)
      BY <1>2, <2>3 DEF Holds, n
    <2> QED BY <2>1, <2>2, <2>3
  <1>4. ASSUME Precedes(c, s, t)
        PROVE  Precedes(a, s, t) \/ Precedes(b, s, t) \/ (Holds(a, s) /\ Holds(b, t))
    <2>1. PICK i \in 1 .. Len(c), j \in 1 .. Len(c) : i < j /\ c[i] = s /\ c[j] = t
      BY <1>4 DEF Precedes
    <2>2. CASE i \in 1 .. m /\ j \in 1 .. m
      <3>1. a[i] = s /\ a[j] = t
        BY <1>2, <2>1, <2>2
      <3> QED BY <2>1, <2>2, <3>1 DEF Precedes, m
    <2>3. CASE i \in 1 .. m /\ j - m \in 1 .. n /\ (j - m) + m = j
      <3>1. a[i] = s /\ b[j - m] = t
        BY <1>2, <2>1, <2>3
      <3> QED BY <2>3, <3>1 DEF Holds, m, n
    <2>4. CASE i - m \in 1 .. n /\ (i - m) + m = i /\ j - m \in 1 .. n /\ (j - m) + m = j
      <3>1. b[i - m] = s /\ b[j - m] = t
        BY <1>2, <2>1, <2>4
      <3>2. i - m < j - m
        BY <1>1, <2>1
      <3> QED BY <2>4, <3>1, <3>2 DEF Precedes, n
    <2>5. ~(i \notin 1 .. m /\ j \in 1 .. m)
      BY <1>1, <2>1
    <2> QED BY <1>2, <2>1, <2>2, <2>3, <2>4, <2>5
  <1>5. ASSUME Precedes(a, s, t) PROVE Precedes(c, s, t)
    <2>1. PICK i \in 1 .. m, j \in 1 .. m : i < j /\ a[i] = s /\ a[j] = t
      BY <1>5 DEF Precedes, m
    <2> QED BY <1>2, <2>1 DEF Precedes
  <1>6. ASSUME Precedes(b, s, t) PROVE Precedes(c, s, t)
    <2>1. PICK i \in 1 .. n, j \in 1 .. n : i < j /\ b[i] = s /\ b[j] = t
      BY <1>6 DEF Precedes, n
    <2>2. i + m < j + m
      BY <1>1, <2>1
    <2> QED BY <1>2, <2>1, <2>2 DEF Precedes
  <1>7. ASSUME Holds(a, s), Holds(b, t) PROVE Precedes(c, s, t)
    <2>1. PICK i \in 1 .. m : a[i] = s
      BY <1>7 DEF Holds, m
    <2>2. PICK j \in 1 .. n : b[j] = t
      BY <1>7 DEF Holds, n
    <2>3. i < j + m
      BY <1>1
    <2> QED BY <1>2, <2>1, <2>2, <2>3 DEF Precedes
  <1> QED BY <1>3, <1>4, <1>5, <1>6, <1>7 DEF c

\* A sequence of one task.
LEMMA SingleOrder ==
  ASSUME NEW e, NEW s, NEW t
  PROVE  /\ Holds(<<e>>, t) <=> t = e
         /\ ~Precedes(<<e>>, s, t)
  <1>1. Len(<<e>>) = 1 /\ <<e>>[1] = e
    OBVIOUS
  <1> QED BY <1>1 DEF Holds, Precedes

\* A task more at the end, or in the middle.
LEMMA OneMore ==
  ASSUME NEW S, NEW a \in Seq(S), NEW b \in Seq(S), NEW e \in S, NEW s, NEW t
  PROVE  /\ Holds(Append(a, e), t) <=> Holds(a, t) \/ t = e
         /\ Precedes(Append(a, e), s, t) <=> \/ Precedes(a, s, t)
                                             \/ Holds(a, s) /\ t = e
         /\ t # e => (Holds(Append(a, e) \o b, t) <=> Holds(a \o b, t))
         /\ s # e /\ t # e =>
              (Precedes(Append(a, e) \o b, s, t) <=> Precedes(a \o b, s, t))
  <1>1. <<e>> \in Seq(S) /\ Append(a, e) = a \o <<e>> /\ Append(a, e) \in Seq(S)
    BY AppendIsConcat, AppendProperties
  <1>2. /\ \A u : Holds(Append(a, e), u) <=> Holds(a, u) \/ u = e
        /\ Precedes(Append(a, e), s, t) <=> \/ Precedes(a, s, t)
                                            \/ Holds(a, s) /\ t = e
    <2>1. \A u : Holds(a \o <<e>>, u) <=> Holds(a, u) \/ Holds(<<e>>, u)
      BY <1>1, ConcatOrder
    <2>2. Precedes(a \o <<e>>, s, t) <=> \/ Precedes(a, s, t)
                                         \/ Precedes(<<e>>, s, t)
                                         \/ Holds(a, s) /\ Holds(<<e>>, t)
      BY <1>1, ConcatOrder
    <2>3. (\A u : Holds(<<e>>, u) <=> u = e) /\ ~Precedes(<<e>>, s, t)
      BY SingleOrder
    <2> QED BY <1>1, <2>1, <2>2, <2>3
  <1>3. /\ Holds(Append(a, e) \o b, t) <=> Holds(Append(a, e), t) \/ Holds(b, t)
        /\ Precedes(Append(a, e) \o b, s, t) <=> \/ Precedes(Append(a, e), s, t)
                                                 \/ Precedes(b, s, t)
                                                 \/ Holds(Append(a, e), s) /\ Holds(b, t)
    BY <1>1, ConcatOrder
  <1>4. /\ Holds(a \o b, t) <=> Holds(a, t) \/ Holds(b, t)
        /\ Precedes(a \o b, s, t) <=> \/ Precedes(a, s, t)
                                      \/ Precedes(b, s, t)
                                      \/ Holds(a, s) /\ Holds(b, t)
    BY ConcatOrder
  <1> QED BY <1>2, <1>3, <1>4

\* Of the others, a task in the middle changes nothing.
LEMMA OneBetween ==
  ASSUME NEW S, NEW a \in Seq(S), NEW b \in Seq(S), NEW e \in S
  PROVE  \A s, t :
           /\ t # e => (Holds(Append(a, e) \o b, t) <=> Holds(a \o b, t))
           /\ s # e /\ t # e =>
                (Precedes(Append(a, e) \o b, s, t) <=> Precedes(a \o b, s, t))
  BY OneMore

\* The tasks of a queue of entries.
LEMMA TasksOfQueue ==
  ASSUME NEW q \in Seq(PendingTask)
  PROVE  /\ TasksOf(q) \in Seq(Task \union DelayedTask)
         /\ Len(TasksOf(q)) = Len(q)
         /\ \A i \in 1 .. Len(q) : TasksOf(q)[i] = q[i].task
         /\ q = <<>> => TasksOf(q) = <<>>
         /\ \A e \in PendingTask :
              TasksOf(Append(q, e)) = Append(TasksOf(q), e.task)
         /\ q # <<>> => TasksOf(q) = <<Head(q).task>> \o TasksOf(Tail(q))
  <1> DEFINE T == Task \union DelayedTask
  <1>1. ASSUME NEW r \in Seq(PendingTask)
        PROVE  /\ TasksOf(r) \in Seq(T) /\ Len(TasksOf(r)) = Len(r) /\ Len(r) \in Nat
               /\ \A i \in 1 .. Len(r) : TasksOf(r)[i] = r[i].task /\ r[i].task \in T
    <2>1. Len(r) \in Nat /\ \A i \in 1 .. Len(r) : r[i] \in PendingTask
      BY LenProperties, ElementOfSeq
    <2>2. \A i \in 1 .. Len(r) : r[i].task \in T
      BY <2>1 DEF PendingTask
    <2>3. [i \in 1 .. Len(r) |-> r[i].task] \in Seq(T)
      BY <2>1, <2>2, IsASeq
    <2>4. Len(TasksOf(r)) = Len(r)
      BY <2>1, <2>3, LenProperties DEF TasksOf
    <2> QED BY <2>1, <2>2, <2>3, <2>4 DEF TasksOf
  <1>2. q = <<>> => TasksOf(q) = <<>>
    BY <1>1, EmptySeq
  <1>3. ASSUME NEW e \in PendingTask
        PROVE  TasksOf(Append(q, e)) = Append(TasksOf(q), e.task)
    <2> DEFINE l == TasksOf(Append(q, e))
               r == Append(TasksOf(q), e.task)
    <2>1. /\ Append(q, e) \in Seq(PendingTask)
          /\ Len(Append(q, e)) = Len(q) + 1
          /\ \A i \in 1 .. Len(q) : Append(q, e)[i] = q[i]
          /\ Append(q, e)[Len(q) + 1] = e
      BY AppendProperties
    <2>2. e.task \in T
      BY DEF PendingTask
    <2>3. /\ r \in Seq(T) /\ Len(r) = Len(q) + 1
          /\ \A i \in 1 .. Len(q) : r[i] = TasksOf(q)[i]
          /\ r[Len(q) + 1] = e.task
      BY <1>1, <2>2, AppendProperties
    <2>4. l \in Seq(T) /\ Len(l) = Len(q) + 1
      BY <1>1, <2>1
    <2>5. ASSUME NEW i \in 1 .. Len(q) + 1 PROVE l[i] = r[i]
      <3>1. l[i] = Append(q, e)[i].task
        BY <1>1, <2>1
      <3>2. CASE i \in 1 .. Len(q)
        BY <1>1, <2>1, <2>3, <3>1, <3>2
      <3>3. CASE i = Len(q) + 1
        BY <2>1, <2>3, <3>1, <3>3
      <3> QED BY <1>1, <3>2, <3>3
    <2> HIDE DEF l, r
    <2>6. l = r
      BY <2>3, <2>4, <2>5, SeqEqual
    <2> QED BY <2>6 DEF l, r
  <1>4. ASSUME q # <<>>
        PROVE  TasksOf(q) = <<Head(q).task>> \o TasksOf(Tail(q))
    <2> DEFINE l == TasksOf(q)
               h == <<Head(q).task>>
               u == TasksOf(Tail(q))
               r == h \o u
    <2>1. /\ Head(q) \in PendingTask /\ Tail(q) \in Seq(PendingTask)
          /\ Len(Tail(q)) = Len(q) - 1 /\ Len(q) \in Nat /\ Len(q) > 0
          /\ \A i \in 1 .. Len(Tail(q)) : Tail(q)[i] = q[i + 1]
          /\ Head(q) = q[1]
      BY <1>4, HeadTailProperties, LenProperties, EmptySeq
    <2>2. h \in Seq(T) /\ Len(h) = 1 /\ h[1] = Head(q).task
      BY <2>1 DEF PendingTask
    <2>3. /\ u \in Seq(T) /\ Len(u) = Len(q) - 1
          /\ \A i \in 1 .. Len(q) - 1 : u[i] = q[i + 1].task
      <3>1. /\ u \in Seq(T) /\ Len(u) = Len(Tail(q))
            /\ \A i \in 1 .. Len(Tail(q)) : u[i] = Tail(q)[i].task
        BY <1>1, <2>1
      <3> HIDE DEF u
      <3> QED BY <2>1, <3>1
    <2>4. l \in Seq(T) /\ Len(l) = Len(q) /\ \A i \in 1 .. Len(q) : l[i] = q[i].task
      BY <1>1
    <2> HIDE DEF h, u, l
    <2>5. /\ r \in Seq(T) /\ Len(r) = Len(h) + Len(u)
          /\ \A i \in 1 .. Len(h) + Len(u) : r[i] = IF i <= Len(h) THEN h[i] ELSE u[i - Len(h)]
      BY <2>2, <2>3, ConcatProperties
    <2> HIDE DEF r
    <2>6. ASSUME NEW i \in 1 .. Len(q) PROVE l[i] = r[i]
      <3>1. CASE i = 1
        BY <2>1, <2>2, <2>3, <2>4, <2>5, <3>1
      <3>2. CASE i # 1
        <4>1. r[i] = u[i - 1] /\ i - 1 \in 1 .. Len(q) - 1
          BY <2>1, <2>2, <2>3, <2>5, <3>2
        <4>2. u[i - 1] = q[(i - 1) + 1].task /\ (i - 1) + 1 = i
          BY <2>1, <2>3, <4>1
        <4> QED BY <2>4, <4>1, <4>2
      <3> QED BY <3>1, <3>2
    <2>7. Len(r) = Len(q)
      BY <2>1, <2>2, <2>3, <2>5
    <2>8. l = r
      BY <2>4, <2>5, <2>6, <2>7, SeqEqual
    <2> QED BY <2>8 DEF l, r, h, u
  <1> QED BY <1>1, <1>2, <1>3, <1>4

\* An entry as PostImmediateTask and PostDelayedTask make it, and one that was deferred.
Entry == {e \in PendingTask : e.delayed_run_time = Null <=> e.task \in Task}
DelayedEntry == {e \in PendingTask : e.task \notin Task}

\* Only tasks posted without delay are taken for such, and only the others are
\* ever in the delayed queue.
DelaysAreKept ==
  /\ incoming_queue_ \in Seq(Entry)
  /\ work_queue_ \in Seq(Entry)
  /\ delayed_work_queue_ \in Seq(DelayedEntry)

\* No task is posted twice.
PostedOnce == \A t : ~Precedes(posted, t, t)

\* Together with TypeOK these are inductive.
PostOrderInv == DelaysAreKept /\ PostedOnce /\ RunInPostOrder

\* Line is a sequence of tasks, before and after a step.
LEMMA LineType ==
  ASSUME Queues
  PROVE  /\ TasksOf(work_queue_) \in Seq(Task \union DelayedTask)
         /\ TasksOf(incoming_queue_) \in Seq(Task \union DelayedTask)
         /\ ran \o TasksOf(work_queue_) \in Seq(Task \union DelayedTask)
         /\ Line \in Seq(Task \union DelayedTask)
  <1>1. /\ TasksOf(work_queue_) \in Seq(Task \union DelayedTask)
        /\ TasksOf(incoming_queue_) \in Seq(Task \union DelayedTask)
    BY TasksOfQueue DEF Queues
  <1>2. ran \o TasksOf(work_queue_) \in Seq(Task \union DelayedTask)
    BY <1>1, ConcatProperties DEF Queues
  <1> QED BY <1>1, <1>2, ConcatProperties DEF Line

\* The order is kept by a step that leaves Line and the posted tasks alone, and
\* by one that adds a delayed task to Line or takes one out.
LEMMA OrderKept ==
  ASSUME RunInPostOrder, UNCHANGED posted,
         \A s, t \in Task : /\ Holds(Line', t) <=> Holds(Line, t)
                            /\ Precedes(Line', s, t) <=> Precedes(Line, s, t)
  PROVE  RunInPostOrder'
  BY DEF RunInPostOrder

\* A task is posted: it is the last to run.
LEMMA PostKeepsOrder ==
  ASSUME TypeOK, DelaysAreKept, PostedOnce, RunInPostOrder,
         NEW t \in Task \union DelayedTask, NEW when \in {Null} \union Nat,
         when = Null <=> t \in Task, PostTask(t, when)
  PROVE  DelaysAreKept' /\ PostedOnce' /\ RunInPostOrder'
  <1> DEFINE T == Task \union DelayedTask
             e == [task |-> t, delayed_run_time |-> when]
  <1>1. Queues
    BY TypeParts
  <1>2. e \in PendingTask /\ e \in Entry /\ e.task = t
    BY DEF PendingTask, Entry
  <1>3. /\ incoming_queue_' = Append(incoming_queue_, e)
        /\ posted' = Append(posted, t)
        /\ ~Holds(posted, t)
        /\ UNCHANGED <<work_queue_, delayed_work_queue_, ran>>
    BY DEF PostTask, loopVars, Holds
  <1>4. DelaysAreKept'
    BY <1>2, <1>3, AppendProperties DEF DelaysAreKept
  <1>5. Line' = Append(Line, t)
    <2>1. TasksOf(incoming_queue_') = Append(TasksOf(incoming_queue_), t)
      BY <1>1, <1>2, <1>3, TasksOfQueue DEF Queues
    <2>2. /\ ran \o TasksOf(work_queue_) \in Seq(T)
          /\ TasksOf(incoming_queue_) \in Seq(T) /\ Line \in Seq(T)
      BY <1>1, LineType
    <2>3. /\ Append(TasksOf(incoming_queue_), t) = TasksOf(incoming_queue_) \o <<t>>
          /\ Append(Line, t) = Line \o <<t>> /\ <<t>> \in Seq(T)
      BY <2>2, AppendIsConcat
    <2>4. Line' = (ran \o TasksOf(work_queue_)) \o (TasksOf(incoming_queue_) \o <<t>>)
      BY <1>3, <2>1, <2>3 DEF Line
    <2>5. Line \o <<t>> = (ran \o TasksOf(work_queue_)) \o (TasksOf(incoming_queue_) \o <<t>>)
      BY <2>2, <2>3, ConcatAssociative DEF Line
    <2> QED BY <2>3, <2>4, <2>5
  <1>6. Line \in Seq(T) /\ posted \in Seq(T)
    BY <1>1, LineType DEF Queues
  <1>7. \A r, u : /\ Holds(Line', u) <=> Holds(Line, u) \/ u = t
                  /\ Precedes(Line', r, u) <=> \/ Precedes(Line, r, u)
                                               \/ Holds(Line, r) /\ u = t
    BY <1>5, <1>6, OneMore
  <1>8. \A r, u : /\ Holds(posted', u) <=> Holds(posted, u) \/ u = t
                  /\ Precedes(posted', r, u) <=> \/ Precedes(posted, r, u)
                                                 \/ Holds(posted, r) /\ u = t
    <2>1. posted' = Append(posted, t)
      BY <1>3
    <2> QED BY <1>6, <2>1, OneMore
  <1>9. PostedOnce'
    BY <1>3, <1>8 DEF PostedOnce
  <1>10. RunInPostOrder'
    BY <1>3, <1>7, <1>8 DEF RunInPostOrder
  <1> QED BY <1>4, <1>9, <1>10

\* The incoming queue becomes the work queue.
LEMMA ReloadKeepsOrder ==
  ASSUME TypeOK, DelaysAreKept, RunInPostOrder, ReloadWorkQueue
  PROVE  DelaysAreKept' /\ RunInPostOrder'
  <1> DEFINE T == Task \union DelayedTask
  <1>1. Queues
    BY TypeParts
  <1>2. /\ work_queue_ = <<>> /\ work_queue_' = incoming_queue_
        /\ incoming_queue_' = <<>>
        /\ UNCHANGED <<delayed_work_queue_, ran, posted>>
    BY DEF ReloadWorkQueue, postVars
  <1>3. DelaysAreKept'
    BY <1>2, EmptySeq DEF DelaysAreKept
  <1>4. TasksOf(<<>>) = <<>>
    BY EmptySeq, TasksOfQueue
  <1>5. ran \in Seq(T) /\ TasksOf(incoming_queue_) \in Seq(T)
    BY <1>1, LineType DEF Queues
  <1>6. /\ ran \o <<>> = ran
        /\ (ran \o TasksOf(incoming_queue_)) \o <<>> = ran \o TasksOf(incoming_queue_)
    BY <1>5, ConcatProperties, ConcatEmptySeq
  <1>7. Line' = Line
    BY <1>2, <1>4, <1>6 DEF Line
  <1> QED BY <1>2, <1>3, <1>7, OrderKept

\* The first task of the work queue has run.
LEMMA RunKeepsOrder ==
  ASSUME TypeOK, DelaysAreKept, RunInPostOrder, RunTask
  PROVE  DelaysAreKept' /\ RunInPostOrder'
  <1> DEFINE T == Task \union DelayedTask
             e == Head(work_queue_)
             w == TasksOf(Tail(work_queue_))
  <1>1. Queues
    BY TypeParts
  <1>2. /\ work_queue_ # <<>> /\ work_queue_' = Tail(work_queue_)
        /\ ran' = Append(ran, e.task)
        /\ UNCHANGED <<incoming_queue_, delayed_work_queue_, posted>>
    BY DEF RunTask, queueVars, postVars
  <1>3. DelaysAreKept'
    BY <1>2, HeadTailProperties DEF DelaysAreKept
  <1>4. /\ e \in PendingTask /\ Tail(work_queue_) \in Seq(PendingTask)
        /\ e.task \in T
    <2>1. e \in PendingTask /\ Tail(work_queue_) \in Seq(PendingTask)
      BY <1>1, <1>2, HeadTailProperties DEF Queues
    <2> QED BY <2>1 DEF PendingTask
  <1>5. w \in Seq(T) /\ ran \in Seq(T) /\ <<e.task>> \in Seq(T)
    <2>1. <<e.task>> \in Seq(T)
      BY <1>4
    <2>2. w \in Seq(T)
      BY <1>4, TasksOfQueue
    <2> QED BY <1>1, <2>1, <2>2 DEF Queues
  <1>6. ran' = ran \o <<e.task>>
    BY <1>2, <1>4, <1>5, AppendIsConcat
  <1>7. TasksOf(work_queue_) = <<e.task>> \o w
    BY <1>1, <1>2, TasksOfQueue DEF Queues
  <1>8. (ran \o <<e.task>>) \o w = ran \o (<<e.task>> \o w)
    BY <1>5, ConcatAssociative
  <1>9. Line' = Line
    BY <1>2, <1>6, <1>7, <1>8 DEF Line
  <1> QED BY <1>2, <1>3, <1>9, OrderKept

\* A delayed task leaves the line.
LEMMA DeferKeepsOrder ==
  ASSUME TypeOK, DelaysAreKept, RunInPostOrder, DeferTask
  PROVE  DelaysAreKept' /\ RunInPostOrder'
  <1> DEFINE T == Task \union DelayedTask
             e == Head(work_queue_)
             w == TasksOf(Tail(work_queue_))
             b == w \o TasksOf(incoming_queue_)
  <1>1. Queues
    BY TypeParts
  <1>2. /\ work_queue_ # <<>> /\ work_queue_' = Tail(work_queue_)
        /\ delayed_work_queue_' = Insert(e) /\ e.delayed_run_time # Null
        /\ UNCHANGED <<incoming_queue_, ran, posted>>
    BY DEF DeferTask, queueVars, postVars
  <1>3. e \in DelayedEntry /\ e \in PendingTask
    <2>1. e \in Entry
      BY <1>2, HeadTailProperties DEF DelaysAreKept
    <2> QED BY <1>2, <2>1 DEF Entry, DelayedEntry
  <1>4. DelaysAreKept'
    <2>1. Insert(e) \in Seq(DelayedEntry)
      BY <1>3, InsertType DEF DelaysAreKept
    <2> QED BY <1>2, <2>1, HeadTailProperties DEF DelaysAreKept
  <1>5. e.task \in T /\ e.task \notin Task
    BY <1>3 DEF DelayedEntry, PendingTask
  <1>6. /\ w \in Seq(T) /\ ran \in Seq(T) /\ <<e.task>> \in Seq(T)
        /\ TasksOf(incoming_queue_) \in Seq(T)
    <2>1. Tail(work_queue_) \in Seq(PendingTask)
      BY <1>1, <1>2, HeadTailProperties DEF Queues
    <2>2. <<e.task>> \in Seq(T)
      BY <1>5
    <2>3. w \in Seq(T) /\ TasksOf(incoming_queue_) \in Seq(T)
      BY <1>1, <2>1, TasksOfQueue DEF Queues
    <2> QED BY <1>1, <2>2, <2>3 DEF Queues
  <1>7. TasksOf(work_queue_) = <<e.task>> \o w
    BY <1>1, <1>2, TasksOfQueue DEF Queues
  <1> HIDE DEF w
  <1>8. b \in Seq(T)
    BY <1>6, ConcatProperties
  <1>9. Line = Append(ran, e.task) \o b
    <2>1. Append(ran, e.task) = ran \o <<e.task>> /\ Append(ran, e.task) \in Seq(T)
      BY <1>5, <1>6, AppendIsConcat, AppendProperties
    <2>2. (ran \o <<e.task>>) \o w = ran \o (<<e.task>> \o w)
      BY <1>6, ConcatAssociative
    <2>3. ASSUME NEW x \in Seq(T), NEW y \in Seq(T), NEW z \in Seq(T)
          PROVE  (x \o y) \o z = x \o (y \o z)
      BY ConcatAssociative
    <2>4. (Append(ran, e.task) \o w) \o TasksOf(incoming_queue_)
            = Append(ran, e.task) \o b
      BY <1>6, <2>1, <2>3
    <2>5. Line = (ran \o TasksOf(work_queue_)) \o TasksOf(incoming_queue_)
      BY DEF Line
    <2> QED BY <1>7, <2>1, <2>2, <2>4, <2>5
  <1>10. Line' = ran \o b
    <2>1. Line' = (ran \o w) \o TasksOf(incoming_queue_)
      BY <1>2 DEF Line, w
    <2>2. ASSUME NEW x \in Seq(T), NEW y \in Seq(T), NEW z \in Seq(T)
          PROVE  (x \o y) \o z = x \o (y \o z)
      BY ConcatAssociative
    <2> QED BY <1>6, <2>1, <2>2
  <1>11. \A s, t \in Task : s # e.task /\ t # e.task
    BY <1>5
  <1> HIDE DEF b
  <1>12. \A s, t \in Task : /\ Holds(Line', t) <=> Holds(Line, t)
                            /\ Precedes(Line', s, t) <=> Precedes(Line, s, t)
    <2>1. \A s, t :
            /\ t # e.task =>
                 (Holds(Append(ran, e.task) \o b, t) <=> Holds(ran \o b, t))
            /\ s # e.task /\ t # e.task =>
                 (Precedes(Append(ran, e.task) \o b, s, t) <=> Precedes(ran \o b, s, t))
      BY <1>5, <1>6, <1>8, OneBetween
    <2> QED BY <1>9, <1>10, <1>11, <2>1
  <1> QED BY <1>2, <1>4, <1>12, OrderKept

\* A delayed task runs whenever its time has come.
LEMMA DelayedRunKeepsOrder ==
  ASSUME TypeOK, DelaysAreKept, RunInPostOrder, DoDelayedWorkRun
  PROVE  DelaysAreKept' /\ RunInPostOrder'
  <1> DEFINE T == Task \union DelayedTask
             e == Head(delayed_work_queue_)
             w == TasksOf(work_queue_)
             b == w \o TasksOf(incoming_queue_)
  <1>1. Queues
    BY TypeParts
  <1>2. /\ delayed_work_queue_ # <<>>
        /\ delayed_work_queue_' = Tail(delayed_work_queue_)
        /\ ran' = Append(ran, e.task)
        /\ UNCHANGED <<incoming_queue_, work_queue_, posted>>
    BY DEF DoDelayedWorkRun, queueVars, postVars
  <1>3. DelaysAreKept' /\ e \in DelayedEntry
    BY <1>2, HeadTailProperties DEF DelaysAreKept
  <1>4. e.task \in T /\ e.task \notin Task
    BY <1>3 DEF DelayedEntry, PendingTask
  <1>5. w \in Seq(T) /\ TasksOf(incoming_queue_) \in Seq(T) /\ ran \in Seq(T)
    BY <1>1, LineType DEF Queues
  <1>6. Append(ran, e.task) \in Seq(T) /\ b \in Seq(T)
    BY <1>4, <1>5, AppendProperties, ConcatProperties
  <1>7. Line = ran \o b
    BY <1>5, ConcatAssociative DEF Line
  <1>8. Line' = Append(ran, e.task) \o b
    <2>1. Line' = (Append(ran, e.task) \o w) \o TasksOf(incoming_queue_)
      BY <1>2 DEF Line
    <2> HIDE DEF w
    <2>2. ASSUME NEW x \in Seq(T), NEW y \in Seq(T), NEW z \in Seq(T)
          PROVE  (x \o y) \o z = x \o (y \o z)
      BY ConcatAssociative
    <2> QED BY <1>5, <1>6, <2>1, <2>2
  <1>9. \A s, t \in Task : s # e.task /\ t # e.task
    BY <1>4
  <1> HIDE DEF b
  <1>10. \A s, t \in Task : /\ Holds(Line', t) <=> Holds(Line, t)
                            /\ Precedes(Line', s, t) <=> Precedes(Line, s, t)
    <2>1. \A s, t :
            /\ t # e.task =>
                 (Holds(Append(ran, e.task) \o b, t) <=> Holds(ran \o b, t))
            /\ s # e.task /\ t # e.task =>
                 (Precedes(Append(ran, e.task) \o b, s, t) <=> Precedes(ran \o b, s, t))
      BY <1>4, <1>5, <1>6, OneBetween
    <2> QED BY <1>7, <1>8, <1>9, <2>1
  <1> QED BY <1>2, <1>3, <1>10, OrderKept

\* Every step keeps the order.
LEMMA StepOrder ==
  ASSUME TypeOK, PostOrderInv, [Next]_vars
  PROVE  PostOrderInv'
  <1> USE DEF PostOrderInv
  <1> DEFINE Kept == UNCHANGED <<incoming_queue_, work_queue_, delayed_work_queue_,
                                 ran, posted>>
  <1>1. CASE PostImmediateTask
    <2>1. PICK t \in Task : PostTask(t, Null)
      BY <1>1 DEF PostImmediateTask
    <2> QED BY <2>1, PostKeepsOrder
  <1>2. CASE PostDelayedTask
    <2>1. PICK t \in DelayedTask, w \in (now + 1) .. MaxTime : PostTask(t, w)
      BY <1>2 DEF PostDelayedTask
    <2>2. w \in Nat /\ w # Null /\ t \notin Task
      BY TimeAssumption, TaskAssumption DEF TypeOK, Null
    <2> QED BY <2>1, <2>2, PostKeepsOrder
  <1>3. CASE ReloadWorkQueue \/ RunTask \/ DeferTask \/ DoDelayedWorkRun
    <2>1. DelaysAreKept' /\ RunInPostOrder'
      BY <1>3, ReloadKeepsOrder, RunKeepsOrder, DeferKeepsOrder, DelayedRunKeepsOrder
    <2>2. UNCHANGED posted
      BY <1>3 DEF ReloadWorkQueue, RunTask, DeferTask, DoDelayedWorkRun, postVars
    <2> QED BY <2>1, <2>2 DEF PostedOnce
  <1>4. CASE Kept
    BY <1>4 DEF DelaysAreKept, PostedOnce, RunInPostOrder, Line
  <1>5. CASE Next
    <2>1. CASE PosterStep
      <3>1. CASE PosterExchange \/ PosterPostMessage
        BY <1>4, <3>1 DEF PosterExchange, PosterPostMessage, loopVars
      <3> QED BY <1>1, <1>2, <2>1, <3>1 DEF PosterStep
    <2>2. CASE WorkStep
      <3>1. CASE \/ ReloadNothing \/ DoDelayedWorkNotDue \/ AfterWork
                 \/ Exchange1To2 \/ Exchange2To0 \/ Rearm \/ PostHandleMessage
        BY <1>4, <3>1 DEF ReloadNothing, DoDelayedWorkNotDue, AfterWork,
             Exchange1To2, Exchange2To0, Rearm, PostHandleMessage, queueVars,
             loopVars, postVars
      <3> QED BY <1>3, <2>2, <3>1 DEF WorkStep
    <2>3. CASE ApplicationStep \/ Tick \/ AppMessageArrives
      BY <1>4, <2>3 DEF ApplicationStep, TakeAppMessage, HandleWorkMessage, HandleTimerMessage,
           HandleAppMessage, ExitModalLoop, EnterModalLoop, Cleanup, Tick,
           AppMessageArrives, queueVars, loopVars, postVars
    <2> QED BY <1>5, <2>1, <2>2, <2>3 DEF Next
  <1> QED BY <1>4, <1>5 DEF vars, queueVars, loopVars, postVars

\* Tasks without delay run once each and in the order they were posted, for any
\* number of tasks and threads, however the batches fall and whichever delayed
\* tasks run between them.
THEOREM RunsAlwaysInPostOrder == Spec => []RunInPostOrder
  <1>1. Init => PostOrderInv
    <2> SUFFICES ASSUME Init PROVE PostOrderInv
      OBVIOUS
    <2>1. /\ incoming_queue_ = <<>> /\ work_queue_ = <<>> /\ delayed_work_queue_ = <<>>
          /\ ran = <<>> /\ posted = <<>>
      BY DEF Init
    <2>2. \A s, t : ~Holds(<<>>, t) /\ ~Precedes(<<>>, s, t)
      BY EmptySeq DEF Holds, Precedes
    <2>3. TasksOf(<<>>) = <<>>
      BY EmptySeq, TasksOfQueue
    <2>4. <<>> \o <<>> = <<>>
      BY EmptySeq, ConcatEmptySeq
    <2>5. Line = <<>>
      BY <2>1, <2>3, <2>4 DEF Line
    <2> QED BY <2>1, <2>2, <2>5, EmptySeq DEF PostOrderInv, DelaysAreKept,
                                             PostedOnce, RunInPostOrder
  <1>2. TypeOK /\ PostOrderInv /\ [Next]_vars => PostOrderInv'
    BY StepOrder
  <1>3. PostOrderInv => RunInPostOrder
    BY DEF PostOrderInv
  <1> QED BY <1>1, <1>2, <1>3, TypeCorrect, PTL DEF Spec

-----------------------------------------------------------------------------
(* Wakeups in MANUAL mode, with work messages enabled and room in Windows' *)
(* queue: the configuration in which only the auto-pump timer can be       *)
(* missing.                                                                *)

\* The flag is not set for nothing.
FlagMeansMessage == have_work_ # 0 => Waking

\* What message_loop_scheduled_ relies on: outside DoWork there is a work
\* message, or the pump remembers that there may be more work.
ScheduledMeansMessage ==
  /\ state_ = "running" /\ message_loop_scheduled_ /\ ~d_moreWorkIsPlausible
  /\ pc # "DoWork"
  => workMessages > 0

\* The time that DoDelayedWork reported is still that of the first task when
\* the pump acts on it.
ReportedTimeIsRight ==
  /\ state_ = "running" /\ pc \in {"afterWork", "rearm"}
  /\ ~d_moreWorkIsPlausible /\ delayed_work_queue_ # <<>>
  => /\ delayed_work_time_ \in Nat
     /\ delayed_work_time_ = Head(delayed_work_queue_).delayed_run_time

\* Outside the handlers a delayed task has a timer or work to come before it.
TimerIsSet ==
  /\ state_ = "running" /\ pc \in {"idle", "postHandleMessage"}
  /\ delayed_work_queue_ # <<>>
  => \/ Waking \/ d_moreWorkIsPlausible
     \/ osTimer.on /\ osTimer.at <= Head(delayed_work_queue_).delayed_run_time

\* Together with Wake these are inductive.
Wakeups ==
  FlagMeansMessage /\ ScheduledMeansMessage /\ ReportedTimeIsRight /\ TimerIsSet

\* The mode, in the form the steps below use it.
LEMMA ModeIsManual ==
  ASSUME Reliable
  PROVE  pumpMode = "MANUAL" /\ ~workMessageWhileDoingWorkDisabled /\ ~QueueMayBeFull
  BY DEF Reliable, Manual

\* Without failures ScheduleWork leaves the flag set, with a message for it.
LEMMA ScheduledWithoutFailure ==
  ASSUME Reliable, Scheduled, FlagMeansMessage, have_work_ \in 0 .. 2,
         workMessages \in Nat, UNCHANGED posting
  PROVE  have_work_' = 1 /\ Waking' /\ (workMessages > 0 => workMessages' > 0)
  BY DEF Reliable, Scheduled, FlagMeansMessage, Waking

\* A thread that posts owes a message until it has posted it.
LEMMA PosterWakeups ==
  ASSUME Reliable, Wake, Wakeups, PosterStep
  PROVE  Wakeups'
  <1> USE DEF Wakeups, FlagMeansMessage, ScheduledMeansMessage, ReportedTimeIsRight,
              TimerIsSet, Waking
  <1>1. Scalars
    BY TypeParts DEF Wake
  <1>2. CASE PostImmediateTask \/ PostDelayedTask
    <2>1. PICK t, when : PostTask(t, when)
      BY <1>2 DEF PostImmediateTask, PostDelayedTask
    <2>2. /\ posting = "none" /\ posting' # "post"
          /\ UNCHANGED <<message_loop_scheduled_, delayed_work_queue_, wakeVars,
               timerVars, state_, d_moreWorkIsPlausible, pc>>
      BY <2>1 DEF PostTask, loopVars
    <2> QED BY <2>2 DEF wakeVars, timerVars
  <1>3. CASE PosterExchange
    BY <1>1, <1>3 DEF Scalars, PosterExchange, loopVars, timerVars
  <1>4. CASE PosterPostMessage
    BY <1>1, <1>4 DEF Scalars, PosterPostMessage, Reliable, loopVars, timerVars
  <1> QED BY <1>2, <1>3, <1>4 DEF PosterStep

\* DoWork forgets only what it has found done; DoDelayedWork reports a time.
LEMMA LoopWakeups ==
  ASSUME Reliable, Wake, Wakeups,
         \/ ReloadNothing \/ ReloadWorkQueue \/ DeferTask \/ RunTask
         \/ DoDelayedWorkNotDue \/ DoDelayedWorkRun
  PROVE  Wakeups'
  <1> USE DEF Wakeups, FlagMeansMessage, ScheduledMeansMessage, ReportedTimeIsRight,
              TimerIsSet, Waking
  <1>1. Queues /\ Scalars
    BY TypeParts DEF Wake
  <1>2. CASE ReloadNothing
    BY <1>1, <1>2 DEF Scalars, ReloadNothing, loopVars, wakeVars, timerVars, postVars
  <1>3. CASE ReloadWorkQueue
    BY <1>1, <1>3 DEF Scalars, ReloadWorkQueue, wakeVars, timerVars, postVars
  <1>4. CASE DeferTask
    <2> DEFINE e == Head(work_queue_)
    <2>1. e.delayed_run_time \in Nat
      <3>1. e \in PendingTask
        BY <1>1, <1>4, HeadTailProperties DEF Queues, DeferTask
      <3> QED BY <1>4, <3>1 DEF DeferTask, PendingTask
    <2>2. Scheduled \/ UNCHANGED wakeVars
      <3>1. \/ UNCHANGED <<wakeVars, timerVars>>
            \/ ScheduleDelayedWork(e.delayed_run_time, d_hasAutoPumpTimer, osTimer)
        BY <1>4 DEF DeferTask
      <3> QED BY <1>1, <2>1, <3>1, ScheduleDelayedWorkIs DEF Scalars
    <2>3. pc = "DoWork" /\ UNCHANGED <<pc, posting>>
      BY <1>4 DEF DeferTask, postVars
    <2>4. FlagMeansMessage'
      BY <1>1, <2>2, <2>3, ScheduledWithoutFailure DEF Scalars, wakeVars
    <2> QED BY <2>3, <2>4
  <1>5. CASE RunTask
    BY <1>1, <1>5 DEF Scalars, RunTask, wakeVars, postVars
  <1>6. CASE DoDelayedWorkNotDue
    <2>1. /\ pc = "DoDelayedWork" /\ pc' \notin {"idle", "postHandleMessage", "rearm"}
          /\ UNCHANGED <<message_loop_scheduled_, delayed_work_queue_, wakeVars, state_,
                         d_moreWorkIsPlausible, posting>>
      BY <1>6 DEF DoDelayedWorkNotDue, AfterIteration, queueVars, loopVars, postVars
    <2>2. delayed_work_queue_ # <<>> =>
            /\ delayed_work_time_' = Head(delayed_work_queue_).delayed_run_time
            /\ delayed_work_time_' \in Nat
      <3>1. SUFFICES ASSUME delayed_work_queue_ # <<>>
                     PROVE  /\ Head(delayed_work_queue_).delayed_run_time \in Nat
                            /\ delayed_work_time_' = Head(delayed_work_queue_).delayed_run_time
        OBVIOUS
      <3>2. Head(delayed_work_queue_) \in PendingTask
        BY <1>1, <3>1, HeadTailProperties DEF Queues
      <3>3. Head(delayed_work_queue_).delayed_run_time \in {-1} \union Nat
        BY <3>2 DEF PendingTask, Null
      <3>4. /\ Head(delayed_work_queue_).delayed_run_time > now
            /\ delayed_work_time_' = Head(delayed_work_queue_).delayed_run_time
        BY <1>6, <3>1 DEF DoDelayedWorkNotDue
      <3> QED BY <1>1, <3>3, <3>4 DEF Scalars
    <2> QED BY <2>1, <2>2 DEF wakeVars
  <1>7. CASE DoDelayedWorkRun
    <2>1. /\ d_moreWorkIsPlausible' /\ pc' \notin {"idle", "postHandleMessage"}
          /\ UNCHANGED <<wakeVars, posting>>
      BY <1>7 DEF DoDelayedWorkRun, AfterIteration, postVars
    <2> QED BY <2>1 DEF wakeVars
  <1> QED BY <1>2, <1>3, <1>4, <1>5, <1>6, <1>7

\* scheduleMoreWorkIfNecessary and postHandleMessage pay what is owed.
LEMMA PumpWakeups ==
  ASSUME Reliable, Wake, Wakeups,
         AfterWork \/ Exchange1To2 \/ Exchange2To0 \/ Rearm \/ PostHandleMessage
  PROVE  Wakeups'
  <1> USE DEF Wakeups, FlagMeansMessage, ScheduledMeansMessage, ReportedTimeIsRight,
              TimerIsSet, Waking
  <1>1. Scalars /\ pumpMode = "MANUAL" /\ ~workMessageWhileDoingWorkDisabled
    BY TypeParts, ModeIsManual DEF Wake
  <1>2. CASE AfterWork
    BY <1>1, <1>2 DEF Scalars, AfterWork, Automatic, queueVars, loopVars, timerVars,
                      postVars
  <1>3. CASE Exchange1To2 \/ Exchange2To0
    BY <1>1, <1>3 DEF Exchange1To2, Exchange2To0, Wake, Flags, ModesOfPc, Automatic
  <1>4. CASE Rearm
    <2>1. /\ pc = "rearm" /\ pc' \in {"idle", "postHandleMessage"}
          /\ UNCHANGED <<message_loop_scheduled_, delayed_work_queue_, state_, posting>>
      BY <1>4 DEF Rearm, ReturnFrom, queueVars, loopVars, postVars
    <2>2. CASE RearmStopped
      BY <2>1, <2>2 DEF RearmStopped, wakeVars
    <2>3. CASE RearmAutoPump
      <3>1. ScheduleDelayedWork(now, d_hasAutoPumpTimer, osTimer)
        BY <2>3 DEF RearmAutoPump
      <3>2. Scheduled \/ UNCHANGED wakeVars
        BY <1>1, <3>1, ScheduleDelayedWorkIs DEF Scalars
      <3>3. FlagMeansMessage'
        BY <1>1, <2>1, <3>2, ScheduledWithoutFailure DEF Scalars, wakeVars
      <3>4. d_moreWorkIsPlausible'
        BY <2>3 DEF RearmAutoPump
      <3> QED BY <2>1, <3>3, <3>4
    <2>4. CASE RearmManual
      <3>1. d_moreWorkIsPlausible' /\ UNCHANGED wakeVars
        BY <1>1, <2>4 DEF RearmManual
      <3> QED BY <2>1, <3>1 DEF wakeVars
    <2>5. CASE RearmIdle
      <3>1. CASE delayed_work_time_ = Null
        <4>1. UNCHANGED <<wakeVars, d_moreWorkIsPlausible>> /\ ~d_moreWorkIsPlausible
          BY <2>5, <3>1 DEF RearmIdle
        <4>2. state_ = "running" => delayed_work_queue_ = <<>>
          BY <2>1, <3>1, <4>1 DEF Null
        <4> QED BY <2>1, <4>1, <4>2 DEF wakeVars
      <3>2. CASE delayed_work_time_ # Null
        <4>1. ScheduleDelayedWork(delayed_work_time_, FALSE, TimerAfterKill)
              /\ ~d_moreWorkIsPlausible /\ UNCHANGED d_moreWorkIsPlausible
          BY <2>5, <3>2 DEF RearmIdle
        <4>2. delayed_work_time_ \in Nat
          BY <1>1, <3>2 DEF Scalars
        <4>3. CASE delayed_work_time_ <= now
          <5>1. Scheduled
            BY <1>1, <4>1, <4>2, <4>3, ScheduleDelayedWorkIs DEF Scalars
          <5>2. Waking' /\ (workMessages > 0 => workMessages' > 0)
            BY <1>1, <2>1, <5>1, ScheduledWithoutFailure DEF Scalars
          <5> QED BY <2>1, <4>1, <5>2
        <4>4. CASE ~(delayed_work_time_ <= now)
          <5>1. UNCHANGED wakeVars /\ osTimer' = [on |-> TRUE, at |-> delayed_work_time_]
            BY <4>1, <4>4, Zenon DEF ScheduleDelayedWork, BaseScheduleDelayedWork
          <5>2. osTimer'.on /\ osTimer'.at = delayed_work_time_
            BY <5>1
          <5> QED BY <2>1, <4>1, <4>2, <5>1, <5>2 DEF wakeVars
        <4> QED BY <4>3, <4>4
      <3> QED BY <3>1, <3>2
    <2> QED BY <1>4, <2>2, <2>3, <2>4, <2>5 DEF Rearm
  <1>5. CASE PostHandleMessage
    <2>1. /\ pc = "postHandleMessage" /\ pc' = "idle"
          /\ UNCHANGED <<message_loop_scheduled_, delayed_work_queue_, state_, posting,
                         d_moreWorkIsPlausible>>
      BY <1>5 DEF PostHandleMessage, queueVars, loopVars, postVars
    <2>2. CASE d_moreWorkIsPlausible /\ handling # "work"
      <3>1. Scheduled
        BY <1>1, <1>5, <2>2, ScheduleWorkIs DEF PostHandleMessage, Scalars
      <3>2. Waking'
        BY <1>1, <2>1, <3>1, ScheduledWithoutFailure DEF Scalars
      <3> QED BY <2>1, <2>2, <3>2
    <2>3. CASE ~(d_moreWorkIsPlausible /\ handling # "work")
      BY <1>5, <2>1, <2>3 DEF PostHandleMessage, wakeVars
    <2> QED BY <2>2, <2>3
  <1> QED BY <1>2, <1>3, <1>4, <1>5

\* The application takes a message out only to start doWork.
LEMMA ApplicationWakeups ==
  ASSUME Reliable, Wake, Wakeups, ApplicationStep \/ Tick \/ AppMessageArrives
  PROVE  Wakeups'
  <1> USE DEF Wakeups, FlagMeansMessage, ScheduledMeansMessage, ReportedTimeIsRight,
              TimerIsSet, Waking
  <1>1. Scalars /\ pumpMode = "MANUAL" /\ ~workMessageWhileDoingWorkDisabled
    BY TypeParts, ModeIsManual DEF Wake
  <1>2. CASE HandleWorkMessage
    <2>1. /\ have_work_' = 0 /\ UNCHANGED state_
          /\ state_ = "running" => pc' = "DoWork"
      BY <1>1, <1>2 DEF HandleWorkMessage, StartOfDoWork, Automatic
    <2> QED BY <2>1
  <1>3. CASE HandleTimerMessage
    <2>1. /\ UNCHANGED <<wakeVars, state_, posting>>
          /\ state_ = "running" => pc' = "DoWork"
      BY <1>3 DEF HandleTimerMessage, StartOfDoWork, postVars
    <2> QED BY <2>1 DEF wakeVars
  <1>4. CASE HandleAppMessage \/ ExitModalLoop
    <2>1. /\ pc = "idle" /\ pc' \in {"idle", "postHandleMessage"}
          /\ UNCHANGED <<message_loop_scheduled_, delayed_work_queue_, wakeVars,
               timerVars, state_, posting, d_moreWorkIsPlausible>>
      BY <1>4 DEF HandleAppMessage, ExitModalLoop, ReturnFrom, queueVars, loopVars,
                  postVars
    <2> QED BY <2>1 DEF wakeVars, timerVars
  <1>5. ASSUME NEW kind \in {"dialog", "sizemove"}, EnterModalLoop(kind)
        PROVE  Wakeups'
    <2>1. Scheduled \/ UNCHANGED wakeVars
      BY <1>1, <1>5, ScheduleWorkIs DEF EnterModalLoop, Scalars
    <2>2. /\ pc = "idle"
          /\ UNCHANGED <<message_loop_scheduled_, delayed_work_queue_, timerVars, state_,
               posting, d_moreWorkIsPlausible, pc>>
      BY <1>5 DEF EnterModalLoop, queueVars, loopVars, postVars
    <2>3. CASE Scheduled
      <3>1. Waking' /\ (workMessages > 0 => workMessages' > 0)
        BY <1>1, <2>2, <2>3, ScheduledWithoutFailure DEF Scalars
      <3> QED BY <2>2, <3>1
    <2>4. CASE UNCHANGED wakeVars
      BY <2>2, <2>4 DEF wakeVars, timerVars
    <2> QED BY <2>1, <2>3, <2>4
  <1>6. CASE Cleanup
    BY <1>6 DEF Cleanup, wakeVars, postVars
  <1>7. CASE Tick \/ AppMessageArrives
    BY <1>7 DEF Tick, AppMessageArrives, queueVars, loopVars, wakeVars, timerVars,
                postVars
  <1> QED BY <1>2, <1>3, <1>4, <1>5, <1>6, <1>7 DEF ApplicationStep, TakeAppMessage

\* The pump knows that it is in a modal loop, and believes in one only until
\* the next postHandleMessage.
ModalIsKnown ==
  /\ modalLoop # "none" => os_modal_loop_ /\ pc # "postHandleMessage"
  /\ s_isInModal /\ modalLoop # "dialog" => pc = "postHandleMessage"

\* Work that the pump has put off has a message or a WM_TIMER before it, or
\* postHandleMessage is about to see to it, or the auto-pump timer should.
PutOffIsCovered ==
  /\ state_ = "running" /\ pc \in {"idle", "postHandleMessage"}
  /\ d_moreWorkIsPlausible
  => \/ Waking \/ TimerIsDue \/ d_hasAutoPumpTimer
     \/ modalLoop = "none" /\ appMessage
     \/ pc = "postHandleMessage" /\ handling # "work"

\* Together with Wake and Wakeups these are inductive.
Covered == ModalIsKnown /\ PutOffIsCovered

\* The pump has put work off for a message it has seen, or for the auto-pump
\* timer; whoever takes the message out calls postHandleMessage, and entering
\* a modal loop schedules work.
LEMMA PumpCovered ==
  ASSUME Reliable, Wake, Wakeups, Covered, WorkStep
  PROVE  Covered'
  <1> USE DEF Covered, ModalIsKnown, PutOffIsCovered
  <1>1. Scalars /\ pumpMode = "MANUAL" /\ ~workMessageWhileDoingWorkDisabled
    BY TypeParts, ModeIsManual DEF Wake
  <1>2. CASE \/ ReloadNothing \/ ReloadWorkQueue \/ DeferTask \/ RunTask
             \/ DoDelayedWorkNotDue \/ DoDelayedWorkRun \/ AfterWork
    <2>1. /\ pc \in {"DoWork", "DoDelayedWork", "afterWork"}
          /\ pc' \notin {"idle", "postHandleMessage"}
          /\ UNCHANGED modalVars
      BY <1>2 DEF ReloadNothing, ReloadWorkQueue, DeferTask, RunTask,
           DoDelayedWorkNotDue, DoDelayedWorkRun, AfterWork, AfterIteration
    <2> QED BY <2>1 DEF modalVars
  <1>3. CASE Exchange1To2 \/ Exchange2To0
    BY <1>1, <1>3 DEF Exchange1To2, Exchange2To0, Wake, Flags, ModesOfPc, Automatic
  <1>4. CASE Rearm
    <2>1. /\ pc = "rearm" /\ pc' \in {"idle", "postHandleMessage"}
          /\ pc' = "postHandleMessage" => modalLoop' = "none"
          /\ UNCHANGED <<modalVars, state_, posting, appMessage, now>>
      BY <1>4 DEF Rearm, ReturnFrom, postVars
    <2>2. CASE RearmStopped
      BY <2>1, <2>2 DEF RearmStopped, modalVars
    <2>3. CASE RearmAutoPump
      BY <2>1, <2>3 DEF RearmAutoPump, modalVars
    <2>4. CASE RearmManual
      <3>1. /\ ~os_modal_loop_ /\ PeekMessage
            /\ UNCHANGED <<wakeVars, timerVars>>
        BY <1>1, <2>4 DEF RearmManual
      <3> QED BY <2>1, <3>1 DEF PeekMessage, TimerIsDue, Waking, modalVars, wakeVars,
                                timerVars
    <2>5. CASE RearmIdle
      BY <2>1, <2>5 DEF RearmIdle, modalVars
    <2> QED BY <1>4, <2>2, <2>3, <2>4, <2>5 DEF Rearm
  <1>5. CASE PostHandleMessage
    <2>1. /\ pc = "postHandleMessage" /\ pc' = "idle" /\ ~s_isInModal'
          /\ UNCHANGED <<modalLoop, state_, posting, appMessage, now,
                         d_moreWorkIsPlausible>>
          /\ os_modal_loop_' = (os_modal_loop_ /\ ~s_isInModal)
      BY <1>5 DEF PostHandleMessage, postVars
    <2>2. modalLoop = "none"
      BY <2>1
    <2>3. CASE d_moreWorkIsPlausible /\ handling # "work"
      <3>1. Scheduled
        BY <1>1, <1>5, <2>3, ScheduleWorkIs DEF PostHandleMessage, Scalars
      <3>2. Waking'
        BY <1>1, <2>1, <3>1, ScheduledWithoutFailure DEF Scalars, Wakeups
      <3> QED BY <2>1, <2>2, <3>2
    <2>4. CASE ~(d_moreWorkIsPlausible /\ handling # "work")
      <3>1. UNCHANGED <<osTimer, d_hasAutoPumpTimer, wakeVars>>
        BY <1>5, <2>4 DEF PostHandleMessage
      <3> QED BY <2>1, <2>2, <2>4, <3>1 DEF TimerIsDue, Waking, wakeVars
    <2> QED BY <2>3, <2>4
  <1> QED BY <1>2, <1>3, <1>4, <1>5 DEF WorkStep

LEMMA OthersCovered ==
  ASSUME Reliable, Wake, Wakeups, Covered,
         PosterStep \/ ApplicationStep \/ Tick \/ AppMessageArrives
  PROVE  Covered'
  <1> USE DEF Covered, ModalIsKnown, PutOffIsCovered
  <1>1. Scalars /\ pumpMode = "MANUAL" /\ ~workMessageWhileDoingWorkDisabled
        /\ ~QueueMayBeFull
    BY TypeParts, ModeIsManual DEF Wake
  <1>2. CASE PosterStep
    <2>1. UNCHANGED <<modalVars, timerVars, state_, d_moreWorkIsPlausible, appMessage,
                      now, pc, handling>>
      BY <1>2 DEF PosterStep, PostImmediateTask, PostDelayedTask, PostTask,
           PosterExchange, PosterPostMessage
    <2>2. Waking => Waking'
      <3>1. CASE PostImmediateTask \/ PostDelayedTask
        <4>1. PICK t, when : PostTask(t, when)
          BY <3>1 DEF PostImmediateTask, PostDelayedTask
        <4>2. posting = "none" /\ UNCHANGED wakeVars
          BY <4>1 DEF PostTask
        <4> QED BY <4>2 DEF Waking, wakeVars
      <3>2. CASE PosterExchange
        BY <1>1, <3>2 DEF PosterExchange, Waking
      <3>3. CASE PosterPostMessage
        BY <1>1, <3>3 DEF PosterPostMessage, Waking, Scalars
      <3> QED BY <1>2, <3>1, <3>2, <3>3 DEF PosterStep
    <2> QED BY <2>1, <2>2 DEF modalVars, timerVars, TimerIsDue
  <1>3. CASE HandleWorkMessage \/ HandleTimerMessage \/ Cleanup
    <2>1. /\ pc = "idle" /\ pc' \in {"DoWork", "afterWork"}
          /\ UNCHANGED modalVars
      BY <1>3 DEF HandleWorkMessage, HandleTimerMessage, Cleanup, StartOfDoWork
    <2> QED BY <2>1 DEF modalVars
  <1>4. CASE HandleAppMessage
    <2>1. /\ pc = "idle"
          /\ modalLoop = "none" => pc' = "postHandleMessage" /\ handling' = "other"
          /\ modalLoop # "none" => pc' = "idle"
          /\ UNCHANGED <<modalVars, wakeVars, timerVars, posting, state_,
                         d_moreWorkIsPlausible, now>>
      BY <1>1, <1>4 DEF HandleAppMessage, ReturnFrom, postVars, modalVars, statics,
                        Manual
    <2> QED BY <2>1 DEF modalVars, wakeVars, timerVars, TimerIsDue, Waking
  <1>5. CASE ExitModalLoop
    <2>1. /\ pc = "idle" /\ pc' = "postHandleMessage" /\ handling' = "other"
          /\ modalLoop' = "none"
      BY <1>1, <1>5 DEF ExitModalLoop, ReturnFrom, Manual
    <2> QED BY <2>1
  <1>6. ASSUME NEW kind \in {"dialog", "sizemove"}, EnterModalLoop(kind)
        PROVE  Covered'
    <2>1. ~s_isInModal
      BY <1>6 DEF EnterModalLoop
    <2>2. /\ pc = "idle" /\ pc' = "idle" /\ modalLoop' = kind /\ os_modal_loop_'
          /\ s_isInModal' = (kind = "dialog")
          /\ ScheduleWork /\ UNCHANGED posting
      BY <1>6, <2>1 DEF EnterModalLoop, postVars
    <2>3. Waking'
      BY <1>1, <2>2, ScheduleWorkIs, ScheduledWithoutFailure DEF Scalars, Wakeups
    <2> QED BY <2>2, <2>3
  <1>7. CASE Tick \/ AppMessageArrives
    <2>1. /\ now' >= now /\ now' \in Nat /\ (appMessage => appMessage')
          /\ UNCHANGED <<modalVars, wakeVars, timerVars, posting, state_,
                         d_moreWorkIsPlausible, pc, handling>>
      BY <1>1, <1>7 DEF Tick, AppMessageArrives, Scalars, postVars
    <2>2. TimerIsDue => TimerIsDue'
      BY <1>1, <2>1 DEF TimerIsDue, Scalars, timerVars
    <2> QED BY <2>1, <2>2 DEF modalVars, wakeVars, timerVars, Waking
  <1> QED BY <1>2, <1>3, <1>4, <1>5, <1>6, <1>7 DEF ApplicationStep, TakeAppMessage

\* The mode of the pump is fixed at the start.
LEMMA StaticsAreFixed ==
  ASSUME [Next]_vars
  PROVE  UNCHANGED statics
  <1>1. CASE PosterStep
    BY <1>1 DEF PosterStep, PostImmediateTask, PostDelayedTask, PostTask,
         PosterExchange, PosterPostMessage
  <1>2. CASE WorkStep
    BY <1>2 DEF WorkStep, ReloadNothing, ReloadWorkQueue, DeferTask, RunTask,
         DoDelayedWorkNotDue, DoDelayedWorkRun, AfterWork, Exchange1To2, Exchange2To0,
         Rearm, PostHandleMessage
  <1>3. CASE ApplicationStep \/ Tick \/ AppMessageArrives
    BY <1>3 DEF ApplicationStep, TakeAppMessage, HandleWorkMessage,
         HandleTimerMessage, HandleAppMessage, ExitModalLoop, EnterModalLoop, Cleanup,
         Tick, AppMessageArrives
  <1>4. CASE UNCHANGED vars
    BY <1>4 DEF vars
  <1> QED BY <1>1, <1>2, <1>3, <1>4 DEF Next

\* In the reliable configuration every wakeup that is owed is there, up to the
\* auto-pump timer.
THEOREM WakeupsAreInvariant ==
  ASSUME AutomaticNeverFull
  PROVE  Spec => [](Wake /\ (Reliable => Wakeups /\ Covered))
  <1>1. Init => Wakeups /\ Covered
    BY DEF Init, Wakeups, FlagMeansMessage, ScheduledMeansMessage,
           ReportedTimeIsRight, TimerIsSet, Covered, ModalIsKnown, PutOffIsCovered
  <1>2. ASSUME Wake, Reliable => Wakeups /\ Covered, [Next]_vars
        PROVE  (Reliable => Wakeups /\ Covered)'
    <2>1. SUFFICES ASSUME Reliable PROVE Wakeups' /\ Covered'
      BY <1>2, StaticsAreFixed DEF Reliable, Manual, QueueMayBeFull, statics
    <2>2. CASE Next
      <3>1. Wakeups'
        BY <1>2, <2>1, <2>2, PosterWakeups, LoopWakeups, PumpWakeups,
           ApplicationWakeups DEF Next, WorkStep
      <3>2. Covered'
        BY <1>2, <2>1, <2>2, PumpCovered, OthersCovered DEF Next
      <3> QED BY <3>1, <3>2
    <2>3. CASE UNCHANGED vars
      <3>1. Wakeups'
        BY <1>2, <2>1, <2>3 DEF Wakeups, FlagMeansMessage, ScheduledMeansMessage,
             ReportedTimeIsRight, TimerIsSet, Waking, vars, queueVars, loopVars,
             wakeVars, timerVars, postVars
      <3>2. Covered'
        BY <1>2, <2>1, <2>3 DEF Covered, ModalIsKnown, PutOffIsCovered, Waking,
             TimerIsDue, vars, modalVars, wakeVars, timerVars, postVars
      <3> QED BY <3>1, <3>2
    <2> QED BY <1>2, <2>2, <2>3
  <1>3. Spec => []Wake
    BY WakeIsInvariant
  <1> QED BY <1>1, <1>2, <1>3, PTL DEF Spec

\* In the reliable configuration a queued task is left without a message or a
\* WM_TIMER before it only where the pump relies on the auto-pump timer, and
\* then the next postHandleMessage gets it going: no other wakeup is lost,
\* whatever other threads post and whichever modal loops come and go.
THEOREM OnlyAutoPumpTimerIsEverMissing ==
  ASSUME AutomaticNeverFull
  PROVE  Spec => []OnlyAutoPumpTimerIsMissing
  <1>1. Wake /\ (Reliable => Wakeups /\ Covered) => OnlyAutoPumpTimerIsMissing
    <2>1. SUFFICES ASSUME Wake, Wakeups, Covered, Reliable,
                          pc = "idle", state_ = "running", Waiting,
                          ~(workMessages > 0), posting = "none"
                   PROVE  \/ TimerIsDue \/ PostHandleMessageComes
                          \/ d_hasAutoPumpTimer /\ d_moreWorkIsPlausible
      BY DEF OnlyAutoPumpTimerIsMissing
    <2>2. message_loop_scheduled_
      BY <2>1 DEF Wake, NothingUnscheduled, Waiting
    <2>3. d_moreWorkIsPlausible
      BY <2>1, <2>2 DEF Wakeups, ScheduledMeansMessage
    <2> QED BY <2>1, <2>3 DEF Covered, PutOffIsCovered, Waking, PostHandleMessageComes,
                              Reliable
  <1> QED BY <1>1, WakeupsAreInvariant, PTL

\* In the reliable configuration, and unless the pump relies on the auto-pump
\* timer, there is always a timer no later than the first delayed task, or a
\* message before it at which one will be set.
THEOREM DelayedWorkIsAlwaysArmed ==
  ASSUME AutomaticNeverFull
  PROVE  Spec => []DelayedWorkIsArmed
  <1>1. Wake /\ (Reliable => Wakeups /\ Covered) => DelayedWorkIsArmed
    BY DEF Wakeups, TimerIsSet, Covered, PutOffIsCovered, Waking,
           PostHandleMessageComes, Reliable, DelayedWorkIsArmed
  <1> QED BY <1>1, WakeupsAreInvariant, PTL
=============================================================================
