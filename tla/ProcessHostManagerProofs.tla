---------------------- MODULE ProcessHostManagerProofs ----------------------
(***************************************************************************)
(* Proofs about ProcessHostManager for any set of hosts, any timeouts and  *)
(* any clock bound.                                                        *)
(*                                                                         *)
(* None of the properties is inductive.  What is missing is what the watch *)
(* thread may rely on while it holds no lock: only it removes from the     *)
(* connected vector, so the vector it built its handles from stays a       *)
(* prefix of the shared one.  IInv adds that, what the destructor's steps  *)
(* leave behind for the watch thread, and that the index WaitMany          *)
(* returned, and everything derived from it, names an exited process.      *)
(* Ownership is a matter of counting: a step that takes a host from one    *)
(* owner gives it to another (HandsOn), which for the watch thread needs   *)
(* that it holds a host only between erasing and posting it.               *)
(***************************************************************************)
EXTENDS ProcessHostManager, PositionCounts, SequenceTheorems, TLAPS

\* The handles waited for are those of a prefix of the connected vector.
VectorIsPrefix ==
  watch \in {"wait", "erase"} =>
    /\ Len(events) <= Len(d_connectedProcessHosts)
    /\ \A i \in 1..Len(events) : events[i] = d_connectedProcessHosts[i]

\* A vector longer than the one waited for comes with a signal.
LongerIsSignalled ==
  watch = "wait" /\ Len(events) # Len(d_connectedProcessHosts) => d_wakeupEvent

\* The index to erase at is that of an exited process.
IndexIsExited ==
  watch = "erase" =>
    /\ processIndex \in 1..Len(events)
    /\ peer[events[processIndex]] = "exited"

\* The process of the host between erase and post has exited.
HeldIsExited ==
  /\ watch = "post" => processHost \in Host
  /\ processHost \in Host => peer[processHost] = "exited"

\* So have the processes of the hosts whose deletion is posted.
PostedIsExited ==
  \A i \in 1..Len(tasks) : peer[tasks[i]] = "exited"

\* The destructor raises the flag before it signals.
FlagBeforeSignal ==
  browserMain \in {"signal", "join"} => d_isShuttingDown = TRUE

\* timerExpired compares with a time read earlier.
ExpireNowIsPast == expireNow <= now

IInv ==
  /\ TypeOK
  /\ VectorIsPrefix
  /\ LongerIsSignalled
  /\ IndexIsExited
  /\ HeldIsExited
  /\ PostedIsExited
  /\ FlagBeforeSignal
  /\ ExpireNowIsPast
  /\ JoinWillReturn

-----------------------------------------------------------------------------
(* Erasing an element of a vector.                                         *)

\* Erasing an element of a vector leaves a vector of the same kind.
LEMMA WithoutType ==
  ASSUME NEW S, NEW s \in Seq(S), NEW i \in 1..Len(s)
  PROVE  Without(s, i) \in Seq(S)
<1>1. SubSeq(s, 1, i - 1) \in Seq(S)
  BY SubSeqProperties
<1>2. SubSeq(s, i + 1, Len(s)) \in Seq(S)
  BY SubSeqProperties
<1> QED
  BY <1>1, <1>2, ConcatProperties DEF Without

-----------------------------------------------------------------------------
(* Type correctness.                                                       *)

\* The constructor leaves every member with a value of its type.
LEMMA InitTypeOK == Init => TypeOK
<1> SUFFICES ASSUME Init PROVE TypeOK
  OBVIOUS
<1>1. /\ d_unconnectedProcessHosts \in Seq(Entry)
      /\ d_connectedProcessHosts \in Seq(Host)
      /\ events \in Seq(Host)
      /\ tasks \in Seq(Host)
  BY EmptySeq DEF Init
<1>2. d_timer \in [running : BOOLEAN, desired_run_time : Nat]
  BY DEF Init
<1>3. /\ peer \in [Host -> {"absent", "running", "exited"}]
      /\ d_processHandle \in [Host -> BOOLEAN]
      /\ deletes \in [Host -> Nat]
  BY DEF Init
<1>4. /\ now \in Nat /\ it \in Nat \ {0} /\ expireNow \in Nat
      /\ processIndex \in Nat
      /\ added \subseteq Host
  BY DEF Init
<1>5. /\ d_wakeupEvent \in BOOLEAN
      /\ d_isShuttingDown \in BOOLEAN
      /\ browserMain \in {"idle", "expiring", "signal", "join", "gone"}
      /\ watch \in {"build", "wait", "reset", "check", "erase", "post", "done"}
      /\ processHost \in Host \union {NoHost}
      /\ checkFailed \in {"none", "OpenProcess", "WaitMany"}
  BY DEF Init
<1> QED
  BY <1>1, <1>2, <1>3, <1>4, <1>5 DEF TypeOK

\* No step of either thread takes a member out of its type.
LEMMA NextTypeOK == IInv /\ [Next]_vars => TypeOK'
<1> SUFFICES ASSUME IInv, [Next]_vars PROVE TypeOK'
  OBVIOUS
<1>0. TypeOK
  BY DEF IInv
<1> USE <1>0 DEF TypeOK, worldVars, peerVars, listVars, eventVars, mainVars,
          watchVars, deleteVars
<1>1. ASSUME NEW h \in Host, NEW t \in Timeouts, addProcessHost(h, t) PROVE TypeOK'
  <2>1. now + t \in Nat
    BY TimeAssumption
  <2>2. d_unconnectedProcessHosts' \in Seq(Entry)
    BY <1>1, <2>1, AppendProperties DEF addProcessHost, Entry
  <2>3. d_timer' \in [running : BOOLEAN, desired_run_time : Nat]
    BY <1>1, <2>1 DEF addProcessHost, StartTimer
  <2> QED
    BY <1>1, <2>2, <2>3 DEF addProcessHost
<1>2. ASSUME NEW h \in Host, OnChannelConnected(h) PROVE TypeOK'
  BY ZenonT(40), <1>2 DEF OnChannelConnected
<1>3. CASE timerExpired
  <2>1. d_timer' \in [running : BOOLEAN, desired_run_time : Nat]
    BY <1>3 DEF timerExpired, StopTimer
  <2> QED
    BY <1>3, <2>1 DEF timerExpired
<1>4. CASE timerExpiredEntry
  <2>1. /\ it \in 1..Len(d_unconnectedProcessHosts)
        /\ Current \in Entry
    BY <1>4, ElementOfSeq DEF timerExpiredEntry, Current
  <2>2. Without(d_unconnectedProcessHosts, it) \in Seq(Entry)
    BY <2>1, WithoutType
  <2>3. Current.host \in Host
    BY <2>1 DEF Entry
  <2>4. CASE KeepEntry
    BY <1>4, <2>4 DEF timerExpiredEntry, KeepEntry
  <2>5. CASE ExpireEntry
    BY <1>4, <2>2, <2>3, <2>5 DEF timerExpiredEntry, ExpireEntry
  <2>6. CASE ConnectEntry
    <3>1. d_connectedProcessHosts' \in Seq(Host)
      BY <2>3, <2>6, AppendProperties DEF ConnectEntry
    <3> QED
      BY <1>4, <2>2, <2>6, <3>1 DEF timerExpiredEntry, ConnectEntry
  <2> QED
    BY <1>4, <2>4, <2>5, <2>6 DEF timerExpiredEntry
<1>5. CASE timerExpiredReturn
  BY <1>5 DEF timerExpiredReturn
<1>6. CASE deleteProcessHost
  <2>1. Head(tasks) \in Host /\ tasks' \in Seq(Host)
    BY <1>6, HeadTailProperties DEF deleteProcessHost
  <2> QED
    BY <1>6, <2>1 DEF deleteProcessHost
<1>7. CASE DestructorSetFlag
  BY <1>7 DEF DestructorSetFlag
<1>8. CASE DestructorSignal
  <2>1. d_timer' \in [running : BOOLEAN, desired_run_time : Nat]
    BY <1>8 DEF DestructorSignal, StopTimer
  <2> QED
    BY <1>8, <2>1 DEF DestructorSignal
<1>9. CASE DestructorJoin
  <2>1. /\ d_unconnectedProcessHosts' \in Seq(Entry)
        /\ d_connectedProcessHosts' \in Seq(Host)
    BY <1>9, EmptySeq DEF DestructorJoin
  <2>2. deletes' \in [Host -> Nat]
    BY <1>9 DEF DestructorJoin
  <2> QED
    BY <1>9, <2>1, <2>2 DEF DestructorJoin
<1>10. CASE WatchBuild
  BY <1>10 DEF WatchBuild
<1>11. CASE WatchWokenUp
  BY <1>11 DEF WatchWokenUp
<1>12. CASE WatchPeerExited
  BY <1>12 DEF WatchPeerExited
<1>13. CASE WatchReset
  BY <1>13 DEF WatchReset
<1>14. CASE WatchCheck
  BY <1>14 DEF WatchCheck
<1>15. CASE WatchErase
  <2>1. processIndex \in 1..Len(d_connectedProcessHosts)
    BY <1>15 DEF WatchErase, IInv, IndexIsExited
  <2>2. /\ d_connectedProcessHosts' \in Seq(Host)
        /\ processHost' \in Host
    BY <1>15, <2>1, WithoutType, ElementOfSeq DEF WatchErase
  <2> QED
    BY <1>15, <2>2 DEF WatchErase
<1>16. CASE WatchPost
  <2>1. tasks' \in Seq(Host)
    BY <1>16, AppendProperties DEF WatchPost, IInv, HeldIsExited
  <2> QED
    BY <1>16, <2>1 DEF WatchPost
<1>17. CASE Tick
  BY <1>17 DEF Tick
<1>18. ASSUME NEW h \in Host, PeerConnects(h) \/ PeerExits(h) PROVE TypeOK'
  BY ZenonT(40), <1>18 DEF PeerConnects, PeerExits
<1>19. CASE UNCHANGED vars
  BY <1>19 DEF vars
<1> QED
  BY <1>1, <1>2, <1>3, <1>4, <1>5, <1>6, <1>7, <1>8, <1>9, <1>10, <1>11, <1>12,
     <1>13, <1>14, <1>15, <1>16, <1>17, <1>18, <1>19
     DEF Next, BrowserMainStep, WatchStep

-----------------------------------------------------------------------------
(* The watch thread's vector.                                              *)

\* The steps that leave alone what the watch thread reads without the lock.
LEMMA QuietSteps ==
  ASSUME [Next]_vars,
         ~timerExpiredEntry, ~DestructorSetFlag, ~DestructorSignal,
         ~DestructorJoin, ~WatchStep
  PROVE  UNCHANGED <<watch, events, d_connectedProcessHosts, eventVars,
                     processIndex, processHost>>
<1> USE DEF peerVars, listVars, eventVars, watchVars
<1>1. ASSUME NEW h \in Host, NEW t \in Timeouts, addProcessHost(h, t)
      PROVE  UNCHANGED <<watchVars, d_connectedProcessHosts, eventVars>>
  BY <1>1 DEF addProcessHost
<1>2. ASSUME NEW h \in Host,
             OnChannelConnected(h) \/ PeerConnects(h) \/ PeerExits(h)
      PROVE  UNCHANGED <<watchVars, d_connectedProcessHosts, eventVars>>
  BY <1>2 DEF OnChannelConnected, PeerConnects, PeerExits
<1>3. CASE timerExpired \/ timerExpiredReturn \/ deleteProcessHost \/ Tick
  BY <1>3 DEF timerExpired, timerExpiredReturn, deleteProcessHost, Tick
<1>4. CASE UNCHANGED vars
  BY <1>4 DEF vars
<1> QED
  BY <1>1, <1>2, <1>3, <1>4 DEF Next, BrowserMainStep

\* The vector ThreadMain waits on stays a prefix of d_connectedProcessHosts, and
\* d_miscEvent is signalled whenever that list has become longer.
LEMMA NextVector == IInv /\ [Next]_vars => (VectorIsPrefix /\ LongerIsSignalled)'
<1> SUFFICES ASSUME IInv, [Next]_vars PROVE (VectorIsPrefix /\ LongerIsSignalled)'
  OBVIOUS
<1>0. /\ d_connectedProcessHosts \in Seq(Host)
      /\ events \in Seq(Host)
      /\ VectorIsPrefix
      /\ LongerIsSignalled
  BY DEF IInv, TypeOK
<1> USE DEF VectorIsPrefix, LongerIsSignalled, listVars, eventVars, watchVars
<1>1. CASE timerExpiredEntry
  <2>1. CASE KeepEntry \/ ExpireEntry
    BY <1>0, <1>1, <2>1 DEF timerExpiredEntry, KeepEntry, ExpireEntry
  <2>2. CASE ConnectEntry
    <3>1. Current.host \in Host
      <4>1. it \in 1..Len(d_unconnectedProcessHosts)
        BY <1>1 DEF timerExpiredEntry, IInv, TypeOK
      <4>2. Current \in Entry
        BY <4>1, ElementOfSeq DEF Current, IInv, TypeOK
      <4> QED
        BY <4>2 DEF Entry
    <3>2. /\ Len(d_connectedProcessHosts') = Len(d_connectedProcessHosts) + 1
          /\ \A i \in 1..Len(d_connectedProcessHosts) :
                d_connectedProcessHosts'[i] = d_connectedProcessHosts[i]
      BY <1>0, <2>2, <3>1, AppendProperties DEF ConnectEntry
    <3>3. d_wakeupEvent' /\ UNCHANGED <<watch, events>>
      BY <1>1, <2>2 DEF timerExpiredEntry, ConnectEntry
    <3> QED
      BY <1>0, <3>2, <3>3
  <2> QED
    BY <1>1, <2>1, <2>2 DEF timerExpiredEntry
<1>2. CASE DestructorSetFlag \/ DestructorSignal
  BY <1>0, <1>2 DEF DestructorSetFlag, DestructorSignal
<1>3. CASE DestructorJoin
  BY <1>3 DEF DestructorJoin
<1>4. CASE WatchBuild
  BY <1>0, <1>4 DEF WatchBuild
<1>5. CASE WatchPeerExited
  BY <1>0, <1>5 DEF WatchPeerExited
<1>6. CASE WatchWokenUp \/ WatchReset \/ WatchCheck \/ WatchErase \/ WatchPost
  BY <1>6 DEF WatchWokenUp, WatchReset, WatchCheck, WatchErase, WatchPost
<1>7. CASE UNCHANGED <<watch, events, d_connectedProcessHosts, eventVars>>
  BY <1>0, <1>7
<1> QED
  BY <1>1, <1>2, <1>3, <1>4, <1>5, <1>6, <1>7, QuietSteps DEF WatchStep

\* Only exited processes are erased, posted and deleted.
LEMMA NextExited ==
  IInv /\ [Next]_vars => (IndexIsExited /\ HeldIsExited /\ PostedIsExited)'
<1> SUFFICES ASSUME IInv, [Next]_vars PROVE (IndexIsExited /\ HeldIsExited /\ PostedIsExited)'
  OBVIOUS
<1>0. /\ TypeOK
      /\ IndexIsExited
      /\ HeldIsExited
      /\ PostedIsExited
  BY DEF IInv
<1>1. \A h \in Host : peer[h] = "exited" => peer'[h] = "exited"
  <2>1. ASSUME NEW h \in Host, PeerConnects(h) \/ PeerExits(h)
        PROVE  \A g \in Host : peer[g] = "exited" => peer'[g] = "exited"
    BY <1>0, <2>1 DEF PeerConnects, PeerExits, TypeOK
  <2>2. ASSUME NEW h \in Host, NEW t \in Timeouts, addProcessHost(h, t)
        PROVE  peer' = peer
    BY <2>2 DEF addProcessHost, peerVars
  <2>3. ASSUME NEW h \in Host, OnChannelConnected(h) PROVE peer' = peer
    BY <2>3 DEF OnChannelConnected
  <2>4. CASE timerExpired \/ timerExpiredEntry \/ timerExpiredReturn
             \/ deleteProcessHost \/ Tick \/ UNCHANGED vars
    BY <2>4 DEF timerExpired, timerExpiredEntry, timerExpiredReturn,
                deleteProcessHost, Tick, peerVars, vars
  <2>5. CASE DestructorSetFlag \/ DestructorSignal \/ DestructorJoin
    BY <2>5 DEF DestructorSetFlag, DestructorSignal, DestructorJoin, peerVars
  <2>6. CASE WatchStep
    BY <2>6 DEF WatchStep, WatchBuild, WatchWokenUp, WatchPeerExited, WatchReset,
                WatchCheck, WatchErase, WatchPost, peerVars
  <2> QED
    BY <2>1, <2>2, <2>3, <2>4, <2>5, <2>6 DEF Next, BrowserMainStep
<1>2. IndexIsExited'
  <2>1. ASSUME UNCHANGED <<watch, events, processIndex>> PROVE IndexIsExited'
    BY <1>0, <1>1, <2>1, ElementOfSeq DEF IndexIsExited, TypeOK
  <2>2. CASE timerExpiredEntry \/ DestructorSetFlag \/ DestructorSignal \/ DestructorJoin
    BY <2>1, <2>2 DEF timerExpiredEntry, DestructorSetFlag, DestructorSignal,
                      DestructorJoin, watchVars
  <2>3. CASE WatchPeerExited
    BY <1>0, <2>3 DEF WatchPeerExited, Exited, IndexIsExited, peerVars
  <2>4. CASE WatchBuild \/ WatchWokenUp \/ WatchReset \/ WatchCheck
             \/ WatchErase \/ WatchPost
    BY <2>4 DEF WatchBuild, WatchWokenUp, WatchReset, WatchCheck, WatchErase,
                WatchPost, IndexIsExited
  <2> QED
    BY <2>1, <2>2, <2>3, <2>4, QuietSteps DEF WatchStep
<1>3. HeldIsExited'
  <2>1. ASSUME UNCHANGED processHost, watch' # "post" \/ UNCHANGED watch
        PROVE  HeldIsExited'
    BY <1>0, <1>1, <2>1 DEF HeldIsExited
  <2>2. CASE timerExpiredEntry \/ DestructorSetFlag \/ DestructorSignal \/ DestructorJoin
    BY <2>1, <2>2 DEF timerExpiredEntry, DestructorSetFlag, DestructorSignal,
                      DestructorJoin, watchVars
  <2>3. CASE WatchBuild \/ WatchWokenUp \/ WatchReset \/ WatchCheck \/ WatchPeerExited
    BY <2>1, <2>3 DEF WatchBuild, WatchWokenUp, WatchReset, WatchCheck, WatchPeerExited
  <2>4. CASE WatchErase
    <3>1. /\ processIndex \in 1..Len(events)
          /\ peer[events[processIndex]] = "exited"
          /\ events[processIndex] = d_connectedProcessHosts[processIndex]
          /\ events[processIndex] \in Host
      BY <1>0, <2>4, ElementOfSeq DEF WatchErase, IInv, VectorIsPrefix,
                                     IndexIsExited, TypeOK
    <3> QED
      BY <1>1, <2>4, <3>1 DEF WatchErase, HeldIsExited
  <2>5. CASE WatchPost
    BY <2>5, HostAssumption DEF WatchPost, HeldIsExited
  <2> QED
    BY <2>1, <2>2, <2>3, <2>4, <2>5, QuietSteps DEF WatchStep
<1>4. PostedIsExited'
  <2>0. \A i \in 1..Len(tasks) : tasks[i] \in Host /\ peer'[tasks[i]] = "exited"
    BY <1>0, <1>1, ElementOfSeq DEF PostedIsExited, TypeOK
  <2>1. ASSUME UNCHANGED tasks PROVE PostedIsExited'
    BY <2>0, <2>1 DEF PostedIsExited
  <2>2. CASE deleteProcessHost
    <3>1. /\ Len(tasks') = Len(tasks) - 1
          /\ \A i \in 1..Len(tasks') : tasks'[i] = tasks[i + 1]
      BY <1>0, <2>2, HeadTailProperties DEF deleteProcessHost, TypeOK
    <3>2. \A i \in 1..Len(tasks') : i + 1 \in 1..Len(tasks)
      BY <1>0, <3>1, LenProperties DEF TypeOK
    <3> QED
      BY <2>0, <3>1, <3>2 DEF PostedIsExited
  <2>3. CASE WatchPost
    <3>1. tasks \in Seq(Host) /\ processHost \in Host /\ tasks' = Append(tasks, processHost)
      BY <1>0, <2>3 DEF WatchPost, HeldIsExited, TypeOK
    <3>2. /\ Len(tasks') = Len(tasks) + 1
          /\ \A i \in 1..Len(tasks) : tasks'[i] = tasks[i]
          /\ tasks'[Len(tasks) + 1] = processHost
      BY <3>1, AppendProperties
    <3>3. \A i \in 1..Len(tasks') : i \in 1..Len(tasks) \/ i = Len(tasks) + 1
      BY <3>1, <3>2, LenProperties
    <3>4. peer'[processHost] = "exited"
      BY <1>0, <1>1, <3>1 DEF HeldIsExited
    <3> QED
      BY <2>0, <3>2, <3>3, <3>4 DEF PostedIsExited
  <2>4. ASSUME NEW h \in Host, NEW t \in Timeouts, addProcessHost(h, t)
        PROVE  UNCHANGED tasks
    BY <2>4 DEF addProcessHost, deleteVars
  <2>5. ASSUME NEW h \in Host,
               OnChannelConnected(h) \/ PeerConnects(h) \/ PeerExits(h)
        PROVE  UNCHANGED tasks
    BY <2>5 DEF OnChannelConnected, PeerConnects, PeerExits, deleteVars
  <2>6. CASE timerExpired \/ timerExpiredEntry \/ timerExpiredReturn
             \/ Tick \/ UNCHANGED vars
    BY <2>1, <2>6 DEF timerExpired, timerExpiredEntry, KeepEntry, ExpireEntry,
         ConnectEntry, timerExpiredReturn, Tick, deleteVars, vars
  <2>7. CASE DestructorSetFlag \/ DestructorSignal \/ DestructorJoin
    BY <2>1, <2>7 DEF DestructorSetFlag, DestructorSignal, DestructorJoin, deleteVars
  <2>8. CASE WatchBuild \/ WatchWokenUp \/ WatchPeerExited \/ WatchReset
             \/ WatchCheck \/ WatchErase
    BY <2>1, <2>8 DEF WatchBuild, WatchWokenUp, WatchPeerExited, WatchReset,
                      WatchCheck, WatchErase, deleteVars
  <2> QED
    BY <2>1, <2>2, <2>3, <2>4, <2>5, <2>6, <2>7, <2>8
       DEF Next, BrowserMainStep, WatchStep
<1> QED
  BY <1>2, <1>3, <1>4

-----------------------------------------------------------------------------
(* The destructor against the watch thread.                                *)

\* Reset is followed by a look at the flag, and the flag is raised before the
\* signal: whichever comes last, the watch thread gets to see the flag.
LEMMA NextShutdown ==
  IInv /\ [Next]_vars => (FlagBeforeSignal /\ ExpireNowIsPast /\ JoinWillReturn)'
<1> SUFFICES ASSUME IInv, [Next]_vars
             PROVE  (FlagBeforeSignal /\ ExpireNowIsPast /\ JoinWillReturn)'
  OBVIOUS
<1>0. /\ now \in Nat /\ expireNow \in Nat
      /\ FlagBeforeSignal
      /\ ExpireNowIsPast
      /\ JoinWillReturn
  BY DEF IInv, TypeOK
<1> USE DEF FlagBeforeSignal, ExpireNowIsPast, JoinWillReturn,
          worldVars, eventVars, mainVars, watchVars
<1>1. ASSUME NEW h \in Host, NEW t \in Timeouts, addProcessHost(h, t)
      PROVE  (FlagBeforeSignal /\ ExpireNowIsPast /\ JoinWillReturn)'
  BY <1>0, <1>1 DEF addProcessHost
<1>2. ASSUME NEW h \in Host, OnChannelConnected(h) \/ PeerConnects(h) \/ PeerExits(h)
      PROVE  (FlagBeforeSignal /\ ExpireNowIsPast /\ JoinWillReturn)'
  BY <1>0, <1>2 DEF OnChannelConnected, PeerConnects, PeerExits
<1>3. CASE timerExpired
  BY <1>0, <1>3 DEF timerExpired
<1>4. CASE timerExpiredEntry
  BY <1>0, <1>4 DEF timerExpiredEntry
<1>5. CASE timerExpiredReturn \/ deleteProcessHost \/ Tick
  BY <1>0, <1>5 DEF timerExpiredReturn, deleteProcessHost, Tick
<1>6. CASE DestructorSetFlag
  BY <1>0, <1>6 DEF DestructorSetFlag
<1>7. CASE DestructorSignal
  BY <1>0, <1>7 DEF DestructorSignal
<1>8. CASE DestructorJoin
  BY <1>0, <1>8 DEF DestructorJoin
<1>9. CASE WatchReset
  BY <1>0, <1>9 DEF WatchReset
<1>10. CASE WatchCheck
  BY <1>0, <1>10 DEF WatchCheck
<1>11. CASE WatchBuild \/ WatchWokenUp \/ WatchPeerExited \/ WatchErase \/ WatchPost
  BY <1>0, <1>11 DEF WatchBuild, WatchWokenUp, WatchPeerExited, WatchErase, WatchPost
<1>12. CASE UNCHANGED vars
  BY <1>0, <1>12 DEF vars
<1> QED
  BY <1>1, <1>2, <1>3, <1>4, <1>5, <1>6, <1>7, <1>8, <1>9, <1>10, <1>11, <1>12
     DEF Next, BrowserMainStep, WatchStep

-----------------------------------------------------------------------------
(* The theorems.                                                           *)

\* The constructor establishes the inductive invariant.
LEMMA InitIInv == Init => IInv
<1> SUFFICES ASSUME Init PROVE IInv
  OBVIOUS
<1>1. TypeOK
  BY InitTypeOK
<1>2. VectorIsPrefix /\ LongerIsSignalled /\ IndexIsExited
  BY DEF Init, VectorIsPrefix, LongerIsSignalled, IndexIsExited
<1>3. HeldIsExited /\ PostedIsExited
  BY HostAssumption, EmptySeq DEF Init, HeldIsExited, PostedIsExited
<1>4. FlagBeforeSignal /\ ExpireNowIsPast /\ JoinWillReturn
  BY DEF Init, FlagBeforeSignal, ExpireNowIsPast, JoinWillReturn
<1> QED
  BY <1>1, <1>2, <1>3, <1>4 DEF IInv

\* IInv holds in every reachable state of the manager and its watch thread.
THEOREM InductiveInvariant == Spec => []IInv
<1>1. IInv /\ [Next]_vars => IInv'
  BY NextTypeOK, NextVector, NextExited, NextShutdown DEF IInv
<1> QED
  BY InitIInv, <1>1, PTL DEF Spec

\* Every variable of the manager keeps its type; in particular timerExpired's
\* iterator stays a valid position.
THEOREM TypeCorrect == Spec => []TypeOK
<1>1. IInv => TypeOK
  BY DEF IInv
<1> QED
  BY InductiveInvariant, <1>1, PTL

\* The index ThreadMain got from WaitMany still names the exited process when
\* the lock has been retaken: the DCHECK of line 184 holds and the right host
\* is erased, however many hosts timerExpired has appended in between.
THEOREM IndexStaysValid == Spec => []IndexDenotesExitedPeer
<1>1. IInv => IndexDenotesExitedPeer
  BY LenProperties DEF IInv, TypeOK, VectorIsPrefix, IndexIsExited, IndexDenotesExitedPeer
<1> QED
  BY InductiveInvariant, <1>1, PTL

\* ThreadMain never blocks on an out-of-date vector: no connection is missed.
THEOREM NoConnectionMissed == Spec => []NoMissedConnection
<1>1. IInv => NoMissedConnection
  <2> SUFFICES ASSUME IInv, watch = "wait", events # d_connectedProcessHosts
               PROVE  d_wakeupEvent
    BY DEF NoMissedConnection
  <2>1. /\ events \in Seq(Host)
        /\ d_connectedProcessHosts \in Seq(Host)
        /\ \A i \in 1..Len(events) : events[i] = d_connectedProcessHosts[i]
    BY DEF IInv, TypeOK, VectorIsPrefix
  <2>2. Len(events) # Len(d_connectedProcessHosts)
    BY <2>1, SeqEqual
  <2> QED
    BY <2>2 DEF IInv, LongerIsSignalled
<1> QED
  BY InductiveInvariant, <1>1, PTL

\* The destructor's Join is never left waiting for a thread nobody wakes.
THEOREM JoinReturns == Spec => []JoinWillReturn
<1>1. IInv => JoinWillReturn
  BY DEF IInv
<1> QED
  BY InductiveInvariant, <1>1, PTL

\* No host is deleted while its process may still use the channel, except by
\* the destructor of the manager.
THEOREM OnlyDeletedForCause == Spec => DeletedForCause
<1> DEFINE Cause(h) ==
      \/ peer[h] = "exited"
      \/ browserMain = "join"
      \/ /\ ~d_processHandle[h]
         /\ \E i \in 1..Len(d_unconnectedProcessHosts) :
              /\ d_unconnectedProcessHosts[i].host = h
              /\ d_unconnectedProcessHosts[i].expireTime <= now
    Step == \A h \in Host : deletes'[h] # deletes[h] => Cause(h)
<1>1. IInv /\ [Next]_vars => [Step]_vars
  <2> SUFFICES ASSUME IInv, Next, NEW h \in Host, deletes'[h] # deletes[h]
               PROVE  Cause(h)
    OBVIOUS
  <2>0. deletes \in [Host -> Nat]
    BY DEF IInv, TypeOK
  <2>1. CASE timerExpiredEntry
    <3>1. it \in 1..Len(d_unconnectedProcessHosts)
      BY <2>1 DEF timerExpiredEntry, IInv, TypeOK
    <3>2. Current \in Entry
      BY <3>1, ElementOfSeq DEF Current, IInv, TypeOK
    <3>3. ExpireEntry
      BY <2>1 DEF timerExpiredEntry, KeepEntry, ConnectEntry, deleteVars
    <3>4. Current.host = h
      BY <2>0, <3>3 DEF ExpireEntry
    <3>5. ~d_processHandle[h] /\ Current.expireTime <= now
      BY <3>2, <3>3, <3>4 DEF ExpireEntry, Entry, IInv, TypeOK, ExpireNowIsPast
    <3> QED
      BY <3>1, <3>4, <3>5 DEF Current
  <2>2. CASE deleteProcessHost
    <3>1. Head(tasks) = h
      BY <2>0, <2>2 DEF deleteProcessHost
    <3>2. tasks \in Seq(Host) /\ tasks # <<>>
      BY <2>2 DEF deleteProcessHost, IInv, TypeOK
    <3>3. Head(tasks) = tasks[1] /\ 1 \in 1..Len(tasks)
      BY <3>2, EmptySeq
    <3> QED
      BY <3>1, <3>3 DEF IInv, PostedIsExited
  <2>3. CASE DestructorJoin
    BY <2>3 DEF DestructorJoin
  <2>4. ASSUME NEW g \in Host, NEW t \in Timeouts, addProcessHost(g, t) PROVE FALSE
    BY <2>4 DEF addProcessHost, deleteVars
  <2>5. ASSUME NEW g \in Host, OnChannelConnected(g) \/ PeerConnects(g) \/ PeerExits(g)
        PROVE  FALSE
    BY <2>5 DEF OnChannelConnected, PeerConnects, PeerExits, deleteVars
  <2>6. CASE timerExpired \/ timerExpiredReturn \/ Tick
             \/ DestructorSetFlag \/ DestructorSignal
    BY <2>6 DEF timerExpired, timerExpiredReturn, Tick, DestructorSetFlag,
                DestructorSignal, deleteVars
  <2>7. CASE WatchStep
    BY <2>7 DEF WatchStep, WatchBuild, WatchWokenUp, WatchPeerExited, WatchReset,
                WatchCheck, WatchErase, WatchPost, deleteVars
  <2> QED
    BY <2>1, <2>2, <2>3, <2>4, <2>5, <2>6, <2>7 DEF Next, BrowserMainStep
<1> QED
  BY InductiveInvariant, <1>1, PTL DEF Spec, DeletedForCause

-----------------------------------------------------------------------------
(* Ownership.                                                              *)

\* How often a host is in each of the lists, and whether it has been added.
EntriesOf(h) == {e \in Entry : e.host = h}
InUnconnected(h) == Cardinality(Positions(d_unconnectedProcessHosts, EntriesOf(h)))
InConnected(h) == Cardinality(Positions(d_connectedProcessHosts, {h}))
InTasks(h) == Cardinality(Positions(tasks, {h}))
Held(h) == IF processHost = h THEN 1 ELSE 0
Added(h) == IF h \in added THEN 1 ELSE 0

\* The watch thread holds a host only between erasing and posting it.
HeldToPost == watch # "post" => processHost = NoHost

\* Owners adds these up.
Counted(h) ==
  /\ Owners(h) = InUnconnected(h) + InConnected(h) + InTasks(h) + Held(h) + deletes[h]
  /\ InUnconnected(h) \in Nat /\ InConnected(h) \in Nat /\ InTasks(h) \in Nat
  /\ deletes[h] \in Nat /\ Held(h) \in Nat /\ Added(h) \in Nat
AllCounted == \A h \in Host : Counted(h)

\* It does, of whatever the lists hold.
LEMMA OwnersAre == TypeOK => AllCounted
  <1> SUFFICES ASSUME TypeOK, NEW h \in Host
               PROVE  Counted(h)
    BY DEF AllCounted
  <1>1. {i \in 1 .. Len(d_unconnectedProcessHosts) :
           d_unconnectedProcessHosts[i].host = h}
          = Positions(d_unconnectedProcessHosts, EntriesOf(h))
    BY DEF TypeOK, Positions, EntriesOf
  <1>2. {i \in 1 .. Len(d_connectedProcessHosts) : d_connectedProcessHosts[i] = h}
          = Positions(d_connectedProcessHosts, {h})
    BY DEF Positions
  <1>3. {i \in 1 .. Len(tasks) : tasks[i] = h} = Positions(tasks, {h})
    BY DEF Positions
  <1>4. Owners(h) = InUnconnected(h) + InConnected(h) + InTasks(h) + Held(h) + deletes[h]
    BY <1>1, <1>2, <1>3 DEF Owners, InUnconnected, InConnected, InTasks, Held
  <1>5. InUnconnected(h) \in Nat /\ InConnected(h) \in Nat /\ InTasks(h) \in Nat
    BY PositionCount DEF TypeOK, InUnconnected, InConnected, InTasks
  <1> QED
    BY <1>4, <1>5 DEF TypeOK, Held, Added, Counted

\* So they do after a step.
LEMMA OwnersAreNext == TypeOK' => AllCounted'
  BY OwnersAre, PTL

\* The lists and the objects that own hosts have their types.
LEMMA OwnerTypes ==
  TypeOK => /\ d_unconnectedProcessHosts \in Seq(Entry)
            /\ d_connectedProcessHosts \in Seq(Host)
            /\ tasks \in Seq(Host)
            /\ deletes \in [Host -> Nat]
            /\ now \in Nat
  BY DEF TypeOK

\* What a step takes from one owner it gives to another.
HandsOn(h) ==
  InUnconnected(h)' + InConnected(h)' + InTasks(h)' + Held(h)' + deletes'[h] + Added(h)
    = InUnconnected(h) + InConnected(h) + InTasks(h) + Held(h) + deletes[h] + Added(h)'

\* Such a step leaves a host with one owner.
LEMMA HandedOn ==
  ASSUME TypeOK, TypeOK', OwnedExactlyOnce, \A h \in Host : HandsOn(h)
  PROVE  OwnedExactlyOnce'
  <1> SUFFICES ASSUME NEW h \in Host
               PROVE  Owners(h)' = Added(h)'
    BY DEF OwnedExactlyOnce, Added
  <1>1. Owners(h) = Added(h)
    BY DEF OwnedExactlyOnce, Added
  <1> QED
    BY <1>1, OwnersAre, OwnersAreNext DEF AllCounted, Counted, HandsOn

\* Erasing takes one element.
LEMMA WithoutCount ==
  ASSUME NEW M, NEW q \in Seq(M), NEW i \in 1 .. Len(q), NEW E
  PROVE  Cardinality(Positions(q, E)) =
           Cardinality(Positions(Without(q, i), E)) + (IF q[i] \in E THEN 1 ELSE 0)
  <1> DEFINE r == Without(q, i)
             x == SubSeq(q, 1, i - 1)
             y == SubSeq(q, i + 1, Len(q))
  <1>1. r \in Seq(M) /\ Len(q) \in Nat
    BY WithoutType, LenProperties
  <1>2. /\ x \in Seq(M) /\ Len(x) = i - 1 /\ \A j \in 1 .. i - 1 : x[j] = q[j]
    BY <1>1, SubSeqProperties
  <1>3. /\ y \in Seq(M) /\ Len(y) = Len(q) - i
        /\ \A j \in 1 .. Len(q) - i : y[j] = q[i + j]
    <2>1. CASE i = Len(q)
      BY <1>1, <2>1, SubSeqProperties
    <2>2. CASE i < Len(q)
      BY <1>1, <2>2, SubSeqProperties
    <2> QED
      BY <1>1, <2>1, <2>2
  <1>4. /\ r = x \o y /\ Len(x \o y) = Len(x) + Len(y)
        /\ \A j \in 1 .. Len(x) + Len(y) :
             (x \o y)[j] = IF j <= Len(x) THEN x[j] ELSE y[j - Len(x)]
    BY <1>2, <1>3, ConcatProperties DEF Without
  <1> HIDE DEF r, x, y
  <1>5. /\ Len(q) = Len(r) + 1
        /\ \A j \in 1 .. (i - 1) : r[j] = q[j]
    BY <1>1, <1>2, <1>3, <1>4
  <1>6. ASSUME NEW j \in i .. Len(r)
        PROVE  r[j] = q[j + 1]
    <2>1. r[j] = y[j - (i - 1)] /\ j - (i - 1) \in 1 .. Len(q) - i
      BY <1>1, <1>2, <1>3, <1>4
    <2>2. y[j - (i - 1)] = q[i + (j - (i - 1))] /\ i + (j - (i - 1)) = j + 1
      BY <1>3, <2>1
    <2> QED
      BY <2>1, <2>2
  <1>7. Cardinality(Positions(q, E)) =
           Cardinality(Positions(r, E)) + (IF q[i] \in E THEN 1 ELSE 0)
    BY <1>1, <1>5, <1>6, Erased
  <1> QED
    BY <1>7 DEF r

\* Steps that leave the owners of every host alone.
LEMMA OwnersStay ==
  ASSUME TypeOK, TypeOK', OwnedExactlyOnce,
         UNCHANGED <<added, d_unconnectedProcessHosts, d_connectedProcessHosts,
                     tasks, processHost, deletes>>
  PROVE  OwnedExactlyOnce'
  BY DEF OwnedExactlyOnce, Owners

\* addProcessHost becomes the owner of a host nobody had given to it.
LEMMA AddOwns ==
  ASSUME TypeOK, TypeOK', OwnedExactlyOnce, NEW g \in Host, NEW t \in Timeouts,
         addProcessHost(g, t)
  PROVE  OwnedExactlyOnce'
  <1> DEFINE e == [host |-> g, expireTime |-> now + t]
  <1>1. /\ g \notin added /\ added' = added \union {g}
        /\ d_unconnectedProcessHosts' = Append(d_unconnectedProcessHosts, e)
        /\ UNCHANGED <<d_connectedProcessHosts, tasks, processHost, deletes>>
    BY DEF addProcessHost, watchVars, deleteVars
  <1>2. e \in Entry /\ \A h \in Host : e \in EntriesOf(h) <=> h = g
    <2>1. now + t \in Nat
      BY OwnerTypes, TimeAssumption
    <2>2. e \in Entry /\ e.host = g
      BY <2>1 DEF Entry
    <2> HIDE DEF e
    <2> QED
      BY <2>2 DEF EntriesOf
  <1> HIDE DEF e
  <1>3. ASSUME NEW h \in Host
        PROVE  HandsOn(h)
    <2>1. InUnconnected(h)' = InUnconnected(h) + (IF h = g THEN 1 ELSE 0)
      BY <1>1, <1>2, PositionCount, OwnerTypes DEF InUnconnected
    <2>2. /\ Added(h)' = Added(h) + (IF h = g THEN 1 ELSE 0)
          /\ UNCHANGED <<InConnected(h), InTasks(h), Held(h), deletes[h]>>
      BY <1>1 DEF Added, InConnected, InTasks, Held
    <2>3. Counted(h) /\ Counted(h)'
      BY OwnersAre, OwnersAreNext DEF AllCounted
    <2> QED
      BY <2>1, <2>2, <2>3 DEF Counted, HandsOn
  <1> QED
    BY <1>3, HandedOn

\* timerExpired takes an entry from its list and deletes its host, or gives the
\* host to the watch thread.
LEMMA ExpiryOwns ==
  ASSUME TypeOK, TypeOK', OwnedExactlyOnce, timerExpiredEntry
  PROVE  OwnedExactlyOnce'
  <1> DEFINE g == Current.host
  <1>1. it \in 1 .. Len(d_unconnectedProcessHosts) /\ Current \in Entry
    BY ElementOfSeq DEF TypeOK, timerExpiredEntry, Current
  <1>2. g \in Host /\ \A h \in Host : Current \in EntriesOf(h) <=> h = g
    BY <1>1 DEF Entry, EntriesOf
  <1>3. UNCHANGED processHost
    BY DEF timerExpiredEntry, watchVars
  <1>4. CASE KeepEntry
    BY <1>3, <1>4, OwnersStay DEF KeepEntry, listVars, deleteVars
  <1>5. ASSUME d_unconnectedProcessHosts' = Without(d_unconnectedProcessHosts, it),
               NEW h \in Host
        PROVE  InUnconnected(h) = InUnconnected(h)' + (IF h = g THEN 1 ELSE 0)
    <2>1. Cardinality(Positions(d_unconnectedProcessHosts, EntriesOf(h))) =
            Cardinality(Positions(Without(d_unconnectedProcessHosts, it), EntriesOf(h)))
              + (IF d_unconnectedProcessHosts[it] \in EntriesOf(h) THEN 1 ELSE 0)
      BY <1>1, WithoutCount, OwnerTypes
    <2>2. d_unconnectedProcessHosts[it] \in EntriesOf(h) <=> h = g
      BY <1>2 DEF Current
    <2> HIDE DEF g
    <2> QED
      BY <1>5, <2>1, <2>2 DEF InUnconnected
  <1> HIDE DEF g
  <1>6. CASE ExpireEntry
    <2>1. /\ d_unconnectedProcessHosts' = Without(d_unconnectedProcessHosts, it)
          /\ deletes' = [deletes EXCEPT ![g] = @ + 1]
          /\ UNCHANGED <<added, d_connectedProcessHosts, tasks>>
      BY <1>6 DEF ExpireEntry, g
    <2>2. ASSUME NEW h \in Host
          PROVE  HandsOn(h)
      <3>1. InUnconnected(h) = InUnconnected(h)' + (IF h = g THEN 1 ELSE 0)
        BY <1>5, <2>1
      <3>2. /\ deletes'[h] = deletes[h] + (IF h = g THEN 1 ELSE 0)
            /\ UNCHANGED <<InConnected(h), InTasks(h), Held(h), Added(h)>>
        BY <1>2, <1>3, <2>1, OwnerTypes DEF InConnected, InTasks, Held, Added
      <3>3. Counted(h) /\ Counted(h)'
        BY OwnersAre, OwnersAreNext DEF AllCounted
      <3> QED
        BY <3>1, <3>2, <3>3 DEF Counted, HandsOn
    <2> QED
      BY <2>2, HandedOn
  <1>7. CASE ConnectEntry
    <2>1. /\ d_unconnectedProcessHosts' = Without(d_unconnectedProcessHosts, it)
          /\ d_connectedProcessHosts' = Append(d_connectedProcessHosts, g)
          /\ UNCHANGED <<added, tasks, deletes>>
      BY <1>7 DEF ConnectEntry, deleteVars, g
    <2>2. ASSUME NEW h \in Host
          PROVE  HandsOn(h)
      <3>1. InUnconnected(h) = InUnconnected(h)' + (IF h = g THEN 1 ELSE 0)
        BY <1>5, <2>1
      <3>2. InConnected(h)' = InConnected(h) + (IF h = g THEN 1 ELSE 0)
        BY <1>2, <2>1, PositionCount, OwnerTypes DEF InConnected
      <3>3. UNCHANGED <<InTasks(h), Held(h), Added(h), deletes[h]>>
        BY <1>3, <2>1 DEF InTasks, Held, Added
      <3>4. Counted(h) /\ Counted(h)'
        BY OwnersAre, OwnersAreNext DEF AllCounted
      <3> QED
        BY <3>1, <3>2, <3>3, <3>4 DEF Counted, HandsOn
    <2> QED
      BY <2>2, HandedOn
  <1> QED
    BY <1>4, <1>6, <1>7 DEF timerExpiredEntry

\* The watch thread takes a host from its list, and posts it.
LEMMA WatchOwns ==
  ASSUME IInv, TypeOK', HeldToPost, OwnedExactlyOnce, WatchErase \/ WatchPost
  PROVE  OwnedExactlyOnce'
  <1>0. TypeOK
    BY DEF IInv
  <1>1. CASE WatchErase
    <2> DEFINE g == d_connectedProcessHosts[processIndex]
    <2>1. /\ processIndex \in 1 .. Len(d_connectedProcessHosts)
          /\ processHost = NoHost
      BY <1>0, <1>1 DEF WatchErase, IInv, IndexIsExited, HeldToPost, TypeOK
    <2>2. /\ d_connectedProcessHosts' = Without(d_connectedProcessHosts, processIndex)
          /\ processHost' = g
          /\ UNCHANGED <<added, d_unconnectedProcessHosts, tasks, deletes>>
      BY <1>1 DEF WatchErase, deleteVars
    <2>3. ASSUME NEW h \in Host
          PROVE  HandsOn(h)
      <3>1. InConnected(h) = InConnected(h)' + (IF h = g THEN 1 ELSE 0)
        BY <1>0, <2>1, <2>2, WithoutCount, OwnerTypes DEF InConnected
      <3> HIDE DEF g
      <3>2. /\ Held(h) = 0 /\ Held(h)' = (IF h = g THEN 1 ELSE 0)
            /\ UNCHANGED <<InUnconnected(h), InTasks(h), Added(h), deletes[h]>>
        BY <2>1, <2>2, HostAssumption DEF InUnconnected, InTasks, Held, Added
      <3>3. Counted(h) /\ Counted(h)'
        BY <1>0, OwnersAre, OwnersAreNext DEF AllCounted
      <3> QED
        BY <3>1, <3>2, <3>3 DEF Counted, HandsOn
    <2> QED
      BY <1>0, <2>3, HandedOn
  <1>2. CASE WatchPost
    <2>1. /\ processHost \in Host /\ tasks' = Append(tasks, processHost)
          /\ processHost' = NoHost
          /\ UNCHANGED <<added, d_unconnectedProcessHosts, d_connectedProcessHosts,
                         deletes>>
      BY <1>2 DEF WatchPost, IInv, HeldIsExited, listVars
    <2>2. ASSUME NEW h \in Host
          PROVE  HandsOn(h)
      <3>1. InTasks(h)' = InTasks(h) + (IF processHost = h THEN 1 ELSE 0)
        BY <1>0, <2>1, PositionCount, OwnerTypes DEF InTasks
      <3>2. /\ Held(h) = (IF processHost = h THEN 1 ELSE 0) /\ Held(h)' = 0
            /\ UNCHANGED <<InUnconnected(h), InConnected(h), Added(h), deletes[h]>>
        BY <2>1, HostAssumption DEF InUnconnected, InConnected, Held, Added
      <3>3. Counted(h) /\ Counted(h)'
        BY <1>0, OwnersAre, OwnersAreNext DEF AllCounted
      <3> QED
        BY <3>1, <3>2, <3>3 DEF Counted, HandsOn
    <2> QED
      BY <1>0, <2>2, HandedOn
  <1> QED
    BY <1>1, <1>2

\* The posted task deletes the host it was posted for, once.
LEMMA TaskOwns ==
  ASSUME TypeOK, TypeOK', OwnedExactlyOnce, deleteProcessHost
  PROVE  OwnedExactlyOnce'
  <1> DEFINE g == Head(tasks)
  <1>1. /\ tasks # <<>> /\ tasks' = Tail(tasks) /\ deletes' = [deletes EXCEPT ![g] = @ + 1]
        /\ UNCHANGED <<added, d_unconnectedProcessHosts, d_connectedProcessHosts,
                       processHost>>
    BY DEF deleteProcessHost, listVars, watchVars
  <1>2. ASSUME NEW h \in Host
        PROVE  HandsOn(h)
    <2>1. Cardinality(Positions(tasks, {h})) =
            Cardinality(Positions(Tail(tasks), {h})) + (IF g \in {h} THEN 1 ELSE 0)
      BY <1>1, PositionCount, OwnerTypes
    <2>2. deletes'[h] = deletes[h] + (IF h = g THEN 1 ELSE 0)
      BY <1>1, OwnerTypes
    <2> HIDE DEF g
    <2>3. InTasks(h) = InTasks(h)' + (IF h = g THEN 1 ELSE 0)
      BY <1>1, <2>1 DEF InTasks
    <2>4. UNCHANGED <<InUnconnected(h), InConnected(h), Held(h), Added(h)>>
      BY <1>1 DEF InUnconnected, InConnected, Held, Added
    <2>5. Counted(h) /\ Counted(h)'
      BY OwnersAre, OwnersAreNext DEF AllCounted
    <2> QED
      BY <2>2, <2>3, <2>4, <2>5 DEF Counted, HandsOn
  <1> QED
    BY <1>2, HandedOn

\* The destructor deletes what is left in the lists, each host once: a host is
\* at most once in one of them.
LEMMA DestructorOwns ==
  ASSUME TypeOK, TypeOK', OwnedExactlyOnce, DestructorJoin
  PROVE  OwnedExactlyOnce'
  <1>1. /\ d_connectedProcessHosts' = <<>> /\ d_unconnectedProcessHosts' = <<>>
        /\ UNCHANGED <<added, tasks, processHost>>
    BY DEF DestructorJoin, watchVars
  <1>2. ASSUME NEW h \in Host
        PROVE  /\ InConnected(h) = IF h \in Connected THEN 1 ELSE 0
               /\ InUnconnected(h) = IF h \in Unconnected THEN 1 ELSE 0
    <2>1. InConnected(h) \in {0, 1} /\ InUnconnected(h) \in {0, 1}
      <3>1. Owners(h) \in {0, 1}
        BY DEF OwnedExactlyOnce
      <3> QED
        BY <3>1, OwnersAre DEF AllCounted, Counted
    <2>2. InConnected(h) = 0 <=> h \notin Connected
      <3> DEFINE P == Positions(d_connectedProcessHosts, {h})
      <3>1. Cardinality(P) = 0 <=> \A i \in 1 .. Len(d_connectedProcessHosts) :
                                     d_connectedProcessHosts[i] \notin {h}
        <4>1. Cardinality(P) = 0 => \A i \in 1 .. Len(d_connectedProcessHosts) :
                                      d_connectedProcessHosts[i] \notin {h}
          BY PositionCount, OwnerTypes
        <4>2. ASSUME \A i \in 1 .. Len(d_connectedProcessHosts) :
                       d_connectedProcessHosts[i] \notin {h}
              PROVE  Cardinality(P) = 0
          <5>1. P = {}
            BY <4>2 DEF Positions
          <5> QED
            BY <5>1, FS_EmptySet
        <4> QED
          BY <4>1, <4>2
      <3> QED
        BY <3>1 DEF Connected, InConnected
    <2>3. InUnconnected(h) = 0 <=> h \notin Unconnected
      <3>1. InUnconnected(h) = 0 <=> \A i \in 1 .. Len(d_unconnectedProcessHosts) :
                                       d_unconnectedProcessHosts[i] \notin EntriesOf(h)
        BY PositionCount, OwnerTypes DEF InUnconnected
      <3>2. \A i \in 1 .. Len(d_unconnectedProcessHosts) :
              d_unconnectedProcessHosts[i] \in EntriesOf(h)
                <=> d_unconnectedProcessHosts[i].host = h
        BY OwnerTypes, ElementOfSeq DEF EntriesOf
      <3> QED
        BY <3>1, <3>2 DEF Unconnected
    <2> QED
      BY <2>1, <2>2, <2>3
  <1>3. ASSUME NEW h \in Host
        PROVE  HandsOn(h)
    <2>1. Positions(<<>>, {h}) = {} /\ Positions(<<>>, EntriesOf(h)) = {}
      BY DEF Positions
    <2>2. InConnected(h)' = 0 /\ InUnconnected(h)' = 0
      BY <1>1, <2>1, FS_EmptySet DEF InConnected, InUnconnected
    <2>3. deletes'[h] = deletes[h] + InConnected(h) + InUnconnected(h)
      BY <1>2 DEF DestructorJoin
    <2>4. UNCHANGED <<InTasks(h), Held(h), Added(h)>>
      BY <1>1 DEF InTasks, Held, Added
    <2>5. Counted(h) /\ Counted(h)'
      BY OwnersAre, OwnersAreNext DEF AllCounted
    <2> QED
      BY <2>2, <2>3, <2>4, <2>5 DEF Counted, HandsOn
  <1> QED
    BY <1>3, HandedOn

\* Each step hands on what it owned, and the watch thread posts what it holds.
LEMMA OwnershipStep ==
  ASSUME IInv, HeldToPost, OwnedExactlyOnce, [Next]_vars
  PROVE  (HeldToPost /\ OwnedExactlyOnce)'
  <1>1. TypeOK /\ TypeOK'
    BY NextTypeOK DEF IInv
  <1>2. HeldToPost'
    BY DEF HeldToPost, Next, BrowserMainStep, WatchStep, vars, watchVars,
           addProcessHost, OnChannelConnected, timerExpired, timerExpiredEntry,
           timerExpiredReturn, deleteProcessHost, DestructorSetFlag,
           DestructorSignal, DestructorJoin, WatchBuild, WatchWokenUp,
           WatchPeerExited, WatchReset, WatchCheck, WatchErase, WatchPost, Tick,
           PeerConnects, PeerExits
  <1> DEFINE Same == UNCHANGED <<added, d_unconnectedProcessHosts,
                       d_connectedProcessHosts, tasks, processHost, deletes>>
  <1>3. \/ \E h \in Host, t \in Timeouts : addProcessHost(h, t)
        \/ timerExpiredEntry \/ deleteProcessHost \/ DestructorJoin
        \/ WatchErase \/ WatchPost
        \/ Same
    <2>1. ASSUME BrowserMainStep, ~Same
          PROVE  \/ \E h \in Host, t \in Timeouts : addProcessHost(h, t)
                 \/ timerExpiredEntry \/ deleteProcessHost \/ DestructorJoin
      BY <2>1 DEF BrowserMainStep, OnChannelConnected, timerExpired,
           timerExpiredReturn, DestructorSetFlag, DestructorSignal, listVars,
           watchVars, deleteVars
    <2>2. ASSUME WatchStep, ~Same
          PROVE  WatchErase \/ WatchPost
      BY <2>2 DEF WatchStep, WatchBuild, WatchWokenUp, WatchPeerExited, WatchReset,
           WatchCheck, listVars, deleteVars
    <2>3. ASSUME \/ Tick \/ UNCHANGED vars
                 \/ \E h \in Host : PeerConnects(h) \/ PeerExits(h)
          PROVE  Same
      BY <2>3 DEF Tick, PeerConnects, PeerExits, vars, listVars, watchVars, deleteVars
    <2> HIDE DEF Same
    <2> QED
      BY <2>1, <2>2, <2>3 DEF Next
  <1>4. OwnedExactlyOnce'
    BY <1>1, <1>3, AddOwns, ExpiryOwns, WatchOwns, TaskOwns, DestructorOwns, OwnersStay
  <1> QED
    BY <1>2, <1>4

\* A host handed to addProcessHost has one owner at every moment and is deleted
\* once by whoever of the timer, the posted task and the destructor comes to it.
THEOREM AlwaysOwnedExactlyOnce == Spec => []OwnedExactlyOnce
  <1>1. Init => HeldToPost /\ OwnedExactlyOnce
    <2> SUFFICES ASSUME Init PROVE HeldToPost /\ OwnedExactlyOnce
      OBVIOUS
    <2>1. TypeOK
      BY InitTypeOK
    <2>2. ASSUME NEW h \in Host
          PROVE  Owners(h) = 0 /\ h \notin added
      <3>1. \A E : Positions(<<>>, E) = {}
        BY DEF Positions
      <3>2. InUnconnected(h) = 0 /\ InConnected(h) = 0 /\ InTasks(h) = 0
        BY <3>1, FS_EmptySet DEF Init, InUnconnected, InConnected, InTasks
      <3>3. Held(h) = 0 /\ deletes[h] = 0 /\ h \notin added
        BY HostAssumption DEF Init, Held
      <3> QED
        BY <2>1, <3>2, <3>3, OwnersAre DEF AllCounted, Counted
    <2> QED
      BY <2>2 DEF OwnedExactlyOnce, HeldToPost, Init
  <1>2. IInv /\ HeldToPost /\ OwnedExactlyOnce /\ [Next]_vars
          => (HeldToPost /\ OwnedExactlyOnce)'
    BY OwnershipStep
  <1> QED
    BY <1>1, <1>2, InductiveInvariant, PTL DEF Spec
=============================================================================
