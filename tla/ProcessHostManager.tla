------------------------- MODULE ProcessHostManager -------------------------
(***************************************************************************)
(* blpwtk2::ProcessHostManager: the object on the browser-main thread that *)
(* owns the ProcessHosts created for other processes, and the thread it    *)
(* starts to watch those processes.                                        *)
(*                                                                         *)
(* Two threads run here.  The browser-main thread runs addProcessHost,     *)
(* OnChannelConnected, the expiry timer, the posted deletions and finally  *)
(* the destructor.  The watch thread runs ThreadMain.  They share the two  *)
(* lists (under d_lock), d_wakeupEvent and d_isShuttingDown.               *)
(*                                                                         *)
(* Every critical section is one step, with one exception: timerExpired    *)
(* keeps d_lock over its whole loop and signals d_wakeupEvent from inside  *)
(* it, so the loop is one step per entry and the lock is held exactly      *)
(* while browserMain = "expiring".                                         *)
(***************************************************************************)
EXTENDS Integers, Sequences, FiniteSets

CONSTANTS Host,               \* the ProcessHost objects
          NoHost,             \* no ProcessHost
          Timeouts,           \* timeouts passed to addProcessHost
          MaxTime,            \* bound on the clock
          MaximumWaitObjects  \* what WaitForMultipleObjects accepts

ASSUME HostAssumption == NoHost \notin Host
ASSUME TimeAssumption == MaxTime \in Nat /\ Timeouts \subseteq Nat
ASSUME WaitAssumption == MaximumWaitObjects \in Nat \ {0}

VARIABLES
  now,                        \* TimeTicks::Now()
  peer,                       \* peer process of each host
  d_processHandle,            \* has OnChannelConnected set the handle?
  added,                      \* hosts passed to addProcessHost so far
  d_unconnectedProcessHosts,  \* list of [host, expireTime]
  d_connectedProcessHosts,    \* vector of hosts
  d_timer,                    \* [running, desired_run_time]
  d_wakeupEvent,              \* manual-reset event
  d_isShuttingDown,
  browserMain,                \* where the browser-main thread is
  it, expireNow,              \* locals of timerExpired
  watch,                      \* where ThreadMain is
  events,                     \* ThreadMain's copy of the connected vector
  processIndex, processHost,  \* locals of ThreadMain
  tasks,                      \* deleteProcessHost tasks posted to browser-main
  checkFailed,                \* the CHECK that ended the process, or "none"
  deletes                     \* how often each host has been deleted

worldVars  == <<now, checkFailed>>
peerVars   == <<peer, d_processHandle>>
listVars   == <<added, d_unconnectedProcessHosts, d_connectedProcessHosts>>
eventVars  == <<d_wakeupEvent, d_isShuttingDown>>
mainVars   == <<browserMain, it, expireNow, d_timer>>
watchVars  == <<watch, events, processIndex, processHost>>
deleteVars == <<tasks, deletes>>
vars == <<worldVars, peerVars, listVars, eventVars, mainVars, watchVars,
          deleteVars>>

Entry == [host : Host, expireTime : Nat]

\* A one-shot base::Timer, Start()ed with a delay or Stop()ped.
StartTimer(delay) == [running |-> TRUE, desired_run_time |-> now + delay]
StopTimer == [d_timer EXCEPT !.running = FALSE]

\* The vector without its i-th element.
Without(s, i) == SubSeq(s, 1, i - 1) \o SubSeq(s, i + 1, Len(s))

\* d_lock is free: only timerExpired holds it across steps.
LockFree == browserMain # "expiring"

Init ==
  /\ now = 0
  /\ peer = [h \in Host |-> "absent"]
  /\ d_processHandle = [h \in Host |-> FALSE]
  /\ added = {}
  /\ d_unconnectedProcessHosts = <<>>
  /\ d_connectedProcessHosts = <<>>
  /\ d_timer = [running |-> FALSE, desired_run_time |-> 0]
  /\ d_wakeupEvent = FALSE
  /\ d_isShuttingDown = FALSE
  /\ browserMain = "idle"
  /\ it = 1
  /\ expireNow = 0
  /\ watch = "build"
  /\ events = <<>>
  /\ processIndex = 0
  /\ processHost = NoHost
  /\ tasks = <<>>
  /\ checkFailed = "none"
  /\ deletes = [h \in Host |-> 0]

-----------------------------------------------------------------------------
(* The environment: time and the peer processes.                           *)

Tick ==
  /\ now < MaxTime
  /\ now' = now + 1
  /\ UNCHANGED <<checkFailed, peerVars, listVars, eventVars, mainVars, watchVars, deleteVars>>

\* The other process opens the channel of a host that still listens.
PeerConnects(h) ==
  /\ h \in added
  /\ deletes[h] = 0
  /\ peer[h] = "absent"
  /\ peer' = [peer EXCEPT ![h] = "running"]
  /\ UNCHANGED <<worldVars, d_processHandle, listVars, eventVars, mainVars,
                 watchVars, deleteVars>>

PeerExits(h) ==
  /\ peer[h] = "running"
  /\ peer' = [peer EXCEPT ![h] = "exited"]
  /\ UNCHANGED <<worldVars, d_processHandle, listVars, eventVars, mainVars,
                 watchVars, deleteVars>>

-----------------------------------------------------------------------------
(* The browser-main thread.                                                *)

addProcessHost(h, timeout) ==
  /\ browserMain = "idle"
  /\ h \notin added
  /\ now + timeout <= MaxTime
  /\ added' = added \union {h}
  /\ d_unconnectedProcessHosts' =
       Append(d_unconnectedProcessHosts,
              [host |-> h, expireTime |-> now + timeout])
  /\ d_timer' = IF d_timer.running /\ now + timeout >= d_timer.desired_run_time
                THEN d_timer
                ELSE StartTimer(timeout)
  /\ UNCHANGED <<worldVars, peerVars, d_connectedProcessHosts, eventVars,
                 browserMain, it, expireNow, watchVars, deleteVars>>

\* ProcessHostImpl::OnChannelConnected.  OpenProcess can fail when the peer
\* has exited in the meantime; the CHECK then ends the process.
OnChannelConnected(h) ==
  /\ browserMain \in {"idle", "gone"}
  /\ peer[h] # "absent"
  /\ ~d_processHandle[h]
  /\ deletes[h] = 0
  /\ \/ /\ d_processHandle' = [d_processHandle EXCEPT ![h] = TRUE]
        /\ UNCHANGED checkFailed
     \/ /\ peer[h] = "exited"
        /\ checkFailed' = "OpenProcess"
        /\ UNCHANGED d_processHandle
  /\ UNCHANGED <<now, peer, listVars, eventVars, mainVars, watchVars, deleteVars>>

\* Mutant: the iterator starts one element too early.
timerExpiredOffByOne ==
  /\ browserMain = "idle"
  /\ d_timer.running
  /\ now >= d_timer.desired_run_time
  /\ d_timer' = StopTimer
  /\ expireNow' = now
  /\ it' = 0
  /\ browserMain' = "expiring"
  /\ UNCHANGED <<worldVars, peerVars, listVars, eventVars, watchVars, deleteVars>>

\* Timer::RunScheduledTask stops the one-shot timer and calls timerExpired,
\* which reads the clock and takes the lock.
timerExpired ==
  /\ browserMain = "idle"
  /\ d_timer.running
  /\ now >= d_timer.desired_run_time
  /\ d_timer' = StopTimer
  /\ expireNow' = now
  /\ it' = 1
  /\ browserMain' = "expiring"
  /\ UNCHANGED <<worldVars, peerVars, listVars, eventVars, watchVars, deleteVars>>

Current == d_unconnectedProcessHosts[it]

\* Loop body: still waiting for a connection.
KeepEntry ==
  /\ ~d_processHandle[Current.host]
  /\ Current.expireTime > expireNow
  /\ it' = it + 1
  /\ UNCHANGED <<listVars, eventVars, deleteVars>>

\* Mutant: the entry is deleted but not erased from the list.
ExpireEntryNotErased ==
  /\ ~d_processHandle[Current.host]
  /\ Current.expireTime <= expireNow
  /\ deletes' = [deletes EXCEPT ![Current.host] = @ + 1]
  /\ it' = it + 1
  /\ UNCHANGED <<listVars, eventVars, tasks>>

\* Mutant: the timer is taken as proof that every entry has expired.
ExpireEntryUnconditionally ==
  /\ ~d_processHandle[Current.host]
  /\ deletes' = [deletes EXCEPT ![Current.host] = @ + 1]
  /\ d_unconnectedProcessHosts' = Without(d_unconnectedProcessHosts, it)
  /\ UNCHANGED <<it, added, d_connectedProcessHosts, eventVars, tasks>>

\* Loop body: nothing connected in time, delete the host.
ExpireEntry ==
  /\ ~d_processHandle[Current.host]
  /\ Current.expireTime <= expireNow
  /\ deletes' = [deletes EXCEPT ![Current.host] = @ + 1]
  /\ d_unconnectedProcessHosts' = Without(d_unconnectedProcessHosts, it)
  /\ UNCHANGED <<it, added, d_connectedProcessHosts, eventVars, tasks>>

\* Mutant: new connections go to the front of the vector.
ConnectEntryAtFront ==
  /\ d_processHandle[Current.host]
  /\ d_connectedProcessHosts' = <<Current.host>> \o d_connectedProcessHosts
  /\ d_wakeupEvent' = TRUE
  /\ d_unconnectedProcessHosts' = Without(d_unconnectedProcessHosts, it)
  /\ UNCHANGED <<it, added, d_isShuttingDown, deleteVars>>

\* Mutant: the watch thread is not told about the new connection.
ConnectEntryNoSignal ==
  /\ d_processHandle[Current.host]
  /\ d_connectedProcessHosts' = Append(d_connectedProcessHosts, Current.host)
  /\ d_unconnectedProcessHosts' = Without(d_unconnectedProcessHosts, it)
  /\ UNCHANGED <<it, added, eventVars, deleteVars>>

\* Loop body: connected, hand the host to the watch thread.
ConnectEntry ==
  /\ d_processHandle[Current.host]
  /\ d_connectedProcessHosts' = Append(d_connectedProcessHosts, Current.host)
  /\ d_wakeupEvent' = TRUE
  /\ d_unconnectedProcessHosts' = Without(d_unconnectedProcessHosts, it)
  /\ UNCHANGED <<it, added, d_isShuttingDown, deleteVars>>

timerExpiredEntry ==
  /\ browserMain = "expiring"
  /\ it <= Len(d_unconnectedProcessHosts)
  /\ KeepEntry \/ ExpireEntry \/ ConnectEntry
  /\ UNCHANGED <<worldVars, peerVars, browserMain, expireNow, d_timer, watchVars>>

timerExpiredReturn ==
  /\ browserMain = "expiring"
  /\ it > Len(d_unconnectedProcessHosts)
  /\ browserMain' = "idle"
  /\ UNCHANGED <<worldVars, peerVars, listVars, eventVars, it, expireNow,
                 d_timer, watchVars, deleteVars>>

\* A posted deleteProcessHost runs.
deleteProcessHost ==
  /\ browserMain \in {"idle", "gone"}
  /\ tasks # <<>>
  /\ deletes' = [deletes EXCEPT ![Head(tasks)] = @ + 1]
  /\ tasks' = Tail(tasks)
  /\ UNCHANGED <<worldVars, peerVars, listVars, eventVars, mainVars, watchVars>>

\* ~ProcessHostManager, step by step.
DestructorSetFlag ==
  /\ browserMain = "idle"
  /\ d_isShuttingDown' = TRUE
  /\ browserMain' = "signal"
  /\ UNCHANGED <<worldVars, peerVars, listVars, d_wakeupEvent, it, expireNow,
                 d_timer, watchVars, deleteVars>>

\* Mutant: the destructor joins without waking the watch thread.
DestructorNoSignal ==
  /\ browserMain = "signal"
  /\ d_timer' = StopTimer
  /\ browserMain' = "join"
  /\ UNCHANGED <<worldVars, peerVars, listVars, eventVars, it, expireNow,
                 watchVars, deleteVars>>

DestructorSignal ==
  /\ browserMain = "signal"
  /\ d_timer' = StopTimer
  /\ d_wakeupEvent' = TRUE
  /\ browserMain' = "join"
  /\ UNCHANGED <<worldVars, peerVars, listVars, d_isShuttingDown, it, expireNow,
                 watchVars, deleteVars>>

Unconnected == {d_unconnectedProcessHosts[i].host :
                  i \in 1..Len(d_unconnectedProcessHosts)}
Connected == {d_connectedProcessHosts[i] : i \in 1..Len(d_connectedProcessHosts)}

\* Join returns once ThreadMain has; both lists are deleted.
DestructorJoin ==
  /\ browserMain = "join"
  /\ watch = "done"
  /\ deletes' = [h \in Host |->
                   deletes[h] + (IF h \in Connected THEN 1 ELSE 0)
                              + (IF h \in Unconnected THEN 1 ELSE 0)]
  /\ d_connectedProcessHosts' = <<>>
  /\ d_unconnectedProcessHosts' = <<>>
  /\ browserMain' = "gone"
  /\ UNCHANGED <<worldVars, peerVars, added, eventVars, it, expireNow, d_timer,
                 watchVars, tasks>>

-----------------------------------------------------------------------------
(* The watch thread: ThreadMain.                                           *)

\* The waitable vector is rebuilt under the lock: the wakeup event and one
\* event per connected process.  WaitMany CHECKs how many there are.
WatchBuild ==
  /\ watch = "build"
  /\ LockFree
  /\ events' = d_connectedProcessHosts
  /\ watch' = "wait"
  /\ checkFailed' = IF Len(d_connectedProcessHosts) + 1 > MaximumWaitObjects
                    THEN "WaitMany"
                    ELSE checkFailed
  /\ UNCHANGED <<now, peerVars, listVars, eventVars, mainVars, processIndex,
                 processHost, deleteVars>>

\* WaitMany returns the lowest signalled index; the wakeup event has index 0.
WatchWokenUp ==
  /\ watch = "wait"
  /\ d_wakeupEvent
  /\ watch' = "reset"
  /\ UNCHANGED <<worldVars, peerVars, listVars, eventVars, mainVars, events,
                 processIndex, processHost, deleteVars>>

Exited(i) == peer[events[i]] = "exited"

\* Mutant: the first process of the vector is never looked at.
WatchPeerExitedSkipsFirst ==
  /\ watch = "wait"
  /\ ~d_wakeupEvent
  /\ \E i \in 2..Len(events) :
       /\ Exited(i)
       /\ \A j \in 2..(i - 1) : ~Exited(j)
       /\ processIndex' = i
  /\ watch' = "erase"
  /\ UNCHANGED <<worldVars, peerVars, listVars, eventVars, mainVars, events,
                 processHost, deleteVars>>

WatchPeerExited ==
  /\ watch = "wait"
  /\ ~d_wakeupEvent
  /\ \E i \in 1..Len(events) :
       /\ Exited(i)
       /\ \A j \in 1..(i - 1) : ~Exited(j)
       /\ processIndex' = i
  /\ watch' = "erase"
  /\ UNCHANGED <<worldVars, peerVars, listVars, eventVars, mainVars, events,
                 processHost, deleteVars>>

WatchReset ==
  /\ watch = "reset"
  /\ d_wakeupEvent' = FALSE
  /\ watch' = "check"
  /\ UNCHANGED <<worldVars, peerVars, listVars, d_isShuttingDown, mainVars,
                 events, processIndex, processHost, deleteVars>>

\* Mutant: the shutdown flag is not looked at after a wakeup.
WatchCheckIgnoresShutdown ==
  /\ watch = "check"
  /\ LockFree
  /\ watch' = "build"
  /\ UNCHANGED <<worldVars, peerVars, listVars, eventVars, mainVars, events,
                 processIndex, processHost, deleteVars>>

WatchCheck ==
  /\ watch = "check"
  /\ LockFree
  /\ watch' = IF d_isShuttingDown THEN "done" ELSE "build"
  /\ UNCHANGED <<worldVars, peerVars, listVars, eventVars, mainVars, events,
                 processIndex, processHost, deleteVars>>

WatchErase ==
  /\ watch = "erase"
  /\ LockFree
  /\ processIndex <= Len(d_connectedProcessHosts)
  /\ processHost' = d_connectedProcessHosts[processIndex]
  /\ d_connectedProcessHosts' = Without(d_connectedProcessHosts, processIndex)
  /\ watch' = "post"
  /\ UNCHANGED <<worldVars, peerVars, added, d_unconnectedProcessHosts,
                 eventVars, mainVars, events, processIndex, deleteVars>>

WatchPost ==
  /\ watch = "post"
  /\ tasks' = Append(tasks, processHost)
  /\ processHost' = NoHost
  /\ watch' = "build"
  /\ UNCHANGED <<worldVars, peerVars, listVars, eventVars, mainVars, events,
                 processIndex, deletes>>

-----------------------------------------------------------------------------
BrowserMainStep ==
  \/ \E h \in Host, t \in Timeouts : addProcessHost(h, t)
  \/ \E h \in Host : OnChannelConnected(h)
  \/ timerExpired \/ timerExpiredEntry \/ timerExpiredReturn
  \/ deleteProcessHost
  \/ DestructorSetFlag \/ DestructorSignal \/ DestructorJoin

WatchStep ==
  \/ WatchBuild \/ WatchWokenUp \/ WatchPeerExited
  \/ WatchReset \/ WatchCheck \/ WatchErase \/ WatchPost

Next ==
  \/ checkFailed = "none" /\ (BrowserMainStep \/ WatchStep)
  \/ Tick
  \/ \E h \in Host : PeerConnects(h) \/ PeerExits(h)

Spec == Init /\ [][Next]_vars

(***************************************************************************)
(* Fairness: time passes, the browser-main message loop keeps running what *)
(* is due, and the operating system schedules the watch thread.  Nothing   *)
(* is assumed of the callers of addProcessHost, of the peers, or of the    *)
(* moment the manager is destroyed.                                        *)
(***************************************************************************)
Alive == checkFailed = "none"

Fairness ==
  /\ WF_vars(Tick)
  /\ \A h \in Host : WF_vars(Alive /\ OnChannelConnected(h))
  /\ WF_vars(Alive /\ (timerExpired \/ timerExpiredEntry \/ timerExpiredReturn))
  /\ WF_vars(Alive /\ deleteProcessHost)
  /\ WF_vars(Alive /\ (DestructorSignal \/ DestructorJoin))
  /\ WF_vars(Alive /\ WatchStep)

FairSpec == Spec /\ Fairness

-----------------------------------------------------------------------------
(* Properties.                                                             *)

TypeOK ==
  /\ now \in Nat
  /\ peer \in [Host -> {"absent", "running", "exited"}]
  /\ d_processHandle \in [Host -> BOOLEAN]
  /\ added \subseteq Host
  /\ d_unconnectedProcessHosts \in Seq(Entry)
  /\ d_connectedProcessHosts \in Seq(Host)
  /\ d_timer \in [running : BOOLEAN, desired_run_time : Nat]
  /\ d_wakeupEvent \in BOOLEAN
  /\ d_isShuttingDown \in BOOLEAN
  /\ browserMain \in {"idle", "expiring", "signal", "join", "gone"}
  /\ it \in Nat \ {0}
  /\ expireNow \in Nat
  /\ watch \in {"build", "wait", "reset", "check", "erase", "post", "done"}
  /\ events \in Seq(Host)
  /\ processIndex \in Nat
  /\ processHost \in Host \union {NoHost}
  /\ tasks \in Seq(Host)
  /\ checkFailed \in {"none", "OpenProcess", "WaitMany"}
  /\ deletes \in [Host -> Nat]

\* The index WaitMany returned is used after d_lock was dropped and retaken
\* (ThreadMain lines 168-188).  It must still be inside the vector (the DCHECK
\* of line 184) and still denote the process whose handle was signalled.
IndexDenotesExitedPeer ==
  watch = "erase" =>
    /\ processIndex \in 1..Len(d_connectedProcessHosts)
    /\ processIndex \in 1..Len(events)
    /\ d_connectedProcessHosts[processIndex] = events[processIndex]
    /\ peer[events[processIndex]] = "exited"

\* Lost wakeup: the watch thread never blocks on an out-of-date vector.  If a
\* host was moved to the connected list after the vector was built, the wakeup
\* event is signalled, whatever the order of Signal, Reset and rebuild.
NoMissedConnection ==
  watch = "wait" /\ events # d_connectedProcessHosts => d_wakeupEvent

\* The destructor's Join cannot hang: once it has signalled, the watch thread
\* is past the point of no return or its next wait returns index 0.
JoinWillReturn ==
  browserMain = "join" => watch \in {"check", "done"} \/ d_wakeupEvent

\* How many owners a host has: the lists, the watch thread between erasing and
\* posting, the posted tasks, and its deletions.
Owners(h) ==
    Cardinality({i \in 1..Len(d_unconnectedProcessHosts) :
                   d_unconnectedProcessHosts[i].host = h})
  + Cardinality({i \in 1..Len(d_connectedProcessHosts) :
                   d_connectedProcessHosts[i] = h})
  + Cardinality({i \in 1..Len(tasks) : tasks[i] = h})
  + (IF processHost = h THEN 1 ELSE 0)
  + deletes[h]

\* A host handed to the manager is neither leaked nor deleted twice, although
\* the timer, the watch thread's posted task and the destructor all delete.
OwnedExactlyOnce ==
  \A h \in Host : Owners(h) = IF h \in added THEN 1 ELSE 0

\* A host is deleted only because its peer exited, because its timeout passed
\* with no connection seen, or because the manager is being destroyed.
DeletedForCause ==
  [][\A h \in Host : deletes'[h] # deletes[h] =>
       \/ peer[h] = "exited"
       \/ browserMain = "join"
       \/ /\ ~d_processHandle[h]
          /\ \E i \in 1..Len(d_unconnectedProcessHosts) :
               /\ d_unconnectedProcessHosts[i].host = h
               /\ d_unconnectedProcessHosts[i].expireTime <= now]_vars

\* "When one of those processes dies, this object will cleanup the associated
\* ProcessHost": once a host has reached the connected list and its process
\* has exited, it is deleted, unless a CHECK ends the browser process.
ExitedPeerIsCleanedUp ==
  \A h \in Host : h \in Connected /\ peer[h] = "exited"
                    ~> deletes[h] = 1 \/ ~Alive

\* Destroying the manager terminates: the watch thread sees the flag and exits.
ShutdownCompletes == browserMain = "signal" ~> browserMain = "gone" \/ ~Alive

\* blpwtk2_toolkit.h:148: "If the other process does not connect within this
\* timeout, then the channel will be destroyed and will no longer be usable."
\* A host nobody ever connects to does not stay listening forever.
UnconnectedHostIsDestroyed ==
  \A h \in Host : h \in Unconnected /\ peer[h] = "absent"
                    ~> peer[h] # "absent" \/ h \notin Unconnected \/ ~Alive
=============================================================================
