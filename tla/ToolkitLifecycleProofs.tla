----------------------- MODULE ToolkitLifecycleProofs -----------------------
(***************************************************************************)
(* Proofs about ToolkitLifecycle, for any finite number of processes and   *)
(* contexts and any bounds on views and waiting messages.                  *)
(*                                                                         *)
(* That nothing outlives the contexts rests on an argument about three     *)
(* queues at once.  The messages in the pipe of a channel lead the host    *)
(* from the views it has to those its client has (Served), so no message   *)
(* is handled in a state its handler does not expect.  The tasks of        *)
(* browser-main are in the order of the shutdown (Ordered, Announced,      *)
(* Phases), so the hosts that the manager has are gone before the contexts *)
(* (Gone).  A host that its thread has taken out of its list is in the     *)
(* queue until it is deleted, and the loop ends with an empty queue        *)
(* (Ending).  And each context counts the views of all hosts that have it  *)
(* (Count), so that none are left to count.                                *)
(***************************************************************************)
EXTENDS ToolkitLifecycle, TLAPS, FiniteSetTheorems, SequenceTheorems

\* The profile of a host or a client, or none.
Profiles == Contexts \union {NoContext}
\* What is posted to browser-main, each with the host it is about.
Tasks == TaskKinds \X Hosts

\* The types, with the number of views bounded by MaxViews on both sides.
Typed ==
  /\ mode \in {"RENDERER_MAIN", "ORIGINAL"}
  /\ app \in {"new", "starting", "startingHost", "running", "finalSync",
              "destroying", "joining", "draining", "originalCleanup",
              "stopped", "crashed"}
  /\ signalled \in BOOLEAN
  /\ client \in [Hosts -> {"none", "running", "finalSync", "closed", "died"}]
  /\ profile \in [Hosts -> Profiles]
  /\ proxies \in [Hosts -> 0 .. MaxViews]
  /\ pipe \in [Hosts -> Seq(Messages)]
  /\ replied \in [Hosts -> BOOLEAN]
  /\ host \in [Hosts -> {"none", "live", "held", "posted", "deleted"}]
  /\ d_receivedFinalSync \in [Hosts -> BOOLEAN]
  /\ profileHost \in [Hosts -> Profiles]
  /\ viewHosts \in [Hosts -> 0 .. MaxViews]
  /\ renderHost \in [Hosts -> {"none", "live", "deleted"}]
  /\ errorHandled \in [Hosts -> BOOLEAN]
  /\ browser \in {"none", "starting", "running", "quitting", "ended"}
  /\ tasks \in Seq(Tasks)
  /\ manager \in {"none", "live", "gone"}
  /\ context \in [Contexts -> {"none", "live", "destroyed", "deleted"}]
  /\ d_numWebViews \in [Contexts -> Int]
  /\ rendererThread \in {"none", "starting", "running", "ended"}
  /\ rendererLoop \in BOOLEAN

-----------------------------------------------------------------------------
(* The messages of a channel.                                              *)

\* What a message does to the profile and the number of views.
Snapshots == Profiles \X (0 .. MaxViews)

\* b is what message m makes of a: the calls that ProfileProxy and WebViewProxy
\* allow, seen from the host.
Effect(a, m, b) ==
  \/ m[1] = "ProfileNew" /\ a = <<NoContext, 0>> /\ b = <<m[2], 0>>
  \/ m[1] = "ProfileDestroy" /\ a[1] # NoContext /\ a[2] = 0 /\ b = <<NoContext, 0>>
  \/ m[1] = "WebViewNew" /\ a[1] # NoContext /\ a[2] < MaxViews /\ b = <<a[1], a[2] + 1>>
  \/ m[1] = "WebViewDestroy" /\ a[2] > 0 /\ b = <<a[1], a[2] - 1>>
  \/ m[1] \in {"Sync", "Close"} /\ b = a

\* s is what the messages q make of a, one after the other, up to b.
Steps(s, a, q, b) ==
  /\ Len(s) = Len(q) + 1
  /\ s[1] = a /\ s[Len(s)] = b
  /\ \A i \in 1 .. Len(q) : Effect(s[i], q[i], s[i + 1])

\* The messages q lead a host from a to b.
Leads(a, q, b) == \E s \in Seq(Snapshots) : Steps(s, a, q, b)

\* The Sync is the last thing a client sends before it closes, and once it is
\* answered only the Close is left.
InTurn(q, state, answered) ==
  \A i \in 1 .. Len(q) :
    /\ q[i][1] = "Close" => state \in {"closed", "died"}
    /\ q[i][1] = "Sync" => /\ state \notin {"none", "running"}
                           /\ \A j \in 1 .. Len(q) : j > i => q[j][1] = "Close"
    /\ answered => q[i][1] = "Close"

\* An empty pipe leads nowhere else: host and client agree.
LEMMA NothingLeads ==
  ASSUME NEW a \in Snapshots
  PROVE  /\ Leads(a, <<>>, a)
         /\ \A b : Leads(a, <<>>, b) => b = a
  <1>1. <<a>> \in Seq(Snapshots) /\ Len(<<a>>) = 1 /\ <<a>>[1] = a
    OBVIOUS
  <1>2. Len(<<>>) = 0
    OBVIOUS
  <1>3. Steps(<<a>>, a, <<>>, a)
    BY <1>1, <1>2 DEF Steps
  <1> QED
    BY <1>1, <1>2, <1>3 DEF Leads, Steps

\* A message that is sent extends the way by its effect.
LEMMA SendingLeads ==
  ASSUME NEW a, NEW b, NEW c \in Snapshots, NEW q \in Seq(Messages),
         NEW m \in Messages, Leads(a, q, b), Effect(b, m, c)
  PROVE  Leads(a, Append(q, m), c)
  <1>1. PICK s \in Seq(Snapshots) : Steps(s, a, q, b)
    BY DEF Leads
  <1> DEFINE t == Append(s, c)
             r == Append(q, m)
  <1>2. /\ t \in Seq(Snapshots) /\ Len(t) = Len(s) + 1 /\ t[Len(t)] = c
        /\ \A i \in 1 .. Len(s) : t[i] = s[i]
    OBVIOUS
  <1>3. /\ r \in Seq(Messages) /\ Len(r) = Len(q) + 1 /\ r[Len(r)] = m
        /\ \A i \in 1 .. Len(q) : r[i] = q[i]
    OBVIOUS
  <1>4. Len(s) = Len(q) + 1 /\ s[1] = a /\ s[Len(s)] = b /\ Len(q) \in Nat
    BY <1>1 DEF Steps
  <1>5. \A i \in 1 .. Len(q) : Effect(s[i], q[i], s[i + 1])
    BY <1>1 DEF Steps
  <1> HIDE DEF t, r
  <1>6. ASSUME NEW i \in 1 .. Len(r) PROVE Effect(t[i], r[i], t[i + 1])
    <2>1. CASE i = Len(r)
      BY <2>1, <1>2, <1>3, <1>4
    <2>2. CASE i \in 1 .. Len(q)
      <3>1. t[i] = s[i] /\ t[i + 1] = s[i + 1] /\ r[i] = q[i]
        BY <2>2, <1>2, <1>3, <1>4
      <3> QED
        BY <3>1, <1>5, <2>2
    <2> QED
      BY <2>1, <2>2, <1>3, <1>4
  <1>7. Len(t) = Len(r) + 1 /\ t[1] = a
    BY <1>2, <1>3, <1>4
  <1>8. Steps(t, a, r, c)
    BY <1>2, <1>6, <1>7 DEF Steps
  <1> QED
    BY <1>8, <1>2 DEF Leads, r

\* The first message has the effect it was sent for, and the others lead on
\* from there.
LEMMA TakingLeads ==
  ASSUME NEW a, NEW b, NEW q \in Seq(Messages), q # <<>>, Leads(a, q, b)
  PROVE  \E c \in Snapshots : Effect(a, Head(q), c) /\ Leads(c, Tail(q), b)
  <1>1. PICK s \in Seq(Snapshots) : Steps(s, a, q, b)
    BY DEF Leads
  <1>2. /\ Len(s) = Len(q) + 1 /\ s[1] = a /\ s[Len(s)] = b
        /\ Len(q) \in Nat /\ Len(q) > 0 /\ Head(q) = q[1]
    BY <1>1 DEF Steps
  <1>3. \A i \in 1 .. Len(q) : Effect(s[i], q[i], s[i + 1])
    BY <1>1 DEF Steps
  <1> DEFINE t == Tail(s)
             r == Tail(q)
  <1>4. /\ t \in Seq(Snapshots) /\ Len(t) = Len(s) - 1
        /\ \A i \in 1 .. Len(t) : t[i] = s[i + 1]
    BY <1>2
  <1>5. /\ Len(r) = Len(q) - 1
        /\ \A i \in 1 .. Len(r) : r[i] = q[i + 1]
    BY <1>2
  <1> HIDE DEF t, r
  <1>6. s[2] \in Snapshots /\ Effect(a, Head(q), s[2])
    BY <1>2, <1>3
  <1>7. ASSUME NEW i \in 1 .. Len(r) PROVE Effect(t[i], r[i], t[i + 1])
    <2>1. t[i] = s[i + 1] /\ t[i + 1] = s[i + 2] /\ r[i] = q[i + 1]
      BY <1>2, <1>4, <1>5
    <2>2. i + 1 \in 1 .. Len(q) /\ i + 2 = (i + 1) + 1
      BY <1>2, <1>5
    <2> QED
      BY <2>1, <2>2, <1>3
  <1>8. Len(t) = Len(r) + 1 /\ t[1] = s[2] /\ t[Len(t)] = b
    BY <1>2, <1>4, <1>5
  <1>9. Steps(t, s[2], r, b)
    BY <1>7, <1>8 DEF Steps
  <1> QED
    BY <1>4, <1>6, <1>9 DEF Leads, r

\* A call, the final Sync and the Close, each sent in its turn, keep the turns.
LEMMA SendingInTurn ==
  ASSUME NEW q \in Seq(Messages), NEW m \in Messages, NEW answered
  PROVE  /\ m[1] \notin {"Sync", "Close"} /\ ~answered
              /\ InTurn(q, "running", answered) =>
              InTurn(Append(q, m), "running", answered)
         /\ m[1] = "Sync" /\ ~answered /\ InTurn(q, "running", answered) =>
              InTurn(Append(q, m), "finalSync", answered)
         /\ \A old : \A new \in {"closed", "died"} :
              m[1] = "Close" /\ InTurn(q, old, answered) =>
                InTurn(Append(q, m), new, answered)
  <1>1. /\ Len(Append(q, m)) = Len(q) + 1 /\ Append(q, m)[Len(q) + 1] = m
        /\ \A i \in 1 .. Len(q) : Append(q, m)[i] = q[i]
        /\ Len(q) \in Nat
    OBVIOUS
  <1> QED
    BY <1>1 DEF InTurn

\* The messages left are in turn; a Sync that is taken leaves only the Close.
LEMMA TakingInTurn ==
  ASSUME NEW q \in Seq(Messages), q # <<>>, NEW state, NEW answered,
         InTurn(q, state, answered)
  PROVE  /\ InTurn(Tail(q), state, answered)
         /\ Head(q)[1] = "Sync" => /\ state \notin {"none", "running"}
                                   /\ InTurn(Tail(q), state, TRUE)
         /\ Head(q)[1] = "Close" => state \in {"closed", "died"}
         /\ answered => Head(q)[1] = "Close"
  <1>1. /\ Len(Tail(q)) = Len(q) - 1 /\ Head(q) = q[1]
        /\ \A i \in 1 .. Len(Tail(q)) : Tail(q)[i] = q[i + 1]
        /\ Len(q) \in Nat /\ Len(q) > 0
    OBVIOUS
  <1> QED
    BY <1>1 DEF InTurn

-----------------------------------------------------------------------------
(* The tasks of browser-main.                                              *)

\* The order of the tasks that the application posts at startup and shutdown;
\* the others may be anywhere.
Rank(k) ==
  IF k = "createHost" THEN 1
  ELSE IF k = "destroyHost" THEN 2
  ELSE IF k = "destroyManager" THEN 3
  ELSE IF k = "destroyContexts" THEN 4
  ELSE IF k = "signal" THEN 5
  ELSE IF k = "quit" THEN 6
  ELSE 0

\* The tasks that have a rank.
Ranked == {"createHost", "destroyHost", "destroyManager", "destroyContexts",
           "signal", "quit"}

\* Queue q has a task of kind k.
Has(q, k) == \E i \in 1 .. Len(q) : q[i][1] = k

\* The tasks with a rank are in the order of their ranks, each there once.
Ordered(q) ==
  \A i, j \in 1 .. Len(q) :
    i < j /\ q[i][1] \in Ranked /\ q[j][1] \in Ranked =>
      Rank(q[i][1]) < Rank(q[j][1])

\* Queue q has none of the tasks with a rank.
Unranked(q) == \A k \in Ranked : ~Has(q, k)

\* A queue in order stays in order without its head, and what stays in it
\* ranks above the head.
LEMMA TakingATask ==
  ASSUME NEW q \in Seq(Tasks), q # <<>>
  PROVE  /\ Tail(q) \in Seq(Tasks) /\ Head(q) \in Tasks
         /\ Ordered(q) => Ordered(Tail(q))
         /\ Has(q, Head(q)[1])
         /\ \A k : /\ Has(Tail(q), k) => Has(q, k)
                   /\ Has(q, k) /\ Head(q)[1] # k => Has(Tail(q), k)
         /\ \A k \in Ranked :
              Ordered(q) /\ Has(Tail(q), k) /\ Head(q)[1] \in Ranked =>
                Rank(Head(q)[1]) < Rank(k)
  <1>1. /\ Len(Tail(q)) = Len(q) - 1 /\ Head(q) = q[1]
        /\ \A i \in 1 .. Len(Tail(q)) : Tail(q)[i] = q[i + 1]
        /\ Len(q) \in Nat /\ Len(q) > 0
        /\ Tail(q) \in Seq(Tasks) /\ Head(q) \in Tasks
    OBVIOUS
  <1>2. Ordered(q) => Ordered(Tail(q))
    BY <1>1 DEF Ordered
  <1>3. Has(q, Head(q)[1])
    BY <1>1 DEF Has
  <1>4. ASSUME NEW k PROVE Has(Tail(q), k) => Has(q, k)
    BY <1>1 DEF Has
  <1>5. ASSUME NEW k, Has(q, k), Head(q)[1] # k PROVE Has(Tail(q), k)
    <2>1. PICK i \in 1 .. Len(q) : q[i][1] = k
      BY <1>5 DEF Has
    <2>2. i - 1 \in 1 .. Len(Tail(q)) /\ (i - 1) + 1 = i
      BY <1>1, <1>5, <2>1
    <2>3. Tail(q)[i - 1] = q[i]
      BY <2>2, <1>1
    <2> QED
      BY <2>1, <2>2, <2>3 DEF Has
  <1>6. ASSUME NEW k \in Ranked, Ordered(q), Has(Tail(q), k),
               Head(q)[1] \in Ranked
        PROVE  Rank(Head(q)[1]) < Rank(k)
    <2>1. PICK i \in 1 .. Len(Tail(q)) : Tail(q)[i][1] = k
      BY <1>6 DEF Has
    <2>2. q[i + 1][1] = k /\ i + 1 \in 1 .. Len(q) /\ 1 < i + 1
      BY <2>1, <1>1
    <2> QED
      BY <2>2, <1>1, <1>6 DEF Ordered
  <1> QED
    BY <1>1, <1>2, <1>3, <1>4, <1>5, <1>6

\* What a queue has when tasks are added, and when it is still in order.
LEMMA AddingTasks ==
  ASSUME NEW q \in Seq(Tasks), NEW r \in Seq(Tasks)
  PROVE  /\ q \o r \in Seq(Tasks)
         /\ \A k : Has(q \o r, k) <=> Has(q, k) \/ Has(r, k)
         /\ Ordered(q) /\ Unranked(r) => Ordered(q \o r)
         /\ Unranked(q) /\ Ordered(r) => Ordered(q \o r)
  <1> DEFINE s == q \o r
  <1>1. /\ s \in Seq(Tasks) /\ Len(s) = Len(q) + Len(r)
        /\ \A i \in 1 .. Len(q) : s[i] = q[i]
        /\ \A i \in 1 .. Len(r) : s[Len(q) + i] = r[i]
        /\ Len(q) \in Nat /\ Len(r) \in Nat
    OBVIOUS
  <1> HIDE DEF s
  <1>2. \A i \in 1 .. Len(s) :
          \/ i \in 1 .. Len(q) /\ s[i] = q[i]
          \/ i - Len(q) \in 1 .. Len(r) /\ s[i] = r[i - Len(q)] /\ i > Len(q)
    <2> TAKE i \in 1 .. Len(s)
    <2>1. CASE i \in 1 .. Len(q)
      BY <2>1, <1>1
    <2>2. CASE i \notin 1 .. Len(q)
      <3>1. i - Len(q) \in 1 .. Len(r) /\ Len(q) + (i - Len(q)) = i
        BY <2>2, <1>1
      <3> QED
        BY <3>1, <1>1
    <2> QED
      BY <2>1, <2>2
  <1>3. ASSUME NEW k PROVE Has(s, k) <=> Has(q, k) \/ Has(r, k)
    <2>1. Has(s, k) => Has(q, k) \/ Has(r, k)
      BY <1>2 DEF Has
    <2>2. Has(q, k) => Has(s, k)
      BY <1>1 DEF Has
    <2>3. ASSUME Has(r, k) PROVE Has(s, k)
      <3>1. PICK i \in 1 .. Len(r) : r[i][1] = k
        BY <2>3 DEF Has
      <3>2. Len(q) + i \in 1 .. Len(s) /\ s[Len(q) + i] = r[i]
        BY <3>1, <1>1
      <3> QED
        BY <3>1, <3>2 DEF Has
    <2> QED
      BY <2>1, <2>2, <2>3
  <1>4. ASSUME Ordered(q), Unranked(r) PROVE Ordered(s)
    <2>1. \A i \in 1 .. Len(r) : r[i][1] \notin Ranked
      BY <1>4 DEF Unranked, Has
    <2>2. \A i \in 1 .. Len(s) : s[i][1] \in Ranked =>
            i \in 1 .. Len(q) /\ s[i] = q[i]
      BY <2>1, <1>2
    <2> QED
      BY <2>2, <1>4 DEF Ordered
  <1>5. ASSUME Unranked(q), Ordered(r) PROVE Ordered(s)
    <2>1. \A i \in 1 .. Len(q) : q[i][1] \notin Ranked
      BY <1>5 DEF Unranked, Has
    <2>2. \A i \in 1 .. Len(s) : s[i][1] \in Ranked =>
            i - Len(q) \in 1 .. Len(r) /\ s[i] = r[i - Len(q)]
      BY <2>1, <1>2
    <2>3. ASSUME NEW i \in 1 .. Len(s), NEW j \in 1 .. Len(s), i < j,
                 s[i][1] \in Ranked, s[j][1] \in Ranked
          PROVE  Rank(s[i][1]) < Rank(s[j][1])
      <3>1. /\ i - Len(q) \in 1 .. Len(r) /\ s[i] = r[i - Len(q)]
            /\ j - Len(q) \in 1 .. Len(r) /\ s[j] = r[j - Len(q)]
        BY <2>2, <2>3
      <3>2. i - Len(q) < j - Len(q)
        BY <2>3, <1>1
      <3> QED
        BY <3>1, <3>2, <2>3, <1>5 DEF Ordered
    <2> QED
      BY <2>3 DEF Ordered
  <1> QED
    BY <1>1, <1>3, <1>4, <1>5 DEF s

\* Deletions are posted for hosts that exist, the destruction for Local.
Fit(q, of) ==
  \A i \in 1 .. Len(q) :
    /\ q[i][1] = "deleteHost" => q[i][2] \in Remotes /\ of[q[i][2]] # "none"
    /\ q[i][1] = "destroyHost" => q[i][2] = Local

\* Tasks stay fit when the head is taken, when others are added, and while no
\* host ceases to exist.
LEMMA FitTasks ==
  ASSUME NEW q \in Seq(Tasks), NEW of, Fit(q, of)
  PROVE  /\ q # <<>> =>
              /\ Fit(Tail(q), of)
              /\ Head(q)[1] = "deleteHost" =>
                   Head(q)[2] \in Remotes /\ of[Head(q)[2]] # "none"
              /\ Head(q)[1] = "destroyHost" => Head(q)[2] = Local
         /\ \A r \in Seq(Tasks) : Fit(r, of) => Fit(q \o r, of)
         /\ \A new : (\A h \in Remotes : of[h] # "none" => new[h] # "none") =>
              Fit(q, new)
  <1>1. ASSUME q # <<>>
        PROVE  /\ Fit(Tail(q), of)
               /\ Head(q)[1] = "deleteHost" =>
                    Head(q)[2] \in Remotes /\ of[Head(q)[2]] # "none"
               /\ Head(q)[1] = "destroyHost" => Head(q)[2] = Local
    <2>1. /\ Len(Tail(q)) = Len(q) - 1 /\ Head(q) = q[1]
          /\ \A i \in 1 .. Len(Tail(q)) : Tail(q)[i] = q[i + 1]
          /\ Len(q) \in Nat /\ Len(q) > 0
      BY <1>1
    <2> QED
      BY <2>1 DEF Fit
  <1>2. ASSUME NEW r \in Seq(Tasks), Fit(r, of) PROVE Fit(q \o r, of)
    <2>1. ASSUME NEW i \in 1 .. Len(q \o r)
          PROVE  \/ i \in 1 .. Len(q) /\ (q \o r)[i] = q[i]
                 \/ i - Len(q) \in 1 .. Len(r) /\ (q \o r)[i] = r[i - Len(q)]
      OBVIOUS
    <2> QED
      BY <2>1, <1>2 DEF Fit
  <1>3. ASSUME NEW new, \A h \in Remotes : of[h] # "none" => new[h] # "none"
        PROVE  Fit(q, new)
    BY <1>3 DEF Fit
  <1> QED
    BY <1>1, <1>2, <1>3

\* SetToSeq of a set of tasks is a sequence of tasks of that set.
LEMMA SetToSeqOf ==
  ASSUME NEW S, IsFiniteSet(S)
  PROVE  SetToSeq(S) \in Seq(S)
  <1> DEFINE n == Cardinality(S)
  <1>1. n \in Nat /\ ExistsBijection(1 .. n, S)
    BY FS_CardinalityType
  <1>2. PICK f \in Bijection(1 .. n, S) : TRUE
    BY <1>1 DEF ExistsBijection
  <1>3. f \in [1 .. n -> S] /\ IsInjective(f)
    BY <1>2 DEF Bijection, Injection, IsInjective
  <1>4. SetToSeq(S) \in [1 .. n -> S]
    BY <1>3 DEF SetToSeq
  <1> QED
    BY <1>1, <1>4

\* There are finitely many hosts.
LEMMA HostsAreFinite == IsFiniteSet(Hosts)
  BY HostAssumption, FS_AddElement DEF Hosts

\* The tasks that ~ProcessHostImpl posts for the hosts of S.
LEMMA DeletionTasks ==
  ASSUME NEW S \in SUBSET Hosts
  PROVE  LET q == SetToSeq({Task("deleteRenderHost", h) :
                            h \in {g \in S : renderHost[g] = "live"}})
         IN  /\ q \in Seq(Tasks)
             /\ \A i \in 1 .. Len(q) : q[i][1] = "deleteRenderHost"
             /\ Unranked(q)
  <1> DEFINE D == {"deleteRenderHost"} \X Hosts
             T == {Task("deleteRenderHost", h) :
                     h \in {g \in S : renderHost[g] = "live"}}
             q == SetToSeq(T)
  <1>1. IsFiniteSet(D)
    BY HostsAreFinite, FS_Singleton, FS_Product
  <1>2. T \in SUBSET D
    BY DEF Task
  <1>3. IsFiniteSet(T)
    BY <1>1, <1>2, FS_Subset
  <1>4. q \in Seq(T)
    BY <1>3, SetToSeqOf
  <1> HIDE DEF q
  <1>5. \A i \in 1 .. Len(q) : q[i] \in T
    BY <1>4
  <1>6. \A i \in 1 .. Len(q) : q[i][1] = "deleteRenderHost"
    BY <1>2, <1>5
  <1>7. T \in SUBSET Tasks
    BY DEF Task, Tasks, TaskKinds
  <1>8. q \in Seq(Tasks)
    BY <1>4, <1>7
  <1>9. Unranked(q)
    BY <1>6 DEF Unranked, Has, Ranked
  <1> QED
    BY <1>6, <1>8, <1>9 DEF q

-----------------------------------------------------------------------------
(* The views counted on a context.                                         *)

\* The views of the hosts in S that have context c, one element for each view:
\* ViewsOn(c, S) with the profiles p and the numbers of views n.
ViewsOf(p, n, c, S) ==
  {v \in S \X (1 .. MaxViews) : p[v[1]] = c /\ v[2] <= n[v[1]]}

\* d counts on each context the views of the hosts that have it, where host h
\* has profile p[h] and n[h] views.
Counts(d, p, n) ==
  \A c \in Contexts : d[c] = Cardinality(ViewsOf(p, n, c, Hosts))

\* The profiles of all hosts, and their numbers of views.
ProfileMaps == [Hosts -> Profiles]
ViewMaps == [Hosts -> 0 .. MaxViews]

\* There are finitely many views, so that they can be counted.
LEMMA ViewsAreFinite ==
  ASSUME NEW p, NEW n, NEW c, NEW S \in SUBSET Hosts
  PROVE  /\ IsFiniteSet(ViewsOf(p, n, c, S))
         /\ Cardinality(ViewsOf(p, n, c, S)) \in 0 .. MaxViews * Cardinality(Hosts)
  <1>1. IsFiniteSet(1 .. MaxViews) /\ Cardinality(1 .. MaxViews) = MaxViews
    BY BoundAssumption, FS_Interval
  <1>2. /\ IsFiniteSet(Hosts \X (1 .. MaxViews))
        /\ Cardinality(Hosts \X (1 .. MaxViews)) = Cardinality(Hosts) * MaxViews
    BY <1>1, HostsAreFinite, FS_Product
  <1>3. ViewsOf(p, n, c, S) \in SUBSET (Hosts \X (1 .. MaxViews))
    BY DEF ViewsOf
  <1>4. /\ IsFiniteSet(ViewsOf(p, n, c, S))
        /\ Cardinality(ViewsOf(p, n, c, S)) <= Cardinality(Hosts) * MaxViews
    BY <1>2, <1>3, FS_Subset
  <1>5. Cardinality(ViewsOf(p, n, c, S)) \in Nat /\ Cardinality(Hosts) \in Nat
    BY <1>4, HostsAreFinite, FS_CardinalityType
  <1> QED
    BY <1>4, <1>5, BoundAssumption

\* A new view is counted once, on the context of its host (AddView).
LEMMA CountAdded ==
  ASSUME NEW d \in [Contexts -> Int], NEW p \in ProfileMaps, NEW n \in ViewMaps,
         Counts(d, p, n), NEW h \in Hosts, p[h] # NoContext, n[h] < MaxViews
  PROVE  Counts([d EXCEPT ![p[h]] = @ + 1], p, [n EXCEPT ![h] = @ + 1])
  <1> DEFINE m == [n EXCEPT ![h] = @ + 1]
             e == [d EXCEPT ![p[h]] = @ + 1]
  <1> SUFFICES ASSUME NEW c \in Contexts
               PROVE  e[c] = Cardinality(ViewsOf(p, m, c, Hosts))
    BY DEF Counts
  <1>1. d[c] = Cardinality(ViewsOf(p, n, c, Hosts))
    BY DEF Counts
  <1>2. n[h] \in 0 .. MaxViews /\ MaxViews \in Nat /\ p[h] \in Contexts
    BY BoundAssumption DEF ViewMaps, ProfileMaps, Profiles
  <1>3. \A g \in Hosts : m[g] = IF g = h THEN n[h] + 1 ELSE n[g]
    BY DEF ViewMaps
  <1>4. \A g \in Hosts : n[g] \in 0 .. MaxViews
    BY DEF ViewMaps
  <1>5. e[c] = IF c = p[h] THEN d[c] + 1 ELSE d[c]
    BY <1>2
  <1> HIDE DEF m, e
  <1>6. CASE c = p[h]
    <2>1. ViewsOf(p, m, c, Hosts)
            = ViewsOf(p, n, c, Hosts) \union {<<h, n[h] + 1>>}
      BY <1>6, <1>2, <1>3, <1>4 DEF ViewsOf
    <2>2. <<h, n[h] + 1>> \notin ViewsOf(p, n, c, Hosts)
      BY <1>2 DEF ViewsOf
    <2>3. IsFiniteSet(ViewsOf(p, n, c, Hosts))
      BY ViewsAreFinite
    <2>4. Cardinality(ViewsOf(p, n, c, Hosts) \union {<<h, n[h] + 1>>})
            = Cardinality(ViewsOf(p, n, c, Hosts)) + 1
      BY <2>2, <2>3, FS_AddElement
    <2> QED
      BY <2>1, <2>4, <1>1, <1>5, <1>6
  <1>7. CASE c # p[h]
    <2>1. ViewsOf(p, m, c, Hosts) = ViewsOf(p, n, c, Hosts)
      BY <1>7, <1>3 DEF ViewsOf
    <2> QED
      BY <2>1, <1>1, <1>5, <1>7
  <1> QED
    BY <1>6, <1>7

\* A view that is destroyed was counted and is no longer (RemoveView).
LEMMA CountRemoved ==
  ASSUME NEW d \in [Contexts -> Int], NEW p \in ProfileMaps, NEW n \in ViewMaps,
         Counts(d, p, n), NEW h \in Hosts, p[h] # NoContext, n[h] > 0
  PROVE  Counts([d EXCEPT ![p[h]] = @ - 1], p, [n EXCEPT ![h] = @ - 1])
  <1> DEFINE m == [n EXCEPT ![h] = @ - 1]
             e == [d EXCEPT ![p[h]] = @ - 1]
  <1> SUFFICES ASSUME NEW c \in Contexts
               PROVE  e[c] = Cardinality(ViewsOf(p, m, c, Hosts))
    BY DEF Counts
  <1>1. d[c] = Cardinality(ViewsOf(p, n, c, Hosts))
    BY DEF Counts
  <1>2. n[h] \in 0 .. MaxViews /\ MaxViews \in Nat /\ p[h] \in Contexts
    BY BoundAssumption DEF ViewMaps, ProfileMaps, Profiles
  <1>3. \A g \in Hosts : m[g] = IF g = h THEN n[h] - 1 ELSE n[g]
    BY DEF ViewMaps
  <1>4. \A g \in Hosts : n[g] \in 0 .. MaxViews
    BY DEF ViewMaps
  <1>5. e[c] = IF c = p[h] THEN d[c] - 1 ELSE d[c]
    BY <1>2
  <1> HIDE DEF m, e
  <1>6. CASE c = p[h]
    <2>1. ViewsOf(p, m, c, Hosts)
            = ViewsOf(p, n, c, Hosts) \ {<<h, n[h]>>}
      BY <1>6, <1>2, <1>3, <1>4 DEF ViewsOf
    <2>2. <<h, n[h]>> \in ViewsOf(p, n, c, Hosts)
      BY <1>2, <1>6 DEF ViewsOf
    <2> QED
      BY ZenonT(40), <2>1, <2>2, <1>1, <1>5, <1>6, ViewsAreFinite, FS_RemoveElement
  <1>7. CASE c # p[h]
    <2>1. ViewsOf(p, m, c, Hosts) = ViewsOf(p, n, c, Hosts)
      BY <1>7, <1>3 DEF ViewsOf
    <2> QED
      BY <2>1, <1>1, <1>5, <1>7
  <1> QED
    BY <1>6, <1>7

\* A host without views may change its profile: no count depends on it.
LEMMA CountKept ==
  ASSUME NEW d, NEW p \in ProfileMaps, NEW n \in ViewMaps,
         Counts(d, p, n), NEW h \in Hosts, n[h] = 0, NEW c \in Profiles
  PROVE  Counts(d, [p EXCEPT ![h] = c], n)
  <1> DEFINE r == [p EXCEPT ![h] = c]
  <1>1. \A g \in Hosts : r[g] = IF g = h THEN c ELSE p[g]
    BY DEF ProfileMaps
  <1>2. \A b : ViewsOf(r, n, b, Hosts) = ViewsOf(p, n, b, Hosts)
    BY <1>1 DEF ViewsOf
  <1> QED
    BY <1>2 DEF Counts

\* The destructors of hosts take their views off the counts, and no others
\* (DeleteHosts).
LEMMA CountDeleted ==
  ASSUME NEW d \in [Contexts -> Int], NEW p \in ProfileMaps, NEW n \in ViewMaps,
         Counts(d, p, n), NEW S \in SUBSET Hosts
  PROVE  Counts([c \in Contexts |-> d[c] - Cardinality(ViewsOf(p, n, c, S))],
                p, [h \in Hosts |-> IF h \in S THEN 0 ELSE n[h]])
  <1> DEFINE m == [h \in Hosts |-> IF h \in S THEN 0 ELSE n[h]]
  <1> SUFFICES ASSUME NEW c \in Contexts
               PROVE  d[c] - Cardinality(ViewsOf(p, n, c, S))
                        = Cardinality(ViewsOf(p, m, c, Hosts))
    BY DEF Counts
  <1>1. d[c] = Cardinality(ViewsOf(p, n, c, Hosts))
    BY DEF Counts
  <1>2. \A g \in Hosts : m[g] = IF g \in S THEN 0 ELSE n[g]
    OBVIOUS
  <1> HIDE DEF m
  <1>3. ViewsOf(p, m, c, Hosts) = ViewsOf(p, n, c, Hosts) \ ViewsOf(p, n, c, S)
    BY <1>2 DEF ViewsOf
  <1>4. ViewsOf(p, n, c, Hosts) \cap ViewsOf(p, n, c, S) = ViewsOf(p, n, c, S)
    BY DEF ViewsOf
  <1>5. IsFiniteSet(ViewsOf(p, n, c, Hosts))
    BY ViewsAreFinite
  <1>6. Cardinality(ViewsOf(p, n, c, Hosts) \ ViewsOf(p, n, c, S))
          = Cardinality(ViewsOf(p, n, c, Hosts))
              - Cardinality(ViewsOf(p, n, c, Hosts) \cap ViewsOf(p, n, c, S))
    BY <1>5, FS_Difference
  <1> QED
    BY <1>1, <1>3, <1>4, <1>6

-----------------------------------------------------------------------------
(* The inductive invariant.                                                *)

\* A task of kind k waits for browser-main.
Posted(k) == Has(tasks, k)

\* The channel of h: its messages are in turn; the answer to the final Sync was
\* sent by a host that has seen it; only an answered client closes; and an
\* error is reported only of a client that died.
Channel(h) ==
  /\ replied[h] => /\ d_receivedFinalSync[h]
                   /\ client[h] \notin {"none", "running"}
  /\ client[h] = "closed" => replied[h]
  /\ errorHandled[h] => client[h] = "died"
  /\ client[h] = "none" =>
       pipe[h] = <<>> /\ profile[h] = NoContext /\ proxies[h] = 0
  /\ proxies[h] > 0 => profile[h] # NoContext
  /\ InTurn(pipe[h], client[h], replied[h])

\* What the host has, what the client has, and whether the host still serves it.
Before(h) == <<profileHost[h], viewHosts[h]>>
After(h) == <<profile[h], proxies[h]>>
InUse(h) == host[h] # "deleted" /\ (h \in Remotes \/ mode = "RENDERER_MAIN")

\* The messages on their way lead the host to where its client is.  The views of
\* a host that is gone are gone, and a host whose process was seen to end has no
\* running client.
Served(h) ==
  /\ host[h] = "deleted" => viewHosts[h] = 0
  /\ InUse(h) => Leads(Before(h), pipe[h], After(h))
  /\ viewHosts[h] > 0 => profileHost[h] # NoContext
  /\ h \in Remotes =>
       /\ client[h] = "none" <=> host[h] = "none"
       /\ host[h] \in {"held", "posted"} => client[h] \in {"closed", "died"}

\* The hosts that the tasks are about.
TaskHosts == Fit(tasks, host)

\* A task is only in the queue in its phase of startup or shutdown, together
\* with those that were posted behind it.
Announced ==
  /\ Posted("createHost") => Posted("signal") /\ app = "startingHost"
  /\ Posted("signal") => app \in {"startingHost", "destroying"} /\ ~signalled
  /\ Posted("destroyHost") => Posted("destroyManager")
  /\ Posted("destroyManager") => Posted("destroyContexts") /\ manager # "gone"
  /\ Posted("destroyContexts") => Posted("signal") /\ app = "destroying"
  /\ Posted("quit") => app = "joining" /\ browser \notin {"quitting", "ended"}

\* ToolkitImpl has not finished its startup.
Starting == app \in {"new", "starting", "startingHost"}

\* What each phase of ToolkitImpl says about browser-main and the host of this
\* process, in both thread modes.
Phases ==
  /\ mode = "ORIGINAL" =>
       /\ app \in {"new", "running", "draining", "originalCleanup", "stopped",
                   "crashed"}
       /\ host[Local] = "none" /\ client[Local] = "none"
  /\ mode = "RENDERER_MAIN" =>
       app \notin {"draining", "originalCleanup", "crashed"}
  /\ Starting => client[Local] = "none" /\ host[Local] # "deleted"
  /\ browser = "starting" => app = "starting"
  /\ browser \in {"quitting", "ended"} => app \in {"joining", "stopped", "crashed"}
  /\ app = "destroying" =>
       /\ Posted("destroyHost") \/ host[Local] = "deleted"
       /\ Posted("destroyManager") \/ manager = "gone"

\* Once ~ProcessHostManager has run there is no host that it had to delete: the
\* host of this process went before it, and the remote ones that are left are
\* posted for deletion.
Gone ==
  manager = "gone" =>
    /\ app \in {"destroying", "joining", "draining", "originalCleanup", "stopped"}
    /\ mode = "ORIGINAL" => viewHosts[Local] = 0
    /\ mode = "RENDERER_MAIN" => host[Local] = "deleted"
    /\ \A h \in Remotes : host[h] \notin {"live", "held"}

\* Contexts are destroyed after the manager, and one that is live after the
\* manager is still to be destroyed, unless a remote client died and its
\* messages were handled late.
LateContexts ==
  \A c \in Contexts :
    /\ context[c] \in {"destroyed", "deleted"} => manager = "gone"
    /\ context[c] = "live" /\ manager = "gone" =>
         Posted("destroyContexts") \/ \E h \in Remotes : client[h] = "died"

\* Each context counts the views of all hosts that have it.
Count == Counts(d_numWebViews, profileHost, viewHosts)

\* The inductive invariant.
Inv ==
  /\ Typed /\ Ordered(tasks) /\ TaskHosts /\ Announced /\ Phases /\ Gone
  /\ LateContexts /\ Count
  /\ \A h \in Hosts : Channel(h) /\ Served(h)

-----------------------------------------------------------------------------
(* Init.                                                                   *)

\* The invariant holds before the toolkit is created.
LEMMA InitInv == Init => Inv
  <1> SUFFICES ASSUME Init PROVE Inv
    OBVIOUS
  <1>0. <<>> \in Seq(Messages) /\ <<>> \in Seq(Tasks) /\ 0 \in 0 .. MaxViews
    BY BoundAssumption
  <1>1. Typed
    <2>1. /\ profile \in [Hosts -> Profiles] /\ profileHost \in [Hosts -> Profiles]
          /\ proxies \in [Hosts -> 0 .. MaxViews]
          /\ viewHosts \in [Hosts -> 0 .. MaxViews]
          /\ d_numWebViews \in [Contexts -> Int]
      BY <1>0 DEF Init, Profiles
    <2>2. pipe \in [Hosts -> Seq(Messages)] /\ tasks \in Seq(Tasks)
      BY <1>0 DEF Init
    <2>3. /\ replied \in [Hosts -> BOOLEAN] /\ errorHandled \in [Hosts -> BOOLEAN]
          /\ d_receivedFinalSync \in [Hosts -> BOOLEAN]
          /\ signalled \in BOOLEAN /\ rendererLoop \in BOOLEAN
      BY DEF Init
    <2> QED
      BY <2>1, <2>2, <2>3 DEF Init, Typed
  <1>2. Len(tasks) = 0
    BY DEF Init
  <1>3. Ordered(tasks) /\ TaskHosts /\ \A k : ~Posted(k)
    BY <1>2 DEF Ordered, TaskHosts, Fit, Posted, Has
  <1>4. Local \in Hosts
    BY DEF Hosts
  <1>5. Announced /\ Phases /\ Gone /\ LateContexts
    BY <1>3, <1>4 DEF Init, Announced, Phases, Gone, LateContexts
  <1>6. Count
    <2>1. \A c : ViewsOf(profileHost, viewHosts, c, Hosts) = {}
      BY DEF Init, ViewsOf
    <2> QED
      BY <2>1, FS_EmptySet DEF Init, Count, Counts
  <1>7. ASSUME NEW h \in Hosts PROVE Channel(h) /\ Served(h)
    <2>1. <<NoContext, 0>> \in Snapshots
      BY BoundAssumption DEF Snapshots, Profiles
    <2>2. Leads(<<NoContext, 0>>, <<>>, <<NoContext, 0>>)
      BY <2>1, NothingLeads
    <2>4. /\ ~replied[h] /\ ~errorHandled[h] /\ client[h] = "none"
          /\ pipe[h] = <<>> /\ profile[h] = NoContext /\ proxies[h] = 0
          /\ host[h] = "none" /\ profileHost[h] = NoContext /\ viewHosts[h] = 0
      BY DEF Init
    <2>5. Len(pipe[h]) = 0
      BY <2>4
    <2>6. InTurn(pipe[h], client[h], replied[h])
      BY <2>5 DEF InTurn
    <2>3. Channel(h)
      BY <2>4, <2>6 DEF Channel
    <2>7. Served(h)
      BY <2>2, <2>4 DEF Served, Before, After
    <2> QED
      BY <2>3, <2>7
  <1> QED
    BY <1>1, <1>3, <1>5, <1>6, <1>7 DEF Inv

-----------------------------------------------------------------------------
(* What a host does with a message.                                        *)

\* The message that a host handles has the effect it was sent for.
LEMMA MessagesHandled ==
  ASSUME Typed, Phases, NEW h \in Hosts, Served(h), NEW type, Handle(h, type)
  PROVE  /\ pipe[h] \in Seq(Messages) /\ pipe[h] # <<>>
         /\ Head(pipe[h]) \in Messages /\ Tail(pipe[h]) \in Seq(Messages)
         /\ Head(pipe[h])[1] = type
         /\ InUse(h)
         /\ \E c \in Snapshots : /\ Effect(Before(h), Head(pipe[h]), c)
                                 /\ Leads(c, Tail(pipe[h]), After(h))
  <1>1. pipe[h] \in Seq(Messages) /\ pipe[h] # <<>> /\ Head(pipe[h])[1] = type
    BY DEF Typed, Handle
  <1>2. InUse(h)
    BY DEF Typed, Phases, Handle, InUse, Hosts
  <1>3. Leads(Before(h), pipe[h], After(h))
    BY <1>2 DEF Served
  <1> QED
    BY <1>1, <1>2, <1>3, TakingLeads

\* A ProfileNew reaches a host without a profile.
LEMMA ProfileNewHandled ==
  ASSUME Typed, Phases, NEW h \in Hosts, Served(h), Handle(h, "ProfileNew")
  PROVE  /\ profileHost[h] = NoContext /\ viewHosts[h] = 0
         /\ Head(pipe[h])[2] \in Contexts
         /\ Leads(<<Head(pipe[h])[2], 0>>, Tail(pipe[h]), After(h))
  <1>1. PICK c \in Snapshots : /\ Effect(Before(h), Head(pipe[h]), c)
                               /\ Leads(c, Tail(pipe[h]), After(h))
    BY MessagesHandled
  <1>2. Head(pipe[h]) \in Messages /\ Head(pipe[h])[1] = "ProfileNew"
    BY MessagesHandled
  <1>3. Before(h) = <<NoContext, 0>> /\ c = <<Head(pipe[h])[2], 0>>
    BY <1>1, <1>2 DEF Effect
  <1>4. Head(pipe[h])[2] \in Contexts
    BY <1>2 DEF Messages
  <1> QED
    BY <1>1, <1>3, <1>4 DEF Before

\* A ProfileDestroy reaches a host without views.
LEMMA ProfileDestroyHandled ==
  ASSUME Typed, Phases, NEW h \in Hosts, Served(h), Handle(h, "ProfileDestroy")
  PROVE  /\ viewHosts[h] = 0
         /\ Leads(<<NoContext, 0>>, Tail(pipe[h]), After(h))
  <1>1. PICK c \in Snapshots : /\ Effect(Before(h), Head(pipe[h]), c)
                               /\ Leads(c, Tail(pipe[h]), After(h))
    BY MessagesHandled
  <1>2. Head(pipe[h])[1] = "ProfileDestroy"
    BY MessagesHandled
  <1> QED
    BY <1>1, <1>2 DEF Effect, Before

\* A WebViewNew reaches a host with a profile.
LEMMA WebViewNewHandled ==
  ASSUME Typed, Phases, NEW h \in Hosts, Served(h), Handle(h, "WebViewNew")
  PROVE  /\ profileHost[h] # NoContext /\ viewHosts[h] < MaxViews
         /\ Leads(<<profileHost[h], viewHosts[h] + 1>>, Tail(pipe[h]), After(h))
  <1>1. PICK c \in Snapshots : /\ Effect(Before(h), Head(pipe[h]), c)
                               /\ Leads(c, Tail(pipe[h]), After(h))
    BY MessagesHandled
  <1>2. Head(pipe[h])[1] = "WebViewNew"
    BY MessagesHandled
  <1> QED
    BY <1>1, <1>2 DEF Effect, Before

\* A WebViewDestroy reaches a host with a view.
LEMMA WebViewDestroyHandled ==
  ASSUME Typed, Phases, NEW h \in Hosts, Served(h), Handle(h, "WebViewDestroy")
  PROVE  /\ profileHost[h] # NoContext /\ viewHosts[h] > 0
         /\ Leads(<<profileHost[h], viewHosts[h] - 1>>, Tail(pipe[h]), After(h))
  <1>1. PICK c \in Snapshots : /\ Effect(Before(h), Head(pipe[h]), c)
                               /\ Leads(c, Tail(pipe[h]), After(h))
    BY MessagesHandled
  <1>2. Head(pipe[h])[1] = "WebViewDestroy"
    BY MessagesHandled
  <1> QED
    BY <1>1, <1>2 DEF Effect, Before, Served

\* The Sync and the Close change neither profile nor views.
LEMMA OthersHandled ==
  ASSUME Typed, Phases, NEW h \in Hosts, Served(h), NEW type \in {"Sync", "Close"},
         Handle(h, type)
  PROVE  Leads(Before(h), Tail(pipe[h]), After(h))
  <1>1. PICK c \in Snapshots : /\ Effect(Before(h), Head(pipe[h]), c)
                               /\ Leads(c, Tail(pipe[h]), After(h))
    BY MessagesHandled
  <1>2. Head(pipe[h])[1] = type
    BY MessagesHandled
  <1> QED
    BY <1>1, <1>2 DEF Effect

-----------------------------------------------------------------------------
(* Types.                                                                  *)

\* The messages that the clients send are messages.
LEMMA MessageKinds ==
  /\ \A c \in Contexts : <<"ProfileNew", c>> \in Messages
  /\ \A b \in BOOLEAN : <<"WebViewNew", b>> \in Messages
  /\ <<"ProfileDestroy">> \in Messages /\ <<"WebViewDestroy">> \in Messages
  /\ <<"Sync">> \in Messages /\ <<"Close">> \in Messages
  BY DEF Messages

\* This process is a host, and none of the remote ones.
LEMMA LocalIsHost == Local \in Hosts /\ Local \notin Remotes /\ Remotes \subseteq Hosts
  BY HostAssumption DEF Hosts

\* A message is appended to the pipe of its channel only.
LEMMA Sent ==
  ASSUME pipe \in [Hosts -> Seq(Messages)], NEW h \in Hosts, NEW m \in Messages,
         Send(h, m)
  PROVE  /\ pipe' \in [Hosts -> Seq(Messages)]
         /\ pipe'[h] = Append(pipe[h], m)
         /\ \A g \in Hosts \ {h} : pipe'[g] = pipe[g]
  BY DEF Send

\* The final Sync, after the destruction of a profile that is left.
LEMMA FinalSyncSent ==
  ASSUME Typed, NEW h \in Hosts, SendFinalSync(h)
  PROVE  /\ pipe' \in [Hosts -> Seq(Messages)]
         /\ \A g \in Hosts \ {h} : pipe'[g] = pipe[g]
         /\ profile[h] = NoContext => pipe'[h] = Append(pipe[h], <<"Sync">>)
         /\ profile[h] # NoContext =>
              pipe'[h] = Append(Append(pipe[h], <<"ProfileDestroy">>), <<"Sync">>)
  <1> DEFINE q == pipe[h]
             r == q \o (IF profile[h] # NoContext THEN <<<<"ProfileDestroy">>>> ELSE <<>>)
                    \o <<<<"Sync">>>>
  <1>1. q \in Seq(Messages)
    BY DEF Typed
  <1>2. pipe' = [pipe EXCEPT ![h] = r]
    BY DEF SendFinalSync
  <1>3. /\ profile[h] = NoContext => r = Append(q, <<"Sync">>)
        /\ profile[h] # NoContext =>
             r = Append(Append(q, <<"ProfileDestroy">>), <<"Sync">>)
    <2> DEFINE a == <<"ProfileDestroy">>
               b == <<"Sync">>
    <2>1. a \in Messages /\ b \in Messages
      BY MessageKinds
    <2> HIDE DEF a, b, q
    <2>2. q \o <<>> = q /\ q \o <<b>> = Append(q, b) /\ q \o <<a>> = Append(q, a)
      BY <1>1, <2>1
    <2>3. Append(q, a) \in Seq(Messages)
      BY <1>1, <2>1
    <2>4. Append(q, a) \o <<b>> = Append(Append(q, a), b)
      BY <2>1, <2>3
    <2> QED
      BY <2>2, <2>4 DEF a, b
  <1>4. r \in Seq(Messages)
    BY <1>1, <1>3, MessageKinds
  <1> HIDE DEF r
  <1> QED
    BY <1>2, <1>3, <1>4 DEF Typed

\* The steps of clients and of the process watcher keep the types.
LEMMA CallsTyped ==
  ASSUME Typed, NEW h \in Hosts
  PROVE  /\ \A c \in Contexts : CreateProfile(h, c) => Typed'
         /\ \A b \in BOOLEAN : CreateWebView(h, b) => Typed'
         /\ DestroyProfile(h) => Typed'
         /\ DestroyWebView(h) => Typed'
         /\ RemoteConnects(h) => Typed'
         /\ RemoteDies(h) => Typed'
         /\ WatchErases(h) => Typed'
         /\ WatchPosts(h) => Typed'
         /\ RemoteShutsDown(h) => Typed'
         /\ RemoteCloses(h) => Typed'
  <1>1. pipe \in [Hosts -> Seq(Messages)]
    BY DEF Typed
  <1>2. ASSUME NEW c \in Contexts, CreateProfile(h, c) PROVE Typed'
    <2>1. pipe' \in [Hosts -> Seq(Messages)]
      BY <1>1, <1>2, Sent, MessageKinds DEF CreateProfile
    <2> QED
      BY <1>2, <2>1 DEF CreateProfile, Send, Typed, Profiles, hostVars, contextVars, rendererVars
  <1>3. ASSUME NEW b \in BOOLEAN, CreateWebView(h, b) PROVE Typed'
    <2>1. pipe' \in [Hosts -> Seq(Messages)]
      BY <1>1, <1>3, Sent, MessageKinds DEF CreateWebView
    <2> QED
      BY <1>3, <2>1, BoundAssumption DEF CreateWebView, Send, Typed, hostVars, contextVars, rendererVars
  <1>4. ASSUME DestroyProfile(h) PROVE Typed'
    <2>1. pipe' \in [Hosts -> Seq(Messages)]
      BY <1>1, <1>4, Sent, MessageKinds DEF DestroyProfile
    <2> QED
      BY <1>4, <2>1 DEF DestroyProfile, Send, Typed, Profiles, hostVars, contextVars, rendererVars
  <1>5. ASSUME DestroyWebView(h) PROVE Typed'
    <2>1. pipe' \in [Hosts -> Seq(Messages)]
      BY <1>1, <1>5, Sent, MessageKinds DEF DestroyWebView
    <2> QED
      BY <1>5, <2>1, BoundAssumption DEF DestroyWebView, Send, Typed, hostVars, contextVars, rendererVars
  <1>6. RemoteConnects(h) => Typed'
    BY DEF RemoteConnects, Typed, contextVars, rendererVars
  <1>7. ASSUME RemoteDies(h) PROVE Typed'
    <2>1. pipe' \in [Hosts -> Seq(Messages)]
      BY <1>1, <1>7, Sent, MessageKinds DEF RemoteDies
    <2> QED
      BY <1>7, <2>1 DEF RemoteDies, Send, Typed, hostVars, contextVars, rendererVars
  <1>8. WatchErases(h) => Typed'
    BY DEF WatchErases, Typed, clientVars, contextVars, rendererVars
  <1>9. ASSUME WatchPosts(h) PROVE Typed'
    <2>1. Task("deleteHost", h) \in Tasks
      BY DEF Task, Tasks, TaskKinds
    <2>2. tasks' \in Seq(Tasks)
      BY <1>9, <2>1 DEF WatchPosts, Typed
    <2> QED
      BY <1>9, <2>2 DEF WatchPosts, Typed, clientVars, contextVars, rendererVars
  <1>10. ASSUME RemoteShutsDown(h) PROVE Typed'
    <2>1. SendFinalSync(h) /\ UNCHANGED <<app, tasks>>
      BY <1>10 DEF RemoteShutsDown
    <2>2. pipe' \in [Hosts -> Seq(Messages)]
      BY <2>1, FinalSyncSent
    <2> QED
      BY <2>1, <2>2 DEF SendFinalSync, Typed, Profiles, hostVars, contextVars, rendererVars
  <1>11. ASSUME RemoteCloses(h) PROVE Typed'
    <2>1. CloseChannel(h) /\ UNCHANGED <<app, signalled, tasks>>
      BY <1>11 DEF RemoteCloses
    <2>2. pipe' \in [Hosts -> Seq(Messages)]
      BY <2>1, <1>1, Sent, MessageKinds DEF CloseChannel
    <2> QED
      BY <2>1, <2>2 DEF CloseChannel, Send, Typed, hostVars, contextVars, rendererVars
  <1> QED
    BY <1>2, <1>3, <1>4, <1>5, <1>6, <1>7, <1>8, <1>9, <1>10, <1>11

\* The handlers of a host keep the types: a count of views never leaves
\* 0 .. MaxViews because the pipe leads to one that does not.
LEMMA MessagesTyped ==
  ASSUME Typed, Phases, NEW h \in Hosts, Served(h), MessageStep(h)
  PROVE  Typed'
  <1>0. ASSUME NEW type, Handle(h, type)
        PROVE  /\ pipe' \in [Hosts -> Seq(Messages)]
               /\ UNCHANGED <<mode, app, signalled, client, profile, proxies,
                              host, browser, tasks, manager, rendererVars>>
    BY <1>0, MessagesHandled DEF Handle, Typed
  <1>1. CASE OnProfileNew(h)
    <2>1. Handle(h, "ProfileNew")
      BY <1>1 DEF OnProfileNew
    <2>2. Head(pipe[h])[2] \in Contexts
      BY <2>1, ProfileNewHandled
    <2> QED
      BY <1>1, <1>0, <2>1, <2>2 DEF OnProfileNew, ObtainContext, Typed, Profiles, rendererVars
  <1>2. CASE OnProfileDestroy(h)
    <2>1. Handle(h, "ProfileDestroy")
      BY <1>2 DEF OnProfileDestroy
    <2> QED
      BY <1>2, <1>0, <2>1 DEF OnProfileDestroy, Typed, Profiles, contextVars, rendererVars
  <1>3. CASE OnWebViewNew(h)
    <2>1. Handle(h, "WebViewNew")
      BY <1>3 DEF OnWebViewNew
    <2>2. viewHosts[h] < MaxViews /\ viewHosts[h] \in 0 .. MaxViews /\ MaxViews \in Nat
      BY <2>1, WebViewNewHandled, BoundAssumption DEF Typed
    <2>3. d_numWebViews' \in [Contexts -> Int]
      <3>1. /\ d_numWebViews \in [Contexts -> Int] /\ profileHost[h] \in Contexts
        BY <2>1, WebViewNewHandled DEF Typed, Profiles
      <3>2. d_numWebViews' = [d_numWebViews EXCEPT ![profileHost[h]] = @ + 1]
        BY <1>3 DEF OnWebViewNew, AddView
      <3> QED
        BY <3>1, <3>2
    <2>5. viewHosts' \in [Hosts -> 0 .. MaxViews]
      BY <1>3, <2>2 DEF OnWebViewNew, AddView, Typed
    <2>4. renderHost' \in [Hosts -> {"none", "live", "deleted"}]
      BY <1>3 DEF OnWebViewNew, Typed
    <2> QED
      BY SMTT(30), <1>3, <1>0, <2>1, <2>3, <2>4, <2>5 DEF OnWebViewNew, Typed, rendererVars
  <1>4. CASE OnWebViewDestroy(h)
    <2>1. Handle(h, "WebViewDestroy")
      BY <1>4 DEF OnWebViewDestroy
    <2>2. viewHosts[h] > 0 /\ viewHosts[h] \in 0 .. MaxViews /\ MaxViews \in Nat
      BY <2>1, WebViewDestroyHandled, BoundAssumption DEF Typed
    <2>3. d_numWebViews' \in [Contexts -> Int]
      <3>1. /\ d_numWebViews \in [Contexts -> Int] /\ profileHost[h] \in Contexts
        BY <2>1, WebViewDestroyHandled DEF Typed, Profiles
      <3>2. d_numWebViews' = [d_numWebViews EXCEPT ![profileHost[h]] = @ - 1]
        BY <1>4 DEF OnWebViewDestroy, RemoveView
      <3> QED
        BY <3>1, <3>2
    <2>5. viewHosts' \in [Hosts -> 0 .. MaxViews]
      BY <1>4, <2>2 DEF OnWebViewDestroy, RemoveView, Typed
    <2> QED
      BY <1>4, <1>0, <2>1, <2>3, <2>5 DEF OnWebViewDestroy, Typed, rendererVars
  <1>5. CASE OnSync(h)
    <2>1. Handle(h, "Sync")
      BY <1>5 DEF OnSync
    <2> QED
      BY <1>5, <1>0, <2>1 DEF OnSync, Typed, contextVars, rendererVars
  <1>6. CASE OnChannelError(h)
    <2>1. Handle(h, "Close")
      BY <1>6 DEF OnChannelError
    <2>2. errorHandled' \in [Hosts -> BOOLEAN]
      BY <1>6 DEF OnChannelError, Typed
    <2> QED
      BY <1>6, <1>0, <2>1, <2>2 DEF OnChannelError, Typed, contextVars, rendererVars
  <1> QED
    BY <1>1, <1>2, <1>3, <1>4, <1>5, <1>6 DEF MessageStep

\* What the destructors of the hosts of S do, with rest the tasks to run.
LEMMA HostsDeleted ==
  ASSUME Typed, NEW S \in SUBSET Hosts, NEW rest \in Seq(Tasks),
         DeleteHosts(S, rest)
  PROVE  /\ host' \in [Hosts -> {"none", "live", "held", "posted", "deleted"}]
         /\ viewHosts' \in [Hosts -> 0 .. MaxViews]
         /\ d_numWebViews' \in [Contexts -> Int]
         /\ \A h \in Hosts :
              /\ host'[h] = IF h \in S THEN "deleted" ELSE host[h]
              /\ viewHosts'[h] = IF h \in S THEN 0 ELSE viewHosts[h]
         /\ tasks' \in Seq(Tasks)
         /\ Ordered(rest) => Ordered(tasks')
         /\ \A k \in Ranked : Has(tasks', k) <=> Has(rest, k)
         /\ Fit(rest, host) => Fit(tasks', host')
         /\ Count => Count'
  <1> DEFINE q == SetToSeq({Task("deleteRenderHost", h) :
                            h \in {g \in S : renderHost[g] = "live"}})
  <1>1. tasks' = rest \o q
    BY DEF DeleteHosts
  <1>2. q \in Seq(Tasks) /\ Unranked(q)
        /\ \A i \in 1 .. Len(q) : q[i][1] = "deleteRenderHost"
    BY DeletionTasks
  <1> HIDE DEF q
  <1>3. /\ tasks' \in Seq(Tasks)
        /\ Ordered(rest) => Ordered(tasks')
        /\ \A k \in Ranked : Has(tasks', k) <=> Has(rest, k)
    BY <1>1, <1>2, AddingTasks DEF Unranked
  <1>4. /\ host' = [h \in Hosts |-> IF h \in S THEN "deleted" ELSE host[h]]
        /\ viewHosts' = [h \in Hosts |-> IF h \in S THEN 0 ELSE viewHosts[h]]
        /\ d_numWebViews' = [c \in Contexts |->
                                d_numWebViews[c] - Cardinality(ViewsOn(c, S))]
        /\ profileHost' = profileHost
    BY DEF DeleteHosts
  <1>5. /\ host' \in [Hosts -> {"none", "live", "held", "posted", "deleted"}]
        /\ viewHosts' \in [Hosts -> 0 .. MaxViews]
        /\ \A h \in Hosts :
             /\ host'[h] = IF h \in S THEN "deleted" ELSE host[h]
             /\ viewHosts'[h] = IF h \in S THEN 0 ELSE viewHosts[h]
    BY <1>4, BoundAssumption DEF Typed
  <1>6. \A c : ViewsOn(c, S) = ViewsOf(profileHost, viewHosts, c, S)
    BY DEF ViewsOn, ViewsOf
  <1>7. \A c \in Contexts : Cardinality(ViewsOn(c, S)) \in Int
    BY <1>6, ViewsAreFinite
  <1>8. d_numWebViews' \in [Contexts -> Int]
    BY <1>4, <1>7 DEF Typed
  <1>9. ASSUME Fit(rest, host) PROVE Fit(tasks', host')
    <2>1. Fit(q, host)
      BY <1>2 DEF Fit
    <2>2. Fit(rest \o q, host)
      BY <2>1, <1>2, <1>9, FitTasks
    <2>3. \A h \in Remotes : host[h] # "none" => host'[h] # "none"
      BY <1>5, LocalIsHost
    <2>4. rest \o q \in Seq(Tasks)
      BY <1>1, <1>3
    <2>5. Fit(rest \o q, host')
      BY ZenonT(40), <2>2, <2>3, <2>4, FitTasks
    <2> QED
      BY <2>5, <1>1
  <1>10. ASSUME Count PROVE Count'
    <2>1. /\ d_numWebViews \in [Contexts -> Int] /\ profileHost \in ProfileMaps
          /\ viewHosts \in ViewMaps
      BY DEF Typed, ProfileMaps, ViewMaps
    <2>2. d_numWebViews' = [c \in Contexts |->
            d_numWebViews[c] - Cardinality(ViewsOf(profileHost, viewHosts, c, S))]
      BY <1>4, <1>6
    <2>4. Counts([c \in Contexts |-> d_numWebViews[c]
                    - Cardinality(ViewsOf(profileHost, viewHosts, c, S))],
                 profileHost, [h \in Hosts |-> IF h \in S THEN 0 ELSE viewHosts[h]])
      BY <2>1, <1>10, CountDeleted DEF Count
    <2>3. Counts(d_numWebViews', profileHost, viewHosts')
      BY <2>2, <2>4, <1>4
    <2> QED
      BY <2>3, <1>4 DEF Count
  <1> QED
    BY <1>3, <1>5, <1>8, <1>9, <1>10

\* The task at the head of the queue and what no task changes.
LEMMA TaskRun ==
  ASSUME Typed, NEW kind, Runs(kind)
  PROVE  /\ tasks # <<>> /\ tasks \in Seq(Tasks)
         /\ Tail(tasks) \in Seq(Tasks) /\ Head(tasks) \in Tasks
         /\ Head(tasks)[1] = kind /\ Head(tasks)[2] \in Hosts
         /\ UNCHANGED <<mode, app, client, profile, proxies, replied, pipe,
                        rendererThread, rendererLoop>>
  <1>1. tasks # <<>> /\ tasks \in Seq(Tasks) /\ Head(tasks)[1] = kind
    BY DEF Runs, Typed
  <1>2. Tail(tasks) \in Seq(Tasks) /\ Head(tasks) \in Tasks
    BY <1>1
  <1>3. Head(tasks)[2] \in Hosts
    BY <1>2 DEF Tasks
  <1> QED
    BY <1>1, <1>2, <1>3 DEF Runs, clientVars, rendererVars

\* The tasks of browser-main keep the types.
LEMMA TasksTyped ==
  ASSUME Typed, TaskStep
  PROVE  Typed'
  <1>1. CASE CreateInProcessHost
    <2>1. Runs("createHost") /\ tasks' = Tail(tasks)
      BY <1>1 DEF CreateInProcessHost
    <2> QED
      BY <1>1, <2>1, TaskRun, LocalIsHost DEF CreateInProcessHost, Typed, contextVars
  <1>2. CASE Signal
    <2>1. Runs("signal") /\ tasks' = Tail(tasks)
      BY <1>2 DEF Signal
    <2> QED
      BY <1>2, <2>1, TaskRun DEF Signal, Typed, hostVars, contextVars
  <1>3. CASE DestroyHost
    <2>1. PICK kind : Runs(kind)
      BY <1>3 DEF DestroyHost
    <2>2. {Head(tasks)[2]} \in SUBSET Hosts /\ Tail(tasks) \in Seq(Tasks)
      BY <2>1, TaskRun
    <2>3. DeleteHosts({Head(tasks)[2]}, Tail(tasks))
      BY <1>3 DEF DestroyHost
    <2>4. /\ host' \in [Hosts -> {"none", "live", "held", "posted", "deleted"}]
          /\ viewHosts' \in [Hosts -> 0 .. MaxViews]
          /\ d_numWebViews' \in [Contexts -> Int]
          /\ tasks' \in Seq(Tasks)
      BY <2>2, <2>3, HostsDeleted
    <2>5. UNCHANGED <<d_receivedFinalSync, profileHost, renderHost, errorHandled,
                      signalled, browser, manager, context>>
      BY <1>3, <2>3 DEF DestroyHost, DeleteHosts
    <2> QED
      BY <2>1, <2>4, <2>5, TaskRun DEF Typed
  <1>4. CASE DestroyProcessHostManager
    <2>1. Runs("destroyManager")
      BY <1>4 DEF DestroyProcessHostManager
    <2>2. ManagedHosts \in SUBSET Hosts /\ Tail(tasks) \in Seq(Tasks)
      BY <2>1, TaskRun, LocalIsHost DEF ManagedHosts
    <2>3. DeleteHosts(ManagedHosts, Tail(tasks))
      BY <1>4 DEF DestroyProcessHostManager
    <2>4. /\ host' \in [Hosts -> {"none", "live", "held", "posted", "deleted"}]
          /\ viewHosts' \in [Hosts -> 0 .. MaxViews]
          /\ d_numWebViews' \in [Contexts -> Int]
          /\ tasks' \in Seq(Tasks)
      BY <2>2, <2>3, HostsDeleted
    <2>5. /\ UNCHANGED <<d_receivedFinalSync, profileHost, renderHost, errorHandled,
                         signalled, browser, context>>
          /\ manager' = "gone"
      BY <1>4, <2>3 DEF DestroyProcessHostManager, DeleteHosts
    <2> QED
      BY <2>1, <2>4, <2>5, TaskRun DEF Typed
  <1>5. CASE DestroyBrowserContexts
    <2>1. Runs("destroyContexts") /\ tasks' = Tail(tasks)
      BY <1>5 DEF DestroyBrowserContexts
    <2>2. context' \in [Contexts -> {"none", "live", "destroyed", "deleted"}]
      BY <1>5 DEF DestroyBrowserContexts, MoveContexts, Typed
    <2> QED
      BY <1>5, <2>1, <2>2, TaskRun DEF DestroyBrowserContexts, Typed, hostVars
  <1>6. CASE DeleteRenderHost
    <2>1. Runs("deleteRenderHost") /\ tasks' = Tail(tasks)
      BY <1>6 DEF DeleteRenderHost
    <2> QED
      BY <1>6, <2>1, TaskRun DEF DeleteRenderHost, Typed, contextVars
  <1>7. CASE QuitWhenIdle
    <2>1. Runs("quit") /\ tasks' = Tail(tasks)
      BY <1>7 DEF QuitWhenIdle
    <2> QED
      BY <1>7, <2>1, TaskRun DEF QuitWhenIdle, Typed, hostVars, contextVars
  <1> QED
    BY <1>1, <1>2, <1>3, <1>4, <1>5, <1>6, <1>7 DEF TaskStep

\* The tasks that the application posts.
StartTasks == <<Plain("createHost"), Plain("signal")>>
StopTasks == <<Plain("destroyHost"), Plain("destroyManager"),
               Plain("destroyContexts"), Plain("signal")>>

\* They are tasks.
LEMMA PostedTasks ==
  /\ StartTasks \in Seq(Tasks) /\ StopTasks \in Seq(Tasks)
  /\ Plain("quit") \in Tasks
  <1>1. ASSUME NEW k \in TaskKinds PROVE Plain(k) \in Tasks
    BY LocalIsHost DEF Plain, Task, Tasks
  <1>2. /\ Plain("createHost") \in Tasks /\ Plain("signal") \in Tasks
        /\ Plain("destroyHost") \in Tasks /\ Plain("destroyManager") \in Tasks
        /\ Plain("destroyContexts") \in Tasks /\ Plain("quit") \in Tasks
    BY <1>1 DEF TaskKinds
  <1> QED
    BY <1>2 DEF StartTasks, StopTasks

\* ToolkitImpl in RENDERER_MAIN mode, the message loop and the in-process
\* renderer keep the types.
LEMMA AppTyped ==
  ASSUME Typed
  PROVE  /\ StartBrowserThread => Typed'
         /\ InitRendererAndHost => Typed'
         /\ CreateProcessClient => Typed'
         /\ ShutdownThreads => Typed'
         /\ PostDestructions => Typed'
         /\ CleanupAndQuit => Typed'
         /\ JoinBrowserThread => Typed'
         /\ LoopStep => Typed'
         /\ RendererStep => Typed'
  <1>1. StartBrowserThread => Typed'
    BY DEF StartBrowserThread, Typed, clientVars, hostVars, contextVars, rendererVars
  <1>2. ASSUME InitRendererAndHost PROVE Typed'
    <2>1. tasks' = tasks \o StartTasks
      BY <1>2 DEF InitRendererAndHost, StartTasks
    <2>2. tasks' \in Seq(Tasks)
      BY <2>1, PostedTasks DEF Typed
    <2> QED
      BY <1>2, <2>2 DEF InitRendererAndHost, Typed, clientVars, hostVars, contextVars
  <1>3. CreateProcessClient => Typed'
    BY DEF CreateProcessClient, Typed, hostVars, contextVars, rendererVars
  <1>4. ASSUME ShutdownThreads PROVE Typed'
    <2>1. SendFinalSync(Local) /\ app' = "finalSync" /\ UNCHANGED tasks
      BY <1>4 DEF ShutdownThreads
    <2>2. pipe' \in [Hosts -> Seq(Messages)]
      BY <2>1, FinalSyncSent, LocalIsHost
    <2> QED
      BY <2>1, <2>2 DEF SendFinalSync, Typed, Profiles, hostVars, contextVars, rendererVars
  <1>5. ASSUME PostDestructions PROVE Typed'
    <2>1. /\ CloseChannel(Local) /\ app' = "destroying" /\ signalled' = FALSE
          /\ tasks' = tasks \o StopTasks
      BY <1>5 DEF PostDestructions, StopTasks
    <2>2. tasks' \in Seq(Tasks)
      BY <2>1, PostedTasks DEF Typed
    <2>3. pipe' \in [Hosts -> Seq(Messages)]
      BY <2>1, Sent, MessageKinds, LocalIsHost DEF CloseChannel, Typed
    <2> QED
      BY <2>1, <2>2, <2>3 DEF CloseChannel, Send, Typed, hostVars, contextVars, rendererVars
  <1>6. ASSUME CleanupAndQuit PROVE Typed'
    <2>1. tasks' \in Seq(Tasks)
      BY <1>6, PostedTasks DEF CleanupAndQuit, Typed
    <2> QED
      BY <1>6, <2>1 DEF CleanupAndQuit, Typed, clientVars, hostVars, contextVars
  <1>7. JoinBrowserThread => Typed'
    BY DEF JoinBrowserThread, Typed, clientVars, hostVars, contextVars, rendererVars
  <1>8. ASSUME LoopStep PROVE Typed'
    <2>1. CASE BrowserThreadMain
      BY <2>1 DEF BrowserThreadMain, Typed, clientVars, hostVars, contextVars, rendererVars
    <2>2. CASE BrowserMainEnds
      <3>1. context' \in [Contexts -> {"none", "live", "destroyed", "deleted"}]
        BY <2>2 DEF BrowserMainEnds, MoveContexts, Typed
      <3> QED
        BY <2>2, <3>1 DEF BrowserMainEnds, Typed, clientVars, hostVars, rendererVars
    <2> QED
      BY <1>8, <2>1, <2>2 DEF LoopStep
  <1>9. ASSUME RendererStep PROVE Typed'
    <2>1. CASE RendererThreadInit
      BY <2>1 DEF RendererThreadInit, Typed, clientVars, hostVars, contextVars
    <2>2. CASE RendererThreadCleanUp
      BY <2>2 DEF RendererThreadCleanUp, Typed, clientVars, hostVars, contextVars
    <2> QED
      BY <1>9, <2>1, <2>2 DEF RendererStep
  <1> QED
    BY <1>1, <1>2, <1>3, <1>4, <1>5, <1>6, <1>7, <1>8, <1>9

\* ToolkitImpl in ORIGINAL mode keeps the types.
LEMMA OriginalTyped ==
  ASSUME Typed, Served(Local)
  PROVE  /\ StartOriginal => Typed'
         /\ \A c \in Contexts : OriginalCreateProfile(c) => Typed'
         /\ OriginalDestroyProfile => Typed'
         /\ setChannelNameTooEarly => Typed'
         /\ \A b \in BOOLEAN : OriginalCreateWebView(b) => Typed'
         /\ OriginalDestroyWebView => Typed'
         /\ OriginalShutdown => Typed'
         /\ OriginalDrained => Typed'
         /\ OriginalStop => Typed'
  <1> USE LocalIsHost
  <1>1. StartOriginal => Typed'
    BY DEF StartOriginal, Typed, clientVars, hostVars, contextVars, rendererVars
  <1>2. ASSUME NEW c \in Contexts, OriginalCreateProfile(c) PROVE Typed'
    BY <1>2 DEF OriginalCreateProfile, OriginalCall, ObtainContext, Typed, Profiles,
                clientVars, rendererVars
  <1>3. OriginalDestroyProfile => Typed'
    BY DEF OriginalDestroyProfile, OriginalCall, Typed, Profiles, clientVars,
           contextVars, rendererVars
  <1>4. setChannelNameTooEarly => Typed'
    BY DEF setChannelNameTooEarly, Typed, clientVars, hostVars, contextVars, rendererVars
  <1>5. ASSUME NEW b \in BOOLEAN, OriginalCreateWebView(b) PROVE Typed'
    <2>1. /\ profileHost[Local] \in Contexts /\ d_numWebViews \in [Contexts -> Int]
          /\ viewHosts[Local] < MaxViews /\ viewHosts[Local] \in 0 .. MaxViews
          /\ MaxViews \in Nat
      BY <1>5, BoundAssumption DEF OriginalCreateWebView, Typed, Profiles
    <2>2. /\ viewHosts' = [viewHosts EXCEPT ![Local] = @ + 1]
          /\ d_numWebViews' = [d_numWebViews EXCEPT ![profileHost[Local]] = @ + 1]
      BY <1>5 DEF OriginalCreateWebView, AddView
    <2>3. d_numWebViews' \in [Contexts -> Int]
      BY <2>1, <2>2
    <2>4. viewHosts' \in [Hosts -> 0 .. MaxViews]
      BY <2>1, <2>2 DEF Typed
    <2>5. renderHost' \in [Hosts -> {"none", "live", "deleted"}]
      BY <1>5 DEF OriginalCreateWebView, Typed
    <2> QED
      BY <1>5, <2>3, <2>4, <2>5 DEF OriginalCreateWebView, OriginalCall, Typed,
        clientVars, rendererVars
  <1>6. ASSUME OriginalDestroyWebView PROVE Typed'
    <2>1. /\ profileHost[Local] \in Contexts /\ d_numWebViews \in [Contexts -> Int]
          /\ viewHosts[Local] > 0 /\ viewHosts[Local] \in 0 .. MaxViews
          /\ MaxViews \in Nat
      BY <1>6, BoundAssumption DEF OriginalDestroyWebView, Typed, Profiles, Served
    <2>2. /\ viewHosts' = [viewHosts EXCEPT ![Local] = @ - 1]
          /\ d_numWebViews' = [d_numWebViews EXCEPT ![profileHost[Local]] = @ - 1]
      BY <1>6 DEF OriginalDestroyWebView, RemoveView
    <2>3. d_numWebViews' \in [Contexts -> Int]
      BY <2>1, <2>2
    <2>4. viewHosts' \in [Hosts -> 0 .. MaxViews]
      BY <2>1, <2>2 DEF Typed
    <2> QED
      BY <1>6, <2>3, <2>4 DEF OriginalDestroyWebView, OriginalCall, Typed,
        clientVars, rendererVars
  <1>7. ASSUME OriginalShutdown PROVE Typed'
    <2>1. ManagedHosts \in SUBSET Hosts /\ tasks \in Seq(Tasks)
      BY DEF ManagedHosts, Typed
    <2>2. DeleteHosts(ManagedHosts, tasks)
      BY <1>7 DEF OriginalShutdown
    <2>3. /\ host' \in [Hosts -> {"none", "live", "held", "posted", "deleted"}]
          /\ viewHosts' \in [Hosts -> 0 .. MaxViews]
          /\ d_numWebViews' \in [Contexts -> Int]
          /\ tasks' \in Seq(Tasks)
      BY <2>1, <2>2, HostsDeleted
    <2>4. context' \in [Contexts -> {"none", "live", "destroyed", "deleted"}]
      BY <1>7 DEF OriginalShutdown, MoveContexts, Typed
    <2>5. /\ UNCHANGED <<d_receivedFinalSync, profileHost, renderHost, errorHandled,
                         mode, signalled, clientVars, pipe, browser, rendererVars>>
          /\ manager' = "gone" /\ app' = "draining"
      BY <1>7, <2>2 DEF OriginalShutdown, DeleteHosts
    <2> QED
      BY <2>3, <2>4, <2>5 DEF Typed, clientVars, rendererVars
  <1>8. OriginalDrained => Typed'
    BY DEF OriginalDrained, Typed, clientVars, hostVars, contextVars, rendererVars
  <1>9. ASSUME OriginalStop PROVE Typed'
    <2>1. context' \in [Contexts -> {"none", "live", "destroyed", "deleted"}]
      BY <1>9 DEF OriginalStop, MoveContexts, Typed
    <2>2. renderHost' \in [Hosts -> {"none", "live", "deleted"}]
      BY <1>9 DEF OriginalStop, Typed
    <2> QED
      BY <1>9, <2>1, <2>2 DEF OriginalStop, Typed, clientVars, rendererVars
  <1> QED
    BY <1>1, <1>2, <1>3, <1>4, <1>5, <1>6, <1>7, <1>8, <1>9

\* Every step keeps the types.
LEMMA TypedKept == Inv /\ [Next]_vars => Typed'
  <1> SUFFICES ASSUME Inv, [Next]_vars PROVE Typed'
    OBVIOUS
  <1>1. /\ Typed /\ Phases /\ Served(Local)
        /\ \A h \in Hosts : Served(h)
    BY LocalIsHost DEF Inv
  <1>2. CASE UNCHANGED vars
    BY <1>1, <1>2 DEF Typed, vars, clientVars, hostVars, contextVars, rendererVars
  <1>3. CASE Next
    BY <1>1, <1>3, LocalIsHost, CallsTyped, MessagesTyped, TasksTyped, AppTyped,
       OriginalTyped DEF Next, AppStep
  <1> QED
    BY <1>2, <1>3

-----------------------------------------------------------------------------
(* Channels.                                                               *)

\* Channel(h) depends on the two ends of h and on nothing else.
LEMMA ChannelSame ==
  ASSUME NEW h \in Hosts, Channel(h),
         client'[h] = client[h], profile'[h] = profile[h],
         proxies'[h] = proxies[h], replied'[h] = replied[h],
         pipe'[h] = pipe[h], errorHandled'[h] = errorHandled[h],
         d_receivedFinalSync'[h] = d_receivedFinalSync[h]
  PROVE  Channel(h)'
  BY DEF Channel

\* The steps of the client of h and of its host in which messages are sent
\* or handled.
Talks(h) ==
  \/ \E c \in Contexts : CreateProfile(h, c)
  \/ \E b \in BOOLEAN : CreateWebView(h, b)
  \/ DestroyProfile(h) \/ DestroyWebView(h)
  \/ SendFinalSync(h) \/ CloseChannel(h) \/ RemoteDies(h)
  \/ MessageStep(h)

\* The messages of one channel do not touch another.
LEMMA ChannelOfOthers ==
  ASSUME Typed, NEW g \in Hosts, NEW h \in Hosts, h # g, Channel(h), Talks(g)
  PROVE  Channel(h)'
  <1> USE DEF Typed, clientVars, hostVars
  <1>1. CASE \E c \in Contexts : CreateProfile(g, c)
    BY <1>1, ChannelSame DEF CreateProfile, Send
  <1>2. CASE \E b \in BOOLEAN : CreateWebView(g, b)
    BY <1>2, ChannelSame DEF CreateWebView, Send
  <1>3. CASE DestroyProfile(g)
    BY <1>3, ChannelSame DEF DestroyProfile, Send
  <1>4. CASE DestroyWebView(g)
    BY <1>4, ChannelSame DEF DestroyWebView, Send
  <1>5. CASE SendFinalSync(g)
    BY <1>5, ChannelSame DEF SendFinalSync
  <1>6. CASE CloseChannel(g)
    BY <1>6, ChannelSame DEF CloseChannel, Send
  <1>7. CASE RemoteDies(g)
    BY <1>7, ChannelSame DEF RemoteDies, Send
  <1>8. CASE OnProfileNew(g)
    BY <1>8, ChannelSame DEF OnProfileNew, Handle
  <1>9. CASE OnProfileDestroy(g)
    BY <1>9, ChannelSame DEF OnProfileDestroy, Handle
  <1>10. CASE OnWebViewNew(g)
    BY <1>10, ChannelSame DEF OnWebViewNew, Handle
  <1>11. CASE OnWebViewDestroy(g)
    BY <1>11, ChannelSame DEF OnWebViewDestroy, Handle
  <1>12. CASE OnSync(g)
    BY <1>12, ChannelSame DEF OnSync, Handle
  <1>13. CASE OnChannelError(g)
    BY <1>13, ChannelSame DEF OnChannelError, Handle
  <1> QED
    BY <1>1, <1>2, <1>3, <1>4, <1>5, <1>6, <1>7, <1>8, <1>9, <1>10, <1>11, <1>12,
       <1>13 DEF Talks, MessageStep

\* A call of the application.
LEMMA ChannelOfCaller ==
  ASSUME Typed, NEW h \in Hosts, Channel(h), client[h] = "running",
         NEW m \in Messages, m[1] \notin {"Sync", "Close"}, Send(h, m),
         UNCHANGED <<client, replied, d_receivedFinalSync, errorHandled>>,
         proxies'[h] > 0 => profile'[h] # NoContext
  PROVE  Channel(h)'
  <1>1. /\ pipe[h] \in Seq(Messages) /\ ~replied[h]
        /\ InTurn(pipe[h], "running", replied[h])
    BY DEF Typed, Channel
  <1>2. pipe'[h] = Append(pipe[h], m)
    BY Sent DEF Typed
  <1>3. InTurn(pipe'[h], "running", replied[h])
    BY <1>1, <1>2, SendingInTurn
  <1>4. /\ client'[h] = "running" /\ replied'[h] = replied[h]
        /\ d_receivedFinalSync'[h] = d_receivedFinalSync[h]
        /\ errorHandled'[h] = errorHandled[h]
    OBVIOUS
  <1> QED
    BY <1>1, <1>3, <1>4 DEF Channel

\* What a client sends, and what its host makes of it, keeps the turns.
LEMMA ChannelOfTalker ==
  ASSUME Typed, NEW h \in Hosts, Channel(h), Talks(h)
  PROVE  Channel(h)'
  <1>0. /\ pipe \in [Hosts -> Seq(Messages)] /\ pipe[h] \in Seq(Messages)
        /\ h \in DOMAIN client /\ h \in DOMAIN profile /\ h \in DOMAIN proxies
        /\ h \in DOMAIN replied /\ h \in DOMAIN d_receivedFinalSync
        /\ h \in DOMAIN errorHandled /\ h \in DOMAIN pipe
        /\ proxies[h] \in Nat
    BY BoundAssumption DEF Typed
  <1>1. CASE \E c \in Contexts : CreateProfile(h, c)
    <2>1. PICK c \in Contexts : CreateProfile(h, c)
      BY <1>1
    <2>2. profile'[h] # NoContext
      BY <1>0, <2>1, ContextAssumption DEF CreateProfile
    <2>3. /\ client[h] = "running" /\ Send(h, <<"ProfileNew", c>>)
          /\ UNCHANGED <<client, replied, d_receivedFinalSync, errorHandled>>
      BY <2>1 DEF CreateProfile, Calls, hostVars
    <2> QED
      BY <2>2, <2>3, MessageKinds, ChannelOfCaller
  <1>2. CASE \E b \in BOOLEAN : CreateWebView(h, b)
    <2>1. PICK b \in BOOLEAN : CreateWebView(h, b)
      BY <1>2
    <2>2. profile'[h] # NoContext
      BY <2>1 DEF CreateWebView
    <2>3. /\ client[h] = "running" /\ Send(h, <<"WebViewNew", b>>)
          /\ UNCHANGED <<client, replied, d_receivedFinalSync, errorHandled>>
      BY <2>1 DEF CreateWebView, Calls, hostVars
    <2> QED
      BY <2>2, <2>3, MessageKinds, ChannelOfCaller
  <1>3. CASE DestroyProfile(h)
    <2>1. proxies'[h] = 0
      BY <1>3 DEF DestroyProfile
    <2>2. /\ client[h] = "running" /\ Send(h, <<"ProfileDestroy">>)
          /\ UNCHANGED <<client, replied, d_receivedFinalSync, errorHandled>>
      BY <1>3 DEF DestroyProfile, Calls, hostVars
    <2>3. <<"ProfileDestroy">> \in Messages
          /\ <<"ProfileDestroy">>[1] \notin {"Sync", "Close"}
      BY MessageKinds
    <2> QED
      BY <2>1, <2>2, <2>3, ChannelOfCaller
  <1>4. CASE DestroyWebView(h)
    <2>1. profile'[h] # NoContext
      BY <1>4 DEF DestroyWebView, Channel
    <2>2. /\ client[h] = "running" /\ Send(h, <<"WebViewDestroy">>)
          /\ UNCHANGED <<client, replied, d_receivedFinalSync, errorHandled>>
      BY <1>4 DEF DestroyWebView, Calls, hostVars
    <2>3. <<"WebViewDestroy">> \in Messages
          /\ <<"WebViewDestroy">>[1] \notin {"Sync", "Close"}
      BY MessageKinds
    <2> QED
      BY <2>1, <2>2, <2>3, ChannelOfCaller
  <1>5. CASE SendFinalSync(h)
    <2> DEFINE a == <<"ProfileDestroy">>
               b == <<"Sync">>
    <2>1. a \in Messages /\ b \in Messages /\ a[1] = "ProfileDestroy" /\ b[1] = "Sync"
      BY MessageKinds
    <2>2. /\ client[h] = "running" /\ proxies[h] = 0 /\ client'[h] = "finalSync"
          /\ UNCHANGED <<proxies, replied, d_receivedFinalSync, errorHandled>>
      BY <1>5, <1>0 DEF SendFinalSync, hostVars
    <2>3. \/ pipe'[h] = Append(pipe[h], b)
          \/ pipe'[h] = Append(Append(pipe[h], a), b)
      BY <1>5, FinalSyncSent
    <2> HIDE DEF a, b
    <2>4. ~replied[h] /\ InTurn(pipe[h], "running", replied[h])
      BY <2>2 DEF Channel
    <2>5. InTurn(Append(pipe[h], b), "finalSync", replied[h])
      BY <2>1, <2>4, <1>0, SendingInTurn
    <2>6. /\ Append(pipe[h], a) \in Seq(Messages)
          /\ InTurn(Append(pipe[h], a), "running", replied[h])
      BY <2>1, <2>4, <1>0, SendingInTurn
    <2>7. InTurn(Append(Append(pipe[h], a), b), "finalSync", replied[h])
      BY <2>1, <2>4, <2>6, SendingInTurn
    <2>8. InTurn(pipe'[h], "finalSync", replied[h])
      BY <2>3, <2>5, <2>7
    <2> QED
      BY <2>2, <2>4, <2>8 DEF Channel
  <1>6. CASE CloseChannel(h)
    <2>1. /\ client[h] = "finalSync" /\ replied[h] /\ client'[h] = "closed"
          /\ UNCHANGED <<profile, proxies, replied, d_receivedFinalSync, errorHandled>>
          /\ Send(h, <<"Close">>)
      BY <1>6, <1>0 DEF CloseChannel, hostVars
    <2>2. pipe'[h] = Append(pipe[h], <<"Close">>)
      BY <1>0, <2>1, Sent, MessageKinds
    <2>3. InTurn(pipe[h], client[h], replied[h])
      BY DEF Channel
    <2>4. InTurn(pipe'[h], "closed", replied[h])
      BY <1>0, <2>2, <2>3, MessageKinds, SendingInTurn
    <2> QED
      BY <2>1, <2>4 DEF Channel
  <1>7. CASE RemoteDies(h)
    <2>1. /\ client[h] \in {"running", "finalSync"} /\ client'[h] = "died"
          /\ UNCHANGED <<profile, proxies, replied, d_receivedFinalSync, errorHandled>>
          /\ Send(h, <<"Close">>)
      BY <1>7, <1>0 DEF RemoteDies, hostVars
    <2>2. pipe'[h] = Append(pipe[h], <<"Close">>)
      BY <1>0, <2>1, Sent, MessageKinds
    <2>3. InTurn(pipe[h], client[h], replied[h])
      BY DEF Channel
    <2>4. InTurn(pipe'[h], "died", replied[h])
      BY <1>0, <2>2, <2>3, MessageKinds, SendingInTurn
    <2> QED
      BY <2>1, <2>4 DEF Channel
  <1>8. CASE MessageStep(h)
    <2>1. PICK type : /\ Handle(h, type)
                      /\ \/ OnSync(h) /\ type = "Sync"
                         \/ OnChannelError(h) /\ type = "Close"
                         \/ UNCHANGED <<replied, d_receivedFinalSync, errorHandled>>
      BY <1>8 DEF MessageStep, OnProfileNew, OnProfileDestroy, OnWebViewNew,
                  OnWebViewDestroy, OnSync, OnChannelError
    <2>2. /\ pipe[h] # <<>> /\ Head(pipe[h])[1] = type /\ pipe'[h] = Tail(pipe[h])
          /\ UNCHANGED <<client, profile, proxies>>
      BY <2>1, <1>0 DEF Handle
    <2>3. client[h] # "none" /\ InTurn(pipe[h], client[h], replied[h])
      BY <2>2 DEF Channel
    <2>8. /\ InTurn(Tail(pipe[h]), client[h], replied[h])
          /\ Head(pipe[h])[1] = "Sync" =>
               /\ client[h] \notin {"none", "running"}
               /\ InTurn(Tail(pipe[h]), client[h], TRUE)
          /\ Head(pipe[h])[1] = "Close" => client[h] \in {"closed", "died"}
      BY <2>2, <2>3, <1>0, TakingInTurn, Zenon
    <2>4. /\ InTurn(pipe'[h], client[h], replied[h])
          /\ type = "Sync" => /\ client[h] \notin {"none", "running"}
                              /\ InTurn(pipe'[h], client[h], TRUE)
          /\ type = "Close" => client[h] \in {"closed", "died"}
      BY <2>2, <2>8
    <2>5. CASE OnSync(h) /\ type = "Sync"
      <3>1. /\ replied'[h] = TRUE /\ d_receivedFinalSync'[h] = TRUE
            /\ errorHandled'[h] = errorHandled[h]
        BY <2>5, <1>0 DEF OnSync
      <3>2. InTurn(pipe'[h], client[h], replied'[h])
        BY <2>4, <2>5, <3>1
      <3> QED
        BY <2>2, <2>3, <2>4, <2>5, <3>1, <3>2 DEF Channel
    <2>6. CASE OnChannelError(h) /\ type = "Close"
      <3>1. /\ errorHandled'[h] <=> ~d_receivedFinalSync[h]
            /\ UNCHANGED <<replied, d_receivedFinalSync>>
        BY <2>6, <1>0 DEF OnChannelError
      <3> QED
        BY <2>2, <2>3, <2>4, <2>6, <3>1 DEF Channel
    <2>7. CASE UNCHANGED <<replied, d_receivedFinalSync, errorHandled>>
      BY <2>2, <2>3, <2>4, <2>7 DEF Channel
    <2> QED
      BY <2>1, <2>5, <2>6, <2>7
  <1> QED
    BY <1>1, <1>2, <1>3, <1>4, <1>5, <1>6, <1>7, <1>8 DEF Talks

\* Steps that say and hear nothing.
Silent == UNCHANGED <<client, profile, proxies, replied, pipe,
                      d_receivedFinalSync, errorHandled>>

\* The actions that say and hear nothing.
LEMMA SilentSteps ==
  /\ StartBrowserThread => Silent
  /\ InitRendererAndHost => Silent
  /\ StartOriginal => Silent
  /\ OriginalShutdown => Silent
  /\ OriginalDestroyWebView => Silent
  /\ OriginalDestroyProfile => Silent
  /\ setChannelNameTooEarly => Silent
  /\ \A c \in Contexts : OriginalCreateProfile(c) => Silent
  /\ \A b \in BOOLEAN : OriginalCreateWebView(b) => Silent
  /\ \A h \in Remotes : WatchErases(h) => Silent
  /\ \A h \in Remotes : WatchPosts(h) => Silent
  /\ TaskStep => Silent
  /\ CleanupAndQuit => Silent
  /\ JoinBrowserThread => Silent
  /\ OriginalDrained => Silent
  /\ OriginalStop => Silent
  /\ LoopStep => Silent
  /\ RendererStep => Silent
  <1> USE DEF Silent, clientVars, hostVars
  <1>1. (StartBrowserThread => Silent) /\ (InitRendererAndHost => Silent)
    BY DEF StartBrowserThread, InitRendererAndHost
  <1>2. (StartOriginal => Silent) /\ (OriginalShutdown => Silent)
    BY DEF StartOriginal, OriginalShutdown, DeleteHosts
  <1>3. (OriginalDestroyWebView => Silent) /\ (OriginalDestroyProfile => Silent)
    BY DEF OriginalDestroyWebView, OriginalDestroyProfile, OriginalCall
  <1>4. setChannelNameTooEarly => Silent
    BY DEF setChannelNameTooEarly
  <1>5. \A c \in Contexts : OriginalCreateProfile(c) => Silent
    BY DEF OriginalCreateProfile, OriginalCall
  <1>6. \A b \in BOOLEAN : OriginalCreateWebView(b) => Silent
    BY DEF OriginalCreateWebView, OriginalCall
  <1>7. \A h \in Remotes : WatchErases(h) => Silent
    BY DEF WatchErases
  <1>8. \A h \in Remotes : WatchPosts(h) => Silent
    BY DEF WatchPosts
  <1>9. TaskStep => Silent
    <2>1. CreateInProcessHost \/ Signal => Silent
      BY DEF CreateInProcessHost, Signal, Runs
    <2>2. DestroyHost \/ DestroyProcessHostManager => Silent
      BY DEF DestroyHost, DestroyProcessHostManager, DeleteHosts, Runs
    <2>3. DestroyBrowserContexts \/ DeleteRenderHost \/ QuitWhenIdle => Silent
      BY DEF DestroyBrowserContexts, DeleteRenderHost, QuitWhenIdle, Runs
    <2> QED
      BY <2>1, <2>2, <2>3 DEF TaskStep
  <1>10. (CleanupAndQuit => Silent) /\ (JoinBrowserThread => Silent)
    BY DEF CleanupAndQuit, JoinBrowserThread
  <1>11. (OriginalDrained => Silent) /\ (OriginalStop => Silent)
    BY DEF OriginalDrained, OriginalStop
  <1>12. (LoopStep => Silent) /\ (RendererStep => Silent)
    BY DEF LoopStep, RendererStep, BrowserThreadMain, BrowserMainEnds,
           RendererThreadInit, RendererThreadCleanUp
  <1> QED
    BY <1>1, <1>2, <1>3, <1>4, <1>5, <1>6, <1>7, <1>8, <1>9, <1>10, <1>11, <1>12

\* Every step talks on one channel, opens one or is silent.
LEMMA StepsOfClients ==
  ASSUME [Next]_vars
  PROVE  \/ \E g \in Hosts : Talks(g)
         \/ \E g \in Remotes : RemoteConnects(g)
         \/ CreateProcessClient
         \/ Silent
  <1>1. CASE UNCHANGED vars
    BY <1>1 DEF vars, clientVars, hostVars, Silent
  <1>2. CASE Next
    <2>1. RemoteShutsDown(Local) \/ ShutdownThreads => SendFinalSync(Local)
      BY DEF RemoteShutsDown, ShutdownThreads
    <2>2. PostDestructions => CloseChannel(Local)
      BY DEF PostDestructions
    <2>3. \A h \in Remotes : /\ RemoteShutsDown(h) => SendFinalSync(h)
                             /\ RemoteCloses(h) => CloseChannel(h)
      BY DEF RemoteShutsDown, RemoteCloses
    <2>4. ShutdownThreads \/ PostDestructions => \E g \in Hosts : Talks(g)
      BY <2>1, <2>2, LocalIsHost DEF Talks
    <2>5. ASSUME NEW h \in Remotes, RemoteShutsDown(h) \/ RemoteCloses(h) \/ RemoteDies(h)
          PROVE  \E g \in Hosts : Talks(g)
      BY <2>3, <2>5, LocalIsHost DEF Talks
    <2>6. ASSUME NEW h \in Hosts,
                 \/ \E c \in Contexts : CreateProfile(h, c)
                 \/ \E inProcess \in BOOLEAN : CreateWebView(h, inProcess)
                 \/ DestroyProfile(h) \/ DestroyWebView(h) \/ MessageStep(h)
          PROVE  \E g \in Hosts : Talks(g)
      BY <2>6 DEF Talks
    <2> QED
      BY <1>2, <2>4, <2>5, <2>6, SilentSteps DEF Next, AppStep
  <1> QED
    BY <1>1, <1>2

\* Every step keeps every channel in turn.
LEMMA ChannelsKept == Inv /\ [Next]_vars => \A h \in Hosts : Channel(h)'
  <1> SUFFICES ASSUME Inv, [Next]_vars, NEW h \in Hosts PROVE Channel(h)'
    OBVIOUS
  <1>0. Typed /\ Phases /\ Channel(h) /\ \A g \in Hosts : Channel(g)
    BY DEF Inv
  <1>1. CASE \E g \in Hosts : Talks(g)
    BY <1>0, <1>1, ChannelOfOthers, ChannelOfTalker
  <1>2. ASSUME NEW g \in Hosts, client[g] = "none",
               client' = [client EXCEPT ![g] = "running"],
               UNCHANGED <<profile, proxies, replied, pipe, d_receivedFinalSync,
                           errorHandled>>
        PROVE  Channel(h)'
    <2>1. CASE h # g
      <3>1. client'[h] = client[h]
        BY <1>0, <1>2, <2>1 DEF Typed
      <3> QED
        BY <1>0, <1>2, <3>1, ChannelSame
    <2>2. CASE h = g
      <3>1. client'[h] = "running"
        BY <1>0, <1>2, <2>2 DEF Typed
      <3>2. /\ ~replied[h] /\ ~errorHandled[h] /\ pipe[h] = <<>> /\ proxies[h] = 0
        BY <1>0, <1>2, <2>2 DEF Channel
      <3>3. Len(pipe[h]) = 0
        BY <3>2
      <3>4. InTurn(pipe'[h], client'[h], replied'[h])
        BY <1>2, <3>3 DEF InTurn
      <3> QED
        BY <1>2, <3>1, <3>2, <3>4 DEF Channel
    <2> QED
      BY <2>1, <2>2
  <1>3. CASE \E g \in Remotes : RemoteConnects(g)
    BY <1>2, <1>3, LocalIsHost DEF RemoteConnects
  <1>4. CASE CreateProcessClient
    <2>1. client[Local] = "none"
      BY <1>0, <1>4 DEF CreateProcessClient, Phases, Starting
    <2> QED
      BY <1>2, <1>4, <2>1, LocalIsHost DEF CreateProcessClient, hostVars
  <1>5. CASE Silent
    BY <1>0, <1>5, ChannelSame DEF Silent
  <1> QED
    BY <1>1, <1>3, <1>4, <1>5, StepsOfClients

-----------------------------------------------------------------------------
(* Hosts.                                                                  *)

\* Steps that leave the hosts and their views alone.
Still == UNCHANGED <<host, viewHosts, profileHost, d_numWebViews>>

\* The steps of ORIGINAL mode on views and profiles.
OriginalStep ==
  \/ \E c \in Contexts : OriginalCreateProfile(c)
  \/ OriginalDestroyProfile
  \/ \E b \in BOOLEAN : OriginalCreateWebView(b)
  \/ OriginalDestroyWebView
  \/ OriginalShutdown

\* The steps that may change a host.
HostStep ==
  \/ \E g \in Hosts : MessageStep(g)
  \/ \E g \in Remotes : RemoteConnects(g) \/ WatchErases(g) \/ WatchPosts(g)
  \/ CreateInProcessHost \/ DestroyHost \/ DestroyProcessHostManager
  \/ OriginalStep

\* Every other step leaves the hosts alone.
LEMMA StepsOfHosts ==
  ASSUME [Next]_vars
  PROVE  HostStep \/ Still
  <1> USE DEF Still, hostVars, contextVars
  <1>1. CASE UNCHANGED vars
    BY <1>1 DEF vars
  <1>2. StartBrowserThread \/ InitRendererAndHost \/ StartOriginal => Still
    BY DEF StartBrowserThread, InitRendererAndHost, StartOriginal
  <1>3. CreateProcessClient \/ ShutdownThreads \/ setChannelNameTooEarly => Still
    BY DEF CreateProcessClient, ShutdownThreads, SendFinalSync, setChannelNameTooEarly
  <1>4. ASSUME NEW h \in Hosts
        PROVE  /\ \A c \in Contexts : CreateProfile(h, c) => Still
               /\ \A b \in BOOLEAN : CreateWebView(h, b) => Still
               /\ DestroyProfile(h) => Still
               /\ DestroyWebView(h) => Still
    BY DEF CreateProfile, CreateWebView, DestroyProfile, DestroyWebView
  <1>5. ASSUME NEW h \in Remotes
        PROVE  RemoteShutsDown(h) \/ RemoteCloses(h) \/ RemoteDies(h) => Still
    BY DEF RemoteShutsDown, RemoteCloses, RemoteDies, SendFinalSync, CloseChannel
  <1>6. AppStep => Still
    BY DEF AppStep, PostDestructions, CloseChannel, CleanupAndQuit,
           JoinBrowserThread, OriginalDrained, OriginalStop
  <1>7. LoopStep \/ RendererStep => Still
    BY DEF LoopStep, RendererStep, BrowserThreadMain, BrowserMainEnds,
           RendererThreadInit, RendererThreadCleanUp
  <1>8. TaskStep => HostStep \/ Still
    BY DEF TaskStep, HostStep, Signal, DestroyBrowserContexts, DeleteRenderHost,
           QuitWhenIdle
  <1>9. CASE Next
    BY <1>9, <1>2, <1>3, <1>4, <1>5, <1>6, <1>7, <1>8 DEF Next, HostStep, OriginalStep
  <1> QED
    BY <1>1, <1>9

\* The thread mode is chosen once.
LEMMA ModeKept == [Next]_vars => mode' = mode
  <1> SUFFICES ASSUME [Next]_vars PROVE mode' = mode
    OBVIOUS
  <1>1. CASE UNCHANGED vars
    BY <1>1 DEF vars
  <1>2. CASE Next
    <2>1. StartBrowserThread \/ InitRendererAndHost \/ CreateProcessClient
            \/ StartOriginal \/ setChannelNameTooEarly \/ OriginalShutdown => mode' = mode
      BY DEF StartBrowserThread, InitRendererAndHost, CreateProcessClient,
             StartOriginal, setChannelNameTooEarly, OriginalShutdown
    <2>2. \A h : SendFinalSync(h) \/ CloseChannel(h) => mode' = mode
      BY DEF SendFinalSync, CloseChannel
    <2>3. OriginalCall => mode' = mode
      BY DEF OriginalCall
    <2>4. \A kind : Runs(kind) => mode' = mode
      BY DEF Runs
    <2>5. \A h, type : Handle(h, type) => mode' = mode
      BY DEF Handle
    <2>6. TaskStep => mode' = mode
      BY <2>4 DEF TaskStep, CreateInProcessHost, Signal, DestroyHost,
         DestroyProcessHostManager, DestroyBrowserContexts, DeleteRenderHost,
         QuitWhenIdle
    <2>7. \A h \in Hosts : MessageStep(h) => mode' = mode
      BY <2>5 DEF MessageStep, OnProfileNew, OnProfileDestroy, OnWebViewNew,
         OnWebViewDestroy, OnSync, OnChannelError
    <2>8. AppStep => mode' = mode
      BY <2>2 DEF AppStep, PostDestructions, CleanupAndQuit, JoinBrowserThread,
         OriginalDrained, OriginalStop
    <2>9. LoopStep \/ RendererStep => mode' = mode
      BY DEF LoopStep, RendererStep, BrowserThreadMain, BrowserMainEnds,
             RendererThreadInit, RendererThreadCleanUp
    <2>10. \A h \in Remotes :
             RemoteConnects(h) \/ RemoteShutsDown(h) \/ RemoteCloses(h)
               \/ RemoteDies(h) \/ WatchErases(h) \/ WatchPosts(h) => mode' = mode
      BY <2>2 DEF RemoteConnects, RemoteShutsDown, RemoteCloses, RemoteDies,
         WatchErases, WatchPosts
    <2>11. \A h \in Hosts :
             /\ \A c \in Contexts : CreateProfile(h, c) => mode' = mode
             /\ \A b \in BOOLEAN : CreateWebView(h, b) => mode' = mode
             /\ DestroyProfile(h) \/ DestroyWebView(h) => mode' = mode
      BY DEF CreateProfile, CreateWebView, DestroyProfile, DestroyWebView
    <2>12. /\ OriginalDestroyWebView \/ OriginalDestroyProfile => mode' = mode
           /\ \A c \in Contexts : OriginalCreateProfile(c) => mode' = mode
           /\ \A b \in BOOLEAN : OriginalCreateWebView(b) => mode' = mode
      BY <2>3 DEF OriginalDestroyWebView, OriginalDestroyProfile,
         OriginalCreateProfile, OriginalCreateWebView
    <2>13. ShutdownThreads => mode' = mode
      BY <2>2 DEF ShutdownThreads
    <2> QED
      BY <1>2, <2>1, <2>6, <2>7, <2>8, <2>9, <2>10, <2>11, <2>12, <2>13 DEF Next
  <1> QED
    BY <1>1, <1>2

\* Served(h) depends on h, its client, its pipe and the mode.
LEMMA ServedSame ==
  ASSUME NEW h \in Hosts, Served(h), mode' = mode,
         client'[h] = client[h] \/ h \notin Remotes,
         profile'[h] = profile[h], proxies'[h] = proxies[h], pipe'[h] = pipe[h],
         host'[h] = host[h], profileHost'[h] = profileHost[h],
         viewHosts'[h] = viewHosts[h]
  PROVE  Served(h)'
  BY DEF Served, InUse, Before, After

\* The messages of one channel do not touch the host of another.
LEMMA ServedOfOthers ==
  ASSUME Typed, NEW g \in Hosts, NEW h \in Hosts, h # g, Served(h), Talks(g),
         mode' = mode
  PROVE  Served(h)'
  <1> USE DEF Typed, clientVars, hostVars
  <1>1. CASE \E c \in Contexts : CreateProfile(g, c)
    BY <1>1, ServedSame DEF CreateProfile, Send
  <1>2. CASE \E b \in BOOLEAN : CreateWebView(g, b)
    BY <1>2, ServedSame DEF CreateWebView, Send
  <1>3. CASE DestroyProfile(g)
    BY <1>3, ServedSame DEF DestroyProfile, Send
  <1>4. CASE DestroyWebView(g)
    BY <1>4, ServedSame DEF DestroyWebView, Send
  <1>5. CASE SendFinalSync(g)
    BY <1>5, ServedSame DEF SendFinalSync
  <1>6. CASE CloseChannel(g)
    BY <1>6, ServedSame DEF CloseChannel, Send
  <1>7. CASE RemoteDies(g)
    BY <1>7, ServedSame DEF RemoteDies, Send
  <1>8. CASE OnProfileNew(g)
    BY <1>8, ServedSame DEF OnProfileNew, ObtainContext, Handle
  <1>9. CASE OnProfileDestroy(g)
    BY <1>9, ServedSame DEF OnProfileDestroy, Handle
  <1>10. CASE OnWebViewNew(g)
    BY <1>10, ServedSame DEF OnWebViewNew, AddView, Handle
  <1>11. CASE OnWebViewDestroy(g)
    BY <1>11, ServedSame DEF OnWebViewDestroy, RemoveView, Handle
  <1>12. CASE OnSync(g)
    BY <1>12, ServedSame DEF OnSync, Handle
  <1>13. CASE OnChannelError(g)
    BY <1>13, ServedSame DEF OnChannelError, Handle
  <1> QED
    BY <1>1, <1>2, <1>3, <1>4, <1>5, <1>6, <1>7, <1>8, <1>9, <1>10, <1>11, <1>12,
       <1>13 DEF Talks, MessageStep

\* The client sends m.
LEMMA ServedOfCaller ==
  ASSUME Typed, NEW h \in Hosts, Served(h), mode' = mode,
         UNCHANGED <<host, profileHost, viewHosts>>,
         client[h] # "none" /\ client'[h] # "none",
         client[h] \in {"closed", "died"} => client'[h] = client[h],
         NEW m \in Messages, Send(h, m),
         NEW b \in Snapshots, b = <<profile'[h], proxies'[h]>>,
         Effect(After(h), m, b)
  PROVE  Served(h)'
  <1>1. pipe[h] \in Seq(Messages) /\ pipe'[h] = Append(pipe[h], m)
    BY Sent DEF Typed
  <1>2. Leads(Before(h), pipe[h], After(h)) => Leads(Before(h), pipe'[h], b)
    BY <1>1, SendingLeads
  <1>3. InUse(h)' <=> InUse(h)
    BY DEF InUse
  <1>4. Before(h)' = Before(h) /\ After(h)' = b
    BY DEF Before, After
  <1>5. (InUse(h) => Leads(Before(h), pipe[h], After(h)))'
    BY <1>2, <1>3, <1>4 DEF Served
  <1> QED
    BY <1>5 DEF Served

\* The host handles a message, after which it is at b.
LEMMA ServedOfHandler ==
  ASSUME Typed, Phases, NEW h \in Hosts, Served(h), mode' = mode,
         NEW type, Handle(h, type),
         NEW b, b = <<profileHost'[h], viewHosts'[h]>>,
         viewHosts'[h] > 0 => profileHost'[h] # NoContext,
         Leads(b, Tail(pipe[h]), After(h))
  PROVE  Served(h)'
  <1>1. /\ pipe'[h] = Tail(pipe[h]) /\ UNCHANGED <<client, profile, proxies, host>>
        /\ host[h] # "deleted"
    BY DEF Handle, Typed
  <1>2. Before(h)' = b /\ After(h)' = After(h)
    BY <1>1 DEF Before, After
  <1>3. (InUse(h) => Leads(Before(h), pipe[h], After(h)))'
    BY <1>1, <1>2
  <1> QED
    BY <1>1, <1>3 DEF Served

\* Sending and handling keep the two ends of a channel together.
LEMMA ServedOfTalker ==
  ASSUME Typed, Typed', Phases, NEW h \in Hosts, Channel(h), Served(h), Talks(h),
         mode' = mode
  PROVE  Served(h)'
  <1>0. /\ pipe \in [Hosts -> Seq(Messages)] /\ pipe[h] \in Seq(Messages)
        /\ h \in DOMAIN client /\ h \in DOMAIN profile /\ h \in DOMAIN proxies
        /\ h \in DOMAIN profileHost /\ h \in DOMAIN viewHosts /\ h \in DOMAIN pipe
        /\ proxies[h] \in 0 .. MaxViews /\ viewHosts[h] \in 0 .. MaxViews
        /\ profile[h] \in Profiles
        /\ MaxViews \in Nat
    BY BoundAssumption DEF Typed
  <1>00. <<profile'[h], proxies'[h]>> \in Snapshots
    BY DEF Typed, Snapshots
  <1>1. CASE \E c \in Contexts : CreateProfile(h, c)
    <2>1. PICK c \in Contexts : CreateProfile(h, c)
      BY <1>1
    <2>2. /\ client[h] = "running" /\ profile[h] = NoContext
          /\ Send(h, <<"ProfileNew", c>>) /\ profile'[h] = c /\ proxies'[h] = proxies[h]
          /\ UNCHANGED <<client, host, profileHost, viewHosts>>
      BY <1>0, <2>1 DEF CreateProfile, Calls, hostVars
    <2>3. proxies[h] = 0
      BY <1>0, <2>2 DEF Channel
    <2>4. Effect(After(h), <<"ProfileNew", c>>, <<profile'[h], proxies'[h]>>)
      BY <2>2, <2>3 DEF Effect, After
    <2> QED
      BY <1>00, <2>2, <2>4, MessageKinds, ServedOfCaller
  <1>2. CASE \E b \in BOOLEAN : CreateWebView(h, b)
    <2>1. PICK b \in BOOLEAN : CreateWebView(h, b)
      BY <1>2
    <2>2. /\ client[h] = "running" /\ profile[h] # NoContext /\ proxies[h] < MaxViews
          /\ Send(h, <<"WebViewNew", b>>) /\ profile'[h] = profile[h]
          /\ proxies'[h] = proxies[h] + 1
          /\ UNCHANGED <<client, host, profileHost, viewHosts>>
      BY <1>0, <2>1 DEF CreateWebView, Calls, hostVars
    <2>4. Effect(After(h), <<"WebViewNew", b>>, <<profile'[h], proxies'[h]>>)
      BY <2>2 DEF Effect, After
    <2> QED
      BY <1>00, <2>2, <2>4, MessageKinds, ServedOfCaller
  <1>3. CASE DestroyProfile(h)
    <2>2. /\ client[h] = "running" /\ profile[h] # NoContext /\ proxies[h] = 0
          /\ Send(h, <<"ProfileDestroy">>) /\ profile'[h] = NoContext
          /\ proxies'[h] = 0
          /\ UNCHANGED <<client, host, profileHost, viewHosts>>
      BY <1>0, <1>3 DEF DestroyProfile, Calls, hostVars
    <2>4. Effect(After(h), <<"ProfileDestroy">>, <<profile'[h], proxies'[h]>>)
      BY <2>2 DEF Effect, After
    <2> QED
      BY <1>00, <2>2, <2>4, MessageKinds, ServedOfCaller
  <1>4. CASE DestroyWebView(h)
    <2>2. /\ client[h] = "running" /\ proxies[h] > 0
          /\ Send(h, <<"WebViewDestroy">>) /\ profile'[h] = profile[h]
          /\ proxies'[h] = proxies[h] - 1
          /\ UNCHANGED <<client, host, profileHost, viewHosts>>
      BY <1>0, <1>4 DEF DestroyWebView, Calls, hostVars
    <2>4. Effect(After(h), <<"WebViewDestroy">>, <<profile'[h], proxies'[h]>>)
      BY <2>2 DEF Effect, After
    <2> QED
      BY <1>00, <2>2, <2>4, MessageKinds, ServedOfCaller
  <1>5. CASE SendFinalSync(h)
    <2> DEFINE a == <<"ProfileDestroy">>
               b == <<"Sync">>
               e == <<NoContext, 0>>
    <2>1. /\ a \in Messages /\ b \in Messages /\ e \in Snapshots
          /\ a[1] = "ProfileDestroy" /\ b[1] = "Sync" /\ e[1] = NoContext /\ e[2] = 0
      BY <1>0, MessageKinds DEF Snapshots, Profiles
    <2>2. /\ client[h] = "running" /\ proxies[h] = 0 /\ client'[h] = "finalSync"
          /\ profile'[h] = NoContext /\ proxies'[h] = 0
          /\ UNCHANGED <<host, profileHost, viewHosts>>
      BY <1>5, <1>0 DEF SendFinalSync, hostVars
    <2>3. /\ profile[h] = NoContext => pipe'[h] = Append(pipe[h], b)
          /\ profile[h] # NoContext => pipe'[h] = Append(Append(pipe[h], a), b)
      BY <1>5, FinalSyncSent
    <2>4. /\ After(h)' = e /\ Before(h)' = Before(h)
          /\ profile[h] = NoContext => After(h) = e
          /\ profile[h] # NoContext => Effect(After(h), a, e)
      BY <2>2 DEF After, Before, Effect
    <2>5. Effect(e, b, e)
      BY DEF Effect
    <2> HIDE DEF a, b, e
    <2>6. ASSUME Leads(Before(h), pipe[h], After(h))
          PROVE  Leads(Before(h), pipe'[h], e)
      <3>1. CASE profile[h] = NoContext
        BY <3>1, <2>1, <2>3, <2>4, <2>5, <2>6, <1>0, SendingLeads
      <3>2. CASE profile[h] # NoContext
        <4>1. /\ Append(pipe[h], a) \in Seq(Messages)
              /\ Leads(Before(h), Append(pipe[h], a), e)
          BY <3>2, <2>1, <2>4, <2>6, <1>0, SendingLeads
        <4>2. Leads(Before(h), Append(Append(pipe[h], a), b), e)
          BY <4>1, <2>1, <2>5, SendingLeads
        <4> QED
          BY <4>2, <3>2, <2>3
      <3> QED
        BY <3>1, <3>2
    <2>7. InUse(h)' <=> InUse(h)
      BY <2>2 DEF InUse
    <2>8. (InUse(h) => Leads(Before(h), pipe[h], After(h)))'
      BY <2>4, <2>6, <2>7 DEF Served
    <2> QED
      BY <2>2, <2>8 DEF Served
  <1>6. CASE CloseChannel(h)
    <2>2. /\ client[h] = "finalSync" /\ client'[h] = "closed" /\ Send(h, <<"Close">>)
          /\ profile'[h] = profile[h] /\ proxies'[h] = proxies[h]
          /\ UNCHANGED <<host, profileHost, viewHosts>>
      BY <1>0, <1>6 DEF CloseChannel, hostVars
    <2>4. Effect(After(h), <<"Close">>, <<profile'[h], proxies'[h]>>)
      BY <2>2 DEF Effect, After
    <2> QED
      BY <1>00, <2>2, <2>4, MessageKinds, ServedOfCaller
  <1>7. CASE RemoteDies(h)
    <2>2. /\ client[h] \in {"running", "finalSync"} /\ client'[h] = "died"
          /\ Send(h, <<"Close">>)
          /\ profile'[h] = profile[h] /\ proxies'[h] = proxies[h]
          /\ UNCHANGED <<host, profileHost, viewHosts>>
      BY <1>0, <1>7 DEF RemoteDies, hostVars
    <2>4. Effect(After(h), <<"Close">>, <<profile'[h], proxies'[h]>>)
      BY <2>2 DEF Effect, After
    <2> QED
      BY <1>00, <2>2, <2>4, MessageKinds, ServedOfCaller
  <1>8. CASE MessageStep(h)
    <2>1. CASE OnProfileNew(h)
      <3>1. /\ Handle(h, "ProfileNew") /\ profileHost'[h] = Head(pipe[h])[2]
            /\ viewHosts' = viewHosts
        BY <2>1, <1>0 DEF OnProfileNew, ObtainContext
      <3>2. /\ viewHosts[h] = 0
            /\ Leads(<<Head(pipe[h])[2], 0>>, Tail(pipe[h]), After(h))
        BY <3>1, ProfileNewHandled
      <3>3. /\ <<profileHost'[h], viewHosts'[h]>> = <<Head(pipe[h])[2], 0>>
            /\ ~(viewHosts'[h] > 0)
        BY <3>1, <3>2
      <3> QED
        BY <3>1, <3>2, <3>3, ServedOfHandler
    <2>2. CASE OnProfileDestroy(h)
      <3>1. /\ Handle(h, "ProfileDestroy") /\ profileHost'[h] = NoContext
            /\ viewHosts' = viewHosts
        BY <2>2, <1>0 DEF OnProfileDestroy
      <3>2. /\ viewHosts[h] = 0
            /\ Leads(<<NoContext, 0>>, Tail(pipe[h]), After(h))
        BY <3>1, ProfileDestroyHandled
      <3>3. /\ <<profileHost'[h], viewHosts'[h]>> = <<NoContext, 0>>
            /\ ~(viewHosts'[h] > 0)
        BY <3>1, <3>2
      <3> QED
        BY <3>1, <3>2, <3>3, ServedOfHandler
    <2>3. CASE OnWebViewNew(h)
      <3>1. /\ Handle(h, "WebViewNew") /\ profileHost' = profileHost
            /\ viewHosts'[h] = viewHosts[h] + 1
        BY <2>3, <1>0 DEF OnWebViewNew, AddView
      <3>2. /\ profileHost[h] # NoContext
            /\ Leads(<<profileHost[h], viewHosts[h] + 1>>, Tail(pipe[h]), After(h))
        BY <3>1, WebViewNewHandled
      <3>3. /\ <<profileHost'[h], viewHosts'[h]>> = <<profileHost[h], viewHosts[h] + 1>>
            /\ profileHost'[h] # NoContext
        BY <3>1, <3>2
      <3> QED
        BY <3>1, <3>2, <3>3, ServedOfHandler
    <2>4. CASE OnWebViewDestroy(h)
      <3>1. /\ Handle(h, "WebViewDestroy") /\ profileHost' = profileHost
            /\ viewHosts'[h] = viewHosts[h] - 1
        BY <2>4, <1>0 DEF OnWebViewDestroy, RemoveView
      <3>2. /\ profileHost[h] # NoContext
            /\ Leads(<<profileHost[h], viewHosts[h] - 1>>, Tail(pipe[h]), After(h))
        BY <3>1, WebViewDestroyHandled
      <3>3. /\ <<profileHost'[h], viewHosts'[h]>> = <<profileHost[h], viewHosts[h] - 1>>
            /\ profileHost'[h] # NoContext
        BY <3>1, <3>2
      <3> QED
        BY <3>1, <3>2, <3>3, ServedOfHandler
    <2>5. CASE OnSync(h) \/ OnChannelError(h)
      <3>1. PICK type \in {"Sync", "Close"} : Handle(h, type)
        BY <2>5 DEF OnSync, OnChannelError
      <3>2. UNCHANGED <<profileHost, viewHosts>>
        BY <2>5 DEF OnSync, OnChannelError
      <3>3. Leads(Before(h), Tail(pipe[h]), After(h))
        BY <3>1, OthersHandled
      <3>4. /\ <<profileHost'[h], viewHosts'[h]>> = Before(h)
            /\ viewHosts'[h] > 0 => profileHost'[h] # NoContext
        BY <3>2 DEF Before, Served
      <3> QED
        BY <3>1, <3>3, <3>4, ServedOfHandler
    <2> QED
      BY <1>8, <2>1, <2>2, <2>3, <2>4, <2>5 DEF MessageStep
  <1> QED
    BY <1>1, <1>2, <1>3, <1>4, <1>5, <1>6, <1>7, <1>8 DEF Talks

\* A host that is deleted had been there.
LEMMA ServedDeleted ==
  ASSUME Typed, NEW S \in SUBSET Hosts, NEW rest \in Seq(Tasks),
         DeleteHosts(S, rest), \A g \in S : g \in Remotes => host[g] # "none",
         UNCHANGED <<mode, client, profile, proxies, pipe>>,
         NEW h \in Hosts, Served(h)
  PROVE  Served(h)'
  <1>1. /\ host'[h] = IF h \in S THEN "deleted" ELSE host[h]
        /\ viewHosts'[h] = IF h \in S THEN 0 ELSE viewHosts[h]
    BY HostsDeleted
  <1>2. profileHost' = profileHost
    BY DEF DeleteHosts
  <1>3. CASE h \in S
    <2>1. host'[h] = "deleted" /\ viewHosts'[h] = 0 /\ client' = client
      BY <1>1, <1>3
    <2>2. h \in Remotes => client[h] # "none"
      BY <1>3 DEF Served
    <2> QED
      BY <2>1, <2>2 DEF Served, InUse
  <1>4. CASE h \notin S
    BY <1>1, <1>2, <1>4, ServedSame
  <1> QED
    BY <1>3, <1>4

\* Every step keeps host and client together on every channel.
LEMMA ServedKept == Inv /\ [Next]_vars => \A h \in Hosts : Served(h)'
  <1> SUFFICES ASSUME Inv, [Next]_vars, NEW h \in Hosts PROVE Served(h)'
    OBVIOUS
  <1>0. /\ Typed /\ Typed' /\ Phases /\ TaskHosts /\ Announced /\ mode' = mode
        /\ Served(h) /\ Channel(h)
        /\ \A g \in Hosts : Served(g) /\ Channel(g)
    BY TypedKept, ModeKept DEF Inv
  <1>1. CASE \E g \in Hosts : Talks(g)
    BY <1>0, <1>1, ServedOfOthers, ServedOfTalker
  <1>2. ASSUME NEW g \in Remotes, RemoteConnects(g) PROVE Served(h)'
    <2>1. /\ client[g] = "none" /\ client' = [client EXCEPT ![g] = "running"]
          /\ host' = [host EXCEPT ![g] = "live"]
          /\ UNCHANGED <<profile, proxies, pipe, profileHost, viewHosts>>
      BY <1>2 DEF RemoteConnects
    <2>2. CASE h # g
      <3>1. client'[h] = client[h] /\ host'[h] = host[h]
        BY <1>0, <2>1, <2>2 DEF Typed
      <3> QED
        BY <1>0, <2>1, <3>1, ServedSame
    <2>3. CASE h = g
      <3>1. client'[h] = "running" /\ host'[h] = "live" /\ host[h] = "none" /\ h \in Remotes
        BY <1>0, <2>1, <2>3 DEF Typed, Served
      <3>2. InUse(h)
        BY <3>1 DEF InUse
      <3>3. Leads(Before(h), pipe[h], After(h))
        BY <1>0, <3>2 DEF Served
      <3>4. Leads(Before(h), pipe[h], After(h))'
        BY <2>1, <3>3 DEF Before, After
      <3> QED
        BY <1>0, <2>1, <3>1, <3>4 DEF Served
    <2> QED
      BY <2>2, <2>3
  <1>3. CASE CreateProcessClient
    <2>1. /\ client' = [client EXCEPT ![Local] = "running"]
          /\ UNCHANGED <<profile, proxies, pipe, host, profileHost, viewHosts>>
      BY <1>3 DEF CreateProcessClient, hostVars
    <2>2. client'[h] = client[h] \/ h \notin Remotes
      BY <1>0, <2>1, LocalIsHost DEF Typed
    <2> QED
      BY <1>0, <2>1, <2>2, ServedSame
  <1>4. CASE Silent
    <2>0. UNCHANGED <<client, profile, proxies, pipe>>
      BY <1>4 DEF Silent
    <2>1. CASE Still
      BY <1>0, <2>0, <2>1, ServedSame DEF Still
    <2>2. CASE \E g \in Hosts : MessageStep(g)
      BY <1>1, <2>2 DEF Talks
    <2>3. CASE \E g \in Remotes : RemoteConnects(g)
      BY <1>2, <2>3
    <2>4. ASSUME NEW g \in Remotes, WatchErases(g) \/ WatchPosts(g) PROVE Served(h)'
      <3>1. /\ client[g] \in {"closed", "died"} /\ host[g] \in {"live", "held"}
            /\ \/ host' = [host EXCEPT ![g] = "held"]
               \/ host' = [host EXCEPT ![g] = "posted"]
            /\ UNCHANGED <<profileHost, viewHosts>>
        BY <1>0, <2>4, LocalIsHost DEF WatchErases, WatchPosts, Served
      <3>2. CASE h # g
        <4>1. host'[h] = host[h]
          BY <1>0, <3>1, <3>2 DEF Typed
        <4> QED
          BY <1>0, <2>0, <3>1, <4>1, ServedSame
      <3>3. CASE h = g
        <4>1. host'[h] \in {"held", "posted"}
          BY <1>0, <3>1, <3>3 DEF Typed
        <4>2. InUse(h)
          BY <3>1, <3>3 DEF InUse
        <4>3. Leads(Before(h), pipe[h], After(h))
          BY <1>0, <4>2 DEF Served
        <4>4. Leads(Before(h), pipe[h], After(h))'
          BY <2>0, <3>1, <4>3 DEF Before, After
        <4>5. client'[h] = client[h] /\ viewHosts'[h] = viewHosts[h]
              /\ profileHost'[h] = profileHost[h]
          BY <2>0, <3>1
        <4> QED
          BY <1>0, <3>1, <3>3, <4>1, <4>4, <4>5 DEF Served
      <3> QED
        BY <3>2, <3>3
    <2>5. CASE CreateInProcessHost
      <3>1. /\ Runs("createHost") /\ host' = [host EXCEPT ![Local] = "live"]
            /\ UNCHANGED <<profileHost, viewHosts>>
        BY <2>5 DEF CreateInProcessHost
      <3>2. Posted("createHost")
        BY <1>0, <3>1, TaskRun, TakingATask DEF Posted
      <3>3. host[Local] # "deleted" /\ mode = "RENDERER_MAIN"
        BY <1>0, <3>2 DEF Announced, Phases, Starting, Typed
      <3>4. CASE h # Local
        <4>1. host'[h] = host[h]
          BY <1>0, <3>1, <3>4 DEF Typed
        <4> QED
          BY <1>0, <2>0, <3>1, <4>1, ServedSame
      <3>5. CASE h = Local
        <4>1. InUse(h) /\ host'[h] = "live" /\ h \notin Remotes
          BY <1>0, <3>1, <3>3, <3>5, LocalIsHost DEF InUse, Typed
        <4>3. Leads(Before(h), pipe[h], After(h))
          BY <1>0, <4>1 DEF Served
        <4>4. Leads(Before(h), pipe[h], After(h))'
          BY <2>0, <3>1, <4>3 DEF Before, After
        <4> QED
          BY <1>0, <3>1, <4>1, <4>4 DEF Served
      <3> QED
        BY <3>4, <3>5
    <2>6. CASE DestroyHost
      <3>1. PICK kind \in {"destroyHost", "deleteHost"} : Runs(kind)
        BY <2>6 DEF DestroyHost
      <3>2. /\ DeleteHosts({Head(tasks)[2]}, Tail(tasks))
            /\ {Head(tasks)[2]} \in SUBSET Hosts /\ Tail(tasks) \in Seq(Tasks)
            /\ tasks \in Seq(Tasks) /\ tasks # <<>> /\ Head(tasks)[1] = kind
        BY <1>0, <2>6, <3>1, TaskRun DEF DestroyHost
      <3>3. Head(tasks)[2] \in Remotes => host[Head(tasks)[2]] # "none"
        BY <1>0, <3>1, <3>2, FitTasks, LocalIsHost DEF TaskHosts
      <3> QED
        BY <1>0, <2>0, <3>2, <3>3, ServedDeleted
    <2>7. CASE DestroyProcessHostManager
      <3>1. /\ Runs("destroyManager") /\ DeleteHosts(ManagedHosts, Tail(tasks))
        BY <2>7 DEF DestroyProcessHostManager
      <3>2. /\ ManagedHosts \in SUBSET Hosts /\ Tail(tasks) \in Seq(Tasks)
            /\ \A g \in ManagedHosts : host[g] # "none"
        BY <1>0, <3>1, TaskRun, LocalIsHost DEF ManagedHosts
      <3> QED
        BY <1>0, <2>0, <3>1, <3>2, ServedDeleted
    <2>8. CASE OriginalStep
      <3>1. CASE OriginalShutdown
        <4>1. DeleteHosts(ManagedHosts, tasks)
          BY <3>1 DEF OriginalShutdown
        <4>2. /\ ManagedHosts \in SUBSET Hosts /\ tasks \in Seq(Tasks)
              /\ \A g \in ManagedHosts : host[g] # "none"
          BY <1>0, LocalIsHost DEF ManagedHosts, Typed
        <4> QED
          BY <1>0, <2>0, <4>1, <4>2, ServedDeleted
      <3>2. CASE ~OriginalShutdown
        <4>1. mode = "ORIGINAL" /\ host' = host
          BY <2>8, <3>2 DEF OriginalStep, OriginalCreateProfile, OriginalDestroyProfile,
             OriginalCreateWebView, OriginalDestroyWebView, OriginalCall
        <4>2. /\ \A g \in Hosts \ {Local} : /\ profileHost'[g] = profileHost[g]
                                            /\ viewHosts'[g] = viewHosts[g]
          <5>0. /\ viewHosts \in [Hosts -> 0 .. MaxViews]
                /\ profileHost \in [Hosts -> Profiles]
            BY <1>0 DEF Typed
          <5>1. CASE \E c \in Contexts : OriginalCreateProfile(c)
            BY <5>0, <5>1 DEF OriginalCreateProfile, ObtainContext
          <5>2. CASE OriginalDestroyProfile
            BY <5>0, <5>2 DEF OriginalDestroyProfile
          <5>3. CASE \E b \in BOOLEAN : OriginalCreateWebView(b)
            BY <5>0, <5>3 DEF OriginalCreateWebView, AddView
          <5>4. CASE OriginalDestroyWebView
            BY <5>0, <5>4 DEF OriginalDestroyWebView, RemoveView
          <5> QED
            BY <2>8, <3>2, <5>1, <5>2, <5>3, <5>4 DEF OriginalStep
        <4>3. viewHosts'[Local] > 0 => profileHost'[Local] # NoContext
          <5> USE <1>0, LocalIsHost DEF Typed
          <5>0. /\ viewHosts[Local] \in 0 .. MaxViews
                /\ viewHosts[Local] > 0 => profileHost[Local] # NoContext
            BY <1>0, LocalIsHost DEF Served
          <5>1. CASE \E c \in Contexts : OriginalCreateProfile(c)
            BY <5>0, <5>1 DEF OriginalCreateProfile, ObtainContext
          <5>2. CASE OriginalDestroyProfile
            BY <5>0, <5>2 DEF OriginalDestroyProfile
          <5>3. CASE \E b \in BOOLEAN : OriginalCreateWebView(b)
            BY <5>3 DEF OriginalCreateWebView
          <5>4. CASE OriginalDestroyWebView
            BY <5>0, <5>4 DEF OriginalDestroyWebView, RemoveView
          <5> QED
            BY <2>8, <3>2, <5>1, <5>2, <5>3, <5>4 DEF OriginalStep
        <4>4. CASE h = Local
          <5>1. h \notin Remotes /\ host'[h] = "none"
            BY <1>0, <4>1, <4>4, LocalIsHost DEF Phases
          <5> QED
            BY <1>0, <4>1, <4>3, <4>4, <5>1 DEF Served, InUse
        <4>5. CASE h # Local
          BY <1>0, <2>0, <4>1, <4>2, <4>5, ServedSame
        <4> QED
          BY <4>4, <4>5
      <3> QED
        BY <3>1, <3>2
    <2> QED
      BY <2>1, <2>2, <2>3, <2>4, <2>5, <2>6, <2>7, <2>8, StepsOfHosts DEF HostStep
  <1> QED
    BY <1>1, <1>2, <1>3, <1>4, StepsOfClients

-----------------------------------------------------------------------------
(* The counts of the contexts.                                             *)

\* Every step keeps the counts of the contexts.
LEMMA CountsKept == Inv /\ [Next]_vars => Count'
  <1> SUFFICES ASSUME Inv, [Next]_vars PROVE Count'
    OBVIOUS
  <1>0. Typed /\ Phases /\ Count /\ \A g \in Hosts : Served(g)
    BY DEF Inv
  <1>00. /\ d_numWebViews \in [Contexts -> Int] /\ profileHost \in ProfileMaps
         /\ viewHosts \in ViewMaps
         /\ Counts(d_numWebViews, profileHost, viewHosts)
    BY <1>0 DEF Typed, ProfileMaps, ViewMaps, Count
  <1>1. CASE UNCHANGED <<d_numWebViews, profileHost, viewHosts>>
    BY <1>0, <1>1 DEF Count
  <1>2. ASSUME NEW h \in Hosts, NEW c \in Profiles, viewHosts[h] = 0,
               profileHost' = [profileHost EXCEPT ![h] = c],
               UNCHANGED <<d_numWebViews, viewHosts>>
        PROVE  Count'
    <2>1. Counts(d_numWebViews, [profileHost EXCEPT ![h] = c], viewHosts)
      BY <1>00, <1>2, CountKept
    <2> QED
      BY <1>2, <2>1 DEF Count
  <1>3. ASSUME NEW h \in Hosts, profileHost[h] # NoContext, viewHosts[h] < MaxViews,
               AddView(h), profileHost' = profileHost
        PROVE  Count'
    <2>1. Counts([d_numWebViews EXCEPT ![profileHost[h]] = @ + 1], profileHost,
                 [viewHosts EXCEPT ![h] = @ + 1])
      BY <1>00, <1>3, CountAdded
    <2> QED
      BY <1>3, <2>1 DEF Count, AddView
  <1>4. ASSUME NEW h \in Hosts, profileHost[h] # NoContext, viewHosts[h] > 0,
               RemoveView(h), profileHost' = profileHost
        PROVE  Count'
    <2>1. Counts([d_numWebViews EXCEPT ![profileHost[h]] = @ - 1], profileHost,
                 [viewHosts EXCEPT ![h] = @ - 1])
      BY <1>00, <1>4, CountRemoved
    <2> QED
      BY <1>4, <2>1 DEF Count, RemoveView
  <1>5. ASSUME NEW h \in Hosts, MessageStep(h) PROVE Count'
    <2>1. CASE OnProfileNew(h)
      <3>1. /\ Handle(h, "ProfileNew")
            /\ profileHost' = [profileHost EXCEPT ![h] = Head(pipe[h])[2]]
            /\ UNCHANGED <<d_numWebViews, viewHosts>>
        BY <2>1 DEF OnProfileNew, ObtainContext
      <3>2. viewHosts[h] = 0 /\ Head(pipe[h])[2] \in Profiles
        BY <1>0, <3>1, ProfileNewHandled DEF Profiles
      <3> QED
        BY <1>2, <3>1, <3>2
    <2>2. CASE OnProfileDestroy(h)
      <3>1. /\ Handle(h, "ProfileDestroy")
            /\ profileHost' = [profileHost EXCEPT ![h] = NoContext]
            /\ UNCHANGED <<d_numWebViews, viewHosts>>
        BY <2>2 DEF OnProfileDestroy, contextVars
      <3>2. viewHosts[h] = 0 /\ NoContext \in Profiles
        BY <1>0, <3>1, ProfileDestroyHandled DEF Profiles
      <3> QED
        BY <1>2, <3>1, <3>2
    <2>3. CASE OnWebViewNew(h)
      <3>1. Handle(h, "WebViewNew") /\ AddView(h) /\ profileHost' = profileHost
        BY <2>3 DEF OnWebViewNew
      <3>2. profileHost[h] # NoContext /\ viewHosts[h] < MaxViews
        BY <1>0, <3>1, WebViewNewHandled
      <3> QED
        BY <1>3, <3>1, <3>2
    <2>4. CASE OnWebViewDestroy(h)
      <3>1. Handle(h, "WebViewDestroy") /\ RemoveView(h) /\ profileHost' = profileHost
        BY <2>4 DEF OnWebViewDestroy
      <3>2. profileHost[h] # NoContext /\ viewHosts[h] > 0
        BY <1>0, <3>1, WebViewDestroyHandled
      <3> QED
        BY <1>4, <3>1, <3>2
    <2>5. CASE OnSync(h) \/ OnChannelError(h)
      BY <1>1, <2>5 DEF OnSync, OnChannelError, contextVars
    <2> QED
      BY <1>5, <2>1, <2>2, <2>3, <2>4, <2>5 DEF MessageStep
  <1>6. CASE OriginalStep
    <2>0. viewHosts[Local] > 0 => profileHost[Local] # NoContext
      BY <1>0, LocalIsHost DEF Served
    <2>1. ASSUME NEW c \in Contexts, OriginalCreateProfile(c) PROVE Count'
      <3>1. /\ profileHost[Local] = NoContext
            /\ profileHost' = [profileHost EXCEPT ![Local] = c]
            /\ UNCHANGED <<d_numWebViews, viewHosts>>
        BY <2>1 DEF OriginalCreateProfile, ObtainContext
      <3>2. viewHosts[Local] = 0 /\ c \in Profiles
        BY <1>00, <2>0, <3>1, LocalIsHost, BoundAssumption DEF ViewMaps, Profiles
      <3> QED
        BY <1>2, <3>1, <3>2, LocalIsHost
    <2>2. CASE OriginalDestroyProfile
      <3>1. /\ profileHost' = [profileHost EXCEPT ![Local] = NoContext]
            /\ UNCHANGED <<d_numWebViews, viewHosts>>
            /\ viewHosts[Local] = 0 /\ NoContext \in Profiles
        BY <2>2 DEF OriginalDestroyProfile, contextVars, Profiles
      <3> QED
        BY <1>2, <3>1, LocalIsHost
    <2>3. ASSUME NEW b \in BOOLEAN, OriginalCreateWebView(b) PROVE Count'
      <3>1. /\ AddView(Local) /\ profileHost' = profileHost
            /\ profileHost[Local] # NoContext /\ viewHosts[Local] < MaxViews
        BY <2>3 DEF OriginalCreateWebView
      <3> QED
        BY <1>3, <3>1, LocalIsHost
    <2>4. CASE OriginalDestroyWebView
      <3>1. /\ RemoveView(Local) /\ profileHost' = profileHost /\ viewHosts[Local] > 0
        BY <2>4 DEF OriginalDestroyWebView
      <3> QED
        BY <1>4, <2>0, <3>1, LocalIsHost
    <2>5. CASE OriginalShutdown
      <3>1. DeleteHosts(ManagedHosts, tasks)
        BY <2>5 DEF OriginalShutdown
      <3>2. ManagedHosts \in SUBSET Hosts /\ tasks \in Seq(Tasks)
        BY <1>0, LocalIsHost DEF ManagedHosts, Typed
      <3> QED
        BY <1>0, <3>1, <3>2, HostsDeleted
    <2> QED
      BY <1>6, <2>1, <2>2, <2>3, <2>4, <2>5 DEF OriginalStep
  <1>7. CASE DestroyHost
    <2>1. PICK kind : Runs(kind)
      BY <1>7 DEF DestroyHost
    <2>2. /\ DeleteHosts({Head(tasks)[2]}, Tail(tasks))
          /\ {Head(tasks)[2]} \in SUBSET Hosts /\ Tail(tasks) \in Seq(Tasks)
      BY <1>0, <1>7, <2>1, TaskRun DEF DestroyHost
    <2> QED
      BY <1>0, <2>2, HostsDeleted
  <1>8. CASE DestroyProcessHostManager
    <2>1. Runs("destroyManager") /\ DeleteHosts(ManagedHosts, Tail(tasks))
      BY <1>8 DEF DestroyProcessHostManager
    <2>2. ManagedHosts \in SUBSET Hosts /\ Tail(tasks) \in Seq(Tasks)
      BY <1>0, <2>1, TaskRun, LocalIsHost DEF ManagedHosts
    <2> QED
      BY <1>0, <2>1, <2>2, HostsDeleted
  <1>9. ASSUME NEW g \in Remotes, RemoteConnects(g) \/ WatchErases(g) \/ WatchPosts(g)
        PROVE  Count'
    BY <1>1, <1>9 DEF RemoteConnects, WatchErases, WatchPosts, contextVars
  <1>10. CASE CreateInProcessHost
    BY <1>1, <1>10 DEF CreateInProcessHost, contextVars
  <1>11. CASE Still
    BY <1>1, <1>11 DEF Still
  <1> QED
    BY <1>5, <1>6, <1>7, <1>8, <1>9, <1>10, <1>11, StepsOfHosts DEF HostStep

-----------------------------------------------------------------------------
(* The queue of browser-main and the phases of the application.            *)

\* The part of the invariant about the queue and the phases.
Shutdown ==
  Ordered(tasks) /\ TaskHosts /\ Announced /\ Phases /\ Gone /\ LateContexts

\* A remote client has died.
SomeDied == \E h \in Remotes : client[h] = "died"

\* A process that has died stays dead.
LEMMA DiedStays == Inv /\ [Next]_vars /\ SomeDied => SomeDied'
  <1> SUFFICES ASSUME Inv, [Next]_vars, NEW h \in Remotes, client[h] = "died"
               PROVE  client'[h] = "died"
    BY DEF SomeDied
  <1>0. client \in [Hosts -> {"none", "running", "finalSync", "closed", "died"}]
    BY DEF Inv, Typed
  <1>1. ASSUME NEW g \in Hosts, Talks(g) PROVE client'[h] = "died"
    <2>1. CASE UNCHANGED client
      BY <2>1
    <2>2. CASE SendFinalSync(g) \/ CloseChannel(g) \/ RemoteDies(g)
      BY <1>0, <2>2, LocalIsHost DEF SendFinalSync, CloseChannel, RemoteDies
    <2>3. MessageStep(g) => UNCHANGED client
      BY DEF MessageStep, OnProfileNew, OnProfileDestroy, OnWebViewNew,
             OnWebViewDestroy, OnSync, OnChannelError, Handle
    <2>4. /\ \A c \in Contexts : CreateProfile(g, c) => UNCHANGED client
          /\ \A b \in BOOLEAN : CreateWebView(g, b) => UNCHANGED client
          /\ DestroyProfile(g) \/ DestroyWebView(g) => UNCHANGED client
      BY DEF CreateProfile, CreateWebView, DestroyProfile, DestroyWebView
    <2> QED
      BY <1>1, <2>1, <2>2, <2>3, <2>4 DEF Talks
  <1>2. ASSUME NEW g \in Remotes, RemoteConnects(g) PROVE client'[h] = "died"
    BY <1>0, <1>2, LocalIsHost DEF RemoteConnects
  <1>3. CASE CreateProcessClient
    BY <1>0, <1>3, LocalIsHost DEF CreateProcessClient
  <1>4. CASE Silent
    BY <1>4 DEF Silent
  <1> QED
    BY <1>1, <1>2, <1>3, <1>4, StepsOfClients

\* Steps that are none of the application's, and of none of its tasks.
LEMMA ShutdownSame ==
  ASSUME Typed, Shutdown, SomeDied => SomeDied',
         UNCHANGED <<mode, app, signalled, browser, manager, tasks, context>>,
         host'[Local] = host[Local], client'[Local] = client[Local],
         mode = "ORIGINAL" /\ manager = "gone" => viewHosts'[Local] = viewHosts[Local],
         \A h \in Remotes : host[h] # "none" => host'[h] # "none",
         manager = "gone" => \A h \in Remotes : host'[h] = host[h]
  PROVE  Shutdown'
  <1>0. tasks \in Seq(Tasks) /\ Fit(tasks, host)
    BY DEF Shutdown, TaskHosts, Typed
  <1>1. Fit(tasks, host')
    BY <1>0, FitTasks
  <1>2. Ordered(tasks)' /\ TaskHosts'
    BY <1>1 DEF Shutdown, TaskHosts
  <1>3. \A k : Posted(k)' <=> Posted(k)
    BY DEF Posted
  <1>4. Announced' /\ Phases' /\ Gone'
    BY <1>3 DEF Shutdown, Announced, Phases, Gone, Starting
  <1>5. LateContexts'
    BY <1>3 DEF Shutdown, LateContexts, SomeDied
  <1> QED
    BY <1>2, <1>4, <1>5 DEF Shutdown

\* Clients and the process watcher keep it.
LEMMA ShutdownOfClients ==
  ASSUME Inv, [Next]_vars, NEW h \in Hosts,
         \/ \E c \in Contexts : CreateProfile(h, c)
         \/ \E b \in BOOLEAN : CreateWebView(h, b)
         \/ DestroyProfile(h) \/ DestroyWebView(h)
         \/ h \in Remotes /\ (RemoteShutsDown(h) \/ RemoteCloses(h) \/ RemoteDies(h))
         \/ h \in Remotes /\ (RemoteConnects(h) \/ WatchErases(h))
  PROVE  Shutdown'
  <1>0. Typed /\ Shutdown /\ (SomeDied => SomeDied') /\ mode' = mode
    BY DiedStays, ModeKept DEF Inv, Shutdown
  <1>1. /\ client \in [Hosts -> {"none", "running", "finalSync", "closed", "died"}]
        /\ host \in [Hosts -> {"none", "live", "held", "posted", "deleted"}]
    BY <1>0 DEF Typed
  <1>2. ASSUME UNCHANGED <<app, signalled, browser, manager, tasks, context, host,
                           viewHosts>>,
               client'[Local] = client[Local]
        PROVE  Shutdown'
    BY <1>0, <1>2, ShutdownSame
  <1>3. CASE \E c \in Contexts : CreateProfile(h, c)
    BY <1>2, <1>3 DEF CreateProfile, hostVars, contextVars
  <1>4. CASE \E b \in BOOLEAN : CreateWebView(h, b)
    BY <1>2, <1>4 DEF CreateWebView, hostVars, contextVars
  <1>5. CASE DestroyProfile(h) \/ DestroyWebView(h)
    BY <1>2, <1>5 DEF DestroyProfile, DestroyWebView, hostVars, contextVars
  <1>6. CASE h \in Remotes /\ RemoteShutsDown(h)
    BY <1>1, <1>2, <1>6, LocalIsHost DEF RemoteShutsDown, SendFinalSync, hostVars, contextVars
  <1>7. CASE h \in Remotes /\ RemoteCloses(h)
    BY <1>1, <1>2, <1>7, LocalIsHost DEF RemoteCloses, CloseChannel, hostVars, contextVars
  <1>8. CASE h \in Remotes /\ RemoteDies(h)
    BY <1>1, <1>2, <1>8, LocalIsHost DEF RemoteDies, hostVars, contextVars
  <1>9. CASE h \in Remotes /\ (RemoteConnects(h) \/ WatchErases(h))
    <2>1. /\ UNCHANGED <<app, signalled, browser, manager, tasks, context, viewHosts>>
          /\ client'[Local] = client[Local] /\ host'[Local] = host[Local]
          /\ \A g \in Remotes : host[g] # "none" => host'[g] # "none"
      BY <1>1, <1>9, LocalIsHost DEF RemoteConnects, WatchErases, clientVars, contextVars
    <2>2. manager # "gone"
      BY <1>0, <1>9 DEF RemoteConnects, WatchErases, Shutdown, Gone
    <2> QED
      BY <1>0, <2>1, <2>2, ShutdownSame
  <1> QED
    BY <1>3, <1>4, <1>5, <1>6, <1>7, <1>8, <1>9

\* The handlers of a host keep it: a profile created after the manager is gone
\* is one of a client that died.
LEMMA ShutdownOfMessages ==
  ASSUME Inv, [Next]_vars, NEW h \in Hosts, MessageStep(h)
  PROVE  Shutdown'
  <1>0. Typed /\ Shutdown /\ (SomeDied => SomeDied') /\ mode' = mode /\ Served(h)
        /\ Channel(h) /\ Phases /\ Gone
    BY DiedStays, ModeKept DEF Inv, Shutdown
  <1>1. PICK type : Handle(h, type)
    BY DEF MessageStep, OnProfileNew, OnProfileDestroy, OnWebViewNew,
           OnWebViewDestroy, OnSync, OnChannelError
  <1>2. /\ UNCHANGED <<app, signalled, browser, manager, tasks, host, client>>
        /\ host[h] \in {"live", "held", "posted"}
    BY <1>1 DEF Handle
  <1>3. mode = "ORIGINAL" => h # Local
    BY <1>0, <1>2 DEF Phases
  <1>4. mode = "ORIGINAL" => viewHosts'[Local] = viewHosts[Local]
    <2>1. \/ UNCHANGED viewHosts
          \/ viewHosts' = [viewHosts EXCEPT ![h] = @ + 1]
          \/ viewHosts' = [viewHosts EXCEPT ![h] = @ - 1]
      BY DEF MessageStep, OnProfileNew, OnProfileDestroy, OnWebViewNew, AddView,
             OnWebViewDestroy, RemoveView, OnSync, OnChannelError
    <2> QED
      BY <1>0, <1>3, <2>1, LocalIsHost DEF Typed
  <1>5. CASE UNCHANGED context
    BY <1>0, <1>2, <1>4, <1>5, ShutdownSame
  <1>6. CASE OnProfileNew(h)
    <2>1. /\ Handle(h, "ProfileNew")
          /\ context' = [context EXCEPT ![Head(pipe[h])[2]] =
                           IF @ = "none" THEN "live" ELSE @]
      BY <1>6 DEF OnProfileNew, ObtainContext
    <2>2. /\ \A c \in Contexts : context'[c] \in {"destroyed", "deleted"} =>
                                   context[c] = context'[c]
      BY <1>0, <2>1 DEF Typed
    <2>3. manager = "gone" => SomeDied
      <3> SUFFICES ASSUME manager = "gone" PROVE SomeDied
        OBVIOUS
      <3>1. h \in Remotes
        BY <1>0, <1>2, <1>3 DEF Gone, Hosts, Typed
      <3>2. host[h] = "posted"
        BY <1>0, <1>2, <3>1 DEF Gone
      <3>3. client[h] \in {"closed", "died"}
        BY <1>0, <3>1, <3>2 DEF Served
      <3>4. client[h] # "closed"
        <4>1. Head(pipe[h])[1] = "ProfileNew" /\ pipe[h] # <<>> /\ pipe[h] \in Seq(Messages)
          BY <1>0, <2>1 DEF Handle, Typed
        <4>2. InTurn(pipe[h], client[h], replied[h])
          BY <1>0 DEF Channel
        <4>4. Head(pipe[h]) = pipe[h][1] /\ 1 \in 1 .. Len(pipe[h])
          BY <4>1
        <4>3. ~replied[h]
          BY <4>1, <4>2, <4>4 DEF InTurn
        <4> QED
          BY <1>0, <4>3 DEF Channel
      <3> QED
        BY <3>1, <3>3, <3>4 DEF SomeDied
    <2>4. \A k : Posted(k)' <=> Posted(k)
      BY <1>2 DEF Posted
    <2>5. Ordered(tasks)' /\ TaskHosts'
      BY <1>0, <1>2 DEF Shutdown, TaskHosts
    <2>6. Announced' /\ Phases' /\ Gone'
      BY <1>0, <1>2, <1>4, <2>4 DEF Shutdown, Announced, Phases, Gone, Starting
    <2>7. LateContexts'
      BY <1>0, <1>2, <2>2, <2>3 DEF Shutdown, LateContexts, SomeDied
    <2> QED
      BY <2>5, <2>6, <2>7 DEF Shutdown
  <1>7. OnProfileNew(h) \/ UNCHANGED context
    BY DEF MessageStep, OnProfileDestroy, OnWebViewNew, OnWebViewDestroy, OnSync,
           OnChannelError, contextVars
  <1> QED
    BY <1>5, <1>6, <1>7

\* A task has been taken: what it leaves of those of the application.
Taken(kind) ==
  /\ Posted(kind)
  /\ \A k \in Ranked :
       /\ Posted(k)' => Posted(k)
       /\ Posted(k) /\ k # kind => Posted(k)'
       /\ kind \in Ranked /\ Posted(k)' => Rank(kind) < Rank(k)

\* Taking a task, with or without the destructors of hosts, keeps the order.
LEMMA TaskTaken ==
  ASSUME Typed, Shutdown, NEW kind, Runs(kind)
  PROVE  /\ tasks' = Tail(tasks) /\ (\A h \in Remotes : host[h] # "none" => host'[h] # "none")
              => Ordered(tasks)' /\ TaskHosts' /\ Taken(kind)
         /\ \A S \in SUBSET Hosts :
              DeleteHosts(S, Tail(tasks)) => Ordered(tasks)' /\ TaskHosts' /\ Taken(kind)
  <1>1. /\ tasks # <<>> /\ tasks \in Seq(Tasks) /\ Tail(tasks) \in Seq(Tasks)
        /\ Head(tasks)[1] = kind
    BY TaskRun
  <1>2. /\ Ordered(tasks) /\ Fit(tasks, host)
    BY DEF Shutdown, TaskHosts
  <1>3. /\ Ordered(Tail(tasks)) /\ Posted(kind)
        /\ \A k : /\ Has(Tail(tasks), k) => Posted(k)
                  /\ Posted(k) /\ kind # k => Has(Tail(tasks), k)
        /\ \A k \in Ranked : Has(Tail(tasks), k) /\ kind \in Ranked => Rank(kind) < Rank(k)
    BY <1>1, <1>2, TakingATask DEF Posted
  <1>4. Fit(Tail(tasks), host)
    BY <1>1, <1>2, FitTasks
  <1>5. ASSUME tasks' = Tail(tasks), \A h \in Remotes : host[h] # "none" => host'[h] # "none"
        PROVE  Ordered(tasks)' /\ TaskHosts' /\ Taken(kind)
    <2>1. Fit(Tail(tasks), host')
      BY ZenonT(40), <1>1, <1>4, <1>5, FitTasks
    <2>2. \A k \in Ranked : Posted(k)' <=> Has(Tail(tasks), k)
      BY <1>5 DEF Posted
    <2> QED
      BY <1>3, <1>5, <2>1, <2>2 DEF TaskHosts, Taken
  <1>6. ASSUME NEW S \in SUBSET Hosts, DeleteHosts(S, Tail(tasks))
        PROVE  Ordered(tasks)' /\ TaskHosts' /\ Taken(kind)
    <2>1. /\ Ordered(tasks') /\ Fit(tasks', host')
          /\ \A k \in Ranked : Has(tasks', k) <=> Has(Tail(tasks), k)
      BY <1>1, <1>3, <1>4, <1>6, HostsDeleted
    <2>2. \A k \in Ranked : Posted(k)' <=> Has(Tail(tasks), k)
      BY <2>1 DEF Posted
    <2> QED
      BY <1>3, <2>1, <2>2 DEF TaskHosts, Taken
  <1> QED
    BY <1>5, <1>6

\* Each task runs in its phase and leaves what the next one needs.
LEMMA ShutdownOfTasks ==
  ASSUME Inv, [Next]_vars, TaskStep
  PROVE  Shutdown'
  <1>0. /\ Typed /\ Shutdown /\ (SomeDied => SomeDied') /\ mode' = mode
        /\ Announced /\ Phases /\ Gone /\ LateContexts
    BY DiedStays, ModeKept DEF Inv, Shutdown
  <1>00. /\ host \in [Hosts -> {"none", "live", "held", "posted", "deleted"}]
         /\ context \in [Contexts -> {"none", "live", "destroyed", "deleted"}]
         /\ mode \in {"RENDERER_MAIN", "ORIGINAL"}
    BY <1>0 DEF Typed
  <1> USE DEF Ranked, Rank
  <1>1. CASE CreateInProcessHost
    <2>1. /\ Runs("createHost") /\ tasks' = Tail(tasks)
          /\ host' = [host EXCEPT ![Local] = "live"]
          /\ UNCHANGED <<signalled, viewHosts, browser, manager, context>>
      BY <1>1 DEF CreateInProcessHost, contextVars
    <2>2. UNCHANGED <<mode, app, client>>
      BY <1>0, <2>1, TaskRun
    <2>3. \A h \in Remotes : host'[h] = host[h]
      BY <1>00, <2>1, LocalIsHost
    <2>4. Ordered(tasks)' /\ TaskHosts' /\ Taken("createHost")
      BY <1>0, <2>1, <2>3, TaskTaken
    <2>5. app = "startingHost" /\ manager # "gone" /\ mode = "RENDERER_MAIN"
      BY <1>0, <1>00, <2>4 DEF Announced, Gone, Taken, Phases
    <2>6. Announced'
      BY <1>0, <2>1, <2>2, <2>4 DEF Announced, Taken
    <2>7. Phases' /\ Gone'
      BY <1>0, <1>00, <2>1, <2>2, <2>5, LocalIsHost DEF Phases, Starting, Gone
    <2>8. LateContexts'
      BY <1>0, <2>1, <2>5 DEF LateContexts
    <2> QED
      BY <2>4, <2>6, <2>7, <2>8 DEF Shutdown
  <1>2. CASE Signal
    <2>1. /\ Runs("signal") /\ tasks' = Tail(tasks) /\ signalled' = TRUE
          /\ UNCHANGED <<host, viewHosts, browser, manager, context>>
      BY <1>2 DEF Signal, hostVars, contextVars
    <2>2. UNCHANGED <<mode, app, client>>
      BY <1>0, <2>1, TaskRun
    <2>4. Ordered(tasks)' /\ TaskHosts' /\ Taken("signal")
      BY <1>0, <2>1, TaskTaken
    <2>5. ~Posted("createHost")' /\ ~Posted("destroyHost")' /\ ~Posted("destroyManager")'
          /\ ~Posted("destroyContexts")' /\ ~Posted("signal")'
      BY <2>4 DEF Taken
    <2>6. Announced'
      BY <1>0, <2>2, <2>4, <2>5 DEF Announced, Taken
    <2>7. Phases' /\ Gone'
      BY <1>0, <2>1, <2>2, <2>4 DEF Phases, Starting, Gone, Taken
    <2>8. LateContexts'
      BY <1>0, <2>1, <2>2, <2>4 DEF LateContexts, Taken
    <2> QED
      BY <2>4, <2>6, <2>7, <2>8 DEF Shutdown
  <1>3. CASE DestroyHost
    <2>1. PICK kind \in {"destroyHost", "deleteHost"} : Runs(kind)
      BY <1>3 DEF DestroyHost
    <2>2. /\ {Head(tasks)[2]} \in SUBSET Hosts /\ Tail(tasks) \in Seq(Tasks)
          /\ UNCHANGED <<mode, app, client>>
          /\ tasks \in Seq(Tasks) /\ tasks # <<>> /\ Head(tasks)[1] = kind
      BY <1>0, <2>1, TaskRun
    <2>3. /\ DeleteHosts({Head(tasks)[2]}, Tail(tasks))
          /\ UNCHANGED <<signalled, browser, manager, context>>
      BY <1>3 DEF DestroyHost
    <2>4. Ordered(tasks)' /\ TaskHosts' /\ Taken(kind)
      BY <1>0, <2>1, <2>2, <2>3, TaskTaken
    <2>5. /\ kind = "deleteHost" => Head(tasks)[2] # Local
          /\ kind = "destroyHost" => Head(tasks)[2] = Local
      BY <1>0, <2>2, FitTasks, LocalIsHost DEF Shutdown, TaskHosts
    <2>6. \A h \in Hosts : /\ host'[h] = IF h = Head(tasks)[2] THEN "deleted" ELSE host[h]
                           /\ viewHosts'[h] = IF h = Head(tasks)[2] THEN 0 ELSE viewHosts[h]
      BY ZenonT(40), <1>0, <2>2, <2>3, HostsDeleted
    <2>7. Announced'
      BY <1>0, <2>1, <2>2, <2>3, <2>4 DEF Announced, Taken
    <2>8. kind = "destroyHost" => app = "destroying" /\ mode = "RENDERER_MAIN"
      BY <1>0, <1>00, <2>4 DEF Announced, Taken, Phases
    <2>9. /\ host'[Local] = IF kind = "destroyHost" THEN "deleted" ELSE host[Local]
          /\ viewHosts'[Local] = IF kind = "destroyHost" THEN 0 ELSE viewHosts[Local]
      BY <2>1, <2>5, <2>6, LocalIsHost
    <2>10. Phases'
      BY <1>0, <1>00, <2>1, <2>2, <2>3, <2>4, <2>8, <2>9 DEF Phases, Starting, Taken
    <2>11. Gone'
      <3>1. \A h \in Remotes : host[h] \notin {"live", "held"} => host'[h] \notin {"live", "held"}
        BY <2>6, LocalIsHost
      <3> QED
        BY <1>0, <2>2, <2>3, <2>9, <3>1 DEF Gone
    <2>12. LateContexts'
      BY <1>0, <2>1, <2>2, <2>3, <2>4 DEF LateContexts, Taken
    <2> QED
      BY <2>4, <2>7, <2>10, <2>11, <2>12 DEF Shutdown
  <1>4. CASE DestroyProcessHostManager
    <2>1. /\ Runs("destroyManager") /\ DeleteHosts(ManagedHosts, Tail(tasks))
          /\ WatchHasPosted /\ manager' = "gone"
          /\ UNCHANGED <<signalled, browser, context>>
      BY <1>4 DEF DestroyProcessHostManager
    <2>2. /\ ManagedHosts \in SUBSET Hosts /\ Tail(tasks) \in Seq(Tasks)
          /\ UNCHANGED <<mode, app, client>>
      BY <1>0, <2>1, TaskRun, LocalIsHost DEF ManagedHosts
    <2>3. Ordered(tasks)' /\ TaskHosts' /\ Taken("destroyManager")
      BY <1>0, <2>1, <2>2, TaskTaken
    <2>4. \A h \in Hosts :
            /\ host'[h] = IF h \in ManagedHosts THEN "deleted" ELSE host[h]
            /\ viewHosts'[h] = IF h \in ManagedHosts THEN 0 ELSE viewHosts[h]
      BY <1>0, <2>1, <2>2, HostsDeleted
    <2>5. host'[Local] = host[Local] /\ viewHosts'[Local] = viewHosts[Local]
      BY <2>4, LocalIsHost DEF ManagedHosts
    <2>6. \A h \in Remotes : host'[h] \notin {"live", "held"}
      BY <2>1, <2>4, LocalIsHost DEF ManagedHosts, WatchHasPosted
    <2>7. ~Posted("createHost")' /\ ~Posted("destroyHost")' /\ ~Posted("destroyManager")'
      BY <2>3 DEF Taken
    <2>8. /\ Posted("destroyContexts") /\ Posted("destroyContexts")'
          /\ app = "destroying" /\ mode = "RENDERER_MAIN"
      BY <1>0, <1>00, <2>3 DEF Announced, Taken, Phases
    <2>9. Announced'
      BY <1>0, <2>1, <2>2, <2>3, <2>7 DEF Announced, Taken
    <2>10. host[Local] = "deleted"
      <3>1. ~Posted("destroyHost")
        BY <2>3, <2>7 DEF Taken
      <3> QED
        BY <1>0, <2>8, <3>1 DEF Phases
    <2>11. Phases'
      BY <1>0, <1>00, <2>1, <2>2, <2>5, <2>8, <2>10 DEF Phases, Starting
    <2>12. Gone'
      BY <2>2, <2>5, <2>6, <2>8, <2>10 DEF Gone
    <2>13. LateContexts'
      BY <1>0, <2>1, <2>8 DEF LateContexts
    <2> QED
      BY <2>3, <2>9, <2>11, <2>12, <2>13 DEF Shutdown
  <1>5. CASE DestroyBrowserContexts
    <2>1. /\ Runs("destroyContexts") /\ tasks' = Tail(tasks)
          /\ MoveContexts("live", "destroyed")
          /\ UNCHANGED <<signalled, host, viewHosts, browser, manager>>
      BY <1>5 DEF DestroyBrowserContexts, hostVars
    <2>2. UNCHANGED <<mode, app, client>>
      BY <1>0, <2>1, TaskRun
    <2>3. Ordered(tasks)' /\ TaskHosts' /\ Taken("destroyContexts")
      BY <1>0, <2>1, TaskTaken
    <2>4. /\ ~Posted("createHost")' /\ ~Posted("destroyHost")'
          /\ ~Posted("destroyManager")' /\ ~Posted("destroyContexts")'
          /\ ~Posted("destroyManager")
      BY <2>3 DEF Taken
    <2>5. app = "destroying" /\ manager = "gone"
      BY <1>0, <2>3, <2>4 DEF Announced, Taken, Phases
    <2>6. Announced'
      BY <1>0, <2>1, <2>2, <2>3, <2>4 DEF Announced, Taken
    <2>7. Phases' /\ Gone'
      BY <1>0, <2>1, <2>2, <2>3, <2>5 DEF Phases, Starting, Gone, Taken
    <2>8. LateContexts'
      BY <1>0, <1>00, <2>1, <2>5 DEF LateContexts, MoveContexts
    <2> QED
      BY <2>3, <2>6, <2>7, <2>8 DEF Shutdown
  <1>6. CASE DeleteRenderHost
    <2>1. /\ Runs("deleteRenderHost") /\ tasks' = Tail(tasks)
          /\ UNCHANGED <<signalled, host, viewHosts, browser, manager, context>>
      BY <1>6 DEF DeleteRenderHost, contextVars
    <2>2. UNCHANGED <<mode, app, client>>
      BY <1>0, <2>1, TaskRun
    <2>3. Ordered(tasks)' /\ TaskHosts' /\ Taken("deleteRenderHost")
      BY <1>0, <2>1, TaskTaken
    <2>4. \A k \in Ranked : Posted(k)' <=> Posted(k)
      BY <2>3 DEF Taken
    <2>5. Announced' /\ Phases' /\ Gone'
      BY <1>0, <2>1, <2>2, <2>4 DEF Announced, Phases, Starting, Gone
    <2>6. LateContexts'
      BY <1>0, <2>1, <2>2, <2>4 DEF LateContexts
    <2> QED
      BY <2>3, <2>5, <2>6 DEF Shutdown
  <1>7. CASE QuitWhenIdle
    <2>1. /\ Runs("quit") /\ tasks' = Tail(tasks) /\ browser' = "quitting"
          /\ UNCHANGED <<signalled, host, viewHosts, manager, context>>
      BY <1>7 DEF QuitWhenIdle, hostVars, contextVars
    <2>2. UNCHANGED <<mode, app, client>>
      BY <1>0, <2>1, TaskRun
    <2>3. Ordered(tasks)' /\ TaskHosts' /\ Taken("quit")
      BY <1>0, <2>1, TaskTaken
    <2>4. app = "joining" /\ \A k \in Ranked : ~Posted(k)'
      BY <1>0, <2>3 DEF Announced, Taken
    <2>5. Announced'
      BY <2>4 DEF Announced
    <2>6. Phases' /\ Gone'
      BY <1>0, <2>1, <2>2, <2>4 DEF Phases, Starting, Gone
    <2>7. ~Posted("destroyContexts")
      BY <2>3, <2>4 DEF Taken
    <2>8. LateContexts'
      BY <1>0, <2>1, <2>2, <2>7 DEF LateContexts
    <2> QED
      BY <2>3, <2>5, <2>6, <2>8 DEF Shutdown
  <1> QED
    BY <1>1, <1>2, <1>3, <1>4, <1>5, <1>6, <1>7 DEF TaskStep

\* The order of the tasks that are posted together.
LEMMA PostedInOrder ==
  /\ Ordered(StartTasks) /\ Ordered(StopTasks)
  /\ \A of : Fit(StartTasks, of) /\ Fit(StopTasks, of)
  /\ \A k : /\ Has(StartTasks, k) <=> k \in {"createHost", "signal"}
            /\ Has(StopTasks, k) <=>
                 k \in {"destroyHost", "destroyManager", "destroyContexts", "signal"}
  <1>1. /\ Len(StartTasks) = 2 /\ StartTasks[1] = <<"createHost", Local>>
        /\ StartTasks[2] = <<"signal", Local>>
    BY DEF StartTasks, Plain, Task
  <1>2. /\ Len(StopTasks) = 4 /\ StopTasks[1] = <<"destroyHost", Local>>
        /\ StopTasks[2] = <<"destroyManager", Local>>
        /\ StopTasks[3] = <<"destroyContexts", Local>>
        /\ StopTasks[4] = <<"signal", Local>>
    BY DEF StopTasks, Plain, Task
  <1>3. 1 .. 2 = {1, 2} /\ 1 .. 4 = {1, 2, 3, 4}
    OBVIOUS
  <1>4. Ordered(StartTasks) /\ \A of : Fit(StartTasks, of)
    BY <1>1, <1>3 DEF Ordered, Fit, Rank
  <1>5. Ordered(StopTasks) /\ \A of : Fit(StopTasks, of)
    BY <1>2, <1>3 DEF Ordered, Fit, Rank
  <1>6. \A k : Has(StartTasks, k) <=> k \in {"createHost", "signal"}
    BY <1>1, <1>3 DEF Has
  <1>7. \A k : Has(StopTasks, k) <=>
                 k \in {"destroyHost", "destroyManager", "destroyContexts", "signal"}
    BY <1>2, <1>3 DEF Has
  <1> QED
    BY <1>4, <1>5, <1>6, <1>7

\* A single task at the end of the queue.
LEMMA OneMoreTask ==
  ASSUME NEW q \in Seq(Tasks), NEW t \in Tasks
  PROVE  /\ Append(q, t) = q \o <<t>> /\ <<t>> \in Seq(Tasks)
         /\ \A k : Has(<<t>>, k) <=> k = t[1]
         /\ Ordered(<<t>>)
         /\ \A of : (t[1] = "deleteHost" => t[2] \in Remotes /\ of[t[2]] # "none")
                      /\ (t[1] = "destroyHost" => t[2] = Local) => Fit(<<t>>, of)
  <1>1. /\ Append(q, t) = q \o <<t>> /\ <<t>> \in Seq(Tasks)
        /\ Len(<<t>>) = 1 /\ <<t>>[1] = t
    OBVIOUS
  <1>2. 1 .. 1 = {1}
    OBVIOUS
  <1> QED
    BY <1>1, <1>2 DEF Has, Ordered, Fit

\* The watcher posts the deletion of a host that exists.
LEMMA ShutdownOfWatch ==
  ASSUME Inv, [Next]_vars, NEW h \in Remotes, WatchPosts(h)
  PROVE  Shutdown'
  <1>0. /\ Typed /\ Shutdown /\ (SomeDied => SomeDied') /\ mode' = mode
        /\ Announced /\ Phases /\ Gone /\ LateContexts
    BY DiedStays, ModeKept DEF Inv, Shutdown
  <1>1. /\ host[h] = "held" /\ host' = [host EXCEPT ![h] = "posted"]
        /\ tasks' = Append(tasks, Task("deleteHost", h))
        /\ UNCHANGED <<app, signalled, client, viewHosts, browser, manager, context>>
    BY DEF WatchPosts, clientVars, contextVars
  <1> DEFINE t == Task("deleteHost", h)
  <1>2. t \in Tasks /\ t[1] = "deleteHost" /\ t[2] = h /\ tasks \in Seq(Tasks)
    BY <1>0, LocalIsHost DEF Task, Tasks, TaskKinds, Typed
  <1>3. /\ host'[h] = "posted" /\ host'[Local] = host[Local]
        /\ \A g \in Remotes : host[g] # "none" => host'[g] # "none"
    BY <1>0, <1>1, LocalIsHost DEF Typed
  <1>4. manager # "gone"
    BY <1>0, <1>1 DEF Gone
  <1> HIDE DEF t
  <1>5. /\ tasks' = tasks \o <<t>> /\ <<t>> \in Seq(Tasks) /\ Unranked(<<t>>)
        /\ Fit(<<t>>, host') /\ \A k \in Ranked : ~Has(<<t>>, k)
    <2>1. tasks' = Append(tasks, t)
      BY <1>1 DEF t
    <2> QED
      BY <2>1, <1>2, <1>3, OneMoreTask DEF Unranked, Ranked
  <1>6. Ordered(tasks)' /\ \A k \in Ranked : Posted(k)' <=> Posted(k)
    BY <1>0, <1>2, <1>5, AddingTasks DEF Shutdown, Posted
  <1>7. Fit(tasks, host')
    <2>1. Fit(tasks, host)
      BY <1>0 DEF Shutdown, TaskHosts
    <2> QED
      BY <2>1, <1>2, <1>3, FitTasks
  <1>8. Fit(tasks \o <<t>>, host')
    BY <1>2, <1>5, <1>7, FitTasks
  <1>9. TaskHosts'
    BY <1>5, <1>8 DEF TaskHosts
  <1>10. Announced' /\ Phases' /\ Gone'
    BY <1>0, <1>1, <1>3, <1>4, <1>6 DEF Announced, Phases, Starting, Gone, Ranked
  <1>11. LateContexts'
    BY <1>0, <1>1, <1>4 DEF LateContexts
  <1> QED
    BY <1>6, <1>9, <1>10, <1>11 DEF Shutdown

\* ToolkitImpl posts its tasks in order, and waits before it goes on.
LEMMA ShutdownOfApp ==
  ASSUME Inv, [Next]_vars,
         \/ StartBrowserThread \/ InitRendererAndHost \/ CreateProcessClient
         \/ ShutdownThreads \/ PostDestructions \/ CleanupAndQuit
         \/ JoinBrowserThread \/ LoopStep \/ RendererStep
  PROVE  Shutdown'
  <1>0. /\ Typed /\ Shutdown /\ (SomeDied => SomeDied') /\ mode' = mode
        /\ Announced /\ Phases /\ Gone /\ LateContexts
    BY DiedStays, ModeKept DEF Inv, Shutdown
  <1>00. /\ host \in [Hosts -> {"none", "live", "held", "posted", "deleted"}]
         /\ client \in [Hosts -> {"none", "running", "finalSync", "closed", "died"}]
         /\ context \in [Contexts -> {"none", "live", "destroyed", "deleted"}]
         /\ mode \in {"RENDERER_MAIN", "ORIGINAL"} /\ tasks \in Seq(Tasks)
         /\ signalled \in BOOLEAN
    BY <1>0 DEF Typed
  <1>1. Ordered(tasks) /\ TaskHosts /\ Fit(tasks, host)
    BY <1>0 DEF Shutdown, TaskHosts
  <1>2. ASSUME tasks' = tasks, host' = host
        PROVE  Ordered(tasks)' /\ TaskHosts' /\ \A k : Posted(k)' <=> Posted(k)
    BY <1>1, <1>2 DEF TaskHosts, Posted
  <1>3. CASE StartBrowserThread
    <2>1. /\ app = "new" /\ app' = "starting" /\ browser' = "starting"
          /\ mode = "RENDERER_MAIN"
          /\ UNCHANGED <<signalled, client, host, viewHosts, tasks, manager, context>>
      BY <1>3 DEF StartBrowserThread, clientVars, hostVars, contextVars
    <2>2. \A k \in Ranked : ~Posted(k)
      BY <1>0, <2>1 DEF Announced, Ranked
    <2>3. \A k \in Ranked : ~Posted(k)'
      BY <1>2, <2>1, <2>2
    <2>4. manager # "gone"
      BY <1>0, <2>1 DEF Gone
    <2>5. Announced' /\ Phases' /\ Gone'
      BY <1>0, <2>1, <2>3, <2>4 DEF Announced, Phases, Starting, Gone, Ranked
    <2>6. LateContexts'
      BY <1>0, <2>1, <2>4 DEF LateContexts
    <2> QED
      BY <1>2, <2>1, <2>5, <2>6 DEF Shutdown
  <1>4. CASE InitRendererAndHost
    <2>1. /\ app = "starting" /\ browser = "running" /\ app' = "startingHost"
          /\ tasks' = tasks \o StartTasks /\ signalled' = FALSE
          /\ UNCHANGED <<client, host, viewHosts, browser, manager, context>>
      BY <1>4 DEF InitRendererAndHost, StartTasks, clientVars, hostVars, contextVars
    <2>2. Unranked(tasks)
      BY <1>0, <2>1 DEF Announced, Unranked, Posted, Ranked
    <2>3. /\ Ordered(tasks)'
          /\ \A k \in Ranked : Posted(k)' <=> k \in {"createHost", "signal"}
      BY <1>00, <2>1, <2>2, AddingTasks, PostedTasks, PostedInOrder DEF Unranked, Posted
    <2>4. Fit(tasks \o StartTasks, host)
      BY <1>00, <1>1, FitTasks, PostedTasks, PostedInOrder
    <2>5. TaskHosts'
      BY <2>1, <2>4 DEF TaskHosts
    <2>6. manager # "gone" /\ mode = "RENDERER_MAIN"
      BY <1>0, <1>00, <2>1 DEF Gone, Phases
    <2>7. Announced' /\ Phases' /\ Gone'
      BY <1>0, <2>1, <2>3, <2>6 DEF Announced, Phases, Starting, Gone, Ranked
    <2>8. LateContexts'
      BY <1>0, <2>1, <2>6 DEF LateContexts
    <2> QED
      BY <2>3, <2>5, <2>7, <2>8 DEF Shutdown
  <1>5. CASE CreateProcessClient
    <2>1. /\ app = "startingHost" /\ signalled /\ app' = "running"
          /\ UNCHANGED <<signalled, host, viewHosts, tasks, browser, manager, context>>
      BY <1>5 DEF CreateProcessClient, hostVars, contextVars
    <2>2. \A k \in Ranked : ~Posted(k)
      BY <1>0, <2>1 DEF Announced, Ranked
    <2>3. \A k \in Ranked : ~Posted(k)'
      BY <1>2, <2>1, <2>2
    <2>4. manager # "gone" /\ mode = "RENDERER_MAIN"
      BY <1>0, <1>00, <2>1 DEF Gone, Phases
    <2>5. Announced' /\ Phases' /\ Gone'
      BY <1>0, <2>1, <2>3, <2>4 DEF Announced, Phases, Starting, Gone, Ranked
    <2>6. LateContexts'
      BY <1>0, <2>1, <2>4 DEF LateContexts
    <2> QED
      BY <1>2, <2>1, <2>5, <2>6 DEF Shutdown
  <1>6. CASE ShutdownThreads
    <2>1. /\ app = "running" /\ app' = "finalSync" /\ client[Local] = "running"
          /\ UNCHANGED <<signalled, host, viewHosts, tasks, browser, manager, context>>
      BY <1>6 DEF ShutdownThreads, SendFinalSync, hostVars, contextVars
    <2>2. \A k \in Ranked : ~Posted(k)
      BY <1>0, <2>1 DEF Announced, Ranked
    <2>3. \A k \in Ranked : ~Posted(k)'
      BY <1>2, <2>1, <2>2
    <2>4. manager # "gone" /\ mode = "RENDERER_MAIN"
      BY <1>0, <1>00, <2>1 DEF Gone, Phases
    <2>5. Announced' /\ Phases' /\ Gone'
      BY <1>0, <2>1, <2>3, <2>4 DEF Announced, Phases, Starting, Gone, Ranked
    <2>6. LateContexts'
      BY <1>0, <2>1, <2>4 DEF LateContexts
    <2> QED
      BY <1>2, <2>1, <2>5, <2>6 DEF Shutdown
  <1>7. CASE PostDestructions
    <2>1. /\ app = "finalSync" /\ app' = "destroying"
          /\ tasks' = tasks \o StopTasks /\ signalled' = FALSE
          /\ UNCHANGED <<host, viewHosts, browser, manager, context>>
      BY <1>7 DEF PostDestructions, CloseChannel, StopTasks, hostVars, contextVars
    <2>2. Unranked(tasks)
      BY <1>0, <2>1 DEF Announced, Unranked, Posted, Ranked
    <2>3. /\ Ordered(tasks)'
          /\ \A k \in Ranked : Posted(k)' <=>
               k \in {"destroyHost", "destroyManager", "destroyContexts", "signal"}
      BY <1>00, <2>1, <2>2, AddingTasks, PostedTasks, PostedInOrder DEF Unranked, Posted
    <2>4. Fit(tasks \o StopTasks, host)
      BY <1>00, <1>1, FitTasks, PostedTasks, PostedInOrder
    <2>5. TaskHosts'
      BY <2>1, <2>4 DEF TaskHosts
    <2>6. manager # "gone" /\ mode = "RENDERER_MAIN"
      BY <1>0, <1>00, <2>1 DEF Gone, Phases
    <2>7. Announced' /\ Phases' /\ Gone'
      BY <1>0, <2>1, <2>3, <2>6 DEF Announced, Phases, Starting, Gone, Ranked
    <2>8. LateContexts'
      BY <1>0, <2>1, <2>6 DEF LateContexts
    <2> QED
      BY <2>3, <2>5, <2>7, <2>8 DEF Shutdown
  <1>8. CASE CleanupAndQuit
    <2> DEFINE t == Plain("quit")
    <2>1. /\ app = "destroying" /\ signalled /\ app' = "joining"
          /\ tasks' = Append(tasks, t)
          /\ UNCHANGED <<signalled, client, host, viewHosts, browser, manager, context>>
      BY <1>8 DEF CleanupAndQuit, clientVars, hostVars, contextVars
    <2>2. Unranked(tasks) /\ ~Posted("destroyContexts") /\ ~Posted("destroyManager")
      BY <1>0, <2>1 DEF Announced, Unranked, Posted, Ranked
    <2>3. t \in Tasks /\ t[1] = "quit"
      BY PostedTasks DEF Plain, Task
    <2> HIDE DEF t
    <2>4. /\ tasks' = tasks \o <<t>> /\ <<t>> \in Seq(Tasks) /\ Ordered(<<t>>)
          /\ Fit(<<t>>, host) /\ \A k : Has(<<t>>, k) <=> k = "quit"
      BY <1>00, <2>1, <2>3, OneMoreTask
    <2>5. /\ Ordered(tasks)' /\ \A k \in Ranked : Posted(k)' <=> k = "quit"
      BY <1>00, <2>2, <2>4, AddingTasks DEF Unranked, Posted
    <2>6. Fit(tasks \o <<t>>, host)
      BY <1>00, <1>1, <2>4, FitTasks
    <2>7. TaskHosts'
      BY <2>1, <2>4, <2>6 DEF TaskHosts
    <2>8. mode = "RENDERER_MAIN"
      BY <1>0, <1>00, <2>1 DEF Phases
    <2>9. Announced' /\ Phases' /\ Gone'
      BY <1>0, <2>1, <2>5, <2>8 DEF Announced, Phases, Starting, Gone, Ranked
    <2>10. LateContexts'
      BY <1>0, <2>1, <2>2 DEF LateContexts
    <2> QED
      BY <2>5, <2>7, <2>9, <2>10 DEF Shutdown
  <1>9. CASE JoinBrowserThread
    <2>1. /\ app = "joining" /\ browser = "ended" /\ app' = "stopped"
          /\ UNCHANGED <<signalled, client, host, viewHosts, tasks, browser, manager, context>>
      BY <1>9 DEF JoinBrowserThread, clientVars, hostVars, contextVars
    <2>2. \A k \in Ranked : ~Posted(k)
      BY <1>0, <2>1 DEF Announced, Ranked
    <2>3. \A k \in Ranked : ~Posted(k)'
      BY <1>2, <2>1, <2>2
    <2>4. mode = "RENDERER_MAIN"
      BY <1>0, <1>00, <2>1 DEF Phases
    <2>5. Announced' /\ Phases' /\ Gone'
      BY <1>0, <2>1, <2>3, <2>4 DEF Announced, Phases, Starting, Gone, Ranked
    <2>6. LateContexts'
      BY <1>0, <2>1, <2>2 DEF LateContexts, Ranked
    <2> QED
      BY <1>2, <2>1, <2>5, <2>6 DEF Shutdown
  <1>10. CASE BrowserThreadMain
    <2>1. /\ browser = "starting" /\ browser' = "running" /\ manager' = "live"
          /\ UNCHANGED <<app, signalled, client, host, viewHosts, tasks, context>>
      BY <1>10 DEF BrowserThreadMain, clientVars, hostVars, contextVars
    <2>2. app = "starting"
      BY <1>0, <2>1 DEF Phases
    <2>3. \A k \in Ranked : ~Posted(k)
      BY <1>0, <2>2 DEF Announced, Ranked
    <2>4. \A k \in Ranked : ~Posted(k)'
      BY <1>2, <2>1, <2>3
    <2>5. manager # "gone"
      BY <1>0, <2>2 DEF Gone
    <2>6. Announced' /\ Phases' /\ Gone'
      BY <1>0, <2>1, <2>2, <2>4 DEF Announced, Phases, Starting, Gone, Ranked
    <2>7. LateContexts'
      BY <1>0, <2>1, <2>5 DEF LateContexts
    <2> QED
      BY <1>2, <2>1, <2>6, <2>7 DEF Shutdown
  <1>11. CASE BrowserMainEnds
    <2>1. /\ browser = "quitting" /\ browser' = "ended"
          /\ MoveContexts("destroyed", "deleted")
          /\ UNCHANGED <<app, signalled, client, host, viewHosts, tasks, manager>>
      BY <1>11 DEF BrowserMainEnds, clientVars, hostVars
    <2>2. Announced' /\ Phases' /\ Gone'
      BY <1>0, <1>2, <2>1 DEF Announced, Phases, Starting, Gone
    <2>3. \A c \in Contexts : /\ context'[c] \in {"destroyed", "deleted"} =>
                                   context[c] \in {"destroyed", "deleted"}
                              /\ context'[c] = "live" => context[c] = "live"
      BY <1>00, <2>1 DEF MoveContexts
    <2>4. LateContexts'
      BY <1>0, <1>2, <2>1, <2>3 DEF LateContexts
    <2> QED
      BY <1>2, <2>1, <2>2, <2>4 DEF Shutdown
  <1>12. CASE RendererStep
    <2>1. UNCHANGED <<app, signalled, client, host, viewHosts, tasks, manager, browser,
                      context>>
      BY <1>12 DEF RendererStep, RendererThreadInit, RendererThreadCleanUp, clientVars,
                   hostVars, contextVars
    <2> QED
      BY <1>0, <2>1, ShutdownSame
  <1> QED
    BY <1>3, <1>4, <1>5, <1>6, <1>7, <1>8, <1>9, <1>10, <1>11, <1>12 DEF LoopStep

\* In ORIGINAL mode the destructors run on the main thread itself.
LEMMA ShutdownOfOriginal ==
  ASSUME Inv, [Next]_vars,
         \/ OriginalStep \/ StartOriginal \/ setChannelNameTooEarly
         \/ OriginalDrained \/ OriginalStop
  PROVE  Shutdown'
  <1>0. /\ Typed /\ Shutdown /\ (SomeDied => SomeDied') /\ mode' = mode
        /\ Announced /\ Phases /\ Gone /\ LateContexts
    BY DiedStays, ModeKept DEF Inv, Shutdown
  <1>00. /\ host \in [Hosts -> {"none", "live", "held", "posted", "deleted"}]
         /\ context \in [Contexts -> {"none", "live", "destroyed", "deleted"}]
         /\ mode \in {"RENDERER_MAIN", "ORIGINAL"} /\ tasks \in Seq(Tasks)
    BY <1>0 DEF Typed
  <1>1. mode = "ORIGINAL" \/ app \in {"draining", "originalCleanup"}
    BY DEF OriginalStep, OriginalCreateProfile, OriginalDestroyProfile,
           OriginalCreateWebView, OriginalDestroyWebView, OriginalCall,
           OriginalShutdown, StartOriginal, setChannelNameTooEarly,
           OriginalDrained, OriginalStop
  <1>2. mode = "ORIGINAL"
    BY <1>0, <1>00, <1>1 DEF Phases
  <1>3. \A k \in Ranked : ~Posted(k)
    BY <1>0, <1>2 DEF Announced, Phases, Ranked
  <1>4. Ordered(tasks) /\ TaskHosts /\ Fit(tasks, host)
    BY <1>0 DEF Shutdown, TaskHosts
  <1>5. ASSUME tasks' = tasks, host' = host
        PROVE  Ordered(tasks)' /\ TaskHosts' /\ \A k \in Ranked : ~Posted(k)'
    BY <1>3, <1>4, <1>5 DEF TaskHosts, Posted
  <1>6. CASE StartOriginal
    <2>1. /\ app = "new" /\ app' = "running" /\ browser' = "running" /\ manager' = "live"
          /\ UNCHANGED <<signalled, client, host, viewHosts, tasks, context>>
      BY <1>6 DEF StartOriginal, clientVars, hostVars, contextVars
    <2>2. manager # "gone"
      BY <1>0, <2>1 DEF Gone
    <2>3. Announced' /\ Phases' /\ Gone'
      BY <1>0, <1>2, <1>5, <2>1 DEF Announced, Phases, Starting, Gone, Ranked
    <2>4. LateContexts'
      BY <1>0, <2>1, <2>2 DEF LateContexts
    <2> QED
      BY <1>5, <2>1, <2>3, <2>4 DEF Shutdown
  <1>7. CASE OriginalStep /\ ~OriginalShutdown
    <2>1. /\ app = "running"
          /\ UNCHANGED <<app, signalled, client, host, tasks, browser, manager>>
      BY <1>7 DEF OriginalStep, OriginalCreateProfile, OriginalDestroyProfile,
           OriginalCreateWebView, OriginalDestroyWebView, OriginalCall, clientVars
    <2>2. manager # "gone"
      BY <1>0, <2>1 DEF Gone
    <2>3. Announced' /\ Phases' /\ Gone'
      BY <1>0, <1>2, <1>5, <2>1, <2>2 DEF Announced, Phases, Starting, Gone, Ranked
    <2>4. ASSUME NEW c \in Contexts, context'[c] \in {"destroyed", "deleted"}
          PROVE  context[c] \in {"destroyed", "deleted"}
      <3>1. CASE UNCHANGED context
        BY <2>4, <3>1
      <3>2. CASE \E d \in Contexts : OriginalCreateProfile(d)
        BY <1>00, <2>4, <3>2 DEF OriginalCreateProfile, ObtainContext
      <3> QED
        BY <1>7, <3>1, <3>2 DEF OriginalStep, OriginalDestroyProfile,
           OriginalCreateWebView, OriginalDestroyWebView, contextVars
    <2>5. LateContexts'
      BY <1>0, <2>1, <2>2, <2>4 DEF LateContexts
    <2> QED
      BY <1>5, <2>1, <2>3, <2>5 DEF Shutdown
  <1>8. CASE OriginalShutdown
    <2>1. /\ app' = "draining" /\ manager' = "gone" /\ viewHosts[Local] = 0
          /\ app = "running" /\ WatchHasPosted
          /\ DeleteHosts(ManagedHosts, tasks)
          /\ MoveContexts("live", "destroyed")
          /\ UNCHANGED <<signalled, client, browser>>
      BY <1>8 DEF OriginalShutdown, clientVars
    <2>2. ManagedHosts \in SUBSET Hosts
      BY LocalIsHost DEF ManagedHosts
    <2>3. /\ Ordered(tasks') /\ Fit(tasks', host')
          /\ \A k \in Ranked : Has(tasks', k) <=> Has(tasks, k)
          /\ \A h \in Hosts :
               /\ host'[h] = IF h \in ManagedHosts THEN "deleted" ELSE host[h]
               /\ viewHosts'[h] = IF h \in ManagedHosts THEN 0 ELSE viewHosts[h]
      BY <1>0, <1>00, <1>4, <2>1, <2>2, HostsDeleted
    <2>4. Ordered(tasks)' /\ TaskHosts' /\ \A k \in Ranked : ~Posted(k)'
      BY <1>3, <2>3 DEF TaskHosts, Posted
    <2>5. host'[Local] = host[Local] /\ viewHosts'[Local] = viewHosts[Local]
      BY <2>3, LocalIsHost DEF ManagedHosts
    <2>6. \A h \in Remotes : host'[h] \notin {"live", "held"}
      BY <2>1, <2>3, LocalIsHost DEF ManagedHosts, WatchHasPosted
    <2>7. Announced' /\ Phases' /\ Gone'
      BY <1>0, <1>2, <2>1, <2>4, <2>5, <2>6 DEF Announced, Phases, Starting, Gone, Ranked
    <2>8. LateContexts'
      BY <1>00, <2>1 DEF LateContexts, MoveContexts
    <2> QED
      BY <2>4, <2>7, <2>8 DEF Shutdown
  <1>9. CASE setChannelNameTooEarly
    <2>1. /\ app = "running" /\ app' = "crashed" /\ browser' = "ended"
          /\ UNCHANGED <<signalled, client, host, viewHosts, tasks, manager, context>>
      BY <1>9 DEF setChannelNameTooEarly, clientVars, hostVars, contextVars
    <2>2. manager # "gone"
      BY <1>0, <2>1 DEF Gone
    <2>3. Announced' /\ Phases' /\ Gone'
      BY <1>0, <1>2, <1>5, <2>1, <2>2 DEF Announced, Phases, Starting, Gone, Ranked
    <2>4. LateContexts'
      BY <1>0, <2>1, <2>2 DEF LateContexts
    <2> QED
      BY <1>5, <2>1, <2>3, <2>4 DEF Shutdown
  <1>10. CASE OriginalDrained
    <2>1. /\ app = "draining" /\ app' = "originalCleanup"
          /\ UNCHANGED <<signalled, client, host, viewHosts, tasks, manager, browser,
                         context>>
      BY <1>10 DEF OriginalDrained, clientVars, hostVars, contextVars
    <2>2. Announced' /\ Phases' /\ Gone'
      BY <1>0, <1>2, <1>5, <2>1 DEF Announced, Phases, Starting, Gone, Ranked
    <2>3. LateContexts'
      BY <1>0, <1>3, <2>1 DEF LateContexts, Ranked
    <2> QED
      BY <1>5, <2>1, <2>2, <2>3 DEF Shutdown
  <1>11. CASE OriginalStop
    <2>1. /\ app = "originalCleanup" /\ app' = "stopped" /\ browser' = "ended"
          /\ MoveContexts("destroyed", "deleted")
          /\ UNCHANGED <<signalled, client, host, viewHosts, tasks, manager>>
      BY <1>11 DEF OriginalStop, clientVars
    <2>2. Announced' /\ Phases' /\ Gone'
      BY <1>0, <1>2, <1>5, <2>1 DEF Announced, Phases, Starting, Gone, Ranked
    <2>3. \A c \in Contexts : /\ context'[c] \in {"destroyed", "deleted"} =>
                                   context[c] \in {"destroyed", "deleted"}
                              /\ context'[c] = "live" => context[c] = "live"
      BY <1>00, <2>1 DEF MoveContexts
    <2>4. LateContexts'
      BY <1>0, <1>3, <2>1, <2>3 DEF LateContexts, Ranked
    <2> QED
      BY <1>5, <2>1, <2>2, <2>4 DEF Shutdown
  <1> QED
    BY <1>6, <1>7, <1>8, <1>9, <1>10, <1>11 DEF OriginalStep

\* Every step keeps the queue and the phases.
LEMMA ShutdownKept == Inv /\ [Next]_vars => Shutdown'
  <1> SUFFICES ASSUME Inv, [Next]_vars PROVE Shutdown'
    OBVIOUS
  <1>1. CASE UNCHANGED vars
    <2>1. Typed /\ Shutdown /\ (SomeDied => SomeDied')
      BY DiedStays DEF Inv, Shutdown
    <2>2. UNCHANGED <<mode, app, signalled, browser, manager, tasks, context, host,
                      client, viewHosts>>
      BY <1>1 DEF vars, clientVars, hostVars, contextVars
    <2> QED
      BY <2>1, <2>2, ShutdownSame
  <1>2. CASE Next
    <2>1. ASSUME NEW h \in Hosts,
                 \/ \E c \in Contexts : CreateProfile(h, c)
                 \/ \E inProcess \in BOOLEAN : CreateWebView(h, inProcess)
                 \/ DestroyProfile(h) \/ DestroyWebView(h)
          PROVE  Shutdown'
      BY <2>1, ShutdownOfClients
    <2>2. ASSUME NEW h \in Remotes,
                 \/ RemoteConnects(h) \/ RemoteShutsDown(h) \/ RemoteCloses(h)
                 \/ RemoteDies(h) \/ WatchErases(h) \/ WatchPosts(h)
          PROVE  Shutdown'
      BY <2>2, LocalIsHost, ShutdownOfClients, ShutdownOfWatch
    <2>3. ASSUME NEW h \in Hosts, MessageStep(h) PROVE Shutdown'
      BY <2>3, ShutdownOfMessages
    <2>4. TaskStep => Shutdown'
      BY ShutdownOfTasks
    <2>5. StartBrowserThread \/ InitRendererAndHost \/ CreateProcessClient
            \/ ShutdownThreads \/ LoopStep \/ RendererStep => Shutdown'
      BY ShutdownOfApp
    <2>6. AppStep => Shutdown'
      BY ShutdownOfApp, ShutdownOfOriginal DEF AppStep
    <2>7. StartOriginal \/ setChannelNameTooEarly \/ OriginalStep => Shutdown'
      BY ShutdownOfOriginal
    <2> QED
      BY <1>2, <2>1, <2>2, <2>3, <2>4, <2>5, <2>6, <2>7 DEF Next, OriginalStep
  <1> QED
    BY <1>1, <1>2

-----------------------------------------------------------------------------
(* The theorems.                                                           *)

\* Every step keeps the invariant.
LEMMA InvKept == Inv /\ [Next]_vars => Inv'
  <1> SUFFICES ASSUME Inv, [Next]_vars PROVE Inv'
    OBVIOUS
  <1>1. Typed' /\ Count' /\ Shutdown'
    BY TypedKept, CountsKept, ShutdownKept
  <1>2. \A h \in Hosts : Channel(h)' /\ Served(h)'
    BY ChannelsKept, ServedKept
  <1> QED
    BY <1>1, <1>2 DEF Inv, Shutdown

\* The invariant holds in every state of every behaviour: messages sent by
\* ProfileProxy and WebViewProxy lead each ProcessHostImpl to where its client
\* is, BrowserThread runs the tasks of ToolkitImpl in the order of its shutdown,
\* and each BrowserContextImpl counts the views of all hosts that share it.
THEOREM InvIsInvariant == Spec => []Inv
  BY InitInv, InvKept, PTL DEF Spec

\* The type invariant of the model is weaker than the one proved.
LEMMA TypeOKFollows == Inv => TypeOK
  <1> SUFFICES ASSUME Inv PROVE TypeOK
    OBVIOUS
  <1>1. Typed /\ Count
    BY DEF Inv
  <1>2. \A c \in Contexts : d_numWebViews[c] \in 0 .. MaxViews * Cardinality(Hosts)
    BY <1>1, ViewsAreFinite DEF Count, Counts
  <1>3. d_numWebViews \in [Contexts -> 0 .. MaxViews * Cardinality(Hosts)]
    BY <1>1, <1>2 DEF Typed
  <1> QED
    BY <1>1, <1>3 DEF Typed, TypeOK, Profiles, Tasks

\* ToolkitImpl, BrowserThread, ProcessClientImpl, ProcessHostImpl and
\* BrowserContextImpl keep every variable in its type, in both thread modes and
\* for any finite number of processes.
THEOREM TypeCorrect == Spec => []TypeOK
  BY InvIsInvariant, TypeOKFollows, PTL

\* An error is reported only of a client that died: part of Channel.
LEMMA ErrorsFollow == Inv => ChannelErrorMeansDeath
  BY DEF Inv, Channel, ChannelErrorMeansDeath

\* ProcessHostImpl::OnChannelError calls the channelErrorHandler of the
\* application only for a client that has died: one that has shut down had its
\* final Sync handled before its channel closed.
THEOREM ChannelErrorAlwaysMeansDeath == Spec => []ChannelErrorMeansDeath
  BY InvIsInvariant, ErrorsFollow, PTL

-----------------------------------------------------------------------------
(* The end of browser-main.                                                *)

\* The deletion of host h waits in queue q.
Waits(q, h) == \E i \in 1 .. Len(q) : q[i] = Task("deleteHost", h)

\* No host waits for its deletion.
NonePosted == \A h \in Remotes : host[h] # "posted"

\* ToolkitImpl is past the destruction of ProcessHostManager.
Closing == app \in {"joining", "draining", "originalCleanup", "stopped"}

\* The queue of browser-main was seen empty at the end of its loop.
Drained == app = "originalCleanup" \/ (browser = "ended" /\ app # "crashed")

\* What the watch thread has taken out of the manager's list is in the queue
\* until it is deleted; the manager, with its thread, goes before the loop is
\* told to end, and the loop ends when its queue is empty.
Ending ==
  /\ \A h \in Remotes : host[h] = "posted" => Waits(tasks, h)
  /\ Closing => manager = "gone"
  /\ Drained => NonePosted

\* A deletion waits until it is at the head of the queue.
LEMMA StillWaits ==
  ASSUME NEW q \in Seq(Tasks), NEW h, Waits(q, h)
  PROVE  /\ q # <<>>
         /\ Head(q) # Task("deleteHost", h) => Waits(Tail(q), h)
         /\ \A r \in Seq(Tasks) : Waits(q \o r, h)
  <1>1. PICK i \in 1 .. Len(q) : q[i] = Task("deleteHost", h)
    BY DEF Waits
  <1>2. q # <<>>
    BY <1>1
  <1>3. ASSUME Head(q) # Task("deleteHost", h) PROVE Waits(Tail(q), h)
    <2>1. Len(Tail(q)) = Len(q) - 1 /\ Head(q) = q[1] /\ Len(q) \in Nat
      BY <1>2
    <2>2. \A j \in 1 .. Len(Tail(q)) : Tail(q)[j] = q[j + 1]
      BY <1>2
    <2>3. i # 1
      BY <1>1, <1>3, <2>1
    <2>4. i - 1 \in 1 .. Len(Tail(q)) /\ (i - 1) + 1 = i
      BY <2>1, <2>3
    <2>5. Tail(q)[i - 1] = q[i]
      BY <2>2, <2>4
    <2> QED
      BY <1>1, <2>4, <2>5 DEF Waits
  <1>4. ASSUME NEW r \in Seq(Tasks) PROVE Waits(q \o r, h)
    <2>1. Len(q \o r) = Len(q) + Len(r) /\ Len(q) \in Nat /\ Len(r) \in Nat
      OBVIOUS
    <2>2. i \in 1 .. Len(q \o r) /\ (q \o r)[i] = q[i]
      BY <2>1
    <2> QED
      BY <1>1, <2>2 DEF Waits
  <1> QED
    BY <1>2, <1>3, <1>4

\* Steps that post and run nothing, and end the loop only when it is idle.
Quiet ==
  /\ tasks' = tasks
  /\ \A h \in Remotes : host'[h] = "posted" => host[h] = "posted"
  /\ Closing' => Closing /\ manager' = manager
  /\ Drained' => Drained \/ tasks = <<>>

\* The steps that post something or run it.
QueueStep ==
  \/ TaskStep \/ OriginalShutdown \/ InitRendererAndHost \/ PostDestructions
  \/ CleanupAndQuit
  \/ \E h \in Remotes : WatchPosts(h)

\* Every other step is quiet.
LEMMA StepsOfQueue ==
  ASSUME Inv, [Next]_vars
  PROVE  QueueStep \/ Quiet
  <1>0. /\ host \in [Hosts -> {"none", "live", "held", "posted", "deleted"}]
        /\ browser = "starting" => app = "starting"
    BY DEF Inv, Typed, Phases
  <1>1. UNCHANGED <<app, browser, manager, tasks, host>> => Quiet
    BY DEF Quiet, Closing, Drained
  <1>2. UNCHANGED vars => Quiet
    BY <1>1 DEF vars, hostVars
  <1>3. ASSUME NEW h \in Hosts
        PROVE  /\ \A c \in Contexts : CreateProfile(h, c) => Quiet
               /\ \A b \in BOOLEAN : CreateWebView(h, b) => Quiet
               /\ DestroyProfile(h) \/ DestroyWebView(h) => Quiet
    BY <1>1 DEF CreateProfile, CreateWebView, DestroyProfile, DestroyWebView, hostVars
  <1>4. ASSUME NEW h \in Hosts, MessageStep(h) PROVE Quiet
    <2>1. PICK type : Handle(h, type)
      BY <1>4 DEF MessageStep, OnProfileNew, OnProfileDestroy, OnWebViewNew,
                  OnWebViewDestroy, OnSync, OnChannelError
    <2> QED
      BY <1>1, <2>1 DEF Handle
  <1>5. ASSUME NEW h \in Remotes
        PROVE  /\ RemoteShutsDown(h) \/ RemoteCloses(h) \/ RemoteDies(h) => Quiet
               /\ RemoteConnects(h) \/ WatchErases(h) => Quiet
    <2>1. RemoteShutsDown(h) \/ RemoteCloses(h) \/ RemoteDies(h) => Quiet
      BY <1>1 DEF RemoteShutsDown, RemoteCloses, RemoteDies, SendFinalSync,
                  CloseChannel, hostVars
    <2>2. RemoteConnects(h) \/ WatchErases(h) => Quiet
      BY <1>0, LocalIsHost DEF RemoteConnects, WatchErases, Quiet, Closing, Drained
    <2> QED
      BY <2>1, <2>2
  <1>6. OriginalDestroyWebView \/ OriginalDestroyProfile => Quiet
    BY <1>1 DEF OriginalDestroyWebView, OriginalDestroyProfile, OriginalCall
  <1>7. /\ \A c \in Contexts : OriginalCreateProfile(c) => Quiet
        /\ \A b \in BOOLEAN : OriginalCreateWebView(b) => Quiet
    BY <1>1 DEF OriginalCreateProfile, OriginalCreateWebView, OriginalCall
  <1>8. StartBrowserThread \/ CreateProcessClient \/ ShutdownThreads => Quiet
    BY DEF StartBrowserThread, CreateProcessClient, ShutdownThreads, SendFinalSync,
           hostVars, Quiet, Closing, Drained
  <1>9. StartOriginal \/ setChannelNameTooEarly => Quiet
    BY DEF StartOriginal, setChannelNameTooEarly, hostVars, Quiet, Closing, Drained
  <1>10. JoinBrowserThread \/ OriginalDrained \/ OriginalStop => Quiet
    BY DEF JoinBrowserThread, OriginalDrained, OriginalStop, hostVars, Quiet,
           Closing, Drained
  <1>11. LoopStep => Quiet
    BY <1>0 DEF LoopStep, BrowserThreadMain, BrowserMainEnds, hostVars, Quiet,
           Closing, Drained
  <1>12. RendererStep => Quiet
    BY <1>1 DEF RendererStep, RendererThreadInit, RendererThreadCleanUp, hostVars
  <1> QED
    BY <1>2, <1>3, <1>4, <1>5, <1>6, <1>7, <1>8, <1>9, <1>10, <1>11, <1>12
       DEF Next, AppStep, QueueStep

\* The tasks of browser-main keep it: they run while the loop does, and the
\* deletion that is taken from the queue is carried out.
LEMMA EndingOfTasks ==
  ASSUME Inv, Ending, TaskStep
  PROVE  Ending'
  <1>0. Typed /\ TaskHosts /\ Phases
    BY DEF Inv
  <1>00. /\ host \in [Hosts -> {"none", "live", "held", "posted", "deleted"}]
         /\ mode \in {"RENDERER_MAIN", "ORIGINAL"}
    BY <1>0 DEF Typed
  <1>1. PICK kind : Runs(kind)
    BY DEF TaskStep, CreateInProcessHost, Signal, DestroyHost,
           DestroyProcessHostManager, DestroyBrowserContexts, DeleteRenderHost,
           QuitWhenIdle
  <1>2. /\ tasks # <<>> /\ tasks \in Seq(Tasks) /\ Tail(tasks) \in Seq(Tasks)
        /\ app' = app /\ Head(tasks)[2] \in Hosts
    BY <1>0, <1>1, TaskRun
  <1>3. BrowserRuns
    BY <1>1 DEF Runs
  <1>4. browser' = browser \/ browser' = "quitting"
    BY DEF TaskStep, CreateInProcessHost, Signal, DestroyHost,
           DestroyProcessHostManager, DestroyBrowserContexts, DeleteRenderHost,
           QuitWhenIdle
  <1>5. manager' = manager \/ manager' = "gone"
    BY DEF TaskStep, CreateInProcessHost, Signal, DestroyHost,
           DestroyProcessHostManager, DestroyBrowserContexts, DeleteRenderHost,
           QuitWhenIdle
  <1>6. ~Drained'
    BY <1>0, <1>00, <1>2, <1>3, <1>4 DEF BrowserRuns, Phases, Drained
  <1>7. Closing' => manager' = "gone"
    BY <1>2, <1>5 DEF Ending, Closing
  <1>8. ASSUME NEW h \in Remotes, host'[h] = "posted" PROVE Waits(tasks', h)
    <2>0. h \in Hosts
      BY LocalIsHost
    <2>1. ASSUME tasks' = Tail(tasks), host[h] = "posted", Head(tasks)[1] # "deleteHost"
          PROVE  Waits(tasks', h)
      <3>1. Waits(tasks, h)
        BY <2>1 DEF Ending
      <3>2. Head(tasks) # Task("deleteHost", h)
        BY <2>1 DEF Task
      <3> QED
        BY <1>2, <2>1, <3>1, <3>2, StillWaits
    <2>2. ASSUME NEW S \in SUBSET Hosts, DeleteHosts(S, Tail(tasks)),
                 Head(tasks)[1] = "deleteHost" => Head(tasks)[2] \in S
          PROVE  Waits(tasks', h)
      <3> DEFINE q == SetToSeq({Task("deleteRenderHost", g) :
                                g \in {f \in S : renderHost[f] = "live"}})
      <3>1. q \in Seq(Tasks)
        BY DeletionTasks
      <3>2. tasks' = Tail(tasks) \o q
        BY <2>2 DEF DeleteHosts
      <3> HIDE DEF q
      <3>3. h \notin S /\ host[h] = "posted"
        <4>1. host'[h] = IF h \in S THEN "deleted" ELSE host[h]
          BY <2>0, <2>2 DEF DeleteHosts
        <4> QED
          BY <4>1, <1>8
      <3>4. Waits(tasks, h)
        BY <3>3 DEF Ending
      <3>5. Head(tasks) # Task("deleteHost", h)
        BY <2>2, <3>3 DEF Task
      <3>6. Waits(Tail(tasks), h)
        BY <1>2, <3>4, <3>5, StillWaits
      <3> QED
        BY <1>2, <3>1, <3>2, <3>6, StillWaits
    <2>3. CASE CreateInProcessHost
      <3>1. tasks' = Tail(tasks) /\ Head(tasks)[1] # "deleteHost" /\ host[h] = "posted"
        BY <1>00, <1>8, <2>0, <2>3, LocalIsHost DEF CreateInProcessHost, Runs
      <3> QED
        BY <2>1, <3>1
    <2>4. CASE Signal \/ DestroyBrowserContexts \/ DeleteRenderHost \/ QuitWhenIdle
      <3>1. tasks' = Tail(tasks) /\ Head(tasks)[1] # "deleteHost" /\ host' = host
        BY <2>4 DEF Signal, DestroyBrowserContexts, DeleteRenderHost, QuitWhenIdle,
                    Runs, hostVars
      <3> QED
        BY <1>8, <2>1, <3>1
    <2>5. CASE DestroyHost
      BY <1>2, <2>2, <2>5 DEF DestroyHost
    <2>6. CASE DestroyProcessHostManager
      <3>1. ManagedHosts \in SUBSET Hosts
        BY LocalIsHost DEF ManagedHosts
      <3> QED
        BY <2>2, <2>6, <3>1 DEF DestroyProcessHostManager, Runs
    <2> QED
      BY <2>3, <2>4, <2>5, <2>6 DEF TaskStep
  <1> QED
    BY <1>6, <1>7, <1>8 DEF Ending

\* Every step keeps it.
LEMMA EndingKept == Inv /\ Ending /\ [Next]_vars => Ending'
  <1> SUFFICES ASSUME Inv, Ending, [Next]_vars PROVE Ending'
    OBVIOUS
  <1>0. Typed /\ Announced /\ Phases /\ Gone
    BY DEF Inv
  <1>00. /\ host \in [Hosts -> {"none", "live", "held", "posted", "deleted"}]
         /\ tasks \in Seq(Tasks) /\ tasks' \in Seq(Tasks)
         /\ mode \in {"RENDERER_MAIN", "ORIGINAL"}
    BY <1>0, TypedKept DEF Typed
  <1>1. ASSUME NEW r \in Seq(Tasks), tasks' = tasks \o r,
               NEW h \in Remotes, host[h] = "posted"
        PROVE  Waits(tasks', h)
    BY <1>00, <1>1, StillWaits DEF Ending
  <1>2. CASE Quiet
    <2>1. tasks = <<>> => NonePosted
      BY <1>00, StillWaits DEF Ending, NonePosted
    <2> QED
      BY <1>2, <2>1 DEF Quiet, Ending, NonePosted
  <1>3. CASE TaskStep
    BY <1>3, EndingOfTasks
  <1>4. CASE OriginalShutdown
    <2> DEFINE q == SetToSeq({Task("deleteRenderHost", g) :
                              g \in {f \in ManagedHosts : renderHost[f] = "live"}})
    <2>1. ManagedHosts \in SUBSET Hosts
      BY LocalIsHost DEF ManagedHosts
    <2>2. q \in Seq(Tasks)
      BY <2>1, DeletionTasks
    <2>3. DeleteHosts(ManagedHosts, tasks)
      BY <1>4 DEF OriginalShutdown
    <2>4. tasks' = tasks \o q
      BY <2>3 DEF DeleteHosts
    <2> HIDE DEF q
    <2>5. \A h \in Remotes : host'[h] = "posted" => host[h] = "posted"
      BY <2>3, LocalIsHost DEF DeleteHosts
    <2>6. manager' = "gone" /\ ~Drained'
      BY <1>0, <1>4 DEF OriginalShutdown, Phases, Drained
    <2> QED
      BY <1>1, <2>2, <2>4, <2>5, <2>6 DEF Ending
  <1>5. CASE InitRendererAndHost
    <2>1. tasks' = tasks \o StartTasks /\ host' = host /\ ~Closing' /\ ~Drained'
      BY <1>5 DEF InitRendererAndHost, StartTasks, hostVars, Closing, Drained
    <2> QED
      BY <1>1, <2>1, PostedTasks DEF Ending
  <1>6. CASE PostDestructions
    <2>1. tasks' = tasks \o StopTasks /\ host' = host /\ ~Closing' /\ ~Drained'
      BY <1>0, <1>6 DEF PostDestructions, CloseChannel, StopTasks, hostVars, Closing,
         Drained, Phases
    <2> QED
      BY <1>1, <2>1, PostedTasks DEF Ending
  <1>7. CASE CleanupAndQuit
    <2>1. manager = "gone"
      BY <1>0, <1>7 DEF CleanupAndQuit, Announced, Phases
    <2>2. /\ tasks' = Append(tasks, Plain("quit")) /\ host' = host /\ manager' = manager
          /\ ~Drained'
      BY <1>0, <1>7 DEF CleanupAndQuit, hostVars, Drained, Phases
    <2>3. tasks' = tasks \o <<Plain("quit")>> /\ <<Plain("quit")>> \in Seq(Tasks)
      BY <1>00, <2>2, PostedTasks
    <2> QED
      BY <1>1, <2>1, <2>2, <2>3 DEF Ending
  <1>8. ASSUME NEW g \in Remotes, WatchPosts(g) PROVE Ending'
    <2>1. /\ tasks' = Append(tasks, Task("deleteHost", g)) /\ host[g] = "held"
          /\ host' = [host EXCEPT ![g] = "posted"]
          /\ UNCHANGED <<app, browser, manager>>
      BY <1>8 DEF WatchPosts
    <2>2. Task("deleteHost", g) \in Tasks
      BY LocalIsHost DEF Task, Tasks, TaskKinds
    <2>3. /\ <<Task("deleteHost", g)>> \in Seq(Tasks)
          /\ tasks' = tasks \o <<Task("deleteHost", g)>>
          /\ Len(tasks') = Len(tasks) + 1 /\ Len(tasks) \in Nat
          /\ tasks'[Len(tasks) + 1] = Task("deleteHost", g)
      BY <1>00, <2>1, <2>2
    <2>4. Waits(tasks', g)
      BY <2>3 DEF Waits
    <2>5. \A h \in Remotes : host'[h] = "posted" => Waits(tasks', h)
      BY <1>00, <1>1, <2>1, <2>3, <2>4, LocalIsHost
    <2>6. ~Closing
      BY <1>0, <2>1 DEF Ending, Gone
    <2>7. ~Drained
      BY <1>0, <2>6 DEF Drained, Closing, Phases
    <2> QED
      BY <2>1, <2>5, <2>6, <2>7 DEF Ending, Closing, Drained
  <1> QED
    BY <1>2, <1>3, <1>4, <1>5, <1>6, <1>7, <1>8, StepsOfQueue DEF QueueStep

\* The end of browser-main, as an invariant.
THEOREM EndingIsInvariant == Spec => [](Inv /\ Ending)
  <1>1. Init => Ending
    <2> SUFFICES ASSUME Init PROVE Ending
      OBVIOUS
    <2>1. \A h \in Remotes : host[h] # "posted"
      BY LocalIsHost DEF Init
    <2> QED
      BY <2>1 DEF Init, Ending, Closing, Drained, NonePosted
  <1> QED
    BY <1>1, InitInv, InvKept, EndingKept, PTL DEF Spec

\* A host that was never connected, or is gone, has no views.
LEMMA ViewsGo ==
  ASSUME Inv, NEW h \in Remotes, host[h] \in {"none", "deleted"}
  PROVE  viewHosts[h] = 0
  <1>0. h \in Hosts /\ Typed /\ Channel(h) /\ Served(h)
    BY LocalIsHost DEF Inv
  <1>1. CASE host[h] = "deleted"
    BY <1>0, <1>1 DEF Served
  <1>2. CASE host[h] = "none"
    <2>1. client[h] = "none" /\ InUse(h)
      BY <1>0, <1>2 DEF Served, InUse
    <2>2. pipe[h] = <<>> /\ proxies[h] = 0
      BY <1>0, <2>1 DEF Channel
    <2>3. Leads(Before(h), <<>>, After(h))
      BY <1>0, <2>1, <2>2 DEF Served
    <2>4. Before(h) \in Snapshots
      BY <1>0 DEF Typed, Before, Snapshots
    <2>5. After(h) = Before(h)
      BY <2>3, <2>4, NothingLeads
    <2> QED
      BY <2>2, <2>5 DEF After, Before
  <1> QED
    BY <1>1, <1>2

\* At the end of browser-main the manager and its hosts are gone, the deletions
\* that were posted have been run, and so nothing is counted any more.
LEMMA NothingOutlivesFollows == Inv /\ Ending => NothingOutlivesItsContext
  <1> SUFFICES ASSUME Inv, Ending, browser = "ended", app # "crashed"
               PROVE  /\ \A c \in Contexts : d_numWebViews[c] = 0
                      /\ \A h \in Hosts : host[h] \in {"none", "deleted"}
    BY DEF NothingOutlivesItsContext
  <1>0. /\ Typed /\ Count /\ Phases /\ Gone /\ Served(Local)
        /\ mode \in {"RENDERER_MAIN", "ORIGINAL"}
    BY LocalIsHost DEF Inv, Typed
  <1>1. manager = "gone" /\ NonePosted
    BY <1>0 DEF Ending, Phases, Closing, Drained
  <1>2. ASSUME NEW h \in Remotes PROVE host[h] \in {"none", "deleted"}
    BY <1>0, <1>1, LocalIsHost DEF Gone, NonePosted, Typed
  <1>3. host[Local] \in {"none", "deleted"} /\ viewHosts[Local] = 0
    BY <1>0, <1>1 DEF Gone, Phases, Served
  <1>4. \A h \in Hosts : viewHosts[h] = 0
    BY <1>2, <1>3, ViewsGo DEF Hosts
  <1>5. ASSUME NEW c \in Contexts PROVE d_numWebViews[c] = 0
    <2>1. ViewsOf(profileHost, viewHosts, c, Hosts) = {}
      <3> SUFFICES ASSUME NEW v \in Hosts \X (1 .. MaxViews) PROVE ~(v[2] <= viewHosts[v[1]])
        BY DEF ViewsOf
      <3>1. v[1] \in Hosts /\ v[2] \in 1 .. MaxViews
        OBVIOUS
      <3>2. viewHosts[v[1]] = 0
        BY <1>4, <3>1
      <3> QED
        BY <3>1, <3>2, BoundAssumption
    <2> QED
      BY <1>0, <2>1, FS_EmptySet DEF Count, Counts
  <1> QED
    BY <1>2, <1>3, <1>5 DEF Hosts

\* Whatever the processes that share a context are doing when the toolkit shuts
\* down, and whenever the watch thread posts the deletion of a ProcessHostImpl,
\* ~BrowserMainRunner deletes the contexts only when no process host is left and
\* no view is counted.
THEOREM NothingEverOutlivesItsContext == Spec => []NothingOutlivesItsContext
  BY EndingIsInvariant, NothingOutlivesFollows, PTL

\* A host posted for deletion has views on context c.
Lingers(c) ==
  \E h \in Remotes : host[h] = "posted" /\ profileHost[h] = c /\ viewHosts[h] # 0

\* How far the order of the shutdown carries: what keeps ContextsAreIdle from
\* holding are processes that have ended, namely the views of a host that is
\* posted for deletion behind the destruction of the contexts, and the profiles
\* that such a host opens while it waits.
OnlyEndedProcessesLinger ==
  \A c \in Contexts :
    /\ context[c] \in {"destroyed", "deleted"} /\ d_numWebViews[c] # 0 => Lingers(c)
    /\ context[c] = "live" /\ manager = "gone" /\ browser = "ended" =>
         \E h \in Remotes : client[h] = "died"

\* A destroyed context counts the views of hosts that are posted for deletion
\* only: the manager is gone, and with it the other hosts.
LEMMA EndedProcessesFollow == Inv => OnlyEndedProcessesLinger
  <1> SUFFICES ASSUME Inv, NEW c \in Contexts
               PROVE  /\ context[c] \in {"destroyed", "deleted"} /\ d_numWebViews[c] # 0
                           => Lingers(c)
                      /\ context[c] = "live" /\ manager = "gone" /\ browser = "ended" =>
                           \E h \in Remotes : client[h] = "died"
    BY DEF OnlyEndedProcessesLinger
  <1>0. /\ Typed /\ Count /\ Phases /\ Gone /\ LateContexts /\ Announced
        /\ \A h \in Hosts : Channel(h) /\ Served(h)
    BY DEF Inv
  <1>1. ASSUME context[c] \in {"destroyed", "deleted"}, d_numWebViews[c] # 0
        PROVE  Lingers(c)
    <2>1. manager = "gone"
      BY <1>0, <1>1 DEF LateContexts
    <2>2. Cardinality(ViewsOf(profileHost, viewHosts, c, Hosts)) # 0
      BY <1>0, <1>1 DEF Count, Counts
    <2>3. ViewsOf(profileHost, viewHosts, c, Hosts) # {}
      BY <2>2, FS_EmptySet
    <2>4. PICK h \in Hosts : profileHost[h] = c /\ viewHosts[h] # 0
      <3>1. PICK v \in Hosts \X (1 .. MaxViews) :
                   profileHost[v[1]] = c /\ v[2] <= viewHosts[v[1]]
        BY <2>3 DEF ViewsOf
      <3>2. v[1] \in Hosts /\ v[2] \in 1 .. MaxViews /\ viewHosts[v[1]] \in 0 .. MaxViews
        BY <1>0, <3>1 DEF Typed
      <3> QED
        BY <3>1, <3>2, BoundAssumption
    <2>5. host[h] # "deleted"
      BY <1>0, <2>4 DEF Served
    <2>6. h \in Remotes
      BY <1>0, <2>1, <2>4, <2>5 DEF Gone, Hosts, Typed
    <2>7. host[h] # "none"
      BY <2>4, <2>6, ViewsGo
    <2>8. host[h] = "posted"
      BY <1>0, <2>1, <2>5, <2>6, <2>7 DEF Gone, Typed
    <2> QED
      BY <2>4, <2>6, <2>8 DEF Lingers
  <1>2. ASSUME context[c] = "live", manager = "gone", browser = "ended"
        PROVE  \E h \in Remotes : client[h] = "died"
    BY <1>0, <1>2 DEF LateContexts, Announced, Phases
  <1> QED
    BY <1>1, <1>2

\* BrowserContextImpl::reallyDestroy and ~BrowserContextImpl find views, or a
\* context made anew, only when another process has ended: its host is posted for
\* deletion by ProcessHostManager's thread, and in the second case it has died.
THEOREM OnlyEndedProcessesEverLinger == Spec => []OnlyEndedProcessesLinger
  BY InvIsInvariant, EndedProcessesFollow, PTL
=============================================================================
