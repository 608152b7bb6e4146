----------------------- MODULE KubernetesBackendProofs -----------------------
(***************************************************************************)
(* Proofs about KubernetesBackend.  What is proved of its two components   *)
(* holds of them here too, and the table of the one follows what the other *)
(* has sent.                                                               *)
(***************************************************************************)
EXTENDS KubernetesBackend, Integers, TLAPS

DiscoveryProofs == INSTANCE KubernetesServicesProofs
    WITH listening <- ListenerOpen

ManagerProofs == INSTANCE ServiceManagerProofs WITH
    Discoveries <- {Kubernetes},
    Ports <- PortNumbers,
    Protocols <- Discovery!Fields,
    Backends <- PortNumbers \X Discovery!Fields,
    Subscribers <- {},
    Inputs <- Discovery!EndpointEvents,
    PortBufferSize <- 1

-----------------------------------------------------------------------------
(* What LearnAll computes.                                                 *)

\* f gives what is known after each of the first n events.
IsAfter(f, n, t, events) ==
    f = [k \in 0..n |->
            IF k = 0 THEN t ELSE Discovery!Learn(f[k - 1], events[k])]

\* A set of naturals that is not empty has a smallest element.
LEMMA Smallest ==
    ASSUME NEW S \in SUBSET Nat, S # {}
    PROVE  \E k \in S : \A j \in S : k <= j
BY BackendAssumption, DiscoveryProofs!Smallest
   DEF Discovery!KubernetesAssumption, DiscoveryProofs!KubernetesAssumption,
       Discovery!Pods, DiscoveryProofs!Pods, Discovery!Fields,
       DiscoveryProofs!Fields

\* There is such a function.
LEMMA AfterExists ==
    ASSUME NEW t, NEW events, NEW n \in Nat
    PROVE  \E f : IsAfter(f, n, t, events)
<1> DEFINE bad == {m \in Nat : ~\E f : IsAfter(f, m, t, events)}
<1>1. bad \in SUBSET Nat
  OBVIOUS
<1>2. ASSUME bad # {} PROVE FALSE
  <2>1. PICK b \in bad : \A j \in bad : b <= j
    BY <1>1, <1>2, Smallest
  <2>2. b \in Nat /\ ~\E f : IsAfter(f, b, t, events)
    OBVIOUS
  <2>3. CASE b = 0
    <3> DEFINE f == [k \in 0..b |-> t]
    <3>1. IsAfter(f, b, t, events)
      BY <2>3 DEF IsAfter
    <3> QED
      BY <2>2, <3>1
  <2>4. CASE b # 0
    <3>1. b - 1 \in Nat /\ ~(b <= b - 1)
      BY <2>2, <2>4
    <3>2. b - 1 \notin bad
      BY <2>1, <3>1, Zenon
    <3>3. PICK g : IsAfter(g, b - 1, t, events)
      BY <3>1, <3>2
    <3> DEFINE f == [k \in 0..b |->
                        IF k = b THEN Discovery!Learn(g[b - 1], events[b])
                        ELSE g[k]]
    <3>4. \A k \in 0..(b - 1) : f[k] = g[k]
      BY <2>2, <3>1
    <3>5. \A k \in 0..(b - 1) : g[k] =
              IF k = 0 THEN t ELSE Discovery!Learn(g[k - 1], events[k])
      BY <3>3 DEF IsAfter
    <3>6. \A k \in 0..b : f[k] =
              IF k = 0 THEN t ELSE Discovery!Learn(f[k - 1], events[k])
      <4> SUFFICES ASSUME NEW k \in 0..b
                   PROVE  f[k] = IF k = 0 THEN t
                                 ELSE Discovery!Learn(f[k - 1], events[k])
        OBVIOUS
      <4>1. CASE k = b
        <5>1. f[k] = Discovery!Learn(g[b - 1], events[b])
          BY <4>1
        <5>2. f[b - 1] = g[b - 1]
          BY <3>1, <3>4
        <5> HIDE DEF f
        <5> QED
          BY <2>4, <4>1, <5>1, <5>2
      <4>2. CASE k # b /\ k # 0
        <5>1. k \in 0..(b - 1) /\ k - 1 \in 0..(b - 1)
          BY <2>2, <4>2
        <5> HIDE DEF f
        <5> QED
          BY <3>4, <3>5, <4>2, <5>1
      <4>3. CASE k # b /\ k = 0
        <5>1. k \in 0..(b - 1)
          BY <2>2, <4>3
        <5> HIDE DEF f
        <5> QED
          BY <3>4, <3>5, <4>3, <5>1
      <4> QED
        BY <4>1, <4>2, <4>3
    <3>7. f = [k \in 0..b |-> f[k]]
      OBVIOUS
    <3> HIDE DEF f
    <3>8. IsAfter(f, b, t, events)
      BY <3>6, <3>7 DEF IsAfter
    <3> QED
      BY <2>2, <3>8
  <2> QED
    BY <2>3, <2>4
<1> QED
  BY <1>2

\* LearnAll is its last value.
LEMMA LearnAllFacts ==
    ASSUME NEW t, NEW events, Len(events) \in Nat
    PROVE  \E f : /\ IsAfter(f, Len(events), t, events)
                  /\ LearnAll(t, events) = f[Len(events)]
<1>1. \E f : IsAfter(f, Len(events), t, events)
  BY AfterExists
<1> DEFINE f == CHOOSE f : f = [k \in 0..Len(events) |->
            IF k = 0 THEN t ELSE Discovery!Learn(f[k - 1], events[k])]
<1>2. f = [k \in 0..Len(events) |->
            IF k = 0 THEN t ELSE Discovery!Learn(f[k - 1], events[k])]
  BY <1>1, Zenon DEF IsAfter
<1>3. LearnAll(t, events) = f[Len(events)]
  BY Zenon DEF LearnAll
<1> HIDE DEF f
<1> QED
  BY <1>2, <1>3, Zenon DEF IsAfter

\* Two such functions agree as far as their events do.
LEMMA AfterAgrees ==
    ASSUME NEW t, NEW a, NEW b, NEW n \in Nat, NEW m \in Nat, m <= n,
           NEW f, NEW g, IsAfter(f, n, t, a), IsAfter(g, m, t, b),
           \A k \in 1..m : a[k] = b[k]
    PROVE  \A k \in 0..m : f[k] = g[k]
<1> DEFINE bad == {k \in 0..m : f[k] # g[k]}
<1>1. bad \in SUBSET Nat
  OBVIOUS
<1>2. /\ \A k \in 0..n : f[k] =
             IF k = 0 THEN t ELSE Discovery!Learn(f[k - 1], a[k])
      /\ \A k \in 0..m : g[k] =
             IF k = 0 THEN t ELSE Discovery!Learn(g[k - 1], b[k])
  BY DEF IsAfter
<1>3. ASSUME bad # {} PROVE FALSE
  <2>1. PICK k \in bad : \A j \in bad : k <= j
    BY <1>1, <1>3, Smallest
  <2>2. k \in 0..m /\ k \in 0..n /\ f[k] # g[k]
    OBVIOUS
  <2>3. k # 0
    BY <1>2, <2>2
  <2>4. k - 1 \in 0..m /\ ~(k <= k - 1) /\ k \in 1..m
    BY <2>2, <2>3
  <2>5. k - 1 \notin bad
    BY <2>1, <2>4, Zenon
  <2>6. f[k - 1] = g[k - 1]
    BY <2>4, <2>5
  <2>7. a[k] = b[k]
    BY <2>4
  <2> QED
    BY <1>2, <2>2, <2>3, <2>6, <2>7
<1> QED
  BY <1>3

\* No event changes nothing.
LEMMA LearnNothing ==
    ASSUME NEW t
    PROVE  LearnAll(t, <<>>) = t
<1>1. Len(<<>>) = 0
  OBVIOUS
<1>2. PICK f : IsAfter(f, 0, t, <<>>) /\ LearnAll(t, <<>>) = f[0]
  BY <1>1, LearnAllFacts
<1> QED
  BY <1>2 DEF IsAfter

\* The last of the events is the last to be learnt.
LEMMA LearnLast ==
    ASSUME NEW S, NEW t, NEW s \in Seq(S), NEW e \in S
    PROVE  LearnAll(t, Append(s, e)) = Discovery!Learn(LearnAll(t, s), e)
<1> DEFINE n == Len(s)
<1>1. PICK r : r = Append(s, e)
  OBVIOUS
<1>2. /\ n \in Nat /\ Len(r) = n + 1 /\ n + 1 \in Nat
      /\ r[n + 1] = e /\ \A k \in 1..n : r[k] = s[k]
  BY <1>1
<1>3. PICK f : IsAfter(f, n + 1, t, r) /\ LearnAll(t, r) = f[n + 1]
  BY <1>2, LearnAllFacts
<1>4. PICK g : IsAfter(g, n, t, s) /\ LearnAll(t, s) = g[n]
  BY <1>2, LearnAllFacts
<1> HIDE DEF n
<1>5. f[n] = g[n]
  <2>1. n <= n + 1 /\ n \in 0..n
    BY <1>2
  <2> QED
    BY <1>2, <1>3, <1>4, <2>1, AfterAgrees
<1>6. f[n + 1] = Discovery!Learn(f[n], e)
  <2>1. n + 1 \in 0..(n + 1) /\ n + 1 # 0 /\ (n + 1) - 1 = n
    BY <1>2
  <2>2. f[n + 1] = Discovery!Learn(f[(n + 1) - 1], r[n + 1])
    BY <1>3, <2>1 DEF IsAfter
  <2> QED
    BY <1>2, <2>1, <2>2
<1> QED
  BY <1>1, <1>3, <1>4, <1>5, <1>6

\* The first of the events is the first to be learnt.
LEMMA LearnFirst ==
    ASSUME NEW S, NEW t, NEW s \in Seq(S), NEW e \in S
    PROVE  LearnAll(t, <<e>> \o s) = LearnAll(Discovery!Learn(t, e), s)
<1> DEFINE n == Len(s)
<1>1. PICK r : r = <<e>> \o s
  OBVIOUS
<1>2. /\ n \in Nat /\ Len(r) = n + 1 /\ n + 1 \in Nat
      /\ r[1] = e /\ \A k \in 1..n : r[k + 1] = s[k]
  BY <1>1
<1>3. PICK u : u = Discovery!Learn(t, e)
  OBVIOUS
<1>4. PICK f : IsAfter(f, n + 1, t, r) /\ LearnAll(t, r) = f[n + 1]
  BY <1>2, LearnAllFacts
<1>5. PICK g : IsAfter(g, n, u, s) /\ LearnAll(u, s) = g[n]
  BY <1>2, LearnAllFacts
<1> HIDE DEF n
<1>6. /\ \A k \in 0..(n + 1) : f[k] =
             IF k = 0 THEN t ELSE Discovery!Learn(f[k - 1], r[k])
      /\ \A k \in 0..n : g[k] =
             IF k = 0 THEN u ELSE Discovery!Learn(g[k - 1], s[k])
  BY <1>4, <1>5 DEF IsAfter
<1> DEFINE bad == {k \in 0..n : f[k + 1] # g[k]}
<1>7. ASSUME bad # {} PROVE FALSE
  <2>1. bad \in SUBSET Nat
    BY <1>2
  <2>2. PICK k \in bad : \A j \in bad : k <= j
    BY <1>7, <2>1, Smallest
  <2>3. k \in 0..n /\ f[k + 1] # g[k] /\ k \in Nat
    BY <1>2
  <2>4. CASE k = 0
    <3>1. f[0] = t /\ f[1] = Discovery!Learn(f[0], r[1]) /\ g[0] = u
      <4>1. 0 \in 0..(n + 1) /\ 1 \in 0..(n + 1) /\ 0 \in 0..n /\ 1 - 1 = 0
        BY <1>2
      <4> QED
        BY <1>6, <4>1
    <3> QED
      BY <1>2, <1>3, <2>3, <2>4, <3>1
  <2>5. CASE k # 0
    <3>1. /\ k - 1 \in 0..n /\ ~(k <= k - 1) /\ k \in 1..n
          /\ k + 1 \in 0..(n + 1) /\ k + 1 # 0
          /\ (k + 1) - 1 = k /\ (k - 1) + 1 = k
      BY <1>2, <2>3, <2>5
    <3>2. k - 1 \notin bad
      BY <2>2, <3>1, Zenon
    <3>3. f[k] = g[k - 1]
      BY <3>1, <3>2
    <3>4. f[k + 1] = Discovery!Learn(f[k], r[k + 1])
      BY <1>6, <3>1
    <3>5. g[k] = Discovery!Learn(g[k - 1], s[k])
      BY <1>6, <2>3, <2>5
    <3>6. r[k + 1] = s[k]
      BY <1>2, <3>1
    <3> QED
      BY <2>3, <3>3, <3>4, <3>5, <3>6
  <2> QED
    BY <2>4, <2>5
<1>8. f[n + 1] = g[n]
  <2>1. n \in 0..n
    BY <1>2
  <2> QED
    BY <1>7, <2>1
<1> QED
  BY <1>1, <1>3, <1>4, <1>5, <1>8

-----------------------------------------------------------------------------
(* What is proved of the components holds of them here.                    *)

\* What the components assume of their constants.
LEMMA Assumptions ==
    /\ DiscoveryProofs!KubernetesAssumption
    /\ ManagerProofs!BufferAssumption
    /\ ManagerProofs!InputAssumption
    /\ ManagerProofs!NoneAssumption
BY BackendAssumption
   DEF Discovery!KubernetesAssumption, DiscoveryProofs!KubernetesAssumption,
       Discovery!Pods, DiscoveryProofs!Pods, Discovery!Fields,
       DiscoveryProofs!Fields,
       Manager!BufferAssumption, ManagerProofs!BufferAssumption,
       Manager!InputAssumption, ManagerProofs!InputAssumption,
       Manager!NoneAssumption, ManagerProofs!NoneAssumption,
       Manager!EndpointEvents, ManagerProofs!EndpointEvents,
       Manager!Services, ManagerProofs!Services,
       Manager!Endpoints, ManagerProofs!Endpoints,
       Manager!EndpointIds, ManagerProofs!EndpointIds

\* The steps of the cluster and of the watch.
LEMMA WatchSteps ==
    ASSUME ClusterChanges \/ WatchChanges
    PROVE  DiscoveryProofs!Next
<1> USE DEF Discovery!runtimeVars, DiscoveryProofs!runtimeVars,
            Discovery!Existing, DiscoveryProofs!Existing,
            Discovery!Report, DiscoveryProofs!Report
<1>1. ASSUME NEW u \in Uids, Discovery!PodCreated(u)
      PROVE  DiscoveryProofs!Next
  <2>1. DiscoveryProofs!PodCreated(u)
    BY <1>1 DEF Discovery!PodCreated, DiscoveryProofs!PodCreated
  <2> QED
    BY <2>1 DEF DiscoveryProofs!Next
<1>2. ASSUME NEW u \in Uids, Discovery!PodChanged(u)
      PROVE  DiscoveryProofs!Next
  <2>1. DiscoveryProofs!PodChanged(u)
    BY <1>2 DEF Discovery!PodChanged, DiscoveryProofs!PodChanged
  <2> QED
    BY <2>1 DEF DiscoveryProofs!Next
<1>3. ASSUME NEW u \in Uids, Discovery!PodDeleted(u)
      PROVE  DiscoveryProofs!Next
  <2>1. DiscoveryProofs!PodDeleted(u)
    BY <1>3 DEF Discovery!PodDeleted, DiscoveryProofs!PodDeleted
  <2> QED
    BY <2>1 DEF DiscoveryProofs!Next
<1>4. ASSUME Discovery!WatchLost PROVE DiscoveryProofs!Next
  <2>1. DiscoveryProofs!WatchLost
    BY <1>4 DEF Discovery!WatchLost, DiscoveryProofs!WatchLost
  <2> QED
    BY <2>1 DEF DiscoveryProofs!Next
<1>5. ASSUME Discovery!WatchRestarted PROVE DiscoveryProofs!Next
  <2>1. DiscoveryProofs!WatchRestarted
    BY <1>5 DEF Discovery!WatchRestarted, DiscoveryProofs!WatchRestarted
  <2> QED
    BY <2>1 DEF DiscoveryProofs!Next
<1> QED
  BY <1>1, <1>2, <1>3, <1>4, <1>5 DEF ClusterChanges, WatchChanges

\* The steps of the task that do not touch the channel.
LEMMA WorkSteps ==
    ASSUME TaskWorks
    PROVE  DiscoveryProofs!Next
<1> USE DEF Discovery!clusterVars, DiscoveryProofs!clusterVars,
            Discovery!Idle, DiscoveryProofs!Idle,
            Discovery!TakesEvent, DiscoveryProofs!TakesEvent,
            Discovery!Vanished, DiscoveryProofs!Vanished
<1>1. ASSUME NEW pod, Discovery!ApplyPod(pod)
      PROVE  DiscoveryProofs!ApplyPod(pod)
  BY <1>1
  DEF Discovery!ApplyPod, DiscoveryProofs!ApplyPod,
      Discovery!IsNew, DiscoveryProofs!IsNew,
      Discovery!AllServicesParse, DiscoveryProofs!AllServicesParse,
      Discovery!Adds, DiscoveryProofs!Adds,
      Discovery!AddOf, DiscoveryProofs!AddOf,
      Discovery!GoodServices, DiscoveryProofs!GoodServices,
      Discovery!Parses, DiscoveryProofs!Parses,
      Discovery!PhaseEvents, DiscoveryProofs!PhaseEvents
<1>2. ASSUME Discovery!HandleApplied PROVE DiscoveryProofs!Next
  <2>1. PICK pod : pod = Head(stream).pod
    OBVIOUS
  <2>2. \/ pod.uid # None /\ DiscoveryProofs!ApplyPod(pod)
        \/ pod.uid = None /\ UNCHANGED <<known_pod_uids, outbox, failing>>
    BY <1>1, <1>2, <2>1 DEF Discovery!HandleApplied
  <2>3. DiscoveryProofs!HandleApplied
    BY <1>2, <2>1, <2>2
    DEF Discovery!HandleApplied, DiscoveryProofs!HandleApplied
  <2> QED
    BY <2>3 DEF DiscoveryProofs!Next
<1>3. ASSUME Discovery!HandleDeleted PROVE DiscoveryProofs!Next
  <2>1. DiscoveryProofs!HandleDeleted
    BY <1>3 DEF Discovery!HandleDeleted, DiscoveryProofs!HandleDeleted
  <2> QED
    BY <2>1 DEF DiscoveryProofs!Next
<1>4. ASSUME Discovery!HandleRestarted PROVE DiscoveryProofs!Next
  <2>1. DiscoveryProofs!HandleRestarted
    BY <1>4 DEF Discovery!HandleRestarted, DiscoveryProofs!HandleRestarted
  <2> QED
    BY <2>1 DEF DiscoveryProofs!Next
<1>5. ASSUME NEW pod \in listed, Discovery!ApplyListedPod(pod)
      PROVE  DiscoveryProofs!Next
  <2>1. DiscoveryProofs!ApplyListedPod(pod)
    BY <1>1, <1>5
    DEF Discovery!ApplyListedPod, DiscoveryProofs!ApplyListedPod
  <2> QED
    BY <2>1 DEF DiscoveryProofs!Next
<1>6. ASSUME Discovery!FinishRestart PROVE DiscoveryProofs!Next
  <2>1. DiscoveryProofs!FinishRestart
    BY <1>6 DEF Discovery!FinishRestart, DiscoveryProofs!FinishRestart,
                Discovery!Cardinality, DiscoveryProofs!Cardinality
  <2> QED
    BY <2>1 DEF DiscoveryProofs!Next
<1> QED
  BY <1>2, <1>3, <1>4, <1>5, <1>6 DEF TaskWorks

\* The steps of the task that touch the channel.
LEMMA ChannelSteps ==
    ASSUME TaskSends \/ TaskEnds
    PROVE  DiscoveryProofs!Next
<1> USE DEF Discovery!clusterVars, DiscoveryProofs!clusterVars,
            Discovery!runtimeVars, DiscoveryProofs!runtimeVars
<1>1. CASE TaskSends
  <2>1. DiscoveryProofs!Send
    BY <1>1 DEF TaskSends, Discovery!Send, DiscoveryProofs!Send,
                Discovery!Learn, DiscoveryProofs!Learn,
                Discovery!Untold, DiscoveryProofs!Untold
  <2> QED
    BY <2>1 DEF DiscoveryProofs!Next
<1>2. CASE TaskEnds
  <2>1. DiscoveryProofs!RunFails
    BY <1>2 DEF TaskEnds, Discovery!RunFails, DiscoveryProofs!RunFails,
                Discovery!Idle, DiscoveryProofs!Idle
  <2> QED
    BY <2>1 DEF DiscoveryProofs!Next
<1> QED
  BY <1>1, <1>2

\* Every step is one of the discovery or leaves it alone, but for the
\* Receiver.
LEMMA DiscoverySteps ==
    ASSUME [Next]_vars
    PROVE  DiscoveryProofs!Next \/ UNCHANGED discoveryVars
BY WatchSteps, WorkSteps, ChannelSteps
DEF Next, ManagerOwner, ListenerWorks, ListenerDisconnects, vars

\* The steps of the manager, which leave the discovery alone.
LEMMA OtherSteps ==
    ASSUME DiscoveryProofs!IInv, UNCHANGED discoveryVars
    PROVE  DiscoveryProofs!IInv'
<1>1. /\ UNCHANGED <<cluster, watched, stream, known_pod_uids, restarting,
                     listed, current_pod_uids, failing>>
      /\ UNCHANGED <<outbox, told>> /\ UNCHANGED alive
  BY DEF discoveryVars
<1>2. /\ DiscoveryProofs!OutboxOK' /\ DiscoveryProofs!ServingNotReset'
      /\ \A w \in Uids : DiscoveryProofs!KeepsOf(w)
  BY <1>1, Assumptions, DiscoveryProofs!NothingTold
  DEF DiscoveryProofs!IInv, DiscoveryProofs!KeepsOf
<1>3. DiscoveryProofs!TypeOK'
  <2>1. ListenerOpen' \in BOOLEAN
    BY DEF ListenerOpen
  <2> QED
    BY <1>1, <2>1 DEF DiscoveryProofs!IInv, DiscoveryProofs!TypeOK
<1> QED
  BY <1>1, <1>2, <1>3, Assumptions, DiscoveryProofs!QuietStep
  DEF DiscoveryProofs!IInv

\* The events of a task that is typed are EndpointEvents.
LEMMA OutboxTyped ==
    ASSUME DiscoveryProofs!IInv
    PROVE  /\ outbox \in Seq(Discovery!EndpointEvents)
           /\ told \in [Uids ->
                  [PortNumbers -> {"none", "suspended", "available"}]]
BY DEF DiscoveryProofs!IInv, DiscoveryProofs!TypeOK, Discovery!EndpointEvents,
       DiscoveryProofs!EndpointEvents, Discovery!Fields, DiscoveryProofs!Fields

\* Every step is one of the ServiceManager or leaves it alone.
LEMMA ManagerSteps ==
    ASSUME DiscoveryProofs!IInv, [Next]_vars
    PROVE  [ManagerProofs!Next]_(ManagerProofs!vars)
<1> DEFINE d == Kubernetes
<1> USE DEF Manager!listenerVars, ManagerProofs!listenerVars,
            Manager!subscriberVars, ManagerProofs!subscriberVars,
            Manager!consumerVars, ManagerProofs!consumerVars
<1>1. ASSUME UNCHANGED managerVars PROVE UNCHANGED ManagerProofs!vars
  BY <1>1 DEF managerVars, ManagerProofs!vars
<1>2. CASE ClusterChanges \/ WatchChanges \/ TaskWorks \/ UNCHANGED vars
  BY <1>1, <1>2 DEF ClusterChanges, WatchChanges, TaskWorks, vars
<1>3. CASE TaskSends
  <2>1. PICK e \in Discovery!EndpointEvents : e = Head(outbox)
    BY <1>3, OutboxTyped DEF TaskSends
  <2>2. ManagerProofs!DiscoverySends(d, e)
    BY <1>3, <2>1
    DEF TaskSends, Manager!DiscoverySends, ManagerProofs!DiscoverySends,
        Manager!ListenerRunning, ManagerProofs!ListenerRunning
  <2> QED
    BY <2>2 DEF ManagerProofs!Next, ManagerProofs!Discovery
<1>4. CASE TaskEnds
  <2>1. ManagerProofs!DiscoveryEnds(d)
    BY <1>4
    DEF TaskEnds, Manager!DiscoveryEnds, ManagerProofs!DiscoveryEnds
  <2> QED
    BY <2>1 DEF ManagerProofs!Next, ManagerProofs!Discovery
<1>5. CASE Manager!RegisterEndpointDiscovery(d)
  <2>1. ManagerProofs!RegisterEndpointDiscovery(d)
    BY <1>5 DEF Manager!RegisterEndpointDiscovery,
                ManagerProofs!RegisterEndpointDiscovery
  <2> QED
    BY <2>1 DEF ManagerProofs!Next, ManagerProofs!Discovery
<1>6. CASE Manager!DropManager
  BY <1>6 DEF Manager!DropManager, ManagerProofs!DropManager,
              ManagerProofs!Next
<1>7. CASE Manager!ReceiveEvent(d)
  <2>1. ManagerProofs!ReceiveEvent(d)
    BY <1>7 DEF Manager!ReceiveEvent, ManagerProofs!ReceiveEvent,
                Manager!ManagerAlive, ManagerProofs!ManagerAlive
  <2> QED
    BY <2>1 DEF ManagerProofs!Next, ManagerProofs!Listener
<1>8. CASE Manager!ProcessEvent(d)
  <2>1. ManagerProofs!ProcessEvent(d)
    BY <1>8
    DEF Manager!ProcessEvent, ManagerProofs!ProcessEvent,
        Manager!ProcessAdd, ManagerProofs!ProcessAdd,
        Manager!ProcessDelete, ManagerProofs!ProcessDelete,
        Manager!ProcessSuspend, ManagerProofs!ProcessSuspend,
        Manager!ProcessResume, ManagerProofs!ProcessResume,
        Manager!ProcessAvailability, ManagerProofs!ProcessAvailability,
        Manager!Processing, ManagerProofs!Processing,
        Manager!MapWritable, ManagerProofs!MapWritable,
        Manager!MapReadable, ManagerProofs!MapReadable,
        Manager!HoldsMapRead, ManagerProofs!HoldsMapRead,
        Manager!HoldsMapWrite, ManagerProofs!HoldsMapWrite,
        Manager!EndpointId, ManagerProofs!EndpointId,
        Manager!EndpointIds, ManagerProofs!EndpointIds,
        Manager!NoEndpoints, ManagerProofs!NoEndpoints,
        Manager!EmptiedPorts, ManagerProofs!EmptiedPorts,
        Manager!OpenEvent, ManagerProofs!OpenEvent,
        Manager!CloseEvent, ManagerProofs!CloseEvent
  <2> QED
    BY <2>1 DEF ManagerProofs!Next, ManagerProofs!Listener
<1>9. CASE Manager!LockSender(d)
  <2>1. ManagerProofs!LockSender(d)
    BY <1>9 DEF Manager!LockSender, ManagerProofs!LockSender
  <2> QED
    BY <2>1 DEF ManagerProofs!Next, ManagerProofs!Listener
<1>10. ASSUME NEW e \in todo[d], Manager!SendPortEvent(d, e)
       PROVE  ManagerProofs!Next
  <2>1. ManagerProofs!SendPortEvent(d, e)
    BY <1>10
    DEF Manager!SendPortEvent, ManagerProofs!SendPortEvent,
        Manager!WithoutService, ManagerProofs!WithoutService,
        Manager!HasRoom, ManagerProofs!HasRoom,
        Manager!ListenerAfterSending, ManagerProofs!ListenerAfterSending
  <2> QED
    BY <2>1 DEF ManagerProofs!Next, ManagerProofs!Listener
<1>11. CASE Manager!ReceiveDisconnect(d)
  <2>1. ManagerProofs!ReceiveDisconnect(d)
    BY <1>11 DEF Manager!ReceiveDisconnect, ManagerProofs!ReceiveDisconnect
  <2> QED
    BY <2>1 DEF ManagerProofs!Next, ManagerProofs!Listener
<1> QED
  BY <1>2, <1>3, <1>4, <1>5, <1>6, <1>7, <1>8, <1>9, <1>10, <1>11
  DEF Next, ManagerOwner, ListenerWorks, ListenerDisconnects

\* The invariants of the components.
Components == DiscoveryProofs!IInv /\ ManagerProofs!IInv

\* They hold in the initial states.
LEMMA ComponentsInit ==
    Init => Components
<1> SUFFICES ASSUME Init PROVE Components
  OBVIOUS
<1>1. ManagerProofs!Init
  BY DEF Init, Manager!Init, ManagerProofs!Init
<1>2. ManagerProofs!IInv
  BY <1>1, Assumptions, ManagerProofs!InitIInv
<1>3. ListenerOpen \in BOOLEAN
  BY DEF ListenerOpen
<1>4. DiscoveryProofs!Fresh
  BY <1>3 DEF Init, DiscoveryProofs!Fresh, Discovery!Untold,
              DiscoveryProofs!Untold
<1>5. DiscoveryProofs!IInv
  BY <1>4, Assumptions, DiscoveryProofs!FreshStart
<1> QED
  BY <1>2, <1>5 DEF Components

\* Every step keeps them.
LEMMA ComponentsStep ==
    Components /\ [Next]_vars => Components'
<1> SUFFICES ASSUME Components, [Next]_vars PROVE Components'
  OBVIOUS
<1>1. DiscoveryProofs!IInv /\ ManagerProofs!IInv
  BY DEF Components
<1>2. ManagerProofs!IInv'
  BY <1>1, ManagerSteps, Assumptions, ManagerProofs!NextIInv
<1>3. DiscoveryProofs!IInv'
  <2>1. CASE DiscoveryProofs!Next
    BY <1>1, <2>1, Assumptions, DiscoveryProofs!Inductive
  <2>2. CASE UNCHANGED discoveryVars
    BY <1>1, <2>2, OtherSteps
  <2> QED
    BY <2>1, <2>2, DiscoverySteps
<1> QED
  BY <1>2, <1>3 DEF Components

-----------------------------------------------------------------------------
(* What the listener does to the table.                                    *)

\* What the table says of an entry.
Status(endpoint) ==
    IF endpoint = None THEN "none"
    ELSE IF endpoint.is_available THEN "available" ELSE "suspended"

\* The parts of the state that the table depends on.
LEMMA TableFacts ==
    ASSUME Components
    PROVE  /\ port_service_map \in
                  [PortNumbers -> Manager!Services \cup {None}]
           /\ queue[Kubernetes] \in Seq(Discovery!EndpointEvents)
           /\ listener[Kubernetes] = "lock" =>
                  event[Kubernetes] \in Discovery!EndpointEvents
           /\ queue \in [{Kubernetes} -> Seq(Discovery!EndpointEvents)]
           /\ DOMAIN listener = {Kubernetes} /\ DOMAIN event = {Kubernetes}
           /\ \A u \in Uids, p \in PortNumbers :
                  /\ Table[u][p] = IF port_service_map[p] = None THEN "none"
                         ELSE Status(port_service_map[p].endpoints[
                                         <<Kubernetes, u>>])
           /\ Table \in [Uids ->
                  [PortNumbers -> {"none", "suspended", "available"}]]
<1>1. /\ port_service_map \in [PortNumbers -> Manager!Services \cup {None}]
      /\ queue \in [{Kubernetes} -> Seq(Discovery!EndpointEvents)]
      /\ event \in [{Kubernetes} -> Discovery!EndpointEvents \cup {None}]
      /\ DOMAIN listener = {Kubernetes}
  BY DEF Components, ManagerProofs!IInv, ManagerProofs!TypeOK,
         Manager!Services, ManagerProofs!Services,
         Manager!Endpoints, ManagerProofs!Endpoints,
         Manager!EndpointIds, ManagerProofs!EndpointIds
<1>2. listener[Kubernetes] = "lock" => event[Kubernetes] # None
  BY DEF Components, ManagerProofs!IInv, ManagerProofs!FeedInv,
         ManagerProofs!ListenersOK
<1>3. Table = [u \in Uids |-> [p \in PortNumbers |->
          IF port_service_map[p] = None THEN "none"
          ELSE Status(port_service_map[p].endpoints[<<Kubernetes, u>>])]]
  BY DEF Table, Status, Manager!EndpointAt
<1>4. \A x : Status(x) \in {"none", "suspended", "available"}
  BY DEF Status
<1> QED
  BY <1>1, <1>2, <1>3, <1>4

\* What the discovery counts on, entry by entry.
LEMMA LearnEntries ==
    ASSUME NEW t \in [Uids ->
               [PortNumbers -> {"none", "suspended", "available"}]],
           NEW e \in Discovery!EndpointEvents
    PROVE  /\ Discovery!Learn(t, e) \in [Uids ->
                  [PortNumbers -> {"none", "suspended", "available"}]]
           /\ \A u \in Uids, p \in PortNumbers :
                  Discovery!Learn(t, e)[u][p] =
                      IF u # e.uid THEN t[u][p]
                      ELSE IF e.type = "Add" THEN
                          IF p = e.external_port THEN "suspended" ELSE t[u][p]
                      ELSE IF e.type = "Delete" \/ t[u][p] = "none" THEN "none"
                      ELSE IF e.type = "Resume" THEN "available"
                      ELSE "suspended"
<1>1. /\ e.uid \in Uids /\ e.type \in {"Add", "Delete", "Suspend", "Resume"}
      /\ e.type = "Add" => e.external_port \in PortNumbers
  BY DEF Discovery!EndpointEvents
<1>2. CASE e.type = "Add"
  <2>1. Discovery!Learn(t, e) =
            [t EXCEPT ![e.uid] = [@ EXCEPT ![e.external_port] = "suspended"]]
    BY <1>2 DEF Discovery!Learn
  <2> QED
    BY <1>1, <1>2, <2>1
<1>3. CASE e.type = "Delete"
  <2>1. Discovery!Learn(t, e) =
            [t EXCEPT ![e.uid] = [p \in PortNumbers |-> "none"]]
    BY <1>3 DEF Discovery!Learn, Discovery!Untold
  <2> QED
    BY <1>1, <1>3, <2>1
<1>4. CASE e.type \in {"Suspend", "Resume"}
  <2>1. Discovery!Learn(t, e) =
            [t EXCEPT ![e.uid] = [p \in PortNumbers |->
                IF t[e.uid][p] = "none" THEN "none"
                ELSE IF e.type = "Resume" THEN "available" ELSE "suspended"]]
    BY <1>1, <1>4 DEF Discovery!Learn
  <2> QED
    BY <1>1, <1>4, <2>1
<1> QED
  BY <1>1, <1>2, <1>3, <1>4

\* Tables are equal if their entries are.
LEMMA TablesEqual ==
    ASSUME NEW S, NEW a \in [Uids -> [PortNumbers -> S]],
           NEW b \in [Uids -> [PortNumbers -> S]],
           \A u \in Uids, p \in PortNumbers : a[u][p] = b[u][p]
    PROVE  a = b
<1>1. \A u \in Uids : a[u] = b[u]
  <2> SUFFICES ASSUME NEW u \in Uids PROVE a[u] = b[u]
    OBVIOUS
  <2>1. a[u] \in [PortNumbers -> S] /\ b[u] \in [PortNumbers -> S]
    OBVIOUS
  <2> QED
    BY <2>1
<1> QED
  BY <1>1

\* The entry of a port for a uid, in a map.
Entry(m, u, p) ==
    IF m[p] = None THEN "none"
    ELSE Status(m[p].endpoints[<<Kubernetes, u>>])

\* process_event learns an Add.
LEMMA AddLearnt ==
    ASSUME Components, Manager!ProcessAdd(Kubernetes)
    PROVE  \A u \in Uids, p \in PortNumbers :
               Entry(port_service_map', u, p) =
                   IF u = event[Kubernetes].uid
                      /\ p = event[Kubernetes].external_port
                   THEN "suspended" ELSE Entry(port_service_map, u, p)
<1>1. PICK m : m = port_service_map
  OBVIOUS
<1>2. PICK n : n = port_service_map'
  OBVIOUS
<1>3. PICK e : e = event[Kubernetes]
  OBVIOUS
<1>4. /\ m \in [PortNumbers -> Manager!Services \cup {None}]
      /\ e \in Discovery!EndpointEvents /\ e.type = "Add"
  BY <1>1, <1>3, TableFacts DEF Manager!ProcessAdd, Manager!Processing
<1>5. /\ e.uid \in Uids /\ e.is_available = FALSE
      /\ e.external_port \in PortNumbers
  BY <1>4 DEF Discovery!EndpointEvents
<1>6. PICK id : id = <<Kubernetes, e.uid>>
  OBVIOUS
<1>7. PICK x : x = [is_available |-> e.is_available, backend |-> e.backend]
  OBVIOUS
<1>8. /\ id \in Manager!EndpointIds
      /\ \A u \in Uids : /\ <<Kubernetes, u>> \in Manager!EndpointIds
                         /\ <<Kubernetes, u>> = id <=> u = e.uid
  BY <1>5, <1>6 DEF Manager!EndpointIds
<1>9. x # None /\ Status(x) = "suspended"
  <2>1. x \in Manager!Endpoints
    BY <1>4, <1>7 DEF Manager!Endpoints, Discovery!EndpointEvents,
                      Discovery!Fields
  <2>2. x # None
    BY <2>1, BackendAssumption DEF Manager!NoneAssumption
  <2> QED
    BY <1>5, <1>7, <2>2 DEF Status
<1>10. CASE m[e.external_port] = None
  <2>1. n = [m EXCEPT ![e.external_port] =
                [protocol  |-> e.external_protocol,
                 endpoints |-> [Manager!NoEndpoints EXCEPT ![id] = x]]]
    BY <1>1, <1>2, <1>3, <1>6, <1>7, <1>10
    DEF Manager!ProcessAdd, Manager!EndpointId
  <2>2. PICK s : s = [protocol  |-> e.external_protocol,
                      endpoints |-> [Manager!NoEndpoints EXCEPT ![id] = x]]
    OBVIOUS
  <2>3. s # None
    <3>1. s \in Manager!Services
      <4>1. /\ x \in Manager!Endpoints
            /\ e.external_protocol \in Discovery!Fields
        BY <1>4, <1>7 DEF Manager!Endpoints, Discovery!EndpointEvents,
                          Discovery!Fields
      <4>2. [Manager!NoEndpoints EXCEPT ![id] = x] \in
                [Manager!EndpointIds -> Manager!Endpoints \cup {None}]
        BY <4>1, <1>8 DEF Manager!NoEndpoints
      <4> QED
        BY <2>2, <4>1, <4>2 DEF Manager!Services
    <3> QED
      BY <3>1, BackendAssumption DEF Manager!NoneAssumption
  <2>4. \A u \in Uids : s.endpoints[<<Kubernetes, u>>] =
            IF u = e.uid THEN x ELSE None
    BY <1>8, <2>2 DEF Manager!NoEndpoints
  <2>5. n[e.external_port] = s
    BY <1>4, <1>5, <2>1, <2>2
  <2>6. \A p \in PortNumbers : p # e.external_port => n[p] = m[p]
    BY <1>4, <1>5, <2>1
  <2>7. \A u \in Uids, p \in PortNumbers : Entry(n, u, p) =
            IF u = e.uid /\ p = e.external_port THEN "suspended"
            ELSE Entry(m, u, p)
    <3> SUFFICES ASSUME NEW u \in Uids, NEW p \in PortNumbers
                 PROVE  Entry(n, u, p) =
                            IF u = e.uid /\ p = e.external_port
                            THEN "suspended" ELSE Entry(m, u, p)
      OBVIOUS
    <3>1. CASE p # e.external_port
      BY <2>6, <3>1 DEF Entry
    <3>2. CASE p = e.external_port /\ u = e.uid
      BY <1>9, <2>3, <2>4, <2>5, <3>2 DEF Entry
    <3>3. CASE p = e.external_port /\ u # e.uid
      BY <1>10, <2>3, <2>4, <2>5, <3>3 DEF Entry, Status
    <3> QED
      BY <3>1, <3>2, <3>3
  <2> QED
    BY <1>1, <1>2, <1>3, <2>7
<1>11. CASE m[e.external_port] # None
  <2>1. n = [m EXCEPT ![e.external_port].endpoints[id] = x]
    BY <1>1, <1>2, <1>3, <1>6, <1>7, <1>11
    DEF Manager!ProcessAdd, Manager!EndpointId
  <2>2. m[e.external_port] \in Manager!Services
    BY <1>4, <1>5, <1>11
  <2>3. PICK s : s = [m[e.external_port] EXCEPT !.endpoints[id] = x]
    OBVIOUS
  <2>4. s # None
    <3>1. s \in Manager!Services
      <4>1. x \in Manager!Endpoints
        BY <1>4, <1>7 DEF Manager!Endpoints, Discovery!EndpointEvents,
                          Discovery!Fields
      <4> QED
        BY <1>8, <2>2, <2>3, <4>1 DEF Manager!Services
    <3> QED
      BY <3>1, BackendAssumption DEF Manager!NoneAssumption
  <2>5. \A u \in Uids : s.endpoints[<<Kubernetes, u>>] =
            IF u = e.uid THEN x
            ELSE m[e.external_port].endpoints[<<Kubernetes, u>>]
    BY <1>8, <2>2, <2>3 DEF Manager!Services
  <2>6. n[e.external_port] = s
    BY <1>4, <1>5, <2>1, <2>3
  <2>7. \A p \in PortNumbers : p # e.external_port => n[p] = m[p]
    BY <1>4, <1>5, <2>1
  <2>8. \A u \in Uids, p \in PortNumbers : Entry(n, u, p) =
            IF u = e.uid /\ p = e.external_port THEN "suspended"
            ELSE Entry(m, u, p)
    <3> SUFFICES ASSUME NEW u \in Uids, NEW p \in PortNumbers
                 PROVE  Entry(n, u, p) =
                            IF u = e.uid /\ p = e.external_port
                            THEN "suspended" ELSE Entry(m, u, p)
      OBVIOUS
    <3>1. CASE p # e.external_port
      BY <2>7, <3>1 DEF Entry
    <3>2. CASE p = e.external_port /\ u = e.uid
      BY <1>9, <2>4, <2>5, <2>6, <3>2 DEF Entry
    <3>3. CASE p = e.external_port /\ u # e.uid
      BY <1>11, <2>4, <2>5, <2>6, <3>3 DEF Entry
    <3> QED
      BY <3>1, <3>2, <3>3
  <2> QED
    BY <1>1, <1>2, <1>3, <2>8
<1> QED
  BY <1>10, <1>11

\* process_event learns a Delete.
LEMMA DeleteLearnt ==
    ASSUME Components, Manager!ProcessDelete(Kubernetes)
    PROVE  \A u \in Uids, p \in PortNumbers :
               Entry(port_service_map', u, p) =
                   IF u = event[Kubernetes].uid THEN "none"
                   ELSE Entry(port_service_map, u, p)
<1>1. PICK m : m = port_service_map
  OBVIOUS
<1>2. PICK n : n = port_service_map'
  OBVIOUS
<1>3. PICK e : e = event[Kubernetes]
  OBVIOUS
<1>4. /\ m \in [PortNumbers -> Manager!Services \cup {None}]
      /\ e \in Discovery!EndpointEvents
  BY <1>1, <1>3, TableFacts DEF Manager!ProcessDelete, Manager!Processing
<1>5. e.uid \in Uids
  BY <1>4 DEF Discovery!EndpointEvents
<1>6. PICK id : id = <<Kubernetes, e.uid>>
  OBVIOUS
<1>7. /\ id \in Manager!EndpointIds
      /\ \A u \in Uids : /\ <<Kubernetes, u>> \in Manager!EndpointIds
                         /\ <<Kubernetes, u>> = id <=> u = e.uid
  BY <1>5, <1>6 DEF Manager!EndpointIds
<1>8. n = [p \in PortNumbers |->
               IF m[p] = None THEN None
               ELSE [m[p] EXCEPT !.endpoints[id] = None]]
  BY <1>1, <1>2, <1>3, <1>6 DEF Manager!ProcessDelete, Manager!EndpointId
<1> SUFFICES ASSUME NEW u \in Uids, NEW p \in PortNumbers
             PROVE  Entry(n, u, p) =
                        IF u = e.uid THEN "none" ELSE Entry(m, u, p)
  BY <1>1, <1>2, <1>3
<1>9. CASE m[p] = None
  BY <1>8, <1>9 DEF Entry
<1>10. CASE m[p] # None
  <2>1. m[p] \in Manager!Services
    BY <1>4, <1>10
  <2>2. /\ n[p] \in Manager!Services
        /\ n[p].endpoints[<<Kubernetes, u>>] =
               IF u = e.uid THEN None ELSE m[p].endpoints[<<Kubernetes, u>>]
    BY <1>7, <1>8, <1>10, <2>1 DEF Manager!Services
  <2>3. n[p] # None
    BY <2>2, BackendAssumption DEF Manager!NoneAssumption
  <2> QED
    BY <1>10, <2>2, <2>3 DEF Entry, Status
<1> QED
  BY <1>9, <1>10

\* process_event learns a Suspend and a Resume.
LEMMA AvailabilityLearnt ==
    ASSUME Components, NEW type, NEW is_available \in BOOLEAN,
           Manager!ProcessAvailability(Kubernetes, type, is_available)
    PROVE  \A u \in Uids, p \in PortNumbers :
               Entry(port_service_map', u, p) =
                   IF u # event[Kubernetes].uid
                   THEN Entry(port_service_map, u, p)
                   ELSE IF Entry(port_service_map, u, p) = "none" THEN "none"
                   ELSE IF is_available THEN "available" ELSE "suspended"
<1>1. PICK m : m = port_service_map
  OBVIOUS
<1>2. PICK n : n = port_service_map'
  OBVIOUS
<1>3. PICK e : e = event[Kubernetes]
  OBVIOUS
<1>4. /\ m \in [PortNumbers -> Manager!Services \cup {None}]
      /\ e \in Discovery!EndpointEvents
  BY <1>1, <1>3, TableFacts
  DEF Manager!ProcessAvailability, Manager!Processing
<1>5. e.uid \in Uids
  BY <1>4 DEF Discovery!EndpointEvents
<1>6. PICK id : id = <<Kubernetes, e.uid>>
  OBVIOUS
<1>7. /\ id \in Manager!EndpointIds
      /\ \A u \in Uids : /\ <<Kubernetes, u>> \in Manager!EndpointIds
                         /\ <<Kubernetes, u>> = id <=> u = e.uid
  BY <1>5, <1>6 DEF Manager!EndpointIds
<1>8. n = [p \in PortNumbers |->
               IF m[p] # None /\ m[p].endpoints[id] # None
               THEN [m[p] EXCEPT !.endpoints[id].is_available = is_available]
               ELSE m[p]]
  BY <1>1, <1>2, <1>3, <1>6
  DEF Manager!ProcessAvailability, Manager!EndpointId
<1> SUFFICES ASSUME NEW u \in Uids, NEW p \in PortNumbers
             PROVE  Entry(n, u, p) =
                        IF u # e.uid THEN Entry(m, u, p)
                        ELSE IF Entry(m, u, p) = "none" THEN "none"
                        ELSE IF is_available THEN "available"
                        ELSE "suspended"
  BY <1>1, <1>2, <1>3
<1>9. CASE m[p] = None
  BY <1>8, <1>9 DEF Entry
<1>10. CASE m[p] # None /\ m[p].endpoints[id] = None
  <2>1. n[p] = m[p]
    BY <1>8, <1>10
  <2>2. u = e.uid => Entry(m, u, p) = "none"
    BY <1>6, <1>10 DEF Entry, Status
  <2> QED
    BY <2>1, <2>2 DEF Entry
<1>11. CASE m[p] # None /\ m[p].endpoints[id] # None
  <2>1. m[p] \in Manager!Services
    BY <1>4, <1>11
  <2>2. PICK x : x = m[p].endpoints[id]
    OBVIOUS
  <2>3. x \in Manager!Endpoints
    BY <1>7, <1>11, <2>1, <2>2 DEF Manager!Services
  <2>4. PICK y : y = [x EXCEPT !.is_available = is_available]
    OBVIOUS
  <2>5. y \in Manager!Endpoints /\ y.is_available = is_available
    BY <2>3, <2>4 DEF Manager!Endpoints
  <2>6. y # None
    BY <2>5, BackendAssumption DEF Manager!NoneAssumption
  <2>7. n[p] = [m[p] EXCEPT !.endpoints[id] = y]
    BY <1>8, <1>11, <2>1, <2>2, <2>4
  <2>8. /\ n[p] \in Manager!Services
        /\ n[p].endpoints[<<Kubernetes, u>>] =
               IF u = e.uid THEN y ELSE m[p].endpoints[<<Kubernetes, u>>]
    <3>1. PICK s : s = m[p]
      OBVIOUS
    <3>2. s \in Manager!Services /\ n[p] = [s EXCEPT !.endpoints[id] = y]
      BY <2>1, <2>7, <3>1
    <3>3. PICK g : g = s.endpoints
      OBVIOUS
    <3>4. /\ s.protocol \in Discovery!Fields
          /\ g \in [Manager!EndpointIds -> Manager!Endpoints \cup {None}]
          /\ n[p] = [protocol  |-> s.protocol,
                     endpoints |-> [g EXCEPT ![id] = y]]
      BY <3>2, <3>3 DEF Manager!Services
    <3>5. [g EXCEPT ![id] = y] \in
              [Manager!EndpointIds -> Manager!Endpoints \cup {None}]
      BY <2>5, <3>4
    <3>6. n[p] \in Manager!Services
      BY <3>4, <3>5 DEF Manager!Services
    <3>7. n[p].endpoints[<<Kubernetes, u>>] =
              IF u = e.uid THEN y ELSE s.endpoints[<<Kubernetes, u>>]
      <4>1. n[p].endpoints = [g EXCEPT ![id] = y]
        BY <3>4
      <4>2. <<Kubernetes, u>> \in DOMAIN g /\ id \in DOMAIN g
        BY <1>7, <3>4
      <4>3. <<Kubernetes, u>> = id <=> u = e.uid
        BY <1>6
      <4> QED
        BY <3>3, <4>1, <4>2, <4>3
    <3> QED
      BY <3>1, <3>6, <3>7
  <2>9. n[p] # None
    BY <2>8, BackendAssumption DEF Manager!NoneAssumption
  <2>10. u = e.uid => Entry(m, u, p) # "none"
    BY <1>6, <1>11 DEF Entry, Status
  <2>11. CASE u # e.uid
    BY <1>11, <2>8, <2>9, <2>11 DEF Entry
  <2>12. CASE u = e.uid
    <3>1. Entry(n, u, p) = Status(y)
      BY <2>8, <2>9, <2>12 DEF Entry
    <3>2. Status(y) = IF is_available THEN "available" ELSE "suspended"
      BY <2>5, <2>6 DEF Status
    <3> QED
      BY <2>10, <2>12, <3>1, <3>2
  <2> QED
    BY <2>11, <2>12
<1> QED
  BY <1>9, <1>10, <1>11

\* process_event makes of an event what the discovery counts on.
LEMMA EventLearnt ==
    ASSUME Components, Manager!ProcessEvent(Kubernetes)
    PROVE  Table' = Discovery!Learn(Table, event[Kubernetes])
<1>1. PICK e : e = event[Kubernetes]
  OBVIOUS
<1>2. PICK t : t = Table
  OBVIOUS
<1>3. PICK r : r = Table'
  OBVIOUS
<1>4. listener[Kubernetes] = "lock"
  BY DEF Manager!ProcessEvent, Manager!ProcessAdd, Manager!ProcessDelete,
         Manager!ProcessSuspend, Manager!ProcessResume,
         Manager!ProcessAvailability, Manager!Processing
<1>5. /\ e \in Discovery!EndpointEvents
      /\ t \in [Uids -> [PortNumbers -> {"none", "suspended", "available"}]]
      /\ \A u \in Uids, p \in PortNumbers :
             t[u][p] = Entry(port_service_map, u, p)
  BY <1>1, <1>2, <1>4, TableFacts DEF Entry
<1>6. /\ r \in [Uids -> [PortNumbers -> {"none", "suspended", "available"}]]
      /\ \A u \in Uids, p \in PortNumbers :
             r[u][p] = Entry(port_service_map', u, p)
  <2>1. r = [u \in Uids |-> [p \in PortNumbers |->
                Entry(port_service_map', u, p)]]
    BY <1>3 DEF Table, Entry, Status, Manager!EndpointAt
  <2>2. \A u \in Uids, p \in PortNumbers : Entry(port_service_map', u, p)
            \in {"none", "suspended", "available"}
    BY DEF Entry, Status
  <2> QED
    BY <2>1, <2>2
<1>7. e.type \in {"Add", "Delete", "Suspend", "Resume"}
  BY <1>5 DEF Discovery!EndpointEvents
<1>8. \A u \in Uids, p \in PortNumbers :
          r[u][p] = Discovery!Learn(t, e)[u][p]
  <2>1. CASE Manager!ProcessAdd(Kubernetes)
    <3>1. e.type = "Add"
      BY <1>1, <2>1 DEF Manager!ProcessAdd, Manager!Processing
    <3> QED
      BY <1>1, <1>5, <1>6, <2>1, <3>1, AddLearnt, LearnEntries
  <2>2. CASE Manager!ProcessDelete(Kubernetes)
    <3>1. e.type = "Delete"
      BY <1>1, <2>2 DEF Manager!ProcessDelete, Manager!Processing
    <3> QED
      BY <1>1, <1>5, <1>6, <2>2, <3>1, DeleteLearnt, LearnEntries
  <2>3. CASE Manager!ProcessSuspend(Kubernetes)
    <3>1. Manager!ProcessAvailability(Kubernetes, "Suspend", FALSE)
      BY <2>3 DEF Manager!ProcessSuspend
    <3>2. e.type = "Suspend"
      BY <1>1, <3>1 DEF Manager!ProcessAvailability, Manager!Processing
    <3>3. \A u \in Uids, p \in PortNumbers :
               Entry(port_service_map', u, p) =
                   IF u # event[Kubernetes].uid
                   THEN Entry(port_service_map, u, p)
                   ELSE IF Entry(port_service_map, u, p) = "none" THEN "none"
                   ELSE "suspended"
      BY <3>1, AvailabilityLearnt
    <3>4. \A u \in Uids, p \in PortNumbers : Discovery!Learn(t, e)[u][p] =
              IF u # e.uid THEN t[u][p]
              ELSE IF t[u][p] = "none" THEN "none" ELSE "suspended"
      BY <1>5, <3>2, LearnEntries
    <3> QED
      BY <1>1, <1>5, <1>6, <3>3, <3>4
  <2>4. CASE Manager!ProcessResume(Kubernetes)
    <3>1. Manager!ProcessAvailability(Kubernetes, "Resume", TRUE)
      BY <2>4 DEF Manager!ProcessResume
    <3>2. e.type = "Resume"
      BY <1>1, <3>1 DEF Manager!ProcessAvailability, Manager!Processing
    <3>3. \A u \in Uids, p \in PortNumbers :
               Entry(port_service_map', u, p) =
                   IF u # event[Kubernetes].uid
                   THEN Entry(port_service_map, u, p)
                   ELSE IF Entry(port_service_map, u, p) = "none" THEN "none"
                   ELSE "available"
      BY <3>1, AvailabilityLearnt
    <3>4. \A u \in Uids, p \in PortNumbers : Discovery!Learn(t, e)[u][p] =
              IF u # e.uid THEN t[u][p]
              ELSE IF t[u][p] = "none" THEN "none" ELSE "available"
      BY <1>5, <3>2, LearnEntries
    <3> QED
      BY <1>1, <1>5, <1>6, <3>3, <3>4
  <2> QED
    BY <2>1, <2>2, <2>3, <2>4 DEF Manager!ProcessEvent
<1>9. r = Discovery!Learn(t, e)
  BY <1>5, <1>6, <1>8, LearnEntries, TablesEqual
<1> QED
  BY <1>1, <1>2, <1>3, <1>9

\* A service that is closed has no endpoint left.
LEMMA ClosingForgetsNothing ==
    ASSUME Components, NEW x \in todo[Kubernetes],
           Manager!SendPortEvent(Kubernetes, x)
    PROVE  UNCHANGED Table
<1>1. PICK m : m = port_service_map
  OBVIOUS
<1>2. PICK n : n = port_service_map'
  OBVIOUS
<1>3. m \in [PortNumbers -> Manager!Services \cup {None}]
  BY <1>1, TableFacts
<1>4. /\ n = IF x.type = "Close" THEN [m EXCEPT ![x.port] = None] ELSE m
  BY <1>1, <1>2 DEF Manager!SendPortEvent, Manager!WithoutService
<1>5. x.type = "Close" => m[x.port] # None
                          /\ m[x.port].endpoints = Manager!NoEndpoints
  BY <1>1 DEF Components, ManagerProofs!IInv, ManagerProofs!FeedInv,
              ManagerProofs!ListenersOK, ManagerProofs!NoEndpoints,
              Manager!NoEndpoints, ManagerProofs!EndpointIds,
              Manager!EndpointIds
<1>6. \A u \in Uids : Manager!NoEndpoints[<<Kubernetes, u>>] = None
  BY DEF Manager!NoEndpoints, Manager!EndpointIds
<1>7. \A u \in Uids, p \in PortNumbers : Entry(n, u, p) = Entry(m, u, p)
  <2> SUFFICES ASSUME NEW u \in Uids, NEW p \in PortNumbers
               PROVE  Entry(n, u, p) = Entry(m, u, p)
    OBVIOUS
  <2>1. CASE x.type = "Close" /\ p = x.port
    BY <1>3, <1>4, <1>5, <1>6, <2>1 DEF Entry, Status
  <2>2. CASE ~(x.type = "Close" /\ p = x.port)
    BY <1>3, <1>4, <2>2 DEF Entry
  <2> QED
    BY <2>1, <2>2
<1>8. /\ Table = [u \in Uids |-> [p \in PortNumbers |-> Entry(m, u, p)]]
      /\ Table' = [u \in Uids |-> [p \in PortNumbers |-> Entry(n, u, p)]]
  BY <1>1, <1>2 DEF Table, Entry, Status, Manager!EndpointAt
<1> QED
  BY <1>7, <1>8

\* A step that leaves the table, what is pending and told alone.
LEMMA NothingLearnt ==
    ASSUME TableFollowsEvents, UNCHANGED <<Table, Pending, told>>,
           listener[Kubernetes] # "returned" \/ listener'[Kubernetes] = "returned"
    PROVE  TableFollowsEvents'
<1> SUFFICES ASSUME listener'[Kubernetes] # "returned"
             PROVE  LearnAll(Table', Pending') = told'
  BY DEF TableFollowsEvents
<1>1. LearnAll(Table, Pending) = told
  BY DEF TableFollowsEvents
<1> QED
  BY <1>1

\* Table depends on the map only.
LEMMA TableOfMap ==
    ASSUME UNCHANGED port_service_map
    PROVE  UNCHANGED Table
BY DEF Table, Manager!EndpointAt

\* The discovery's steps, apart from sending, tell nothing.
LEMMA QuietDiscovery ==
    ASSUME TableFollowsEvents, UNCHANGED told,
           UNCHANGED <<listener, event, queue, port_service_map>>
    PROVE  TableFollowsEvents'
<1>1. UNCHANGED Table
  BY TableOfMap
<1>2. UNCHANGED Pending
  BY DEF Pending
<1> QED
  BY <1>1, <1>2, NothingLearnt

\* An event that is sent is told and becomes the last that is pending.
LEMMA SendKeepsTable ==
    ASSUME Components, TableFollowsEvents, TaskSends
    PROVE  TableFollowsEvents'
<1>1. PICK e : e = Head(outbox)
  OBVIOUS
<1>2. e \in Discovery!EndpointEvents
  BY <1>1, OutboxTyped DEF TaskSends, Components
<1>3. /\ told' = Discovery!Learn(told, e)
      /\ queue' = [queue EXCEPT ![Kubernetes] = Append(@, e)]
      /\ listener[Kubernetes] # "returned"
      /\ UNCHANGED <<listener, event, port_service_map>>
  BY <1>1 DEF TaskSends, Discovery!Send, Manager!DiscoverySends,
              Manager!ListenerRunning, Manager!listenerVars
<1>4. PICK s : s = Pending
  OBVIOUS
<1>5. /\ s \in Seq(Discovery!EndpointEvents)
      /\ Pending' = Append(s, e)
  <2>1. PICK q : q = queue[Kubernetes]
    OBVIOUS
  <2>2. /\ q \in Seq(Discovery!EndpointEvents)
        /\ queue'[Kubernetes] = Append(q, e)
    BY <1>3, <2>1, TableFacts
  <2>3. CASE listener[Kubernetes] = "lock"
    <3>1. PICK x : x = event[Kubernetes]
      OBVIOUS
    <3>2. x \in Discovery!EndpointEvents
      BY <2>3, <3>1, TableFacts
    <3>3. s = <<x>> \o q /\ Pending' = <<x>> \o Append(q, e)
      BY <1>3, <1>4, <2>1, <2>2, <2>3, <3>1 DEF Pending
    <3>4. <<x>> \o Append(q, e) = Append(<<x>> \o q, e)
      BY <1>2, <2>2, <3>2
    <3> QED
      BY <2>2, <3>2, <3>3, <3>4
  <2>4. CASE listener[Kubernetes] # "lock"
    <3>1. s = <<>> \o q /\ Pending' = <<>> \o Append(q, e)
      BY <1>3, <1>4, <2>1, <2>2, <2>4 DEF Pending
    <3>2. <<>> \o q = q /\ <<>> \o Append(q, e) = Append(q, e)
      BY <1>2, <2>2
    <3> QED
      BY <2>2, <3>1, <3>2
  <2> QED
    BY <2>3, <2>4
<1>6. LearnAll(Table, s) = told
  BY <1>3, <1>4 DEF TableFollowsEvents
<1>7. LearnAll(Table, Append(s, e)) = Discovery!Learn(LearnAll(Table, s), e)
  <2>1. PICK t : t = Table
    OBVIOUS
  <2>2. LearnAll(t, Append(s, e)) = Discovery!Learn(LearnAll(t, s), e)
    BY <1>2, <1>5, LearnLast
  <2> QED
    BY <2>1, <2>2
<1>8. Table' = Table
  BY <1>3, TableOfMap
<1> QED
  BY <1>3, <1>5, <1>6, <1>7, <1>8 DEF TableFollowsEvents

\* An event that is taken from the channel is still pending.
LEMMA ReceiveKeepsTable ==
    ASSUME Components, TableFollowsEvents, Manager!ReceiveEvent(Kubernetes),
           UNCHANGED told
    PROVE  TableFollowsEvents'
<1>1. DOMAIN listener = {Kubernetes} /\ DOMAIN event = {Kubernetes}
      /\ queue \in [{Kubernetes} -> Seq(Discovery!EndpointEvents)]
  BY TableFacts
<1>2. CASE Manager!ManagerAlive
  <2>1. PICK q : q = queue[Kubernetes]
    OBVIOUS
  <2>2. q \in Seq(Discovery!EndpointEvents) /\ q # <<>>
    BY <1>1, <2>1 DEF Manager!ReceiveEvent
  <2>3. /\ listener[Kubernetes] = "recv" /\ listener'[Kubernetes] = "lock"
        /\ event'[Kubernetes] = Head(q) /\ queue'[Kubernetes] = Tail(q)
        /\ UNCHANGED port_service_map
    BY <1>1, <1>2, <2>1 DEF Manager!ReceiveEvent
  <2>4. <<Head(q)>> \o Tail(q) = q /\ <<>> \o q = q
    BY <2>2
  <2>5. UNCHANGED Pending
    BY <2>1, <2>3, <2>4 DEF Pending
  <2>6. UNCHANGED Table
    BY <2>3, TableOfMap
  <2> QED
    BY <2>3, <2>5, <2>6, NothingLearnt
<1>3. CASE ~Manager!ManagerAlive
  <2>1. listener'[Kubernetes] = "returned"
    BY <1>1, <1>3 DEF Manager!ReceiveEvent
  <2> QED
    BY <2>1 DEF TableFollowsEvents
<1> QED
  BY <1>2, <1>3

\* An event that is processed was the first that was pending.
LEMMA ProcessKeepsTable ==
    ASSUME Components, TableFollowsEvents, Manager!ProcessEvent(Kubernetes),
           UNCHANGED told
    PROVE  TableFollowsEvents'
<1>1. /\ listener[Kubernetes] = "lock" /\ UNCHANGED queue
      /\ \/ listener' = [listener EXCEPT ![Kubernetes] = "recv"]
         \/ listener' = [listener EXCEPT ![Kubernetes] = "gate"]
  BY DEF Manager!ProcessEvent, Manager!ProcessAdd, Manager!ProcessDelete,
         Manager!ProcessSuspend, Manager!ProcessResume,
         Manager!ProcessAvailability, Manager!Processing
<1>2. PICK e : e = event[Kubernetes]
  OBVIOUS
<1>3. PICK q : q = queue[Kubernetes]
  OBVIOUS
<1>4. PICK t : t = Table
  OBVIOUS
<1>5. /\ e \in Discovery!EndpointEvents /\ q \in Seq(Discovery!EndpointEvents)
      /\ DOMAIN listener = {Kubernetes}
  BY <1>1, <1>2, <1>3, TableFacts
<1>6. listener'[Kubernetes] \in {"recv", "gate"}
  BY <1>1, <1>5
<1>7. Pending = <<e>> \o q
  BY <1>1, <1>2, <1>3 DEF Pending
<1>8. Pending' = q
  <2>1. Pending' = <<>> \o q
    BY <1>1, <1>3, <1>6 DEF Pending
  <2> QED
    BY <1>5, <2>1
<1>9. Table' = Discovery!Learn(t, e)
  BY <1>2, <1>4, EventLearnt
<1>10. LearnAll(t, <<e>> \o q) = LearnAll(Discovery!Learn(t, e), q)
  BY <1>5, LearnFirst
<1>11. LearnAll(t, <<e>> \o q) = told
  BY <1>1, <1>4, <1>7 DEF TableFollowsEvents
<1> QED
  BY <1>8, <1>9, <1>10, <1>11 DEF TableFollowsEvents

\* The remaining steps of the listener.
LEMMA ListenerKeepsTable ==
    ASSUME Components, TableFollowsEvents, UNCHANGED told,
           \/ Manager!RegisterEndpointDiscovery(Kubernetes)
           \/ Manager!LockSender(Kubernetes)
           \/ \E x \in todo[Kubernetes] : Manager!SendPortEvent(Kubernetes, x)
           \/ Manager!ReceiveDisconnect(Kubernetes)
    PROVE  TableFollowsEvents'
<1>1. DOMAIN listener = {Kubernetes}
  BY TableFacts
<1>2. UNCHANGED Table
  <2>1. CASE UNCHANGED port_service_map
    BY <2>1, TableOfMap
  <2>2. CASE \E x \in todo[Kubernetes] : Manager!SendPortEvent(Kubernetes, x)
    BY <2>2, ClosingForgetsNothing
  <2> QED
    BY <2>1, <2>2 DEF Manager!RegisterEndpointDiscovery, Manager!LockSender,
                      Manager!ReceiveDisconnect
<1>3. /\ UNCHANGED <<queue, event>>
      /\ listener[Kubernetes] \in {"absent", "gate", "send", "recv"}
      /\ listener'[Kubernetes] \in {"recv", "send", "disconnected"}
  BY <1>1 DEF Manager!RegisterEndpointDiscovery, Manager!LockSender,
              Manager!SendPortEvent, Manager!ListenerAfterSending,
              Manager!ReceiveDisconnect
<1>4. UNCHANGED Pending
  BY <1>3 DEF Pending
<1> QED
  BY <1>2, <1>3, <1>4, NothingLearnt

\* Every step keeps TableFollowsEvents.
LEMMA TableStep ==
    ASSUME Components, TableFollowsEvents, [Next]_vars
    PROVE  TableFollowsEvents'
<1> USE DEF discoveryVars, managerVars, Discovery!clusterVars,
            Discovery!runtimeVars, Manager!listenerVars
<1>1. CASE ClusterChanges \/ WatchChanges
  <2>1. UNCHANGED told
    BY <1>1 DEF ClusterChanges, WatchChanges, Discovery!PodCreated,
                Discovery!PodChanged, Discovery!PodDeleted,
                Discovery!WatchLost, Discovery!WatchRestarted
  <2>2. UNCHANGED managerVars
    BY <1>1 DEF ClusterChanges, WatchChanges
  <2> QED
    BY <2>1, <2>2, QuietDiscovery
<1>2. CASE TaskWorks
  <2>1. UNCHANGED told
    BY <1>2 DEF TaskWorks, Discovery!HandleApplied, Discovery!HandleDeleted,
                Discovery!HandleRestarted, Discovery!ApplyListedPod,
                Discovery!FinishRestart, Discovery!TakesEvent
  <2>2. UNCHANGED managerVars
    BY <1>2 DEF TaskWorks
  <2> QED
    BY <2>1, <2>2, QuietDiscovery
<1>3. CASE TaskSends
  BY <1>3, SendKeepsTable
<1>4. CASE TaskEnds
  <2>1. /\ UNCHANGED told
        /\ UNCHANGED <<listener, event, queue, port_service_map>>
    BY <1>4 DEF TaskEnds, Discovery!RunFails, Manager!DiscoveryEnds
  <2> QED
    BY <2>1, QuietDiscovery
<1>5. CASE UNCHANGED discoveryVars /\ Manager!DropManager
  <2>1. /\ UNCHANGED told
        /\ UNCHANGED <<listener, event, queue, port_service_map>>
    BY <1>5 DEF Manager!DropManager
  <2> QED
    BY <2>1, QuietDiscovery
<1>6. CASE UNCHANGED discoveryVars /\ Manager!ReceiveEvent(Kubernetes)
  BY <1>6, ReceiveKeepsTable
<1>7. CASE UNCHANGED discoveryVars /\ Manager!ProcessEvent(Kubernetes)
  BY <1>7, ProcessKeepsTable
<1>8. CASE /\ UNCHANGED discoveryVars
           /\ \/ Manager!RegisterEndpointDiscovery(Kubernetes)
              \/ Manager!LockSender(Kubernetes)
              \/ \E x \in todo[Kubernetes] :
                     Manager!SendPortEvent(Kubernetes, x)
              \/ Manager!ReceiveDisconnect(Kubernetes)
  BY <1>8, ListenerKeepsTable
<1>9. CASE UNCHANGED vars
  BY <1>9, QuietDiscovery DEF vars
<1> QED
  BY <1>1, <1>2, <1>3, <1>4, <1>5, <1>6, <1>7, <1>8, <1>9
  DEF Next, ManagerOwner, ListenerWorks, ListenerDisconnects

\* The table starts with nothing known and nothing pending.
LEMMA TableInit ==
    Init => TableFollowsEvents
<1> SUFFICES ASSUME Init PROVE TableFollowsEvents
  OBVIOUS
<1>1. Pending = <<>>
  BY DEF Init, Manager!Init, Pending
<1>2. Table = told
  BY DEF Init, Manager!Init, Table, Manager!EndpointAt, Discovery!Untold
<1>3. LearnAll(told, <<>>) = told
  <2>1. PICK t : t = told
    OBVIOUS
  <2>2. LearnAll(t, <<>>) = t
    BY LearnNothing
  <2> QED
    BY <2>1, <2>2
<1> QED
  BY <1>1, <1>2, <1>3 DEF TableFollowsEvents

-----------------------------------------------------------------------------
(***************************************************************************)
(* ComponentsHold.  Joined by their channel, KubernetesEndpointDiscovery   *)
(* and ServiceManager keep the invariants they are proved to keep alone.   *)
(***************************************************************************)
THEOREM ComponentsHold ==
    Spec => []Components
<1>1. Init => Components
  BY ComponentsInit
<1>2. Components /\ [Next]_vars => Components'
  BY ComponentsStep
<1> QED
  BY <1>1, <1>2, PTL DEF Spec

(***************************************************************************)
(* TableFollowsTheEvents.  For every set of pods and every size of the     *)
(* channel, what process_event has put into the table, and what it still   *)
(* has before it, amounts to what the discovery has sent.                  *)
(***************************************************************************)
THEOREM TableFollowsTheEvents ==
    Spec => []TableFollowsEvents
<1>1. Init => Components /\ TableFollowsEvents
  BY ComponentsInit, TableInit
<1>2. Components /\ TableFollowsEvents /\ [Next]_vars
          => (Components /\ TableFollowsEvents)'
  BY ComponentsStep, TableStep
<1> QED
  BY <1>1, <1>2, PTL DEF Spec

\* A route that the table has is one to a pod that exists.  If that pod is
\* complete, it has not ended, and the route is available exactly if it runs.
RouteIsRight(u, p) ==
    Table[u][p] # "none" =>
        /\ u \in Discovery!Existing
        /\ cluster[u].details =>
               /\ cluster[u].phase # "Succeeded"
               /\ Table[u][p] = IF cluster[u].phase = "Running"
                                THEN "available" ELSE "suspended"

\* The half of RoutesFollowPods that needs nothing of the pods.
NoWrongRoutes ==
    /\ ListenerOpen
    /\ Discovery!CaughtUp
    /\ Pending = <<>>
    => \A u \in Uids, p \in PortNumbers : RouteIsRight(u, p)

\* It follows from what the two components and the channel do.
LEMMA RoutesAreTold ==
    ASSUME Components, TableFollowsEvents
    PROVE  NoWrongRoutes
<1> SUFFICES ASSUME ListenerOpen, Discovery!CaughtUp, Pending = <<>>,
                    NEW u \in Uids, NEW p \in PortNumbers,
                    Table[u][p] # "none"
             PROVE  /\ u \in Discovery!Existing
                    /\ cluster[u].details =>
                           /\ cluster[u].phase # "Succeeded"
                           /\ Table[u][p] = IF cluster[u].phase = "Running"
                                            THEN "available" ELSE "suspended"
  BY DEF NoWrongRoutes, RouteIsRight
<1>1. Table = told
  <2>1. LearnAll(Table, <<>>) = told
    BY DEF TableFollowsEvents, ListenerOpen
  <2>2. PICK t : t = Table
    OBVIOUS
  <2>3. LearnAll(t, <<>>) = t
    BY LearnNothing
  <2> QED
    BY <2>1, <2>2, <2>3
<1>2. /\ DiscoveryProofs!NoGhostEndpoints
      /\ DiscoveryProofs!AvailabilityFollowsPhase
  BY Assumptions, DiscoveryProofs!CaughtUpFacts DEF Components
<1>3. DiscoveryProofs!CaughtUp
  BY DEF Discovery!CaughtUp, DiscoveryProofs!CaughtUp, Discovery!Idle,
         DiscoveryProofs!Idle
<1>4. told[u][p] # "none" /\ told[u] # DiscoveryProofs!Untold
  BY <1>1 DEF DiscoveryProofs!Untold
<1>5. /\ u \in DiscoveryProofs!Existing
      /\ cluster[u].details => cluster[u].phase # "Succeeded"
  BY <1>2, <1>3, <1>4 DEF DiscoveryProofs!NoGhostEndpoints
<1>6. cluster[u].details =>
          told[u][p] = IF cluster[u].phase = "Running" THEN "available"
                       ELSE "suspended"
  BY <1>2, <1>3, <1>4 DEF DiscoveryProofs!AvailabilityFollowsPhase
<1> QED
  BY <1>1, <1>5, <1>6 DEF Discovery!Existing, DiscoveryProofs!Existing

(***************************************************************************)
(* RoutesAreSound.  Once both tasks have caught up with the cluster, the   *)
(* table that connections are routed by has no route to a pod that was     *)
(* deleted and, to a pod that is complete, none after it has succeeded and *)
(* none whose availability is stale, whatever went unseen while the watch  *)
(* was down and whatever was skipped while the pod was incomplete.  To a   *)
(* pod that lacks its status, IP or phase now the table may have any route *)
(* that it had: apply_pod skips that pod (kubernetes/mod.rs:203-214).      *)
(***************************************************************************)
THEOREM RoutesAreSound ==
    Spec => []NoWrongRoutes
<1>1. Components /\ TableFollowsEvents => NoWrongRoutes
  BY RoutesAreTold
<1> QED
  BY <1>1, ComponentsHold, TableFollowsTheEvents, PTL

-----------------------------------------------------------------------------
(* The other half: which routes have to be there.                          *)

\* The services of the pods, as the discovery tells of them.
LEMMA ServicesStep ==
    ASSUME Components, DiscoveryProofs!ServicesInv,
           DiscoveryProofs!ListedAreComplete, [Next]_vars
    PROVE  DiscoveryProofs!ServicesInv'
<1>1. DiscoveryProofs!IInv
  BY DEF Components
<1>2. CASE DiscoveryProofs!Next
  BY <1>1, <1>2, Assumptions, DiscoveryProofs!InductiveServices
<1>3. CASE UNCHANGED discoveryVars
  <2>1. UNCHANGED <<cluster, watched, stream, known_pod_uids, restarting,
                    listed, current_pod_uids, outbox, failing, told>>
    BY <1>3 DEF discoveryVars
  <2> QED
    BY <2>1, Assumptions, DiscoveryProofs!QuietServices
<1> QED
  BY <1>2, <1>3, DiscoverySteps

\* The pods stay complete.
LEMMA CompleteStep ==
    ASSUME DiscoveryProofs!CompletePods, Components,
           DiscoveryProofs!CompleteInv, [Next]_vars
    PROVE  DiscoveryProofs!CompleteInv'
<1>1. DiscoveryProofs!IInv
  BY DEF Components
<1>2. CASE DiscoveryProofs!Next
  BY <1>1, <1>2, Assumptions, DiscoveryProofs!InductiveComplete
<1>3. CASE UNCHANGED discoveryVars
  BY <1>3
  DEF discoveryVars, DiscoveryProofs!CompleteInv, DiscoveryProofs!Existing,
      DiscoveryProofs!ListedAreComplete, DiscoveryProofs!PodsIn
<1> QED
  BY <1>2, <1>3, DiscoverySteps

\* The initial states.
LEMMA ServicesInit ==
    Init => DiscoveryProofs!ServicesInv /\ DiscoveryProofs!CompleteInv
<1> SUFFICES ASSUME Init
             PROVE  DiscoveryProofs!ServicesInv /\ DiscoveryProofs!CompleteInv
  OBVIOUS
<1>1. ListenerOpen \in BOOLEAN
  BY DEF ListenerOpen
<1>2. DiscoveryProofs!Fresh
  BY <1>1 DEF Init, DiscoveryProofs!Fresh, Discovery!Untold,
              DiscoveryProofs!Untold
<1>3. DiscoveryProofs!ServicesInv
  BY <1>2, Assumptions, DiscoveryProofs!FreshServices
<1>4. DiscoveryProofs!CompleteInv
  BY DEF Init, DiscoveryProofs!CompleteInv, DiscoveryProofs!Existing,
         DiscoveryProofs!ListedAreComplete
<1> QED
  BY <1>3, <1>4

\* What the invariants say of the table when both tasks have caught up.
LEMMA RoutesAreServed ==
    ASSUME Components, TableFollowsEvents, DiscoveryProofs!ServicesInv
    PROVE  RoutesFollowPods
<1> SUFFICES ASSUME ListenerOpen, Discovery!CaughtUp, Pending = <<>>,
                    NEW u \in Uids
             PROVE  RoutesMatch(u)
  BY DEF RoutesFollowPods
<1>1. Table = told
  <2>1. LearnAll(Table, <<>>) = told
    BY DEF TableFollowsEvents, ListenerOpen
  <2>2. PICK t : t = Table
    OBVIOUS
  <2>3. LearnAll(t, <<>>) = t
    BY LearnNothing
  <2> QED
    BY <2>1, <2>2, <2>3
<1>2. DiscoveryProofs!IInv /\ DiscoveryProofs!CaughtUp
  BY DEF Components, Discovery!CaughtUp, DiscoveryProofs!CaughtUp,
         Discovery!Idle, DiscoveryProofs!Idle
<1>3. DiscoveryProofs!AvailabilityFollowsPhase
  BY <1>2, Assumptions, DiscoveryProofs!CaughtUpFacts
<1>4. u \in DiscoveryProofs!Existing <=> u \in Discovery!Existing
  BY DEF Discovery!Existing, DiscoveryProofs!Existing
<1> SUFFICES ASSUME NEW p \in PortNumbers
             PROVE  IF Skipped(u)
                    THEN told[u][p] # "none" => ServedOn(cluster[u], p)
                    ELSE told[u][p] = Expected(u, p)
  BY <1>1 DEF RoutesMatch
<1>5. /\ DiscoveryProofs!Served(u, p) => told[u][p] # "none"
      /\ told[u][p] # "none" =>
             /\ DiscoveryProofs!Visible(u)
             /\ DiscoveryProofs!HasPort(cluster[u], p)
             /\ cluster[u].details => DiscoveryProofs!Served(u, p)
  BY <1>2, Assumptions, DiscoveryProofs!CaughtUpServes
<1>6. CASE Skipped(u)
  BY <1>5, <1>6 DEF ServedOn, DiscoveryProofs!HasPort
<1>7. CASE ~Skipped(u)
  <2>1. told[u][p] # "none" <=> DiscoveryProofs!Served(u, p)
    BY <1>4, <1>5, <1>7 DEF Skipped, DiscoveryProofs!Visible
  <2>2. DiscoveryProofs!Served(u, p) <=>
            /\ u \in Discovery!Existing
            /\ Discovery!Complete(cluster[u])
            /\ cluster[u].phase # "Succeeded"
            /\ ServedOn(cluster[u], p)
    <3>1. u \in DiscoveryProofs!Existing => cluster[u].uid \in {u, None}
      BY <1>2 DEF DiscoveryProofs!IInv, DiscoveryProofs!SlotsOK
    <3>2. u # None
      BY Assumptions DEF DiscoveryProofs!KubernetesAssumption
    <3> QED
      BY <1>4, <3>1, <3>2
      DEF DiscoveryProofs!Served, DiscoveryProofs!Visible, ServedOn,
          DiscoveryProofs!HasPort, Discovery!Complete
  <2>3. DiscoveryProofs!Served(u, p) =>
            told[u][p] = IF cluster[u].phase = "Running" THEN "available"
                         ELSE "suspended"
    BY <1>2, <1>3, <2>1
    DEF DiscoveryProofs!AvailabilityFollowsPhase, DiscoveryProofs!Served
  <2> QED
    BY <1>7, <2>1, <2>2, <2>3 DEF Expected
<1> QED
  BY <1>6, <1>7

(***************************************************************************)
(* RoutesAreExact.  As long as no list that the watch starts anew with has *)
(* an incomplete pod, the table routes to exactly the pods there are once  *)
(* both tasks have caught up, whatever pods there are, whatever went       *)
(* unseen while the watch was down and however small the channel is.       *)
(* Of a pod that is incomplete it may have routes from when it was not, to *)
(* its own ports only; they are right again when it is complete again      *)
(* (handle_pod_event, process_event).                                      *)
(***************************************************************************)
THEOREM RoutesAreExact ==
    Spec /\ []DiscoveryProofs!ListedAreComplete => []RoutesFollowPods
<1>1. Init => DiscoveryProofs!ServicesInv
  BY ServicesInit
<1>2. Components /\ DiscoveryProofs!ServicesInv
      /\ DiscoveryProofs!ListedAreComplete /\ [Next]_vars
          => DiscoveryProofs!ServicesInv'
  BY ServicesStep
<1>3. Components /\ TableFollowsEvents /\ DiscoveryProofs!ServicesInv
          => RoutesFollowPods
  BY RoutesAreServed
<1> QED
  BY <1>1, <1>2, <1>3, ComponentsHold, TableFollowsTheEvents, PTL DEF Spec

(***************************************************************************)
(* RoutesOfCompletePods.  In a cluster whose pods are complete from the    *)
(* start and never lose a detail that needs no condition on the lists.     *)
(***************************************************************************)
THEOREM RoutesOfCompletePods ==
    ASSUME DiscoveryProofs!CompletePods
    PROVE  Spec => []RoutesFollowPods
<1>1. Init => DiscoveryProofs!CompleteInv
  BY ServicesInit
<1>2. Components /\ DiscoveryProofs!CompleteInv /\ [Next]_vars
          => DiscoveryProofs!CompleteInv'
  BY CompleteStep
<1>3. DiscoveryProofs!CompleteInv => DiscoveryProofs!ListedAreComplete
  BY DEF DiscoveryProofs!CompleteInv
<1>4. Spec => []DiscoveryProofs!ListedAreComplete
  BY <1>1, <1>2, <1>3, ComponentsHold, PTL DEF Spec
<1> QED
  BY <1>4, RoutesAreExact, PTL

-----------------------------------------------------------------------------
(***************************************************************************)
(* ImplementsManager.  What the Kubernetes discovery sends is input that   *)
(* ServiceManager allows: the composition implements the ServiceManager    *)
(* with this one discovery, so that all that is proved or checked of that  *)
(* holds for it.                                                           *)
(***************************************************************************)
THEOREM ImplementsManager ==
    Spec => Manager!Spec
<1>1. Init => Manager!Init
  BY DEF Init
<1>2. Components /\ [Next]_vars => [Manager!Next]_(Manager!vars)
  <2> SUFFICES ASSUME Components, [Next]_vars
               PROVE  Manager!Next \/ UNCHANGED Manager!vars
    OBVIOUS
  <2>1. CASE UNCHANGED managerVars
    BY <2>1 DEF managerVars, Manager!vars
  <2>2. CASE TaskSends
    <3>1. PICK e \in Discovery!EndpointEvents : e = Head(outbox)
      BY <2>2, OutboxTyped DEF TaskSends, Components
    <3>2. Manager!DiscoverySends(Kubernetes, e)
      BY <2>2, <3>1 DEF TaskSends
    <3> QED
      BY <3>2 DEF Manager!Next, Manager!Discovery
  <2>3. CASE TaskEnds \/ ManagerOwner
    BY <2>3 DEF TaskEnds, ManagerOwner, Manager!Next, Manager!Discovery
  <2>4. CASE ListenerWorks \/ ListenerDisconnects
    BY <2>4 DEF ListenerWorks, ListenerDisconnects, Manager!Next,
                Manager!Listener
  <2> QED
    BY <2>1, <2>2, <2>3, <2>4
    DEF Next, ClusterChanges, WatchChanges, TaskWorks, vars
<1> QED
  BY <1>1, <1>2, ComponentsHold, PTL DEF Spec, Manager!Spec
=============================================================================
