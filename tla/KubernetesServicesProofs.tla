---------------------- MODULE KubernetesServicesProofs -----------------------
(***************************************************************************)
(* Proofs about the services that KubernetesDiscovery tells of: beside     *)
(* what KubernetesDiscoveryProofs says of the endpoints that are there,    *)
(* which endpoints have to be there.                                       *)
(***************************************************************************)
EXTENDS KubernetesDiscoveryProofs

-----------------------------------------------------------------------------
(* The inductive invariant.                                                *)

\* A pod is served on port p.
HasPort(pod, p) == \E k \in DOMAIN pod.services : pod.services[k][1] = p

\* The Add of a port is still to be sent.
ToBeAdded(u, p) ==
    \E k \in DOMAIN outbox : /\ outbox[k].type = "Add"
                             /\ outbox[k].uid = u
                             /\ outbox[k].external_port = p

\* An endpoint has been added, or will be.
WillTell(u, p) == told[u][p] # "none" \/ ToBeAdded(u, p)

\* All services of u have been added or will be, and will not be deleted.
AllTold(u) ==
    /\ ~InOutbox("Delete", u)
    /\ \A k \in DOMAIN cluster[u].services :
           /\ Parses(cluster[u].services[k])
           /\ WillTell(u, cluster[u].services[k][1])

\* The task can see pod u, and the pod has not ended.
Serving(u) == Visible(u) /\ cluster[u].phase # "Succeeded"

\* The reports are of the pods of the cluster.
ReportsOK ==
    /\ \A x \in listed :
           x.uid \in Existing => SameServices(x, cluster[x.uid])
    /\ \A i \in DOMAIN stream :
           /\ \A x \in PodsIn(stream[i]) :
                  x.uid \in Existing => SameServices(x, cluster[x.uid])
           /\ stream[i].type = "Deleted" /\ stream[i].pod.uid # None =>
                  cluster[stream[i].pod.uid] = Gone

\* Nothing is known or told of a pod before it is created.
NotYetOK ==
    \A u \in Uids : cluster[u] = None =>
        /\ u \notin known_pod_uids \cup current_pod_uids
        /\ \A p \in PortNumbers : ~WillTell(u, p)

\* Nothing else is told of a pod than its services.
PortsOK ==
    \A u \in Uids, p \in PortNumbers :
        Visible(u) /\ WillTell(u, p) => HasPort(cluster[u], p)

\* All services of a pod that is known are told.
ServedOK ==
    ~failing => \A u \in known_pod_uids \cup current_pod_uids :
        Serving(u) => AllTold(u)

\* A complete pod of which no news is on its way is known.
FoundOK ==
    watched /\ ~failing /\ ~restarting => \A u \in Uids :
        /\ Serving(u) /\ cluster[u].details
        /\ \A i \in DOMAIN stream : ~Concerns(stream[i], u)
        => u \in known_pod_uids

ServicesInv == ReportsOK /\ NotYetOK /\ PortsOK /\ ServedOK /\ FoundOK

(***************************************************************************)
(* The condition.  Handling a Restarted event makes its pods known even if *)
(* apply_pod skipped them, and then never adds their services: the list    *)
(* must not have incomplete pods.                                          *)
(***************************************************************************)
ListedAreComplete == \A pod \in listed : pod.details

-----------------------------------------------------------------------------
(* Steps that tell nothing.                                                *)

\* With the outbox as it is, the same is told.
LEMMA SameOutbox ==
    ASSUME UNCHANGED <<outbox, told>>
    PROVE  /\ \A u, p : WillTell(u, p)' <=> WillTell(u, p)
           /\ \A t, u : InOutbox(t, u)' <=> InOutbox(t, u)
BY DEF WillTell, ToBeAdded, InOutbox

\* What is told of a pod whose services stay the same.
LEMMA SameAllTold ==
    ASSUME NEW u \in Uids, UNCHANGED <<outbox, told>>,
           cluster'[u].services = cluster[u].services, AllTold(u)
    PROVE  AllTold(u)'
BY SameOutbox DEF AllTold

\* The pod that changes, seen by the task.
LEMMA BecomesSeen ==
    ASSUME IInv, NEW u \in Uids, NEW pod, NEW e, Becomes(u, pod, e),
           Visible(u)'
    PROVE  /\ e.type = "Applied" /\ e.pod = pod /\ pod \in Pods
           /\ pod.uid = u /\ cluster'[u] = pod
           /\ cluster[u] # None =>
                  Visible(u) /\ SameServices(cluster[u], cluster'[u])
<1>1. /\ cluster'[u] = pod
      /\ pod # Gone
      /\ pod.uid = u
  <2>1. cluster'[u] = pod
    BY BecomesFacts
  <2> QED
    BY <2>1 DEF Visible, Existing
<1>2. /\ e = [type |-> "Applied", pod |-> pod]
      /\ pod \in Pods /\ cluster[u] # Gone
      /\ cluster[u] # None =>
             pod.uid = cluster[u].uid /\ SameServices(cluster[u], pod)
  BY <1>1 DEF Becomes
<1>3. cluster[u] # None => Visible(u)
  BY <1>1, <1>2 DEF Visible, Existing
<1> QED
  BY <1>1, <1>2, <1>3

\* The reports of the other pods, and those of the pod that changes.
LEMMA BecomesReportsOK ==
    ASSUME IInv, ReportsOK, NEW u \in Uids, NEW pod, NEW e,
           Becomes(u, pod, e)
    PROVE  ReportsOK'
<1>1. /\ e \in StreamEvents
      /\ e.type \in {"Applied", "Deleted"} /\ e.pod \in Pods
      /\ e.pod.uid \in {u, None}
      /\ PodsIn(e) = {x \in {e.pod} : x.uid = u}
      /\ cluster'[u] = pod
      /\ \A w \in Uids \ {u} : cluster'[w] = cluster[w]
  BY BecomesFacts
<1>2. /\ \A x \in listed : x \in Pods /\ x.uid \in Uids
      /\ \A i \in DOMAIN stream :
             /\ stream[i] \in StreamEvents
             /\ \A x \in PodsIn(stream[i]) : x \in Pods /\ x.uid \in Uids
  BY ReportFacts DEF IInv
<1>3. ASSUME NEW x \in Pods, x.uid \in Uids, FitsCluster(x),
             x.uid \in Existing => SameServices(x, cluster[x.uid]),
             x.uid \in Existing'
      PROVE  SameServices(x, cluster'[x.uid])
  <2>1. CASE x.uid # u
    BY <1>1, <1>3, <2>1 DEF Existing
  <2>2. CASE x.uid = u
    <3>1. pod # Gone /\ pod # None
      BY <1>1, <1>3, <2>2 DEF Existing
    <3>2. /\ cluster[u] # None /\ cluster[u] # Gone
          /\ SameServices(cluster[u], pod)
      BY <1>3, <2>2, <3>1 DEF FitsCluster, Becomes
    <3>3. SameServices(x, cluster[u])
      BY <1>3, <2>2, <3>2 DEF Existing
    <3> QED
      BY <1>1, <2>2, <3>2, <3>3 DEF SameServices
  <2> QED
    BY <2>1, <2>2
<1>4. ASSUME NEW x \in listed', x.uid \in Existing'
      PROVE  SameServices(x, cluster'[x.uid])
  BY <1>2, <1>3, <1>4 DEF IInv, ListedOK, ReportsOK, Becomes
<1>5. ASSUME NEW i \in DOMAIN stream
      PROVE  /\ \A x \in PodsIn(stream[i]) :
                    x.uid \in Existing' => SameServices(x, cluster'[x.uid])
             /\ stream[i].type = "Deleted" /\ stream[i].pod.uid # None =>
                    cluster'[stream[i].pod.uid] = Gone
  <2>1. \A x \in PodsIn(stream[i]) :
            x.uid \in Existing' => SameServices(x, cluster'[x.uid])
    BY <1>2, <1>3 DEF IInv, StreamOK, ReportsOK
  <2>2. ASSUME stream[i].type = "Deleted", stream[i].pod.uid # None
        PROVE  cluster'[stream[i].pod.uid] = Gone
    <3>1. stream[i].pod.uid \in Uids
      BY <1>2, <2>2, StreamEventFacts, PodFacts
    <3>2. cluster[stream[i].pod.uid] = Gone
      BY <2>2 DEF ReportsOK
    <3>3. stream[i].pod.uid # u
      BY <3>2 DEF Becomes
    <3> QED
      BY <1>1, <3>1, <3>2, <3>3
  <2> QED
    BY <2>1, <2>2
<1>6. /\ \A x \in PodsIn(e) :
             x.uid \in Existing' => SameServices(x, cluster'[x.uid])
      /\ e.type = "Deleted" /\ e.pod.uid # None => cluster'[e.pod.uid] = Gone
  <2>1. CASE e = [type |-> "Applied", pod |-> pod]
    BY <1>1, <2>1 DEF SameServices
  <2>2. CASE e = [type |-> "Deleted", pod |-> cluster[u]] /\ pod = Gone
    BY <1>1, <2>2 DEF Existing
  <2> QED
    BY <2>1, <2>2 DEF Becomes
<1>7. CASE stream' = stream
  BY <1>4, <1>5, <1>7 DEF ReportsOK
<1>8. CASE stream' = Append(stream, e)
  <2>1. stream \in Seq(StreamEvents)
    BY DEF IInv, TypeOK
  <2>2. \A i \in DOMAIN stream' :
            \/ i \in DOMAIN stream /\ stream'[i] = stream[i]
            \/ stream'[i] = e
    BY <1>1, <1>8, <2>1, AppendFacts
  <2>3. \A i \in DOMAIN stream' :
            /\ \A x \in PodsIn(stream'[i]) :
                   x.uid \in Existing' => SameServices(x, cluster'[x.uid])
            /\ stream'[i].type = "Deleted" /\ stream'[i].pod.uid # None =>
                   cluster'[stream'[i].pod.uid] = Gone
    BY <1>5, <1>6, <2>2
  <2> QED
    BY <1>4, <2>3 DEF ReportsOK
<1> QED
  BY <1>7, <1>8 DEF Becomes

\* A change of the cluster.
LEMMA BecomesServices ==
    ASSUME IInv, ServicesInv, NEW u \in Uids, NEW pod, NEW e,
           Becomes(u, pod, e)
    PROVE  ServicesInv'
<1>1. /\ UNCHANGED <<watched, known_pod_uids, restarting, listed,
                     current_pod_uids, outbox, failing, told>>
      /\ cluster'[u] = pod /\ pod # None /\ cluster[u] # Gone
      /\ \A w \in Uids \ {u} : cluster'[w] = cluster[w]
      /\ \A w \in Uids \ {u} : Visible(w)' <=> Visible(w)
  BY BecomesFacts DEF Becomes
<1>2. /\ \A w, p : WillTell(w, p)' <=> WillTell(w, p)
      /\ \A t, w : InOutbox(t, w)' <=> InOutbox(t, w)
  BY <1>1, SameOutbox
<1>3. known_pod_uids \cup current_pod_uids \subseteq Uids
  BY DEF IInv, TypeOK
<1>4. ReportsOK'
  BY BecomesReportsOK DEF ServicesInv
<1>5. NotYetOK'
  BY <1>1, <1>2 DEF ServicesInv, NotYetOK
<1>6. PortsOK'
  <2> SUFFICES ASSUME NEW w \in Uids, NEW p \in PortNumbers, Visible(w)',
                      WillTell(w, p)
               PROVE  HasPort(cluster'[w], p)
    BY <1>2 DEF PortsOK
  <2>1. CASE w # u
    BY <1>1, <2>1 DEF ServicesInv, PortsOK
  <2>2. CASE w = u
    <3>1. cluster[u] # None
      BY <2>2 DEF ServicesInv, NotYetOK
    <3>2. Visible(u) /\ SameServices(cluster[u], cluster'[u])
      BY <2>2, <3>1, BecomesSeen
    <3>3. HasPort(cluster[u], p)
      BY <2>2, <3>2 DEF ServicesInv, PortsOK
    <3> QED
      BY <2>2, <3>2, <3>3 DEF HasPort, SameServices
  <2> QED
    BY <2>1, <2>2
<1>7. ServedOK'
  <2> SUFFICES ASSUME ~failing, NEW w \in known_pod_uids \cup current_pod_uids,
                      Serving(w)'
               PROVE  AllTold(w)'
    BY <1>1 DEF ServedOK
  <2>1. Serving(w) /\ cluster'[w].services = cluster[w].services
    <3>1. CASE w # u
      BY <1>1, <1>3, <3>1 DEF Serving
    <3>2. CASE w = u
      <4>1. cluster[u] # None
        BY <3>2 DEF ServicesInv, NotYetOK
      <4>2. Visible(u) /\ SameServices(cluster[u], cluster'[u])
        BY <3>2, <4>1, BecomesSeen DEF Serving
      <4> QED
        BY <3>2, <4>2 DEF Serving, SameServices
    <3> QED
      BY <3>1, <3>2
  <2>2. AllTold(w)
    BY <2>1 DEF ServicesInv, ServedOK
  <2> QED
    BY <1>1, <1>3, <2>1, <2>2, SameAllTold
<1>8. FoundOK'
  <2> SUFFICES ASSUME watched, ~failing, ~restarting, NEW w \in Uids,
                      Serving(w)', cluster'[w].details,
                      \A i \in DOMAIN stream' : ~Concerns(stream'[i], w)
               PROVE  w \in known_pod_uids
    BY <1>1 DEF FoundOK
  <2>1. stream' = Append(stream, e) /\ stream \in Seq(StreamEvents)
        /\ e \in StreamEvents
    BY BecomesFacts DEF Becomes, IInv, TypeOK
  <2>2. /\ Len(stream) + 1 \in DOMAIN stream' /\ stream'[Len(stream) + 1] = e
        /\ \A i \in DOMAIN stream :
               i \in DOMAIN stream' /\ stream'[i] = stream[i]
    BY <2>1, AppendFacts
  <2>3. ~Concerns(e, w) /\ \A i \in DOMAIN stream : ~Concerns(stream[i], w)
    BY <2>2
  <2>4. w # u
    <3> SUFFICES ASSUME w = u PROVE FALSE
      OBVIOUS
    <3>1. e.pod.uid = u
      BY BecomesSeen DEF Serving
    <3> QED
      BY <2>3, <3>1 DEF Concerns
  <2>5. Serving(w) /\ cluster[w].details
    BY <1>1, <2>4 DEF Serving
  <2> QED
    BY <2>3, <2>5 DEF ServicesInv, FoundOK
<1> QED
  BY <1>4, <1>5, <1>6, <1>7, <1>8 DEF ServicesInv

\* The pods of the cluster come, change and go.
LEMMA ClusterServices ==
    ASSUME IInv, ServicesInv, NEW u \in Uids,
           PodCreated(u) \/ PodChanged(u) \/ PodDeleted(u)
    PROVE  ServicesInv'
BY ClusterBecomes, BecomesServices

\* The cluster, the reports and what is told of them stay the same.
LEMMA QuietServices ==
    ASSUME ServicesInv,
           UNCHANGED <<cluster, watched, stream, known_pod_uids, restarting,
                       listed, current_pod_uids, outbox, failing, told>>
    PROVE  ServicesInv'
<1>1. /\ \A w, p : WillTell(w, p)' <=> WillTell(w, p)
      /\ \A t, w : InOutbox(t, w)' <=> InOutbox(t, w)
      /\ \A w : Visible(w)' <=> Visible(w)
      /\ \A w : w \in Existing' <=> w \in Existing
  BY SameOutbox, SameCluster DEF Existing
<1>2. \A w : (Serving(w)' <=> Serving(w)) /\ (AllTold(w)' <=> AllTold(w))
  BY <1>1 DEF Serving, AllTold
<1>3. ReportsOK'
  BY <1>1 DEF ServicesInv, ReportsOK
<1>4. NotYetOK'
  BY <1>1 DEF ServicesInv, NotYetOK
<1>5. PortsOK'
  BY <1>1 DEF ServicesInv, PortsOK
<1>6. ServedOK'
  BY <1>2 DEF ServicesInv, ServedOK
<1>7. FoundOK'
  BY <1>2 DEF ServicesInv, FoundOK
<1> QED
  BY <1>3, <1>4, <1>5, <1>6, <1>7 DEF ServicesInv

\* The watch comes and goes.
LEMMA WatchServices ==
    ASSUME IInv, ServicesInv, WatchLost \/ WatchRestarted
    PROVE  ServicesInv'
<1>1. UNCHANGED <<cluster, known_pod_uids, restarting, listed,
                  current_pod_uids, outbox, failing, told>>
  BY DEF WatchLost, WatchRestarted, runtimeVars
<1>2. /\ \A w, p : WillTell(w, p)' <=> WillTell(w, p)
      /\ \A t, w : InOutbox(t, w)' <=> InOutbox(t, w)
      /\ \A w : Visible(w)' <=> Visible(w)
      /\ \A w : w \in Existing' <=> w \in Existing
  BY <1>1, SameOutbox, SameCluster DEF Existing
<1>3. \A w : (Serving(w)' <=> Serving(w)) /\ (AllTold(w)' <=> AllTold(w))
  BY <1>1, <1>2 DEF Serving, AllTold
<1>4. NotYetOK' /\ PortsOK' /\ ServedOK'
  BY <1>1, <1>2, <1>3 DEF ServicesInv, NotYetOK, PortsOK, ServedOK
<1>5. CASE WatchLost
  <2>1. UNCHANGED stream /\ watched' = FALSE
    BY <1>5 DEF WatchLost
  <2>2. ReportsOK' /\ FoundOK'
    BY <1>1, <1>2, <2>1 DEF ServicesInv, ReportsOK, FoundOK
  <2> QED
    BY <1>4, <2>2 DEF ServicesInv
<1>6. CASE WatchRestarted
  <2>1. PICK e : e = [type |-> "Restarted",
                      pods |-> {cluster[u] : u \in Existing}]
    OBVIOUS
  <2>2. /\ e.type = "Restarted" /\ e \in StreamEvents
        /\ stream \in Seq(StreamEvents) /\ stream' = Append(stream, e)
    <3>1. cluster \in [Uids -> Pods \cup {None, Gone}]
          /\ stream \in Seq(StreamEvents)
      BY DEF IInv, TypeOK
    <3>2. {cluster[u] : u \in Existing} \subseteq Pods
      BY <3>1 DEF Existing
    <3> QED
      BY <1>6, <2>1, <3>1, <3>2 DEF WatchRestarted, StreamEvents
  <2>3. \A x \in PodsIn(e) : x.uid \in Uids /\ x = cluster[x.uid]
    BY <2>1, KubernetesAssumption DEF PodsIn, Existing, IInv, SlotsOK
  <2>4. /\ Len(stream) + 1 \in DOMAIN stream' /\ stream'[Len(stream) + 1] = e
        /\ \A i \in DOMAIN stream' :
               \/ i \in DOMAIN stream /\ stream'[i] = stream[i]
               \/ stream'[i] = e
    BY <2>2, AppendFacts
  <2>5. ReportsOK'
    BY <1>1, <1>2, <2>2, <2>3, <2>4
    DEF ServicesInv, ReportsOK, SameServices
  <2>6. FoundOK'
    BY <2>2, <2>4 DEF FoundOK, Concerns
  <2> QED
    BY <1>4, <2>5, <2>6 DEF ServicesInv
<1> QED
  BY <1>5, <1>6

-----------------------------------------------------------------------------
(* apply_pod.                                                              *)

\* After report x has been applied: if that is the first one, all of its
\* services will be told; nothing else will, and no other pod is affected.
Serves(x) ==
    /\ \A w \in Uids \ {x.uid} :
           /\ w \in known_pod_uids' <=> w \in known_pod_uids
           /\ \A t : ~InOutbox(t, w)'
           /\ \A p : WillTell(w, p)' <=> WillTell(w, p)
    /\ \A p : WillTell(x.uid, p) => WillTell(x.uid, p)'
    /\ \A p : WillTell(x.uid, p)' => WillTell(x.uid, p) \/ HasPort(x, p)
    /\ ~x.details => UNCHANGED <<known_pod_uids, outbox>>
    /\ ~failing' /\ x.details /\ x.phase # "Succeeded" =>
           /\ x.uid \in known_pod_uids'
           /\ ~InOutbox("Delete", x.uid)'
           /\ x.uid \notin known_pod_uids =>
                  \A k \in DOMAIN x.services :
                      /\ Parses(x.services[k])
                      /\ WillTell(x.uid, x.services[k][1])'

\* The Adds of a pod are those of its services.
LEMMA AddsPorts ==
    ASSUME NEW x \in Pods
    PROVE  /\ DOMAIN Adds(x) = GoodServices(x.services)
           /\ DOMAIN Adds(x) \subseteq DOMAIN x.services
           /\ \A k \in DOMAIN Adds(x) :
                  /\ Adds(x)[k].type = "Add" /\ Adds(x)[k].uid = x.uid
                  /\ Adds(x)[k].external_port = x.services[k][1]
                  /\ Parses(x.services[k])
<1>1. x.services \in Seq(Seq(Fields))
  BY PodFacts
<1> QED
  BY <1>1, GoodServicesFacts DEF Adds, AddOf

\* The events of a handler, one after the other.
LEMMA JoinFacts ==
    ASSUME NEW a \in Seq(EndpointEvents), NEW b \in Seq(EndpointEvents),
           Len(b) <= 1
    PROVE  /\ \A k \in DOMAIN a : k \in DOMAIN (a \o b) /\ (a \o b)[k] = a[k]
           /\ \A k \in DOMAIN (a \o b) :
                  \/ k \in DOMAIN a /\ (a \o b)[k] = a[k]
                  \/ 1 \in DOMAIN b /\ (a \o b)[k] = b[1]
<1> DEFINE m == Len(a)
           n == Len(b)
<1>1. /\ m \in Nat /\ n \in {0, 1}
      /\ DOMAIN a = 1..m /\ DOMAIN b = 1..n /\ DOMAIN (a \o b) = 1..(m + n)
      /\ \A k \in 1..(m + n) : (a \o b)[k] = IF k <= m THEN a[k] ELSE b[k - m]
  <2>1. /\ m \in Nat /\ n \in Nat
        /\ DOMAIN a = 1..m /\ DOMAIN b = 1..n
    OBVIOUS
  <2>2. n \in {0, 1}
    BY <2>1
  <2>3. DOMAIN (a \o b) = 1..(m + n)
    OBVIOUS
  <2>4. \A k \in 1..(m + n) : (a \o b)[k] = IF k <= m THEN a[k] ELSE b[k - m]
    OBVIOUS
  <2> QED
    BY <2>1, <2>2, <2>3, <2>4
<1>2. PICK c : c = a \o b
  OBVIOUS
<1>3. /\ DOMAIN c = 1..(m + n)
      /\ \A k \in 1..(m + n) : c[k] = IF k <= m THEN a[k] ELSE b[k - m]
  BY <1>1, <1>2
<1> HIDE DEF m, n
<1>4. \A k \in DOMAIN a : k \in DOMAIN c /\ c[k] = a[k]
  BY <1>1, <1>3
<1>5. \A k \in DOMAIN c : \/ k \in DOMAIN a /\ c[k] = a[k]
                          \/ 1 \in DOMAIN b /\ c[k] = b[1]
  <2> SUFFICES ASSUME NEW k \in 1..(m + n)
               PROVE  \/ k \in DOMAIN a /\ c[k] = a[k]
                      \/ 1 \in DOMAIN b /\ c[k] = b[1]
    BY <1>3
  <2>1. CASE k <= m
    BY <1>1, <1>3, <2>1
  <2>2. CASE ~(k <= m)
    <3>1. n = 1 /\ k - m = 1
      BY <1>1, <2>2
    <3> QED
      BY <1>1, <1>3, <2>2, <3>1
  <2> QED
    BY <2>1, <2>2
<1> QED
  BY <1>2, <1>4, <1>5

\* apply_pod sends nothing.
LEMMA ServesNothing ==
    ASSUME Idle, NEW x, UNCHANGED <<told, outbox, known_pod_uids>>,
           ~x.details \/ failing'
    PROVE  Serves(x)
<1>1. outbox = <<>>
  BY DEF Idle
<1>2. \A t, w : ~InOutbox(t, w)
  BY <1>1, EmptyOutbox
<1>3. /\ \A w, p : WillTell(w, p)' <=> WillTell(w, p)
      /\ \A t, w : ~InOutbox(t, w)'
  BY <1>2, SameOutbox
<1> QED
  BY <1>3 DEF Serves

\* apply_pod sends the services of a new pod and perhaps an event for its
\* phase.
LEMMA ServesEvents ==
    ASSUME IInv, Idle, NEW x \in Pods, x.uid \in Uids, UNCHANGED told,
           x.details, NEW adds \in Seq(EndpointEvents),
           NEW rest \in Seq(EndpointEvents),
           adds = (IF IsNew(x) THEN Adds(x) ELSE <<>>),
           Len(rest) <= 1,
           1 \in DOMAIN rest =>
               /\ rest[1].type # "Add" /\ rest[1].uid = x.uid
               /\ x.phase # "Succeeded" => rest[1].type # "Delete",
           outbox' = adds \o rest,
           \/ failing'
           \/ /\ IsNew(x) => AllServicesParse(x)
              /\ x.phase # "Succeeded" => x.uid \in known_pod_uids',
           \A w \in Uids \ {x.uid} :
               w \in known_pod_uids' <=> w \in known_pod_uids
    PROVE  Serves(x)
<1> DEFINE u == x.uid
<1>1. outbox = <<>>
  BY DEF Idle
<1>2. /\ \A t, w : ~InOutbox(t, w)
      /\ \A w, p : ~ToBeAdded(w, p)
  BY <1>1, EmptyOutbox DEF ToBeAdded
<1>3. \A k \in DOMAIN adds : /\ adds[k].type = "Add" /\ adds[k].uid = u
                             /\ k \in DOMAIN x.services
                             /\ adds[k].external_port = x.services[k][1]
  BY AddsPorts
<1>4. PICK events : events = adds \o rest
  OBVIOUS
<1>5. /\ \A k \in DOMAIN adds : k \in DOMAIN events /\ events[k] = adds[k]
      /\ \A k \in DOMAIN events : \/ k \in DOMAIN adds /\ events[k] = adds[k]
                                  \/ 1 \in DOMAIN rest /\ events[k] = rest[1]
  BY <1>4, JoinFacts
<1>6. outbox' = events
  BY <1>4, Zenon
<1>7. \A k \in DOMAIN events :
          /\ events[k].uid = u
          /\ events[k].type = "Add" =>
                 \E j \in DOMAIN x.services :
                     events[k].external_port = x.services[j][1]
          /\ x.phase # "Succeeded" => events[k].type # "Delete"
  BY <1>3, <1>5, SMTT(20)
<1>8. \A w \in Uids \ {u} : \A t : ~InOutbox(t, w)'
  BY <1>6, <1>7 DEF InOutbox
<1>9. \A w \in Uids \ {u} : \A p : ~ToBeAdded(w, p)'
  BY <1>6, <1>7 DEF ToBeAdded
<1>10. \A w \in Uids \ {u} : \A p : WillTell(w, p)' <=> WillTell(w, p)
  BY <1>2, <1>9 DEF WillTell
<1>11. \A p : WillTell(u, p) => WillTell(u, p)'
  BY <1>2 DEF WillTell
<1>12. \A p : ToBeAdded(u, p)' => HasPort(x, p)
  BY <1>6, <1>7, SMTT(20) DEF ToBeAdded, HasPort
<1>13. \A p : WillTell(u, p)' => WillTell(u, p) \/ HasPort(x, p)
  BY <1>12 DEF WillTell
<1>14. x.phase # "Succeeded" => ~InOutbox("Delete", u)'
  BY <1>6, <1>7 DEF InOutbox
<1>15. ASSUME ~failing', x.phase # "Succeeded", u \notin known_pod_uids,
              NEW k \in DOMAIN x.services
       PROVE  Parses(x.services[k]) /\ WillTell(u, x.services[k][1])'
  <2>1. adds = Adds(x) /\ DOMAIN Adds(x) = DOMAIN x.services
    BY <1>15, AddsPorts DEF IsNew, AllServicesParse
  <2>2. k \in DOMAIN adds /\ k \in DOMAIN Adds(x)
    BY <2>1
  <2>3. /\ k \in DOMAIN outbox' /\ outbox'[k].type = "Add"
        /\ outbox'[k].uid = u /\ outbox'[k].external_port = x.services[k][1]
    BY <1>3, <1>5, <1>6, <2>2
  <2>4. ToBeAdded(u, x.services[k][1])'
    BY <2>3 DEF ToBeAdded
  <2>5. Parses(x.services[k])
    BY <2>2, AddsPorts
  <2> QED
    BY <2>4, <2>5 DEF WillTell
<1>16. ~failing' /\ x.phase # "Succeeded" => u \in known_pod_uids'
  OBVIOUS
<1> QED
  BY <1>8, <1>10, <1>11, <1>13, <1>14, <1>15, <1>16 DEF Serves

\* What apply_pod makes of a report.
LEMMA ServesFacts ==
    ASSUME IInv, Idle, NEW x \in Pods, x.uid \in Uids, ApplyPod(x),
           UNCHANGED told
    PROVE  Serves(x)
<1> DEFINE ok == IsNew(x) => AllServicesParse(x)
<1>1. failing = FALSE
  BY DEF Idle, IInv, TypeOK
<1>2. CASE ~x.details /\ UNCHANGED <<known_pod_uids, outbox, failing>>
  BY <1>2, ServesNothing
<1>3. CASE failing' = TRUE /\ UNCHANGED <<known_pod_uids, outbox>>
  BY <1>3, ServesNothing
<1>4. CASE /\ x.details
           /\ known_pod_uids' = IF ok /\ x.phase = "Succeeded"
                                THEN known_pod_uids \ {x.uid}
                                ELSE known_pod_uids \cup {x.uid}
           /\ outbox' = IF ok THEN (IF IsNew(x) THEN Adds(x) ELSE <<>>)
                                       \o PhaseEvents(x)
                        ELSE (IF IsNew(x) THEN Adds(x) ELSE <<>>)
           /\ failing' = ~ok
  <2>1. PICK adds : adds = IF IsNew(x) THEN Adds(x) ELSE <<>>
    OBVIOUS
  <2>2. adds \in Seq(EndpointEvents)
    BY <2>1, AddsFacts
  <2>3. PICK rest : rest = IF ok THEN PhaseEvents(x) ELSE <<>>
    OBVIOUS
  <2>4. /\ rest \in Seq(EndpointEvents) /\ Len(rest) <= 1
        /\ 1 \in DOMAIN rest =>
               /\ rest[1].type # "Add" /\ rest[1].uid = x.uid
               /\ x.phase # "Succeeded" => rest[1].type # "Delete"
    <3>1. CASE rest = <<>>
      BY <3>1
    <3>2. CASE rest = PhaseEvents(x)
      BY <3>1, <3>2, PhaseEventsFacts
    <3> QED
      BY <2>3, <3>1, <3>2
  <2>5. outbox' = adds \o rest
    <3>1. CASE ok
      BY <1>4, <2>1, <2>3, <3>1, Zenon
    <3>2. CASE ~ok
      <4>1. outbox' = adds /\ rest = <<>>
        BY <1>4, <2>1, <2>3, <3>2, Zenon
      <4> QED
        BY <2>2, <4>1
    <3> QED
      BY <3>1, <3>2
  <2>6. \/ failing'
        \/ /\ IsNew(x) => AllServicesParse(x)
           /\ x.phase # "Succeeded" => x.uid \in known_pod_uids'
    <3>1. CASE ok
      BY <1>4, <3>1
    <3>2. CASE ~ok
      BY <1>4, <3>2
    <3> QED
      BY <3>1, <3>2
  <2>7. \A w \in Uids \ {x.uid} :
            w \in known_pod_uids' <=> w \in known_pod_uids
    BY <1>4
  <2> HIDE DEF ok
  <2> QED
    BY <1>4, <2>1, <2>2, <2>4, <2>5, <2>6, <2>7, ServesEvents
<1> QED
  BY <1>2, <1>3, <1>4 DEF ApplyPod

\* The pod of a report has its services told.
LEMMA ServesKeeps ==
    ASSUME IInv, ServicesInv, Idle, NEW x \in Pods, x.uid \in Uids,
           Serves(x), FitsCluster(x),
           x.uid \in Existing => SameServices(x, cluster[x.uid]),
           UNCHANGED cluster, known_pod_uids' \subseteq Uids,
           \/ UNCHANGED current_pod_uids
           \/ x.details /\ current_pod_uids' = current_pod_uids \cup {x.uid}
    PROVE  NotYetOK' /\ PortsOK' /\ ServedOK'
<1>1. /\ known_pod_uids \cup current_pod_uids \subseteq Uids
      /\ known_pod_uids' \cup current_pod_uids' \subseteq Uids
      /\ ~failing
  BY DEF IInv, TypeOK, Idle
<1>2. \A w : Visible(w)' <=> Visible(w)
  BY SameCluster
<1>3. \A w \in Uids \ {x.uid} :
          w \in known_pod_uids' \cup current_pod_uids' <=>
              w \in known_pod_uids \cup current_pod_uids
  BY DEF Serves
<1>4. NotYetOK'
  <2> SUFFICES ASSUME NEW w \in Uids, cluster[w] = None
               PROVE  /\ w \notin known_pod_uids' \cup current_pod_uids'
                      /\ \A p \in PortNumbers : ~WillTell(w, p)'
    BY DEF NotYetOK
  <2>1. w # x.uid
    BY DEF FitsCluster
  <2> QED
    BY <1>3, <2>1 DEF ServicesInv, NotYetOK, Serves
<1>5. PortsOK'
  <2> SUFFICES ASSUME NEW w \in Uids, NEW p \in PortNumbers, Visible(w),
                      WillTell(w, p)'
               PROVE  HasPort(cluster[w], p)
    BY <1>2 DEF PortsOK
  <2>1. CASE WillTell(w, p)
    BY <2>1 DEF ServicesInv, PortsOK
  <2>2. CASE ~WillTell(w, p)
    <3>1. w = x.uid /\ HasPort(x, p)
      BY <2>2 DEF Serves
    <3>2. x.services = cluster[w].services
      BY <3>1 DEF Visible, SameServices
    <3> QED
      BY <3>1, <3>2 DEF HasPort
  <2> QED
    BY <2>1, <2>2
<1>6. ServedOK'
  <2> SUFFICES ASSUME ~failing',
                      NEW w \in known_pod_uids' \cup current_pod_uids',
                      Serving(w)'
               PROVE  AllTold(w)'
    BY DEF ServedOK
  <2>1. w \in Uids /\ Serving(w)
    BY <1>1, <1>2 DEF Serving
  <2>2. CASE w # x.uid
    <3>1. AllTold(w)
      BY <1>1, <1>3, <2>1, <2>2 DEF ServicesInv, ServedOK
    <3> QED
      BY <2>1, <2>2, <3>1 DEF AllTold, Serves
  <2>3. CASE w = x.uid /\ ~x.details
    <3>1. w \in known_pod_uids \cup current_pod_uids
      BY <2>3 DEF Serves
    <3>2. AllTold(w) /\ ~InOutbox("Delete", w)
      BY <1>1, <2>1, <3>1 DEF ServicesInv, ServedOK, AllTold
    <3>3. ~InOutbox("Delete", w)'
      BY <2>3, <3>2 DEF Serves, InOutbox
    <3> QED
      BY <2>3, <3>2, <3>3 DEF AllTold, Serves
  <2>4. CASE w = x.uid /\ x.details
    <3>1. /\ x.services = cluster[w].services
          /\ x.phase # "Succeeded"
      BY <2>1, <2>4 DEF Serving, Visible, SameServices
    <3>2. ~InOutbox("Delete", w)'
      BY <2>4, <3>1 DEF Serves
    <3>3. CASE w \in known_pod_uids
      <4>1. AllTold(w)
        BY <1>1, <2>1, <3>3 DEF ServicesInv, ServedOK
      <4> QED
        BY <2>4, <3>2, <4>1 DEF AllTold, Serves
    <3>4. CASE w \notin known_pod_uids
      <4>1. \A k \in DOMAIN x.services :
                Parses(x.services[k]) /\ WillTell(w, x.services[k][1])'
        BY <2>4, <3>1, <3>4 DEF Serves
      <4> QED
        BY <3>1, <3>2, <4>1 DEF AllTold
    <3> QED
      BY <3>3, <3>4
  <2> QED
    BY <2>2, <2>3, <2>4
<1> QED
  BY <1>4, <1>5, <1>6

-----------------------------------------------------------------------------
(* The events of the watch stream.                                         *)

\* When the first event is taken, the rest of the reports stay.
LEMMA TailReports ==
    ASSUME IInv, ReportsOK, stream # <<>>, stream' = Tail(stream),
           UNCHANGED cluster,
           \A x \in listed' : x \in listed \/ x \in PodsIn(Head(stream))
    PROVE  ReportsOK'
<1>1. /\ 1 \in DOMAIN stream /\ stream[1] = Head(stream)
      /\ \A i \in DOMAIN stream' :
             i + 1 \in DOMAIN stream /\ stream'[i] = stream[i + 1]
  BY TailFacts DEF IInv
<1>2. \A w : w \in Existing' <=> w \in Existing
  BY DEF Existing
<1>3. \A x \in listed' : x.uid \in Existing => SameServices(x, cluster[x.uid])
  BY <1>1 DEF ReportsOK
<1>4. \A i \in DOMAIN stream' :
          /\ \A x \in PodsIn(stream'[i]) :
                 x.uid \in Existing => SameServices(x, cluster[x.uid])
          /\ stream'[i].type = "Deleted" /\ stream'[i].pod.uid # None =>
                 cluster[stream'[i].pod.uid] = Gone
  BY <1>1 DEF ReportsOK
<1> QED
  BY <1>2, <1>3, <1>4 DEF ReportsOK

\* Either the first event is the last word on a pod, or none is.
LEMMA TailConcerns ==
    ASSUME IInv, stream # <<>>, stream' = Tail(stream), watched,
           NEW w \in Uids, \A i \in DOMAIN stream' : ~Concerns(stream'[i], w)
    PROVE  IF Concerns(Head(stream), w) THEN Accurate(Head(stream), w)
           ELSE \A i \in DOMAIN stream : ~Concerns(stream[i], w)
<1>1. /\ 1 \in DOMAIN stream /\ stream[1] = Head(stream)
      /\ \A i \in DOMAIN stream : i \in Nat /\ i >= 1 /\
             (i # 1 => i - 1 \in DOMAIN stream'
                       /\ stream'[i - 1] = stream[i])
  BY TailFacts DEF IInv
<1>2. \A i \in DOMAIN stream : Concerns(stream[i], w) => i <= 1
  BY <1>1
<1>3. CASE Concerns(Head(stream), w)
  BY <1>1, <1>2, <1>3 DEF IInv, LastWordOK
<1>4. CASE ~Concerns(Head(stream), w)
  BY <1>1, <1>4
<1> QED
  BY <1>3, <1>4

\* A report of a pod is taken from the stream.
LEMMA HandleAppliedServices ==
    ASSUME IInv, ServicesInv, HandleApplied
    PROVE  ServicesInv'
<1>1. /\ Idle /\ ~restarting /\ stream # <<>> /\ Head(stream).type = "Applied"
      /\ stream' = Tail(stream)
      /\ UNCHANGED <<cluster, watched, alive, listening, told>>
      /\ UNCHANGED <<restarting, listed, current_pod_uids>>
      /\ ~failing
  BY DEF HandleApplied, TakesEvent, clusterVars, Idle
<1>2. /\ 1 \in DOMAIN stream /\ stream[1] = Head(stream)
      /\ Head(stream) \in StreamEvents
  BY <1>1, TailFacts DEF IInv
<1>3. ReportsOK'
  BY <1>1, TailReports DEF ServicesInv
<1>4. PICK x : x = Head(stream).pod
  OBVIOUS
<1>5. x \in Pods /\ x.uid \in Uids \cup {None}
  BY <1>1, <1>2, <1>4, StreamEventFacts, PodFacts
<1>6. \A w : Visible(w)' <=> Visible(w)
  BY <1>1, SameCluster
<1>7. CASE x.uid = None
  <2>1. UNCHANGED <<known_pod_uids, outbox, failing>>
    BY <1>4, <1>7 DEF HandleApplied
  <2>2. /\ \A w, p : WillTell(w, p)' <=> WillTell(w, p)
        /\ \A t, w : InOutbox(t, w)' <=> InOutbox(t, w)
    BY <1>1, <2>1, SameOutbox
  <2>3. \A w : (Serving(w)' <=> Serving(w)) /\ (AllTold(w)' <=> AllTold(w))
    BY <1>1, <1>6, <2>2 DEF Serving, AllTold
  <2>4. NotYetOK' /\ PortsOK' /\ ServedOK'
    BY <1>1, <1>6, <2>1, <2>2, <2>3
    DEF ServicesInv, NotYetOK, PortsOK, ServedOK
  <2>5. FoundOK'
    <3> SUFFICES ASSUME watched, NEW w \in Uids, Serving(w)',
                        cluster[w].details,
                        \A i \in DOMAIN stream' : ~Concerns(stream'[i], w)
                 PROVE  w \in known_pod_uids'
      BY <1>1 DEF FoundOK
    <3>1. ~Concerns(Head(stream), w)
      BY <1>1, <1>4, <1>7, KubernetesAssumption DEF Concerns
    <3>2. \A i \in DOMAIN stream : ~Concerns(stream[i], w)
      BY <1>1, <3>1, TailConcerns
    <3> QED
      BY <1>1, <2>1, <2>3, <3>2 DEF ServicesInv, FoundOK
  <2> QED
    BY <1>3, <2>4, <2>5 DEF ServicesInv
<1>8. CASE x.uid # None
  <2>1. x.uid \in Uids /\ PodsIn(Head(stream)) = {x} /\ ApplyPod(x)
    BY <1>1, <1>4, <1>5, <1>8 DEF PodsIn, HandleApplied
  <2>2. /\ FitsTold(x) /\ FitsCluster(x)
        /\ x.uid \in Existing => SameServices(x, cluster[x.uid])
    BY <1>2, <2>1 DEF IInv, StreamOK, ServicesInv, ReportsOK
  <2>3. Serves(x)
    BY <1>1, <1>5, <2>1, ServesFacts
  <2>4. known_pod_uids' \subseteq Uids
    BY <1>1, <1>5, <2>1, <2>2, ApplyFacts DEF Applied
  <2>5. NotYetOK' /\ PortsOK' /\ ServedOK'
    BY <1>1, <1>5, <2>1, <2>2, <2>3, <2>4, ServesKeeps
  <2>6. FoundOK'
    <3> SUFFICES ASSUME watched, ~failing', NEW w \in Uids, Serving(w)',
                        cluster[w].details,
                        \A i \in DOMAIN stream' : ~Concerns(stream'[i], w)
                 PROVE  w \in known_pod_uids'
      BY <1>1 DEF FoundOK
    <3>1. Serving(w)
      BY <1>1, <1>6 DEF Serving
    <3>2. CASE w = x.uid
      <4>1. Concerns(Head(stream), w)
        BY <1>4, <3>2 DEF Concerns
      <4>2. x = cluster[w]
        BY <1>1, <2>1, <3>2, <4>1, TailConcerns DEF Accurate
      <4> QED
        BY <2>3, <3>1, <3>2, <4>2 DEF Serves, Serving
    <3>3. CASE w # x.uid
      <4>1. ~Concerns(Head(stream), w)
        BY <1>1, <1>4, <3>3 DEF Concerns
      <4>2. \A i \in DOMAIN stream : ~Concerns(stream[i], w)
        BY <1>1, <4>1, TailConcerns
      <4> QED
        BY <1>1, <2>3, <3>1, <3>3, <4>2 DEF ServicesInv, FoundOK, Serves
    <3> QED
      BY <3>2, <3>3
  <2> QED
    BY <1>3, <2>5, <2>6 DEF ServicesInv
<1> QED
  BY <1>7, <1>8

\* Deletes that are still to be sent add nothing.
LEMMA DeletesTell ==
    ASSUME outbox = <<>>, UNCHANGED told,
           \A k \in DOMAIN outbox' : outbox'[k].type = "Delete"
    PROVE  \A w, p : WillTell(w, p)' <=> WillTell(w, p)
<1>1. \A w, p : ~ToBeAdded(w, p) /\ ~ToBeAdded(w, p)'
  BY DEF ToBeAdded
<1> QED
  BY <1>1 DEF WillTell

\* The deletion of a pod is taken from the stream.
LEMMA HandleDeletedServices ==
    ASSUME IInv, ServicesInv, HandleDeleted
    PROVE  ServicesInv'
<1>1. /\ Idle /\ ~restarting /\ stream # <<>> /\ Head(stream).type = "Deleted"
      /\ stream' = Tail(stream)
      /\ UNCHANGED <<cluster, watched, alive, listening, told>>
      /\ UNCHANGED <<restarting, listed, current_pod_uids, failing>>
      /\ ~failing /\ outbox = <<>>
  BY DEF HandleDeleted, TakesEvent, clusterVars, Idle
<1>2. PICK uid : uid = Head(stream).pod.uid
  OBVIOUS
<1>3. /\ known_pod_uids' = known_pod_uids \ {uid}
      /\ outbox' = IF uid # None THEN <<[type |-> "Delete", uid |-> uid]>>
                   ELSE <<>>
  BY <1>2 DEF HandleDeleted
<1>4. \A k \in DOMAIN outbox' :
          outbox'[k].type = "Delete" /\ outbox'[k].uid = uid
  BY <1>3
<1>5. /\ \A w, p : WillTell(w, p)' <=> WillTell(w, p)
      /\ \A w : w # uid => ~InOutbox("Delete", w)'
  BY <1>1, <1>4, DeletesTell DEF InOutbox
<1>6. \A w : Visible(w)' <=> Visible(w)
  BY <1>1, SameCluster
<1>7. uid # None => cluster[uid] = Gone
  <2>1. 1 \in DOMAIN stream /\ stream[1] = Head(stream)
    BY <1>1, TailFacts DEF IInv
  <2> QED
    BY <1>1, <1>2, <2>1 DEF ServicesInv, ReportsOK
<1>8. \A w \in Uids : Visible(w) => w # uid
  BY <1>7, KubernetesAssumption DEF Visible, Existing
<1>9. ReportsOK'
  BY <1>1, TailReports DEF ServicesInv
<1>10. NotYetOK' /\ PortsOK'
  BY <1>1, <1>3, <1>5, <1>6 DEF ServicesInv, NotYetOK, PortsOK
<1>11. ServedOK'
  <2> SUFFICES ASSUME NEW w \in known_pod_uids' \cup current_pod_uids',
                      Serving(w)'
               PROVE  AllTold(w)'
    BY DEF ServedOK
  <2>1. w \in Uids /\ w \in known_pod_uids \cup current_pod_uids /\ Serving(w)
    BY <1>1, <1>3, <1>6 DEF IInv, TypeOK, Serving
  <2>2. AllTold(w) /\ ~InOutbox("Delete", w)'
    BY <1>1, <1>5, <1>8, <2>1 DEF ServicesInv, ServedOK, Serving
  <2> QED
    BY <1>1, <1>5, <2>2 DEF AllTold
<1>12. FoundOK'
  <2> SUFFICES ASSUME watched, NEW w \in Uids, Serving(w)',
                      cluster[w].details,
                      \A i \in DOMAIN stream' : ~Concerns(stream'[i], w)
               PROVE  w \in known_pod_uids'
    BY <1>1 DEF FoundOK
  <2>1. Serving(w) /\ w # uid
    BY <1>1, <1>6, <1>8 DEF Serving
  <2>2. ~Concerns(Head(stream), w)
    BY <1>1, <1>2, <2>1 DEF Concerns
  <2>3. \A i \in DOMAIN stream : ~Concerns(stream[i], w)
    BY <1>1, <2>2, TailConcerns
  <2> QED
    BY <1>1, <1>3, <2>1, <2>3 DEF ServicesInv, FoundOK
<1> QED
  BY <1>9, <1>10, <1>11, <1>12 DEF ServicesInv

\* A list of all pods is taken from the stream.
LEMMA HandleRestartedServices ==
    ASSUME IInv, ServicesInv, HandleRestarted
    PROVE  ServicesInv'
<1>1. /\ stream # <<>> /\ Head(stream).type = "Restarted"
      /\ stream' = Tail(stream) /\ restarting' = TRUE
      /\ listed' = {pod \in Head(stream).pods : pod.uid # None}
      /\ current_pod_uids' = {}
      /\ UNCHANGED <<cluster, watched, told, known_pod_uids, outbox, failing>>
  BY DEF HandleRestarted, TakesEvent, clusterVars
<1>2. /\ \A w, p : WillTell(w, p)' <=> WillTell(w, p)
      /\ \A t, w : InOutbox(t, w)' <=> InOutbox(t, w)
      /\ \A w : Visible(w)' <=> Visible(w)
  BY <1>1, SameOutbox, SameCluster
<1>3. \A w : (Serving(w)' <=> Serving(w)) /\ (AllTold(w)' <=> AllTold(w))
  BY <1>1, <1>2 DEF Serving, AllTold
<1>4. ReportsOK'
  <2>1. listed' = PodsIn(Head(stream))
    BY <1>1 DEF PodsIn
  <2> QED
    BY <1>1, <2>1, TailReports DEF ServicesInv
<1>5. NotYetOK' /\ PortsOK' /\ ServedOK'
  BY <1>1, <1>2, <1>3 DEF ServicesInv, NotYetOK, PortsOK, ServedOK
<1>6. FoundOK'
  BY <1>1 DEF FoundOK
<1> QED
  BY <1>4, <1>5, <1>6 DEF ServicesInv

\* A pod of the list is applied.
LEMMA ApplyListedServices ==
    ASSUME IInv, ServicesInv, ListedAreComplete, NEW x \in listed,
           ApplyListedPod(x)
    PROVE  ServicesInv'
<1>1. /\ Idle /\ listed' = listed \ {x}
      /\ current_pod_uids' = current_pod_uids \cup {x.uid}
      /\ ApplyPod(x)
      /\ UNCHANGED <<cluster, watched, stream, restarting, told>>
  BY DEF ApplyListedPod, clusterVars
<1>2. /\ x \in Pods /\ x.uid \in Uids /\ x.details
      /\ FitsTold(x) /\ FitsCluster(x)
      /\ x.uid \in Existing => SameServices(x, cluster[x.uid])
      /\ restarting
  BY ReportFacts DEF IInv, ListedOK, ServicesInv, ReportsOK, ListedAreComplete
<1>3. Serves(x)
  BY <1>1, <1>2, ServesFacts
<1>4. known_pod_uids' \subseteq Uids
  BY <1>1, <1>2, ApplyFacts DEF Applied
<1>5. NotYetOK' /\ PortsOK' /\ ServedOK'
  BY <1>1, <1>2, <1>3, <1>4, ServesKeeps
<1>6. ReportsOK'
  BY <1>1 DEF ServicesInv, ReportsOK, Existing
<1>7. FoundOK'
  BY <1>1, <1>2 DEF FoundOK
<1> QED
  BY <1>5, <1>6, <1>7 DEF ServicesInv

\* The pods that were not listed are deleted.
LEMMA FinishRestartServices ==
    ASSUME IInv, ServicesInv, FinishRestart
    PROVE  ServicesInv'
<1>1. /\ outbox = <<>> /\ ~failing /\ restarting /\ listed = {}
      /\ known_pod_uids' = current_pod_uids
      /\ UNCHANGED <<cluster, watched, stream, listed, current_pod_uids,
                     failing, told>>
  BY DEF FinishRestart, clusterVars, Idle
<1>2. PICK order \in [1..Cardinality(Vanished) -> Vanished] :
          outbox' = [k \in DOMAIN order |->
                        [type |-> "Delete", uid |-> order[k]]]
  BY DEF FinishRestart
<1>3. \A k \in DOMAIN outbox' :
          outbox'[k].type = "Delete" /\ outbox'[k].uid \notin current_pod_uids
  BY <1>2 DEF Vanished
<1>4. /\ \A w, p : WillTell(w, p)' <=> WillTell(w, p)
      /\ \A w \in current_pod_uids : ~InOutbox("Delete", w)'
  BY <1>1, <1>3, DeletesTell DEF InOutbox
<1>5. \A w : Visible(w)' <=> Visible(w)
  BY <1>1, SameCluster
<1>6. \A w : Serving(w)' <=> Serving(w)
  BY <1>1, <1>5 DEF Serving
<1>7. ReportsOK'
  BY <1>1 DEF ServicesInv, ReportsOK, Existing
<1>8. NotYetOK' /\ PortsOK'
  BY <1>1, <1>4, <1>5 DEF ServicesInv, NotYetOK, PortsOK
<1>9. ServedOK'
  BY <1>1, <1>4, <1>6 DEF ServicesInv, ServedOK, AllTold
<1>10. FoundOK'
  <2> SUFFICES ASSUME watched, NEW w \in Uids, Serving(w),
                      \A i \in DOMAIN stream : ~Concerns(stream[i], w)
               PROVE  w \in current_pod_uids
    BY <1>1, <1>6 DEF FoundOK
  <2>1. TaskAccurate(w)
    BY <1>1 DEF IInv, LastWordOK
  <2> QED
    BY <1>1, <2>1 DEF TaskAccurate, Serving
<1> QED
  BY <1>7, <1>8, <1>9, <1>10 DEF ServicesInv

-----------------------------------------------------------------------------
(* The channel.                                                            *)

\* A send keeps what will be told, unless it is deleted.
LEMMA SendTells ==
    ASSUME TypeOK, outbox # <<>>, told' = Learn(told, Head(outbox)),
           outbox' = Tail(outbox)
    PROVE  /\ \A t, u : InOutbox(t, u)' => InOutbox(t, u)
           /\ \A u \in Uids, p \in PortNumbers :
                  /\ WillTell(u, p)' => WillTell(u, p)
                  /\ WillTell(u, p) /\ ~InOutbox("Delete", u) =>
                         WillTell(u, p)'
<1> DEFINE e == Head(outbox)
           n == Len(outbox)
<1>1. /\ n \in Nat /\ n >= 1
      /\ DOMAIN outbox = 1..n /\ DOMAIN outbox' = 1..(n - 1)
      /\ \A k \in 1..(n - 1) : outbox'[k] = outbox[k + 1]
      /\ outbox[1] = e /\ e \in EndpointEvents
  BY DEF TypeOK
<1>2. /\ e.type \in {"Add", "Delete", "Suspend", "Resume"} /\ e.uid \in Uids
      /\ e.type = "Add" => e.external_port \in PortNumbers
  BY <1>1, EventFacts
<1>3. told \in [Uids -> [PortNumbers -> {"none", "suspended", "available"}]]
  BY DEF TypeOK
<1> HIDE DEF e, n
<1>4. \A k \in DOMAIN outbox' :
          k + 1 \in DOMAIN outbox /\ outbox'[k] = outbox[k + 1]
  BY <1>1
<1>5. \A k \in DOMAIN outbox :
          \/ k = 1 /\ outbox[k] = e
          \/ k - 1 \in DOMAIN outbox' /\ outbox'[k - 1] = outbox[k]
  BY <1>1
<1>6. \A t, u : InOutbox(t, u)' => InOutbox(t, u)
  BY <1>4 DEF InOutbox
<1>7. /\ \A u, p : ToBeAdded(u, p)' => ToBeAdded(u, p)
      /\ \A u, p : ToBeAdded(u, p) =>
             \/ ToBeAdded(u, p)'
             \/ e.type = "Add" /\ e.uid = u /\ e.external_port = p
  BY <1>4, <1>5, SMTT(20) DEF ToBeAdded
<1>8. 1 \in DOMAIN outbox
  BY <1>1
<1>9. /\ \A t : e.type = t => InOutbox(t, e.uid)
      /\ e.type = "Add" => ToBeAdded(e.uid, e.external_port)
  BY <1>1, <1>8 DEF InOutbox, ToBeAdded
<1>10. \A u \in Uids, p \in PortNumbers :
           /\ u # e.uid => told'[u][p] = told[u][p]
           /\ e.type = "Add" =>
                  told'[e.uid][p] = IF p = e.external_port THEN "suspended"
                                    ELSE told[e.uid][p]
           /\ e.type = "Delete" => told'[e.uid][p] = "none"
           /\ e.type \in {"Resume", "Suspend"} =>
                  (told'[e.uid][p] # "none" <=> told[e.uid][p] # "none")
  <2>1. \A u \in Uids \ {e.uid} : told'[u] = told[u]
    BY <1>3 DEF Learn, e
  <2>2. e.type = "Add" =>
            told'[e.uid] = [told[e.uid] EXCEPT ![e.external_port] = "suspended"]
    BY <1>2, <1>3 DEF Learn, e
  <2>3. e.type = "Delete" => told'[e.uid] = Untold
    BY <1>2, <1>3 DEF Learn, e
  <2>4. e.type \in {"Resume", "Suspend"} =>
            told'[e.uid] = [p \in PortNumbers |->
                IF told[e.uid][p] = "none" THEN "none"
                ELSE IF e.type = "Resume" THEN "available" ELSE "suspended"]
    BY <1>2, <1>3 DEF Learn, e
  <2> QED
    BY <1>2, <1>3, <2>1, <2>2, <2>3, <2>4 DEF Untold
<1>11. ASSUME NEW u \in Uids, NEW p \in PortNumbers
       PROVE  /\ WillTell(u, p)' => WillTell(u, p)
              /\ WillTell(u, p) /\ ~InOutbox("Delete", u) => WillTell(u, p)'
  <2>1. CASE u # e.uid
    BY <1>7, <1>10, <2>1 DEF WillTell
  <2>2. CASE u = e.uid /\ e.type = "Add"
    BY <1>7, <1>9, <1>10, <2>2 DEF WillTell
  <2>3. CASE u = e.uid /\ e.type = "Delete"
    BY <1>7, <1>9, <1>10, <2>3 DEF WillTell
  <2>4. CASE u = e.uid /\ e.type \in {"Resume", "Suspend"}
    BY <1>7, <1>10, <2>4 DEF WillTell
  <2> QED
    BY <1>2, <2>1, <2>2, <2>3, <2>4
<1> QED
  BY <1>6, <1>11

\* The channel takes an event.
LEMMA SendServices ==
    ASSUME IInv, ServicesInv, Send
    PROVE  ServicesInv'
<1>1. /\ outbox # <<>> /\ told' = Learn(told, Head(outbox))
      /\ outbox' = Tail(outbox)
      /\ UNCHANGED <<cluster, watched, stream, known_pod_uids, restarting,
                     listed, current_pod_uids, failing>>
  BY DEF Send, clusterVars, runtimeVars
<1>2. /\ \A t, u : InOutbox(t, u)' => InOutbox(t, u)
      /\ \A u \in Uids, p \in PortNumbers :
             /\ WillTell(u, p)' => WillTell(u, p)
             /\ WillTell(u, p) /\ ~InOutbox("Delete", u) => WillTell(u, p)'
  BY <1>1, SendTells DEF IInv
<1>3. \A w : Visible(w)' <=> Visible(w)
  BY <1>1, SameCluster
<1>4. \A w : Serving(w)' <=> Serving(w)
  BY <1>1, <1>3 DEF Serving
<1>5. \A w \in Uids : AllTold(w) => AllTold(w)'
  BY <1>1, <1>2 DEF AllTold, Parses
<1>6. ReportsOK'
  BY <1>1 DEF ServicesInv, ReportsOK, Existing
<1>7. NotYetOK' /\ PortsOK'
  BY <1>1, <1>2, <1>3 DEF ServicesInv, NotYetOK, PortsOK
<1>8. ServedOK'
  BY <1>1, <1>4, <1>5 DEF ServicesInv, ServedOK, IInv, TypeOK
<1>9. FoundOK'
  BY <1>1, <1>4 DEF ServicesInv, FoundOK
<1> QED
  BY <1>6, <1>7, <1>8, <1>9 DEF ServicesInv

-----------------------------------------------------------------------------
(* The invariant and what follows from it.                                 *)

\* The initial states.
LEMMA FreshServices ==
    Fresh => ServicesInv
<1> SUFFICES ASSUME Fresh PROVE ServicesInv
  OBVIOUS
<1>1. \A u \in Uids : u \notin Existing /\ ~Visible(u)
  BY DEF Fresh, Visible, Existing
<1>2. \A u \in Uids, p \in PortNumbers : ~WillTell(u, p)
  BY DEF Fresh, WillTell, ToBeAdded, Untold
<1>3. ReportsOK
  BY DEF Fresh, ReportsOK
<1>4. NotYetOK /\ PortsOK
  BY <1>1, <1>2 DEF Fresh, NotYetOK, PortsOK
<1>5. ServedOK /\ FoundOK
  BY DEF Fresh, ServedOK, FoundOK
<1> QED
  BY <1>3, <1>4, <1>5 DEF ServicesInv

\* Every step preserves the invariant.
LEMMA InductiveServices ==
    IInv /\ ServicesInv /\ ListedAreComplete /\ [Next]_vars => ServicesInv'
<1> SUFFICES ASSUME IInv, ServicesInv, ListedAreComplete, [Next]_vars
             PROVE  ServicesInv'
  OBVIOUS
<1>1. CASE \E u \in Uids : PodCreated(u) \/ PodChanged(u) \/ PodDeleted(u)
  BY <1>1, ClusterServices
<1>2. CASE WatchLost \/ WatchRestarted
  BY <1>2, WatchServices
<1>3. CASE HandleApplied
  BY <1>3, HandleAppliedServices
<1>4. CASE HandleDeleted
  BY <1>4, HandleDeletedServices
<1>5. CASE HandleRestarted
  BY <1>5, HandleRestartedServices
<1>6. CASE \E pod \in listed : ApplyListedPod(pod)
  BY <1>6, ApplyListedServices
<1>7. CASE FinishRestart
  BY <1>7, FinishRestartServices
<1>8. CASE Send
  BY <1>8, SendServices
<1>9. CASE RunFails \/ ListenerGone \/ UNCHANGED vars
  <2>1. UNCHANGED <<cluster, watched, stream, known_pod_uids, restarting,
                    listed, current_pod_uids, outbox, failing, told>>
    BY <1>9 DEF RunFails, ListenerGone, vars, clusterVars, runtimeVars
  <2> QED
    BY <2>1, QuietServices
<1> QED
  BY <1>1, <1>2, <1>3, <1>4, <1>5, <1>6, <1>7, <1>8, <1>9 DEF Next

\* Pod u is to be reached on port p.
Served(u, p) ==
    /\ Visible(u)
    /\ cluster[u].details
    /\ cluster[u].phase # "Succeeded"
    /\ HasPort(cluster[u], p)

\* A task that has caught up has told exactly the services that there are,
\* but may have left some of a pod that has become incomplete.
LEMMA CaughtUpServes ==
    ASSUME IInv, ServicesInv, CaughtUp, NEW u \in Uids, NEW p
    PROVE  /\ Served(u, p) => p \in PortNumbers /\ told[u][p] # "none"
           /\ p \in PortNumbers /\ told[u][p] # "none" =>
                  /\ Visible(u) /\ HasPort(cluster[u], p)
                  /\ cluster[u].details => Served(u, p)
<1>1. /\ outbox = <<>> /\ watched /\ stream = <<>> /\ ~restarting /\ ~failing
  BY DEF CaughtUp, Idle
<1>2. /\ \A w, q : ~ToBeAdded(w, q)
      /\ WillBeUntold(u) <=> told[u] = Untold
  BY <1>1, EmptyOutbox DEF ToBeAdded
<1>3. ASSUME Served(u, p) PROVE p \in PortNumbers /\ told[u][p] # "none"
  <2>1. u \in known_pod_uids
    BY <1>1, <1>3 DEF ServicesInv, FoundOK, Served, Serving
  <2>2. AllTold(u)
    BY <1>1, <1>3, <2>1 DEF ServicesInv, ServedOK, Served, Serving
  <2>3. PICK k \in DOMAIN cluster[u].services : cluster[u].services[k][1] = p
    BY <1>3 DEF Served, HasPort
  <2>4. Parses(cluster[u].services[k]) /\ WillTell(u, p)
    BY <2>2, <2>3 DEF AllTold
  <2> QED
    BY <1>2, <2>3, <2>4 DEF WillTell, Parses
<1>4. ASSUME p \in PortNumbers, told[u][p] # "none"
      PROVE  /\ Visible(u) /\ HasPort(cluster[u], p)
             /\ cluster[u].details => Served(u, p)
  <2>1. told[u] # Untold
    BY <1>4 DEF Untold
  <2>2. Visible(u) /\ (cluster[u].details => cluster[u].phase # "Succeeded")
    BY <2>1, CaughtUpAgrees
  <2>3. HasPort(cluster[u], p)
    BY <1>4, <2>2 DEF ServicesInv, PortsOK, WillTell
  <2> QED
    BY <2>2, <2>3 DEF Served
<1> QED
  BY <1>3, <1>4

\* What the invariants say of the services of a task that has caught up.
LEMMA CaughtUpAdded ==
    IInv /\ ServicesInv => ServicesAdded
<1> SUFFICES ASSUME IInv, ServicesInv, CaughtUp, NEW u \in Existing,
                    Complete(cluster[u]), cluster[u].phase # "Succeeded",
                    NEW k \in DOMAIN cluster[u].services
             PROVE  told[u][cluster[u].services[k][1]] # "none"
  BY DEF ServicesAdded
<1>1. u \in Uids /\ Visible(u)
  BY DEF Existing, Visible, Complete, IInv, SlotsOK
<1>2. Served(u, cluster[u].services[k][1])
  BY <1>1 DEF Served, HasPort, Complete
<1>3. PICK p : p = cluster[u].services[k][1]
  OBVIOUS
<1> QED
  BY <1>1, <1>2, <1>3, CaughtUpServes

-----------------------------------------------------------------------------
(* A cluster in which no pod is ever incomplete.                           *)

CompletePods == LossyPhases = {} /\ \A pod \in NewPods : pod.details

\* Every pod and every report of one is complete.
CompleteInv ==
    /\ \A u \in Existing : cluster[u].details
    /\ \A i \in DOMAIN stream : \A x \in PodsIn(stream[i]) : x.details
    /\ ListedAreComplete

\* An event of complete pods is put into the stream, or none is.
LEMMA CompleteReport ==
    ASSUME IInv, CompleteInv, NEW e \in StreamEvents,
           stream' = stream \/ stream' = Append(stream, e),
           \A x \in PodsIn(e) : x.details,
           UNCHANGED listed, \A u \in Existing' : cluster'[u].details
    PROVE  CompleteInv'
<1>1. stream \in Seq(StreamEvents)
  BY DEF IInv, TypeOK
<1>2. \A i \in DOMAIN stream' :
          \/ i \in DOMAIN stream /\ stream'[i] = stream[i]
          \/ stream'[i] = e
  BY <1>1, AppendFacts
<1>3. \A i \in DOMAIN stream' : \A x \in PodsIn(stream'[i]) : x.details
  BY <1>2 DEF CompleteInv
<1> QED
  BY <1>3 DEF CompleteInv, ListedAreComplete

\* The pods of the cluster come, change and go.
LEMMA ClusterComplete ==
    ASSUME CompletePods, IInv, CompleteInv, NEW u \in Uids,
           PodCreated(u) \/ PodChanged(u) \/ PodDeleted(u)
    PROVE  CompleteInv'
<1>1. PICK pod, e : Becomes(u, pod, e)
  BY ClusterBecomes
<1>2. /\ e \in StreamEvents
      /\ e.type \in {"Applied", "Deleted"} /\ e.pod \in Pods
      /\ PodsIn(e) = {x \in {e.pod} : x.uid = u}
      /\ cluster'[u] = pod
      /\ \A w \in Uids \ {u} : cluster'[w] = cluster[w]
  BY <1>1, BecomesFacts
<1>3. /\ UNCHANGED listed
      /\ stream' = stream \/ stream' = Append(stream, e)
  BY <1>1 DEF Becomes
<1>4. pod # Gone => pod.details
  <2>1. CASE cluster[u] = None
    <3>1. PICK new \in NewPods : cluster' = [cluster EXCEPT ![u] = new]
      BY <2>1 DEF PodCreated, PodChanged, PodDeleted, Existing
    <3>2. pod = new
      BY <1>2, <3>1 DEF IInv, TypeOK
    <3> QED
      BY <3>2 DEF CompletePods
  <2>2. CASE cluster[u] # None
    <3>1. u \in Existing
      BY <1>1, <2>2 DEF Becomes, Existing
    <3>2. cluster[u] \in Pods /\ cluster[u].details
      BY <3>1 DEF Existing, IInv, TypeOK, CompleteInv
    <3>3. CASE PodDeleted(u)
      BY <1>2, <3>3 DEF PodDeleted, IInv, TypeOK
    <3>4. CASE PodChanged(u)
      <4>1. PICK phase \in Phases, details \in BOOLEAN :
              /\ cluster[u].details /\ ~details => phase \in LossyPhases
              /\ cluster' = [cluster EXCEPT ![u] =
                               [@ EXCEPT !.phase = phase, !.details = details]]
        BY <3>4 DEF PodChanged
      <4>2. details
        BY <3>2, <4>1 DEF CompletePods
      <4> QED
        BY <1>2, <3>2, <4>1, <4>2 DEF IInv, TypeOK, Pods
    <3> QED
      BY <2>2, <3>3, <3>4 DEF PodCreated
  <2> QED
    BY <2>1, <2>2
<1>5. e.pod.details
  <2>1. CASE e.pod = pod /\ pod # Gone
    BY <1>4, <2>1
  <2>2. CASE e.pod = cluster[u] /\ u \in Existing
    BY <2>2 DEF CompleteInv
  <2> QED
    BY <1>1, <2>1, <2>2, PodFacts DEF Becomes, Existing
<1>6. \A w \in Existing' : cluster'[w].details
  BY <1>2, <1>4 DEF CompleteInv, Existing
<1> QED
  BY <1>2, <1>3, <1>5, <1>6, CompleteReport

\* The other steps.
LEMMA InductiveComplete ==
    CompletePods => (IInv /\ CompleteInv /\ [Next]_vars => CompleteInv')
<1> SUFFICES ASSUME CompletePods, IInv, CompleteInv, [Next]_vars
             PROVE  CompleteInv'
  OBVIOUS
<1>1. CASE \E u \in Uids : PodCreated(u) \/ PodChanged(u) \/ PodDeleted(u)
  BY <1>1, ClusterComplete
<1>2. CASE WatchRestarted
  <2>1. PICK e : e = [type |-> "Restarted",
                      pods |-> {cluster[u] : u \in Existing}]
    OBVIOUS
  <2>2. {cluster[u] : u \in Existing} \subseteq Pods
    BY DEF Existing, IInv, TypeOK
  <2>3. /\ e \in StreamEvents /\ stream' = Append(stream, e)
        /\ UNCHANGED <<listed, cluster>>
    BY <1>2, <2>1, <2>2 DEF WatchRestarted, StreamEvents, runtimeVars
  <2>4. \A x \in PodsIn(e) : x.details
    BY <2>1 DEF PodsIn, CompleteInv
  <2>5. \A u \in Existing' : cluster'[u].details
    BY <2>3 DEF CompleteInv, Existing
  <2> QED
    BY <2>3, <2>4, <2>5, CompleteReport
<1>3. CASE /\ stream # <<>> /\ stream' = Tail(stream) /\ UNCHANGED cluster
           /\ \A x \in listed' : x \in listed \/ x \in PodsIn(Head(stream))
  <2>1. /\ 1 \in DOMAIN stream /\ stream[1] = Head(stream)
        /\ \A i \in DOMAIN stream' :
               i + 1 \in DOMAIN stream /\ stream'[i] = stream[i + 1]
    BY <1>3, TailFacts DEF IInv
  <2>2. /\ \A i \in DOMAIN stream' : \A x \in PodsIn(stream'[i]) : x.details
        /\ \A x \in listed' : x.details
    BY <1>3, <2>1 DEF CompleteInv, ListedAreComplete
  <2>3. \A u \in Existing' : cluster'[u].details
    BY <1>3 DEF CompleteInv, Existing
  <2> QED
    BY <2>2, <2>3 DEF CompleteInv, ListedAreComplete
<1>4. CASE UNCHANGED <<cluster, stream>> /\ listed' \subseteq listed
  BY <1>4 DEF CompleteInv, ListedAreComplete, Existing
<1>5. CASE HandleApplied \/ HandleDeleted
  BY <1>3, <1>5 DEF HandleApplied, HandleDeleted, TakesEvent, clusterVars
<1>6. CASE HandleRestarted
  BY <1>3, <1>6 DEF HandleRestarted, TakesEvent, clusterVars, PodsIn
<1>7. CASE \/ WatchLost \/ (\E pod \in listed : ApplyListedPod(pod))
           \/ FinishRestart \/ Send \/ RunFails \/ ListenerGone
           \/ UNCHANGED vars
  BY <1>4, <1>7
  DEF WatchLost, ApplyListedPod, FinishRestart, Send, RunFails, ListenerGone,
      vars, clusterVars, runtimeVars
<1> QED
  BY <1>1, <1>2, <1>5, <1>6, <1>7 DEF Next

-----------------------------------------------------------------------------
(***************************************************************************)
(* As long as no list that the watch starts anew with has a pod that lacks *)
(* its status, IP or phase, every service of every pod has been added once *)
(* the task has caught up, whatever was repeated, went unseen or came      *)
(* late: listing such a pod is the only way in which handle_pod_event      *)
(* loses services (tests/kubernetes.rs).                                   *)
(***************************************************************************)
THEOREM ServicesAreAdded ==
    Spec /\ []ListedAreComplete => []ServicesAdded
<1>1. Init => ServicesInv
  BY FreshServices DEF Init, Fresh
<1> QED
  BY <1>1, InductiveServices, Invariance, CaughtUpAdded, PTL DEF Spec

(***************************************************************************)
(* In a cluster whose pods are complete from the start and never lose a    *)
(* detail, every service of every pod has been added once the task has     *)
(* caught up (apply_pod, discover_services).                               *)
(***************************************************************************)
THEOREM ServicesOfCompletePods ==
    ASSUME CompletePods
    PROVE  Spec => []ServicesAdded
<1>1. Init => CompleteInv
  BY DEF Init, CompleteInv, ListedAreComplete, Existing
<1>2. IInv /\ CompleteInv /\ [Next]_vars => CompleteInv'
  BY InductiveComplete
<1>3. CompleteInv => ListedAreComplete
  BY DEF CompleteInv
<1>4. Spec => []ListedAreComplete
  BY <1>1, <1>2, <1>3, Invariance, PTL DEF Spec
<1> QED
  BY <1>4, ServicesAreAdded, PTL
=============================================================================
