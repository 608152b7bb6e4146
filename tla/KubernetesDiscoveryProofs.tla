---------------------- MODULE KubernetesDiscoveryProofs ----------------------
(***************************************************************************)
(* Proofs about KubernetesDiscovery, for any pods, services and phases and *)
(* a watch stream of any length.                                           *)
(***************************************************************************)
EXTENDS KubernetesDiscovery, Integers, FiniteSetTheorems,
        WellFoundedInduction, TLAPS

-----------------------------------------------------------------------------
(* The inductive invariant.  First, what the ServiceManager will have been *)
(* told when the present handler has sent its outbox.                      *)

\* The events of a handler: Adds and then at most one other, or only Deletes.
OutboxOK ==
    \A j, k \in DOMAIN outbox : j < k =>
        \/ outbox[j].type = "Add"
        \/ outbox[j].type = "Delete" /\ outbox[k].type = "Delete"

InOutbox(type, u) ==
    \E k \in DOMAIN outbox : outbox[k].type = type /\ outbox[k].uid = u

\* No endpoint of u will be left.
WillBeUntold(u) ==
    \/ InOutbox("Delete", u)
    \/ told[u] = Untold /\ ~InOutbox("Add", u)

\* All endpoints of u that are left will have this status.
WillBe(u, status) ==
    \/ WillBeUntold(u)
    \/ InOutbox(IF status = "available" THEN "Resume" ELSE "Suspend", u)
    \/ /\ ~InOutbox("Resume", u) /\ ~InOutbox("Suspend", u)
       /\ \A p \in PortNumbers : told[u][p] \in {"none", status}
       /\ InOutbox("Add", u) => status = "suspended"

StatusOf(pod) == IF pod.phase = "Running" THEN "available" ELSE "suspended"

\* The task can see pod u, in its state of the cluster.
Visible(u) == u \in Existing /\ cluster[u].uid = u

\* What is told of u will be right for its pod; apply_pod skips a pod that
\* is incomplete, and may leave of it what was right before.
Agrees(u) ==
    IF ~Visible(u) THEN WillBeUntold(u)
    ELSE cluster[u].details =>
        IF cluster[u].phase = "Succeeded" THEN WillBeUntold(u)
        ELSE IF cluster[u].phase = "Running" THEN WillBe(u, "available")
        ELSE WillBe(u, "suspended")

-----------------------------------------------------------------------------
(* The reports of a pod on their way to the task.                          *)

\* Report y of a pod is not older than report x.
Precedes(x, y) == y.phase = "Pending" => x.phase = "Pending"

\* The services of a pod stay the same, and so does the phase Succeeded.
SameServices(x, y) ==
    /\ x.services = y.services
    /\ x.phase = "Succeeded" => y.phase = "Succeeded"

\* A report that is still to be applied fits what has been told of its pod.
FitsTold(x) == x.phase = "Pending" => WillBe(x.uid, "suspended")

\* No report of a pod is newer than its state in the cluster.
FitsCluster(x) ==
    /\ cluster[x.uid] # None
    /\ x.uid \in Existing => Precedes(x, cluster[x.uid])

\* The pods with a uid that an event is about.
PodsIn(e) ==
    {pod \in (IF e.type = "Restarted" THEN e.pods ELSE {e.pod}) :
        pod.uid # None}

OnePerUid(pods) == \A x, y \in pods : x.uid = y.uid => x = y

SlotsOK ==
    \A u \in Uids :
        /\ u \in Existing => cluster[u].uid \in {u, None}
        /\ Visible(u) /\ cluster[u].phase = "Pending" => WillBe(u, "suspended")
        /\ cluster[u] = None => WillBeUntold(u)

ListedOK ==
    /\ ~restarting => listed = {}
    /\ OnePerUid(listed)
    /\ \A x \in listed :
           /\ x.uid # None
           /\ FitsTold(x)
           /\ FitsCluster(x)
           /\ \A i \in DOMAIN stream : \A y \in PodsIn(stream[i]) :
                  x.uid = y.uid => Precedes(x, y)

StreamOK ==
    \A i \in DOMAIN stream :
        /\ OnePerUid(PodsIn(stream[i]))
        /\ \A x \in PodsIn(stream[i]) :
               /\ FitsTold(x)
               /\ FitsCluster(x)
               /\ \A j \in DOMAIN stream : i < j =>
                      \A y \in PodsIn(stream[j]) :
                          x.uid = y.uid => Precedes(x, y)

\* A pod that is not known has no endpoints.
KnownOK ==
    /\ \A u \in Uids : u \notin known_pod_uids => WillBeUntold(u)
    /\ IsFiniteSet(known_pod_uids)
    /\ IsFiniteSet(current_pod_uids)

-----------------------------------------------------------------------------
(* While the watch is up, the last word on a pod is its present state.     *)

Concerns(e, u) == e.type = "Restarted" \/ e.pod.uid = u

\* Event e reports u as it is.
Accurate(e, u) ==
    IF e.type = "Deleted" THEN cluster[u] = Gone
    ELSE /\ \A x \in PodsIn(e) : x.uid = u => x = cluster[u]
         /\ e.type = "Restarted" /\ Visible(u) => cluster[u] \in PodsIn(e)

\* With no more events about u, the task will have u right.
TaskAccurate(u) ==
    IF \E x \in listed : x.uid = u
    THEN \A x \in listed : x.uid = u => x = cluster[u]
    ELSE IF restarting /\ u \notin current_pod_uids THEN ~Visible(u)
    ELSE Agrees(u)

LastWordOK ==
    watched => \A u \in Uids :
        /\ \A i \in DOMAIN stream :
               /\ Concerns(stream[i], u)
               /\ \A j \in DOMAIN stream : Concerns(stream[j], u) => j <= i
               => Accurate(stream[i], u)
        /\ ~failing /\ (\A i \in DOMAIN stream : ~Concerns(stream[i], u)) =>
               TaskAccurate(u)

IInv ==
    /\ TypeOK
    /\ OutboxOK
    /\ ServingNotReset
    /\ SlotsOK
    /\ ListedOK
    /\ StreamOK
    /\ KnownOK
    /\ LastWordOK

-----------------------------------------------------------------------------
(* Pods, events and what apply_pod sends.                                  *)

\* The parts of a pod.
LEMMA PodFacts ==
    ASSUME NEW x \in Pods
    PROVE  /\ x.uid \in Uids \cup {None} /\ x.details \in BOOLEAN
           /\ x.valid_address \in BOOLEAN /\ x.phase \in Phases
           /\ x.services \in Seq(Seq(Fields))
           /\ x # None /\ x # Gone
BY KubernetesAssumption DEF Pods

\* The parts of an EndpointEvent.
LEMMA EventFacts ==
    ASSUME NEW e \in EndpointEvents
    PROVE  /\ e.type \in {"Add", "Delete", "Suspend", "Resume"}
           /\ e.uid \in Uids
           /\ e.type = "Add" => e.external_port \in PortNumbers
BY DEF EndpointEvents

\* The parts of an event of the watch stream.
LEMMA StreamEventFacts ==
    ASSUME NEW e \in StreamEvents
    PROVE  /\ e.type \in {"Applied", "Deleted", "Restarted"}
           /\ e.type # "Restarted" => e.pod \in Pods
           /\ e.type = "Restarted" => e.pods \subseteq Pods
           /\ PodsIn(e) \subseteq Pods
           /\ \A x \in PodsIn(e) : x.uid \in Uids
<1>1. /\ e.type \in {"Applied", "Deleted", "Restarted"}
      /\ e.type # "Restarted" => e.pod \in Pods
      /\ e.type = "Restarted" => e.pods \subseteq Pods
  BY DEF StreamEvents
<1>2. PodsIn(e) \subseteq Pods /\ \A x \in PodsIn(e) : x.uid # None
  BY <1>1 DEF PodsIn
<1> QED
  BY <1>1, <1>2, PodFacts

\* A set of naturals that is not empty has a smallest element.
LEMMA Smallest ==
    ASSUME NEW S \in SUBSET Nat, S # {}
    PROVE  \E k \in S : \A j \in S : k <= j
<1> DEFINE R == OpToRel(<, Nat)
<1>1. IsWellFoundedOn(R, Nat)
  BY NatLessThanWellFounded
<1>2. \A x, y \in Nat : x < y => <<x, y>> \in R
  BY DEF OpToRel
<1> HIDE DEF R
<1>3. PICK x \in S : \A y \in S : <<y, x>> \notin R
  BY <1>1, WFMin
<1>4. ASSUME NEW y \in S PROVE x <= y
  <2>1. ~ (y < x)
    BY <1>2, <1>3, Zenon
  <2> QED
    BY <2>1
<1> QED
  BY <1>4

\* The services in front of the first bad one.
LEMMA GoodServicesFacts ==
    ASSUME NEW services \in Seq(Seq(Fields))
    PROVE  /\ \E n \in Nat : GoodServices(services) = 1..n
           /\ GoodServices(services) \subseteq DOMAIN services
           /\ \A k \in GoodServices(services) : Parses(services[k])
<1> DEFINE bad == {k \in DOMAIN services : ~Parses(services[k])}
           len == Len(services)
<1>1. DOMAIN services = 1..len /\ len \in Nat
  OBVIOUS
<1> HIDE DEF len
<1>2. /\ GoodServices(services) \subseteq DOMAIN services
      /\ \A k \in GoodServices(services) : Parses(services[k])
  BY <1>1 DEF GoodServices
<1>3. CASE bad = {}
  <2>1. \A k \in DOMAIN services : Parses(services[k])
    BY <1>3
  <2>2. \A k \in 1..len : \A j \in 1..k : j \in DOMAIN services
    BY <1>1
  <2>3. GoodServices(services) = 1..len
    BY <1>1, <2>1, <2>2 DEF GoodServices
  <2> QED
    BY <1>1, <1>2, <2>3
<1>4. CASE bad # {}
  <2>1. bad \in SUBSET Nat
    BY <1>1
  <2>2. PICK b \in bad : \A j \in bad : b <= j
    BY <1>4, <2>1, Smallest
  <2>3. b \in 1..len /\ ~Parses(services[b])
    BY <1>1
  <2>4. \A j \in 1..(b - 1) : j \in DOMAIN services /\ Parses(services[j])
    <3> SUFFICES ASSUME NEW j \in 1..(b - 1)
                 PROVE  j \in DOMAIN services /\ Parses(services[j])
      OBVIOUS
    <3>1. j \in DOMAIN services
      BY <1>1, <2>3
    <3>2. ~(b <= j)
      BY <1>1, <2>3
    <3> QED
      BY <2>2, <3>1, <3>2, Zenon
  <2>5. GoodServices(services) = 1..(b - 1)
    <3>1. ASSUME NEW k \in GoodServices(services) PROVE k \in 1..(b - 1)
      BY <1>1, <2>3 DEF GoodServices
    <3>2. ASSUME NEW k \in 1..(b - 1) PROVE k \in GoodServices(services)
      BY <1>1, <2>3, <2>4 DEF GoodServices
    <3> QED
      BY <3>1, <3>2
  <2>6. b - 1 \in Nat
    BY <1>1, <2>3
  <2> QED
    BY <1>2, <2>5, <2>6
<1> QED
  BY <1>3, <1>4

\* discover_services sends Adds for the pod and nothing else.
LEMMA AddsFacts ==
    ASSUME NEW x \in Pods, x.uid \in Uids
    PROVE  /\ Adds(x) \in Seq(EndpointEvents)
           /\ \A k \in DOMAIN Adds(x) :
                  Adds(x)[k].type = "Add" /\ Adds(x)[k].uid = x.uid
<1>1. x.services \in Seq(Seq(Fields))
  BY PodFacts
<1>2. PICK n \in Nat : GoodServices(x.services) = 1..n
  BY <1>1, GoodServicesFacts
<1>3. ASSUME NEW k \in 1..n
      PROVE  /\ AddOf(x.uid, x.services[k]) \in EndpointEvents
             /\ AddOf(x.uid, x.services[k]).type = "Add"
             /\ AddOf(x.uid, x.services[k]).uid = x.uid
  <2> DEFINE parts == x.services[k]
  <2>1. parts \in Seq(Fields) /\ Parses(parts)
    BY <1>1, <1>2, GoodServicesFacts
  <2> HIDE DEF parts
  <2>2. /\ parts[1] \in PortNumbers /\ parts[3] \in PortNumbers
        /\ parts[2] \in Fields /\ parts[4] \in Fields
    BY <2>1 DEF Parses
  <2>3. <<parts[3], parts[4]>> \in PortNumbers \X Fields
    BY <2>2
  <2>4. AddOf(x.uid, parts) \in EndpointEvents
    BY <2>2, <2>3 DEF AddOf, EndpointEvents
  <2>5. AddOf(x.uid, parts).type = "Add" /\ AddOf(x.uid, parts).uid = x.uid
    BY DEF AddOf
  <2> QED
    BY <2>4, <2>5 DEF parts
<1>4. Adds(x) = [k \in 1..n |-> AddOf(x.uid, x.services[k])]
  BY <1>2 DEF Adds
<1> QED
  BY <1>3, <1>4

\* The phase of a pod is worth one event, or none.
LEMMA PhaseEventsFacts ==
    ASSUME NEW x \in Pods, x.uid \in Uids
    PROVE  \/ x.phase = "Pending" /\ PhaseEvents(x) = <<>>
           \/ \E e \in EndpointEvents :
                  /\ PhaseEvents(x) = <<e>>
                  /\ e.uid = x.uid
                  /\ x.phase = "Running" => e.type = "Resume"
                  /\ x.phase = "Succeeded" => e.type = "Delete"
                  /\ x.phase \notin {"Running", "Succeeded"} =>
                         e.type = "Suspend"
                  /\ x.phase # "Pending"
                  /\ e.type # "Add"
<1> DEFINE ev(t) == [type |-> t, uid |-> x.uid]
<1>1. \A t \in {"Resume", "Delete", "Suspend"} :
          ev(t) \in EndpointEvents /\ ev(t).type = t /\ ev(t).uid = x.uid
  BY DEF EndpointEvents
<1>2. CASE x.phase = "Running"
  <2>1. PhaseEvents(x) = <<ev("Resume")>>
    BY <1>2 DEF PhaseEvents
  <2> QED
    BY <1>1, <1>2, <2>1
<1>3. CASE x.phase = "Succeeded"
  <2>1. PhaseEvents(x) = <<ev("Delete")>>
    BY <1>3 DEF PhaseEvents
  <2> QED
    BY <1>1, <1>3, <2>1
<1>4. CASE x.phase = "Pending"
  BY <1>4 DEF PhaseEvents
<1>5. CASE x.phase \notin {"Running", "Succeeded", "Pending"}
  <2>1. PhaseEvents(x) = <<ev("Suspend")>>
    BY <1>5 DEF PhaseEvents
  <2> QED
    BY <1>1, <1>5, <2>1
<1> QED
  BY <1>2, <1>3, <1>4, <1>5

-----------------------------------------------------------------------------
(* What the outbox of a handler will have told.                            *)

\* An empty outbox changes nothing.
LEMMA EmptyOutbox ==
    ASSUME outbox = <<>>
    PROVE  /\ \A t, u : ~InOutbox(t, u)
           /\ \A u : WillBeUntold(u) <=> told[u] = Untold
           /\ \A u, s : WillBe(u, s) <=>
                  told[u] = Untold \/ \A p \in PortNumbers : told[u][p] \in {"none", s}
           /\ OutboxOK /\ ServingNotReset
<1>1. DOMAIN outbox = {}
  OBVIOUS
<1>2. \A t, u : ~InOutbox(t, u)
  BY <1>1 DEF InOutbox
<1>3. \A u : WillBeUntold(u) <=> told[u] = Untold
  BY <1>2 DEF WillBeUntold
<1>4. \A u, s : WillBe(u, s) <=>
          told[u] = Untold \/ \A p \in PortNumbers : told[u][p] \in {"none", s}
  BY <1>2, <1>3 DEF WillBe
<1> QED
  BY <1>1, <1>2, <1>3, <1>4 DEF OutboxOK, ServingNotReset

\* An outbox of Adds for one pod.
LEMMA OnlyAdds ==
    ASSUME NEW u \in Uids, outbox' \in Seq(EndpointEvents),
           \A k \in DOMAIN outbox' : outbox'[k].type = "Add" /\ outbox'[k].uid = u
    PROVE  /\ OutboxOK'
           /\ \A t, w : InOutbox(t, w)' => t = "Add" /\ w = u
BY DEF OutboxOK, InOutbox

\* Adds for one pod and then another event for it.
LEMMA AddsAndOne ==
    ASSUME NEW adds \in Seq(EndpointEvents),
           NEW e \in EndpointEvents, e.type # "Add",
           \A k \in DOMAIN adds : adds[k].type = "Add" /\ adds[k].uid = e.uid,
           NEW events, events = adds \o <<e>>
    PROVE  /\ events \in Seq(EndpointEvents)
           /\ \A j, k \in DOMAIN events : j < k => events[j].type = "Add"
           /\ \E k \in DOMAIN events : events[k] = e
           /\ \A k \in DOMAIN events :
              /\ events[k].uid = e.uid
              /\ events[k].type = "Add" => adds # <<>>
<1> DEFINE n == Len(adds)
<1>1. /\ events \in Seq(EndpointEvents) /\ n \in Nat
      /\ DOMAIN events = 1..(n + 1) /\ DOMAIN adds = 1..n
      /\ \A k \in 1..n : events[k] = adds[k]
      /\ events[n + 1] = e
  OBVIOUS
<1>2. adds # <<>> <=> n # 0
  OBVIOUS
<1> HIDE DEF n
<1>3. \A k \in DOMAIN events :
          \/ k \in 1..n /\ events[k].type = "Add" /\ events[k].uid = e.uid
          \/ k = n + 1 /\ events[k] = e
  BY <1>1
<1>4. \A j, k \in DOMAIN events : j < k => events[j].type = "Add"
  BY <1>1, <1>3
<1>5. \E k \in DOMAIN events : events[k] = e
  <2>1. n + 1 \in DOMAIN events
    BY <1>1
  <2> QED
    BY <1>1, <2>1
<1>6. \A k \in DOMAIN events :
          /\ events[k].uid = e.uid
          /\ events[k].type = "Add" => adds # <<>>
  BY <1>1, <1>2, <1>3
<1> QED
  BY <1>1, <1>4, <1>5, <1>6

\* An outbox of Deletes takes endpoints away and adds none.
LEMMA OnlyDeletes ==
    ASSUME outbox = <<>>, UNCHANGED told,
           \A k \in DOMAIN outbox' : outbox'[k].type = "Delete"
    PROVE  /\ OutboxOK' /\ ServingNotReset'
           /\ \A u : WillBeUntold(u) => WillBeUntold(u)'
           /\ \A u, s : WillBe(u, s) => WillBe(u, s)'
           /\ \A u : (\E k \in DOMAIN outbox' : outbox'[k].uid = u) =>
                  WillBeUntold(u)'
<1>1. \A t, u : InOutbox(t, u)' => t = "Delete"
  BY DEF InOutbox
<1>2. \A u : WillBeUntold(u) => WillBeUntold(u)'
  BY <1>1, EmptyOutbox DEF WillBeUntold
<1>3. \A u, s : WillBe(u, s) => WillBe(u, s)'
  BY <1>1, <1>2, EmptyOutbox DEF WillBe
<1>4. \A u : (\E k \in DOMAIN outbox' : outbox'[k].uid = u) =>
          WillBeUntold(u)'
  BY DEF WillBeUntold, InOutbox
<1> QED
  BY <1>2, <1>3, <1>4 DEF OutboxOK, ServingNotReset

\* A send does not change what will have been told.
LEMMA SendFacts ==
    ASSUME TypeOK, OutboxOK, ServingNotReset, outbox # <<>>,
           told' = Learn(told, Head(outbox)), outbox' = Tail(outbox)
    PROVE  /\ outbox' \in Seq(EndpointEvents)
           /\ told' \in [Uids ->
                  [PortNumbers -> {"none", "suspended", "available"}]]
           /\ OutboxOK' /\ ServingNotReset'
           /\ \A u \in Uids : WillBeUntold(u) => WillBeUntold(u)'
           /\ \A u \in Uids, s \in {"available", "suspended"} :
                  WillBe(u, s) => WillBe(u, s)'
<1> DEFINE e == Head(outbox)
           n == Len(outbox)
<1>1. /\ outbox' \in Seq(EndpointEvents) /\ n \in Nat /\ n >= 1
      /\ DOMAIN outbox = 1..n /\ DOMAIN outbox' = 1..(n - 1)
      /\ \A k \in 1..(n - 1) : outbox'[k] = outbox[k + 1]
      /\ outbox[1] = e /\ e \in EndpointEvents
  BY DEF TypeOK
<1>2. /\ e.type \in {"Add", "Delete", "Suspend", "Resume"} /\ e.uid \in Uids
      /\ e.type = "Add" => e.external_port \in PortNumbers
  BY <1>1, EventFacts
<1>3. told \in [Uids -> [PortNumbers -> {"none", "suspended", "available"}]]
  BY DEF TypeOK
<1> HIDE DEF e, n
<1>4. \A u \in Uids \ {e.uid} : told'[u] = told[u]
  BY <1>3 DEF Learn, e
<1>5. e.type = "Add" =>
          told'[e.uid] = [told[e.uid] EXCEPT ![e.external_port] = "suspended"]
  BY <1>2, <1>3 DEF Learn, e
<1>6. e.type = "Delete" => told'[e.uid] = Untold
  BY <1>2, <1>3 DEF Learn, e
<1>7. e.type \in {"Resume", "Suspend"} =>
          told'[e.uid] = [p \in PortNumbers |->
              IF told[e.uid][p] = "none" THEN "none"
              ELSE IF e.type = "Resume" THEN "available" ELSE "suspended"]
  BY <1>2, <1>3 DEF Learn, e
<1>8. told' \in [Uids -> [PortNumbers -> {"none", "suspended", "available"}]]
  <2>1. told'[e.uid] \in [PortNumbers -> {"none", "suspended", "available"}]
    BY <1>2, <1>3, <1>5, <1>6, <1>7, SMTT(20) DEF Untold
  <2>2. told' = [told EXCEPT ![e.uid] = told'[e.uid]]
    BY <1>2, <1>3 DEF Learn, e
  <2> QED
    BY <1>3, <2>1, <2>2
<1>9. OutboxOK'
  BY <1>1 DEF OutboxOK
\* What remains is what was there without the first event.
<1>10. /\ \A t, u : InOutbox(t, u)' => InOutbox(t, u)
       /\ \A t, u : InOutbox(t, u) =>
              InOutbox(t, u)' \/ (t = e.type /\ u = e.uid)
  <2>1. ASSUME NEW t, NEW u, InOutbox(t, u)' PROVE InOutbox(t, u)
    <3>1. PICK k \in 1..(n - 1) : outbox'[k].type = t /\ outbox'[k].uid = u
      BY <1>1, <2>1 DEF InOutbox
    <3>2. k + 1 \in DOMAIN outbox /\ outbox'[k] = outbox[k + 1]
      BY <1>1
    <3> QED
      BY <3>1, <3>2 DEF InOutbox
  <2>2. ASSUME NEW t, NEW u, InOutbox(t, u)
        PROVE  InOutbox(t, u)' \/ (t = e.type /\ u = e.uid)
    <3>1. PICK k \in DOMAIN outbox : outbox[k].type = t /\ outbox[k].uid = u
      BY <2>2 DEF InOutbox
    <3>2. k # 1 => k - 1 \in DOMAIN outbox' /\ outbox'[k - 1] = outbox[k]
      BY <1>1
    <3> QED
      BY <1>1, <3>1, <3>2 DEF InOutbox
  <2> QED
    BY <2>1, <2>2
<1>11. \A t, u : InOutbox(t, u)' =>
           e.type = "Add" \/ (e.type = "Delete" /\ t = "Delete")
  <2> SUFFICES ASSUME NEW t, NEW u, InOutbox(t, u)'
               PROVE  e.type = "Add" \/ (e.type = "Delete" /\ t = "Delete")
    OBVIOUS
  <2>1. PICK k \in 1..(n - 1) : outbox'[k].type = t
    BY <1>1 DEF InOutbox
  <2>2. /\ k + 1 \in DOMAIN outbox /\ 1 \in DOMAIN outbox /\ 1 < k + 1
        /\ outbox'[k] = outbox[k + 1]
    BY <1>1
  <2> QED
    BY <1>1, <2>1, <2>2 DEF OutboxOK
<1>12. ServingNotReset'
  <2> SUFFICES ASSUME NEW k \in DOMAIN outbox', outbox'[k].type = "Add",
                      NEW p \in PortNumbers
               PROVE  told'[outbox'[k].uid][p] # "available"
    BY DEF ServingNotReset
  <2>1. k + 1 \in DOMAIN outbox /\ outbox'[k] = outbox[k + 1]
    BY <1>1
  <2>2. told[outbox'[k].uid][p] # "available" /\ outbox'[k].uid \in Uids
    BY <1>1, <2>1, EventFacts DEF ServingNotReset
  <2>3. e.type = "Add"
    BY <1>11 DEF InOutbox
  <2> QED
    BY <1>2, <1>3, <1>4, <1>5, <2>2, <2>3
<1>13. ASSUME NEW u \in Uids, WillBeUntold(u) PROVE WillBeUntold(u)'
  <2>1. CASE u # e.uid
    BY <1>4, <1>10, <1>13, <2>1 DEF WillBeUntold
  <2>2. CASE u = e.uid /\ e.type = "Delete"
    BY <1>6, <1>11, <2>2 DEF WillBeUntold
  <2>3. CASE u = e.uid /\ InOutbox("Delete", u)'
    BY <2>3 DEF WillBeUntold
  <2>4. CASE u = e.uid /\ e.type # "Delete" /\ ~InOutbox("Delete", u)'
    <3>1. told[u] = Untold /\ ~InOutbox("Add", u)
      BY <1>10, <1>13, <2>4 DEF WillBeUntold
    <3>2. InOutbox(e.type, u)
      BY <1>1, <2>4 DEF InOutbox
    <3>3. e.type \in {"Resume", "Suspend"}
      BY <1>2, <2>4, <3>1, <3>2
    <3>4. told'[u] = Untold
      BY <1>7, <2>4, <3>1, <3>3 DEF Untold
    <3> QED
      BY <1>10, <3>1, <3>4 DEF WillBeUntold
  <2> QED
    BY <2>1, <2>2, <2>3, <2>4
<1>14. ASSUME NEW u \in Uids, NEW s \in {"available", "suspended"},
              WillBe(u, s)
       PROVE  WillBe(u, s)'
  <2> DEFINE t == IF s = "available" THEN "Resume" ELSE "Suspend"
  <2>1. CASE WillBeUntold(u)
    BY <1>13, <2>1 DEF WillBe
  <2>2. CASE InOutbox(t, u)'
    BY <2>2 DEF WillBe
  <2>3. CASE InOutbox(t, u) /\ ~InOutbox(t, u)'
    <3>1. e.uid = u /\ e.type = t
      BY <1>10, <2>3
    <3>2. \A p \in PortNumbers : told'[u][p] \in {"none", s}
      BY <1>7, <3>1
    <3>3. \A x, w : ~InOutbox(x, w)'
      BY <1>11, <3>1
    <3> QED
      BY <3>2, <3>3 DEF WillBe
  <2>4. CASE /\ ~InOutbox("Resume", u) /\ ~InOutbox("Suspend", u)
             /\ \A p \in PortNumbers : told[u][p] \in {"none", s}
             /\ InOutbox("Add", u) => s = "suspended"
    <3>1. /\ ~InOutbox("Resume", u)' /\ ~InOutbox("Suspend", u)'
          /\ InOutbox("Add", u)' => s = "suspended"
      BY <1>10, <2>4
    <3>2. \A p \in PortNumbers : told'[u][p] \in {"none", s}
      <4>1. CASE u # e.uid
        BY <1>4, <2>4, <4>1
      <4>2. CASE u = e.uid
        <5>1. InOutbox(e.type, u)
          BY <1>1, <4>2 DEF InOutbox
        <5>2. e.type = "Delete" \/ (e.type = "Add" /\ s = "suspended")
          BY <1>2, <2>4, <5>1
        <5>3. CASE e.type = "Delete"
          BY <1>6, <4>2, <5>3 DEF Untold
        <5>4. CASE e.type = "Add" /\ s = "suspended"
          BY <1>2, <1>3, <1>5, <2>4, <4>2, <5>4
        <5> QED
          BY <5>2, <5>3, <5>4
      <4> QED
        BY <4>1, <4>2
    <3> QED
      BY <3>1, <3>2 DEF WillBe
  <2> QED
    BY <1>14, <2>1, <2>2, <2>3, <2>4 DEF WillBe
<1> QED
  BY <1>1, <1>8, <1>9, <1>12, <1>13, <1>14

-----------------------------------------------------------------------------
(* apply_pod.                                                              *)

\* After report x has been applied: x has its effect on what will be told of
\* its pod, and no other pod is affected.
Applied(x) ==
    /\ outbox' \in Seq(EndpointEvents)
    /\ known_pod_uids' \subseteq Uids /\ IsFiniteSet(known_pod_uids')
    /\ failing' \in BOOLEAN
    /\ OutboxOK' /\ ServingNotReset'
    /\ \A w \in Uids : w \notin known_pod_uids' => WillBeUntold(w)'
    /\ \A w \in Uids \ {x.uid} :
           /\ WillBeUntold(w) => WillBeUntold(w)'
           /\ \A s : WillBe(w, s) => WillBe(w, s)'
    /\ x.phase = "Pending" => WillBe(x.uid, "suspended")'
    /\ ~failing' /\ x.details => WillBe(x.uid, StatusOf(x))'
    /\ ~failing' /\ x.details /\ x.phase = "Succeeded" =>
           WillBeUntold(x.uid)'

\* A report y that is still to come fits what is told after a report x of
\* the same pod, as the order of the reports is kept.
LEMMA LaterFits ==
    ASSUME NEW x \in Pods, NEW y \in Pods, FitsTold(y), y.uid \in Uids,
           y.uid = x.uid => Precedes(x, y),
           Applied(x)
    PROVE  FitsTold(y)'
<1>1. CASE y.uid = x.uid
  BY <1>1 DEF Applied, FitsTold, Precedes
<1>2. CASE y.uid # x.uid
  BY <1>2 DEF Applied, FitsTold
<1> QED
  BY <1>1, <1>2

\* apply_pod sends nothing and, if nothing is missing, fails.
LEMMA ApplyNothing ==
    ASSUME IInv, Idle, NEW x \in Pods, x.uid \in Uids, FitsTold(x),
           UNCHANGED <<told, outbox, known_pod_uids>>, failing' \in BOOLEAN,
           ~x.details \/ failing'
    PROVE  Applied(x)
<1>1. /\ outbox = <<>> /\ known_pod_uids \subseteq Uids
      /\ IsFiniteSet(known_pod_uids)
      /\ outbox \in Seq(EndpointEvents)
      /\ \A w \in Uids : w \notin known_pod_uids => WillBeUntold(w)
  BY DEF Idle, IInv, TypeOK, KnownOK
<1>2. /\ \A w : WillBeUntold(w) <=> told[w] = Untold
      /\ \A w, s : WillBe(w, s) <=>
             told[w] = Untold \/ \A p \in PortNumbers : told[w][p] \in {"none", s}
      /\ OutboxOK /\ ServingNotReset
  BY <1>1, EmptyOutbox
<1>3. /\ \A w : WillBeUntold(w)' <=> WillBeUntold(w)
      /\ \A w, s : WillBe(w, s)' <=> WillBe(w, s)
  BY DEF WillBeUntold, WillBe, InOutbox
<1>4. OutboxOK' /\ ServingNotReset'
  BY <1>2 DEF OutboxOK, ServingNotReset
<1>5. x.phase = "Pending" => WillBe(x.uid, "suspended")
  BY DEF FitsTold
<1> QED
  BY <1>1, <1>3, <1>4, <1>5 DEF Applied

\* apply_pod sends the services of a new pod, and perhaps no more.
LEMMA ApplyAdds ==
    ASSUME IInv, Idle, NEW x \in Pods, x.uid \in Uids, FitsTold(x),
           UNCHANGED told, x.details,
           outbox' = (IF IsNew(x) THEN Adds(x) ELSE <<>>),
           known_pod_uids' = known_pod_uids \cup {x.uid},
           failing' \in BOOLEAN, failing' \/ x.phase = "Pending"
    PROVE  Applied(x)
<1> DEFINE u == x.uid
<1>1. /\ outbox = <<>> /\ known_pod_uids \subseteq Uids
      /\ IsFiniteSet(known_pod_uids)
      /\ \A w \in Uids : w \notin known_pod_uids => WillBeUntold(w)
      /\ told \in [Uids -> [PortNumbers -> {"none", "suspended", "available"}]]
  BY DEF Idle, IInv, TypeOK, KnownOK
<1>2. /\ \A w : WillBeUntold(w) <=> told[w] = Untold
      /\ \A w, s : WillBe(w, s) <=>
             told[w] = Untold \/ \A p \in PortNumbers : told[w][p] \in {"none", s}
  BY <1>1, EmptyOutbox
<1>3. /\ outbox' \in Seq(EndpointEvents)
      /\ \A k \in DOMAIN outbox' :
             outbox'[k].type = "Add" /\ outbox'[k].uid = u
  BY AddsFacts
<1>4. /\ OutboxOK'
      /\ \A t, w : InOutbox(t, w)' => t = "Add" /\ w = u
  BY <1>3, OnlyAdds
<1>5. (\E k \in DOMAIN outbox' : TRUE) => told[u] = Untold
  BY <1>1, <1>2 DEF IsNew
<1>6. ServingNotReset'
  BY <1>3, <1>5 DEF ServingNotReset, Untold
<1>7. \A w \in Uids \ {u} :
          /\ WillBeUntold(w) => WillBeUntold(w)'
          /\ \A s : WillBe(w, s) => WillBe(w, s)'
  BY <1>2, <1>4 DEF WillBeUntold, WillBe
<1>8. x.phase = "Pending" => WillBe(u, "suspended")'
  <2> SUFFICES ASSUME x.phase = "Pending" PROVE WillBe(u, "suspended")'
    OBVIOUS
  <2>1. WillBe(u, "suspended")
    BY DEF FitsTold
  <2>2. \A p \in PortNumbers : told[u][p] \in {"none", "suspended"}
    BY <1>2, <2>1 DEF Untold
  <2> QED
    BY <1>4, <2>2 DEF WillBe
<1>9. x.phase = "Pending" => StatusOf(x) = "suspended" /\ x.phase # "Succeeded"
  BY DEF StatusOf
<1>10. /\ known_pod_uids' \subseteq Uids /\ IsFiniteSet(known_pod_uids')
       /\ \A w \in Uids : w \notin known_pod_uids' => WillBeUntold(w)'
  BY <1>1, <1>7, FS_AddElement
<1> QED
  BY <1>3, <1>4, <1>6, <1>7, <1>8, <1>9, <1>10 DEF Applied

\* apply_pod sends the services of a new pod and the event for its phase.
LEMMA ApplyPhase ==
    ASSUME IInv, Idle, NEW x \in Pods, x.uid \in Uids, FitsTold(x),
           UNCHANGED told, x.details, x.phase # "Pending",
           outbox' = (IF IsNew(x) THEN Adds(x) ELSE <<>>) \o PhaseEvents(x),
           known_pod_uids' = IF x.phase = "Succeeded"
                             THEN known_pod_uids \ {x.uid}
                             ELSE known_pod_uids \cup {x.uid},
           failing' = FALSE
    PROVE  Applied(x)
<1> DEFINE u == x.uid
<1>1. /\ outbox = <<>> /\ known_pod_uids \subseteq Uids
      /\ IsFiniteSet(known_pod_uids)
      /\ \A w \in Uids : w \notin known_pod_uids => WillBeUntold(w)
      /\ told \in [Uids -> [PortNumbers -> {"none", "suspended", "available"}]]
  BY DEF Idle, IInv, TypeOK, KnownOK
<1>2. /\ \A w : WillBeUntold(w) <=> told[w] = Untold
      /\ \A w, s : WillBe(w, s) <=>
             told[w] = Untold \/ \A p \in PortNumbers : told[w][p] \in {"none", s}
  BY <1>1, EmptyOutbox
<1>3. PICK e \in EndpointEvents :
          /\ PhaseEvents(x) = <<e>> /\ e.uid = u /\ e.type # "Add"
          /\ x.phase = "Running" => e.type = "Resume"
          /\ x.phase = "Succeeded" => e.type = "Delete"
          /\ x.phase \notin {"Running", "Succeeded"} => e.type = "Suspend"
  BY PhaseEventsFacts
<1>4. PICK adds :
          /\ adds \in Seq(EndpointEvents)
          /\ adds = IF IsNew(x) THEN Adds(x) ELSE <<>>
          /\ \A k \in DOMAIN adds : adds[k].type = "Add" /\ adds[k].uid = u
  <2>1. PICK adds : adds = IF IsNew(x) THEN Adds(x) ELSE <<>>
    OBVIOUS
  <2>2. /\ adds \in Seq(EndpointEvents)
        /\ \A k \in DOMAIN adds : adds[k].type = "Add" /\ adds[k].uid = u
    BY <2>1, AddsFacts
  <2> QED
    BY <2>1, <2>2, Zenon
<1>5. adds # <<>> => told[u] = Untold
  BY <1>1, <1>2, <1>4 DEF IsNew
<1>6. outbox' = adds \o <<e>>
  BY <1>3, <1>4
<1>7. /\ outbox' \in Seq(EndpointEvents)
      /\ OutboxOK'
      /\ InOutbox(e.type, u)'
      /\ \A t, w : InOutbox(t, w)' => w = u
      /\ \A k \in DOMAIN outbox' : outbox'[k].type = "Add" =>
             outbox'[k].uid = u /\ adds # <<>>
  <2>1. PICK events : events = adds \o <<e>>
    OBVIOUS
  <2>2. /\ events \in Seq(EndpointEvents)
        /\ \A j, k \in DOMAIN events : j < k => events[j].type = "Add"
        /\ \E k \in DOMAIN events : events[k] = e
        /\ \A k \in DOMAIN events :
               /\ events[k].uid = u
               /\ events[k].type = "Add" => adds # <<>>
    <3>1. /\ adds \in Seq(EndpointEvents) /\ e.type # "Add"
          /\ \A k \in DOMAIN adds :
                 adds[k].type = "Add" /\ adds[k].uid = e.uid
      BY <1>3, <1>4
    <3>2. e.uid = u
      BY <1>3
    <3> HIDE DEF u
    <3> QED
      BY <2>1, <3>1, <3>2, AddsAndOne
  <2>3. outbox' = events
    BY <1>6, <2>1, Zenon
  <2> QED
    BY <1>3, <2>2, <2>3 DEF InOutbox, OutboxOK
<1>8. ServingNotReset'
  BY <1>5, <1>7 DEF ServingNotReset, Untold
<1>9. \A w \in Uids \ {u} :
          /\ WillBeUntold(w) => WillBeUntold(w)'
          /\ \A s : WillBe(w, s) => WillBe(w, s)'
  BY <1>2, <1>7 DEF WillBeUntold, WillBe
<1>10. x.phase = "Succeeded" => WillBeUntold(u)'
  BY <1>3, <1>7 DEF WillBeUntold
<1>11. WillBe(u, StatusOf(x))'
  <2>1. CASE x.phase = "Succeeded"
    BY <1>10, <2>1 DEF WillBe
  <2>2. CASE x.phase = "Running"
    <3>1. InOutbox("Resume", u)' /\ StatusOf(x) = "available"
      BY <1>3, <1>7, <2>2 DEF StatusOf
    <3> QED
      BY <3>1 DEF WillBe
  <2>3. CASE x.phase \notin {"Running", "Succeeded"}
    <3>1. InOutbox("Suspend", u)' /\ StatusOf(x) = "suspended"
      BY <1>3, <1>7, <2>3 DEF StatusOf
    <3> QED
      BY <3>1 DEF WillBe
  <2> QED
    BY <2>1, <2>2, <2>3
<1>12. /\ known_pod_uids' \subseteq Uids
       /\ \A w \in Uids : w \notin known_pod_uids' => WillBeUntold(w)'
  BY <1>1, <1>9, <1>10
<1>13. IsFiniteSet(known_pod_uids')
  BY <1>1, FS_AddElement, FS_RemoveElement
<1> QED
  BY <1>7, <1>8, <1>9, <1>10, <1>11, <1>12, <1>13 DEF Applied

\* What apply_pod makes of a report that fits what was told of its pod.
LEMMA ApplyFacts ==
    ASSUME IInv, Idle, NEW x \in Pods, x.uid \in Uids, FitsTold(x),
           ApplyPod(x), UNCHANGED told
    PROVE  Applied(x)
<1> DEFINE ok == IsNew(x) => AllServicesParse(x)
           adds == IF IsNew(x) THEN Adds(x) ELSE <<>>
<1>1. failing = FALSE /\ adds \in Seq(EndpointEvents)
  BY AddsFacts DEF Idle, IInv, TypeOK
<1>2. CASE ~x.details /\ UNCHANGED <<known_pod_uids, outbox, failing>>
  BY <1>1, <1>2, ApplyNothing
<1>3. CASE failing' = TRUE /\ UNCHANGED <<known_pod_uids, outbox>>
  BY <1>3, ApplyNothing
<1>4. CASE /\ x.details
           /\ known_pod_uids' = IF ok /\ x.phase = "Succeeded"
                                THEN known_pod_uids \ {x.uid}
                                ELSE known_pod_uids \cup {x.uid}
           /\ outbox' = IF ok THEN adds \o PhaseEvents(x) ELSE adds
           /\ failing' = ~ok
  <2>1. CASE ~ok
    <3>1. /\ outbox' = adds /\ failing' = TRUE
          /\ known_pod_uids' = known_pod_uids \cup {x.uid}
      BY <1>4, <2>1
    <3> QED
      BY <1>4, <3>1, ApplyAdds
  <2>2. CASE ok /\ x.phase = "Pending"
    <3>1. PhaseEvents(x) = <<>>
      BY <2>2, PhaseEventsFacts
    <3>2. /\ outbox' = adds /\ failing' = FALSE
          /\ known_pod_uids' = known_pod_uids \cup {x.uid}
      <4>1. \A s \in Seq(EndpointEvents) : s \o <<>> = s
        OBVIOUS
      <4>2. outbox' = adds
        BY <1>1, <1>4, <2>2, <3>1, <4>1, Zenon
      <4> QED
        BY <1>4, <2>2, <4>2
    <3> QED
      BY <1>4, <2>2, <3>2, ApplyAdds
  <2>3. CASE ok /\ x.phase # "Pending"
    <3>1. /\ outbox' = adds \o PhaseEvents(x) /\ failing' = FALSE
          /\ known_pod_uids' = IF x.phase = "Succeeded"
                               THEN known_pod_uids \ {x.uid}
                               ELSE known_pod_uids \cup {x.uid}
      BY <1>4, <2>3
    <3> QED
      BY <1>4, <2>3, <3>1, ApplyPhase
  <2> QED
    BY <2>1, <2>2, <2>3
<1> QED
  BY <1>2, <1>3, <1>4 DEF ApplyPod

-----------------------------------------------------------------------------
(* What stays true of the reports when no more is told than was to be.     *)

\* What will have been told of w is still to be told.
KeepsOf(w) ==
    /\ WillBeUntold(w) => WillBeUntold(w)'
    /\ \A s \in {"available", "suspended"} : WillBe(w, s) => WillBe(w, s)'

\* The reports on their way are pods with a uid.
LEMMA ReportFacts ==
    ASSUME TypeOK, ListedOK
    PROVE  /\ \A x \in listed : x \in Pods /\ x.uid \in Uids
           /\ \A i \in DOMAIN stream :
                  /\ stream[i] \in StreamEvents
                  /\ \A x \in PodsIn(stream[i]) : x \in Pods /\ x.uid \in Uids
<1>1. \A x \in listed : x \in Pods /\ x.uid # None
  BY DEF TypeOK, ListedOK
<1>2. \A i \in DOMAIN stream : stream[i] \in StreamEvents
  BY DEF TypeOK
<1> QED
  BY <1>1, <1>2, PodFacts, StreamEventFacts

\* Two reports of a pod and one between them.
LEMMA PrecedesTrans ==
    ASSUME NEW x, NEW y, NEW z, Precedes(x, y), Precedes(y, z)
    PROVE  Precedes(x, z)
BY DEF Precedes

\* A report that fits keeps fitting.
LEMMA KeepsFits ==
    ASSUME NEW x, KeepsOf(x.uid), FitsTold(x)
    PROVE  FitsTold(x)'
BY DEF KeepsOf, FitsTold

\* With the cluster as it is, what is right of a pod stays right.
LEMMA KeepsAgrees ==
    ASSUME NEW u \in Uids, KeepsOf(u), UNCHANGED cluster, Agrees(u)
    PROVE  Agrees(u)'
<1>1. Visible(u)' <=> Visible(u)
  BY DEF Visible, Existing
<1> QED
  BY <1>1 DEF KeepsOf, Agrees

\* With the cluster as it is, the reports are no newer than before.
LEMMA SameCluster ==
    ASSUME UNCHANGED cluster
    PROVE  /\ \A w : Visible(w)' <=> Visible(w)
           /\ \A x : FitsCluster(x)' <=> FitsCluster(x)
           /\ \A e, w : Accurate(e, w)' <=> Accurate(e, w)
<1>1. \A w : Visible(w)' <=> Visible(w)
  BY DEF Visible, Existing
<1>2. \A x : FitsCluster(x)' <=> FitsCluster(x)
  BY DEF FitsCluster, Existing
<1>3. \A e, w : Accurate(e, w)' <=> Accurate(e, w)
  BY <1>1 DEF Accurate
<1> QED
  BY <1>1, <1>2, <1>3

\* The pods of the cluster, when no more is told than was to be.
LEMMA KeepsSlots ==
    ASSUME SlotsOK, \A w \in Uids : KeepsOf(w), UNCHANGED cluster
    PROVE  SlotsOK'
<1>1. \A w : Visible(w)' <=> Visible(w)
  BY SameCluster
<1>2. \A w : w \in Existing' <=> w \in Existing
  BY DEF Existing
<1> QED
  BY <1>1, <1>2 DEF SlotsOK, KeepsOf

\* A step that tells no more than was to be told and leaves the rest alone.
LEMMA QuietStep ==
    ASSUME IInv, \A w \in Uids : KeepsOf(w),
           UNCHANGED <<cluster, watched, stream, known_pod_uids, restarting,
                       listed, current_pod_uids, failing>>
    PROVE  SlotsOK' /\ ListedOK' /\ StreamOK' /\ KnownOK' /\ LastWordOK'
<1>1. /\ \A x \in listed : x \in Pods /\ x.uid \in Uids
      /\ \A i \in DOMAIN stream : \A x \in PodsIn(stream[i]) :
             x \in Pods /\ x.uid \in Uids
  BY ReportFacts DEF IInv
<1>2. /\ \A x \in listed : FitsTold(x) => FitsTold(x)'
      /\ \A i \in DOMAIN stream : \A x \in PodsIn(stream[i]) :
             FitsTold(x) => FitsTold(x)'
  BY <1>1, KeepsFits
<1>3. /\ \A w : Visible(w)' <=> Visible(w)
      /\ \A x : FitsCluster(x)' <=> FitsCluster(x)
  BY SameCluster
<1>5. SlotsOK'
  BY KeepsSlots DEF IInv
<1>6. ListedOK'
  BY <1>2, <1>3 DEF IInv, ListedOK
<1>7. StreamOK'
  BY <1>2, <1>3 DEF IInv, StreamOK
<1>8. KnownOK'
  BY DEF IInv, KnownOK, KeepsOf
<1>9. \A w \in Uids : TaskAccurate(w) => TaskAccurate(w)'
  BY <1>3, KeepsAgrees DEF TaskAccurate
<1>10. LastWordOK'
  BY <1>3, <1>9 DEF IInv, LastWordOK, Accurate
<1> QED
  BY <1>5, <1>6, <1>7, <1>8, <1>10

-----------------------------------------------------------------------------
(* The steps of the cluster.                                               *)

\* Pod u becomes pod, is created as pod or is deleted; e reports it.
Becomes(u, pod, e) ==
    /\ cluster' = [cluster EXCEPT ![u] = pod]
    /\ stream' = IF watched THEN Append(stream, e) ELSE stream
    /\ Len(stream') <= MaxStream
    /\ UNCHANGED <<watched, alive, known_pod_uids, restarting, listed,
                   current_pod_uids, outbox, failing, listening, told>>
    /\ cluster[u] # Gone
    /\ \/ /\ e = [type |-> "Applied", pod |-> pod]
          /\ pod \in Pods /\ pod.uid \in {u, None}
          /\ cluster[u] # None =>
                 /\ pod.uid = cluster[u].uid
                 /\ Precedes(cluster[u], pod)
                 /\ SameServices(cluster[u], pod)
       \/ /\ e = [type |-> "Deleted", pod |-> cluster[u]]
          /\ cluster[u] # None /\ pod = Gone

\* The stream with one more event.
LEMMA AppendFacts ==
    ASSUME NEW s \in Seq(StreamEvents), NEW e \in StreamEvents
    PROVE  /\ Append(s, e) \in Seq(StreamEvents)
           /\ DOMAIN Append(s, e) = DOMAIN s \cup {Len(s) + 1}
           /\ DOMAIN s = 1..Len(s) /\ Len(s) \in Nat
           /\ \A i \in DOMAIN s : Append(s, e)[i] = s[i] /\ i < Len(s) + 1
           /\ Append(s, e)[Len(s) + 1] = e
OBVIOUS

\* The event that reports a change of a pod.
LEMMA BecomesFacts ==
    ASSUME IInv, NEW u \in Uids, NEW pod, NEW e, Becomes(u, pod, e)
    PROVE  /\ e \in StreamEvents
           /\ e.type \in {"Applied", "Deleted"} /\ e.pod \in Pods
           /\ e.pod.uid \in {u, None}
           /\ pod \in Pods \cup {Gone} /\ pod # None
           /\ PodsIn(e) = {x \in {e.pod} : x.uid = u}
           /\ cluster'[u] = pod
           /\ \A w \in Uids \ {u} : cluster'[w] = cluster[w]
           /\ \A w \in Uids \ {u} : Visible(w)' <=> Visible(w)
<1>1. cluster \in [Uids -> Pods \cup {None, Gone}]
  BY DEF IInv, TypeOK
<1>2. u \in Existing => cluster[u].uid \in {u, None}
  BY DEF IInv, SlotsOK
<1>3. /\ cluster'[u] = pod
      /\ \A w \in Uids \ {u} : cluster'[w] = cluster[w]
  BY <1>1 DEF Becomes
<1>4. \A w \in Uids \ {u} : Visible(w)' <=> Visible(w)
  BY <1>3 DEF Visible, Existing
<1>5. /\ e \in StreamEvents
      /\ e.type \in {"Applied", "Deleted"} /\ e.pod \in Pods
      /\ e.pod.uid \in {u, None}
      /\ pod \in Pods \cup {Gone} /\ pod # None
  <2>1. CASE /\ e = [type |-> "Applied", pod |-> pod]
             /\ pod \in Pods /\ pod.uid \in {u, None}
    BY <2>1, PodFacts DEF StreamEvents
  <2>2. CASE /\ e = [type |-> "Deleted", pod |-> cluster[u]]
             /\ cluster[u] # None /\ pod = Gone
    <3>1. cluster[u] \in Pods /\ u \in Existing
      BY <1>1, <2>2 DEF Becomes, Existing
    <3> QED
      BY <1>2, <2>2, <3>1, KubernetesAssumption DEF StreamEvents
  <2> QED
    BY <2>1, <2>2 DEF Becomes
<1>6. PodsIn(e) = {x \in {e.pod} : x.uid = u}
  BY <1>5, KubernetesAssumption DEF PodsIn
<1> QED
  BY <1>3, <1>4, <1>5, <1>6

\* A change of the cluster tells nobody anything.
LEMMA NothingTold ==
    ASSUME UNCHANGED <<outbox, told>>
    PROVE  /\ \A w : WillBeUntold(w)' <=> WillBeUntold(w)
           /\ \A w, s : WillBe(w, s)' <=> WillBe(w, s)
           /\ \A x : FitsTold(x)' <=> FitsTold(x)
           /\ OutboxOK' <=> OutboxOK
           /\ ServingNotReset' <=> ServingNotReset
<1>1. \A w : WillBeUntold(w)' <=> WillBeUntold(w)
  BY DEF WillBeUntold, InOutbox
<1>2. \A w, s : WillBe(w, s)' <=> WillBe(w, s)
  BY <1>1 DEF WillBe, InOutbox
<1>3. \A x : FitsTold(x)' <=> FitsTold(x)
  BY <1>1, <1>2 DEF FitsTold
<1> QED
  BY <1>1, <1>2, <1>3 DEF OutboxOK, ServingNotReset

\* No report of a pod that there is not yet; the new one is newer than all.
LEMMA BecomesNewest ==
    ASSUME IInv, NEW u \in Uids, NEW pod, NEW e, Becomes(u, pod, e),
           NEW x \in Pods, x.uid \in Uids, FitsCluster(x)
    PROVE  /\ FitsCluster(x)'
           /\ \A y \in PodsIn(e) : x.uid = y.uid => Precedes(x, y)
<1>1. /\ cluster'[u] = pod /\ pod # None
      /\ \A w \in Uids \ {u} : cluster'[w] = cluster[w]
      /\ PodsIn(e) = {y \in {e.pod} : y.uid = u}
  BY BecomesFacts
<1>2. CASE x.uid # u
  BY <1>1, <1>2 DEF FitsCluster, Existing
<1>3. CASE x.uid = u
  <2>1. cluster[u] # None /\ cluster[u] # Gone /\ Precedes(x, cluster[u])
    BY <1>3 DEF FitsCluster, Existing, Becomes
  <2>2. CASE /\ e = [type |-> "Applied", pod |-> pod]
             /\ Precedes(cluster[u], pod)
    <3>1. Precedes(x, pod)
      BY <2>1, <2>2, PrecedesTrans
    <3>2. e.pod = pod
      BY <2>2
    <3> QED
      BY <1>1, <1>3, <3>1, <3>2 DEF FitsCluster
  <2>3. CASE e = [type |-> "Deleted", pod |-> cluster[u]] /\ pod = Gone
    <3>1. e.pod = cluster[u]
      BY <2>3
    <3>2. FitsCluster(x)'
      BY <1>1, <1>3, <2>3 DEF FitsCluster, Existing
    <3> QED
      BY <1>1, <2>1, <3>1, <3>2
  <2> QED
    BY <2>1, <2>2, <2>3 DEF Becomes
<1> QED
  BY <1>2, <1>3

\* A change of a pod keeps what is true of the pods.
LEMMA BecomesSlots ==
    ASSUME IInv, NEW u \in Uids, NEW pod, NEW e, Becomes(u, pod, e)
    PROVE  SlotsOK'
<1>1. /\ cluster'[u] = pod /\ pod # None
      /\ \A w \in Uids \ {u} : cluster'[w] = cluster[w]
      /\ \A w \in Uids \ {u} : Visible(w)' <=> Visible(w)
  BY BecomesFacts
<1>2. /\ \A w : WillBeUntold(w)' <=> WillBeUntold(w)
      /\ \A w, s : WillBe(w, s)' <=> WillBe(w, s)
  BY NothingTold DEF Becomes
<1>3. \A w \in Uids \ {u} : w \in Existing' <=> w \in Existing
  BY <1>1 DEF Existing
<1>4. ASSUME NEW w \in Uids \ {u}
      PROVE  /\ w \in Existing' => cluster'[w].uid \in {w, None}
             /\ Visible(w)' /\ cluster'[w].phase = "Pending" =>
                    WillBe(w, "suspended")'
             /\ cluster'[w] = None => WillBeUntold(w)'
  BY <1>1, <1>2, <1>3 DEF IInv, SlotsOK
<1>5. /\ u \in Existing' => cluster'[u].uid \in {u, None}
      /\ Visible(u)' /\ cluster'[u].phase = "Pending" =>
             WillBe(u, "suspended")'
      /\ cluster'[u] = None => WillBeUntold(u)'
  <2>1. CASE pod = Gone
    BY <1>1, <2>1 DEF Existing, Visible
  <2>2. CASE cluster[u] = None /\ pod # Gone
    <3>1. WillBeUntold(u)' /\ WillBe(u, "suspended")'
      BY <1>2, <2>2 DEF IInv, SlotsOK, WillBe
    <3>2. pod.uid \in {u, None}
      BY <2>2 DEF Becomes
    <3> QED
      BY <1>1, <3>1, <3>2
  <2>3. CASE cluster[u] # None /\ pod # Gone
    <3>1. /\ pod \in Pods /\ pod.uid \in {u, None}
          /\ pod.uid = cluster[u].uid /\ Precedes(cluster[u], pod)
          /\ u \in Existing
      BY <2>3 DEF Becomes, Existing
    <3>2. Visible(u)' => Visible(u)
      BY <1>1, <3>1 DEF Visible
    <3> QED
      BY <1>1, <1>2, <3>1, <3>2 DEF IInv, SlotsOK, Precedes
  <2> QED
    BY <2>1, <2>2, <2>3
<1> QED
  BY <1>4, <1>5 DEF SlotsOK

\* The reports when a newer one is appended, or none.
LEMMA Grows ==
    ASSUME IInv, NEW e \in StreamEvents,
           stream' = stream \/ stream' = Append(stream, e),
           UNCHANGED <<restarting, listed, outbox, told>>,
           OnePerUid(PodsIn(e)),
           \A x \in PodsIn(e) : FitsTold(x) /\ FitsCluster(x)',
           \A x \in Pods : x.uid \in Uids /\ FitsCluster(x) =>
               /\ FitsCluster(x)'
               /\ \A y \in PodsIn(e) : x.uid = y.uid => Precedes(x, y)
    PROVE  ListedOK' /\ StreamOK'
<1> DEFINE n == Len(stream)
<1>1. /\ \A x \in listed : x \in Pods /\ x.uid \in Uids
      /\ \A i \in DOMAIN stream : \A x \in PodsIn(stream[i]) :
             x \in Pods /\ x.uid \in Uids
  BY ReportFacts DEF IInv
<1>2. \A x : FitsTold(x)' <=> FitsTold(x)
  BY NothingTold
<1>3. /\ DOMAIN stream = 1..n /\ n \in Nat
      /\ DOMAIN stream' \subseteq DOMAIN stream \cup {n + 1}
      /\ \A i \in DOMAIN stream : stream'[i] = stream[i] /\ i < n + 1
      /\ n + 1 \in DOMAIN stream' => stream'[n + 1] = e
  BY AppendFacts DEF IInv, TypeOK
<1> HIDE DEF n
<1>4. ASSUME NEW x \in Pods, x.uid \in Uids, FitsCluster(x), NEW i \in Nat,
             \A j \in DOMAIN stream : i < j =>
                 \A y \in PodsIn(stream[j]) : x.uid = y.uid => Precedes(x, y)
      PROVE  \A j \in DOMAIN stream' : i < j =>
                 \A y \in PodsIn(stream'[j]) : x.uid = y.uid => Precedes(x, y)
  <2> SUFFICES ASSUME NEW j \in DOMAIN stream', i < j,
                      NEW y \in PodsIn(stream'[j]), x.uid = y.uid
               PROVE  Precedes(x, y)
    OBVIOUS
  <2>1. CASE j \in DOMAIN stream
    BY <1>3, <1>4, <2>1
  <2>2. CASE j = n + 1
    BY <1>3, <1>4, <2>2
  <2> QED
    BY <1>3, <2>1, <2>2
<1>5. ListedOK'
  <2> SUFFICES ASSUME NEW x \in listed
               PROVE  /\ x.uid # None /\ FitsTold(x)' /\ FitsCluster(x)'
                      /\ \A j \in DOMAIN stream' : \A y \in PodsIn(stream'[j]) :
                             x.uid = y.uid => Precedes(x, y)
    BY DEF IInv, ListedOK
  <2>1. /\ x \in Pods /\ x.uid \in Uids /\ x.uid # None
        /\ FitsTold(x)' /\ FitsCluster(x) /\ FitsCluster(x)'
        /\ \A j \in DOMAIN stream : \A y \in PodsIn(stream[j]) :
               x.uid = y.uid => Precedes(x, y)
    BY <1>1, <1>2 DEF IInv, ListedOK
  <2>2. \A j \in DOMAIN stream' : 0 < j =>
            \A y \in PodsIn(stream'[j]) : x.uid = y.uid => Precedes(x, y)
    BY <1>4, <2>1
  <2>3. \A j \in DOMAIN stream' : 0 < j
    BY <1>3
  <2> QED
    BY <2>1, <2>2, <2>3
<1>6. StreamOK'
  <2> SUFFICES ASSUME NEW i \in DOMAIN stream'
               PROVE  /\ OnePerUid(PodsIn(stream'[i]))
                      /\ \A x \in PodsIn(stream'[i]) :
                             /\ FitsTold(x)' /\ FitsCluster(x)'
                             /\ \A j \in DOMAIN stream' : i < j =>
                                    \A y \in PodsIn(stream'[j]) :
                                        x.uid = y.uid => Precedes(x, y)
    BY DEF StreamOK
  <2>1. CASE i \in DOMAIN stream
    <3>1. stream'[i] = stream[i] /\ i \in Nat
      BY <1>3, <2>1
    <3>2. /\ OnePerUid(PodsIn(stream[i]))
          /\ \A x \in PodsIn(stream[i]) :
                 /\ FitsTold(x) /\ FitsCluster(x)
                 /\ \A j \in DOMAIN stream : i < j =>
                        \A y \in PodsIn(stream[j]) :
                            x.uid = y.uid => Precedes(x, y)
      BY <2>1 DEF IInv, StreamOK
    <3>3. ASSUME NEW x \in PodsIn(stream[i])
          PROVE  /\ FitsTold(x)' /\ FitsCluster(x)'
                 /\ \A j \in DOMAIN stream' : i < j =>
                        \A y \in PodsIn(stream'[j]) :
                            x.uid = y.uid => Precedes(x, y)
      <4>1. x \in Pods /\ x.uid \in Uids
        BY <1>1, <2>1
      <4>2. FitsTold(x)' /\ FitsCluster(x)'
        BY <1>2, <3>2, <4>1
      <4> QED
        BY <1>4, <3>1, <3>2, <4>1, <4>2
    <3> QED
      BY <3>1, <3>2, <3>3
  <2>2. CASE i = n + 1
    <3>1. stream'[i] = e /\ \A j \in DOMAIN stream' : ~(i < j)
      BY <1>3, <2>2
    <3> QED
      BY <1>2, <3>1
  <2> QED
    BY <1>3, <2>1, <2>2
<1> QED
  BY <1>5, <1>6

\* A change of a pod keeps what is true of the reports.
LEMMA BecomesReports ==
    ASSUME IInv, NEW u \in Uids, NEW pod, NEW e, Becomes(u, pod, e)
    PROVE  ListedOK' /\ StreamOK'
<1>1. /\ e \in StreamEvents /\ PodsIn(e) = {x \in {e.pod} : x.uid = u}
      /\ e.pod \in Pods
      /\ cluster'[u] = pod /\ pod # None
  BY BecomesFacts
<1>2. OnePerUid(PodsIn(e))
  BY <1>1 DEF OnePerUid
<1>3. \A x \in Pods : x.uid \in Uids /\ FitsCluster(x) =>
          /\ FitsCluster(x)'
          /\ \A y \in PodsIn(e) : x.uid = y.uid => Precedes(x, y)
  BY BecomesNewest
<1>4. ASSUME NEW x \in PodsIn(e) PROVE FitsTold(x) /\ FitsCluster(x)'
  <2>1. x = e.pod /\ x.uid = u
    BY <1>1
  <2>2. CASE e = [type |-> "Applied", pod |-> pod]
    <3>1. x = pod
      BY <2>1, <2>2
    <3>2. FitsCluster(x)'
      BY <1>1, <2>1, <3>1 DEF FitsCluster, Precedes
    <3>3. u \in Existing' /\ Visible(u)'
      BY <1>1, <2>1, <3>1, PodFacts DEF Existing, Visible
    <3>4. x.phase = "Pending" => WillBe(u, "suspended")'
      BY <1>1, <3>1, <3>3, BecomesSlots DEF SlotsOK
    <3>5. FitsTold(x)
      BY <2>1, <3>4, NothingTold DEF FitsTold, Becomes
    <3> QED
      BY <3>2, <3>5
  <2>3. CASE e = [type |-> "Deleted", pod |-> cluster[u]] /\ pod = Gone
    <3>1. x = cluster[u] /\ u \in Existing
      BY <1>1, <2>1, <2>3, PodFacts DEF Existing
    <3>2. Visible(u)
      BY <2>1, <3>1 DEF Visible
    <3>3. FitsTold(x)
      BY <2>1, <3>1, <3>2 DEF FitsTold, IInv, SlotsOK
    <3>4. FitsCluster(x)'
      BY <1>1, <2>1, <2>3 DEF FitsCluster, Existing
    <3> QED
      BY <3>3, <3>4
  <2> QED
    BY <2>2, <2>3 DEF Becomes
<1>5. stream' = stream \/ stream' = Append(stream, e)
  BY DEF Becomes
<1> QED
  BY <1>1, <1>2, <1>3, <1>4, <1>5, Grows DEF Becomes

\* A pod without a uid is not seen, before and after it changes.
LEMMA BecomesUnseen ==
    ASSUME IInv, NEW u \in Uids, NEW pod, NEW e, Becomes(u, pod, e),
           e.pod.uid # u
    PROVE  /\ ~Visible(u) /\ ~Visible(u)'
           /\ cluster[u] # Gone
           /\ \A x \in Pods : x.uid = u => x # cluster[u] /\ x # cluster'[u]
<1>1. cluster'[u] = pod
  BY BecomesFacts
<1>2. CASE e = [type |-> "Applied", pod |-> pod]
  <2>1. pod.uid # u
    BY <1>2
  <2>2. cluster[u] # None => cluster[u].uid # u
    BY <1>2, <2>1 DEF Becomes
  <2> QED
    BY <1>1, <2>1, <2>2, PodFacts DEF Visible, Existing, Becomes
<1>3. CASE e = [type |-> "Deleted", pod |-> cluster[u]] /\ pod = Gone
  <2>1. cluster[u].uid # u
    BY <1>3
  <2> QED
    BY <1>1, <1>3, <2>1, PodFacts DEF Visible, Existing, Becomes
<1> QED
  BY <1>2, <1>3 DEF Becomes

\* With no more events about w, the task still has w right.
LEMMA BecomesTask ==
    ASSUME IInv, NEW u \in Uids, NEW pod, NEW e, Becomes(u, pod, e),
           NEW w \in Uids, e.pod.uid # w, TaskAccurate(w)
    PROVE  TaskAccurate(w)'
<1>1. /\ \A v : WillBeUntold(v)' <=> WillBeUntold(v)
      /\ \A v, s : WillBe(v, s)' <=> WillBe(v, s)
  BY NothingTold DEF Becomes
<1>2. \A x \in listed : x \in Pods
  BY DEF IInv, TypeOK
<1>3. CASE w # u
  <2>1. cluster'[w] = cluster[w] /\ (Visible(w)' <=> Visible(w))
    BY <1>3, BecomesFacts
  <2>2. Agrees(w) => Agrees(w)'
    BY <1>1, <2>1 DEF Agrees
  <2> QED
    BY <2>1, <2>2 DEF TaskAccurate, Becomes
<1>4. CASE w = u
  <2>1. /\ ~Visible(u) /\ ~Visible(u)'
        /\ \A x \in Pods : x.uid = u => x # cluster[u]
    BY <1>4, BecomesUnseen
  <2>2. Agrees(u) => Agrees(u)'
    BY <1>1, <2>1 DEF Agrees
  <2>3. \A x \in listed : x.uid # u
    BY <1>2, <1>4, <2>1 DEF TaskAccurate
  <2> QED
    BY <1>4, <2>1, <2>2, <2>3 DEF TaskAccurate, Becomes
<1> QED
  BY <1>3, <1>4

\* An event that is the last word on w is still accurate.
LEMMA BecomesAccurate ==
    ASSUME IInv, NEW u \in Uids, NEW pod, NEW e, Becomes(u, pod, e),
           NEW w \in Uids, e.pod.uid # w, NEW d \in StreamEvents,
           Accurate(d, w)
    PROVE  Accurate(d, w)'
<1>1. PodsIn(d) \subseteq Pods
  BY StreamEventFacts
<1>2. CASE w # u
  <2>1. cluster'[w] = cluster[w] /\ (Visible(w)' <=> Visible(w))
    BY <1>2, BecomesFacts
  <2> QED
    BY <2>1 DEF Accurate
<1>3. CASE w = u
  <2>1. /\ ~Visible(u) /\ ~Visible(u)' /\ cluster[u] # Gone
        /\ \A x \in Pods : x.uid = u => x # cluster[u]
    BY <1>3, BecomesUnseen
  <2> QED
    BY <1>1, <1>3, <2>1 DEF Accurate
<1> QED
  BY <1>2, <1>3

\* The report of a change is accurate.
LEMMA BecomesReported ==
    ASSUME IInv, NEW u \in Uids, NEW pod, NEW e, Becomes(u, pod, e)
    PROVE  Accurate(e, u)'
<1>1. /\ cluster'[u] = pod /\ e.type \in {"Applied", "Deleted"}
      /\ PodsIn(e) = {x \in {e.pod} : x.uid = u}
  BY BecomesFacts
<1>2. CASE e = [type |-> "Applied", pod |-> pod]
  <2>1. e.pod = pod /\ e.type = "Applied"
    BY <1>2
  <2> QED
    BY <1>1, <2>1 DEF Accurate
<1>3. CASE e = [type |-> "Deleted", pod |-> cluster[u]] /\ pod = Gone
  <2>1. e.type = "Deleted"
    BY <1>3
  <2> QED
    BY <1>1, <1>3, <2>1 DEF Accurate
<1> QED
  BY <1>2, <1>3 DEF Becomes

\* While the watch is up, a change of a pod reaches the task.
LEMMA BecomesLastWord ==
    ASSUME IInv, NEW u \in Uids, NEW pod, NEW e, Becomes(u, pod, e)
    PROVE  LastWordOK'
<1> SUFFICES ASSUME watched, NEW w \in Uids
             PROVE  /\ \A i \in DOMAIN stream' :
                           /\ Concerns(stream'[i], w)
                           /\ \A j \in DOMAIN stream' :
                                  Concerns(stream'[j], w) => j <= i
                           => Accurate(stream[i], w)'
                    /\ ~failing' /\ (\A i \in DOMAIN stream' :
                                         ~Concerns(stream'[i], w)) =>
                           TaskAccurate(w)'
  BY DEF LastWordOK, Becomes
<1> DEFINE n == Len(stream)
<1>1. /\ e \in StreamEvents /\ e.type \in {"Applied", "Deleted"}
      /\ e.pod.uid \in {u, None}
  BY BecomesFacts
<1>2. stream' = Append(stream, e) /\ failing' = failing
  BY DEF Becomes
<1>3. /\ DOMAIN stream' = DOMAIN stream \cup {n + 1}
      /\ DOMAIN stream = 1..n /\ n \in Nat
      /\ \A i \in DOMAIN stream :
             /\ stream'[i] = stream[i] /\ i < n + 1 /\ ~(n + 1 <= i)
             /\ stream[i] \in StreamEvents
      /\ stream'[n + 1] = e
  BY <1>1, <1>2, AppendFacts DEF IInv, TypeOK
<1> HIDE DEF n
<1>4. Concerns(e, w) <=> e.pod.uid = w
  BY <1>1 DEF Concerns
<1>5. CASE e.pod.uid = w
  <2>1. w = u
    BY <1>1, <1>5, KubernetesAssumption
  <2>2. ASSUME NEW i \in DOMAIN stream', Concerns(stream'[i], w),
               \A j \in DOMAIN stream' : Concerns(stream'[j], w) => j <= i
        PROVE  Accurate(stream[i], w)'
    <3>1. i = n + 1
      BY <1>3, <1>4, <1>5, <2>2
    <3>2. stream'[i] = e
      BY <1>3, <3>1
    <3>3. Accurate(e, w)'
      BY <2>1, BecomesReported
    <3> QED
      BY <3>2, <3>3 DEF Accurate
  <2>3. ~(\A i \in DOMAIN stream' : ~Concerns(stream'[i], w))
    BY <1>3, <1>4, <1>5
  <2> QED
    BY <2>2, <2>3
<1>6. CASE e.pod.uid # w
  <2>1. ASSUME NEW i \in DOMAIN stream', Concerns(stream'[i], w),
               \A j \in DOMAIN stream' : Concerns(stream'[j], w) => j <= i
        PROVE  Accurate(stream[i], w)'
    <3>1. i \in DOMAIN stream /\ stream'[i] = stream[i]
      BY <1>3, <1>4, <1>6, <2>1
    <3>2. PICK d \in StreamEvents : d = stream[i]
      BY <1>3, <3>1
    <3>3. \A j \in DOMAIN stream : Concerns(stream[j], w) => j <= i
      BY <1>3, <2>1
    <3>4. Accurate(stream[i], w)
      BY <2>1, <3>1, <3>3 DEF IInv, LastWordOK
    <3>5. Accurate(d, w)
      BY <3>2, <3>4
    <3>6. Accurate(d, w)'
      BY <1>6, <3>5, BecomesAccurate
    <3> QED
      BY <3>1, <3>2, <3>6 DEF Accurate
  <2>2. ASSUME ~failing', \A i \in DOMAIN stream' : ~Concerns(stream'[i], w)
        PROVE  TaskAccurate(w)'
    <3>1. \A i \in DOMAIN stream : ~Concerns(stream[i], w)
      BY <1>3, <2>2
    <3>2. TaskAccurate(w)
      BY <1>2, <2>2, <3>1 DEF IInv, LastWordOK
    <3> QED
      BY <1>6, <3>2, BecomesTask
  <2> QED
    BY <2>1, <2>2
<1> QED
  BY <1>5, <1>6

\* A change of a pod preserves the invariant.
LEMMA BecomesPreserves ==
    ASSUME IInv, NEW u \in Uids, NEW pod, NEW e, Becomes(u, pod, e)
    PROVE  IInv'
<1>1. e \in StreamEvents /\ pod \in Pods \cup {Gone}
  BY BecomesFacts
<1>2. /\ stream' \in Seq(StreamEvents) /\ Len(stream') <= MaxStream
      /\ cluster' \in [Uids -> Pods \cup {None, Gone}]
  BY <1>1, AppendFacts DEF IInv, TypeOK, Becomes
<1>3. TypeOK'
  BY <1>2 DEF IInv, TypeOK, Becomes
<1>4. /\ OutboxOK' /\ ServingNotReset'
      /\ \A w : WillBeUntold(w)' <=> WillBeUntold(w)
  BY NothingTold DEF IInv, Becomes
<1>5. KnownOK'
  BY <1>4 DEF IInv, KnownOK, Becomes
<1> QED
  BY <1>3, <1>4, <1>5, BecomesSlots, BecomesReports, BecomesLastWord DEF IInv

\* A change of the cluster is a change of one pod, and is reported.
LEMMA ClusterBecomes ==
    ASSUME IInv, NEW u \in Uids,
           PodCreated(u) \/ PodChanged(u) \/ PodDeleted(u)
    PROVE  \E pod, e : Becomes(u, pod, e)
<1>1. /\ cluster \in [Uids -> Pods \cup {None, Gone}]
      /\ stream \in Seq(StreamEvents) /\ Len(stream) \in Nat
      /\ MaxStream \in Nat /\ Len(stream) <= MaxStream
      /\ watched \in BOOLEAN
  BY KubernetesAssumption DEF IInv, TypeOK
<1>2. ASSUME NEW e \in StreamEvents, Report(e)
      PROVE  /\ stream' = IF watched THEN Append(stream, e) ELSE stream
             /\ Len(stream') <= MaxStream
  BY <1>1, <1>2 DEF Report
<1>3. ASSUME NEW pod \in Pods PROVE
          /\ [type |-> "Applied", pod |-> pod] \in StreamEvents
          /\ [type |-> "Deleted", pod |-> pod] \in StreamEvents
  BY DEF StreamEvents
<1>4. CASE PodCreated(u)
  <2>1. PICK pod \in NewPods :
            /\ pod.uid \in {u, None}
            /\ cluster' = [cluster EXCEPT ![u] = pod]
            /\ Report([type |-> "Applied", pod |-> pod])
    BY <1>4 DEF PodCreated
  <2>2. PICK e : e = [type |-> "Applied", pod |-> pod]
    OBVIOUS
  <2>3. pod \in Pods /\ e \in StreamEvents /\ Report(e)
    BY <1>3, <2>1, <2>2, KubernetesAssumption
  <2>4. cluster[u] = None /\ cluster[u] # Gone
    BY <1>4, KubernetesAssumption DEF PodCreated
  <2>5. Becomes(u, pod, e)
    BY <1>2, <1>4, <2>1, <2>2, <2>3, <2>4 DEF Becomes, PodCreated, runtimeVars
  <2> QED
    BY <2>5
<1>5. CASE PodChanged(u)
  <2>1. cluster[u] \in Pods /\ cluster[u] # None /\ cluster[u] # Gone
    BY <1>1, <1>5 DEF PodChanged, Existing
  <2>2. PICK old \in Pods : old = cluster[u]
    BY <2>1
  <2>3. PICK phase \in Phases, details \in BOOLEAN :
            LET pod == [old EXCEPT !.phase = phase, !.details = details]
            IN  /\ phase = "Pending" => old.phase = "Pending"
                /\ old.phase = "Succeeded" => phase = "Succeeded"
                /\ cluster' = [cluster EXCEPT ![u] = pod]
                /\ Report([type |-> "Applied", pod |-> pod])
    BY <1>5, <2>2 DEF PodChanged
  <2>4. PICK pod : pod = [old EXCEPT !.phase = phase, !.details = details]
    OBVIOUS
  <2>5. /\ pod \in Pods /\ pod.uid = old.uid
        /\ pod.services = old.services
        /\ pod.phase = phase /\ pod.details = details
    BY <2>4 DEF Pods
  <2>6. Precedes(old, pod) /\ SameServices(old, pod)
    BY <2>3, <2>5 DEF Precedes, SameServices
  <2>7. PICK e : e = [type |-> "Applied", pod |-> pod]
    OBVIOUS
  <2>8. /\ e \in StreamEvents /\ Report(e)
        /\ cluster' = [cluster EXCEPT ![u] = pod]
    BY <1>3, <2>3, <2>4, <2>5, <2>7
  <2>9. cluster[u].uid \in {u, None}
    BY <1>5 DEF PodChanged, IInv, SlotsOK
  <2>10. Becomes(u, pod, e)
    BY <1>2, <1>5, <2>1, <2>2, <2>5, <2>6, <2>7, <2>8, <2>9
    DEF Becomes, PodChanged, runtimeVars
  <2> QED
    BY <2>10
<1>6. CASE PodDeleted(u)
  <2>1. cluster[u] \in Pods /\ cluster[u] # None /\ cluster[u] # Gone
    BY <1>1, <1>6 DEF PodDeleted, Existing
  <2>2. PICK e : e = [type |-> "Deleted", pod |-> cluster[u]]
    OBVIOUS
  <2>3. e \in StreamEvents /\ Report(e)
    BY <1>3, <1>6, <2>1, <2>2 DEF PodDeleted
  <2>4. Becomes(u, Gone, e)
    BY <1>2, <1>6, <2>1, <2>2, <2>3 DEF Becomes, PodDeleted, runtimeVars
  <2> QED
    BY <2>4
<1> QED
  BY <1>4, <1>5, <1>6

\* The steps of the cluster.
LEMMA ClusterSteps ==
    ASSUME IInv, NEW u \in Uids,
           PodCreated(u) \/ PodChanged(u) \/ PodDeleted(u)
    PROVE  IInv'
BY ClusterBecomes, BecomesPreserves

\* Nothing is promised of the last word while the watch is down.
LEMMA WatchLostStep ==
    ASSUME IInv, WatchLost
    PROVE  IInv'
<1>1. TypeOK'
  BY DEF IInv, TypeOK, WatchLost, runtimeVars
<1>2. /\ \A w : WillBeUntold(w)' <=> WillBeUntold(w)
      /\ \A w, s : WillBe(w, s)' <=> WillBe(w, s)
      /\ \A x : FitsTold(x)' <=> FitsTold(x)
      /\ OutboxOK' /\ ServingNotReset'
  BY NothingTold DEF IInv, WatchLost
<1>3. /\ \A w : Visible(w)' <=> Visible(w)
      /\ \A x : FitsCluster(x)' <=> FitsCluster(x)
      /\ \A w : w \in Existing' <=> w \in Existing
  BY SameCluster DEF WatchLost, Existing
<1>4. SlotsOK'
  BY <1>2, <1>3 DEF IInv, SlotsOK, WatchLost
<1>5. ListedOK' /\ StreamOK'
  BY <1>2, <1>3 DEF IInv, ListedOK, StreamOK, WatchLost, runtimeVars
<1>6. KnownOK'
  BY <1>2 DEF IInv, KnownOK, WatchLost, runtimeVars
<1>7. LastWordOK'
  BY DEF LastWordOK, WatchLost
<1> QED
  BY <1>1, <1>2, <1>4, <1>5, <1>6, <1>7 DEF IInv

\* The list with which the watch starts is the last word on every pod.
LEMMA WatchRestartedStep ==
    ASSUME IInv, WatchRestarted
    PROVE  IInv'
<1> DEFINE n == Len(stream)
<1>1. /\ cluster \in [Uids -> Pods \cup {None, Gone}]
      /\ stream \in Seq(StreamEvents)
  BY DEF IInv, TypeOK
<1>2. PICK e : e = [type |-> "Restarted", pods |-> {cluster[u] : u \in Existing}]
  OBVIOUS
<1>3. /\ e.type = "Restarted" /\ e.pods = {cluster[u] : u \in Existing}
      /\ e \in StreamEvents
  <2>1. {cluster[u] : u \in Existing} \subseteq Pods
    BY <1>1 DEF Existing
  <2> QED
    BY <1>2, <2>1 DEF StreamEvents
<1>4. /\ stream' = Append(stream, e) /\ Len(stream') <= MaxStream
      /\ stream' \in Seq(StreamEvents)
  BY <1>1, <1>2, <1>3, KubernetesAssumption DEF WatchRestarted
<1>5. TypeOK'
  BY <1>4 DEF IInv, TypeOK, WatchRestarted, runtimeVars
<1>6. /\ \A w : WillBeUntold(w)' <=> WillBeUntold(w)
      /\ \A w, s : WillBe(w, s)' <=> WillBe(w, s)
      /\ OutboxOK' /\ ServingNotReset'
  BY NothingTold DEF IInv, WatchRestarted
<1>7. /\ \A w : Visible(w)' <=> Visible(w)
      /\ \A x : FitsCluster(x)' <=> FitsCluster(x)
      /\ \A w : w \in Existing' <=> w \in Existing
  BY SameCluster DEF WatchRestarted, Existing
<1>8. SlotsOK'
  BY <1>6, <1>7 DEF IInv, SlotsOK, WatchRestarted
<1>9. KnownOK'
  BY <1>6 DEF IInv, KnownOK, WatchRestarted, runtimeVars
<1>10. \A x : x \in PodsIn(e) <=>
           \E u \in Uids : Visible(u) /\ x = cluster[u] /\ x.uid = u
  BY <1>3, KubernetesAssumption
  DEF PodsIn, Visible, Existing, IInv, SlotsOK
<1>11. ListedOK' /\ StreamOK'
  <2>1. OnePerUid(PodsIn(e))
    BY <1>10 DEF OnePerUid
  <2>2. \A x \in PodsIn(e) : FitsTold(x) /\ FitsCluster(x)'
    <3> SUFFICES ASSUME NEW x \in PodsIn(e)
                 PROVE  FitsTold(x) /\ FitsCluster(x)
      BY <1>7
    <3>1. PICK u \in Uids : Visible(u) /\ x = cluster[u] /\ x.uid = u
      BY <1>10
    <3> QED
      BY <3>1 DEF FitsTold, FitsCluster, Precedes, Visible, Existing,
                  IInv, SlotsOK
  <2>3. \A x \in Pods : x.uid \in Uids /\ FitsCluster(x) =>
            /\ FitsCluster(x)'
            /\ \A y \in PodsIn(e) : x.uid = y.uid => Precedes(x, y)
    BY <1>7, <1>10 DEF FitsCluster, Visible
  <2> QED
    BY <1>3, <1>4, <2>1, <2>2, <2>3, Grows DEF WatchRestarted, runtimeVars
<1>12. LastWordOK'
  <2>1. /\ n + 1 \in DOMAIN stream' /\ stream'[n + 1] = e /\ n \in Nat
        /\ \A i \in DOMAIN stream' : i \in Nat /\ i <= n + 1
    BY <1>1, <1>3, <1>4, AppendFacts
  <2> HIDE DEF n
  <2>2. \A w \in Uids : Concerns(e, w)
    BY <1>3 DEF Concerns
  <2>3. ASSUME NEW w \in Uids, NEW i \in DOMAIN stream',
               \A j \in DOMAIN stream' : Concerns(stream'[j], w) => j <= i
        PROVE  Accurate(stream[i], w)'
    <3>1. stream'[i] = e
      BY <2>1, <2>2, <2>3
    <3>2. \A x \in PodsIn(e) : x.uid = w => x = cluster[w]
      BY <1>10
    <3>3. Visible(w) => cluster[w] \in PodsIn(e)
      BY <1>10 DEF Visible
    <3>4. cluster' = cluster
      BY DEF WatchRestarted
    <3> QED
      BY <1>3, <1>7, <3>1, <3>2, <3>3, <3>4 DEF Accurate
  <2> QED
    BY <2>1, <2>2, <2>3 DEF LastWordOK
<1> QED
  BY <1>5, <1>6, <1>8, <1>9, <1>11, <1>12 DEF IInv

-----------------------------------------------------------------------------
(* The steps that take an event from the stream.                           *)

\* The stream without its first event.
LEMMA TailFacts ==
    ASSUME TypeOK, stream # <<>>, stream' = Tail(stream)
    PROVE  /\ stream' \in Seq(StreamEvents) /\ Len(stream') <= MaxStream
           /\ 1 \in DOMAIN stream /\ stream[1] = Head(stream)
           /\ Head(stream) \in StreamEvents
           /\ \A i \in DOMAIN stream' :
                  /\ i \in Nat /\ i + 1 \in DOMAIN stream
                  /\ stream'[i] = stream[i + 1] /\ 1 < i + 1
           /\ \A i \in DOMAIN stream : i \in Nat /\ i >= 1 /\
                  (i # 1 => i - 1 \in DOMAIN stream'
                            /\ stream'[i - 1] = stream[i])
<1> DEFINE n == Len(stream)
<1>1. /\ stream' \in Seq(StreamEvents) /\ n \in Nat /\ n >= 1
      /\ n <= MaxStream /\ MaxStream \in Nat /\ Len(stream') = n - 1
      /\ DOMAIN stream = 1..n /\ DOMAIN stream' = 1..(n - 1)
      /\ \A i \in 1..(n - 1) : stream'[i] = stream[i + 1]
      /\ stream[1] = Head(stream) /\ Head(stream) \in StreamEvents
  BY KubernetesAssumption DEF TypeOK
<1> HIDE DEF n
<1> QED
  BY <1>1

\* The reports that are left after the first event has been handled.
LEMMA TailStream ==
    ASSUME IInv, stream # <<>>, stream' = Tail(stream), UNCHANGED cluster,
           \A y \in Pods :
               /\ y.uid \in Uids /\ FitsTold(y)
               /\ \A x \in PodsIn(Head(stream)) :
                      x.uid = y.uid => Precedes(x, y)
               => FitsTold(y)'
    PROVE  StreamOK'
<1>1. /\ 1 \in DOMAIN stream /\ stream[1] = Head(stream)
      /\ \A i \in DOMAIN stream' :
             /\ i \in Nat /\ i + 1 \in DOMAIN stream
             /\ stream'[i] = stream[i + 1] /\ 1 < i + 1
  BY TailFacts DEF IInv
<1>2. \A i \in DOMAIN stream : \A x \in PodsIn(stream[i]) :
          x \in Pods /\ x.uid \in Uids
  BY ReportFacts DEF IInv
<1>3. \A x : FitsCluster(x)' <=> FitsCluster(x)
  BY SameCluster
<1> SUFFICES ASSUME NEW i \in DOMAIN stream'
             PROVE  /\ OnePerUid(PodsIn(stream'[i]))
                    /\ \A x \in PodsIn(stream'[i]) :
                           /\ FitsTold(x)' /\ FitsCluster(x)'
                           /\ \A j \in DOMAIN stream' : i < j =>
                                  \A y \in PodsIn(stream'[j]) :
                                      x.uid = y.uid => Precedes(x, y)
  BY DEF StreamOK
<1>4. /\ OnePerUid(PodsIn(stream[i + 1]))
      /\ \A x \in PodsIn(stream[i + 1]) :
             /\ FitsTold(x) /\ FitsCluster(x)
             /\ \A j \in DOMAIN stream : i + 1 < j =>
                    \A y \in PodsIn(stream[j]) :
                        x.uid = y.uid => Precedes(x, y)
  BY <1>1 DEF IInv, StreamOK
<1>5. ASSUME NEW x \in PodsIn(stream[i + 1])
      PROVE  /\ FitsTold(x)' /\ FitsCluster(x)'
             /\ \A j \in DOMAIN stream' : i < j =>
                    \A y \in PodsIn(stream'[j]) :
                        x.uid = y.uid => Precedes(x, y)
  <2>1. x \in Pods /\ x.uid \in Uids
    BY <1>1, <1>2
  <2>2. \A y \in PodsIn(stream[1]) : y.uid = x.uid => Precedes(y, x)
    BY <1>1 DEF IInv, StreamOK
  <2>3. FitsTold(x)'
    BY <1>1, <1>4, <2>1, <2>2
  <2>4. ASSUME NEW j \in DOMAIN stream', i < j, NEW y \in PodsIn(stream'[j]),
               x.uid = y.uid
        PROVE  Precedes(x, y)
    <3>1. j + 1 \in DOMAIN stream /\ i + 1 < j + 1 /\ stream'[j] = stream[j + 1]
      BY <1>1, <2>4
    <3> QED
      BY <1>4, <2>4, <3>1
  <2> QED
    BY <1>3, <1>4, <2>3, <2>4
<1> QED
  BY <1>1, <1>4, <1>5

\* The last word on a pod after the first event has been handled.
LEMMA TailLastWord ==
    ASSUME IInv, ~failing, stream # <<>>, stream' = Tail(stream),
           UNCHANGED <<cluster, watched>>,
           \A u \in Uids :
               /\ ~failing'
               /\ IF Concerns(Head(stream), u) THEN Accurate(Head(stream), u)
                  ELSE TaskAccurate(u)
               => TaskAccurate(u)'
    PROVE  LastWordOK'
<1>1. /\ 1 \in DOMAIN stream /\ stream[1] = Head(stream)
      /\ \A i \in DOMAIN stream' :
             /\ i \in Nat /\ i + 1 \in DOMAIN stream
             /\ stream'[i] = stream[i + 1] /\ 1 < i + 1
      /\ \A i \in DOMAIN stream : i \in Nat /\ i >= 1 /\
             (i # 1 => i - 1 \in DOMAIN stream' /\ stream'[i - 1] = stream[i])
      /\ \A i \in DOMAIN stream : stream[i] \in StreamEvents
  BY TailFacts, ReportFacts DEF IInv
<1> SUFFICES ASSUME watched, NEW u \in Uids
             PROVE  /\ \A i \in DOMAIN stream' :
                           /\ Concerns(stream'[i], u)
                           /\ \A j \in DOMAIN stream' :
                                  Concerns(stream'[j], u) => j <= i
                           => Accurate(stream[i], u)'
                    /\ ~failing' /\ (\A i \in DOMAIN stream' :
                                         ~Concerns(stream'[i], u)) =>
                           TaskAccurate(u)'
  BY DEF LastWordOK
<1>2. /\ \A i \in DOMAIN stream :
             /\ Concerns(stream[i], u)
             /\ \A j \in DOMAIN stream : Concerns(stream[j], u) => j <= i
             => Accurate(stream[i], u)
      /\ (\A i \in DOMAIN stream : ~Concerns(stream[i], u)) => TaskAccurate(u)
  BY DEF IInv, LastWordOK
<1>3. ASSUME NEW i \in DOMAIN stream', Concerns(stream'[i], u),
             \A j \in DOMAIN stream' : Concerns(stream'[j], u) => j <= i
      PROVE  Accurate(stream[i], u)'
  <2>1. ASSUME NEW j \in DOMAIN stream, Concerns(stream[j], u)
        PROVE  j <= i + 1
    <3>1. CASE j = 1
      BY <1>1, <3>1
    <3>2. CASE j # 1
      <4>1. j - 1 \in DOMAIN stream' /\ stream'[j - 1] = stream[j]
        BY <1>1, <3>2
      <4>2. j - 1 <= i
        BY <1>3, <2>1, <4>1
      <4> QED
        BY <1>1, <4>2
    <3> QED
      BY <3>1, <3>2
  <2>2. Accurate(stream[i + 1], u)
    BY <1>1, <1>2, <1>3, <2>1
  <2>3. PICK d : d = stream[i + 1]
    OBVIOUS
  <2>4. Accurate(d, u) /\ d = stream'[i]
    BY <1>1, <2>2, <2>3
  <2>5. Accurate(d, u)'
    BY <2>4, SameCluster
  <2> QED
    BY <2>4, <2>5 DEF Accurate
<1>4. ASSUME ~failing', \A i \in DOMAIN stream' : ~Concerns(stream'[i], u)
      PROVE  TaskAccurate(u)'
  <2>1. \A j \in DOMAIN stream : Concerns(stream[j], u) => j = 1
    BY <1>1, <1>4
  <2>2. CASE Concerns(Head(stream), u)
    <3>1. \A j \in DOMAIN stream : Concerns(stream[j], u) => j <= 1
      BY <2>1
    <3>2. Concerns(stream[1], u)
      BY <1>1, <2>2
    <3>3. Accurate(stream[1], u)
      BY <1>1, <1>2, <3>1, <3>2
    <3>4. Accurate(Head(stream), u)
      BY <1>1, <3>3
    <3> QED
      BY <1>4, <2>2, <3>4
  <2>3. CASE ~Concerns(Head(stream), u)
    <3>1. \A j \in DOMAIN stream : ~Concerns(stream[j], u)
      BY <1>1, <2>1, <2>3
    <3>2. TaskAccurate(u)
      BY <1>2, <3>1
    <3> QED
      BY <1>4, <2>3, <3>2
  <2> QED
    BY <2>2, <2>3
<1> QED
  BY <1>3, <1>4

\* Applying a report affects no other pod.
LEMMA AppliedKeeps ==
    ASSUME NEW x \in Pods, Applied(x), NEW w \in Uids, w # x.uid
    PROVE  KeepsOf(w)
BY DEF Applied, KeepsOf

\* Applying a report keeps what is true of the pods.
LEMMA AppliedSlots ==
    ASSUME IInv, NEW x \in Pods, x.uid \in Uids, Applied(x), FitsCluster(x),
           UNCHANGED cluster
    PROVE  SlotsOK'
<1>1. \A w : Visible(w)' <=> Visible(w)
  BY SameCluster
<1>2. \A w : w \in Existing' <=> w \in Existing
  BY DEF Existing
<1>3. ASSUME NEW w \in Uids, w # x.uid
      PROVE  /\ w \in Existing' => cluster'[w].uid \in {w, None}
             /\ Visible(w)' /\ cluster'[w].phase = "Pending" =>
                    WillBe(w, "suspended")'
             /\ cluster'[w] = None => WillBeUntold(w)'
  <2>1. KeepsOf(w)
    BY <1>3, AppliedKeeps
  <2> QED
    BY <1>1, <1>2, <2>1 DEF IInv, SlotsOK, KeepsOf
<1>4. ASSUME NEW w \in Uids, w = x.uid
      PROVE  /\ w \in Existing' => cluster'[w].uid \in {w, None}
             /\ Visible(w)' /\ cluster'[w].phase = "Pending" =>
                    WillBe(w, "suspended")'
             /\ cluster'[w] = None => WillBeUntold(w)'
  <2>1. /\ cluster[w] # None
        /\ w \in Existing => Precedes(x, cluster[w])
    BY <1>4 DEF FitsCluster
  <2>2. w \in Existing => cluster[w].uid \in {w, None}
    BY DEF IInv, SlotsOK
  <2>3. Visible(w) => w \in Existing
    BY DEF Visible
  <2>4. x.phase = "Pending" => WillBe(w, "suspended")'
    BY <1>4 DEF Applied
  <2> QED
    BY <1>1, <1>2, <2>1, <2>2, <2>3, <2>4 DEF Precedes
<1> QED
  BY <1>3, <1>4 DEF SlotsOK

\* Applying the last word on a pod makes it right.
LEMMA AppliedAgrees ==
    ASSUME NEW x \in Pods, Applied(x), NEW u \in Uids, x.uid = u,
           x = cluster[u], UNCHANGED cluster, ~failing'
    PROVE  Agrees(u)'
<1>1. Visible(u)'
  BY PodFacts DEF Visible, Existing
<1> SUFFICES ASSUME x.details PROVE Agrees(u)'
  BY <1>1 DEF Agrees
<1>2. /\ WillBe(u, StatusOf(x))'
      /\ x.phase = "Succeeded" => WillBeUntold(u)'
  BY DEF Applied
<1>3. CASE x.phase = "Running"
  <2>1. WillBe(u, "available")'
    BY <1>2, <1>3 DEF StatusOf
  <2> QED
    BY <1>1, <1>3, <2>1 DEF Agrees
<1>4. CASE x.phase # "Running"
  <2>1. WillBe(u, "suspended")'
    BY <1>2, <1>4 DEF StatusOf
  <2> QED
    BY <1>1, <1>2, <1>4, <2>1 DEF Agrees
<1> QED
  BY <1>3, <1>4

\* Taking an Applied event of a pod with a uid.
LEMMA HandleAppliedPod ==
    ASSUME IInv, HandleApplied, Head(stream).pod.uid # None
    PROVE  IInv'
<1>1. /\ Idle /\ ~restarting /\ stream # <<>> /\ Head(stream).type = "Applied"
      /\ stream' = Tail(stream)
      /\ UNCHANGED <<cluster, watched, alive, listening, told>>
      /\ UNCHANGED <<restarting, listed, current_pod_uids>>
      /\ ApplyPod(Head(stream).pod)
      /\ ~failing /\ listed = {}
  BY DEF HandleApplied, TakesEvent, clusterVars, Idle, IInv, ListedOK
<1>2. /\ stream' \in Seq(StreamEvents) /\ Len(stream') <= MaxStream
      /\ 1 \in DOMAIN stream /\ stream[1] = Head(stream)
      /\ Head(stream) \in StreamEvents
  BY <1>1, TailFacts DEF IInv
<1>3. PICK x : x = Head(stream).pod
  OBVIOUS
<1>4. /\ x \in Pods /\ x.uid \in Uids
      /\ PodsIn(Head(stream)) = {x}
  BY <1>1, <1>2, <1>3, StreamEventFacts, PodFacts DEF PodsIn
<1>5. FitsTold(x) /\ FitsCluster(x)
  BY <1>2, <1>4 DEF IInv, StreamOK
<1>6. ApplyPod(x)
  BY <1>1, <1>3
<1>7. Applied(x)
  BY <1>1, <1>4, <1>5, <1>6, ApplyFacts
<1>8. TypeOK' /\ OutboxOK' /\ ServingNotReset' /\ KnownOK'
  BY <1>1, <1>2, <1>7 DEF IInv, TypeOK, Applied, KnownOK
<1>9. SlotsOK'
  BY <1>1, <1>4, <1>5, <1>7, AppliedSlots
<1>10. ListedOK'
  BY <1>1 DEF ListedOK, OnePerUid
<1>11. StreamOK'
  <2>1. \A y \in Pods :
            /\ y.uid \in Uids /\ FitsTold(y)
            /\ \A z \in PodsIn(Head(stream)) : z.uid = y.uid => Precedes(z, y)
            => FitsTold(y)'
    BY <1>4, <1>7, LaterFits
  <2> QED
    BY <1>1, <2>1, TailStream
<1>12. LastWordOK'
  <2>1. ASSUME NEW u \in Uids, ~failing',
               IF Concerns(Head(stream), u) THEN Accurate(Head(stream), u)
               ELSE TaskAccurate(u)
        PROVE  TaskAccurate(u)'
    <3>1. Concerns(Head(stream), u) <=> x.uid = u
      BY <1>1, <1>3 DEF Concerns
    <3>2. Agrees(u)'
      <4>1. CASE x.uid = u
        <5>1. x = cluster[u]
          BY <1>1, <1>4, <2>1, <3>1, <4>1 DEF Accurate
        <5> QED
          BY <1>1, <1>4, <1>7, <2>1, <4>1, <5>1, AppliedAgrees
      <4>2. CASE x.uid # u
        <5>1. Agrees(u)
          BY <1>1, <2>1, <3>1, <4>2 DEF TaskAccurate
        <5> QED
          BY <1>1, <1>4, <1>7, <4>2, <5>1, AppliedKeeps, KeepsAgrees
      <4> QED
        BY <4>1, <4>2
    <3> QED
      BY <1>1, <3>2 DEF TaskAccurate
  <2> QED
    BY <1>1, <2>1, TailLastWord
<1> QED
  BY <1>8, <1>9, <1>10, <1>11, <1>12 DEF IInv

\* Taking an event that tells no more than was to be told, or less.
LEMMA TakenQuietly ==
    ASSUME IInv, Idle, ~restarting, stream # <<>>, stream' = Tail(stream),
           UNCHANGED <<cluster, watched, alive, listening, told>>,
           UNCHANGED <<restarting, listed, current_pod_uids, failing>>,
           outbox' \in Seq(EndpointEvents), OutboxOK', ServingNotReset',
           \A w \in Uids : KeepsOf(w),
           known_pod_uids' \subseteq known_pod_uids,
           \A w \in known_pod_uids \ known_pod_uids' : WillBeUntold(w)',
           \A u \in Uids :
               Concerns(Head(stream), u) /\ Accurate(Head(stream), u) =>
                   Agrees(u)'
    PROVE  IInv'
<1>1. ~failing /\ listed = {}
  BY DEF Idle, IInv, ListedOK
<1>2. stream' \in Seq(StreamEvents) /\ Len(stream') <= MaxStream
  BY TailFacts DEF IInv
<1>3. TypeOK'
  BY <1>2 DEF IInv, TypeOK
<1>4. KnownOK'
  <2>1. IsFiniteSet(known_pod_uids') /\ IsFiniteSet(current_pod_uids')
    BY FS_Subset DEF IInv, KnownOK
  <2>2. \A w \in Uids : w \notin known_pod_uids' => WillBeUntold(w)'
    BY DEF IInv, KnownOK, KeepsOf
  <2> QED
    BY <2>1, <2>2 DEF KnownOK
<1>5. SlotsOK'
  BY KeepsSlots DEF IInv
<1>6. ListedOK'
  BY <1>1 DEF ListedOK, OnePerUid
<1>7. StreamOK'
  BY KeepsFits, TailStream
<1>8. LastWordOK'
  <2>1. ASSUME NEW u \in Uids, ~failing',
               IF Concerns(Head(stream), u) THEN Accurate(Head(stream), u)
               ELSE TaskAccurate(u)
        PROVE  TaskAccurate(u)'
    <3>1. Agrees(u)'
      <4>1. CASE Concerns(Head(stream), u)
        BY <2>1, <4>1
      <4>2. CASE ~Concerns(Head(stream), u)
        <5>1. Agrees(u)
          BY <1>1, <2>1, <4>2 DEF TaskAccurate
        <5> QED
          BY <5>1, KeepsAgrees
      <4> QED
        BY <4>1, <4>2
    <3> QED
      BY <1>1, <3>1 DEF TaskAccurate
  <2> QED
    BY <1>1, <2>1, TailLastWord
<1> QED
  BY <1>3, <1>4, <1>5, <1>6, <1>7, <1>8 DEF IInv

\* An Applied event.
LEMMA HandleAppliedStep ==
    ASSUME IInv, HandleApplied
    PROVE  IInv'
<1>1. CASE Head(stream).pod.uid # None
  BY <1>1, HandleAppliedPod
<1>2. CASE Head(stream).pod.uid = None
  <2>1. /\ Idle /\ ~restarting /\ stream # <<>>
        /\ Head(stream).type = "Applied" /\ stream' = Tail(stream)
        /\ UNCHANGED <<cluster, watched, alive, listening, told>>
        /\ UNCHANGED <<restarting, listed, current_pod_uids, failing>>
        /\ UNCHANGED <<known_pod_uids, outbox>>
    BY <1>2 DEF HandleApplied, TakesEvent, clusterVars
  <2>2. OutboxOK' /\ ServingNotReset' /\ \A w \in Uids : KeepsOf(w)
    BY <2>1, NothingTold DEF IInv, KeepsOf
  <2>3. \A u \in Uids : ~Concerns(Head(stream), u)
    BY <1>2, <2>1, KubernetesAssumption DEF Concerns
  <2>4. outbox' \in Seq(EndpointEvents)
    BY <2>1 DEF IInv, TypeOK
  <2> QED
    BY <2>1, <2>2, <2>3, <2>4, TakenQuietly
<1> QED
  BY <1>1, <1>2

\* A Deleted event.
LEMMA HandleDeletedStep ==
    ASSUME IInv, HandleDeleted
    PROVE  IInv'
<1>1. /\ Idle /\ ~restarting /\ stream # <<>>
      /\ Head(stream).type = "Deleted" /\ stream' = Tail(stream)
      /\ UNCHANGED <<cluster, watched, alive, listening, told>>
      /\ UNCHANGED <<restarting, listed, current_pod_uids, failing>>
      /\ outbox = <<>>
  BY DEF HandleDeleted, TakesEvent, clusterVars, Idle
<1>2. PICK uid : uid = Head(stream).pod.uid
  OBVIOUS
<1>3. /\ known_pod_uids' = known_pod_uids \ {uid}
      /\ outbox' = IF uid # None THEN <<[type |-> "Delete", uid |-> uid]>>
                   ELSE <<>>
  BY <1>2 DEF HandleDeleted
<1>4. uid \in Uids \cup {None}
  <2>1. Head(stream) \in StreamEvents
    BY <1>1, TailFacts DEF IInv
  <2> QED
    BY <1>1, <1>2, <2>1, StreamEventFacts, PodFacts
<1>5. /\ outbox' \in Seq(EndpointEvents)
      /\ \A k \in DOMAIN outbox' : outbox'[k].type = "Delete"
      /\ uid # None => \E k \in DOMAIN outbox' : outbox'[k].uid = uid
  <2>1. CASE uid = None
    BY <1>3, <2>1
  <2>2. CASE uid # None
    <3>1. PICK e : e = [type |-> "Delete", uid |-> uid]
      OBVIOUS
    <3>2. e \in EndpointEvents /\ e.type = "Delete" /\ e.uid = uid
      BY <1>4, <2>2, <3>1 DEF EndpointEvents
    <3>3. outbox' = <<e>>
      BY <1>3, <2>2, <3>1
    <3>4. DOMAIN outbox' = {1} /\ outbox'[1] = e
      BY <3>3
    <3> QED
      BY <3>2, <3>3, <3>4
  <2> QED
    BY <2>1, <2>2
<1>6. /\ OutboxOK' /\ ServingNotReset'
      /\ \A w \in Uids : KeepsOf(w)
      /\ uid # None => WillBeUntold(uid)'
  BY <1>1, <1>5, OnlyDeletes DEF KeepsOf
<1>7. ASSUME NEW w \in known_pod_uids \ known_pod_uids'
      PROVE  WillBeUntold(w)'
  <2>1. w = uid /\ uid # None
    BY <1>3, KubernetesAssumption DEF IInv, TypeOK
  <2> QED
    BY <1>6, <2>1
<1>8. ASSUME NEW u \in Uids, Concerns(Head(stream), u),
             Accurate(Head(stream), u)
      PROVE  Agrees(u)'
  <2>1. u = uid /\ uid # None
    BY <1>1, <1>2, <1>8, KubernetesAssumption DEF Concerns
  <2>2. cluster[u] = Gone
    BY <1>1, <1>8 DEF Accurate
  <2>3. ~Visible(u)'
    BY <1>1, <2>2 DEF Visible, Existing
  <2>4. WillBeUntold(u)'
    BY <1>6, <2>1
  <2> QED
    BY <2>3, <2>4 DEF Agrees
<1>9. known_pod_uids' \subseteq known_pod_uids
  BY <1>3
<1> QED
  BY <1>1, <1>5, <1>6, <1>7, <1>8, <1>9, TakenQuietly

\* A Restarted event: its pods are the reports to apply.
LEMMA HandleRestartedStep ==
    ASSUME IInv, HandleRestarted
    PROVE  IInv'
<1>1. /\ Idle /\ ~restarting /\ stream # <<>>
      /\ Head(stream).type = "Restarted" /\ stream' = Tail(stream)
      /\ UNCHANGED <<cluster, watched, alive, listening, told>>
      /\ UNCHANGED <<known_pod_uids, outbox, failing>>
      /\ restarting' = TRUE /\ current_pod_uids' = {} /\ ~failing
  BY DEF HandleRestarted, TakesEvent, clusterVars, Idle
<1>2. /\ stream' \in Seq(StreamEvents) /\ Len(stream') <= MaxStream
      /\ 1 \in DOMAIN stream /\ stream[1] = Head(stream)
      /\ Head(stream) \in StreamEvents
      /\ \A i \in DOMAIN stream' :
             /\ i \in Nat /\ i + 1 \in DOMAIN stream
             /\ stream'[i] = stream[i + 1] /\ 1 < i + 1
  BY <1>1, TailFacts DEF IInv
<1>3. listed' = PodsIn(Head(stream)) /\ listed' \subseteq Pods
  BY <1>1, <1>2, StreamEventFacts DEF HandleRestarted, PodsIn
<1>4. TypeOK'
  BY <1>1, <1>2, <1>3 DEF IInv, TypeOK
<1>5. /\ OutboxOK' /\ ServingNotReset' /\ \A w \in Uids : KeepsOf(w)
      /\ \A x : FitsTold(x)' <=> FitsTold(x)
      /\ \A x : FitsCluster(x)' <=> FitsCluster(x)
      /\ \A w : Visible(w)' <=> Visible(w)
  BY <1>1, NothingTold, SameCluster DEF IInv, KeepsOf
<1>6. KnownOK'
  BY <1>1, <1>5, FS_EmptySet DEF IInv, KnownOK, KeepsOf
<1>7. SlotsOK'
  BY <1>1, <1>5, KeepsSlots DEF IInv
<1>8. ListedOK'
  <2>1. /\ OnePerUid(PodsIn(stream[1]))
        /\ \A x \in PodsIn(stream[1]) :
               /\ FitsTold(x) /\ FitsCluster(x)
               /\ \A j \in DOMAIN stream : 1 < j =>
                      \A y \in PodsIn(stream[j]) :
                          x.uid = y.uid => Precedes(x, y)
    BY <1>2 DEF IInv, StreamOK
  <2>2. \A x \in PodsIn(stream[1]) : x.uid # None
    BY DEF PodsIn
  <2>3. \A x \in PodsIn(stream[1]) : \A i \in DOMAIN stream' :
            \A y \in PodsIn(stream'[i]) : x.uid = y.uid => Precedes(x, y)
    BY <1>2, <2>1
  <2>4. OnePerUid(listed')
    BY <1>2, <1>3, <2>1
  <2> QED
    BY <1>1, <1>2, <1>3, <1>5, <2>1, <2>2, <2>3, <2>4 DEF ListedOK, OnePerUid
<1>9. StreamOK'
  BY <1>1, <1>5, TailStream
<1>10. LastWordOK'
  <2>1. ASSUME NEW u \in Uids, Accurate(Head(stream), u)
        PROVE  TaskAccurate(u)'
    <3>1. /\ \A x \in listed' : x.uid = u => x = cluster'[u]
          /\ Visible(u)' => cluster'[u] \in listed'
      BY <1>1, <1>3, <1>5, <2>1 DEF Accurate
    <3>2. Visible(u)' => cluster'[u].uid = u
      BY DEF Visible
    <3> QED
      BY <1>1, <3>1, <3>2 DEF TaskAccurate
  <2>2. \A u \in Uids : Concerns(Head(stream), u)
    BY <1>1 DEF Concerns
  <2> QED
    BY <1>1, <2>1, <2>2, TailLastWord
<1> QED
  BY <1>4, <1>5, <1>6, <1>7, <1>8, <1>9, <1>10 DEF IInv

-----------------------------------------------------------------------------
(* The rest of handle_pod_event, and the channel.                          *)

\* One round of the loop over the pods of a Restarted event.
LEMMA ApplyListedStep ==
    ASSUME IInv, NEW x \in listed, ApplyListedPod(x)
    PROVE  IInv'
<1>1. /\ Idle /\ ~failing /\ listed' = listed \ {x}
      /\ current_pod_uids' = current_pod_uids \cup {x.uid}
      /\ ApplyPod(x)
      /\ UNCHANGED <<cluster, watched, stream, alive, restarting, listening,
                     told>>
      /\ restarting
  BY DEF ApplyListedPod, clusterVars, Idle, IInv, ListedOK
<1>2. /\ \A y \in listed : y \in Pods /\ y.uid \in Uids
      /\ \A i \in DOMAIN stream : \A y \in PodsIn(stream[i]) :
             y \in Pods /\ y.uid \in Uids
  BY ReportFacts DEF IInv
<1>3. /\ FitsTold(x) /\ FitsCluster(x)
      /\ \A y \in listed : x.uid = y.uid => x = y
      /\ \A i \in DOMAIN stream : \A y \in PodsIn(stream[i]) :
             x.uid = y.uid => Precedes(x, y)
  BY DEF IInv, ListedOK, OnePerUid
<1>4. Applied(x)
  BY <1>1, <1>2, <1>3, ApplyFacts
<1>5. TypeOK' /\ OutboxOK' /\ ServingNotReset'
  BY <1>1, <1>2, <1>4 DEF IInv, TypeOK, Applied
<1>6. KnownOK'
  <2>1. IsFiniteSet(current_pod_uids')
    BY <1>1, FS_AddElement DEF IInv, KnownOK
  <2> QED
    BY <1>4, <2>1 DEF Applied, KnownOK
<1>7. SlotsOK'
  BY <1>1, <1>2, <1>3, <1>4, AppliedSlots
<1>8. \A y : FitsCluster(y)' <=> FitsCluster(y)
  BY <1>1, SameCluster
<1>9. ListedOK'
  <2>1. \A y \in listed' : y.uid # x.uid /\ FitsTold(y)
    BY <1>1, <1>3 DEF IInv, ListedOK
  <2>2. \A y \in listed' : FitsTold(y)'
    BY <1>1, <1>2, <1>4, <2>1, LaterFits
  <2> QED
    BY <1>1, <1>8, <2>2 DEF IInv, ListedOK, OnePerUid
<1>10. StreamOK'
  <2>1. \A i \in DOMAIN stream : \A y \in PodsIn(stream[i]) : FitsTold(y)'
    BY <1>2, <1>3, <1>4, LaterFits DEF IInv, StreamOK
  <2> QED
    BY <1>1, <1>8, <2>1 DEF IInv, StreamOK
<1>11. ASSUME NEW u \in Uids, ~failing', TaskAccurate(u)
       PROVE  TaskAccurate(u)'
  <2>1. CASE u = x.uid
    <3>1. x = cluster[u]
      BY <1>11, <2>1 DEF TaskAccurate
    <3>2. Agrees(u)'
      BY <1>1, <1>2, <1>4, <1>11, <2>1, <3>1, AppliedAgrees
    <3>3. ~(\E y \in listed' : y.uid = u) /\ u \in current_pod_uids'
      BY <1>1, <1>3, <2>1
    <3> QED
      BY <3>2, <3>3 DEF TaskAccurate
  <2>2. CASE u # x.uid
    <3>1. Visible(u)' <=> Visible(u)
      BY <1>1, SameCluster
    <3>2. Agrees(u) => Agrees(u)'
      BY <1>1, <1>2, <1>4, <2>2, AppliedKeeps, KeepsAgrees
    <3>3. /\ \A y \in listed : y.uid = u => y \in listed'
          /\ \A y \in listed' : y \in listed
          /\ u \in current_pod_uids' <=> u \in current_pod_uids
      BY <1>1, <2>2
    <3>4. CASE \E y \in listed : y.uid = u
      BY <1>1, <1>11, <3>3, <3>4 DEF TaskAccurate
    <3>5. CASE ~(\E y \in listed : y.uid = u) /\ u \notin current_pod_uids
      <4>1. ~Visible(u)
        BY <1>1, <1>11, <3>5 DEF TaskAccurate
      <4>2. /\ ~(\E y \in listed' : y.uid = u) /\ u \notin current_pod_uids'
            /\ ~Visible(u)' /\ restarting'
        BY <1>1, <3>1, <3>3, <3>5, <4>1
      <4> QED
        BY <4>2 DEF TaskAccurate
    <3>6. CASE ~(\E y \in listed : y.uid = u) /\ u \in current_pod_uids
      <4>1. Agrees(u)
        BY <1>11, <3>6 DEF TaskAccurate
      <4> QED
        BY <3>2, <3>3, <3>6, <4>1 DEF TaskAccurate
    <3> QED
      BY <3>4, <3>5, <3>6
  <2> QED
    BY <2>1, <2>2
<1>12. LastWordOK'
  <2> SUFFICES ASSUME watched, NEW u \in Uids
               PROVE  /\ \A i \in DOMAIN stream' :
                             /\ Concerns(stream'[i], u)
                             /\ \A j \in DOMAIN stream' :
                                    Concerns(stream'[j], u) => j <= i
                             => Accurate(stream[i], u)'
                      /\ ~failing' /\ (\A i \in DOMAIN stream' :
                                           ~Concerns(stream'[i], u)) =>
                             TaskAccurate(u)'
    BY <1>1 DEF LastWordOK
  <2>1. Visible(u)' <=> Visible(u)
    BY <1>1, SameCluster
  <2>2. \A i \in DOMAIN stream' :
            /\ Concerns(stream'[i], u)
            /\ \A j \in DOMAIN stream' : Concerns(stream'[j], u) => j <= i
            => Accurate(stream[i], u)'
    BY <1>1, <2>1 DEF IInv, LastWordOK, Accurate
  <2>3. (\A i \in DOMAIN stream : ~Concerns(stream[i], u)) => TaskAccurate(u)
    BY <1>1 DEF IInv, LastWordOK
  <2> QED
    BY <1>1, <1>11, <2>2, <2>3
<1> QED
  BY <1>5, <1>6, <1>7, <1>9, <1>10, <1>12 DEF IInv

\* The pods that were not listed are deleted.
LEMMA FinishRestartStep ==
    ASSUME IInv, FinishRestart
    PROVE  IInv'
<1>1. /\ outbox = <<>> /\ ~failing /\ restarting /\ listed = {}
      /\ restarting' = FALSE /\ known_pod_uids' = current_pod_uids
      /\ UNCHANGED <<cluster, watched, stream, alive, listed,
                     current_pod_uids, failing, listening, told>>
  BY DEF FinishRestart, clusterVars, Idle
<1>2. /\ IsFiniteSet(Vanished) /\ Cardinality(Vanished) \in Nat
      /\ Vanished \subseteq Uids
  BY FS_Subset, FS_CardinalityType DEF Vanished, IInv, KnownOK, TypeOK
<1>3. PICK order \in [1..Cardinality(Vanished) -> Vanished] :
          /\ \A u \in Vanished : \E k \in DOMAIN order : order[k] = u
          /\ outbox' = [k \in DOMAIN order |->
                            [type |-> "Delete", uid |-> order[k]]]
  BY DEF FinishRestart
<1>4. /\ outbox' \in Seq(EndpointEvents)
      /\ \A k \in DOMAIN outbox' : outbox'[k].type = "Delete"
      /\ \A u \in Vanished : \E k \in DOMAIN outbox' : outbox'[k].uid = u
  <2>1. PICK n \in Nat : n = Cardinality(Vanished)
    BY <1>2
  <2>2. /\ DOMAIN outbox' = 1..n /\ DOMAIN order = 1..n
        /\ outbox' = [k \in 1..n |-> [type |-> "Delete", uid |-> order[k]]]
    BY <1>3, <2>1
  <2>3. \A k \in 1..n : [type |-> "Delete", uid |-> order[k]] \in EndpointEvents
    BY <1>2, <1>3, <2>1 DEF EndpointEvents
  <2>4. outbox' \in Seq(EndpointEvents)
    BY <2>2, <2>3
  <2>5. \A k \in 1..n : outbox'[k].type = "Delete" /\ outbox'[k].uid = order[k]
    BY <2>2
  <2> QED
    BY <1>3, <2>2, <2>4, <2>5
<1>5. /\ OutboxOK' /\ ServingNotReset' /\ \A w \in Uids : KeepsOf(w)
      /\ \A u : (\E k \in DOMAIN outbox' : outbox'[k].uid = u) =>
             WillBeUntold(u)'
  BY <1>1, <1>4, OnlyDeletes DEF KeepsOf
<1>6. TypeOK'
  BY <1>1, <1>4 DEF IInv, TypeOK
<1>7. KnownOK'
  <2>1. ASSUME NEW w \in Uids, w \notin known_pod_uids'
        PROVE  WillBeUntold(w)'
    <3>1. CASE w \in known_pod_uids
      BY <1>1, <1>4, <1>5, <2>1, <3>1 DEF Vanished
    <3>2. CASE w \notin known_pod_uids
      BY <1>5, <3>2 DEF IInv, KnownOK, KeepsOf
    <3> QED
      BY <3>1, <3>2
  <2> QED
    BY <1>1, <2>1 DEF IInv, KnownOK
<1>8. SlotsOK'
  BY <1>1, <1>5, KeepsSlots DEF IInv
<1>9. ListedOK'
  BY <1>1 DEF ListedOK, OnePerUid
<1>10. StreamOK'
  <2>1. \A i \in DOMAIN stream : \A x \in PodsIn(stream[i]) :
            x \in Pods /\ x.uid \in Uids
    BY ReportFacts DEF IInv
  <2>2. \A i \in DOMAIN stream : \A x \in PodsIn(stream[i]) : FitsTold(x)'
    BY <1>5, <2>1, KeepsFits DEF IInv, StreamOK
  <2>3. \A x : FitsCluster(x)' <=> FitsCluster(x)
    BY <1>1, SameCluster
  <2> QED
    BY <1>1, <2>2, <2>3 DEF IInv, StreamOK
<1>11. ASSUME NEW u \in Uids, TaskAccurate(u) PROVE TaskAccurate(u)'
  <2>1. Agrees(u)'
    <3>1. CASE u \notin current_pod_uids
      <4>1. ~Visible(u)
        BY <1>1, <1>11, <3>1 DEF TaskAccurate
      <4>2. ~Visible(u)'
        BY <1>1, <4>1, SameCluster
      <4>3. WillBeUntold(u)'
        BY <1>1, <1>7, <3>1 DEF KnownOK
      <4> QED
        BY <4>2, <4>3 DEF Agrees
    <3>2. CASE u \in current_pod_uids
      <4>1. Agrees(u)
        BY <1>1, <1>11, <3>2 DEF TaskAccurate
      <4> QED
        BY <1>1, <1>5, <4>1, KeepsAgrees
    <3> QED
      BY <3>1, <3>2
  <2> QED
    BY <1>1, <2>1 DEF TaskAccurate
<1>12. LastWordOK'
  <2> SUFFICES ASSUME watched, NEW u \in Uids
               PROVE  /\ \A i \in DOMAIN stream' :
                             /\ Concerns(stream'[i], u)
                             /\ \A j \in DOMAIN stream' :
                                    Concerns(stream'[j], u) => j <= i
                             => Accurate(stream[i], u)'
                      /\ ~failing' /\ (\A i \in DOMAIN stream' :
                                           ~Concerns(stream'[i], u)) =>
                             TaskAccurate(u)'
    BY <1>1 DEF LastWordOK
  <2>1. Visible(u)' <=> Visible(u)
    BY <1>1, SameCluster
  <2>2. \A i \in DOMAIN stream' :
            /\ Concerns(stream'[i], u)
            /\ \A j \in DOMAIN stream' : Concerns(stream'[j], u) => j <= i
            => Accurate(stream[i], u)'
    BY <1>1, <2>1 DEF IInv, LastWordOK, Accurate
  <2>3. (\A i \in DOMAIN stream : ~Concerns(stream[i], u)) => TaskAccurate(u)
    BY <1>1 DEF IInv, LastWordOK
  <2> QED
    BY <1>1, <1>11, <2>2, <2>3
<1> QED
  BY <1>5, <1>6, <1>7, <1>8, <1>9, <1>10, <1>12 DEF IInv

\* The channel takes an event.
LEMMA SendStep ==
    ASSUME IInv, Send
    PROVE  IInv'
<1>1. /\ outbox # <<>> /\ told' = Learn(told, Head(outbox))
      /\ outbox' = Tail(outbox)
      /\ UNCHANGED <<cluster, watched, stream, known_pod_uids, restarting,
                     listed, current_pod_uids, failing>>
      /\ UNCHANGED <<alive, listening>>
  BY DEF Send, clusterVars, runtimeVars
<1>2. /\ outbox' \in Seq(EndpointEvents)
      /\ told' \in [Uids -> [PortNumbers -> {"none", "suspended", "available"}]]
      /\ OutboxOK' /\ ServingNotReset'
      /\ \A w \in Uids : KeepsOf(w)
  BY <1>1, SendFacts DEF IInv, KeepsOf
<1>3. TypeOK'
  BY <1>1, <1>2 DEF IInv, TypeOK
<1> QED
  BY <1>1, <1>2, <1>3, QuietStep DEF IInv

\* The task ends, the listener does, or nothing happens.
LEMMA EndSteps ==
    ASSUME IInv, RunFails \/ ListenerGone \/ UNCHANGED vars
    PROVE  IInv'
<1>1. /\ UNCHANGED <<cluster, watched, stream, known_pod_uids, restarting,
                     listed, current_pod_uids, failing>>
      /\ UNCHANGED <<outbox, told>>
      /\ alive' \in BOOLEAN /\ listening' \in BOOLEAN
  BY DEF RunFails, ListenerGone, vars, clusterVars, runtimeVars, IInv, TypeOK
<1>2. OutboxOK' /\ ServingNotReset' /\ \A w \in Uids : KeepsOf(w)
  BY <1>1, NothingTold DEF IInv, KeepsOf
<1>3. TypeOK'
  BY <1>1 DEF IInv, TypeOK
<1> QED
  BY <1>1, <1>2, <1>3, QuietStep DEF IInv

-----------------------------------------------------------------------------
(* The invariant and what follows from it.                                 *)

\* Nothing has been told, and there is nothing to report.
Fresh ==
    /\ cluster = [u \in Uids |-> None]
    /\ watched = FALSE
    /\ stream = <<>>
    /\ alive = TRUE
    /\ known_pod_uids = {}
    /\ restarting = FALSE
    /\ listed = {}
    /\ current_pod_uids = {}
    /\ outbox = <<>>
    /\ failing = FALSE
    /\ listening \in BOOLEAN
    /\ told = [u \in Uids |-> Untold]

\* So it is when the discovery starts.
LEMMA FreshStart ==
    Fresh => IInv
<1> SUFFICES ASSUME Fresh PROVE IInv
  OBVIOUS
<1>1. TypeOK
  <2>1. /\ stream \in Seq(StreamEvents) /\ Len(stream) <= MaxStream
        /\ outbox \in Seq(EndpointEvents)
    BY KubernetesAssumption DEF Fresh
  <2>2. /\ cluster \in [Uids -> Pods \cup {None, Gone}]
        /\ told \in [Uids ->
                  [PortNumbers -> {"none", "suspended", "available"}]]
    BY DEF Fresh, Untold
  <2>3. /\ watched \in BOOLEAN /\ alive \in BOOLEAN /\ restarting \in BOOLEAN
        /\ failing \in BOOLEAN /\ listening \in BOOLEAN
    BY DEF Fresh
  <2> QED
    BY <2>1, <2>2, <2>3 DEF Fresh, TypeOK
<1>2. \A u \in Uids : WillBeUntold(u) /\ ~Visible(u)
  BY EmptyOutbox DEF Fresh, Visible, Existing
<1>3. OutboxOK /\ ServingNotReset
  BY EmptyOutbox DEF Fresh
<1>4. SlotsOK
  BY <1>2 DEF SlotsOK, Visible, Existing, Fresh
<1>5. ListedOK
  BY DEF Fresh, ListedOK, OnePerUid
<1>6. StreamOK
  BY DEF Fresh, StreamOK
<1>7. KnownOK
  BY <1>2, FS_EmptySet DEF Fresh, KnownOK
<1>8. LastWordOK
  BY DEF Fresh, LastWordOK
<1> QED
  BY <1>1, <1>3, <1>4, <1>5, <1>6, <1>7, <1>8 DEF IInv

\* The initial states.
LEMMA InitialStates ==
    Init => IInv
BY FreshStart DEF Init, Fresh

\* Every step preserves the invariant.
LEMMA Inductive ==
    IInv /\ [Next]_vars => IInv'
<1> SUFFICES ASSUME IInv, [Next]_vars PROVE IInv'
  OBVIOUS
<1>1. CASE \E u \in Uids : PodCreated(u) \/ PodChanged(u) \/ PodDeleted(u)
  BY <1>1, ClusterSteps
<1>2. CASE WatchLost
  BY <1>2, WatchLostStep
<1>3. CASE WatchRestarted
  BY <1>3, WatchRestartedStep
<1>4. CASE HandleApplied
  BY <1>4, HandleAppliedStep
<1>5. CASE HandleDeleted
  BY <1>5, HandleDeletedStep
<1>6. CASE HandleRestarted
  BY <1>6, HandleRestartedStep
<1>7. CASE \E pod \in listed : ApplyListedPod(pod)
  BY <1>7, ApplyListedStep
<1>8. CASE FinishRestart
  BY <1>8, FinishRestartStep
<1>9. CASE Send
  BY <1>9, SendStep
<1>10. CASE RunFails \/ ListenerGone \/ UNCHANGED vars
  BY <1>10, EndSteps
<1> QED
  BY <1>1, <1>2, <1>3, <1>4, <1>5, <1>6, <1>7, <1>8, <1>9, <1>10 DEF Next

\* The invariant holds in every reachable state.
LEMMA Invariance ==
    Spec => []IInv
BY InitialStates, Inductive, PTL DEF Spec

\* When the task has caught up, what it told of every pod is right.
LEMMA CaughtUpAgrees ==
    ASSUME IInv, CaughtUp, NEW u \in Uids
    PROVE  /\ told[u] # Untold => Visible(u)
           /\ told[u] # Untold /\ cluster[u].details =>
                  cluster[u].phase # "Succeeded"
           /\ \A p \in PortNumbers :
                  told[u][p] # "none" /\ cluster[u].details =>
                      told[u][p] = IF cluster[u].phase = "Running"
                                   THEN "available" ELSE "suspended"
<1>1. /\ outbox = <<>> /\ watched /\ stream = <<>> /\ ~restarting /\ ~failing
      /\ listed = {}
  BY DEF CaughtUp, Idle, IInv, ListedOK
<1>2. TaskAccurate(u)
  BY <1>1 DEF IInv, LastWordOK
<1>3. Agrees(u)
  BY <1>1, <1>2 DEF TaskAccurate
<1>4. /\ WillBeUntold(u) <=> told[u] = Untold
      /\ \A s : WillBe(u, s) <=>
             told[u] = Untold \/ \A p \in PortNumbers : told[u][p] \in {"none", s}
  BY <1>1, EmptyOutbox
<1>5. told[u] # Untold =>
          /\ Visible(u)
          /\ cluster[u].details => cluster[u].phase # "Succeeded"
  BY <1>3, <1>4 DEF Agrees
<1>6. ASSUME NEW p \in PortNumbers, told[u][p] # "none", cluster[u].details
      PROVE  told[u][p] = IF cluster[u].phase = "Running" THEN "available"
                          ELSE "suspended"
  <2>1. told[u] # Untold
    BY <1>6 DEF Untold
  <2> QED
    BY <1>3, <1>4, <1>5, <1>6, <2>1 DEF Agrees
<1> QED
  BY <1>5, <1>6

\* What the inductive invariant says of a task that has caught up.
LEMMA CaughtUpFacts ==
    IInv => NoGhostEndpoints /\ AvailabilityFollowsPhase
<1>1. IInv => NoGhostEndpoints
  BY CaughtUpAgrees DEF NoGhostEndpoints, Visible
<1>2. IInv => AvailabilityFollowsPhase
  BY CaughtUpAgrees DEF AvailabilityFollowsPhase
<1> QED
  BY <1>1, <1>2

(***************************************************************************)
(* The variables of the discovery keep their types (kubernetes/mod.rs).    *)
(***************************************************************************)
THEOREM TypeCorrect == Spec => []TypeOK
<1>1. IInv => TypeOK
  BY DEF IInv
<1> QED
  BY <1>1, Invariance, PTL

(***************************************************************************)
(* Whatever went unseen while the watch was down, no endpoint of a deleted *)
(* pod, or of a complete one that has succeeded, is left once the task has *)
(* caught up: what handle_pod_event makes of Restarted leaves no ghosts.   *)
(***************************************************************************)
THEOREM NoGhosts == Spec => []NoGhostEndpoints
BY CaughtUpFacts, Invariance, PTL

(***************************************************************************)
(* Once the task has caught up, the endpoints of a complete pod are        *)
(* available exactly if the pod is running.  Details of a pod may come and *)
(* go at any time (LossyPhases is any set): what apply_pod skipped while   *)
(* one was missing, and its sending nothing for pending pods, leave no     *)
(* stale availability once the pod is complete again.                      *)
(***************************************************************************)
THEOREM AvailabilityIsRight == Spec => []AvailabilityFollowsPhase
BY CaughtUpFacts, Invariance, PTL

(***************************************************************************)
(* apply_pod never has an Add to send for a pod with an available          *)
(* endpoint: known_pod_uids forgets no pod whose endpoints are left.       *)
(***************************************************************************)
THEOREM ServingIsNotReset == Spec => []ServingNotReset
<1>1. IInv => ServingNotReset
  BY DEF IInv
<1> QED
  BY <1>1, Invariance, PTL
=============================================================================
