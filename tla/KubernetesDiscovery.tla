------------------------ MODULE KubernetesDiscovery ------------------------
(***************************************************************************)
(* KubernetesEndpointDiscovery (src/src/kubernetes/mod.rs): a task that    *)
(* watches the pods of one namespace and turns what it sees into           *)
(* EndpointEvents for the ServiceManager.                                  *)
(*                                                                         *)
(* The cluster and the watch stream are not in the repository.  They are   *)
(* modelled by what the code relies on: pods come, change and go, the      *)
(* stream reports each change of a watched pod in order, and after a gap   *)
(* in which changes went unseen (the start is one) it reports all pods     *)
(* there are as one Restarted event.  They are followed only as long as    *)
(* the task runs: nothing is observed afterwards.                          *)
(*                                                                         *)
(* The runtime object belongs to one task.  Others interfere only while it *)
(* awaits a send, so a handler runs up to its end at once and leaves the   *)
(* events it sends in outbox, from where they go out one by one; the next  *)
(* stream event is taken when outbox is empty.                             *)
(***************************************************************************)
EXTENDS Naturals, Sequences, FiniteSets

CONSTANTS
    Uids,           \* the identities of pods
    PortNumbers,    \* parts of a service string that parse as a u16
    ProtocolNames,  \* parts that do not
    NewPods,        \* the pods that may be created
    Phases,         \* the pod phases that occur
    LossyPhases,    \* phases in which a pod may lose details that it had
    MaxStream,      \* bound: events of the watch stream not yet taken
    None,           \* Option::None; also a uid whose pod is not created yet
    Gone            \* a uid whose pod has been deleted: uids are never reused

Fields == PortNumbers \cup ProtocolNames

(***************************************************************************)
(* A pod as the stream reports it.  uid is None when the object has none,  *)
(* details says that status, name, annotations, IP and phase are present.  *)
(* services are the service strings of its annotation, split at ':'.       *)
(***************************************************************************)
Pods == [uid : Uids \cup {None}, details : BOOLEAN, valid_address : BOOLEAN,
         phase : Phases, services : Seq(Seq(Fields))]

ASSUME KubernetesAssumption ==
    /\ NewPods \subseteq Pods
    /\ "Pending" \in Phases
    /\ PortNumbers \cap ProtocolNames = {}
    /\ MaxStream \in Nat \ {0}
    /\ None \notin Uids
    /\ None \notin Pods /\ Gone \notin Pods /\ None # Gone

VARIABLES
    cluster,         \* per uid: the pod, None or Gone
    watched,         \* changes of the cluster reach the stream
    stream,          \* events of the watch stream not yet taken
    alive,           \* the task is running
    known_pod_uids,
    restarting,      \* a Restarted event is being handled
    listed,          \* its pods that are still to be applied
    current_pod_uids,
    outbox,          \* EndpointEvents the present handler still has to send
    failing,         \* the handler returns Err when outbox is sent
    listening,       \* the Receiver of the EndpointEvents exists
    told             \* what the events sent so far amount to, per uid

clusterVars == <<cluster, watched>>
runtimeVars == <<known_pod_uids, restarting, listed, current_pod_uids>>
vars == <<cluster, watched, stream, alive, known_pod_uids, restarting,
          listed, current_pod_uids, outbox, failing, listening, told>>

EndpointEvents ==
    [type : {"Add"}, uid : Uids, is_available : {FALSE},
     external_port : PortNumbers, external_protocol : Fields,
     backend : PortNumbers \X Fields]
    \cup [type : {"Delete", "Suspend", "Resume"}, uid : Uids]

StreamEvents ==
    [type : {"Applied", "Deleted"}, pod : Pods]
    \cup [type : {"Restarted"}, pods : SUBSET Pods]

TypeOK ==
    /\ cluster \in [Uids -> Pods \cup {None, Gone}]
    /\ watched \in BOOLEAN
    /\ stream \in Seq(StreamEvents)
    /\ Len(stream) <= MaxStream
    /\ alive \in BOOLEAN
    /\ known_pod_uids \subseteq Uids
    /\ restarting \in BOOLEAN
    /\ listed \subseteq Pods
    /\ current_pod_uids \subseteq Uids
    /\ outbox \in Seq(EndpointEvents)
    /\ failing \in BOOLEAN
    /\ listening \in BOOLEAN
    /\ told \in [Uids -> [PortNumbers -> {"none", "suspended", "available"}]]

Untold == [p \in PortNumbers |-> "none"]

Init ==
    /\ cluster = [u \in Uids |-> None]
    /\ watched = FALSE
    /\ stream = <<>>
    /\ alive = TRUE
    /\ known_pod_uids = {}
    /\ restarting = FALSE
    /\ listed = {}
    /\ current_pod_uids = {}
    /\ outbox = <<>>
    /\ failing = FALSE
    /\ listening = TRUE
    /\ told = [u \in Uids |-> Untold]

-----------------------------------------------------------------------------
(* The cluster and its watch stream.                                       *)

Existing == {u \in Uids : cluster[u] \notin {None, Gone}}

\* The stream reports a change of a watched pod; otherwise it goes unseen.
Report(e) ==
    IF watched THEN /\ Len(stream) < MaxStream
                    /\ stream' = Append(stream, e)
    ELSE UNCHANGED stream

PodCreated(u) ==
    /\ alive
    /\ cluster[u] = None
    /\ \E pod \in NewPods :
           /\ pod.uid \in {u, None}
           /\ cluster' = [cluster EXCEPT ![u] = pod]
           /\ Report([type |-> "Applied", pod |-> pod])
    /\ UNCHANGED <<watched, alive, runtimeVars, outbox, failing, listening,
                   told>>

\* A pod never becomes pending again, and its phase stays once it has ended.
\* Its details come at any time and may go again: an evicted pod, say, is
\* reported as failed without an IP.
PodChanged(u) ==
    /\ alive
    /\ u \in Existing
    /\ \E phase \in Phases, details \in BOOLEAN :
           LET pod == [cluster[u] EXCEPT !.phase = phase, !.details = details]
           IN  /\ phase = "Pending" => cluster[u].phase = "Pending"
               /\ cluster[u].phase \in {"Succeeded", "Failed"} =>
                      phase = cluster[u].phase
               /\ cluster[u].details /\ ~details => phase \in LossyPhases
               /\ cluster' = [cluster EXCEPT ![u] = pod]
               /\ Report([type |-> "Applied", pod |-> pod])
    /\ UNCHANGED <<watched, alive, runtimeVars, outbox, failing, listening,
                   told>>

PodDeleted(u) ==
    /\ alive
    /\ u \in Existing
    /\ cluster' = [cluster EXCEPT ![u] = Gone]
    /\ Report([type |-> "Deleted", pod |-> cluster[u]])
    /\ UNCHANGED <<watched, alive, runtimeVars, outbox, failing, listening,
                   told>>

WatchLost ==
    /\ alive
    /\ watched
    /\ watched' = FALSE
    /\ UNCHANGED <<cluster, stream, alive, runtimeVars, outbox, failing,
                   listening, told>>

WatchRestarted ==
    /\ alive
    /\ ~watched
    /\ Len(stream) < MaxStream
    /\ watched' = TRUE
    /\ stream' = Append(stream, [type |-> "Restarted",
           pods |-> {cluster[u] : u \in Existing}])
    /\ UNCHANGED <<cluster, alive, runtimeVars, outbox, failing, listening,
                   told>>

-----------------------------------------------------------------------------
(* apply_pod.                                                              *)

\* send_service_from_string: four parts, of which the first and the third
\* must be numbers; what follows the fourth is ignored.
Parses(parts) ==
    /\ Len(parts) >= 4
    /\ parts[1] \in PortNumbers
    /\ parts[3] \in PortNumbers

\* The Add of a service string; the backend is the pod's address, the port
\* and the protocol.
AddOf(uid, parts) ==
    [type |-> "Add", uid |-> uid, is_available |-> FALSE,
     external_port |-> parts[1], external_protocol |-> parts[2],
     backend |-> <<parts[3], parts[4]>>]

\* discover_services sends the services in order up to the first bad one.
GoodServices(services) ==
    {k \in DOMAIN services : \A j \in 1..k : Parses(services[j])}

AddsFirstOnly(pod) ==
    [k \in GoodServices(pod.services) \cap {1} |->
        AddOf(pod.uid, pod.services[k])]

Adds(pod) ==
    [k \in GoodServices(pod.services) |-> AddOf(pod.uid, pod.services[k])]

AllServicesParse(pod) == GoodServices(pod.services) = DOMAIN pod.services

PhaseEventsForgettingFailed(pod) ==
    CASE pod.phase = "Running" -> <<[type |-> "Resume", uid |-> pod.uid]>>
      [] pod.phase = "Succeeded" -> <<[type |-> "Delete", uid |-> pod.uid]>>
      [] OTHER -> <<>>

PhaseEvents(pod) ==
    CASE pod.phase = "Running" -> <<[type |-> "Resume", uid |-> pod.uid]>>
      [] pod.phase = "Succeeded" -> <<[type |-> "Delete", uid |-> pod.uid]>>
      [] pod.phase = "Pending" -> <<>>
      [] pod.phase \notin {"Running", "Succeeded", "Pending"} ->
             <<[type |-> "Suspend", uid |-> pod.uid]>>

AlwaysNew(pod) == TRUE

\* known_pod_uids.insert(uid) is true.
IsNew(pod) == pod.uid \notin known_pod_uids

(***************************************************************************)
(* The whole of apply_pod for a pod with a uid.  An object that lacks a    *)
(* part is skipped; an unparsable address or service string is an error,   *)
(* with what was sent and inserted before it left as it is.                *)
(***************************************************************************)
ApplyPod(pod) ==
    LET discovered == IF IsNew(pod) THEN Adds(pod) ELSE <<>>
        ok == IsNew(pod) => AllServicesParse(pod)
    IN  \/ /\ ~pod.details
           /\ UNCHANGED <<known_pod_uids, outbox, failing>>
        \/ /\ pod.details /\ ~pod.valid_address
           /\ failing' = TRUE
           /\ UNCHANGED <<known_pod_uids, outbox>>
        \/ /\ pod.details /\ pod.valid_address
           /\ known_pod_uids' =
                  IF ok /\ pod.phase = "Succeeded"
                  THEN known_pod_uids \ {pod.uid}
                  ELSE known_pod_uids \cup {pod.uid}
           /\ outbox' = IF ok THEN discovered \o PhaseEvents(pod)
                        ELSE discovered
           /\ failing' = ~ok

-----------------------------------------------------------------------------
(* handle_pod_event.                                                       *)

Idle == alive /\ outbox = <<>> /\ ~failing

TakesEvent(type) ==
    /\ Idle
    /\ ~restarting
    /\ stream # <<>>
    /\ Head(stream).type = type
    /\ stream' = Tail(stream)
    /\ UNCHANGED <<clusterVars, alive, listening, told>>

HandleApplied ==
    /\ TakesEvent("Applied")
    /\ \/ /\ Head(stream).pod.uid # None
          /\ ApplyPod(Head(stream).pod)
       \/ /\ Head(stream).pod.uid = None
          /\ UNCHANGED <<known_pod_uids, outbox, failing>>
    /\ UNCHANGED <<restarting, listed, current_pod_uids>>

HandleDeletedWithoutUid ==
    LET uid == Head(stream).pod.uid
    IN  /\ TakesEvent("Deleted")
        /\ known_pod_uids' = known_pod_uids \ {uid}
        /\ outbox' = <<[type |-> "Delete", uid |-> uid]>>
        /\ UNCHANGED <<restarting, listed, current_pod_uids, failing>>

HandleDeleted ==
    LET uid == Head(stream).pod.uid
    IN  /\ TakesEvent("Deleted")
        /\ known_pod_uids' = known_pod_uids \ {uid}
        /\ outbox' = IF uid # None THEN <<[type |-> "Delete", uid |-> uid]>>
                     ELSE <<>>
        /\ UNCHANGED <<restarting, listed, current_pod_uids, failing>>

HandleRestarted ==
    /\ TakesEvent("Restarted")
    /\ restarting' = TRUE
    /\ listed' = {pod \in Head(stream).pods : pod.uid # None}
    /\ current_pod_uids' = {}
    /\ UNCHANGED <<known_pod_uids, outbox, failing>>

\* One round of the loop over the pods; the order of the list is arbitrary.
ApplyListedPod(pod) ==
    /\ Idle
    /\ pod \in listed
    /\ listed' = listed \ {pod}
    /\ current_pod_uids' = current_pod_uids \cup {pod.uid}
    /\ ApplyPod(pod)
    /\ UNCHANGED <<clusterVars, stream, alive, restarting, listening, told>>

\* The uids to delete after the loop.
VanishedForgotten == {}
Vanished == known_pod_uids \ current_pod_uids

\* mem::replace of known_pod_uids, and a Delete for each uid that vanished.
FinishRestart ==
    /\ Idle
    /\ restarting /\ listed = {}
    /\ restarting' = FALSE
    /\ known_pod_uids' = current_pod_uids
    /\ \E order \in [1..Cardinality(Vanished) -> Vanished] :
           /\ \A u \in Vanished : \E k \in DOMAIN order : order[k] = u
           /\ outbox' = [k \in DOMAIN order |->
                             [type |-> "Delete", uid |-> order[k]]]
    /\ UNCHANGED <<clusterVars, stream, alive, listed, current_pod_uids, failing,
                   listening, told>>

-----------------------------------------------------------------------------
(* The channel to the ServiceManager.                                      *)

\* What the ServiceManager makes of an event, seen from this discovery: t is
\* what it knows, per uid and port.
Learn(t, e) ==
    [t EXCEPT ![e.uid] =
        CASE e.type = "Add" -> [@ EXCEPT ![e.external_port] = "suspended"]
          [] e.type = "Delete" -> Untold
          [] e.type \in {"Resume", "Suspend"} -> [p \in PortNumbers |->
                 IF @[p] = "none" THEN "none"
                 ELSE IF e.type = "Resume" THEN "available" ELSE "suspended"]]

Send ==
    /\ alive
    /\ outbox # <<>>
    /\ listening
    /\ told' = Learn(told, Head(outbox))
    /\ outbox' = Tail(outbox)
    /\ UNCHANGED <<clusterVars, stream, alive, runtimeVars, failing, listening>>

\* run returns Err: a send failed, a handler did, or the stream did or ended.
RunFails ==
    /\ alive
    /\ \/ outbox # <<>> /\ ~listening
       \/ outbox = <<>> /\ failing
       \/ Idle /\ ~restarting
    /\ alive' = FALSE
    /\ UNCHANGED <<clusterVars, stream, runtimeVars, outbox, failing,
                   listening, told>>

ListenerGone ==
    /\ alive
    /\ listening
    /\ listening' = FALSE
    /\ UNCHANGED <<clusterVars, stream, alive, runtimeVars, outbox, failing,
                   told>>

-----------------------------------------------------------------------------
Next ==
    \/ \E u \in Uids : PodCreated(u) \/ PodChanged(u) \/ PodDeleted(u)
    \/ WatchLost
    \/ WatchRestarted
    \/ HandleApplied
    \/ HandleDeleted
    \/ HandleRestarted
    \/ \E pod \in listed : ApplyListedPod(pod)
    \/ FinishRestart
    \/ Send
    \/ RunFails
    \/ ListenerGone

Spec == Init /\ [][Next]_vars

-----------------------------------------------------------------------------
\* The task has dealt with everything that happened in the cluster.
CaughtUp == Idle /\ watched /\ stream = <<>> /\ ~restarting

(***************************************************************************)
(* NoGhostEndpoints.  Once the task has caught up, no endpoint is left of  *)
(* a pod that was deleted, or that is complete and has succeeded, whatever *)
(* went unseen while the watch was down (handle_pod_event).  Of a pod that *)
(* succeeds and loses a detail with it apply_pod learns nothing: its       *)
(* endpoints stay until it is deleted or complete again.                   *)
(***************************************************************************)
NoGhostEndpoints ==
    CaughtUp =>
        \A u \in Uids : told[u] # Untold =>
            /\ u \in Existing
            /\ cluster[u].details => cluster[u].phase # "Succeeded"

(***************************************************************************)
(* AvailabilityFollowsPhase.  Once the task has caught up, the endpoints   *)
(* of a pod that is complete are available exactly if the pod is running,  *)
(* whatever changes of it apply_pod has skipped while a detail was         *)
(* missing.  Nothing is promised of a pod that lacks a detail now: when    *)
(* one fails and loses its IP, apply_pod skips that and its endpoints stay *)
(* available.                                                              *)
(***************************************************************************)
AvailabilityFollowsPhase ==
    CaughtUp =>
        \A u \in Uids, p \in PortNumbers :
            told[u][p] # "none" /\ cluster[u].details =>
                told[u][p] = IF cluster[u].phase = "Running" THEN "available"
                             ELSE "suspended"

(***************************************************************************)
(* ServingNotReset.  Seeing a pod again never adds its endpoints again,    *)
(* which would make them unavailable for a moment while they serve.        *)
(***************************************************************************)
ServingNotReset ==
    \A k \in DOMAIN outbox : outbox[k].type = "Add" =>
        \A p \in PortNumbers : told[outbox[k].uid][p] # "available"

Complete(pod) == pod.uid # None /\ pod.details

(***************************************************************************)
(* ServicesAdded.  Once the task has caught up, every service of a pod     *)
(* that is complete and has not ended has been added: "After all four are  *)
(* added, only one `Add` event followed by a `Resume` event should be sent *)
(* (for the last pod)" (tests/kubernetes.rs).                              *)
(***************************************************************************)
ServicesAdded ==
    CaughtUp =>
        \A u \in Existing :
            Complete(cluster[u]) /\ cluster[u].phase # "Succeeded" =>
                \A k \in DOMAIN cluster[u].services :
                    told[u][cluster[u].services[k][1]] # "none"

=============================================================================
