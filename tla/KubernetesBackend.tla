------------------------- MODULE KubernetesBackend -------------------------
(***************************************************************************)
(* The path from a Kubernetes cluster to the table that connections are    *)
(* routed by: KubernetesEndpointDiscovery (src/src/kubernetes/mod.rs) as   *)
(* the one discovery of a ServiceManager (src/src/backend/mod.rs), joined  *)
(* by the bounded channel that register_endpoint_discovery creates.        *)
(*                                                                         *)
(* Two steps are common to both components: the task of the discovery puts *)
(* an EndpointEvent into the channel, and it ends, which drops its Sender. *)
(* Whether its Receiver still exists follows from where the listener task  *)
(* stands.  Nobody has called send_port_events_to.                         *)
(***************************************************************************)
EXTENDS Naturals, Sequences

CONSTANTS
    Kubernetes,       \* the name of the discovery
    Uids, PortNumbers, ProtocolNames, NewPods, Phases, LossyPhases, MaxStream,
    Gone,
    EventBufferSize,  \* ENDPOINT_EVENT_BUFFER_SIZE
    None

VARIABLES
    \* KubernetesDiscovery
    cluster, watched, stream, alive, known_pod_uids, restarting,
    listed, current_pod_uids, outbox, failing, told,
    \* ServiceManager
    owned, source, queue, listener, event, todo, port_service_map,
    port_event_sender, subscriber, unsent, channel, receiving, view

discoveryVars == <<cluster, watched, stream, alive, known_pod_uids,
                   restarting, listed, current_pod_uids, outbox, failing, told>>
managerVars == <<owned, source, queue, listener, event, todo,
                 port_service_map, port_event_sender, subscriber, unsent,
                 channel, receiving, view>>
vars == <<discoveryVars, managerVars>>

ListenerOpen == listener[Kubernetes] \in {"recv", "lock", "gate", "send"}

Discovery == INSTANCE KubernetesDiscovery WITH listening <- ListenerOpen

Manager == INSTANCE ServiceManager WITH
    Discoveries <- {Kubernetes},
    Ports <- PortNumbers,
    Protocols <- Discovery!Fields,
    Backends <- PortNumbers \X Discovery!Fields,
    Subscribers <- {},
    Inputs <- Discovery!EndpointEvents,
    PortBufferSize <- 1

\* What the two components assume of their constants.
ASSUME BackendAssumption ==
    /\ Discovery!KubernetesAssumption
    /\ Manager!BufferAssumption
    /\ Manager!InputAssumption
    /\ Manager!NoneAssumption

Registered == source[Kubernetes] = "running"

Init ==
    /\ cluster = [u \in Uids |-> None]
    /\ watched = FALSE
    /\ stream = <<>>
    /\ alive = TRUE
    /\ known_pod_uids = {}
    /\ restarting = FALSE
    /\ listed = {}
    /\ current_pod_uids = {}
    /\ outbox = <<>>
    /\ failing = FALSE
    /\ told = [u \in Uids |-> Discovery!Untold]
    /\ Manager!Init

-----------------------------------------------------------------------------
\* Pods come and go, whether or not anyone watches.
ClusterChanges ==
    /\ UNCHANGED managerVars
    /\ \E u \in Uids : \/ Discovery!PodCreated(u)
                       \/ Discovery!PodChanged(u)
                       \/ Discovery!PodDeleted(u)

WatchChanges ==
    /\ Registered
    /\ UNCHANGED managerVars
    /\ Discovery!WatchLost \/ Discovery!WatchRestarted

\* The task of the discovery works without touching the channel.
TaskWorks ==
    /\ Registered
    /\ UNCHANGED managerVars
    /\ \/ Discovery!HandleApplied
       \/ Discovery!HandleDeleted
       \/ Discovery!HandleRestarted
       \/ \E pod \in listed : Discovery!ApplyListedPod(pod)
       \/ Discovery!FinishRestart

TaskSends ==
    /\ outbox # <<>>
    /\ Manager!DiscoverySends(Kubernetes, Head(outbox))
    /\ Discovery!Send

TaskEnds ==
    /\ Manager!DiscoveryEnds(Kubernetes)
    /\ Discovery!RunFails

ManagerOwner ==
    /\ \/ Manager!RegisterEndpointDiscovery(Kubernetes)
       \/ Manager!DropManager
    /\ UNCHANGED discoveryVars

\* Without a subscriber SendPortEventFails cannot happen.
ListenerWorks ==
    /\ \/ Manager!ReceiveEvent(Kubernetes)
       \/ Manager!ProcessEvent(Kubernetes)
       \/ Manager!LockSender(Kubernetes)
       \/ \E e \in todo[Kubernetes] : Manager!SendPortEvent(Kubernetes, e)
    /\ UNCHANGED discoveryVars

ListenerDisconnects ==
    /\ Manager!ReceiveDisconnect(Kubernetes)
    /\ UNCHANGED discoveryVars

Next ==
    \/ ClusterChanges
    \/ WatchChanges
    \/ TaskWorks
    \/ TaskSends
    \/ TaskEnds
    \/ ManagerOwner
    \/ ListenerWorks
    \/ ListenerDisconnects

Spec == Init /\ [][Next]_vars

(***************************************************************************)
(* The two tasks keep running, and the discovery's ends once it has an     *)
(* error to return.  Nothing is assumed of the cluster, of the watch or of *)
(* the owner of the manager.                                               *)
(***************************************************************************)
Fairness ==
    /\ WF_vars(TaskWorks)
    /\ WF_vars(TaskSends)
    /\ WF_vars(failing /\ TaskEnds)
    /\ WF_vars(ListenerWorks)

FairSpec == Spec /\ Fairness

-----------------------------------------------------------------------------
\* The EndpointEvents that are sent and not yet processed.
Pending ==
    (IF listener[Kubernetes] = "lock" THEN <<event[Kubernetes]>> ELSE <<>>)
        \o queue[Kubernetes]

\* The table as KubernetesDiscovery sees it.
Table ==
    [u \in Uids |-> [p \in PortNumbers |->
        LET endpoint == Manager!EndpointAt(p, <<Kubernetes, u>>)
        IN  IF endpoint = None THEN "none"
            ELSE IF endpoint.is_available THEN "available" ELSE "suspended"]]

\* What the ServiceManager knows after events, when it knew t before.
LearnAll(t, events) ==
    LET after[k \in 0..Len(events)] ==
            IF k = 0 THEN t ELSE Discovery!Learn(after[k - 1], events[k])
    IN  after[Len(events)]

(***************************************************************************)
(* TableFollowsEvents.  Unless the manager was dropped, what the listener  *)
(* has done (process_event) and still has before it amounts to what the    *)
(* discovery has sent: no event is lost, doubled or overtaken between      *)
(* their tasks, and what the discovery had sent when it ended stays in the *)
(* table (listen_for_discovery_events panics and removes nothing).         *)
(***************************************************************************)
TableFollowsEvents ==
    listener[Kubernetes] # "returned" =>
        LearnAll(Table, Pending) = told

ServedOn(pod, p) == \E k \in DOMAIN pod.services : pod.services[k][1] = p

\* What the pod with uid u is to be in the table: a pod that is complete and
\* has not ended is reachable on its ports, available exactly if it runs.
Expected(u, p) ==
    LET pod == cluster[u]
        serves == /\ u \in Discovery!Existing
                  /\ Discovery!Complete(pod)
                  /\ pod.phase # "Succeeded"
                  /\ ServedOn(pod, p)
    IN  IF ~serves THEN "none"
        ELSE IF pod.phase = "Running" THEN "available" ELSE "suspended"

\* apply_pod skips pod u, so what the table has of it is left from before.
Skipped(u) ==
    u \in Discovery!Existing /\ cluster[u].uid = u /\ ~cluster[u].details

RoutesMatch(u) ==
    \A p \in PortNumbers :
        IF Skipped(u) THEN Table[u][p] # "none" => ServedOn(cluster[u], p)
        ELSE Table[u][p] = Expected(u, p)

(***************************************************************************)
(* RoutesFollowPods.  Once both tasks have caught up with the cluster, the *)
(* table routes to exactly the pods that run: deletions that went unseen,  *)
(* repeated updates and new listings leave neither ghosts nor gaps.  Of a  *)
(* pod that is incomplete it may have routes from when it was not, to its  *)
(* own ports only.                                                         *)
(***************************************************************************)
RoutesFollowPods ==
    /\ Registered
    /\ ListenerOpen
    /\ Discovery!CaughtUp
    /\ Pending = <<>>
    => \A u \in Uids : RoutesMatch(u)

(***************************************************************************)
(* RoutesConverge.  If from some point on the discovery runs, the watch is *)
(* up and the manager is there, the table is right about every pod again   *)
(* and again, however small the channel between the tasks is.              *)
(***************************************************************************)
RoutesConverge ==
    \A u \in Uids :
        <>[](Registered /\ watched /\ owned) => []<>RoutesMatch(u)

=============================================================================
