--------------------------- MODULE ServiceManager ---------------------------
(***************************************************************************)
(* The ServiceManager of state-proxy (src/src/backend/mod.rs).             *)
(*                                                                         *)
(* Discovery tasks (trait EndpointDiscovery) push EndpointEvents into one  *)
(* bounded channel each.  For every registered discovery the manager       *)
(* spawns a listener task that takes the events one at a time and applies  *)
(* them to port_service_map under that map's write lock, and announces     *)
(* ports that start or stop being served as PortEvents to the one channel  *)
(* installed by send_port_events_to.  send_port_events_to itself spawns a  *)
(* subscriber task that first sends the ports already open, under the      *)
(* map's read lock.                                                        *)
(*                                                                         *)
(* A step of the model is the code a task runs between two await points    *)
(* at which another task can interfere.  The two RwLocks have no variable  *)
(* of their own: who holds them follows from where each task stands.       *)
(*                                                                         *)
(* Left out: logging and the metrics counters, which no code path reads.   *)
(***************************************************************************)
EXTENDS Naturals, Sequences

CONSTANTS
    Discoveries,      \* names of the EndpointDiscovery tasks
    Uids,             \* the uid strings the discoveries use
    Ports,            \* external ports
    Protocols,        \* external protocol names
    Backends,         \* (address, protocol) pairs of the endpoints
    Subscribers,      \* one per call of send_port_events_to: its channel
    Inputs,           \* the EndpointEvents the discoveries may send
    EventBufferSize,  \* ENDPOINT_EVENT_BUFFER_SIZE
    PortBufferSize,   \* capacity of a subscriber's channel
    None              \* Rust's None; also an Entry::Vacant

-----------------------------------------------------------------------------
(* Data.                                                                   *)

EndpointIds == Discoveries \X Uids

Endpoints == [is_available : BOOLEAN, backend : Backends]

Services == [protocol  : Protocols,
             endpoints : [EndpointIds -> Endpoints \cup {None}]]

EndpointEvents ==
    [type : {"Add"}, uid : Uids, is_available : BOOLEAN, external_port : Ports,
     external_protocol : Protocols, backend : Backends]
    \cup [type : {"Delete", "Suspend", "Resume"}, uid : Uids]

OpenEvent(p, proto) == [type |-> "Open", port |-> p, protocol |-> proto]
CloseEvent(p) == [type |-> "Close", port |-> p]

PortEvents ==
    {OpenEvent(p, proto) : p \in Ports, proto \in Protocols}
    \cup {CloseEvent(p) : p \in Ports}

\* The sizes are 1024 and at least 1 in the code: mpsc::channel panics on 0.
ASSUME BufferAssumption ==
    /\ EventBufferSize \in Nat \ {0}
    /\ PortBufferSize \in Nat \ {0}

ASSUME InputAssumption == Inputs \subseteq EndpointEvents

\* None is Rust's Option::None: never one of the values it stands beside.
ASSUME NoneAssumption ==
    /\ None \notin Services
    /\ None \notin Endpoints
    /\ None \notin EndpointEvents
    /\ None \notin Protocols
    /\ None \notin Subscribers

-----------------------------------------------------------------------------
VARIABLES
    owned,              \* main (or a test) still holds its Arc<ServiceManager>
    source,             \* per discovery: its task and its Sender<EndpointEvent>
    queue,              \* per discovery: the channel to its listener task
    listener,           \* per discovery: where its listener task stands
    event,              \* per listener: the event it has received
    todo,               \* per listener: PortEvents it still has to send
    port_service_map,   \* per port: its Service, or None
    port_event_sender,  \* the subscriber PortEvents go to, or None
    subscriber,         \* per subscriber: where its task stands
    unsent,             \* per subscriber: open ports not yet sent to it
    channel,            \* per subscriber: its Receiver<PortEvent>'s buffer
    receiving,          \* per subscriber: its Receiver has not been dropped
    view                \* per subscriber: the open ports its reader knows of

listenerVars == <<listener, event, todo>>
subscriberVars == <<subscriber, unsent>>
consumerVars == <<receiving, view>>
vars == <<owned, source, queue, listener, event, todo, port_service_map,
          port_event_sender, subscriber, unsent, channel, receiving, view>>

(***************************************************************************)
(* "absent"        not registered                                          *)
(* "recv"          awaiting receiver.recv()                                *)
(* "lock"          in process_event, awaiting port_service_map.write()     *)
(* "gate"          holding the map, awaiting port_event_sender.read()      *)
(* "send"          holding both, in send_event                             *)
(* "failed"        panicked in send_event: the subscriber is gone          *)
(* "disconnected"  panicked because the discovery dropped its Sender       *)
(* "returned"      ended because the ServiceManager was dropped            *)
(***************************************************************************)
ListenerStates == {"absent", "recv", "lock", "gate", "send",
                   "failed", "disconnected", "returned"}

(***************************************************************************)
(* "idle"    send_port_events_to not called yet                            *)
(* "lock"    task spawned, awaiting port_service_map.read()                *)
(* "sync"    holding the map for reading, sending the open ports           *)
(* "live"    finished: its sender was installed in port_event_sender       *)
(* "failed"  returned early: the Receiver was dropped                      *)
(***************************************************************************)
SubscriberStates == {"idle", "lock", "sync", "live", "failed"}

TypeOK ==
    /\ owned \in BOOLEAN
    /\ source \in [Discoveries -> {"absent", "running", "gone"}]
    /\ queue \in [Discoveries -> Seq(Inputs)]
    /\ \A d \in Discoveries : Len(queue[d]) <= EventBufferSize
    /\ listener \in [Discoveries -> ListenerStates]
    /\ event \in [Discoveries -> Inputs \cup {None}]
    /\ todo \in [Discoveries -> SUBSET PortEvents]
    /\ port_service_map \in [Ports -> Services \cup {None}]
    /\ port_event_sender \in Subscribers \cup {None}
    /\ subscriber \in [Subscribers -> SubscriberStates]
    /\ unsent \in [Subscribers -> SUBSET Ports]
    /\ channel \in [Subscribers -> Seq(PortEvents)]
    /\ \A s \in Subscribers : Len(channel[s]) <= PortBufferSize
    /\ receiving \in [Subscribers -> BOOLEAN]
    /\ view \in [Subscribers -> [Ports -> Protocols \cup {None}]]

-----------------------------------------------------------------------------
(* The locks, the channels and the lifetime of the manager.                *)

\* A listener is inside process_event and has taken the map's write lock.
HoldsMapWrite(d) == listener[d] \in {"gate", "send"}

\* A subscriber is inside the task of send_port_events_to, with the read lock.
HoldsMapRead(s) == subscriber[s] = "sync"

MapReadable == \A d \in Discoveries : ~HoldsMapWrite(d)

MapWritableIgnoringReaders == MapReadable
MapWritable == MapReadable /\ \A s \in Subscribers : ~HoldsMapRead(s)

\* No one holds the read lock of port_event_sender (listeners do in "send").
SenderWritable == \A d \in Discoveries : listener[d] # "send"

ListenerRunning(d) == listener[d] \in {"recv", "lock", "gate", "send"}

\* Weak::upgrade succeeds while a strong reference is left: the owner's, a
\* listener's inside process_event, or a subscriber task's.
ManagerAlive ==
    \/ owned
    \/ \E d \in Discoveries : listener[d] \in {"lock", "gate", "send"}
    \/ \E s \in Subscribers : subscriber[s] \in {"lock", "sync"}

HasRoomForOneMore(s) == Len(channel[s]) <= PortBufferSize
HasRoom(s) == Len(channel[s]) < PortBufferSize

EndpointIdByUidOnly(d, uid) == <<CHOOSE from \in Discoveries : TRUE, uid>>
EndpointId(d, uid) == <<d, uid>>

NoEndpoints == [id \in EndpointIds |-> None]

OpenPortsForgotten == {}
OpenPorts == {p \in Ports : port_service_map[p] # None}

-----------------------------------------------------------------------------
Init ==
    /\ owned = TRUE
    /\ source = [d \in Discoveries |-> "absent"]
    /\ queue = [d \in Discoveries |-> <<>>]
    /\ listener = [d \in Discoveries |-> "absent"]
    /\ event = [d \in Discoveries |-> None]
    /\ todo = [d \in Discoveries |-> {}]
    /\ port_service_map = [p \in Ports |-> None]
    /\ port_event_sender = None
    /\ subscriber = [s \in Subscribers |-> "idle"]
    /\ unsent = [s \in Subscribers |-> {}]
    /\ channel = [s \in Subscribers |-> <<>>]
    /\ receiving = [s \in Subscribers |-> TRUE]
    /\ view = [s \in Subscribers |-> [p \in Ports |-> None]]

(***************************************************************************)
(* register_endpoint_discovery.  Its two mutexes are taken together and    *)
(* nowhere else, so the whole call is one step.  For a name that is        *)
(* already registered the call returns Err and changes nothing; names are  *)
(* never unregistered, not even when the task behind one has died.         *)
(***************************************************************************)
RegisterEndpointDiscovery(d) ==
    /\ owned
    /\ listener[d] = "absent"
    /\ source' = [source EXCEPT ![d] = "running"]
    /\ listener' = [listener EXCEPT ![d] = "recv"]
    /\ UNCHANGED <<owned, queue, event, todo, port_service_map,
                   port_event_sender, subscriberVars, channel, consumerVars>>

(* The last Arc<ServiceManager> outside the manager's own tasks goes away. *)
DropManager ==
    /\ owned
    /\ owned' = FALSE
    /\ UNCHANGED <<source, queue, listenerVars, port_service_map,
                   port_event_sender, subscriberVars, channel, consumerVars>>

-----------------------------------------------------------------------------
(* The discovery task: any implementation of EndpointDiscovery.            *)

DiscoverySends(d, e) ==
    /\ source[d] = "running"
    /\ ListenerRunning(d)
    /\ Len(queue[d]) < EventBufferSize
    /\ queue' = [queue EXCEPT ![d] = Append(@, e)]
    /\ UNCHANGED <<owned, source, listenerVars, port_service_map,
                   port_event_sender, subscriberVars, channel, consumerVars>>

\* It ends: its source failed, or its last send found the channel closed.
DiscoveryEnds(d) ==
    /\ source[d] = "running"
    /\ source' = [source EXCEPT ![d] = "gone"]
    /\ UNCHANGED <<owned, queue, listenerVars, port_service_map,
                   port_event_sender, subscriberVars, channel, consumerVars>>

-----------------------------------------------------------------------------
(* The listener task: listen_for_discovery_events and process_event.       *)

\* recv() yields an event; the upgraded manager handle lives until the event
\* is processed.  Without a manager the task returns, dropping its Receiver.
ReceiveEvent(d) ==
    /\ listener[d] = "recv"
    /\ queue[d] # <<>>
    /\ IF ManagerAlive
       THEN /\ listener' = [listener EXCEPT ![d] = "lock"]
            /\ event' = [event EXCEPT ![d] = Head(queue[d])]
            /\ queue' = [queue EXCEPT ![d] = Tail(@)]
       ELSE /\ listener' = [listener EXCEPT ![d] = "returned"]
            /\ queue' = [queue EXCEPT ![d] = <<>>]
            /\ UNCHANGED event
    /\ UNCHANGED <<owned, source, todo, port_service_map, port_event_sender,
                   subscriberVars, channel, consumerVars>>

ReceiveDisconnectEarly(d) ==
    /\ listener[d] = "recv"
    /\ source[d] = "gone"
    /\ listener' = [listener EXCEPT ![d] = "disconnected"]
    /\ queue' = [queue EXCEPT ![d] = <<>>]
    /\ UNCHANGED <<owned, source, event, todo, port_service_map,
                   port_event_sender, subscriberVars, channel, consumerVars>>

\* recv() yields None: the queue is drained and its Sender is gone.
ReceiveDisconnect(d) ==
    /\ listener[d] = "recv"
    /\ queue[d] = <<>>
    /\ source[d] = "gone"
    /\ listener' = [listener EXCEPT ![d] = "disconnected"]
    /\ UNCHANGED <<owned, source, queue, event, todo, port_service_map,
                   port_event_sender, subscriberVars, channel, consumerVars>>

\* What the branches of process_event share: they run under the write lock,
\* and give it back at once unless PortEvents have to be sent.
Processing(d, type) ==
    /\ listener[d] = "lock"
    /\ event[d].type = type
    /\ MapWritable
    /\ event' = [event EXCEPT ![d] = None]
    /\ UNCHANGED <<owned, source, queue, port_event_sender, subscriberVars,
                   channel, consumerVars>>

ProcessAddAnnouncingTwice(d) ==
    LET e == event[d]
        port == e.external_port
        id == EndpointId(d, e.uid)
        endpoint == [is_available |-> e.is_available, backend |-> e.backend]
        known == port_service_map[port] # None
    IN  /\ Processing(d, "Add")
        /\ port_service_map' = [port_service_map EXCEPT ![port] =
               IF known THEN [@ EXCEPT !.endpoints[id] = endpoint]
               ELSE [protocol  |-> e.external_protocol,
                     endpoints |-> [NoEndpoints EXCEPT ![id] = endpoint]]]
        /\ todo' = [todo EXCEPT ![d] = {OpenEvent(port, e.external_protocol)}]
        /\ listener' = [listener EXCEPT ![d] = "gate"]

(***************************************************************************)
(* EndpointEvent::Add.  The first endpoint of a port creates its service   *)
(* and has the port announced.  A later one joins the service, or replaces *)
(* the endpoint with the same id; its external_protocol is not looked at.  *)
(***************************************************************************)
ProcessAdd(d) ==
    LET e == event[d]
        port == e.external_port
        id == EndpointId(d, e.uid)
        endpoint == [is_available |-> e.is_available, backend |-> e.backend]
    IN  /\ Processing(d, "Add")
        /\ \/ /\ port_service_map[port] = None
              /\ port_service_map' = [port_service_map EXCEPT ![port] =
                     [protocol  |-> e.external_protocol,
                      endpoints |-> [NoEndpoints EXCEPT ![id] = endpoint]]]
              /\ todo' = [todo EXCEPT ![d] =
                     {OpenEvent(port, e.external_protocol)}]
              /\ listener' = [listener EXCEPT ![d] = "gate"]
           \/ /\ port_service_map[port] # None
              /\ port_service_map' =
                     [port_service_map EXCEPT ![port].endpoints[id] = endpoint]
              /\ listener' = [listener EXCEPT ![d] = "recv"]
              /\ UNCHANGED todo

\* The services left without an endpoint by an EndpointEvent::Delete.
EmptiedForgottenPorts(services) == {}
EmptiedPorts(services) ==
    {p \in Ports : services[p] # None /\ services[p].endpoints = NoEndpoints}

(***************************************************************************)
(* EndpointEvent::Delete, up to its await.  The endpoint leaves every      *)
(* service; services_to_delete are all services then without endpoints.    *)
(* They leave the map one by one, each when its Close is sent.             *)
(***************************************************************************)
ProcessDelete(d) ==
    LET id == EndpointId(d, event[d].uid)
        remaining == [p \in Ports |->
            IF port_service_map[p] = None THEN None
            ELSE [port_service_map[p] EXCEPT !.endpoints[id] = None]]
    IN  /\ Processing(d, "Delete")
        /\ port_service_map' = remaining
        /\ todo' = [todo EXCEPT ![d] =
               {CloseEvent(p) : p \in EmptiedPorts(remaining)}]
        /\ listener' = [listener EXCEPT ![d] = "gate"]

\* EndpointEvent::Suspend and ::Resume set the flag in every service.
ProcessAvailability(d, type, is_available) ==
    LET id == EndpointId(d, event[d].uid)
        known(p) == /\ port_service_map[p] # None
                    /\ port_service_map[p].endpoints[id] # None
    IN  /\ Processing(d, type)
        /\ port_service_map' = [p \in Ports |->
               IF known(p)
               THEN [port_service_map[p] EXCEPT
                         !.endpoints[id].is_available = is_available]
               ELSE port_service_map[p]]
        /\ listener' = [listener EXCEPT ![d] = "recv"]
        /\ UNCHANGED todo

ProcessSuspend(d) == ProcessAvailability(d, "Suspend", FALSE)
ProcessResume(d) == ProcessAvailability(d, "Resume", TRUE)

ProcessEvent(d) ==
    \/ ProcessAdd(d)
    \/ ProcessDelete(d)
    \/ ProcessSuspend(d)
    \/ ProcessResume(d)

\* port_event_sender.read() is granted.  A Delete that emptied no service
\* comes this way too, and has nothing to send.
LockSender(d) ==
    /\ listener[d] = "gate"
    /\ listener' = [listener EXCEPT ![d] =
           IF todo[d] = {} THEN "recv" ELSE "send"]
    /\ UNCHANGED <<owned, source, queue, event, todo, port_service_map,
                   port_event_sender, subscriberVars, channel, consumerVars>>

\* The loop over services_to_delete takes a service out of the map before it
\* awaits the sending of its Close.
WithoutService(e) ==
    IF e.type = "Close" THEN [port_service_map EXCEPT ![e.port] = None]
    ELSE port_service_map

ListenerAfterSendingKeepsLocks(d, e) == "send"
ListenerAfterSendingOnce(d, e) == "recv"
ListenerAfterSending(d, e) == IF todo[d] = {e} THEN "recv" ELSE "send"

(***************************************************************************)
(* send_event of one of the PortEvents to send (the order of a HashMap is  *)
(* arbitrary).  It waits for room in the channel, and drops the event when *)
(* no one has subscribed.                                                  *)
(***************************************************************************)
SendPortEvent(d, e) ==
    /\ listener[d] = "send"
    /\ e \in todo[d]
    /\ \/ /\ port_event_sender = None
          /\ UNCHANGED channel
       \/ /\ port_event_sender # None
          /\ receiving[port_event_sender]
          /\ HasRoom(port_event_sender)
          /\ channel' = [channel EXCEPT ![port_event_sender] = Append(@, e)]
    /\ port_service_map' = WithoutService(e)
    /\ todo' = [todo EXCEPT ![d] = @ \ {e}]
    /\ listener' = [listener EXCEPT ![d] = ListenerAfterSending(d, e)]
    /\ UNCHANGED <<owned, source, queue, event, port_event_sender,
                   subscriberVars, consumerVars>>

\* send_event panics when the Receiver is gone.  The listener task dies with
\* what it had left to do; its locks are released and its queue is closed.
SendPortEventFails(d, e) ==
    /\ listener[d] = "send"
    /\ e \in todo[d]
    /\ port_event_sender # None
    /\ ~receiving[port_event_sender]
    /\ port_service_map' = WithoutService(e)
    /\ todo' = [todo EXCEPT ![d] = {}]
    /\ listener' = [listener EXCEPT ![d] = "failed"]
    /\ queue' = [queue EXCEPT ![d] = <<>>]
    /\ UNCHANGED <<owned, source, event, port_event_sender, subscriberVars,
                   channel, consumerVars>>

-----------------------------------------------------------------------------
(* The subscriber task: send_port_events_to.                               *)

SendPortEventsTo(s) ==
    /\ owned
    /\ subscriber[s] = "idle"
    /\ subscriber' = [subscriber EXCEPT ![s] = "lock"]
    /\ UNCHANGED <<owned, source, queue, listenerVars, port_service_map,
                   port_event_sender, unsent, channel, consumerVars>>

LockMapForReading(s) ==
    /\ subscriber[s] = "lock"
    /\ MapReadable
    /\ subscriber' = [subscriber EXCEPT ![s] = "sync"]
    /\ unsent' = [unsent EXCEPT ![s] = OpenPorts]
    /\ UNCHANGED <<owned, source, queue, listenerVars, port_service_map,
                   port_event_sender, channel, consumerVars>>

SendOpenPort(s, p) ==
    /\ subscriber[s] = "sync"
    /\ p \in unsent[s]
    /\ receiving[s]
    /\ HasRoom(s)
    /\ channel' = [channel EXCEPT ![s] =
           Append(@, OpenEvent(p, port_service_map[p].protocol))]
    /\ unsent' = [unsent EXCEPT ![s] = @ \ {p}]
    /\ UNCHANGED <<owned, source, queue, listenerVars, port_service_map,
                   port_event_sender, subscriber, consumerVars>>

\* The send fails: the task returns without installing the sender.
SendOpenPortFails(s) ==
    /\ subscriber[s] = "sync"
    /\ unsent[s] # {}
    /\ ~receiving[s]
    /\ subscriber' = [subscriber EXCEPT ![s] = "failed"]
    /\ unsent' = [unsent EXCEPT ![s] = {}]
    /\ UNCHANGED <<owned, source, queue, listenerVars, port_service_map,
                   port_event_sender, channel, consumerVars>>

\* *port_event_sender.write().await = Some(..), with the map still locked.  A
\* sender installed earlier is dropped, which ends that subscriber's stream.
InstallSender(s) ==
    /\ subscriber[s] = "sync"
    /\ unsent[s] = {}
    /\ SenderWritable
    /\ port_event_sender' = s
    /\ subscriber' = [subscriber EXCEPT ![s] = "live"]
    /\ UNCHANGED <<owned, source, queue, listenerVars, port_service_map,
                   unsent, channel, consumerVars>>

-----------------------------------------------------------------------------
(* The reader of the PortEvents, outside the manager.                      *)

Effect(e) == IF e.type = "Open" THEN e.protocol ELSE None

ReceivePortEvent(s) ==
    /\ receiving[s]
    /\ channel[s] # <<>>
    /\ LET e == Head(channel[s])
       IN  view' = [view EXCEPT ![s][e.port] = Effect(e)]
    /\ channel' = [channel EXCEPT ![s] = Tail(@)]
    /\ UNCHANGED <<owned, source, queue, listenerVars, port_service_map,
                   port_event_sender, subscriberVars, receiving>>

DropReceiver(s) ==
    /\ receiving[s]
    /\ subscriber[s] # "idle"
    /\ receiving' = [receiving EXCEPT ![s] = FALSE]
    /\ channel' = [channel EXCEPT ![s] = <<>>]
    /\ UNCHANGED <<owned, source, queue, listenerVars, port_service_map,
                   port_event_sender, subscriberVars, view>>

-----------------------------------------------------------------------------
Discovery(d) ==
    \/ RegisterEndpointDiscovery(d)
    \/ \E e \in Inputs : DiscoverySends(d, e)
    \/ DiscoveryEnds(d)

Listener(d) ==
    \/ ReceiveEvent(d)
    \/ ReceiveDisconnect(d)
    \/ ProcessEvent(d)
    \/ LockSender(d)
    \/ \E e \in todo[d] : SendPortEvent(d, e) \/ SendPortEventFails(d, e)

Subscriber(s) ==
    \/ SendPortEventsTo(s)
    \/ LockMapForReading(s)
    \/ \E p \in Ports : SendOpenPort(s, p)
    \/ SendOpenPortFails(s)
    \/ InstallSender(s)

Reader(s) == ReceivePortEvent(s) \/ DropReceiver(s)

Next ==
    \/ DropManager
    \/ \E d \in Discoveries : Discovery(d) \/ Listener(d)
    \/ \E s \in Subscribers : Subscriber(s) \/ Reader(s)

Spec == Init /\ [][Next]_vars

(***************************************************************************)
(* Every spawned task keeps running and the reader keeps reading until it  *)
(* drops its Receiver.  Tokio hands a RwLock to its waiters in the order   *)
(* they asked for it, so a task that waits for the contended map lock gets *)
(* it although others take it in between: hence strong fairness there.     *)
(***************************************************************************)
Fairness ==
    /\ \A d \in Discoveries :
           /\ WF_vars(ReceiveEvent(d))
           /\ SF_vars(ProcessEvent(d))
           /\ WF_vars(LockSender(d))
           /\ WF_vars(\E e \in PortEvents :
                          SendPortEvent(d, e) \/ SendPortEventFails(d, e))
    /\ \A s \in Subscribers :
           /\ SF_vars(LockMapForReading(s))
           /\ WF_vars(\E p \in Ports : SendOpenPort(s, p))
           /\ WF_vars(SendOpenPortFails(s))
           /\ WF_vars(InstallSender(s))
           /\ WF_vars(ReceivePortEvent(s))

FairSpec == Spec /\ Fairness

-----------------------------------------------------------------------------
(* What the subscribers are told about the ports.                          *)

\* Positions in a channel of the PortEvents about port p.
About(ch, p) == {i \in DOMAIN ch : ch[i].port = p}

\* A reader that knows vw holds v of port p once it has read all of ch.
WillKnow(ch, vw, p, v) ==
    /\ About(ch, p) = {} => vw[p] = v
    /\ \A i \in About(ch, p) :
           (\A j \in About(ch, p) : j <= i) => Effect(ch[i]) = v

\* For a reader that knows vw, the events of ch open and close p in turn.
Alternates(ch, vw, p) ==
    \A i \in About(ch, p) :
        /\ (\A j \in About(ch, p) : i <= j) =>
               (ch[i].type = "Open" <=> vw[p] = None)
        /\ \A j \in About(ch, p) :
               i < j /\ (\A k \in About(ch, p) : k <= i \/ j <= k) =>
                   ch[i].type # ch[j].type

\* A listener has put p into the map and not yet sent its Open.
AwaitsOpen(p) ==
    \E d \in Discoveries : \E e \in todo[d] : e.type = "Open" /\ e.port = p

ServedProtocol(p) ==
    IF port_service_map[p] = None THEN None ELSE port_service_map[p].protocol

Announced(p) == IF AwaitsOpen(p) THEN None ELSE ServedProtocol(p)

(***************************************************************************)
(* FeedAccurate.  The installed subscriber, once it has read what is in    *)
(* its channel, knows exactly the ports that are served, each with its     *)
(* protocol, except for those whose PortEvent a listener is just sending:  *)
(* between sending the open ports and installing the sender,               *)
(* send_port_events_to misses no change and reports none twice, and        *)
(* process_event never lets the map and the feed drift apart.              *)
(***************************************************************************)
FeedAccurate ==
    \A s \in Subscribers :
        port_event_sender = s /\ receiving[s] =>
            \A p \in Ports : WillKnow(channel[s], view[s], p, Announced(p))

(***************************************************************************)
(* FeedAlternates.  No subscriber is told to open a port it has open, or   *)
(* to close one it has not: the matchmaker asserts so on every Open        *)
(* (matchmaking/mod.rs, handle_port_event).                                *)
(***************************************************************************)
FeedAlternates ==
    \A s \in Subscribers, p \in Ports : Alternates(channel[s], view[s], p)

-----------------------------------------------------------------------------
(* The table of services.                                                  *)

(***************************************************************************)
(* NoEmptyService.  A service without endpoints stays in the map only      *)
(* while a listener is on its way to close it, or after one died doing so. *)
(* get_endpoint_for divides by the number of endpoints.                    *)
(***************************************************************************)
NoEmptyService ==
    \A p \in OpenPorts :
        port_service_map[p].endpoints = NoEndpoints =>
            \E d \in Discoveries :
                CloseEvent(p) \in todo[d] \/ listener[d] = "failed"

(***************************************************************************)
(* AddSetsProtocol.  A processed Add leaves its port served with "The      *)
(* protocol that external clients connect through to reach this endpoint"  *)
(* (EndpointEvent::Add, external_protocol, backend/endpoint.rs).           *)
(***************************************************************************)
AddSetsProtocol ==
    [][\A d \in Discoveries : ProcessAdd(d) =>
           port_service_map'[event[d].external_port].protocol
               = event[d].external_protocol]_vars

EndpointAt(p, id) ==
    IF port_service_map[p] = None THEN None
    ELSE port_service_map[p].endpoints[id]

(***************************************************************************)
(* DiscoveryIsolation.  An endpoint appears, changes or disappears only in *)
(* a step of the listener of the discovery that reported it, although      *)
(* discoveries share ports and may use equal uids, and although any        *)
(* listener's Delete may remove a whole service (EndpointId, process_event).*)
(***************************************************************************)
DiscoveryIsolation ==
    [][\A d \in Discoveries : listener'[d] = listener[d] =>
           \A p \in Ports, u \in Uids :
               EndpointAt(p, <<d, u>>)' = EndpointAt(p, <<d, u>>)]_vars

-----------------------------------------------------------------------------
(* What the safety properties rest on: their inductive invariant.          *)

\* The map's lock: one writer, or any number of readers.
LocksExclusive ==
    /\ \A d, e \in Discoveries : HoldsMapWrite(d) /\ HoldsMapWrite(e) => d = e
    /\ \A d \in Discoveries, s \in Subscribers :
           ~(HoldsMapWrite(d) /\ HoldsMapRead(s))

\* A listener has an event to process, and PortEvents to send only under the
\* lock.  They are one Open of a service in the map, or Closes of services in
\* the map that have no endpoint left.
ListenersOK ==
    \A d \in Discoveries :
        /\ listener[d] = "lock" => event[d] # None
        /\ todo[d] # {} => HoldsMapWrite(d)
        /\ \A x \in todo[d] :
               /\ port_service_map[x.port] # None
               /\ x.type = "Open" =>
                      /\ todo[d] = {x}
                      /\ port_service_map[x.port].protocol = x.protocol
               /\ x.type = "Close" =>
                      port_service_map[x.port].endpoints = NoEndpoints

\* A subscriber that holds the map will know the open ports it has been sent.
SubscribersOK ==
    \A s \in Subscribers :
        /\ unsent[s] # {} => HoldsMapRead(s)
        /\ unsent[s] \subseteq OpenPorts
        /\ port_event_sender = s => subscriber[s] = "live"
        /\ subscriber[s] \in {"idle", "lock"} =>
               channel[s] = <<>> /\ view[s] = [p \in Ports |-> None]
        /\ HoldsMapRead(s) /\ receiving[s] =>
               \A p \in Ports : WillKnow(channel[s], view[s], p,
                   IF p \in unsent[s] THEN None ELSE ServedProtocol(p))

(***************************************************************************)
(* FeedInv.  The locks exclude each other, a listener's pending PortEvents *)
(* agree with the map it holds, and a subscriber that is being brought up  *)
(* to date knows the map it holds but for the ports it is yet to be sent.  *)
(***************************************************************************)
FeedInv ==
    /\ LocksExclusive
    /\ ListenersOK
    /\ SubscribersOK

IInv == TypeOK /\ FeedInv /\ FeedAccurate /\ FeedAlternates /\ NoEmptyService

-----------------------------------------------------------------------------
(* Progress.                                                               *)

(***************************************************************************)
(* EventsProcessed.  A listener that waits for the map gets through        *)
(* process_event: the two locks, taken in the order map then sender by     *)
(* listeners and subscribers alike, never leave everyone waiting, not even *)
(* when the subscriber's channel is full or its reader goes away.          *)
(***************************************************************************)
EventsProcessed ==
    \A d \in Discoveries :
        listener[d] = "lock" ~> listener[d] \in {"recv", "failed"}

(***************************************************************************)
(* SubscriptionCompletes.  A call of send_port_events_to ends with its     *)
(* sender installed, or gives up because the Receiver was dropped, however *)
(* many listeners want the map and the sender at the same time.            *)
(***************************************************************************)
SubscriptionCompletes ==
    \A s \in Subscribers :
        subscriber[s] = "lock" ~> subscriber[s] \in {"live", "failed"}

(***************************************************************************)
(* FeedCatchesUp.  If from some point on s is the installed subscriber and *)
(* port p is steadily served with protocol v, or steadily not served, its  *)
(* reader comes to know so and stays with it.                              *)
(***************************************************************************)
FeedCatchesUp ==
    \A s \in Subscribers, p \in Ports, v \in Protocols \cup {None} :
        <>[](port_event_sender = s /\ receiving[s] /\ ServedProtocol(p) = v)
            => <>[](view[s][p] = v)

=============================================================================
