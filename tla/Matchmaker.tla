----------------------------- MODULE Matchmaker -----------------------------
(***************************************************************************)
(* The Matchmaker (src/src/matchmaking/mod.rs) as the reader of a          *)
(* ServiceManager's PortEvents: it has a registered ProtocolServer listen  *)
(* on every port that is opened.  The manager is the one of PortFeed.      *)
(*                                                                         *)
(* A handler reads locks that no one holds for longer than a step, so it   *)
(* is one step.  ProtocolServers are external: of each call of listen and  *)
(* mute only its effect on listening is kept.  What becomes of the         *)
(* connections to a port is the subject of EndpointSelection.              *)
(***************************************************************************)
EXTENDS PortFeed

CONSTANT Me    \* the subscription that Matchmaker::run makes

ASSUME MeAssumption == Me \in Subscribers

VARIABLES
    state,             \* "new", then "running" in run, or "panicked" there
    protocol_clients,  \* protocols with a registered ProtocolClient
    protocol_servers,  \* protocols with a registered ProtocolServer
    open_ports,        \* per port: its server's protocol, or None
    listening          \* <<port, protocol>>: that server listens on the port

registryVars == <<protocol_clients, protocol_servers>>
vars == <<feedVars, state, registryVars, open_ports, listening>>

TypeOK ==
    /\ FeedTypeOK
    /\ state \in {"new", "running", "panicked"}
    /\ protocol_clients \subseteq Protocols
    /\ protocol_servers \subseteq Protocols
    /\ open_ports \in [Ports -> Protocols \cup {None}]
    /\ listening \subseteq Ports \X Protocols

Init ==
    /\ FeedInit
    /\ state = "new"
    /\ protocol_clients = {}
    /\ protocol_servers = {}
    /\ open_ports = [p \in Ports |-> None]
    /\ listening = {}

\* A second registration for a protocol returns Err and changes nothing.
RegisterClient(q) ==
    /\ q \notin protocol_clients
    /\ protocol_clients' = protocol_clients \cup {q}
    /\ UNCHANGED <<feedVars, state, protocol_servers, open_ports, listening>>

RegisterServer(q) ==
    /\ q \notin protocol_servers
    /\ protocol_servers' = protocol_servers \cup {q}
    /\ UNCHANGED <<feedVars, state, protocol_clients, open_ports, listening>>

\* run calls send_port_events_to and enters its loop.
Run ==
    /\ state = "new"
    /\ state' = "running"
    /\ UNCHANGED <<feedVars, registryVars, open_ports, listening>>

-----------------------------------------------------------------------------
Event == Head(channel[Me])

Receives(type) ==
    /\ state = "running"
    /\ channel[Me] # <<>>
    /\ Event.type = type

\* The protocol is known, and the assertion on open_ports holds.
CanListen ==
    /\ Event.protocol \in protocol_servers
    /\ open_ports[Event.port] = None

HandleOpenAnyway ==
    /\ Receives("Open")
    /\ Read(Me)
    /\ listening' = IF Event.protocol \in protocol_servers
                    THEN listening \cup {<<Event.port, Event.protocol>>}
                    ELSE listening
    /\ UNCHANGED <<state, registryVars, open_ports>>

\* listen is called, and the port is not put into open_ports.
HandleOpen ==
    /\ Receives("Open")
    /\ CanListen
    /\ Read(Me)
    /\ listening' = listening \cup {<<Event.port, Event.protocol>>}
    /\ UNCHANGED <<state, registryVars, open_ports>>

\* A panic ends run and drops its Receiver.
Panic ==
    /\ state' = "panicked"
    /\ GoAway(Me)
    /\ UNCHANGED <<registryVars, open_ports, listening>>

\* The unwrap of the error for an unknown protocol, or the assertion.
HandleOpenPanics ==
    /\ Receives("Open")
    /\ ~CanListen
    /\ Panic

HandleClose ==
    /\ Receives("Close")
    /\ Read(Me)
    /\ listening' = listening \ {<<Event.port, open_ports[Event.port]>>}
    /\ open_ports' = [open_ports EXCEPT ![Event.port] = None]
    /\ UNCHANGED <<state, registryVars>>

\* recv() yields None: another subscription has replaced this one.
ChannelClosed ==
    /\ state = "running"
    /\ channel[Me] = <<>>
    /\ phase[Me] = "over"
    /\ Panic

HandlePortEvent == HandleOpen \/ HandleOpenPanics \/ HandleClose

-----------------------------------------------------------------------------
\* The manager starts to serve this subscription only after run asked for it.
Manager ==
    /\ Feed
    /\ state = "new" => phase'[Me] = "off"
    /\ UNCHANGED <<state, registryVars, open_ports, listening>>

OtherReader(s) ==
    /\ Read(s) \/ GoAway(s)
    /\ UNCHANGED <<state, registryVars, open_ports, listening>>

Next ==
    \/ Manager
    \/ \E s \in Subscribers \ {Me} : OtherReader(s)
    \/ \E q \in Protocols : RegisterClient(q) \/ RegisterServer(q)
    \/ Run
    \/ HandlePortEvent
    \/ ChannelClosed

Spec == Init /\ [][Next]_vars

\* The task of run keeps running.
FairSpec == Spec /\ WF_vars(HandlePortEvent)

-----------------------------------------------------------------------------
(***************************************************************************)
(* ServedPortsListen.  When the matchmaker's subscription is live and its  *)
(* channel is empty, a server listens on every port that is served, with   *)
(* the protocol of its service, whatever came, went and came back while it *)
(* was catching up (run, handle_port_event).                               *)
(***************************************************************************)
ServedPortsListen ==
    state = "running" /\ phase[Me] = "live" /\ channel[Me] = <<>> =>
        \A p \in Ports : served[p] # None => <<p, served[p]>> \in listening

(***************************************************************************)
(* ListensEventually.  A port that is served from some point on, while the *)
(* matchmaker runs with a live subscription, is eventually listened on, no *)
(* matter how often other ports come and go (run).                         *)
(***************************************************************************)
ListensEventually ==
    \A p \in Ports, v \in Protocols :
        <>[](served[p] = v /\ state = "running" /\ phase[Me] = "live")
            => <>[](<<p, v>> \in listening)

(***************************************************************************)
(* ClosedPortsMuted.  No server listens on a port after its PortEvent::    *)
(* Close was handled: "A notification that the proxy listen on or close a  *)
(* specified port." (PortEvent, backend/mod.rs).                           *)
(***************************************************************************)
ClosedPortsMuted ==
    \A p \in Ports : view[Me][p] = None =>
        \A q \in Protocols : <<p, q>> \notin listening

=============================================================================
