------------------------ MODULE ServiceManagerProofs ------------------------
(***************************************************************************)
(* Proofs about ServiceManager, for any discoveries, ports, subscribers,   *)
(* events and buffer sizes.                                                *)
(***************************************************************************)
EXTENDS ServiceManager, Integers, TLAPS

-----------------------------------------------------------------------------
(* Facts about the data.                                                   *)

\* What a PortEvent consists of and what it tells its reader.
LEMMA PortEventFacts ==
    ASSUME NEW e \in PortEvents
    PROVE  /\ e.port \in Ports
           /\ e.type \in {"Open", "Close"}
           /\ e.type = "Open" =>
                  e.protocol \in Protocols /\ e = OpenEvent(e.port, e.protocol)
           /\ e.type = "Close" => e = CloseEvent(e.port)
           /\ Effect(e) \in Protocols \cup {None}
           /\ Effect(e) = None <=> e.type = "Close"
BY NoneAssumption DEF PortEvents, OpenEvent, CloseEvent, Effect

\* The two PortEvents a listener builds.
LEMMA PortEventTypes ==
    ASSUME NEW p \in Ports, NEW proto \in Protocols
    PROVE  /\ OpenEvent(p, proto) \in PortEvents
           /\ CloseEvent(p) \in PortEvents
           /\ OpenEvent(p, proto).port = p
           /\ OpenEvent(p, proto).type = "Open"
           /\ OpenEvent(p, proto).protocol = proto
           /\ CloseEvent(p).port = p
           /\ CloseEvent(p).type = "Close"
BY DEF PortEvents, OpenEvent, CloseEvent

\* What an EndpointEvent consists of.
LEMMA EndpointEventFacts ==
    ASSUME NEW e \in Inputs
    PROVE  /\ e # None
           /\ e.uid \in Uids
           /\ e.type = "Add" =>
                  /\ e.external_port \in Ports
                  /\ e.external_protocol \in Protocols
                  /\ e.is_available \in BOOLEAN
                  /\ e.backend \in Backends
BY InputAssumption, NoneAssumption DEF EndpointEvents

\* A service is a protocol and a table of endpoints.
LEMMA ServiceFacts ==
    ASSUME NEW svc \in Services
    PROVE  /\ svc # None
           /\ svc.protocol \in Protocols
           /\ svc.endpoints \in [EndpointIds -> Endpoints \cup {None}]
           /\ svc = [protocol |-> svc.protocol, endpoints |-> svc.endpoints]
BY NoneAssumption DEF Services

\* Replacing one endpoint of a service leaves a service of that protocol.
LEMMA ServiceWith ==
    ASSUME NEW svc \in Services, NEW id \in EndpointIds,
           NEW x \in Endpoints \cup {None}
    PROVE  /\ [svc EXCEPT !.endpoints[id] = x] \in Services
           /\ [svc EXCEPT !.endpoints[id] = x].protocol = svc.protocol
           /\ [svc EXCEPT !.endpoints[id] = x].endpoints
                  = [svc.endpoints EXCEPT ![id] = x]
BY DEF Services

-----------------------------------------------------------------------------
(* Facts about channels.                                                   *)

\* After an event is appended, the reader will know what it says of its port.
LEMMA KnowAppended ==
    ASSUME NEW ch \in Seq(PortEvents), NEW e \in PortEvents, NEW vw
    PROVE  WillKnow(Append(ch, e), vw, e.port, Effect(e))
<1> DEFINE new == Append(ch, e)
           n == Len(ch) + 1
<1>1. /\ new \in Seq(PortEvents) /\ Len(new) = n /\ n \in Nat
      /\ DOMAIN new = 1..n /\ new[n] = e
  OBVIOUS
<1>2. n \in About(new, e.port)
  BY <1>1 DEF About
<1>3. ASSUME NEW i \in About(new, e.port),
             \A j \in About(new, e.port) : j <= i
      PROVE  i = n
  BY <1>1, <1>2, <1>3 DEF About
<1> QED
  BY <1>1, <1>2, <1>3 DEF WillKnow

\* It changes nothing about the other ports.
LEMMA KnowOthers ==
    ASSUME NEW ch \in Seq(PortEvents), NEW e \in PortEvents, NEW vw,
           NEW p \in Ports, NEW v, p # e.port, WillKnow(ch, vw, p, v)
    PROVE  WillKnow(Append(ch, e), vw, p, v)
<1> DEFINE new == Append(ch, e)
           n == Len(ch) + 1
<1>1. /\ new \in Seq(PortEvents) /\ Len(new) = n /\ n \in Nat
      /\ DOMAIN new = 1..n /\ new[n] = e /\ DOMAIN ch = 1..(n - 1)
      /\ \A i \in 1..(n - 1) : new[i] = ch[i]
  OBVIOUS
<1>2. About(new, p) = About(ch, p)
  BY <1>1 DEF About
<1>3. \A i \in About(ch, p) : new[i] = ch[i]
  BY <1>1 DEF About
<1> QED
  BY <1>2, <1>3 DEF WillKnow

\* An Open of a port the reader will not have, or a Close of one it will have,
\* keeps the events alternating.
LEMMA AlternatesAppended ==
    ASSUME NEW ch \in Seq(PortEvents), NEW e \in PortEvents, NEW vw,
           NEW p \in Ports, Alternates(ch, vw, p),
           NEW v, p = e.port => /\ WillKnow(ch, vw, p, v)
                                /\ e.type = "Open" <=> v = None
    PROVE  Alternates(Append(ch, e), vw, p)
<1> DEFINE new == Append(ch, e)
           n == Len(ch) + 1
<1>1. /\ new \in Seq(PortEvents) /\ Len(new) = n /\ n \in Nat
      /\ DOMAIN new = 1..n /\ new[n] = e /\ DOMAIN ch = 1..(n - 1)
      /\ \A i \in 1..(n - 1) : new[i] = ch[i]
  OBVIOUS
<1>2. \A i \in About(ch, p) : new[i] = ch[i] /\ i \in Int /\ i < n
  BY <1>1 DEF About
<1>3. CASE p # e.port
  <2>1. About(new, p) = About(ch, p)
    BY <1>1, <1>3 DEF About
  <2>2. ASSUME NEW i \in About(ch, p)
        PROVE  /\ (\A j \in About(ch, p) : i <= j) =>
                      (new[i].type = "Open" <=> vw[p] = None)
               /\ \A j \in About(ch, p) :
                      i < j /\ (\A k \in About(ch, p) : k <= i \/ j <= k) =>
                          new[i].type # new[j].type
    BY <1>2, Zenon DEF Alternates
  <2> QED
    BY <2>1, <2>2, Zenon DEF Alternates
<1>4. CASE p = e.port
  <2>1. About(new, p) = About(ch, p) \cup {n}
    BY <1>1, <1>4 DEF About
  <2>2. e.type \in {"Open", "Close"}
    BY PortEventFacts
  <2>3. ASSUME NEW i \in About(new, p), \A j \in About(new, p) : i <= j
        PROVE  new[i].type = "Open" <=> vw[p] = None
    <3>1. CASE i = n
      <4>1. About(ch, p) = {}
        <5> SUFFICES ASSUME NEW j \in About(ch, p)
                     PROVE  FALSE
          OBVIOUS
        <5>1. n <= j
          BY <2>1, <2>3, <3>1
        <5> QED
          BY <1>1, <1>2, <5>1
      <4> QED
        BY <1>1, <1>4, <3>1, <4>1 DEF WillKnow
    <3>2. CASE i # n
      <4>1. i \in About(ch, p) /\ \A j \in About(ch, p) : i <= j
        BY <2>1, <2>3, <3>2
      <4> QED
        BY <1>2, <4>1 DEF Alternates
    <3> QED
      BY <3>1, <3>2
  <2>4. ASSUME NEW i \in About(new, p), NEW j \in About(new, p),
               i < j, \A k \in About(new, p) : k <= i \/ j <= k
        PROVE  new[i].type # new[j].type
    <3>1. i \in About(ch, p)
      BY <1>1, <1>2, <2>1, <2>4
    <3>2. CASE j = n
      <4>1. \A k \in About(ch, p) : k <= i
        BY <1>1, <1>2, <2>1, <2>4, <3>1, <3>2
      <4>2. Effect(ch[i]) = v
        BY <1>4, <3>1, <4>1 DEF WillKnow
      <4>3. ch[i] \in PortEvents
        BY <3>1 DEF About
      <4>4. ch[i].type = "Close" <=> v = None
        BY <4>2, <4>3, PortEventFacts
      <4>5. ch[i].type \in {"Open", "Close"}
        BY <4>3, PortEventFacts
      <4> QED
        BY <1>1, <1>2, <1>4, <2>2, <3>1, <3>2, <4>4, <4>5
    <3>3. CASE j # n
      <4>1. j \in About(ch, p) /\ \A k \in About(ch, p) : k <= i \/ j <= k
        BY <2>1, <2>4, <3>3
      <4> QED
        BY <1>2, <2>4, <3>1, <4>1 DEF Alternates
    <3> QED
      BY <3>2, <3>3
  <2> QED
    BY <2>3, <2>4 DEF Alternates
<1> QED
  BY <1>3, <1>4

\* Reading an event moves what it says from the channel to the reader.
LEMMA ReadOne ==
    ASSUME NEW ch \in Seq(PortEvents), ch # <<>>,
           NEW vw \in [Ports -> Protocols \cup {None}], NEW p \in Ports
    PROVE  LET e == Head(ch)
               read == [vw EXCEPT ![e.port] = Effect(e)]
           IN  /\ \A v : WillKnow(ch, vw, p, v) => WillKnow(Tail(ch), read, p, v)
               /\ Alternates(ch, vw, p) => Alternates(Tail(ch), read, p)
<1> DEFINE e == Head(ch)
           read == [vw EXCEPT ![e.port] = Effect(e)]
           new == Tail(ch)
           n == Len(ch)
<1>1. /\ new \in Seq(PortEvents) /\ Len(new) = n - 1 /\ n \in Nat /\ n >= 1
      /\ DOMAIN new = 1..(n - 1) /\ ch[1] = e /\ DOMAIN ch = 1..n
      /\ \A i \in 1..(n - 1) : new[i] = ch[i + 1]
      /\ e \in PortEvents
  OBVIOUS
<1>2. \A i \in About(new, p) :
          /\ i \in Int /\ i >= 1
          /\ i + 1 \in About(ch, p) /\ new[i] = ch[i + 1]
  BY <1>1 DEF About
<1>3. \A i \in About(ch, p) :
          /\ i \in Int /\ i >= 1
          /\ i # 1 => i - 1 \in About(new, p)
  BY <1>1 DEF About
<1>4. 1 \in About(ch, p) <=> p = e.port
  BY <1>1 DEF About
<1>5. read[p] = IF p = e.port THEN Effect(e) ELSE vw[p]
  OBVIOUS
<1>6. ASSUME NEW v, WillKnow(ch, vw, p, v)
      PROVE  WillKnow(new, read, p, v)
  <2>1. ASSUME About(new, p) = {}
        PROVE  read[p] = v
    <3>1. CASE p = e.port
      <4>1. \A j \in About(ch, p) : j <= 1
        BY <1>3, <2>1
      <4>2. Effect(ch[1]) = v
        BY <1>4, <1>6, <3>1, <4>1 DEF WillKnow
      <4> QED
        BY <1>1, <1>5, <3>1, <4>2
    <3>2. CASE p # e.port
      <4>1. About(ch, p) = {}
        BY <1>3, <1>4, <2>1, <3>2
      <4> QED
        BY <1>5, <1>6, <3>2, <4>1 DEF WillKnow
    <3> QED
      BY <3>1, <3>2
  <2>2. ASSUME NEW i \in About(new, p), \A j \in About(new, p) : j <= i
        PROVE  Effect(new[i]) = v
    <3>1. \A j \in About(ch, p) : j <= i + 1
      <4> SUFFICES ASSUME NEW j \in About(ch, p)
                   PROVE  j <= i + 1
        OBVIOUS
      <4>1. CASE j = 1
        BY <1>2, <4>1
      <4>2. CASE j # 1
        <5>1. j - 1 <= i
          BY <1>3, <2>2, <4>2
        <5> QED
          BY <1>2, <1>3, <5>1
      <4> QED
        BY <4>1, <4>2
    <3> QED
      BY <1>2, <1>6, <3>1 DEF WillKnow
  <2> QED
    BY <2>1, <2>2 DEF WillKnow
<1>7. ASSUME Alternates(ch, vw, p)
      PROVE  Alternates(new, read, p)
  <2>1. ASSUME NEW i \in About(new, p), \A j \in About(new, p) : i <= j
        PROVE  new[i].type = "Open" <=> read[p] = None
    <3>1. \A k \in About(ch, p) : k = 1 \/ i + 1 <= k
      <4> SUFFICES ASSUME NEW k \in About(ch, p), k # 1
                   PROVE  i + 1 <= k
        OBVIOUS
      <4>1. i <= k - 1
        BY <1>3, <2>1
      <4> QED
        BY <1>2, <1>3, <4>1
    <3>2. CASE p = e.port
      <4>1. ch[1].type # ch[i + 1].type
        <5>1. 1 \in About(ch, p) /\ i + 1 \in About(ch, p) /\ 1 < i + 1
          BY <1>2, <1>4, <3>2
        <5>2. \A k \in About(ch, p) : k <= 1 \/ i + 1 <= k
          BY <3>1
        <5> QED
          BY <1>7, <5>1, <5>2 DEF Alternates
      <4>2. ch[i + 1] \in PortEvents
        BY <1>2 DEF About
      <4>3. /\ ch[i + 1].type \in {"Open", "Close"}
            /\ e.type \in {"Open", "Close"}
            /\ Effect(e) = None <=> e.type = "Close"
        BY <1>1, <4>2, PortEventFacts
      <4> QED
        BY <1>1, <1>2, <1>5, <3>2, <4>1, <4>3
    <3>3. CASE p # e.port
      <4>1. i + 1 \in About(ch, p) /\ \A k \in About(ch, p) : i + 1 <= k
        BY <1>2, <1>4, <3>1, <3>3
      <4> QED
        BY <1>2, <1>5, <1>7, <3>3, <4>1 DEF Alternates
    <3> QED
      BY <3>2, <3>3
  <2>2. ASSUME NEW i \in About(new, p), NEW j \in About(new, p),
               i < j, \A k \in About(new, p) : k <= i \/ j <= k
        PROVE  new[i].type # new[j].type
    <3>1. i + 1 \in About(ch, p) /\ j + 1 \in About(ch, p) /\ i + 1 < j + 1
      BY <1>2, <2>2
    <3>2. \A k \in About(ch, p) : k <= i + 1 \/ j + 1 <= k
      <4> SUFFICES ASSUME NEW k \in About(ch, p), k # 1
                   PROVE  k <= i + 1 \/ j + 1 <= k
        BY <1>2
      <4>1. k - 1 <= i \/ j <= k - 1
        BY <1>3, <2>2
      <4> QED
        BY <1>2, <1>3, <4>1
    <3>3. ch[i + 1].type # ch[j + 1].type
      BY <1>7, <3>1, <3>2, Zenon DEF Alternates
    <3> QED
      BY <1>2, <3>3
  <2> QED
    BY <2>1, <2>2 DEF Alternates
<1> QED
  BY <1>6, <1>7

-----------------------------------------------------------------------------
(* Type correctness.                                                       *)

\* Each action preserves the types; process_event does so because a listener
\* that waits for the map has an event, send_port_events_to because the ports
\* it has to send are open.
LEMMA TypeStep ==
    ASSUME TypeOK, ListenersOK, SubscribersOK, [Next]_vars
    PROVE  TypeOK'
<1> USE DEF TypeOK, listenerVars, subscriberVars, consumerVars
<1>1. CASE DropManager
  BY <1>1 DEF DropManager
<1>2. ASSUME NEW d \in Discoveries, RegisterEndpointDiscovery(d)
      PROVE  TypeOK'
  BY <1>2 DEF RegisterEndpointDiscovery, ListenerStates
<1>3. ASSUME NEW d \in Discoveries, NEW e \in Inputs, DiscoverySends(d, e)
      PROVE  TypeOK'
  BY <1>3, BufferAssumption DEF DiscoverySends
<1>4. ASSUME NEW d \in Discoveries, DiscoveryEnds(d)
      PROVE  TypeOK'
  BY <1>4 DEF DiscoveryEnds
<1>5. ASSUME NEW d \in Discoveries, ReceiveEvent(d)
      PROVE  TypeOK'
  <2>1. CASE ManagerAlive
    <3>1. /\ queue[d] \in Seq(Inputs) /\ queue[d] # <<>>
          /\ Head(queue[d]) \in Inputs /\ Tail(queue[d]) \in Seq(Inputs)
          /\ Len(Tail(queue[d])) <= EventBufferSize
      BY <1>5, BufferAssumption DEF ReceiveEvent
    <3>2. /\ queue' \in [Discoveries -> Seq(Inputs)]
          /\ \A x \in Discoveries : Len(queue'[x]) <= EventBufferSize
      BY <1>5, <2>1, <3>1 DEF ReceiveEvent
    <3> QED
      BY <1>5, <2>1, <3>1, <3>2 DEF ReceiveEvent, ListenerStates
  <2>2. CASE ~ManagerAlive
    <3>1. Len(<<>>) <= EventBufferSize /\ <<>> \in Seq(Inputs)
      BY BufferAssumption
    <3>2. /\ queue' \in [Discoveries -> Seq(Inputs)]
          /\ \A x \in Discoveries : Len(queue'[x]) <= EventBufferSize
      BY <1>5, <2>2, <3>1 DEF ReceiveEvent
    <3> QED
      BY <1>5, <2>2, <3>2 DEF ReceiveEvent, ListenerStates
  <2> QED
    BY <2>1, <2>2
<1>6. ASSUME NEW d \in Discoveries, ReceiveDisconnect(d)
      PROVE  TypeOK'
  BY <1>6 DEF ReceiveDisconnect, ListenerStates
<1>7. ASSUME NEW d \in Discoveries, ProcessAdd(d)
      PROVE  TypeOK'
  <2>1. event[d] \in Inputs /\ event[d].type = "Add"
    BY <1>7 DEF ProcessAdd, Processing, ListenersOK
  <2> DEFINE port == event[d].external_port
             id == EndpointId(d, event[d].uid)
             endpoint == [is_available |-> event[d].is_available,
                          backend |-> event[d].backend]
  <2>2. /\ port \in Ports /\ id \in EndpointIds /\ endpoint \in Endpoints
        /\ event[d].external_protocol \in Protocols
    BY <2>1, EndpointEventFacts DEF EndpointId, EndpointIds, Endpoints
  <2>3. port_service_map' \in [Ports -> Services \cup {None}]
    <3>1. CASE port_service_map[port] = None
      <4>1. [NoEndpoints EXCEPT ![id] = endpoint]
                \in [EndpointIds -> Endpoints \cup {None}]
        BY <2>2 DEF NoEndpoints
      <4>2. [protocol |-> event[d].external_protocol,
             endpoints |-> [NoEndpoints EXCEPT ![id] = endpoint]] \in Services
        BY <2>2, <4>1 DEF Services
      <4> QED
        BY <1>7, <2>2, <3>1, <4>2 DEF ProcessAdd
    <3>2. CASE port_service_map[port] # None
      <4>1. [port_service_map[port] EXCEPT !.endpoints[id] = endpoint]
                \in Services
        BY <2>2, <3>2, ServiceWith
      <4> QED
        BY <1>7, <2>2, <3>2, <4>1 DEF ProcessAdd
    <3> QED
      BY <3>1, <3>2
  <2>4. todo' \in [Discoveries -> SUBSET PortEvents]
    <3>1. OpenEvent(port, event[d].external_protocol) \in PortEvents
      BY <2>2, PortEventTypes
    <3>2. PICK x \in PortEvents :
              todo' = todo \/ todo' = [todo EXCEPT ![d] = {x}]
      BY <1>7, <3>1, Zenon DEF ProcessAdd
    <3>3. {x} \in SUBSET PortEvents /\ todo \in [Discoveries -> SUBSET PortEvents]
      OBVIOUS
    <3> HIDE DEF TypeOK
    <3>4. CASE todo' = [todo EXCEPT ![d] = {x}]
      BY <3>3, <3>4
    <3> QED
      BY <3>2, <3>3, <3>4
  <2>5. /\ listener' \in [Discoveries -> ListenerStates]
        /\ event' \in [Discoveries -> Inputs \cup {None}]
    BY <1>7 DEF ProcessAdd, Processing, ListenerStates
  <2> QED
    BY <1>7, <2>3, <2>4, <2>5 DEF ProcessAdd, Processing
<1>8. ASSUME NEW d \in Discoveries, ProcessDelete(d)
      PROVE  TypeOK'
  <2>1. event[d] \in Inputs
    BY <1>8 DEF ProcessDelete, Processing, ListenersOK
  <2>2. EndpointId(d, event[d].uid) \in EndpointIds
    BY <2>1, EndpointEventFacts DEF EndpointId, EndpointIds
  <2>3. port_service_map' \in [Ports -> Services \cup {None}]
    BY <1>8, <2>2, ServiceWith DEF ProcessDelete
  <2>4. todo' \in [Discoveries -> SUBSET PortEvents]
    <3>1. PICK ports \in SUBSET Ports :
              todo' = [todo EXCEPT ![d] = {CloseEvent(p) : p \in ports}]
      BY <1>8 DEF ProcessDelete, EmptiedPorts
    <3>2. {CloseEvent(p) : p \in ports} \subseteq PortEvents
      BY DEF PortEvents
    <3> QED
      BY <3>1, <3>2
  <2>5. /\ listener' \in [Discoveries -> ListenerStates]
        /\ event' \in [Discoveries -> Inputs \cup {None}]
    BY <1>8 DEF ProcessDelete, Processing, ListenerStates
  <2> QED
    BY <1>8, <2>3, <2>4, <2>5 DEF ProcessDelete, Processing
<1>9. ASSUME NEW d \in Discoveries, NEW type, NEW flag \in BOOLEAN,
             ProcessAvailability(d, type, flag)
      PROVE  TypeOK'
  <2>1. event[d] \in Inputs
    BY <1>9 DEF ProcessAvailability, Processing, ListenersOK
  <2> DEFINE id == EndpointId(d, event[d].uid)
  <2>2. id \in EndpointIds
    BY <2>1, EndpointEventFacts DEF EndpointId, EndpointIds
  <2>3. ASSUME NEW p \in Ports, port_service_map[p] # None,
               port_service_map[p].endpoints[id] # None
        PROVE  [port_service_map[p] EXCEPT
                    !.endpoints[id].is_available = flag] \in Services
    <3>1. port_service_map[p] \in Services
      BY <2>3
    <3>2. port_service_map[p].endpoints[id] \in Endpoints
      BY <2>2, <2>3, <3>1, ServiceFacts
    <3>3. [port_service_map[p].endpoints[id] EXCEPT !.is_available = flag]
              \in Endpoints
      BY <3>2 DEF Endpoints
    <3> QED
      BY <2>2, <3>1, <3>3, ServiceWith
  <2>4. port_service_map' \in [Ports -> Services \cup {None}]
    BY <1>9, <2>3 DEF ProcessAvailability
  <2>5. /\ listener' \in [Discoveries -> ListenerStates]
        /\ event' \in [Discoveries -> Inputs \cup {None}]
    BY <1>9 DEF ProcessAvailability, Processing, ListenerStates
  <2> QED
    BY <1>9, <2>4, <2>5 DEF ProcessAvailability, Processing
<1>10. ASSUME NEW d \in Discoveries, LockSender(d)
       PROVE  TypeOK'
  BY <1>10 DEF LockSender, ListenerStates
<1>11. ASSUME NEW d \in Discoveries, NEW e \in todo[d], SendPortEvent(d, e)
       PROVE  TypeOK'
  <2>1. e \in PortEvents /\ e.port \in Ports
    BY PortEventFacts
  <2>2. port_service_map' \in [Ports -> Services \cup {None}]
    BY <1>11, <2>1 DEF SendPortEvent, WithoutService
  <2>3. /\ channel' \in [Subscribers -> Seq(PortEvents)]
        /\ \A s \in Subscribers : Len(channel'[s]) <= PortBufferSize
    <3>1. CASE port_event_sender = None
      BY <1>11, <3>1 DEF SendPortEvent
    <3>2. CASE port_event_sender # None
      <4> DEFINE s == port_event_sender
      <4>1. /\ s \in Subscribers /\ Len(channel[s]) < PortBufferSize
            /\ channel' = [channel EXCEPT ![s] = Append(@, e)]
        BY <1>11, <3>2 DEF SendPortEvent, HasRoom
      <4>2. /\ Append(channel[s], e) \in Seq(PortEvents)
            /\ Len(Append(channel[s], e)) = Len(channel[s]) + 1
            /\ Len(channel[s]) \in Nat
        BY <2>1, <4>1
      <4>3. Len(Append(channel[s], e)) <= PortBufferSize
        BY <4>1, <4>2, BufferAssumption
      <4> QED
        BY <4>1, <4>2, <4>3
    <3> QED
      BY <3>1, <3>2
  <2>4. /\ listener' \in [Discoveries -> ListenerStates]
        /\ todo' \in [Discoveries -> SUBSET PortEvents]
    BY <1>11 DEF SendPortEvent, ListenerAfterSending, ListenerStates
  <2> QED
    BY <1>11, <2>2, <2>3, <2>4 DEF SendPortEvent
<1>12. ASSUME NEW d \in Discoveries, NEW e \in todo[d], SendPortEventFails(d, e)
       PROVE  TypeOK'
  <2>1. e.port \in Ports
    BY PortEventFacts
  <2>2. port_service_map' \in [Ports -> Services \cup {None}]
    BY <1>12, <2>1 DEF SendPortEventFails, WithoutService
  <2> QED
    BY <1>12, <2>2, BufferAssumption DEF SendPortEventFails, ListenerStates
<1>13. ASSUME NEW s \in Subscribers, SendPortEventsTo(s)
       PROVE  TypeOK'
  BY <1>13 DEF SendPortEventsTo, SubscriberStates
<1>14. ASSUME NEW s \in Subscribers, LockMapForReading(s)
       PROVE  TypeOK'
  BY <1>14 DEF LockMapForReading, SubscriberStates, OpenPorts
<1>15. ASSUME NEW s \in Subscribers, NEW p \in Ports, SendOpenPort(s, p)
       PROVE  TypeOK'
  <2>1. port_service_map[p] \in Services
    BY <1>15 DEF SendOpenPort, SubscribersOK, OpenPorts
  <2> DEFINE e == OpenEvent(p, port_service_map[p].protocol)
  <2>2. e \in PortEvents
    BY <2>1, ServiceFacts, PortEventTypes
  <2>3. /\ Len(channel[s]) < PortBufferSize
        /\ channel' = [channel EXCEPT ![s] = Append(@, e)]
    BY <1>15 DEF SendOpenPort, HasRoom
  <2>4. /\ Append(channel[s], e) \in Seq(PortEvents)
        /\ Len(Append(channel[s], e)) = Len(channel[s]) + 1
        /\ Len(channel[s]) \in Nat
    BY <2>2
  <2>5. Len(Append(channel[s], e)) <= PortBufferSize
    BY <2>3, <2>4, BufferAssumption
  <2>6. /\ channel' \in [Subscribers -> Seq(PortEvents)]
        /\ \A x \in Subscribers : Len(channel'[x]) <= PortBufferSize
    BY <2>3, <2>4, <2>5
  <2> QED
    BY <1>15, <2>6 DEF SendOpenPort
<1>16. ASSUME NEW s \in Subscribers, SendOpenPortFails(s)
       PROVE  TypeOK'
  BY <1>16 DEF SendOpenPortFails, SubscriberStates
<1>17. ASSUME NEW s \in Subscribers, InstallSender(s)
       PROVE  TypeOK'
  BY <1>17 DEF InstallSender, SubscriberStates
<1>18. ASSUME NEW s \in Subscribers, ReceivePortEvent(s)
       PROVE  TypeOK'
  <2>1. /\ channel[s] \in Seq(PortEvents) /\ channel[s] # <<>>
        /\ Head(channel[s]) \in PortEvents
        /\ Tail(channel[s]) \in Seq(PortEvents)
        /\ Len(Tail(channel[s])) <= PortBufferSize
    BY <1>18, BufferAssumption DEF ReceivePortEvent
  <2>2. /\ Head(channel[s]).port \in Ports
        /\ Effect(Head(channel[s])) \in Protocols \cup {None}
    BY <2>1, PortEventFacts
  <2>3. view' \in [Subscribers -> [Ports -> Protocols \cup {None}]]
    BY <1>18, <2>2 DEF ReceivePortEvent
  <2>4. /\ channel' \in [Subscribers -> Seq(PortEvents)]
        /\ \A x \in Subscribers : Len(channel'[x]) <= PortBufferSize
    BY <1>18, <2>1 DEF ReceivePortEvent
  <2> QED
    BY <1>18, <2>3, <2>4 DEF ReceivePortEvent
<1>19. ASSUME NEW s \in Subscribers, DropReceiver(s)
       PROVE  TypeOK'
  <2>1. Len(<<>>) <= PortBufferSize /\ <<>> \in Seq(PortEvents)
    BY BufferAssumption
  <2> QED
    BY <1>19, <2>1 DEF DropReceiver
<1>20. CASE UNCHANGED vars
  BY <1>20 DEF vars
<1> QED
  BY <1>1, <1>2, <1>3, <1>4, <1>5, <1>6, <1>7, <1>8, <1>9, <1>10, <1>11, <1>12,
     <1>13, <1>14, <1>15, <1>16, <1>17, <1>18, <1>19, <1>20
     DEF Next, Discovery, Listener, Subscriber, Reader, ProcessEvent,
         ProcessSuspend, ProcessResume

-----------------------------------------------------------------------------
(* The locks and what listeners do under them.                             *)

\* The map's lock keeps excluding writers from writers and readers.
LEMMA LockStep ==
    ASSUME TypeOK, LocksExclusive, [Next]_vars
    PROVE  LocksExclusive'
<1> USE DEF LocksExclusive, HoldsMapWrite, HoldsMapRead, TypeOK,
            listenerVars, subscriberVars
<1>1. ASSUME UNCHANGED <<listener, subscriber>>
      PROVE  LocksExclusive'
  BY <1>1
<1>2. ASSUME NEW d \in Discoveries, NEW pc, listener' = [listener EXCEPT ![d] = pc],
             pc \in {"gate", "send"} => HoldsMapWrite(d) \/ MapWritable,
             UNCHANGED subscriber
      PROVE  LocksExclusive'
  BY <1>2 DEF MapWritable, MapReadable
<1>3. ASSUME NEW s \in Subscribers, NEW pc,
             subscriber' = [subscriber EXCEPT ![s] = pc],
             pc = "sync" => MapReadable, UNCHANGED listener
      PROVE  LocksExclusive'
  BY <1>3 DEF MapReadable
<1> HIDE DEF LocksExclusive
<1>4. ASSUME NEW d \in Discoveries, Discovery(d)
      PROVE  LocksExclusive'
  BY <1>1, <1>2, <1>4 DEF Discovery, RegisterEndpointDiscovery, DiscoverySends,
     DiscoveryEnds
<1>5. ASSUME NEW d \in Discoveries, ReceiveEvent(d) \/ ReceiveDisconnect(d)
      PROVE  LocksExclusive'
  BY <1>2, <1>5 DEF ReceiveEvent, ReceiveDisconnect
<1>6. ASSUME NEW d \in Discoveries, ProcessEvent(d)
      PROVE  LocksExclusive'
  <2>1. MapWritable /\ UNCHANGED subscriber
    BY <1>6 DEF ProcessEvent, ProcessAdd, ProcessDelete, ProcessSuspend,
       ProcessResume, ProcessAvailability, Processing
  <2>2. PICK pc : listener' = [listener EXCEPT ![d] = pc]
    BY <1>6 DEF ProcessEvent, ProcessAdd, ProcessDelete, ProcessSuspend,
       ProcessResume, ProcessAvailability
  <2> QED
    BY <1>2, <2>1, <2>2
<1>7. ASSUME NEW d \in Discoveries, LockSender(d)
      PROVE  LocksExclusive'
  BY <1>2, <1>7 DEF LockSender
<1>8. ASSUME NEW d \in Discoveries, NEW e \in todo[d],
             SendPortEvent(d, e) \/ SendPortEventFails(d, e)
      PROVE  LocksExclusive'
  BY <1>2, <1>8 DEF SendPortEvent, SendPortEventFails
<1>9. ASSUME NEW s \in Subscribers, Subscriber(s) \/ Reader(s)
      PROVE  LocksExclusive'
  BY <1>1, <1>3, <1>9 DEF Subscriber, Reader, SendPortEventsTo,
     LockMapForReading, SendOpenPort, SendOpenPortFails, InstallSender,
     ReceivePortEvent, DropReceiver
<1>10. CASE DropManager \/ UNCHANGED vars
  BY <1>1, <1>10 DEF DropManager, vars
<1> QED
  BY <1>4, <1>5, <1>6, <1>7, <1>8, <1>9, <1>10 DEF Next, Listener

\* While no one writes the map, no listener has a PortEvent to send.
LEMMA NothingPending ==
    ASSUME TypeOK, ListenersOK, MapReadable
    PROVE  \A d \in Discoveries : todo[d] = {}
  BY DEF ListenersOK, MapReadable

\* While one listener writes the map, no other has a PortEvent to send and no
\* subscriber is being brought up to date.
LEMMA OnlyWriter ==
    ASSUME LocksExclusive, ListenersOK, NEW d \in Discoveries, HoldsMapWrite(d)
    PROVE  /\ \A x \in Discoveries : x # d => todo[x] = {}
           /\ \A s \in Subscribers : ~HoldsMapRead(s)
  BY DEF LocksExclusive, ListenersOK

\* The protocol of every port stays as it is, and so do the open ports.
SameProtocols ==
    \A p \in Ports :
        /\ port_service_map'[p] = None <=> port_service_map[p] = None
        /\ port_service_map[p] # None =>
               port_service_map'[p].protocol = port_service_map[p].protocol

\* EndpointEvent::Add, step by step.
LEMMA AddFacts ==
    ASSUME TypeOK, ListenersOK, NEW d \in Discoveries, ProcessAdd(d)
    PROVE  \/ /\ SameProtocols
              /\ UNCHANGED todo
              /\ \A p \in Ports : port_service_map[p] # None =>
                     \/ port_service_map'[p] = port_service_map[p]
                     \/ port_service_map'[p].endpoints # NoEndpoints
           \/ \E p \in Ports, proto \in Protocols :
                  /\ port_service_map[p] = None
                  /\ port_service_map'[p] # None
                  /\ port_service_map'[p].protocol = proto
                  /\ port_service_map'[p].endpoints # NoEndpoints
                  /\ \A q \in Ports \ {p} :
                         port_service_map'[q] = port_service_map[q]
                  /\ todo' = [todo EXCEPT ![d] = {OpenEvent(p, proto)}]
<1> DEFINE port == event[d].external_port
           id == EndpointId(d, event[d].uid)
           endpoint == [is_available |-> event[d].is_available,
                        backend |-> event[d].backend]
           proto == event[d].external_protocol
<1>1. event[d] \in Inputs /\ event[d].type = "Add"
  BY DEF ProcessAdd, Processing, ListenersOK, TypeOK
<1>2. /\ port \in Ports /\ id \in EndpointIds /\ endpoint \in Endpoints
      /\ proto \in Protocols /\ endpoint # None
  BY <1>1, EndpointEventFacts, NoneAssumption
     DEF EndpointId, EndpointIds, Endpoints
<1>3. port_service_map \in [Ports -> Services \cup {None}]
  BY DEF TypeOK
<1>4. CASE port_service_map[port] = None
  <2> DEFINE svc == [protocol |-> proto,
                     endpoints |-> [NoEndpoints EXCEPT ![id] = endpoint]]
  <2>1. /\ port_service_map' = [port_service_map EXCEPT ![port] = svc]
        /\ todo' = [todo EXCEPT ![d] = {OpenEvent(port, proto)}]
    BY <1>4 DEF ProcessAdd
  <2>2. svc.endpoints # NoEndpoints
    BY <1>2 DEF NoEndpoints
  <2>3. svc \in Services
    BY <1>2 DEF NoEndpoints, Services
  <2>4. svc # None /\ svc.protocol = proto
    BY <2>3, ServiceFacts
  <2> HIDE DEF svc, port, proto, id, endpoint
  <2>5. /\ port_service_map'[port] = svc
        /\ \A q \in Ports \ {port} : port_service_map'[q] = port_service_map[q]
    BY <1>2, <1>3, <2>1
  <2> QED
    BY <1>2, <1>4, <2>1, <2>2, <2>4, <2>5
<1>5. CASE port_service_map[port] # None
  <2> DEFINE svc == [port_service_map[port] EXCEPT !.endpoints[id] = endpoint]
  <2>1. /\ port_service_map' = [port_service_map EXCEPT ![port] = svc]
        /\ UNCHANGED todo
    BY <1>5 DEF ProcessAdd
  <2>2. port_service_map[port] \in Services
    BY <1>2, <1>3, <1>5
  <2>3. /\ svc \in Services /\ svc.protocol = port_service_map[port].protocol
        /\ svc.endpoints = [port_service_map[port].endpoints EXCEPT ![id] = endpoint]
    BY <1>2, <2>2, ServiceWith
  <2>4. svc # None /\ svc.endpoints # NoEndpoints
    BY <1>2, <2>2, <2>3, ServiceFacts DEF NoEndpoints
  <2> HIDE DEF svc, port, proto, id, endpoint
  <2> QED
    BY <1>2, <1>3, <1>5, <2>1, <2>3, <2>4 DEF SameProtocols
<1> QED
  BY <1>4, <1>5

\* EndpointEvent::Delete changes no protocol and closes the emptied ports.
LEMMA DeleteFacts ==
    ASSUME TypeOK, ListenersOK, NEW d \in Discoveries, ProcessDelete(d)
    PROVE  /\ SameProtocols
           /\ todo' = [todo EXCEPT ![d] =
                  {CloseEvent(p) : p \in EmptiedPorts(port_service_map')}]
<1> DEFINE id == EndpointId(d, event[d].uid)
<1>1. event[d] \in Inputs
  BY DEF ProcessDelete, Processing, ListenersOK, TypeOK
<1>2. id \in EndpointIds
  BY <1>1, EndpointEventFacts DEF EndpointId, EndpointIds
<1>3. port_service_map \in [Ports -> Services \cup {None}]
  BY DEF TypeOK
<1>4. /\ port_service_map' = [p \in Ports |->
            IF port_service_map[p] = None THEN None
            ELSE [port_service_map[p] EXCEPT !.endpoints[id] = None]]
      /\ todo' = [todo EXCEPT ![d] =
            {CloseEvent(p) : p \in EmptiedPorts(port_service_map')}]
  BY DEF ProcessDelete
<1>5. SameProtocols
  <2> SUFFICES ASSUME NEW p \in Ports, port_service_map[p] # None
               PROVE  /\ port_service_map'[p] # None
                      /\ port_service_map'[p].protocol
                             = port_service_map[p].protocol
    BY <1>4 DEF SameProtocols
  <2> DEFINE svc == port_service_map[p]
             changed == [svc EXCEPT !.endpoints[id] = None]
  <2>1. svc \in Services /\ port_service_map'[p] = changed
    BY <1>3, <1>4
  <2> HIDE DEF svc
  <2>2. changed \in Services /\ changed.protocol = svc.protocol
    BY <1>2, <2>1, ServiceWith
  <2> HIDE DEF changed
  <2>3. changed # None
    BY <2>2, ServiceFacts
  <2> QED
    BY <2>1, <2>2, <2>3 DEF svc
<1> QED
  BY <1>4, <1>5

\* Suspend and Resume change no protocol and empty no service.
LEMMA AvailabilityFacts ==
    ASSUME TypeOK, ListenersOK, NEW d \in Discoveries, NEW type,
           NEW flag \in BOOLEAN, ProcessAvailability(d, type, flag)
    PROVE  /\ SameProtocols
           /\ UNCHANGED todo
           /\ \A p \in Ports : port_service_map[p] # None =>
                  \/ port_service_map'[p] = port_service_map[p]
                  \/ port_service_map'[p].endpoints # NoEndpoints
<1> DEFINE id == EndpointId(d, event[d].uid)
<1>1. event[d] \in Inputs
  BY DEF ProcessAvailability, Processing, ListenersOK, TypeOK
<1>2. id \in EndpointIds
  BY <1>1, EndpointEventFacts DEF EndpointId, EndpointIds
<1>3. port_service_map \in [Ports -> Services \cup {None}]
  BY DEF TypeOK
<1>4. ASSUME NEW p \in Ports
      PROVE  \/ port_service_map'[p] = port_service_map[p]
             \/ /\ port_service_map[p] # None
                /\ port_service_map'[p] # None
                /\ port_service_map'[p].protocol = port_service_map[p].protocol
                /\ port_service_map'[p].endpoints # NoEndpoints
  <2> DEFINE svc == port_service_map[p]
             changed == [svc EXCEPT !.endpoints[id].is_available = flag]
  <2>1. CASE svc # None /\ svc.endpoints[id] # None
    <3>1. port_service_map'[p] = changed
      BY <2>1 DEF ProcessAvailability
    <3>2. svc \in Services /\ svc.endpoints[id] \in Endpoints
      BY <1>2, <1>3, <2>1, ServiceFacts
    <3> DEFINE x == [svc.endpoints[id] EXCEPT !.is_available = flag]
    <3>3. x \in Endpoints /\ x # None
      BY <3>2, NoneAssumption DEF Endpoints
    <3>4. changed = [svc EXCEPT !.endpoints[id] = x]
      OBVIOUS
    <3> HIDE DEF x, changed, svc
    <3>5. /\ changed \in Services /\ changed.protocol = svc.protocol
          /\ changed.endpoints = [svc.endpoints EXCEPT ![id] = x]
      BY <1>2, <3>2, <3>3, <3>4, ServiceWith
    <3>6. changed # None /\ changed.endpoints # NoEndpoints
      BY <1>2, <3>2, <3>3, <3>5, ServiceFacts DEF NoEndpoints
    <3> QED
      BY <2>1, <3>1, <3>5, <3>6 DEF svc
  <2>2. CASE ~(svc # None /\ svc.endpoints[id] # None)
    BY <2>2 DEF ProcessAvailability
  <2> QED
    BY <2>1, <2>2
<1> QED
  BY <1>4 DEF SameProtocols, ProcessAvailability

\* send_event: the listener d sends e, or dies of it, while no one else has a
\* PortEvent to send.
LEMMA SendFacts ==
    ASSUME TypeOK, LocksExclusive, ListenersOK, NEW d \in Discoveries,
           NEW e \in todo[d], SendPortEvent(d, e) \/ SendPortEventFails(d, e)
    PROVE  /\ e \in PortEvents
           /\ HoldsMapWrite(d)
           /\ \A x \in Discoveries \ {d} : todo[x] = {} /\ todo'[x] = {}
           /\ todo'[d] \subseteq todo[d] \ {e}
           /\ SendPortEvent(d, e) => todo'[d] = todo[d] \ {e}
           /\ todo' \in [Discoveries -> SUBSET PortEvents]
           /\ \A x \in todo[d] \ {e} : x.type = "Close" /\ x.port # e.port
           /\ e.type = "Open" => UNCHANGED port_service_map /\ todo[d] = {e}
           /\ e.type = "Close" => port_service_map'[e.port] = None
           /\ \A p \in Ports \ {e.port} :
                  port_service_map'[p] = port_service_map[p]
<1>1. e \in PortEvents /\ todo \in [Discoveries -> SUBSET PortEvents]
  BY DEF TypeOK
<1>2. HoldsMapWrite(d)
  BY DEF SendPortEvent, SendPortEventFails, HoldsMapWrite
<1>3. /\ \A x \in Discoveries \ {d} : todo'[x] = todo[x]
      /\ todo'[d] \subseteq todo[d] \ {e}
      /\ SendPortEvent(d, e) => todo'[d] = todo[d] \ {e}
      /\ todo' \in [Discoveries -> SUBSET PortEvents]
  BY <1>1 DEF SendPortEvent, SendPortEventFails
<1>4. \A x \in Discoveries \ {d} : todo[x] = {}
  BY <1>2, OnlyWriter
<1>5. \A x \in todo[d] \ {e} : x.type = "Close" /\ x.port # e.port
  <2> SUFFICES ASSUME NEW x \in todo[d], x # e
               PROVE  x.type = "Close" /\ x.port # e.port
    OBVIOUS
  <2>1. x \in PortEvents
    BY <1>1
  <2>2. x.type # "Open" /\ e.type # "Open"
    BY DEF ListenersOK
  <2>3. x.type = "Close" /\ e.type = "Close"
    BY <1>1, <2>1, <2>2, PortEventFacts
  <2>4. x = CloseEvent(x.port) /\ e = CloseEvent(e.port)
    BY <1>1, <2>1, <2>3, PortEventFacts
  <2> QED
    BY <2>3, <2>4
<1>6. /\ e.type = "Open" => UNCHANGED port_service_map /\ todo[d] = {e}
      /\ e.type = "Close" => port_service_map'[e.port] = None
      /\ \A p \in Ports \ {e.port} : port_service_map'[p] = port_service_map[p]
  <2>1. port_service_map' = WithoutService(e)
    BY DEF SendPortEvent, SendPortEventFails
  <2>2. e.port \in Ports /\ port_service_map \in [Ports -> Services \cup {None}]
    BY <1>1, PortEventFacts DEF TypeOK
  <2>3. e.type = "Open" => todo[d] = {e}
    BY DEF ListenersOK
  <2> QED
    BY <2>1, <2>2, <2>3 DEF WithoutService
<1> QED
  BY <1>1, <1>2, <1>3, <1>4, <1>5, <1>6

\* The listeners' part of the invariant.
LEMMA ListenersStep ==
    ASSUME TypeOK, LocksExclusive, ListenersOK, [Next]_vars, TypeOK'
    PROVE  ListenersOK'
<1> USE DEF listenerVars, HoldsMapWrite
<1>1. ASSUME UNCHANGED <<listener, event, todo, port_service_map>>
      PROVE  ListenersOK'
  BY <1>1 DEF ListenersOK, NoEndpoints
<1>2. ASSUME NEW d \in Discoveries, ~HoldsMapWrite(d),
             UNCHANGED <<todo, port_service_map>>,
             \A x \in Discoveries \ {d} :
                 listener'[x] = listener[x] /\ event'[x] = event[x],
             listener'[d] = "lock" => event'[d] # None
      PROVE  ListenersOK'
  BY <1>2 DEF ListenersOK, NoEndpoints
<1>3. ASSUME NEW d \in Discoveries, ProcessEvent(d)
      PROVE  ListenersOK'
  <2>1. /\ \A x \in Discoveries : todo[x] = {}
        /\ \A x \in Discoveries \ {d} :
               listener'[x] = listener[x] /\ event'[x] = event[x]
        /\ listener'[d] \in {"recv", "gate"}
    <3>1. MapReadable
      BY <1>3 DEF ProcessEvent, ProcessAdd, ProcessDelete, ProcessSuspend,
         ProcessResume, ProcessAvailability, Processing, MapWritable
    <3> QED
      BY <1>3, <3>1, NothingPending DEF ProcessEvent, ProcessAdd, ProcessDelete,
         ProcessSuspend, ProcessResume, ProcessAvailability, Processing, TypeOK
  <2>2. ASSUME UNCHANGED todo
        PROVE  ListenersOK'
    BY <2>1, <2>2 DEF ListenersOK
  <2>3. ASSUME NEW xs \in SUBSET PortEvents,
               todo' = [todo EXCEPT ![d] = xs], listener'[d] = "gate",
               \A x \in xs :
                   /\ port_service_map'[x.port] # None
                   /\ x.type = "Open" =>
                          /\ xs = {x}
                          /\ port_service_map'[x.port].protocol = x.protocol
                   /\ x.type = "Close" =>
                          port_service_map'[x.port].endpoints = NoEndpoints
        PROVE  ListenersOK'
    <3>1. todo'[d] = xs /\ \A y \in Discoveries \ {d} : todo'[y] = {}
      BY <2>1, <2>3 DEF TypeOK
    <3> QED
      BY <2>1, <2>3, <3>1 DEF ListenersOK, NoEndpoints
  <2>4. CASE ProcessAdd(d)
    <3>1. CASE UNCHANGED todo
      BY <2>2, <3>1
    <3>2. CASE ~UNCHANGED todo
      <4>1. PICK p \in Ports, proto \in Protocols :
                /\ port_service_map'[p] # None
                /\ port_service_map'[p].protocol = proto
                /\ todo' = [todo EXCEPT ![d] = {OpenEvent(p, proto)}]
        BY <2>4, <3>2, AddFacts
      <4>2. listener'[d] = "gate"
        BY <2>4, <3>2 DEF ProcessAdd, TypeOK
      <4>3. /\ OpenEvent(p, proto) \in PortEvents
            /\ OpenEvent(p, proto).port = p
            /\ OpenEvent(p, proto).type = "Open"
            /\ OpenEvent(p, proto).protocol = proto
        BY PortEventTypes
      <4> DEFINE xs == {OpenEvent(p, proto)}
      <4>4. /\ xs \in SUBSET PortEvents
            /\ \A x \in xs : /\ x.type = "Open" /\ xs = {x}
                            /\ port_service_map'[x.port] # None
                            /\ port_service_map'[x.port].protocol = x.protocol
        BY <4>1, <4>3
      <4>5. todo' = [todo EXCEPT ![d] = xs]
        BY <4>1
      <4> HIDE DEF xs
      <4> QED
        BY <2>3, <4>2, <4>4, <4>5
    <3> QED
      BY <3>1, <3>2
  <2>5. CASE ProcessDelete(d)
    <3> DEFINE xs == {CloseEvent(p) : p \in EmptiedPorts(port_service_map')}
    <3>1. todo' = [todo EXCEPT ![d] = xs]
      BY <2>5, DeleteFacts
    <3>2. listener'[d] = "gate"
      BY <2>5 DEF ProcessDelete, TypeOK
    <3>3. xs \in SUBSET PortEvents
      BY DEF EmptiedPorts, PortEvents
    <3>4. \A x \in xs :
              /\ x.type = "Close"
              /\ port_service_map'[x.port] # None
              /\ port_service_map'[x.port].endpoints = NoEndpoints
      BY DEF EmptiedPorts, CloseEvent
    <3> HIDE DEF xs
    <3> QED
      BY <2>3, <3>1, <3>2, <3>3, <3>4
  <2>6. CASE ProcessSuspend(d) \/ ProcessResume(d)
    BY <2>2, <2>6 DEF ProcessSuspend, ProcessResume, ProcessAvailability
  <2> QED
    BY <1>3, <2>4, <2>5, <2>6 DEF ProcessEvent
<1>4. ASSUME NEW d \in Discoveries, LockSender(d)
      PROVE  ListenersOK'
  <2>1. /\ UNCHANGED <<event, todo, port_service_map>>
        /\ \A x \in Discoveries \ {d} : listener'[x] = listener[x]
        /\ listener'[d] = IF todo[d] = {} THEN "recv" ELSE "send"
    BY <1>4 DEF LockSender, TypeOK
  <2> QED
    BY <2>1 DEF ListenersOK, NoEndpoints
<1>5. ASSUME NEW d \in Discoveries, NEW e \in todo[d],
             SendPortEvent(d, e) \/ SendPortEventFails(d, e)
      PROVE  ListenersOK'
  <2>1. /\ \A x \in Discoveries \ {d} : todo'[x] = {}
        /\ todo'[d] \subseteq todo[d] \ {e}
        /\ todo' \in [Discoveries -> SUBSET PortEvents]
        /\ \A x \in todo[d] \ {e} : x.type = "Close" /\ x.port # e.port
        /\ \A p \in Ports \ {e.port} :
               port_service_map'[p] = port_service_map[p]
    BY <1>5, SendFacts
  <2>2. /\ UNCHANGED event
        /\ \A x \in Discoveries \ {d} : listener'[x] = listener[x]
        /\ listener'[d] # "lock"
        /\ todo'[d] # {} => listener'[d] = "send"
    BY <1>5 DEF SendPortEvent, SendPortEventFails, ListenerAfterSending, TypeOK
  <2>3. ASSUME NEW x \in todo'[d]
        PROVE  /\ x.type = "Close"
               /\ port_service_map'[x.port] # None
               /\ port_service_map'[x.port].endpoints = NoEndpoints
    <3>1. x \in todo[d] /\ x.type = "Close" /\ x.port # e.port
      BY <2>1
    <3>2. x.port \in Ports
      BY <2>1, PortEventFacts
    <3> QED
      BY <2>1, <3>1, <3>2 DEF ListenersOK
  <2> QED
    BY <2>1, <2>2, <2>3 DEF ListenersOK, NoEndpoints
<1>6. ASSUME NEW d \in Discoveries, ReceiveEvent(d)
      PROVE  ListenersOK'
  <2>1. Head(queue[d]) # None
    <3>1. Head(queue[d]) \in Inputs
      BY <1>6 DEF ReceiveEvent, TypeOK
    <3> QED
      BY <3>1, EndpointEventFacts
  <2>2. /\ UNCHANGED <<todo, port_service_map>>
        /\ ~HoldsMapWrite(d)
        /\ \A x \in Discoveries \ {d} :
               listener'[x] = listener[x] /\ event'[x] = event[x]
        /\ listener'[d] = "lock" => event'[d] # None
    <3>1. CASE ManagerAlive
      BY <1>6, <2>1, <3>1 DEF ReceiveEvent, TypeOK
    <3>2. CASE ~ManagerAlive
      BY <1>6, <3>2 DEF ReceiveEvent, TypeOK
    <3> QED
      BY <3>1, <3>2
  <2> QED
    BY <1>2, <2>2
<1>7. ASSUME NEW d \in Discoveries,
             ReceiveDisconnect(d) \/ RegisterEndpointDiscovery(d)
      PROVE  ListenersOK'
  BY <1>2, <1>7 DEF ReceiveDisconnect, RegisterEndpointDiscovery, TypeOK
<1>8. ASSUME NEW d \in Discoveries, NEW e \in Inputs, DiscoverySends(d, e)
      PROVE  ListenersOK'
  BY <1>1, <1>8 DEF DiscoverySends
<1>9. ASSUME NEW d \in Discoveries, DiscoveryEnds(d)
      PROVE  ListenersOK'
  BY <1>1, <1>9 DEF DiscoveryEnds
<1>10. ASSUME NEW s \in Subscribers, Subscriber(s) \/ Reader(s)
       PROVE  ListenersOK'
  BY <1>1, <1>10 DEF Subscriber, Reader, SendPortEventsTo, LockMapForReading,
     SendOpenPort, SendOpenPortFails, InstallSender, ReceivePortEvent,
     DropReceiver
<1>11. CASE DropManager \/ UNCHANGED vars
  BY <1>1, <1>11 DEF DropManager, vars
<1> QED
  BY <1>3, <1>4, <1>5, <1>6, <1>7, <1>8, <1>9, <1>10, <1>11
     DEF Next, Discovery, Listener

\* What the step of process_event under the lock leaves alone.
LEMMA ProcessFrame ==
    ASSUME TypeOK, NEW d \in Discoveries, ProcessEvent(d)
    PROVE  /\ MapReadable /\ MapWritable
           /\ listener[d] = "lock"
           /\ \A x \in Discoveries \ {d} : listener'[x] = listener[x]
           /\ UNCHANGED <<port_event_sender, subscriber, unsent, channel,
                          receiving, view>>
  BY DEF ProcessEvent, ProcessAdd, ProcessDelete, ProcessSuspend,
     ProcessResume, ProcessAvailability, Processing, MapWritable,
     subscriberVars, consumerVars, TypeOK

\* A service without endpoints is about to be closed, or someone died.
LEMMA NoEmptyStep ==
    ASSUME TypeOK, LocksExclusive, ListenersOK, NoEmptyService, [Next]_vars
    PROVE  NoEmptyService'
<1>1. ASSUME UNCHANGED <<todo, port_service_map>>,
             \A x \in Discoveries :
                 listener[x] = "failed" => listener'[x] = "failed"
      PROVE  NoEmptyService'
  <2>1. EmptiedPorts(port_service_map)' = EmptiedPorts(port_service_map)
    BY <1>1 DEF EmptiedPorts, NoEndpoints
  <2> QED
    BY <1>1, <2>1 DEF NoEmptyService, CloseEvent, OpenPorts, EmptiedPorts, NoEndpoints
<1>2. ASSUME NEW d \in Discoveries, ProcessEvent(d)
      PROVE  NoEmptyService'
  <2>1. \A x \in Discoveries : todo[x] = {}
    BY <1>2, ProcessFrame, NothingPending
  <2>2. \A x \in Discoveries :
            listener[x] = "failed" => listener'[x] = "failed"
    BY <1>2, ProcessFrame
  <2>3. ASSUME \A p \in Ports :
                   p \in EmptiedPorts(port_service_map') =>
                       p \in EmptiedPorts(port_service_map)
        PROVE  NoEmptyService'
    BY <2>1, <2>2, <2>3 DEF NoEmptyService, OpenPorts, EmptiedPorts
  <2>4. CASE ProcessAdd(d)
    <3>1. \A p \in Ports : port_service_map'[p] # None =>
              \/ port_service_map'[p] = port_service_map[p]
              \/ port_service_map'[p].endpoints # NoEndpoints
      BY <2>4, AddFacts DEF SameProtocols
    <3> QED
      BY <2>3, <3>1 DEF EmptiedPorts
  <2>5. CASE ProcessDelete(d)
    <3>1. todo'[d] = {CloseEvent(p) : p \in EmptiedPorts(port_service_map')}
      BY <2>5, DeleteFacts DEF TypeOK
    <3> QED
      BY <3>1 DEF NoEmptyService, OpenPorts, EmptiedPorts, NoEndpoints
  <2>6. ASSUME NEW type, NEW flag \in BOOLEAN,
               ProcessAvailability(d, type, flag)
        PROVE  NoEmptyService'
    <3>1. \A p \in Ports : port_service_map'[p] # None =>
              \/ port_service_map'[p] = port_service_map[p]
              \/ port_service_map'[p].endpoints # NoEndpoints
      BY <2>6, AvailabilityFacts DEF SameProtocols
    <3> QED
      BY <2>3, <3>1 DEF EmptiedPorts
  <2> QED
    BY <1>2, <2>4, <2>5, <2>6 DEF ProcessEvent, ProcessSuspend, ProcessResume
<1>3. ASSUME NEW d \in Discoveries, NEW e \in todo[d],
             SendPortEvent(d, e) \/ SendPortEventFails(d, e)
      PROVE  NoEmptyService'
  <2>1. SUFFICES ASSUME NEW p \in Ports, port_service_map'[p] # None,
                        port_service_map'[p].endpoints = NoEndpoints
                 PROVE  \E x \in Discoveries : \/ CloseEvent(p) \in todo'[x]
                                               \/ listener'[x] = "failed"
    BY DEF NoEmptyService, OpenPorts, EmptiedPorts, NoEndpoints
  <2>2. CloseEvent(p) # e /\ port_service_map'[p] = port_service_map[p]
    <3>1. CASE e.type = "Open"
      BY <1>3, <3>1, SendFacts DEF CloseEvent
    <3>2. CASE e.type = "Close"
      <4>1. p # e.port
        BY <1>3, <2>1, <3>2, SendFacts
      <4> QED
        BY <1>3, <4>1, SendFacts DEF CloseEvent
    <3> QED
      BY <1>3, <3>1, <3>2, SendFacts, PortEventFacts
  <2>3. PICK x \in Discoveries :
            CloseEvent(p) \in todo[x] \/ listener[x] = "failed"
    BY <2>1, <2>2 DEF NoEmptyService, OpenPorts, EmptiedPorts
  <2>4. CASE SendPortEventFails(d, e)
    BY <2>4 DEF SendPortEventFails, TypeOK
  <2>5. CASE SendPortEvent(d, e)
    <3>1. /\ listener[d] = "send"
          /\ \A y \in Discoveries \ {d} : listener'[y] = listener[y]
      BY <2>5 DEF SendPortEvent, TypeOK
    <3>2. /\ todo'[d] = todo[d] \ {e}
          /\ \A y \in Discoveries \ {d} : todo[y] = {}
      BY <2>5, SendFacts
    <3> QED
      BY <2>2, <2>3, <3>1, <3>2
  <2> QED
    BY <1>3, <2>4, <2>5
<1>4. ASSUME NEW d \in Discoveries, ReceiveEvent(d) \/ ReceiveDisconnect(d)
                                        \/ LockSender(d)
      PROVE  NoEmptyService'
  BY <1>1, <1>4 DEF ReceiveEvent, ReceiveDisconnect, LockSender, TypeOK
<1>5. ASSUME NEW d \in Discoveries, Discovery(d)
      PROVE  NoEmptyService'
  BY <1>1, <1>5 DEF Discovery, RegisterEndpointDiscovery, DiscoverySends,
     DiscoveryEnds, listenerVars, TypeOK
<1>6. ASSUME NEW s \in Subscribers, Subscriber(s) \/ Reader(s)
      PROVE  NoEmptyService'
  BY <1>1, <1>6 DEF Subscriber, Reader, SendPortEventsTo, LockMapForReading,
     SendOpenPort, SendOpenPortFails, InstallSender, ReceivePortEvent,
     DropReceiver, listenerVars
<1>7. CASE DropManager \/ UNCHANGED vars
  BY <1>1, <1>7 DEF DropManager, vars, listenerVars
<1> QED
  BY <1>2, <1>3, <1>4, <1>5, <1>6, <1>7 DEF Next, Listener

-----------------------------------------------------------------------------
(* What the subscribers are told.                                          *)

\* Where no one writes the map, every open port has been announced.
LEMMA AnnouncedReadable ==
    ASSUME TypeOK, ListenersOK, MapReadable, NEW p \in Ports
    PROVE  Announced(p) = ServedProtocol(p)
  BY NothingPending DEF Announced, AwaitsOpen

\* The step under the lock announces nothing by itself.
LEMMA AnnouncedProcess ==
    ASSUME TypeOK, ListenersOK, NEW d \in Discoveries, ProcessEvent(d),
           NEW p \in Ports
    PROVE  Announced(p)' = Announced(p)
<1>1. \A x \in Discoveries : todo[x] = {}
  BY ProcessFrame, NothingPending
<1>2. Announced(p) = ServedProtocol(p)
  BY <1>1 DEF Announced, AwaitsOpen
<1>3. ASSUME SameProtocols, UNCHANGED todo
      PROVE  Announced(p)' = Announced(p)
  BY <1>1, <1>2, <1>3 DEF Announced, AwaitsOpen, ServedProtocol, SameProtocols
<1>4. CASE ProcessAdd(d)
  <2>1. CASE SameProtocols /\ UNCHANGED todo
    BY <1>3, <2>1
  <2>2. CASE ~(SameProtocols /\ UNCHANGED todo)
    <3>1. PICK q \in Ports, proto \in Protocols :
              /\ port_service_map[q] = None
              /\ \A r \in Ports \ {q} :
                     port_service_map'[r] = port_service_map[r]
              /\ todo' = [todo EXCEPT ![d] = {OpenEvent(q, proto)}]
      BY <1>4, <2>2, AddFacts
    <3>2. todo'[d] = {OpenEvent(q, proto)}
          /\ \A x \in Discoveries \ {d} : todo'[x] = {}
      BY <1>1, <3>1 DEF TypeOK
    <3>3. AwaitsOpen(p)' <=> p = q
      <4> DEFINE e == OpenEvent(q, proto)
      <4>1. e.type = "Open" /\ e.port = q
        BY DEF OpenEvent
      <4>2. todo'[d] = {e}
        BY <3>2
      <4> HIDE DEF e
      <4> QED
        BY <3>2, <4>1, <4>2, Zenon DEF AwaitsOpen
    <3>4. CASE p = q
      BY <1>2, <3>1, <3>3, <3>4 DEF Announced, ServedProtocol
    <3>5. CASE p # q
      <4>1. port_service_map'[p] = port_service_map[p]
        BY <3>1, <3>5
      <4> QED
        BY <1>2, <3>3, <3>5, <4>1 DEF Announced, ServedProtocol
    <3> QED
      BY <3>4, <3>5
  <2> QED
    BY <2>1, <2>2
<1>5. CASE ProcessDelete(d)
  <2>1. /\ SameProtocols
        /\ todo'[d] = {CloseEvent(q) : q \in EmptiedPorts(port_service_map')}
        /\ \A x \in Discoveries \ {d} : todo'[x] = {}
    BY <1>1, <1>5, DeleteFacts DEF TypeOK
  <2>2. ~AwaitsOpen(p)'
    BY <2>1 DEF AwaitsOpen, CloseEvent
  <2> QED
    BY <1>2, <2>1, <2>2 DEF Announced, ServedProtocol, SameProtocols
<1>6. CASE ProcessSuspend(d) \/ ProcessResume(d)
  BY <1>3, <1>6, AvailabilityFacts DEF ProcessSuspend, ProcessResume
<1> QED
  BY <1>4, <1>5, <1>6 DEF ProcessEvent

\* Sending a PortEvent announces just what it says.
LEMMA AnnouncedSend ==
    ASSUME TypeOK, LocksExclusive, ListenersOK, NEW d \in Discoveries,
           NEW e \in todo[d], SendPortEvent(d, e), NEW p \in Ports
    PROVE  /\ Announced(p)' = IF p = e.port THEN Effect(e) ELSE Announced(p)
           /\ p = e.port => (e.type = "Open" <=> Announced(p) = None)
<1>1. /\ e \in PortEvents
      /\ \A x \in Discoveries \ {d} : todo[x] = {} /\ todo'[x] = {}
      /\ todo'[d] = todo[d] \ {e}
      /\ \A x \in todo[d] \ {e} : x.type = "Close"
      /\ e.type = "Open" => UNCHANGED port_service_map
      /\ e.type = "Close" => port_service_map'[e.port] = None
      /\ \A q \in Ports \ {e.port} : port_service_map'[q] = port_service_map[q]
  BY SendFacts
<1>2. ~AwaitsOpen(p)'
  BY <1>1 DEF AwaitsOpen
<1>3. AwaitsOpen(p) <=> p = e.port /\ e.type = "Open"
  BY <1>1 DEF AwaitsOpen
<1>4. /\ port_service_map[e.port] \in Services
      /\ e.type = "Open" => port_service_map[e.port].protocol = e.protocol
  BY <1>1, PortEventFacts DEF ListenersOK, TypeOK
<1>5. port_service_map[e.port] # None
      /\ port_service_map[e.port].protocol # None
  BY <1>4, ServiceFacts, NoneAssumption
<1>6. e.type \in {"Open", "Close"}
  BY <1>1, PortEventFacts
<1> QED
  BY <1>1, <1>2, <1>3, <1>4, <1>5, <1>6
     DEF Announced, ServedProtocol, Effect

\* The subscribers' part of the invariant.
LEMMA SubscribersStep ==
    ASSUME TypeOK, LocksExclusive, ListenersOK, SubscribersOK, [Next]_vars
    PROVE  SubscribersOK'
<1> DEFINE OK(s) ==
        /\ unsent[s] # {} => HoldsMapRead(s)
        /\ unsent[s] \subseteq OpenPorts
        /\ port_event_sender = s => subscriber[s] = "live"
        /\ subscriber[s] \in {"idle", "lock"} =>
               channel[s] = <<>> /\ view[s] = [p \in Ports |-> None]
        /\ HoldsMapRead(s) /\ receiving[s] =>
               \A p \in Ports : WillKnow(channel[s], view[s], p,
                   IF p \in unsent[s] THEN None ELSE ServedProtocol(p))
<1>0. /\ SubscribersOK <=> \A s \in Subscribers : OK(s)
      /\ SubscribersOK' <=> \A s \in Subscribers : OK(s)'
  BY DEF SubscribersOK
\* A subscriber whose own state stays is fine while the map stays as well, or
\* while it does not hold the map.
<1>1. ASSUME NEW s \in Subscribers,
             subscriber'[s] = subscriber[s], unsent'[s] = unsent[s],
             channel'[s] = channel[s], receiving'[s] = receiving[s],
             view'[s] = view[s],
             port_event_sender' = s => port_event_sender = s,
             UNCHANGED port_service_map \/ ~HoldsMapRead(s)
      PROVE  OK(s)'
  <2>1. OK(s)
    BY <1>0
  <2>2. CASE UNCHANGED port_service_map
    BY <1>1, <2>1, <2>2 DEF HoldsMapRead, OpenPorts, ServedProtocol
  <2>3. CASE ~HoldsMapRead(s)
    BY <1>1, <2>1, <2>3 DEF HoldsMapRead
  <2> QED
    BY <1>1, <2>2, <2>3
<1>2. ASSUME UNCHANGED <<port_event_sender, subscriber, unsent, channel,
                         receiving, view>>,
             \/ UNCHANGED port_service_map
             \/ \A s \in Subscribers : ~HoldsMapRead(s)
      PROVE  SubscribersOK'
  BY <1>0, <1>1, <1>2
<1> HIDE DEF OK
<1>3. ASSUME NEW d \in Discoveries, Discovery(d)
      PROVE  SubscribersOK'
  BY <1>2, <1>3 DEF Discovery, RegisterEndpointDiscovery, DiscoverySends,
     DiscoveryEnds, subscriberVars, consumerVars
<1>4. ASSUME NEW d \in Discoveries, ReceiveEvent(d) \/ ReceiveDisconnect(d)
                                        \/ LockSender(d)
      PROVE  SubscribersOK'
  BY <1>2, <1>4 DEF ReceiveEvent, ReceiveDisconnect, LockSender,
     subscriberVars, consumerVars
<1>5. ASSUME NEW d \in Discoveries, ProcessEvent(d)
      PROVE  SubscribersOK'
  BY <1>2, <1>5, ProcessFrame DEF MapWritable
<1>6. ASSUME NEW d \in Discoveries, NEW e \in todo[d],
             SendPortEvent(d, e) \/ SendPortEventFails(d, e)
      PROVE  SubscribersOK'
  <2>1. \A s \in Subscribers : ~HoldsMapRead(s)
    BY <1>6, SendFacts, OnlyWriter
  <2>2. UNCHANGED <<port_event_sender, subscriber, unsent, receiving, view>>
    BY <1>6 DEF SendPortEvent, SendPortEventFails, subscriberVars, consumerVars
  <2>3. ASSUME NEW s \in Subscribers
        PROVE  OK(s)'
    <3>1. CASE port_event_sender = s
      <4>1. OK(s)
        BY <1>0
      <4>2. subscriber[s] = "live"
        BY <3>1, <4>1 DEF OK
      <4> QED
        BY <2>1, <2>2, <4>1, <4>2 DEF OK, HoldsMapRead
    <3>2. CASE port_event_sender # s
      <4>1. channel'[s] = channel[s]
        BY <1>6, <3>2 DEF SendPortEvent, SendPortEventFails, TypeOK
      <4> QED
        BY <1>1, <2>1, <2>2, <4>1
    <3> QED
      BY <3>1, <3>2
  <2> QED
    BY <1>0, <2>3
<1>7. ASSUME NEW s \in Subscribers, Subscriber(s) \/ Reader(s)
      PROVE  SubscribersOK'
  <2>1. OK(s)
    BY <1>0
  <2>2. ASSUME NEW t \in Subscribers, t # s
        PROVE  OK(t)'
    <3>1. /\ subscriber'[t] = subscriber[t] /\ unsent'[t] = unsent[t]
          /\ channel'[t] = channel[t] /\ receiving'[t] = receiving[t]
          /\ view'[t] = view[t]
          /\ port_event_sender' = t => port_event_sender = t
          /\ UNCHANGED port_service_map
      BY <1>7, <2>2 DEF Subscriber, Reader, SendPortEventsTo,
         LockMapForReading, SendOpenPort, SendOpenPortFails, InstallSender,
         ReceivePortEvent, DropReceiver, subscriberVars, consumerVars, TypeOK
    <3> QED
      BY <1>1, <3>1
  <2> SUFFICES OK(s)'
    BY <1>0, <2>2
  <2>3. CASE SendPortEventsTo(s)
    BY <2>1, <2>3 DEF OK, SendPortEventsTo, consumerVars, HoldsMapRead,
       OpenPorts, TypeOK
  <2>4. CASE LockMapForReading(s)
    <3>1. /\ subscriber'[s] = "sync" /\ unsent'[s] = OpenPorts
          /\ channel'[s] = <<>> /\ view'[s] = [p \in Ports |-> None]
          /\ port_event_sender' # s
          /\ UNCHANGED port_service_map
      BY <2>1, <2>4 DEF OK, LockMapForReading, consumerVars, TypeOK
    <3>2. OpenPorts' = OpenPorts
      BY <3>1 DEF OpenPorts
    <3>3. ASSUME NEW p \in Ports
          PROVE  WillKnow(<<>>, [q \in Ports |-> None], p,
                     IF p \in OpenPorts THEN None ELSE ServedProtocol(p)')
      BY <3>1 DEF WillKnow, About, OpenPorts, ServedProtocol
    <3> QED
      BY <3>1, <3>2, <3>3 DEF OK, HoldsMapRead
  <2>5. ASSUME NEW p \in Ports, SendOpenPort(s, p)
        PROVE  OK(s)'
    <3> DEFINE e == OpenEvent(p, port_service_map[p].protocol)
    <3>1. /\ subscriber'[s] = "sync" /\ subscriber[s] = "sync"
          /\ unsent'[s] = unsent[s] \ {p} /\ p \in unsent[s]
          /\ channel'[s] = Append(channel[s], e)
          /\ view'[s] = view[s] /\ receiving[s]
          /\ UNCHANGED <<port_event_sender, port_service_map>>
      BY <2>5 DEF SendOpenPort, consumerVars, TypeOK
    <3>2. p \in OpenPorts
      BY <2>1, <3>1 DEF OK
    <3>3. port_service_map[p] \in Services
      BY <3>2 DEF OpenPorts, TypeOK
    <3>4. /\ e \in PortEvents /\ e.port = p
          /\ Effect(e) = port_service_map[p].protocol
      BY <3>3, ServiceFacts, PortEventTypes DEF Effect
    <3>5. channel[s] \in Seq(PortEvents)
      BY DEF TypeOK
    <3> HIDE DEF e
    <3>6. ASSUME NEW q \in Ports
          PROVE  WillKnow(Append(channel[s], e), view[s], q,
                     IF q \in unsent'[s] THEN None ELSE ServedProtocol(q)')
      <4>1. ServedProtocol(q)' = ServedProtocol(q)
        BY <3>1 DEF ServedProtocol
      <4>2. CASE q = p
        <5>1. ServedProtocol(q) = Effect(e) /\ q \notin unsent'[s]
          BY <3>1, <3>2, <3>4, <4>2 DEF ServedProtocol, OpenPorts
        <5> QED
          BY <3>4, <3>5, <4>1, <4>2, <5>1, KnowAppended
      <4>3. CASE q # p
        <5>1. q \in unsent'[s] <=> q \in unsent[s]
          BY <3>1, <4>3
        <5>2. WillKnow(channel[s], view[s], q,
                  IF q \in unsent[s] THEN None ELSE ServedProtocol(q))
          BY <2>1, <3>1 DEF OK, HoldsMapRead
        <5> QED
          BY <3>4, <3>5, <4>1, <4>3, <5>1, <5>2, KnowOthers
      <4> QED
        BY <4>2, <4>3
    <3>7. OpenPorts' = OpenPorts
      BY <3>1 DEF OpenPorts
    <3> QED
      BY <2>1, <3>1, <3>6, <3>7 DEF OK, HoldsMapRead
  <2>6. CASE SendOpenPortFails(s)
    BY <2>1, <2>6 DEF OK, SendOpenPortFails, consumerVars, HoldsMapRead,
       OpenPorts, TypeOK
  <2>7. CASE InstallSender(s)
    BY <2>1, <2>7 DEF OK, InstallSender, consumerVars, HoldsMapRead,
       OpenPorts, TypeOK
  <2>8. CASE ReceivePortEvent(s)
    <3> DEFINE e == Head(channel[s])
    <3>1. /\ channel[s] # <<>> /\ channel'[s] = Tail(channel[s])
          /\ view'[s] = [view[s] EXCEPT ![e.port] = Effect(e)]
          /\ UNCHANGED <<subscriber, unsent, receiving, port_event_sender,
                         port_service_map>>
      BY <2>8 DEF ReceivePortEvent, subscriberVars, TypeOK
    <3>2. /\ channel[s] \in Seq(PortEvents)
          /\ view[s] \in [Ports -> Protocols \cup {None}]
      BY DEF TypeOK
    <3>3. ASSUME NEW p \in Ports, NEW v, WillKnow(channel[s], view[s], p, v)
          PROVE  WillKnow(channel'[s], view'[s], p, v)
      BY <3>1, <3>2, <3>3, ReadOne
    <3>4. /\ OpenPorts' = OpenPorts
          /\ \A p \in Ports : ServedProtocol(p)' = ServedProtocol(p)
      BY <3>1 DEF OpenPorts, ServedProtocol
    <3> QED
      BY <2>1, <3>1, <3>3, <3>4 DEF OK, HoldsMapRead
  <2>9. CASE DropReceiver(s)
    <3>1. /\ channel'[s] = <<>> /\ ~receiving'[s]
          /\ UNCHANGED <<subscriber, unsent, view, port_event_sender,
                         port_service_map>>
      BY <2>9 DEF DropReceiver, subscriberVars, TypeOK
    <3> QED
      BY <2>1, <3>1 DEF OK, HoldsMapRead, OpenPorts
  <2> QED
    BY <1>7, <2>3, <2>4, <2>5, <2>6, <2>7, <2>8, <2>9 DEF Subscriber, Reader
<1>8. CASE DropManager \/ UNCHANGED vars
  BY <1>2, <1>8 DEF DropManager, vars, subscriberVars, consumerVars
<1> QED
  BY <1>3, <1>4, <1>5, <1>6, <1>7, <1>8 DEF Next, Listener

\* The installed subscriber keeps being told what is served.
LEMMA AccurateStep ==
    ASSUME TypeOK, LocksExclusive, ListenersOK, SubscribersOK, FeedAccurate,
           [Next]_vars
    PROVE  FeedAccurate'
<1>1. ASSUME UNCHANGED <<port_event_sender, channel, receiving, view>>,
             \A p \in Ports : Announced(p)' = Announced(p)
      PROVE  FeedAccurate'
  BY <1>1 DEF FeedAccurate
<1>2. ASSUME UNCHANGED <<todo, port_service_map>>, NEW p \in Ports
      PROVE  Announced(p)' = Announced(p)
  BY <1>2 DEF Announced, AwaitsOpen, ServedProtocol
<1>3. ASSUME NEW d \in Discoveries, Discovery(d)
      PROVE  FeedAccurate'
  BY <1>1, <1>2, <1>3 DEF Discovery, RegisterEndpointDiscovery, DiscoverySends,
     DiscoveryEnds, listenerVars, consumerVars
<1>4. ASSUME NEW d \in Discoveries, ReceiveEvent(d) \/ ReceiveDisconnect(d)
                                        \/ LockSender(d)
      PROVE  FeedAccurate'
  BY <1>1, <1>2, <1>4 DEF ReceiveEvent, ReceiveDisconnect, LockSender,
     consumerVars
<1>5. ASSUME NEW d \in Discoveries, ProcessEvent(d)
      PROVE  FeedAccurate'
  BY <1>1, <1>5, ProcessFrame, AnnouncedProcess
<1>6. ASSUME NEW d \in Discoveries, NEW e \in todo[d], SendPortEvent(d, e)
      PROVE  FeedAccurate'
  <2> SUFFICES ASSUME NEW s \in Subscribers, NEW p \in Ports,
                      port_event_sender' = s, receiving'[s]
               PROVE  WillKnow(channel'[s], view'[s], p, Announced(p)')
    BY DEF FeedAccurate
  <2>1. /\ port_event_sender = s /\ receiving[s] /\ view'[s] = view[s]
        /\ channel'[s] = Append(channel[s], e)
    BY <1>6, NoneAssumption DEF SendPortEvent, consumerVars, TypeOK
  <2>2. e \in PortEvents /\ channel[s] \in Seq(PortEvents)
    BY <1>6, SendFacts DEF TypeOK
  <2>3. WillKnow(channel[s], view[s], p, Announced(p))
    BY <2>1 DEF FeedAccurate
  <2>4. Announced(p)' = IF p = e.port THEN Effect(e) ELSE Announced(p)
    BY <1>6, AnnouncedSend
  <2>5. CASE p = e.port
    BY <2>1, <2>2, <2>4, <2>5, KnowAppended
  <2>6. CASE p # e.port
    BY <2>1, <2>2, <2>3, <2>4, <2>6, KnowOthers
  <2> QED
    BY <2>5, <2>6
<1>7. ASSUME NEW d \in Discoveries, NEW e \in todo[d], SendPortEventFails(d, e)
      PROVE  FeedAccurate'
  BY <1>7 DEF FeedAccurate, SendPortEventFails, consumerVars
<1>8. ASSUME NEW s \in Subscribers, Subscriber(s) \/ Reader(s)
      PROVE  FeedAccurate'
  <2>1. /\ UNCHANGED <<todo, port_service_map>>
        /\ \A p \in Ports : Announced(p)' = Announced(p)
    BY <1>2, <1>8 DEF Subscriber, Reader, SendPortEventsTo, LockMapForReading,
       SendOpenPort, SendOpenPortFails, InstallSender, ReceivePortEvent,
       DropReceiver, listenerVars
  <2>2. CASE SendPortEventsTo(s) \/ LockMapForReading(s) \/ SendOpenPortFails(s)
    BY <1>1, <2>1, <2>2 DEF SendPortEventsTo, LockMapForReading,
       SendOpenPortFails, consumerVars
  <2>3. ASSUME NEW p \in Ports, SendOpenPort(s, p)
        PROVE  FeedAccurate'
    <3>1. port_event_sender # s
      BY <2>3 DEF SendOpenPort, SubscribersOK
    <3>2. /\ UNCHANGED <<port_event_sender, receiving, view>>
          /\ \A t \in Subscribers \ {s} : channel'[t] = channel[t]
      BY <2>3 DEF SendOpenPort, consumerVars, TypeOK
    <3> QED
      BY <2>1, <3>1, <3>2 DEF FeedAccurate
  <2>4. CASE InstallSender(s)
    <3>1. /\ port_event_sender' = s /\ unsent[s] = {} /\ HoldsMapRead(s)
          /\ UNCHANGED <<channel, receiving, view>>
      BY <2>4 DEF InstallSender, consumerVars, HoldsMapRead
    <3>2. MapReadable
      BY <3>1 DEF MapReadable, LocksExclusive
    <3>3. ASSUME NEW p \in Ports, receiving[s]
          PROVE  WillKnow(channel[s], view[s], p, Announced(p))
      <4>1. WillKnow(channel[s], view[s], p, ServedProtocol(p))
        BY <3>1, <3>3 DEF SubscribersOK
      <4> QED
        BY <3>2, <4>1, AnnouncedReadable
    <3> QED
      BY <2>1, <3>1, <3>3 DEF FeedAccurate
  <2>5. CASE ReceivePortEvent(s)
    <3> SUFFICES ASSUME NEW t \in Subscribers, NEW p \in Ports,
                        port_event_sender' = t, receiving'[t]
                 PROVE  WillKnow(channel'[t], view'[t], p, Announced(p)')
      BY DEF FeedAccurate
    <3>1. WillKnow(channel[t], view[t], p, Announced(p))
      BY <2>5 DEF FeedAccurate, ReceivePortEvent
    <3>2. CASE t = s
      <4> DEFINE e == Head(channel[s])
      <4>1. /\ channel[s] # <<>> /\ channel'[s] = Tail(channel[s])
            /\ view'[s] = [view[s] EXCEPT ![e.port] = Effect(e)]
            /\ channel[s] \in Seq(PortEvents)
            /\ view[s] \in [Ports -> Protocols \cup {None}]
        BY <2>5 DEF ReceivePortEvent, TypeOK
      <4> QED
        BY <2>1, <3>1, <3>2, <4>1, ReadOne, SMTT(20)
    <3>3. CASE t # s
      <4>1. channel'[t] = channel[t] /\ view'[t] = view[t]
        BY <2>5, <3>3 DEF ReceivePortEvent, TypeOK
      <4> QED
        BY <2>1, <3>1, <4>1
    <3> QED
      BY <3>2, <3>3
  <2>6. CASE DropReceiver(s)
    <3>1. /\ ~receiving'[s] /\ UNCHANGED <<port_event_sender, view>>
          /\ \A t \in Subscribers \ {s} :
                 channel'[t] = channel[t] /\ receiving'[t] = receiving[t]
      BY <2>6 DEF DropReceiver, TypeOK
    <3> QED
      BY <2>1, <3>1 DEF FeedAccurate
  <2> QED
    BY <1>8, <2>2, <2>3, <2>4, <2>5, <2>6 DEF Subscriber, Reader
<1>9. CASE DropManager \/ UNCHANGED vars
  BY <1>1, <1>2, <1>9 DEF DropManager, vars, listenerVars, consumerVars
<1> QED
  BY <1>3, <1>4, <1>5, <1>6, <1>7, <1>8, <1>9 DEF Next, Listener

\* No subscriber is told twice to open or to close a port.
LEMMA AlternatesStep ==
    ASSUME TypeOK, LocksExclusive, ListenersOK, SubscribersOK, FeedAccurate,
           FeedAlternates, [Next]_vars
    PROVE  FeedAlternates'
<1>1. ASSUME UNCHANGED <<channel, view>>
      PROVE  FeedAlternates'
  BY <1>1 DEF FeedAlternates
<1>2. ASSUME NEW s \in Subscribers,
             \A t \in Subscribers \ {s} :
                 channel'[t] = channel[t] /\ view'[t] = view[t],
             \A p \in Ports : Alternates(channel'[s], view'[s], p)
      PROVE  FeedAlternates'
  BY <1>2 DEF FeedAlternates
<1>3. ASSUME NEW d \in Discoveries, Discovery(d)
      PROVE  FeedAlternates'
  BY <1>1, <1>3 DEF Discovery, RegisterEndpointDiscovery, DiscoverySends,
     DiscoveryEnds, consumerVars
<1>4. ASSUME NEW d \in Discoveries, ReceiveEvent(d) \/ ReceiveDisconnect(d)
                                        \/ LockSender(d)
      PROVE  FeedAlternates'
  BY <1>1, <1>4 DEF ReceiveEvent, ReceiveDisconnect, LockSender, consumerVars
<1>5. ASSUME NEW d \in Discoveries, ProcessEvent(d)
      PROVE  FeedAlternates'
  BY <1>1, <1>5, ProcessFrame
<1>6. ASSUME NEW d \in Discoveries, NEW e \in todo[d], SendPortEvent(d, e)
      PROVE  FeedAlternates'
  <2>1. CASE port_event_sender = None
    BY <1>1, <1>6, <2>1 DEF SendPortEvent, consumerVars
  <2>2. CASE port_event_sender # None
    <3> DEFINE s == port_event_sender
    <3>1. /\ s \in Subscribers /\ receiving[s] /\ UNCHANGED view
          /\ channel'[s] = Append(channel[s], e)
          /\ \A t \in Subscribers \ {s} : channel'[t] = channel[t]
      BY <1>6, <2>2 DEF SendPortEvent, consumerVars, TypeOK
    <3>2. e \in PortEvents /\ channel[s] \in Seq(PortEvents)
      BY <1>6, <3>1, SendFacts DEF TypeOK
    <3>3. ASSUME NEW p \in Ports
          PROVE  Alternates(Append(channel[s], e), view[s], p)
      <4>1. WillKnow(channel[s], view[s], p, Announced(p))
        BY <3>1 DEF FeedAccurate
      <4>2. p = e.port => (e.type = "Open" <=> Announced(p) = None)
        BY <1>6, AnnouncedSend
      <4>3. Alternates(channel[s], view[s], p)
        BY <3>1 DEF FeedAlternates
      <4> QED
        BY <3>2, <4>1, <4>2, <4>3, AlternatesAppended
    <3> QED
      BY <1>2, <3>1, <3>3
  <2> QED
    BY <2>1, <2>2
<1>7. ASSUME NEW d \in Discoveries, NEW e \in todo[d], SendPortEventFails(d, e)
      PROVE  FeedAlternates'
  BY <1>1, <1>7 DEF SendPortEventFails, consumerVars
<1>8. ASSUME NEW s \in Subscribers,
             \/ SendPortEventsTo(s) \/ LockMapForReading(s)
             \/ SendOpenPortFails(s) \/ InstallSender(s)
      PROVE  FeedAlternates'
  BY <1>1, <1>8 DEF SendPortEventsTo, LockMapForReading, SendOpenPortFails,
     InstallSender, consumerVars
<1>9. ASSUME NEW s \in Subscribers, NEW q \in Ports, SendOpenPort(s, q)
      PROVE  FeedAlternates'
  <2> DEFINE e == OpenEvent(q, port_service_map[q].protocol)
  <2>1. /\ q \in unsent[s] /\ HoldsMapRead(s) /\ receiving[s] /\ UNCHANGED view
        /\ channel'[s] = Append(channel[s], e)
        /\ \A t \in Subscribers \ {s} : channel'[t] = channel[t]
    BY <1>9 DEF SendOpenPort, HoldsMapRead, consumerVars, TypeOK
  <2>2. port_service_map[q] \in Services
    BY <2>1 DEF SubscribersOK, OpenPorts, TypeOK
  <2>3. e \in PortEvents /\ e.port = q /\ e.type = "Open"
    BY <2>2, ServiceFacts, PortEventTypes
  <2>4. channel[s] \in Seq(PortEvents)
    BY DEF TypeOK
  <2> HIDE DEF e
  <2>5. ASSUME NEW p \in Ports
        PROVE  Alternates(Append(channel[s], e), view[s], p)
    <3>1. p = q => WillKnow(channel[s], view[s], p, None)
      BY <2>1 DEF SubscribersOK
    <3>2. Alternates(channel[s], view[s], p)
      BY DEF FeedAlternates
    <3> QED
      BY <2>3, <2>4, <3>1, <3>2, AlternatesAppended
  <2> QED
    BY <1>2, <2>1, <2>5
<1>10. ASSUME NEW s \in Subscribers, ReceivePortEvent(s)
       PROVE  FeedAlternates'
  <2> DEFINE e == Head(channel[s])
  <2>1. /\ channel[s] # <<>> /\ channel'[s] = Tail(channel[s])
        /\ view'[s] = [view[s] EXCEPT ![e.port] = Effect(e)]
        /\ channel[s] \in Seq(PortEvents)
        /\ view[s] \in [Ports -> Protocols \cup {None}]
        /\ \A t \in Subscribers \ {s} :
               channel'[t] = channel[t] /\ view'[t] = view[t]
    BY <1>10 DEF ReceivePortEvent, TypeOK
  <2>2. ASSUME NEW p \in Ports
        PROVE  Alternates(channel'[s], view'[s], p)
    <3>1. Alternates(channel[s], view[s], p)
      BY DEF FeedAlternates
    <3> QED
      BY <2>1, <3>1, ReadOne
  <2> QED
    BY <1>2, <2>1, <2>2
<1>11. ASSUME NEW s \in Subscribers, DropReceiver(s)
       PROVE  FeedAlternates'
  <2>1. /\ channel'[s] = <<>> /\ UNCHANGED view
        /\ \A t \in Subscribers \ {s} : channel'[t] = channel[t]
    BY <1>11 DEF DropReceiver, TypeOK
  <2>2. \A p \in Ports : Alternates(channel'[s], view'[s], p)
    BY <2>1 DEF Alternates, About
  <2> QED
    BY <1>2, <2>1, <2>2
<1>12. CASE DropManager \/ UNCHANGED vars
  BY <1>1, <1>12 DEF DropManager, vars, consumerVars
<1> QED
  BY <1>3, <1>4, <1>5, <1>6, <1>7, <1>8, <1>9, <1>10, <1>11, <1>12
     DEF Next, Listener, Subscriber, Reader

-----------------------------------------------------------------------------
(* The theorems.                                                           *)

\* The invariant holds when the manager is created.
LEMMA InitIInv == Init => IInv
<1> SUFFICES ASSUME Init
             PROVE  IInv
  OBVIOUS
<1> USE DEF Init
<1>1. TypeOK
  BY BufferAssumption DEF TypeOK, ListenerStates, SubscriberStates
<1>2. FeedInv
  <2>1. LocksExclusive
    BY DEF LocksExclusive, HoldsMapWrite
  <2>2. ListenersOK
    BY DEF ListenersOK
  <2>3. SubscribersOK
    BY NoneAssumption DEF SubscribersOK, HoldsMapRead
  <2> QED
    BY <2>1, <2>2, <2>3 DEF FeedInv
<1>3. FeedAccurate
  BY NoneAssumption DEF FeedAccurate
<1>4. FeedAlternates
  BY DEF FeedAlternates, Alternates, About
<1>5. NoEmptyService
  BY DEF NoEmptyService, OpenPorts, EmptiedPorts
<1> QED
  BY <1>1, <1>2, <1>3, <1>4, <1>5 DEF IInv

\* Every step of every task preserves it.
LEMMA NextIInv == IInv /\ [Next]_vars => IInv'
<1> SUFFICES ASSUME TypeOK, LocksExclusive, ListenersOK, SubscribersOK,
                    FeedAccurate, FeedAlternates, NoEmptyService, [Next]_vars
             PROVE  IInv'
  BY DEF IInv, FeedInv
<1>1. TypeOK'
  BY TypeStep
<1>2. FeedInv'
  BY <1>1, LockStep, ListenersStep, SubscribersStep DEF FeedInv
<1> QED
  BY <1>1, <1>2, AccurateStep, AlternatesStep, NoEmptyStep DEF IInv

\* IInv is an invariant of the ServiceManager.
THEOREM Invariance == Spec => []IInv
  BY InitIInv, NextIInv, PTL DEF Spec

(***************************************************************************)
(* The state of the ServiceManager and its tasks keeps its types: no       *)
(* buffer exceeds its capacity, no task reads a service, an event or a     *)
(* subscriber that is not there.                                           *)
(***************************************************************************)
THEOREM TypeCorrect == Spec => []TypeOK
<1>1. IInv => TypeOK
  BY DEF IInv
<1> QED
  BY <1>1, Invariance, PTL

(***************************************************************************)
(* The map's lock, a listener's pending PortEvents and a subscriber's      *)
(* catching up agree in every reachable state.                             *)
(***************************************************************************)
THEOREM FeedConsistent == Spec => []FeedInv
<1>1. IInv => FeedInv
  BY DEF IInv
<1> QED
  BY <1>1, Invariance, PTL

(***************************************************************************)
(* The installed subscriber always comes to know exactly what is served:   *)
(* send_port_events_to and process_event lose, repeat and reorder nothing. *)
(***************************************************************************)
THEOREM FeedIsAccurate == Spec => []FeedAccurate
<1>1. IInv => FeedAccurate
  BY DEF IInv
<1> QED
  BY <1>1, Invariance, PTL

(***************************************************************************)
(* No subscriber is ever told to open a port that it has open or to close  *)
(* one that it has not.                                                    *)
(***************************************************************************)
THEOREM FeedIsAlternating == Spec => []FeedAlternates
<1>1. IInv => FeedAlternates
  BY DEF IInv
<1> QED
  BY <1>1, Invariance, PTL

(***************************************************************************)
(* Unless a listener died in send_event, a service without endpoints is    *)
(* always about to be closed.                                              *)
(***************************************************************************)
THEOREM EmptyServicesClose == Spec => []NoEmptyService
<1>1. IInv => NoEmptyService
  BY DEF IInv
<1> QED
  BY <1>1, Invariance, PTL

-----------------------------------------------------------------------------
(* Discoveries do not interfere.                                           *)

\* process_event for discovery d leaves the endpoints of the others alone.
LEMMA ProcessIsolation ==
    ASSUME TypeOK, ListenersOK, NEW d \in Discoveries, ProcessEvent(d),
           NEW p \in Ports, NEW c \in Discoveries, NEW u \in Uids, c # d
    PROVE  EndpointAt(p, <<c, u>>)' = EndpointAt(p, <<c, u>>)
<1> DEFINE id == EndpointId(d, event[d].uid)
           other == <<c, u>>
           svc == port_service_map[p]
<1>1. /\ event[d] \in Inputs
      /\ port_service_map \in [Ports -> Services \cup {None}]
  BY DEF ListenersOK, TypeOK, ProcessEvent, ProcessAdd, ProcessDelete,
     ProcessSuspend, ProcessResume, ProcessAvailability, Processing
<1>2. id \in EndpointIds /\ other \in EndpointIds /\ id # other
  BY <1>1, EndpointEventFacts DEF EndpointId, EndpointIds
<1>3. ASSUME svc # None,
             NEW x \in Endpoints \cup {None},
             port_service_map'[p] = [svc EXCEPT !.endpoints[id] = x]
      PROVE  EndpointAt(p, other)' = EndpointAt(p, other)
  <2>1. svc \in Services
    BY <1>1, <1>3
  <2> HIDE DEF id, other
  <2>2. /\ port_service_map'[p] \in Services
        /\ port_service_map'[p].endpoints = [svc.endpoints EXCEPT ![id] = x]
    BY <1>2, <1>3, <2>1, ServiceWith
  <2>3. svc.endpoints \in [EndpointIds -> Endpoints \cup {None}]
    BY <2>1, ServiceFacts
  <2>4. port_service_map'[p].endpoints[other] = svc.endpoints[other]
    BY <1>2, <2>2, <2>3
  <2> QED
    BY <1>3, <2>2, <2>4, ServiceFacts DEF EndpointAt
<1>4. ASSUME port_service_map'[p] = svc
      PROVE  EndpointAt(p, other)' = EndpointAt(p, other)
  BY <1>4 DEF EndpointAt
<1>5. CASE ProcessAdd(d)
  <2> DEFINE port == event[d].external_port
             endpoint == [is_available |-> event[d].is_available,
                          backend |-> event[d].backend]
  <2>1. port \in Ports /\ endpoint \in Endpoints
    BY <1>1, <1>5, EndpointEventFacts DEF ProcessAdd, Processing, Endpoints
  <2>2. CASE p # port
    <3>1. port_service_map'[p] = svc
      BY <1>1, <1>5, <2>2 DEF ProcessAdd
    <3> QED
      BY <1>4, <3>1
  <2>3. CASE p = port /\ svc # None
    <3>1. port_service_map'[p] = [svc EXCEPT !.endpoints[id] = endpoint]
      BY <1>1, <1>5, <2>1, <2>3 DEF ProcessAdd
    <3> HIDE DEF endpoint, id, svc
    <3> QED
      BY <1>3, <2>1, <2>3, <3>1
  <2>4. CASE p = port /\ svc = None
    <3> DEFINE new == [protocol |-> event[d].external_protocol,
                       endpoints |-> [NoEndpoints EXCEPT ![id] = endpoint]]
    <3>1. port_service_map'[p] = new
      BY <1>1, <1>5, <2>1, <2>4 DEF ProcessAdd
    <3>2. new.endpoints[other] = None
      BY <1>2 DEF NoEndpoints
    <3> HIDE DEF new
    <3> QED
      BY <2>4, <3>1, <3>2 DEF EndpointAt
  <2> QED
    BY <2>2, <2>3, <2>4
<1>6. CASE ProcessDelete(d)
  <2>1. port_service_map'[p] = IF svc = None THEN None
                               ELSE [svc EXCEPT !.endpoints[id] = None]
    BY <1>6 DEF ProcessDelete
  <2> HIDE DEF id, svc
  <2> QED
    BY <1>3, <1>4, <2>1
<1>7. ASSUME NEW type, NEW flag \in BOOLEAN, ProcessAvailability(d, type, flag)
      PROVE  EndpointAt(p, other)' = EndpointAt(p, other)
  <2> DEFINE x == [svc.endpoints[id] EXCEPT !.is_available = flag]
  <2>1. port_service_map'[p] =
            IF svc # None /\ svc.endpoints[id] # None
            THEN [svc EXCEPT !.endpoints[id] = x] ELSE svc
    BY <1>7 DEF ProcessAvailability
  <2>2. CASE svc # None /\ svc.endpoints[id] # None
    <3>1. svc \in Services
      BY <1>1, <2>2
    <3>2. svc.endpoints[id] \in Endpoints
      BY <1>2, <2>2, <3>1, ServiceFacts
    <3>3. x \in Endpoints
      BY <3>2 DEF Endpoints
    <3> HIDE DEF id, svc, other, x
    <3> QED
      BY <1>3, <2>1, <2>2, <3>3
  <2>3. CASE ~(svc # None /\ svc.endpoints[id] # None)
    <3> HIDE DEF id, svc, other, x
    <3> QED
      BY <1>4, <2>1, <2>3
  <2> QED
    BY <2>2, <2>3
<1> QED
  BY <1>5, <1>6, <1>7 DEF ProcessEvent, ProcessSuspend, ProcessResume

\* No step changes the endpoints of a discovery whose listener stands still.
LEMMA IsolationStep ==
    ASSUME TypeOK, LocksExclusive, ListenersOK, [Next]_vars,
           NEW c \in Discoveries, listener'[c] = listener[c],
           NEW p \in Ports, NEW u \in Uids
    PROVE  EndpointAt(p, <<c, u>>)' = EndpointAt(p, <<c, u>>)
<1> DEFINE id == <<c, u>>
<1>1. ASSUME UNCHANGED port_service_map
      PROVE  EndpointAt(p, id)' = EndpointAt(p, id)
  BY <1>1 DEF EndpointAt
<1>2. ASSUME NEW d \in Discoveries, ProcessEvent(d)
      PROVE  EndpointAt(p, id)' = EndpointAt(p, id)
  <2>1. c # d
    BY <1>2 DEF ProcessEvent, ProcessAdd, ProcessDelete, ProcessSuspend,
       ProcessResume, ProcessAvailability, Processing, TypeOK
  <2> QED
    BY <1>2, <2>1, ProcessIsolation
<1>3. ASSUME NEW d \in Discoveries, NEW e \in todo[d],
             SendPortEvent(d, e) \/ SendPortEventFails(d, e)
      PROVE  EndpointAt(p, id)' = EndpointAt(p, id)
  <2>1. CASE e.type = "Open"
    BY <1>1, <1>3, <2>1, SendFacts
  <2>2. CASE e.type = "Close"
    <3>1. CASE p = e.port
      <4>1. /\ port_service_map'[p] = None
            /\ port_service_map[p].endpoints = NoEndpoints
        BY <1>3, <2>2, <3>1, SendFacts DEF ListenersOK
      <4>2. id \in EndpointIds
        BY DEF EndpointIds
      <4> HIDE DEF id
      <4> QED
        BY <4>1, <4>2 DEF EndpointAt, NoEndpoints
    <3>2. CASE p # e.port
      BY <1>3, <3>2, SendFacts DEF EndpointAt
    <3> QED
      BY <3>1, <3>2
  <2> QED
    BY <1>3, <2>1, <2>2, SendFacts, PortEventFacts
<1>4. ASSUME NEW d \in Discoveries,
             Discovery(d) \/ ReceiveEvent(d) \/ ReceiveDisconnect(d)
                 \/ LockSender(d)
      PROVE  EndpointAt(p, id)' = EndpointAt(p, id)
  BY <1>1, <1>4 DEF Discovery, RegisterEndpointDiscovery, DiscoverySends,
     DiscoveryEnds, ReceiveEvent, ReceiveDisconnect, LockSender
<1>5. ASSUME NEW s \in Subscribers, Subscriber(s) \/ Reader(s)
      PROVE  EndpointAt(p, id)' = EndpointAt(p, id)
  BY <1>1, <1>5 DEF Subscriber, Reader, SendPortEventsTo, LockMapForReading,
     SendOpenPort, SendOpenPortFails, InstallSender, ReceivePortEvent,
     DropReceiver
<1>6. CASE DropManager \/ UNCHANGED vars
  BY <1>1, <1>6 DEF DropManager, vars
<1> QED
  BY <1>2, <1>3, <1>4, <1>5, <1>6 DEF Next, Listener

(***************************************************************************)
(* An endpoint changes only in a step of the listener of the discovery     *)
(* that reported it, whatever ports and uids the discoveries share.        *)
(***************************************************************************)
THEOREM DiscoveriesIsolated == Spec => DiscoveryIsolation
<1>1. ASSUME IInv, [Next]_vars
      PROVE  [\A d \in Discoveries : listener'[d] = listener[d] =>
                 \A p \in Ports, u \in Uids :
                     EndpointAt(p, <<d, u>>)' = EndpointAt(p, <<d, u>>)]_vars
  BY <1>1, IsolationStep DEF IInv, FeedInv
<1> QED
  BY <1>1, Invariance, PTL DEF Spec, DiscoveryIsolation

-----------------------------------------------------------------------------
(* The protocol of a port.                                                 *)

\* No two Adds disagree on the protocol of a port.
OneProtocolPerPort ==
    \A e, f \in Inputs :
        /\ e.type = "Add" /\ f.type = "Add"
        /\ e.external_port = f.external_port
        => e.external_protocol = f.external_protocol

\* A service has the protocol of every Add of its port.
ProtocolsAgree ==
    \A p \in Ports : port_service_map[p] # None =>
        \A e \in Inputs : e.type = "Add" /\ e.external_port = p =>
            e.external_protocol = port_service_map[p].protocol

\* The port of a processed Add: its service is new or keeps its protocol.
LEMMA AddedProtocol ==
    ASSUME TypeOK, ListenersOK, NEW d \in Discoveries, ProcessAdd(d)
    PROVE  /\ event[d] \in Inputs /\ event[d].type = "Add"
           /\ event[d].external_port \in Ports
           /\ port_service_map'[event[d].external_port].protocol =
                  IF port_service_map[event[d].external_port] = None
                  THEN event[d].external_protocol
                  ELSE port_service_map[event[d].external_port].protocol
           /\ \A p \in Ports \ {event[d].external_port} :
                  port_service_map'[p] = port_service_map[p]
<1> DEFINE port == event[d].external_port
           id == EndpointId(d, event[d].uid)
           endpoint == [is_available |-> event[d].is_available,
                        backend |-> event[d].backend]
           svc == port_service_map[port]
<1>1. event[d] \in Inputs /\ event[d].type = "Add"
  BY DEF ListenersOK, TypeOK, ProcessAdd, Processing
<1>2. /\ port \in Ports /\ id \in EndpointIds /\ endpoint \in Endpoints
      /\ port_service_map \in [Ports -> Services \cup {None}]
  BY <1>1, EndpointEventFacts DEF EndpointId, EndpointIds, Endpoints, TypeOK
<1>3. \A p \in Ports \ {port} : port_service_map'[p] = port_service_map[p]
  BY <1>2 DEF ProcessAdd
<1>4. CASE svc = None
  <2>1. port_service_map'[port] =
            [protocol |-> event[d].external_protocol,
             endpoints |-> [NoEndpoints EXCEPT ![id] = endpoint]]
    BY <1>2, <1>4 DEF ProcessAdd
  <2>2. port_service_map'[port].protocol = event[d].external_protocol
    BY <2>1
  <2> QED
    BY <1>1, <1>2, <1>3, <1>4, <2>2
<1>5. CASE svc # None
  <2>1. port_service_map'[port] = [svc EXCEPT !.endpoints[id] = endpoint]
    BY <1>2, <1>5 DEF ProcessAdd
  <2>2. svc \in Services
    BY <1>2, <1>5
  <2> HIDE DEF id, endpoint
  <2>3. port_service_map'[port].protocol = svc.protocol
    BY <1>2, <2>1, <2>2 DEF Services
  <2> QED
    BY <1>1, <1>2, <1>3, <1>5, <2>3
<1> QED
  BY <1>4, <1>5

\* Every step keeps the protocols in agreement.
LEMMA ProtocolsStep ==
    ASSUME OneProtocolPerPort, IInv, ProtocolsAgree, [Next]_vars
    PROVE  ProtocolsAgree'
<1>1. TypeOK /\ LocksExclusive /\ ListenersOK
  BY DEF IInv, FeedInv
<1>2. ASSUME \A p \in Ports : port_service_map'[p] # None =>
                 /\ port_service_map[p] # None
                 /\ port_service_map'[p].protocol
                        = port_service_map[p].protocol
      PROVE  ProtocolsAgree'
  BY <1>2 DEF ProtocolsAgree
<1>3. ASSUME NEW d \in Discoveries, ProcessAdd(d) PROVE ProtocolsAgree'
  <2> DEFINE port == event[d].external_port
  <2>1. ASSUME NEW e \in Inputs, e.type = "Add", e.external_port = port
        PROVE  e.external_protocol = port_service_map'[port].protocol
    <3>1. CASE port_service_map[port] = None
      BY <1>1, <1>3, <2>1, <3>1, AddedProtocol DEF OneProtocolPerPort
    <3>2. CASE port_service_map[port] # None
      BY <1>1, <1>3, <2>1, <3>2, AddedProtocol DEF ProtocolsAgree
    <3> QED
      BY <3>1, <3>2
  <2>2. \A p \in Ports \ {port} : port_service_map'[p] = port_service_map[p]
    BY <1>1, <1>3, AddedProtocol
  <2> QED
    BY <2>1, <2>2 DEF ProtocolsAgree
<1>4. ASSUME SameProtocols PROVE ProtocolsAgree'
  BY <1>2, <1>4 DEF SameProtocols
<1>5. ASSUME NEW d \in Discoveries, ProcessEvent(d) PROVE ProtocolsAgree'
  BY <1>1, <1>3, <1>4, <1>5, DeleteFacts, AvailabilityFacts
  DEF ProcessEvent, ProcessSuspend, ProcessResume
<1>6. ASSUME NEW d \in Discoveries, NEW e \in todo[d],
             SendPortEvent(d, e) \/ SendPortEventFails(d, e)
      PROVE  ProtocolsAgree'
  BY <1>1, <1>2, <1>6, SendFacts, PortEventFacts
<1>7. ASSUME UNCHANGED port_service_map PROVE ProtocolsAgree'
  BY <1>2, <1>7
<1>8. ASSUME NEW d \in Discoveries,
             Discovery(d) \/ ReceiveEvent(d) \/ ReceiveDisconnect(d)
                 \/ LockSender(d)
      PROVE  ProtocolsAgree'
  BY <1>7, <1>8 DEF Discovery, RegisterEndpointDiscovery, DiscoverySends,
     DiscoveryEnds, ReceiveEvent, ReceiveDisconnect, LockSender
<1>9. ASSUME NEW s \in Subscribers, Subscriber(s) \/ Reader(s)
      PROVE  ProtocolsAgree'
  BY <1>7, <1>9 DEF Subscriber, Reader, SendPortEventsTo, LockMapForReading,
     SendOpenPort, SendOpenPortFails, InstallSender, ReceivePortEvent,
     DropReceiver
<1>10. CASE DropManager \/ UNCHANGED vars
  BY <1>7, <1>10 DEF DropManager, vars
<1> QED
  BY <1>5, <1>6, <1>8, <1>9, <1>10 DEF Next, Listener

(***************************************************************************)
(* Discoveries that agree on the protocol of each port get what they ask   *)
(* for: every processed Add leaves its port served with its                *)
(* external_protocol.  That process_event does not look at                 *)
(* external_protocol when the port is served matters only if they do not.  *)
(***************************************************************************)
THEOREM AgreedProtocolIsSet ==
    ASSUME OneProtocolPerPort
    PROVE  Spec => AddSetsProtocol
<1>1. Init => ProtocolsAgree
  BY DEF Init, ProtocolsAgree
<1>2. IInv /\ ProtocolsAgree /\ [Next]_vars => ProtocolsAgree'
  BY ProtocolsStep
<1>3. IInv /\ ProtocolsAgree /\ [Next]_vars =>
          [\A d \in Discoveries : ProcessAdd(d) =>
              port_service_map'[event[d].external_port].protocol
                  = event[d].external_protocol]_vars
  <2> SUFFICES ASSUME IInv, ProtocolsAgree, NEW d \in Discoveries,
                      ProcessAdd(d)
               PROVE  port_service_map'[event[d].external_port].protocol
                          = event[d].external_protocol
    OBVIOUS
  <2>1. TypeOK /\ ListenersOK
    BY DEF IInv, FeedInv
  <2> QED
    BY <2>1, AddedProtocol DEF ProtocolsAgree
<1> QED
  BY <1>1, <1>2, <1>3, Invariance, PTL DEF Spec, AddSetsProtocol
=============================================================================
