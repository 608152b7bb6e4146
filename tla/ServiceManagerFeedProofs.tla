---------------------- MODULE ServiceManagerFeedProofs ----------------------
(***************************************************************************)
(* The proof that ServiceManager implements PortFeed: its initial states   *)
(* are initial states of the feed, and each of its steps is a step of the  *)
(* feed or changes nothing that the feed shows.                            *)
(***************************************************************************)
EXTENDS ServiceManagerFeed, ServiceManagerProofs

-----------------------------------------------------------------------------
(* The two mapped variables.                                               *)

\* A send_event that fails announces what it would have said, to no one.
LEMMA AnnouncedFails ==
    ASSUME TypeOK, LocksExclusive, ListenersOK, NEW d \in Discoveries,
           NEW e \in todo[d], SendPortEventFails(d, e), NEW p \in Ports
    PROVE  /\ Announced(p)' = IF p = e.port THEN Effect(e) ELSE Announced(p)
           /\ p = e.port => (e.type = "Open" <=> Announced(p) = None)
<1>0. todo'[d] = {}
  BY DEF SendPortEventFails, TypeOK
<1>1. /\ e \in PortEvents
      /\ \A x \in Discoveries \ {d} : todo[x] = {} /\ todo'[x] = {}
      /\ \A x \in todo[d] \ {e} : x.type = "Close"
      /\ e.type = "Open" => UNCHANGED port_service_map
      /\ e.type = "Close" => port_service_map'[e.port] = None
      /\ \A q \in Ports \ {e.port} : port_service_map'[q] = port_service_map[q]
  BY SendFacts
<1>2. ~AwaitsOpen(p)'
  BY <1>0, <1>1 DEF AwaitsOpen
<1>3. AwaitsOpen(p) <=> p = e.port /\ e.type = "Open"
  BY <1>1 DEF AwaitsOpen
<1>4. /\ port_service_map[e.port] \in Services
      /\ e.type = "Open" => port_service_map[e.port].protocol = e.protocol
  BY <1>1, PortEventFacts DEF ListenersOK, TypeOK
<1>5. port_service_map[e.port] # None
      /\ port_service_map[e.port].protocol # None
  BY <1>4, ServiceFacts, NoneAssumption
<1>6. e.type \in {"Open", "Close"}
  BY <1>1, PortEventFacts
<1> QED
  BY <1>1, <1>2, <1>3, <1>4, <1>5, <1>6
     DEF Announced, ServedProtocol, Effect

\* What is announced of a port depends on the map and on what is pending.
LEMMA AnnouncedFrame ==
    ASSUME UNCHANGED <<todo, port_service_map>>, NEW p \in Ports
    PROVE  Announced(p)' = Announced(p)
  BY DEF Announced, AwaitsOpen, ServedProtocol

\* The phase of a subscription depends on its task and on the sender.
LEMMA PhaseFrame ==
    ASSUME UNCHANGED <<subscriber, port_event_sender>>, NEW s \in Subscribers
    PROVE  SubscriptionPhase(s)' = SubscriptionPhase(s)
  BY DEF SubscriptionPhase

\* In PortFeed's words a PortEvent tells its effect.
LEMMA EventTells ==
    ASSUME NEW e \in PortEvents
    PROVE  /\ e = Abstract!Tells(e.port, Effect(e))
           /\ Abstract!Told(e) = Effect(e)
<1>1. CASE e.type = "Open"
  <2>1. e = OpenEvent(e.port, e.protocol) /\ e.protocol # None
    BY <1>1, PortEventFacts, NoneAssumption
  <2>2. Effect(e) = e.protocol
    BY <1>1 DEF Effect
  <2> QED
    BY <1>1, <2>1, <2>2 DEF OpenEvent, Abstract!Tells, Abstract!Told
<1>2. CASE e.type = "Close"
  <2>1. e = CloseEvent(e.port)
    BY <1>2, PortEventFacts
  <2>2. Effect(e) = None
    BY <1>2 DEF Effect
  <2> QED
    BY <1>2, <2>1, <2>2 DEF CloseEvent, Abstract!Tells, Abstract!Told
<1> QED
  BY <1>1, <1>2, PortEventFacts

-----------------------------------------------------------------------------
(* The steps.                                                              *)

\* A step that shows nothing is a stuttering step of the feed.
LEMMA HiddenStep ==
    ASSUME \A p \in Ports : Announced(p)' = Announced(p),
           UNCHANGED <<subscriber, port_event_sender, unsent, channel,
                       receiving, view>>
    PROVE  UNCHANGED Abstract!feedVars
<1>1. \A s \in Subscribers : SubscriptionPhase(s)' = SubscriptionPhase(s)
  BY PhaseFrame
<1> QED
  BY <1>1 DEF Abstract!feedVars

\* Sending a PortEvent, or failing to, is a change of the served ports.
LEMMA SendStep ==
    ASSUME TypeOK, LocksExclusive, ListenersOK, SubscribersOK,
           NEW d \in Discoveries, NEW e \in todo[d],
           SendPortEvent(d, e) \/ SendPortEventFails(d, e)
    PROVE  Abstract!Change(e.port, Effect(e))
<1>1. /\ e \in PortEvents
      /\ e.port \in Ports
      /\ Effect(e) \in Protocols \cup {None}
      /\ Effect(e) = None <=> e.type = "Close"
      /\ e.type \in {"Open", "Close"}
      /\ HoldsMapWrite(d)
  BY SendFacts, PortEventFacts
<1>2. \A p \in Ports :
          /\ Announced(p)' = IF p = e.port THEN Effect(e) ELSE Announced(p)
          /\ p = e.port => (e.type = "Open" <=> Announced(p) = None)
  BY AnnouncedSend, AnnouncedFails
<1>3. \A s \in Subscribers : SubscriptionPhase(s)' = SubscriptionPhase(s)
  BY PhaseFrame DEF SendPortEvent, SendPortEventFails, subscriberVars
<1>4. \A s \in Subscribers : SubscriptionPhase(s) # "catching up"
  <2>1. \A s \in Subscribers : subscriber[s] # "sync"
    BY <1>1, OnlyWriter DEF HoldsMapRead
  <2> QED
    BY <2>1 DEF SubscriptionPhase
<1>5. \A s \in Subscribers :
          SubscriptionPhase(s) = "live" <=> port_event_sender = s
  <2>1. ASSUME NEW s \in Subscribers, port_event_sender = s
        PROVE  subscriber[s] = "live"
    BY <2>1 DEF SubscribersOK
  <2> QED
    BY <2>1 DEF SubscriptionPhase
<1>6. (Announced(e.port) = None) # (Effect(e) = None)
  BY <1>1, <1>2
<1>7. \/ /\ port_event_sender \in Subscribers
         /\ receiving[port_event_sender]
         /\ Len(channel[port_event_sender]) < PortBufferSize
         /\ channel' = [channel EXCEPT ![port_event_sender] = Append(@, e)]
      \/ /\ \A s \in Subscribers : ~(port_event_sender = s /\ receiving[s])
         /\ UNCHANGED channel
  BY NoneAssumption DEF SendPortEvent, SendPortEventFails, HasRoom, TypeOK
<1>8. UNCHANGED <<unsent, receiving, view>>
  BY DEF SendPortEvent, SendPortEventFails, subscriberVars, consumerVars
<1>9. e = Abstract!Tells(e.port, Effect(e))
  BY <1>1, EventTells
<1>10. [p \in Ports |-> Announced(p)]'
           = [[p \in Ports |-> Announced(p)] EXCEPT ![e.port] = Effect(e)]
  BY <1>1, <1>2
<1>11. \/ \E s \in Subscribers :
              Abstract!Reachable(s)
              /\ Abstract!Post(s, Abstract!Tells(e.port, Effect(e)))
       \/ /\ \A s \in Subscribers : ~Abstract!Reachable(s)
          /\ UNCHANGED channel
  BY <1>5, <1>7, <1>9 DEF Abstract!Reachable, Abstract!Post
<1> QED
  BY <1>1, <1>3, <1>4, <1>6, <1>8, <1>10, <1>11 DEF Abstract!Change

\* Every step of the manager is a step of the feed or hidden from it.
LEMMA FeedStep ==
    ASSUME TypeOK, LocksExclusive, ListenersOK, SubscribersOK, [Next]_vars
    PROVE  [Abstract!FeedNext]_(Abstract!feedVars)
<1> DEFINE Goal == [Abstract!FeedNext]_(Abstract!feedVars)
<1>1. ASSUME UNCHANGED <<todo, port_service_map, subscriber,
                         port_event_sender, unsent, channel, receiving, view>>
      PROVE  Goal
  BY <1>1, AnnouncedFrame, HiddenStep
<1>2. CASE UNCHANGED vars
  BY <1>1, <1>2 DEF vars
<1>3. CASE DropManager
  BY <1>1, <1>3 DEF DropManager, listenerVars, subscriberVars, consumerVars
<1>4. ASSUME NEW d \in Discoveries, Discovery(d)
      PROVE  Goal
  BY <1>1, <1>4 DEF Discovery, RegisterEndpointDiscovery, DiscoverySends,
     DiscoveryEnds, listenerVars, subscriberVars, consumerVars
<1>5. ASSUME NEW d \in Discoveries,
             ReceiveEvent(d) \/ ReceiveDisconnect(d) \/ LockSender(d)
      PROVE  Goal
  BY <1>1, <1>5 DEF ReceiveEvent, ReceiveDisconnect, LockSender,
     subscriberVars, consumerVars
<1>6. ASSUME NEW d \in Discoveries, ProcessEvent(d)
      PROVE  Goal
  BY <1>6, ProcessFrame, AnnouncedProcess, HiddenStep
<1>7. ASSUME NEW d \in Discoveries, NEW e \in todo[d],
             SendPortEvent(d, e) \/ SendPortEventFails(d, e)
      PROVE  Goal
  <2>1. Abstract!Change(e.port, Effect(e))
    BY <1>7, SendStep
  <2>2. e.port \in Ports /\ Effect(e) \in Protocols \cup {None}
    BY <1>7, SendFacts, PortEventFacts
  <2> QED
    BY <2>1, <2>2 DEF Abstract!FeedNext, Abstract!Feed
<1>8. ASSUME NEW s \in Subscribers, SendPortEventsTo(s)
      PROVE  Goal
  <2>1. \A p \in Ports : Announced(p)' = Announced(p)
    BY <1>8, AnnouncedFrame DEF SendPortEventsTo, listenerVars
  <2>2. \A t \in Subscribers : SubscriptionPhase(t)' = SubscriptionPhase(t)
    BY <1>8 DEF SendPortEventsTo, SubscriptionPhase, TypeOK
  <2>3. UNCHANGED <<unsent, channel, receiving, view>>
    BY <1>8 DEF SendPortEventsTo, consumerVars
  <2> QED
    BY <2>1, <2>2, <2>3 DEF Abstract!feedVars
<1>9. ASSUME NEW s \in Subscribers, LockMapForReading(s)
      PROVE  Goal
  <2>1. \A p \in Ports : Announced(p)' = Announced(p)
    BY <1>9, AnnouncedFrame DEF LockMapForReading, listenerVars
  <2>2. /\ SubscriptionPhase(s) = "off"
        /\ \A t \in Subscribers : SubscriptionPhase(t)' =
               IF t = s THEN "catching up" ELSE SubscriptionPhase(t)
    BY <1>9 DEF LockMapForReading, SubscriptionPhase, TypeOK
  <2>3. OpenPorts = {p \in Ports : Announced(p) # None}
    <3>1. \A p \in Ports : Announced(p) = ServedProtocol(p)
      BY <1>9, AnnouncedReadable DEF LockMapForReading
    <3>2. \A p \in Ports : ServedProtocol(p) # None <=> port_service_map[p] # None
      BY ServiceFacts, NoneAssumption DEF ServedProtocol, TypeOK
    <3> QED
      BY <3>1, <3>2 DEF OpenPorts
  <2>4. /\ unsent' = [unsent EXCEPT ![s] = OpenPorts]
        /\ UNCHANGED <<channel, receiving, view>>
    BY <1>9 DEF LockMapForReading, consumerVars
  <2>5. [t \in Subscribers |-> SubscriptionPhase(t)]'
            = [[t \in Subscribers |-> SubscriptionPhase(t)]
                  EXCEPT ![s] = "catching up"]
    BY <2>2
  <2>6. Abstract!Begin(s)
    BY <2>1, <2>2, <2>3, <2>4, <2>5 DEF Abstract!Begin
  <2> QED
    BY <2>6 DEF Abstract!FeedNext, Abstract!Feed
<1>10. ASSUME NEW s \in Subscribers, NEW p \in Ports, SendOpenPort(s, p)
       PROVE  Goal
  <2>1. \A q \in Ports : Announced(q)' = Announced(q)
    BY <1>10, AnnouncedFrame DEF SendOpenPort, listenerVars
  <2>2. \A t \in Subscribers : SubscriptionPhase(t)' = SubscriptionPhase(t)
    BY <1>10, PhaseFrame DEF SendOpenPort
  <2>3. Announced(p) = port_service_map[p].protocol
        /\ port_service_map[p].protocol \in Protocols
    <3>1. MapReadable
      BY <1>10 DEF SendOpenPort, LocksExclusive, MapReadable, HoldsMapRead
    <3>2. port_service_map[p] # None
      BY <1>10 DEF SendOpenPort, SubscribersOK, OpenPorts
    <3> QED
      BY <3>1, <3>2, AnnouncedReadable, ServiceFacts
         DEF ServedProtocol, TypeOK
  <2>4. OpenEvent(p, Announced(p)) = Abstract!Tells(p, Announced(p))
    BY <2>3, NoneAssumption DEF OpenEvent, Abstract!Tells
  <2>5. Abstract!SendServed(s, p)
    BY <1>10, <2>1, <2>2, <2>3, <2>4
       DEF SendOpenPort, HasRoom, consumerVars, Abstract!SendServed, Abstract!Post
  <2> QED
    BY <2>5 DEF Abstract!FeedNext, Abstract!Feed
<1>11. ASSUME NEW s \in Subscribers, SendOpenPortFails(s)
       PROVE  Goal
  <2>1. \A p \in Ports : Announced(p)' = Announced(p)
    BY <1>11, AnnouncedFrame DEF SendOpenPortFails, listenerVars
  <2>2. port_event_sender # s
    BY <1>11 DEF SendOpenPortFails, SubscribersOK
  <2>3. /\ SubscriptionPhase(s) = "catching up"
        /\ \A t \in Subscribers : SubscriptionPhase(t)' =
               IF t = s THEN "over" ELSE SubscriptionPhase(t)
    BY <1>11, <2>2 DEF SendOpenPortFails, SubscriptionPhase, TypeOK
  <2>4. [t \in Subscribers |-> SubscriptionPhase(t)]'
            = [[t \in Subscribers |-> SubscriptionPhase(t)] EXCEPT ![s] = "over"]
    BY <2>3
  <2>5. Abstract!GiveUp(s)
    BY <1>11, <2>1, <2>3, <2>4 DEF SendOpenPortFails, consumerVars, Abstract!GiveUp
  <2> QED
    BY <2>5 DEF Abstract!FeedNext, Abstract!Feed
<1>12. ASSUME NEW s \in Subscribers, InstallSender(s)
       PROVE  Goal
  <2>1. \A p \in Ports : Announced(p)' = Announced(p)
    BY <1>12, AnnouncedFrame DEF InstallSender, listenerVars
  <2>2. \A t \in Subscribers : port_event_sender = t => subscriber[t] = "live"
    BY DEF SubscribersOK
  <2>3. /\ SubscriptionPhase(s) = "catching up"
        /\ \A t \in Subscribers : SubscriptionPhase(t)' =
               IF t = s THEN "live"
               ELSE IF SubscriptionPhase(t) = "live" THEN "over"
               ELSE SubscriptionPhase(t)
    BY <1>12, <2>2 DEF InstallSender, SubscriptionPhase, TypeOK
  <2>4. Abstract!GoLive(s)
    BY <1>12, <2>1, <2>3 DEF InstallSender, consumerVars, Abstract!GoLive
  <2> QED
    BY <2>4 DEF Abstract!FeedNext, Abstract!Feed
<1>13. ASSUME NEW s \in Subscribers, Reader(s)
       PROVE  Goal
  <2>1. \A p \in Ports : Announced(p)' = Announced(p)
    BY <1>13, AnnouncedFrame
       DEF Reader, ReceivePortEvent, DropReceiver, listenerVars
  <2>2. \A t \in Subscribers : SubscriptionPhase(t)' = SubscriptionPhase(t)
    BY <1>13, PhaseFrame
       DEF Reader, ReceivePortEvent, DropReceiver, subscriberVars
  <2>3. CASE ReceivePortEvent(s)
    <3> DEFINE e == Head(channel[s])
    <3>1. e \in PortEvents
      BY <2>3 DEF ReceivePortEvent, TypeOK
    <3>2. Abstract!Told(e) = Effect(e)
      BY <3>1, EventTells
    <3>3. Abstract!Read(s)
      BY <2>1, <2>2, <2>3, <3>2
         DEF ReceivePortEvent, subscriberVars, Abstract!Read
    <3> QED
      BY <3>3 DEF Abstract!FeedNext
  <2>4. CASE DropReceiver(s)
    <3>1. Abstract!GoAway(s)
      BY <2>1, <2>2, <2>4 DEF DropReceiver, subscriberVars, Abstract!GoAway
    <3> QED
      BY <3>1 DEF Abstract!FeedNext
  <2> QED
    BY <1>13, <2>3, <2>4 DEF Reader
<1> QED
  BY <1>2, <1>3, <1>4, <1>5, <1>6, <1>7, <1>8, <1>9, <1>10, <1>11, <1>12,
     <1>13 DEF Next, Listener, Subscriber

\* The manager starts as an empty feed does.
LEMMA FeedStart ==
    ASSUME Init
    PROVE  Abstract!FeedInit
<1>1. \A p \in Ports : Announced(p) = None
  BY DEF Init, Announced, AwaitsOpen, ServedProtocol
<1>2. \A s \in Subscribers : SubscriptionPhase(s) = "off"
  BY DEF Init, SubscriptionPhase
<1> QED
  BY <1>1, <1>2 DEF Init, Abstract!FeedInit

(***************************************************************************)
(* For any discoveries, ports, subscribers and buffers the ServiceManager  *)
(* implements the feed of PortFeed: what its tasks do under the two locks  *)
(* of send_port_events_to and process_event looks, from a subscriber's     *)
(* side, like changes that are announced in the step in which they happen. *)
(***************************************************************************)
THEOREM FeedImplemented == Spec => ImplementsPortFeed
<1>1. Init => Abstract!FeedInit
  BY FeedStart
<1>2. IInv /\ [Next]_vars => [Abstract!FeedNext]_(Abstract!feedVars)
  BY FeedStep DEF IInv, FeedInv
<1> QED
  BY <1>1, <1>2, Invariance, PTL
     DEF Spec, ImplementsPortFeed, Abstract!FeedSpec

=============================================================================
