------------------------------ MODULE PortFeed ------------------------------
(***************************************************************************)
(* What ServiceManager::send_port_events_to promises: the ports that are   *)
(* served change one at a time, and a subscriber that has been sent those  *)
(* that were served when it came is told of every change in the very step  *)
(* in which it happens.  A change waits for room in its channel, and for   *)
(* those subscribers that are being brought up to date.                    *)
(*                                                                         *)
(* No tasks, no locks, no endpoints: ServiceManager is shown to implement  *)
(* this (ServiceManagerFeed), and Matchmaker is built on top of it.        *)
(***************************************************************************)
EXTENDS Naturals, Sequences

CONSTANTS
    Ports,
    Protocols,
    Subscribers,
    PortBufferSize,   \* capacity of a subscriber's channel
    None

ASSUME FeedAssumption ==
    /\ PortBufferSize \in Nat \ {0}
    /\ None \notin Protocols

VARIABLES
    served,     \* per port: the protocol it is served with, or None
    phase,      \* per subscriber: how far its subscription is
    unsent,     \* per subscriber: served ports it is yet to be sent
    channel,    \* per subscriber: PortEvents it has not read
    receiving,  \* per subscriber: it has not gone away
    view        \* per subscriber: what it knows of served

feedVars == <<served, phase, unsent, channel, receiving, view>>

\* What a PortEvent says: the port is served with the protocol, or no more.
Tells(p, v) ==
    IF v = None THEN [type |-> "Close", port |-> p]
    ELSE [type |-> "Open", port |-> p, protocol |-> v]

Told(e) == IF e.type = "Open" THEN e.protocol ELSE None

Messages == {Tells(p, v) : p \in Ports, v \in Protocols \cup {None}}

Phases == {"off", "catching up", "live", "over"}

FeedTypeOK ==
    /\ served \in [Ports -> Protocols \cup {None}]
    /\ phase \in [Subscribers -> Phases]
    /\ unsent \in [Subscribers -> SUBSET Ports]
    /\ channel \in [Subscribers -> Seq(Messages)]
    /\ \A s \in Subscribers : Len(channel[s]) <= PortBufferSize
    /\ receiving \in [Subscribers -> BOOLEAN]
    /\ view \in [Subscribers -> [Ports -> Protocols \cup {None}]]

FeedInit ==
    /\ served = [p \in Ports |-> None]
    /\ phase = [s \in Subscribers |-> "off"]
    /\ unsent = [s \in Subscribers |-> {}]
    /\ channel = [s \in Subscribers |-> <<>>]
    /\ receiving = [s \in Subscribers |-> TRUE]
    /\ view = [s \in Subscribers |-> [p \in Ports |-> None]]

-----------------------------------------------------------------------------
PostWithoutRoom(s, e) == channel' = [channel EXCEPT ![s] = Append(@, e)]

\* A send into the bounded channel, once it has room.
Post(s, e) ==
    /\ Len(channel[s]) < PortBufferSize
    /\ channel' = [channel EXCEPT ![s] = Append(@, e)]

Reachable(s) == phase[s] = "live" /\ receiving[s]

\* Port p begins to be served, or ceases to be.
Change(p, v) ==
    /\ (served[p] = None) # (v = None)
    /\ \A s \in Subscribers : phase[s] # "catching up"
    /\ served' = [served EXCEPT ![p] = v]
    /\ \/ \E s \in Subscribers : Reachable(s) /\ Post(s, Tells(p, v))
       \/ /\ \A s \in Subscribers : ~Reachable(s)
          /\ UNCHANGED channel
    /\ UNCHANGED <<phase, unsent, receiving, view>>

Begin(s) ==
    /\ phase[s] = "off"
    /\ phase' = [phase EXCEPT ![s] = "catching up"]
    /\ unsent' = [unsent EXCEPT ![s] = {p \in Ports : served[p] # None}]
    /\ UNCHANGED <<served, channel, receiving, view>>

SendServed(s, p) ==
    /\ p \in unsent[s]
    /\ receiving[s]
    /\ Post(s, Tells(p, served[p]))
    /\ unsent' = [unsent EXCEPT ![s] = @ \ {p}]
    /\ UNCHANGED <<served, phase, receiving, view>>

\* The subscriber goes away before it is up to date.
GiveUp(s) ==
    /\ phase[s] = "catching up"
    /\ ~receiving[s]
    /\ phase' = [phase EXCEPT ![s] = "over"]
    /\ unsent' = [unsent EXCEPT ![s] = {}]
    /\ UNCHANGED <<served, channel, receiving, view>>

\* The feed of the subscriber before it, if there is one, ends here.
GoLive(s) ==
    /\ phase[s] = "catching up"
    /\ unsent[s] = {}
    /\ phase' = [t \in Subscribers |->
           IF t = s THEN "live"
           ELSE IF phase[t] = "live" THEN "over" ELSE phase[t]]
    /\ UNCHANGED <<served, unsent, channel, receiving, view>>

Read(s) ==
    /\ receiving[s]
    /\ channel[s] # <<>>
    /\ view' = [view EXCEPT ![s][Head(channel[s]).port] = Told(Head(channel[s]))]
    /\ channel' = [channel EXCEPT ![s] = Tail(@)]
    /\ UNCHANGED <<served, phase, unsent, receiving>>

GoAway(s) ==
    /\ receiving[s]
    /\ receiving' = [receiving EXCEPT ![s] = FALSE]
    /\ channel' = [channel EXCEPT ![s] = <<>>]
    /\ UNCHANGED <<served, phase, unsent, view>>

-----------------------------------------------------------------------------
\* The manager's side of the feed.
Feed ==
    \/ \E p \in Ports, v \in Protocols \cup {None} : Change(p, v)
    \/ \E s \in Subscribers :
           \/ Begin(s)
           \/ \E p \in Ports : SendServed(s, p)
           \/ GiveUp(s)
           \/ GoLive(s)

FeedNext ==
    \/ Feed
    \/ \E s \in Subscribers : Read(s) \/ GoAway(s)

FeedSpec == FeedInit /\ [][FeedNext]_feedVars

=============================================================================
