------------------------- MODULE ServiceManagerFeed -------------------------
(***************************************************************************)
(* ServiceManager implements PortFeed.  A port counts as served when it is *)
(* in port_service_map and its Open is not waiting to be sent; a           *)
(* subscription catches up while its task holds the map, and is live while *)
(* its sender is the one in port_event_sender.                             *)
(***************************************************************************)
EXTENDS ServiceManager

SubscriptionPhase(s) ==
    IF subscriber[s] \in {"idle", "lock"} THEN "off"
    ELSE IF subscriber[s] = "sync" THEN "catching up"
    ELSE IF port_event_sender = s THEN "live" ELSE "over"

Abstract == INSTANCE PortFeed WITH
    served <- [p \in Ports |-> Announced(p)],
    phase  <- [s \in Subscribers |-> SubscriptionPhase(s)]

(***************************************************************************)
(* ImplementsPortFeed.  With all its tasks and locks, the manager behaves  *)
(* like a feed in which every change of the served ports and the telling   *)
(* of it are one step: locking, processing an event, waiting for the       *)
(* channel and dying half-way can not be told apart from outside.          *)
(***************************************************************************)
ImplementsPortFeed == Abstract!FeedSpec

=============================================================================
