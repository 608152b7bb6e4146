-------------------------- MODULE MCServiceManager --------------------------
(***************************************************************************)
(* Small instances of ServiceManager for TLC.                              *)
(***************************************************************************)
EXTENDS ServiceManagerFeed, TLC

CONSTANTS d1, d2, u1, u2, p1, p2, http, ssh, b1, s1, s2

Add(u, available, p, proto) ==
    [type |-> "Add", uid |-> u, is_available |-> available, external_port |-> p,
     external_protocol |-> proto, backend |-> b1]
About1(type) == [type |-> type, uid |-> u1]

\* One endpoint on one of two ports, or on both: it opens and closes them.
PortInputs == {Add(u1, TRUE, p1, http), Add(u1, TRUE, p2, ssh)}
              \cup {About1(type) : type \in {"Delete", "Suspend", "Resume"}}

\* Two endpoints on one port that ask for different protocols.
ProtocolInputs == {Add(u1, TRUE, p1, http), Add(u2, TRUE, p1, ssh),
                   About1("Delete")}

\* One port that comes and goes.
FlapInputs == {Add(u1, TRUE, p1, http), About1("Delete")}

SubscriberSymmetry == Permutations(Subscribers)
=============================================================================
