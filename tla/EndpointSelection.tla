------------------------- MODULE EndpointSelection -------------------------
(***************************************************************************)
(* How connections to one external port are spread over its endpoints:     *)
(* ServiceManager::get_endpoint_for (src/src/backend/mod.rs) and its one   *)
(* caller, the task of Matchmaker::new_connection_sender                   *)
(* (src/src/matchmaking/mod.rs).                                           *)
(*                                                                         *)
(* The task counts the connection requests of its port and spawns one task *)
(* per request, which asks for an endpoint with the count it was given and *)
(* then, after one more await, connects to the address it got.  These      *)
(* tasks run in any order, and the table of endpoints may change between   *)
(* the request and the answer and between the answer and the connection.   *)
(*                                                                         *)
(* An endpoint is its position in the iteration order of the service's     *)
(* HashMap; only its is_available flag matters here.                       *)
(***************************************************************************)
EXTENDS Integers, Sequences, FiniteSets

CONSTANTS
    MaxEndpoints,   \* bound: endpoints of the service
    MaxRequests,    \* bound: connection requests
    IndexBits,      \* width of usize
    NoService,      \* the port is not in port_service_map
    None,           \* Option::None
    Panicked        \* the task that asked panics

ASSUME SelectionAssumption ==
    /\ MaxEndpoints \in Nat
    /\ MaxRequests \in Nat
    /\ IndexBits \in Nat /\ 2^IndexBits \in Nat \ {0}
    /\ MaxEndpoints <= 2^IndexBits
    /\ None \notin Nat /\ Panicked \notin Nat
    /\ NoService \notin Seq(BOOLEAN)

-----------------------------------------------------------------------------
(* get_endpoint_for.                                                       *)

Available(endpoints) == {k \in DOMAIN endpoints : endpoints[k]}

\* The first available endpoint at one of the positions from..to.
FirstIgnoringAvailability(endpoints, from, to) ==
    IF from <= to THEN from ELSE None
FirstAvailable(endpoints, from, to) ==
    LET candidates == {k \in from..to : endpoints[k]}
    IN  IF candidates = {} THEN None
        ELSE CHOOSE k \in candidates : \A j \in candidates : k <= j

\* index %= n_endpoints
StartAlmostEverywhere(index, n) == index % (IF n = 1 THEN 1 ELSE n - 1)
Start(index, n) == index % n

SecondLoopLosesOne(endpoints, index) ==
    FirstAvailable(endpoints, 1, Len(endpoints) - index - 1)

\* .values().take(n_endpoints - index)
SecondLoop(endpoints, index) ==
    FirstAvailable(endpoints, 1, Len(endpoints) - index)

\* .values().skip(index), and then the second loop.
Select(endpoints, index) ==
    LET start == Start(index, Len(endpoints))
        later == FirstAvailable(endpoints, start + 1, Len(endpoints))
    IN  IF later # None THEN later ELSE SecondLoop(endpoints, start)

\* Panicked is the remainder by zero for a service without endpoints.
GetEndpointFor(service, index) ==
    IF service = NoService THEN None
    ELSE IF service = <<>> THEN Panicked
    ELSE Select(service, index)

-----------------------------------------------------------------------------
VARIABLES
    service,    \* the port's endpoints, or NoService
    requests,   \* connection requests received by the task
    waiting,    \* requests whose task has not looked for an endpoint yet
    connecting, \* requests whose task has an address and is to connect to it
    answers     \* the answers given by the present table, per request

vars == <<service, requests, waiting, connecting, answers>>

ServiceStates ==
    {NoService} \cup UNION {[1..n -> BOOLEAN] : n \in 0..MaxEndpoints}

Outcomes == 1..MaxEndpoints \cup {None, Panicked}

TypeOK ==
    /\ service \in ServiceStates
    /\ requests \in 0..MaxRequests
    /\ waiting \subseteq 1..requests
    /\ connecting \subseteq (1..requests) \ waiting
    /\ DOMAIN answers \subseteq (1..requests) \ waiting
    /\ \A r \in DOMAIN answers : answers[r] \in Outcomes

Init ==
    /\ service \in ServiceStates
    /\ requests = 0
    /\ waiting = {}
    /\ connecting = {}
    /\ answers = <<>>

\* i = i.overflowing_add(1).0, starting from zero: the count of request r.
Index(r) == r % 2^IndexBits

NewConnectionRequest ==
    /\ requests < MaxRequests
    /\ requests' = requests + 1
    /\ waiting' = waiting \cup {requests'}
    /\ UNCHANGED <<service, connecting, answers>>

\* get_endpoint_for(port, i).await.unwrap(): the task panics without an
\* address, and goes on with one.
Answered(r, outcome) ==
    /\ answers' = [q \in DOMAIN answers \cup {r} |->
           IF q = r THEN outcome ELSE answers[q]]
    /\ connecting' = connecting \cup {q \in {r} : outcome \in Nat}

RouteStaysWaiting(r) ==
    /\ r \in waiting
    /\ Answered(r, GetEndpointFor(service, Index(r)))
    /\ UNCHANGED <<service, requests, waiting>>

\* The spawned task looks for an endpoint.
Route(r) ==
    /\ r \in waiting
    /\ waiting' = waiting \ {r}
    /\ Answered(r, GetEndpointFor(service, Index(r)))
    /\ UNCHANGED <<service, requests>>

\* Having waited for protocol_clients it connects to the address, if there is
\* a client for the protocol, and panics in any case: what follows connect is
\* unimplemented!().
Connect(r) ==
    /\ r \in connecting
    /\ connecting' = connecting \ {r}
    /\ UNCHANGED <<service, requests, waiting, answers>>

\* A listener's process_event changes the service.  Answers start afresh; a
\* task that is connecting keeps the address it has, which may be stale now.
ServiceChanges ==
    /\ service' \in ServiceStates \ {service}
    /\ answers' = <<>>
    /\ UNCHANGED <<requests, waiting, connecting>>

Next ==
    \/ NewConnectionRequest
    \/ \E r \in waiting : Route(r)
    \/ \E r \in connecting : Connect(r)
    \/ ServiceChanges

Spec == Init /\ [][Next]_vars

-----------------------------------------------------------------------------
HasEndpoints == service # NoService /\ service # <<>>

(***************************************************************************)
(* OnlyAvailable.  get_endpoint_for answers with an endpoint only if it is *)
(* in the present table and available, whatever the table was when the     *)
(* request came and got its index, and whichever tasks asked before.       *)
(* Nothing is promised of the connection: it is made an await later, to an *)
(* address that the table may have dropped or suspended by then.           *)
(***************************************************************************)
OnlyAvailable ==
    \A r \in DOMAIN answers :
        answers[r] \in Nat => HasEndpoints /\ answers[r] \in Available(service)

(***************************************************************************)
(* EveryEndpointServes.  Among 2n - 1 requests in a row that are answered  *)
(* from an unchanged table of n endpoints, every available endpoint gets   *)
(* one at least, also when the usize count of the requests wraps around on *)
(* the way (new_connection_sender, get_endpoint_for).                      *)
(***************************************************************************)
EveryEndpointServes ==
    HasEndpoints =>
        LET n == Len(service)
        IN  \A first \in 1..requests :
                LET row == first..(first + 2 * n - 2)
                IN  row \subseteq DOMAIN answers =>
                        Available(service) \subseteq {answers[r] : r \in row}

(***************************************************************************)
(* FoundFromFirstHalf.  A request whose start position lies in the first   *)
(* half of the endpoints is never refused while one of them is available   *)
(* (get_endpoint_for).                                                     *)
(***************************************************************************)
FoundFromFirstHalf ==
    HasEndpoints /\ Available(service) # {} =>
        \A r \in DOMAIN answers :
            2 * Start(Index(r), Len(service)) <= Len(service) =>
                answers[r] # None

(***************************************************************************)
(* FoundIfAvailable.  "If there is an endpoint available, return its       *)
(* address and which protocol should be used to communicate with it."      *)
(***************************************************************************)
FoundIfAvailable ==
    HasEndpoints /\ Available(service) # {} =>
        \A r \in DOMAIN answers : answers[r] # None

=============================================================================
