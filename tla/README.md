# Verification of state-proxy

state-proxy is a load-balancing proxy written in Rust on tokio. This directory
holds TLA+ modules translated from its source, TLC configurations that check
them on small instances, and proofs, checked by TLAPS, of what the modules
promise for every instance. Line numbers below refer to `src/src/...`.

## 1. The system

| Part | State | Operations | Talks to |
|---|---|---|---|
| `ServiceManager` (`backend/mod.rs`) | `port_service_map` (`RwLock`: port → protocol and endpoints), `port_event_sender` (`RwLock`), the set of registered names, one listener task per discovery, one task per `send_port_events_to` | `register_endpoint_discovery`, `send_port_events_to`, `get_endpoint_for`, `process_event` for Add / Delete / Suspend / Resume | receives `EndpointEvent`s over one bounded channel per discovery; sends `PortEvent`s over the channel of its subscriber |
| Endpoint data (`backend/endpoint.rs`) | – | constructors | used by the two neighbours |
| Endpoint selection (`get_endpoint_for`, and `new_connection_sender` in `matchmaking/mod.rs`) | a wrapping request count per port | count a request, spawn its task, choose an endpoint, connect to it | reads `port_service_map` |
| `KubernetesEndpointDiscovery` (`kubernetes/mod.rs`) | `known_pod_uids` | handle Applied / Deleted / Restarted events of the pod watch | watches a cluster, sends `EndpointEvent`s |
| `Matchmaker` (`matchmaking/`) | registered clients and servers, `open_ports` | register, `handle_port_event`, `new_connection_sender` | reads `PortEvent`s, asks `get_endpoint_for`; the module is commented out in `lib.rs:25` |
| Endpoint protocol (`protocol/proxy/endpoint.rs`) | one client per base connection, channel buffers, negotiated format | create, handshake, fill a receive buffer | a base `Connection`; `send`, `receive` and `new_channel` are `unimplemented!()` |
| Protocol traits and registry (`protocol/mod.rs`) | a map of names | register, get | `main.rs` |
| `ConnectionMap` (`state.rs`) | a counter and a map | register | nothing: no module declares the file |
| http, ssh, websockets, handover, `main.rs` | – | stubs, command line, construction | – |

What is hard about it:

* **Concurrency.** Every discovery has a listener task; all of them write one
  map. A subscriber is first sent the ports that are open and then installed,
  while the listeners go on. Two locks are held across sends into bounded
  channels. Tasks that answer connection requests run in any order.
* **Failure.** A discovery may end, the reader of the `PortEvent`s may go away,
  the manager may be dropped with events still queued; two of these make a task
  panic half-way through its work. The pod watch may lose its connection and
  miss changes. One bad pod ends the whole discovery, and its events may still
  be queued when it does.
* **Order.** Add resets an endpoint to unavailable, so what is sent again, and
  when, decides whether a serving endpoint is interrupted.
* **Arithmetic.** The choice of an endpoint is an index modulo a number that
  changes, computed from a count that wraps around. The receive buffer of the
  endpoint protocol is filled at positions computed from counts, by reads whose
  sizes the network decides.

`PROJECT.json` lists these hazards at their lines, with the property that
watches each one.

## 2. Modules

### ServiceManager

A step is what a task does between two points at which another task can
interfere. Where a task stands is its state, and the locks follow from it: a
listener in `"gate"` or `"send"` holds the map for writing, one in `"send"`
holds `port_event_sender` for reading too, a subscriber in `"sync"` holds the
map for reading.

| Definition | Code |
|---|---|
| `RegisterEndpointDiscovery` | `register_endpoint_discovery`, 136-172 |
| `ReceiveEvent`, `ReceiveDisconnect` | `listen_for_discovery_events`, 174-199: the upgrade of the weak reference, the return when the manager is gone, the panic when the discovery is |
| `ProcessAdd`, `ProcessDelete`, `ProcessSuspend`, `ProcessResume` | the branches of `process_event`, 204-361, up to their first await after the map's lock |
| `LockSender`, `SendPortEvent`, `SendPortEventFails` | `port_event_sender.read()`, the loop over `services_to_delete`, `send_event` with its panic, 232-240, 289-301, 365-371 |
| `SendPortEventsTo`, `LockMapForReading`, `SendOpenPort`, `SendOpenPortFails`, `InstallSender` | `send_port_events_to`, 76-96 |
| `DiscoverySends`, `DiscoveryEnds`, `ReceivePortEvent`, `DropReceiver`, `DropManager` | the surroundings: any discovery, any reader, the owner of the `Arc` |

A `HashMap`'s iteration order is a choice (`\E e \in todo[d]`). `view` is what
the reader knows from the events it has read; it is the one history variable.

### PortFeed and ServiceManagerFeed

`PortFeed` is the abstract specification of `send_port_events_to`: served ports
change one at a time, and a live subscriber is told of each change in the same
step. It knows no tasks, locks or endpoints. `ServiceManagerFeed` gives the
refinement mapping: a port is `served` when it is in `port_service_map` and its
Open is not waiting to be sent; a subscription is "catching up" while its task
holds the map and "live" while its sender is the installed one.
`ImplementsPortFeed` is the abstract specification under that mapping.

### Matchmaker

The reader of the feed, built on `PortFeed`: `RegisterClient`, `RegisterServer`
(50-94), `Run` (96-101), `HandleOpen`, `HandleOpenPanics`, `HandleClose`
(`handle_port_event` with the unwrap in `run`, 102-150), `ChannelClosed` (the
panic at 109, when another subscription takes over). `listening` is the effect of
the calls of `listen` and `mute` on the servers, which are external. A second
subscriber is part of the model because any call of `send_port_events_to` ends
the feed of the one before it.

### EndpointSelection

`GetEndpointFor` is `get_endpoint_for` line by line: the remainder, the two
loops with `skip` and `take`, the remainder by zero of a service without
endpoints. The task of `new_connection_sender` counts (`Index`, with the width
of `usize` as a parameter) and spawns. The spawned task is two steps, because it
awaits `protocol_clients` in between: `Route` looks up an endpoint (165-171) and
ends the task if there is none, `Connect` connects to the address and ends in
`unimplemented!()` (172-180). `connecting` holds the requests between the two; what
they have may go stale there, and the code does nothing about it.
`ServiceChanges` stands for any change the listeners make to the port's
service, including its removal and the state in which a listener died between
two closes (an empty service). An endpoint is its position in the iteration
order of the map. `answers` holds the answers given since the table last
changed.

### KubernetesDiscovery

The task runs a handler of `handle_pod_event` to its end and leaves the events
it sends in `outbox`, from where `Send` moves them one by one: the only waiting
in a handler is in `send`, and nobody else reads the task's state. The loop
over the pods of a `Restarted` event is one `ApplyListedPod` per pod, because
each may fail; `restarting` says that the loop is under way and `listed` which
pods it still has before it. `ApplyPod` is the whole of `apply_pod`, with the conditions
under which it does nothing, fails, or fails after some services were sent. A
service string is the sequence of its parts between colons; whether a part is a
number decides if it parses. `told` is what the `ServiceManager` makes of the
events, seen from this discovery (`Learn` follows `process_event`).

The cluster and the watch are external. Pods get a uid when they are created,
never two pods the same one, and their phase follows the Kubernetes life cycle.
What `apply_pod` insists on (status, IP, phase: `details`) may come at any time and
may be lost again in the phases of `LossyPhases`, as when an evicted pod is
reported as failed without an IP; the services of a pod stay the same.
The watch reports changes in order while it is up, misses them while it is
down, and starts every time with a list of what exists.

### KubernetesBackend

`KubernetesDiscovery` and `ServiceManager` composed: both are instantiated, with
the discovery as the manager's one discovery, no subscriber and their own
variables but one. `listening` of the discovery (does the `Receiver` exist)
becomes a function of where the manager's listener stands. Two steps are
common: `TaskSends` is `Send` of the one and `DiscoverySends` of the other (the
event enters `queue`, which is bounded), `TaskEnds` is `RunFails` and
`DiscoveryEnds` (the `Sender` is dropped). All others are steps of one side.
Here `told`, which in `KubernetesDiscovery` stands in for the table, can be held
against the real `port_service_map`: `TableFollowsEvents` says that the table,
after the events that are still pending, is what `told` says, and so justifies
the stand-in.

### EndpointClient

`EndpointProtocolClient` (`protocol/proxy/endpoint.rs`) from its constructor on:
`SendHello` (`send_client_message`, 263-287, as `init` calls it), the loop of `receive_server_message` with
`receive_message_with_data` (`ReceiveFails`, `ReceiveOnUnknownChannel`,
`ReceiveMessage`, 289-311 and 359-380), and `fill_buffer_from` (742-767) read by
read: `Read`, with the outcomes that the loop goes on, that the buffer is full
and that the slice is cut beyond its end; `ReadNothing`; `ReadFails`. A byte is
its position in what the peer sends, so that the buffer's contents can be
compared with the stream; 0 is the filling of `resize`. `reads_left` and
`simple` are history.

## 3. Runs

| Run | Instance | Shows |
|---|---|---|
| `feed` | 1 discovery, 2 ports, 2 subscribers, channels of 1 and 2, all four events | `TypeOK`, `FeedInv`, `FeedAccurate`, `FeedAlternates`, `NoEmptyService` and `ImplementsPortFeed` while one subscriber replaces the other |
| `progress` | 2 discoveries with one uid on one port, 1 subscriber, with fairness | `DiscoveryIsolation`, `EventsProcessed`, `SubscriptionCompletes`, `FeedCatchesUp` |
| `add_protocol` | 1 discovery, 2 endpoints that ask for 2 protocols on 1 port | refutes `AddSetsProtocol` |
| `selection` | at most 4 endpoints, 7 requests, a count of 2 bits | `TypeOK`, `OnlyAvailable`, `EveryEndpointServes`, `FoundFromFirstHalf` |
| `selection_doc` | the same | refutes `FoundIfAvailable` |
| `matchmaker` | 2 ports, 2 protocols, a rival subscriber, channels of 1, with fairness | `TypeOK`, `ServedPortsListen`, `ListensEventually` |
| `matchmaker_mute` | the same | refutes `ClosedPortsMuted` |
| `pods` | 2 pods: complete or not, two services, a bad address, no uid; all phases but Unknown, details lost at the end | `TypeOK`, `NoGhostEndpoints`, `AvailabilityFollowsPhase`, `ServingNotReset` |
| `pod_listed` | 1 pod with one service or none, complete or not | refutes `ServicesAdded` |
| `backend` | 2 complete pods that share a port, one on a second port or with a bad service string; a queue of 1 between the tasks, with fairness | `TableFollowsEvents`, `RoutesFollowPods`, `RoutesConverge` |
| `endpoint` | a buffer of 13 bytes, 15 bytes in messages of up to 13, read in any pieces, with and without multiplexing and message boundaries | `TypeOK`, `ReadOrderKept`, `ContiguousIfFewReads`, `ShortMessagesSafe`, `TooLargeOnlyIfLarge` |
| `endpoint_stream` | 9 bytes of buffer, 11 bytes of data | refutes `ContiguousStream` |

**Bounds.** Channels of one or two events are the hard case for a sender that
waits with locks held: they are full after one step, where the code's 8 and 1024
would take long runs to fill. Two discoveries (`progress`), two ports and two
subscribers (`feed`) are what the properties relate; the proofs of section 5 lift the bounds
for the safety properties. With the one port of `progress` it is the listeners that
wait for room with locks held, a subscription waits only for the locks; with one
discovery that adds and deletes an endpoint on two ports, two subscribers and
channels of one event a subscription is stopped half-way with the map locked, and
`SubscriptionCompletes` was checked on that instance too (193,234 states), which is
not kept as a run. In `selection` 4 endpoints and 7
requests let a row of 2n - 1 requests be complete for every n up to 4, and with
a count of 2 bits the wraparound falls into such rows, for numbers of endpoints
that divide the range and for 3, which does not. In `MCPods` the stream holds
one event and two pods are enough for a listing to contain one pod and miss the
other. Deadlock is not checked: every program here may come to rest (all tasks
ended, or nothing to do). The two subscribers of `feed` are interchangeable
and declared symmetric. `backend` has a
queue of one event and a stream of one, so each of the two tasks is made to
wait for the other; its pods are complete and stay so (`LossyPhases` is empty),
because of incomplete ones `RoutesFollowPods` is false for the reason `pod_listed`
shows. In `pods` a pod may lose its details when it ends (`LossyPhases` is
Succeeded and Failed); the phase Unknown, which `apply_pod` treats like Failed but
from which a pod may come back, is left to the proofs, which take any set of
phases and let any of them be lossy. In `endpoint` 13
bytes are enough for two messages of several reads each, for a full buffer, and
for the panic; a panic needs k(k + 1) > 26, so k = 5 bytes, and 15 bytes of data
leave room for it after every prefix.

**Fairness** (`progress`, `matchmaker`, `backend`). Spawned tasks keep running, so each of their steps
is weakly fair; the reader reads as long as it holds its `Receiver`. Tokio's
`RwLock` serves its waiters first come, first served, so a task waiting for the
map gets it although others take it in between: strong fairness for
`ProcessEvent` and `LockMapForReading`. The discoveries and the dropping of
receivers and manager are not assumed to happen. `port_event_sender` is
contended by no one who does not hold the map, so weak fairness is enough there. In `matchmaker` only the loop of `run` is
fair: that the subscription is live is the premise of the property. In
`backend` the task of the discovery and the manager's listener are weakly fair,
and a discovery that has an error to return does end. Nothing is assumed of the
cluster, the watch or the owner of the manager; `RoutesConverge` has as its premise
that the watch stays up from some point on.

## 4. What the refuted statements say about the code

* `AddSetsProtocol`: an Add on a port that is served ignores its
  `external_protocol` (`backend/mod.rs:241-267` against `endpoint.rs:36`): of two
  endpoints that ask for different protocols on one port, the first decides.
  Endpoints that agree on the protocol of a port are not affected: that is the
  theorem `AgreedProtocolIsSet`.
* `FoundIfAvailable`: the second loop of `get_endpoint_for` takes the first
  `n_endpoints - index` endpoints instead of the first `index`
  (`backend/mod.rs:121` against its doc, 101). `FoundFromFirstHalf` is what is
  left of the promise.
* `ClosedPortsMuted`: `handle_port_event` never fills `open_ports`, so no port
  is ever muted (`matchmaking/mod.rs:124` and 140).
* `ServicesAdded`, with incomplete pods: a pod listed before it has an IP or a
  phase becomes known without being applied and is never added
  (`kubernetes/mod.rs:184` and 222). That is the only way to lose services: without
  incomplete pods in a list all of them get into the table (`ServicesAreAdded`,
  `RoutesAreExact`).
* `ContiguousStream`: `fill_buffer_from` cuts its slice at `in_buffer` instead of
  at the number of bytes just read (`protocol/proxy/endpoint.rs:761`), so a
  message in three reads leaves a gap of zeros and loses bytes
  (`protocol/mod.rs:153-155` asks for a contiguous stream).
  `ContiguousIfFewReads` is what is left: two reads into an empty buffer and one
  into any other are right. `ShortMessagesSafe` says how early the same line can
  panic: with the code's 1025 bytes, not before the 45th byte.

Smaller observations that are visible in the model but are not runs of their own:

* `HandleDeleted` sends a Delete for pods without services too
  (`kubernetes/mod.rs:172`), which the comment at `tests/kubernetes.rs:144` does
  not expect, and the comment at `kubernetes/mod.rs:300` gives the parts of a
  service string in another order than the code reads them (323-336).
* `apply_pod` skips every report of a pod without status, IP or phase
  (`kubernetes/mod.rs:203-214`), also of one that serves: the endpoints of a pod that
  fails or succeeds and loses its IP with it stay as they are, available ones
  included, until the pod is deleted or complete again. `NoGhostEndpoints`,
  `AvailabilityFollowsPhase` and `RoutesFollowPods` therefore speak of complete pods.
* Between `get_endpoint_for` and `connect` (`matchmaking/mod.rs:171` and 178) the
  chosen endpoint may be suspended or deleted. `OnlyAvailable` is about the former.
* A listener that panics half-way through its Closes leaves services without
  endpoints in the map (`backend/mod.rs:369`), and `get_endpoint_for` divides by zero
  for them; `NoEmptyService` shows that there is no other way to such a service.
* `receive_server_message` has no way out but an error, and nothing empties
  `read_buffer`: with message boundaries a row of short messages ends in
  `MessageTooLarge` (hence the wording of `TooLargeOnlyIfLarge`), without them all
  data after the 1025th byte is dropped.
* `EndpointProtocol::new` cannot succeed: `Arc::get_mut` (130) returns `None`
  while the `Weak` of the line before it exists, and the `unwrap` panics.

## 5. Proofs

Each theorem holds for every value of the constants: any number of discoveries,
ports, pods and requests, any size of a channel, a buffer or a counter. Every
safety property of the passing runs is proved. For two of the statements that
section 4 refutes there is a theorem that says under which condition they are
true (`AddSetsProtocol`, `ServicesAdded`); for two others the invariants
`FoundFromFirstHalf` and `ContiguousIfFewReads` play that part.

| Module | Theorem | Statement |
|---|---|---|
| `ServiceManagerProofs` | `TypeCorrect` | `Spec => []TypeOK`, the bounds of the channels included |
| | `FeedConsistent` | `Spec => []FeedInv` |
| | `FeedIsAccurate` | `Spec => []FeedAccurate` |
| | `FeedIsAlternating` | `Spec => []FeedAlternates` |
| | `EmptyServicesClose` | `Spec => []NoEmptyService` |
| | `DiscoveriesIsolated` | `Spec => DiscoveryIsolation` |
| | `AgreedProtocolIsSet` | `Spec => AddSetsProtocol`, if `OneProtocolPerPort` |
| `ServiceManagerFeedProofs` | `FeedImplemented` | `Spec => ImplementsPortFeed` |
| `MatchmakerProofs` | `TypeCorrect`, `ServedPortsAreListenedOn` | `[]TypeOK`, `[]ServedPortsListen` |
| `EndpointSelectionProofs` | `TypeCorrect`, `AnswersAreAvailable`, `NoEndpointStarves`, `FirstHalfIsServed` | `[]TypeOK`, `[]OnlyAvailable`, `[]EveryEndpointServes`, `[]FoundFromFirstHalf` |
| `EndpointClientProofs` | `TypeCorrect`, `OrderIsKept`, `FewReadsAreContiguous`, `ShortMessagesAreSafe`, `TooLargeIsLarge` | `[]TypeOK`, `[]ReadOrderKept`, `[]ContiguousIfFewReads`, `[]ShortMessagesSafe`, `[]TooLargeOnlyIfLarge` |
| `KubernetesDiscoveryProofs` | `TypeCorrect`, `NoGhosts`, `AvailabilityIsRight`, `ServingIsNotReset` | `[]TypeOK`, `[]NoGhostEndpoints`, `[]AvailabilityFollowsPhase`, `[]ServingNotReset` |
| `KubernetesServicesProofs` | `ServicesAreAdded` | `Spec /\ []ListedAreComplete => []ServicesAdded` |
| | `ServicesOfCompletePods` | `Spec => []ServicesAdded`, if `CompletePods` |
| `KubernetesBackendProofs` | `ComponentsHold` | the inductive invariants of discovery and manager hold in their composition |
| | `TableFollowsTheEvents` | `Spec => []TableFollowsEvents` |
| | `RoutesAreSound` | `Spec => []NoWrongRoutes` |
| | `RoutesAreExact` | `Spec /\ []ListedAreComplete => []RoutesFollowPods` |
| | `RoutesOfCompletePods` | `Spec => []RoutesFollowPods`, if `CompletePods` |
| | `ImplementsManager` | `Spec => Manager!Spec` |

**Assumptions.** TLC evaluates each of them in the runs of its module.
`BufferAssumption`: channels hold at least one event, as `mpsc::channel`
demands. `InputAssumption`: discoveries send EndpointEvents. `NoneAssumption`,
and the last lines of the others: `None`, `Gone`, `Panicked` and `NoService` are
none of the values beside them. `KubernetesAssumption`: pods are created with
the fields a pod has, a number is not a protocol name, the stream holds at
least one event. `SelectionAssumption`: the count has some number of bits (that
a power of two is a positive number is stated with it, the prover does not know
it) and tells the endpoints apart. `SizeAssumption`: a message has room for a
byte. `MeAssumption`: the matchmaker is one of the subscribers.
`BackendAssumption`: the assumptions of the two parts. The conditions in the
table above are hypotheses of single theorems and not assumptions of a module:
`OneProtocolPerPort`, no two Adds disagree on the protocol of a port;
`ListedAreComplete`, no list that the watch starts anew with has a pod without
status, IP or phase; `CompletePods`, pods have these when they are created and
never lose them, as in the instance of the run `backend`.

**ServiceManager.** `FeedAccurate` is not inductive. That a subscriber is
accurate when it is installed rests on what it knew while it was brought up to
date, that rests on the map not changing meanwhile, and that on the lock; that
it stays accurate rests on what a listener has yet to send agreeing with what it
has already done to the map. Hence `IInv == TypeOK /\ FeedInv /\ FeedAccurate /\
FeedAlternates /\ NoEmptyService`, where `FeedInv` consists of

* `LocksExclusive`: one writer or any number of readers;
* `ListenersOK`: PortEvents are pending only under the write lock, and are one
  Open of a service in the map or Closes of services without endpoints;
* `SubscribersOK`: a subscriber under the read lock will know every open port
  except those it has yet to be sent.

The proof has one step per action. Two lemmas carry most of it: what `WillKnow`
and `Alternates` say after an event was appended to a channel, and after one was
read from it. `DiscoveriesIsolated` uses `IInv` for the one case that is not
immediate: a listener that takes a whole service out of the map takes nothing of
another discovery with it, because the service is empty. For
`AgreedProtocolIsSet` the invariant is `ProtocolsAgree`: a service has the
protocol of every Add of its port. Only the first Add of a port sets it and no
other branch of `process_event` touches it.

`FeedImplemented` needs `IInv` as well: that a listener sends only while nobody
is catching up is `LocksExclusive`, that a sent event is a change of `served` is
`ListenersOK`, that the installed sender belongs to a finished task is
`SubscribersOK`. `process_event` itself is a hidden step; the step that shows is
the sending, also where it fails because the reader is gone.

**Matchmaker.** `FeedOK` is the invariant of `PortFeed`: at most one subscriber
is live, and one that is being brought up to date or live will know what it is
due once it has read its channel. `MatchmakerOK` adds that what the matchmaker
has read of a served port it listens on, and that `open_ports` stays empty,
which is why no Close ever takes away from `listening`.

**EndpointSelection.** `AnswersRight` says that each answer since the last
change is `GetEndpointFor` of the present table; `Connect` changes nothing that it
speaks of. The rest is arithmetic. For
`NoEndpointStarves`: consecutive counts have consecutive remainders except
where the count wraps, and it has at least n values, so among 2n - 1 requests in
a row there are n without a wraparound, whose start positions meet every
endpoint. For
`FirstHalfIsServed`: from start position i the second loop covers the first n - i
endpoints, which reach i exactly in the first half.

**EndpointClient.** The heart is `FillOK`: while the buffer is filled the slice
begins at most in_buffer * (in_buffer + 1) / 2, because each read moves it on by
the number of *all* bytes so far. `OrderOK` (the bytes in the buffer have passed,
behind the slice there are zeros) carries `ReadOrderKept`, `SimpleOK` (as long as
the reads were few, the slice begins where the contents end)
`ContiguousIfFewReads`, `CountOK` `TooLargeOnlyIfLarge`.

**KubernetesDiscovery.** The properties speak of a task that has caught up, so
the invariant has to say what is on its way at all other times:

* `WillBeUntold` and `WillBe` say what the manager will have been told of a pod
  when the outbox of the present handler is sent; `OutboxOK` (Adds first, then at
  most one other event, or only Deletes) makes that readable off the outbox.
* `ListedOK` and `StreamOK`: the reports of a pod that are still to be applied are
  in the order in which they happened and fit what has been told, so that a report
  of a pending pod, for which `apply_pod` sends nothing, comes when there is
  nothing to correct.
* `LastWordOK`: while the watch is up, the last report of a pod in the stream is
  its present state; with none in the stream it is in the listing at hand, or what
  will be told is right.
* `KnownOK`: a pod that is not known has no endpoints. This is what makes the
  Deletes of a listing complete, and with `ServingNotReset` it is why an Add never
  meets an available endpoint.

When the task has caught up, stream, listing and outbox are empty, and
`LastWordOK` leaves only the last case. What is right of a pod (`Agrees`) depends
on its details: of one that lacks them only that it exists, because `apply_pod`
skips its reports. No trace of the skipped reports is needed, because a complete
report sets the availability anew whatever it was; the exception is a pending
pod, and a pod that has once been anything else never is pending again.

**The services of the pods.** `IInv` says which endpoints may be there and not
which have to be: a task that never added anything would satisfy it.
`ServicesInv` (module `KubernetesServicesProofs`) adds the other direction:

* `ReportsOK`: the reports on their way have the services of their pod; a pod
  that one of them calls succeeded has succeeded, and one whose deletion is
  reported is gone;
* `NotYetOK`: nothing is known or told of a pod before it is created, so its first
  report finds it new;
* `PortsOK`: no other port is told of a pod than those of its services;
* `ServedOK`: the services of a known pod that has not ended all parse, each has
  been added or is an Add in the outbox, and no Delete of the pod is;
* `FoundOK`: a complete pod of which no news is on its way is known.

`ServedOK` is where the condition is needed: the loop over a list puts every pod
into `current_pod_uids`, also one that `apply_pod` skipped, and that one would then
be known with nothing told. Both directions together give `CaughtUpServes`: a task
that has caught up has told of a port exactly if a complete pod that has not
ended serves it, but for ports of a pod that has become incomplete. With
`CompletePods`, `CompleteInv` (every pod in the cluster, the
stream and the list is complete) yields the condition. TLC has checked
`ServicesInv` on the instances of the discovery's runs, restricted to states that
satisfy the condition, before it was proved.

**KubernetesBackend.** The proof modules of both parts are instantiated under
the mapping of the composition. Every step of the composition is a step of the
manager or leaves it alone (`ManagerSteps`, and with it `ImplementsManager`), and
a step of the discovery or leaves that alone, but for whether the `Receiver`
exists (`WatchSteps`, `WorkSteps`, `ChannelSteps`, `OtherSteps`), so `Components`,
the two inductive invariants, holds without a second proof, and so does
`ServicesInv` under its condition. Then `TableFollowsEvents` is inductive together
with it: an event that is sent is learnt last (`LearnLast`), one that is received
stays pending, one that is processed was to be learnt first (`LearnFirst`), and
`process_event` makes of it what `Learn` says (`EventLearnt`); sending a Close takes
a service from the map, but it has no endpoint (`ListenersOK`). `LearnAll` is
a recursive function, and what it computes is proved by taking the smallest
counterexample (`Smallest`, from the well-foundedness of the naturals).
`RoutesAreSound` puts `TableFollowsEvents` and the theorems about the discovery
together: `NoWrongRoutes` is the half of `RoutesFollowPods` that needs no condition
on the lists. A route is to a pod that exists and, if that pod is complete, has not
succeeded and is available exactly if it runs. `RoutesAreExact` is the whole: the table is what was told
(`TableFollowsEvents`), what was told is exact (`CaughtUpServes`) and has the right
availability (`AvailabilityFollowsPhase`).

**Only model-checked.** The liveness properties `EventsProcessed`,
`SubscriptionCompletes`, `FeedCatchesUp`, `ListensEventually` and
`RoutesConverge`: fairness is out of the prover's reach.

## 6. Not modelled

* Metrics counters and logging: nothing reads them.
* The reading of the Kubernetes connection parameters (`kubernetes/mod.rs:52-86`):
  no state, before any task exists.
* Of the endpoint protocol: `EndpointProtocol::new` and `new_client`, which no
  execution gets through (see section 4); the check of the server's Hello
  (`endpoint.rs:233-260`), which is only reached with a message that
  `receive_server_message` never returns; the code in comments (315-355); `send`,
  `receive`, `new_channel`, `new_server` and `OwnedServerMessageV0`, which are
  `unimplemented!()`; the message enums, which are data and formatting.
* `ConnectionMap` (`state.rs`): no module declares the file, and the types it
  names (`HttpHandle`, `SshHandle`) do not exist. Its one operation inserts under
  a counter.
* Protocol traits and registry, http, ssh, websockets, handover: signatures,
  stubs and empty files. The registry is a map with one insertion, owned by one
  task.
* `main.rs`: command line, logging, and the construction of the parts in
  sequence; its `run` returns as soon as everything is set up.
* Benchmarks and test helpers.

`PROJECT.json` gives the reason part by part.

## 7. Plan

Done, in this order: the manager and its proofs; endpoint selection; the
Kubernetes discovery; the abstract feed, its refinement and the proof of it;
the matchmaker on top of the feed; the composition of discovery and manager;
the client of the endpoint protocol. What can be modelled faithfully is
modelled. After that the proofs of section 5: of every module's type invariant
and safety properties, of the refinement of the feed, and of the composition.

Nothing is left that the code as it stands would support. What would be worth
adding when the code grows: services of a pod whose annotations change
(`apply_pod` reads them only once), the endpoint protocol beyond its client's
first message, and the connection map when it becomes part of the build.
