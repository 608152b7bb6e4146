--------------------------- MODULE EndpointClient ---------------------------
(***************************************************************************)
(* EndpointProtocolClient (src/src/protocol/proxy/endpoint.rs): the proxy's *)
(* end of a connection to an endpoint, from EndpointProtocolClient::new    *)
(* on.  init sends a Hello over the base connection and then awaits the    *)
(* reply in receive_server_message, whose loop collects what the base      *)
(* connection delivers in read_buffer with fill_buffer_from.               *)
(*                                                                         *)
(* The loop has no way out but an error: the code that would take a        *)
(* message out of the buffer is not written yet (OwnedServerMessageV0::new *)
(* is unimplemented!()).  read_buffer_map never gets a second entry and    *)
(* stream_left is never set.  EndpointProtocol::new, the only caller's     *)
(* constructor, panics at present (Arc::get_mut beside a Weak), so the     *)
(* client is modelled from its own constructor.                            *)
(*                                                                         *)
(* A byte is its position in what the peer sends, counted from 1 over all  *)
(* messages; 0 is the filling that BytesMut::resize writes.                *)
(***************************************************************************)
EXTENDS Naturals, Sequences

CONSTANTS
    MAX_MESSAGE_BINARY_SIZE,
    ChannelIds,      \* ids of multiplexed channels
    MaxData,         \* bound: bytes in the data of one message
    MaxDelivered,    \* bound: bytes in the data of all messages
    None

ASSUME SizeAssumption ==
    /\ MAX_MESSAGE_BINARY_SIZE \in Nat \ {0}
    /\ MaxData \in Nat
    /\ MaxDelivered \in Nat
    /\ None \notin ChannelIds

MESSAGE_BUFFER_SIZE == MAX_MESSAGE_BINARY_SIZE + 1

Bytes == Nat

\* ProtocolCapabilities of the base connection, as far as they are looked at:
\* whether multiplexing is more than 1, and message_boundaries.
ProtocolCapabilities == [multiplexed : BOOLEAN, message_boundaries : BOOLEAN]

VARIABLES
    base_capabilities,
    state,              \* where new stands
    read_buffer,        \* read_buffer_map[None]
    in_buffer,          \* fill_buffer_from: bytes in the buffer
    slice,              \* fill_buffer_from: where read_buffer_slice begins
    data,               \* what the message at hand has yet to deliver
    delivered,          \* bytes of all messages so far
    reads_left,         \* history: reads this message may take to be simple
    simple              \* history: every message so far was simple

fillVars == <<in_buffer, slice, data>>
historyVars == <<reads_left, simple>>
vars == <<base_capabilities, state, read_buffer, in_buffer, slice, data,
          delivered, reads_left, simple>>

(***************************************************************************)
(* "hello"    about to send the Hello                                      *)
(* "receive"  awaiting base_connection.receive()                           *)
(* "fill"     in fill_buffer_from, awaiting data.read()                    *)
(* "panicked" read_buffer_slice was cut beyond its end                     *)
(* others     new returned this error                                      *)
(***************************************************************************)
Errors == {"ConnectionError", "ServerCreatedChannel", "MessageTooLarge",
           "IoError"}
States == {"hello", "receive", "fill", "panicked"} \cup Errors

TypeOK ==
    /\ base_capabilities \in ProtocolCapabilities
    /\ state \in States
    /\ read_buffer \in Seq(Bytes)
    /\ Len(read_buffer) <= MESSAGE_BUFFER_SIZE
    /\ in_buffer \in 0..MESSAGE_BUFFER_SIZE
    /\ slice \in 0..MESSAGE_BUFFER_SIZE
    /\ state = "fill" => in_buffer <= slice
    /\ data \in Seq(Bytes)
    /\ delivered \in Nat
    /\ reads_left \in 0..2
    /\ simple \in BOOLEAN

\* EndpointProtocolClient::new.
Init ==
    /\ base_capabilities \in ProtocolCapabilities
    /\ state = "hello"
    /\ read_buffer = <<>>
    /\ in_buffer = 0
    /\ slice = 0
    /\ data = <<>>
    /\ delivered = 0
    /\ reads_left = 0
    /\ simple = TRUE

-----------------------------------------------------------------------------
(* The Hello, and what the base connection delivers.                       *)

\* send_client_message: a Hello needs no channel id, so it goes out as it is.
SendHello ==
    /\ state = "hello"
    /\ state' \in {"receive", "ConnectionError"}
    /\ UNCHANGED <<base_capabilities, read_buffer, fillVars, delivered,
                   historyVars>>

ReceiveFails ==
    /\ state = "receive"
    /\ state' = "ConnectionError"
    /\ UNCHANGED <<base_capabilities, read_buffer, fillVars, delivered,
                   historyVars>>

\* Without multiplexing the channel of a message is not looked at.
ChannelOf(channel_id) ==
    IF base_capabilities.multiplexed THEN channel_id ELSE None

\* No channel but the default one has a read buffer.
ReceiveOnUnknownChannel(channel_id) ==
    /\ state = "receive"
    /\ ChannelOf(channel_id) # None
    /\ state' = "ServerCreatedChannel"
    /\ UNCHANGED <<base_capabilities, read_buffer, fillVars, delivered,
                   historyVars>>

Zeros(n) == [i \in 1..n |-> 0]

(***************************************************************************)
(* A message with size bytes of data (one without data is skipped).        *)
(* fill_buffer_from runs up to its first read: the buffer is extended to   *)
(* its full size and the slice begins where its contents end.              *)
(***************************************************************************)
ReceiveMessage(size, channel_id) ==
    /\ state = "receive"
    /\ ChannelOf(channel_id) = None
    /\ delivered + size <= MaxDelivered
    /\ data' = [i \in 1..size |-> delivered + i]
    /\ delivered' = delivered + size
    /\ in_buffer' = Len(read_buffer)
    /\ slice' = Len(read_buffer)
    /\ read_buffer' =
           read_buffer \o Zeros(MESSAGE_BUFFER_SIZE - Len(read_buffer))
    /\ state' = "fill"
    /\ reads_left' = IF read_buffer = <<>> THEN 2 ELSE 1
    /\ UNCHANGED <<base_capabilities, simple>>

-----------------------------------------------------------------------------
(* fill_buffer_from.                                                       *)

Room == MESSAGE_BUFFER_SIZE - slice

\* The next n bytes of data, written to the front of the slice.
Filled(n) ==
    [i \in 1..MESSAGE_BUFFER_SIZE |->
        IF i \in slice + 1 .. slice + n THEN data[i - slice]
        ELSE read_buffer[i]]

\* read_buffer_slice = &mut read_buffer_slice[in_buffer..]: the count of all
\* bytes in the buffer is taken as a position in the present slice.
NextSliceStays(count) == slice
NextSliceSkipsOne(count) == slice + count + 1
NextSlice(count) == slice + count

(***************************************************************************)
(* The loop is left: the buffer is cut to the bytes counted.  With message *)
(* boundaries a full buffer is cleared and reported, otherwise             *)
(* receive_server_message goes on to the next message; what the data still *)
(* holds is dropped with it.                                               *)
(***************************************************************************)
FinishWith(buffer, count, too_large) ==
    /\ read_buffer' = IF too_large THEN <<>> ELSE SubSeq(buffer, 1, count)
    /\ state' = IF too_large THEN "MessageTooLarge" ELSE "receive"
    /\ data' = <<>>
    /\ slice' = count

FinishOneEarly(buffer, count) ==
    FinishWith(buffer, count, /\ count >= MAX_MESSAGE_BINARY_SIZE
                              /\ base_capabilities.message_boundaries)

Finish(buffer, count) ==
    FinishWith(buffer, count, /\ count > MAX_MESSAGE_BINARY_SIZE
                              /\ base_capabilities.message_boundaries)

\* data.read() yields n bytes.
Read(n) ==
    LET count == in_buffer + n
    IN  /\ state = "fill"
        /\ n \in 1..Len(data) /\ n <= Room
        /\ in_buffer' = count
        /\ reads_left' = IF reads_left = 0 THEN 0 ELSE reads_left - 1
        /\ simple' = (simple /\ reads_left > 0)
        /\ \/ /\ count > MAX_MESSAGE_BINARY_SIZE
              /\ Finish(Filled(n), count)
           \/ /\ count <= MAX_MESSAGE_BINARY_SIZE
              /\ NextSlice(count) <= MESSAGE_BUFFER_SIZE
              /\ read_buffer' = Filled(n)
              /\ slice' = NextSlice(count)
              /\ data' = SubSeq(data, n + 1, Len(data))
              /\ UNCHANGED state
           \/ /\ count <= MAX_MESSAGE_BINARY_SIZE
              /\ NextSlice(count) > MESSAGE_BUFFER_SIZE
              /\ state' = "panicked"
              /\ read_buffer' = Filled(n)
              /\ UNCHANGED <<slice, data>>
        /\ UNCHANGED <<base_capabilities, delivered>>

\* data.read() yields 0 bytes: the data has ended, or the slice is empty.
ReadNothing ==
    /\ state = "fill"
    /\ data = <<>> \/ Room = 0
    /\ Finish(read_buffer, in_buffer)
    /\ simple' = (simple /\ data = <<>>)
    /\ UNCHANGED <<base_capabilities, in_buffer, delivered, reads_left>>

\* The buffer keeps its full size; new drops it with the client.
ReadFails ==
    /\ state = "fill"
    /\ state' = "IoError"
    /\ UNCHANGED <<base_capabilities, read_buffer, fillVars, delivered,
                   historyVars>>

-----------------------------------------------------------------------------
Next ==
    \/ SendHello
    \/ ReceiveFails
    \/ \E channel_id \in ChannelIds : ReceiveOnUnknownChannel(channel_id)
    \/ \E size \in 0..MaxData, channel_id \in ChannelIds \cup {None} :
           ReceiveMessage(size, channel_id)
    \/ \E n \in 1..MaxData : Read(n)
    \/ ReadNothing
    \/ ReadFails

Spec == Init /\ [][Next]_vars

-----------------------------------------------------------------------------
(* Properties.                                                             *)

(***************************************************************************)
(* However the base connection cuts what it delivers into messages and     *)
(* reads, no byte gets in front of an earlier one and none is kept twice   *)
(* in read_buffer: fill_buffer_from only ever moves its slice towards the  *)
(* end.  (It may leave zeros in between and cut bytes off.)                *)
(***************************************************************************)
ReadOrderKept ==
    \A i, j \in 1..Len(read_buffer) :
        i < j /\ read_buffer[i] # 0 /\ read_buffer[j] # 0
            => read_buffer[i] < read_buffer[j]

(***************************************************************************)
(* While the first message comes in at most two reads, every later one in  *)
(* at most one, and all of their data is read, read_buffer is exactly the  *)
(* beginning of what the peer sent whenever fill_buffer_from is done.      *)
(***************************************************************************)
ContiguousIfFewReads ==
    simple /\ state = "receive" =>
        \A i \in 1..Len(read_buffer) : read_buffer[i] = i

(***************************************************************************)
(* fill_buffer_from panics in the middle of a message only once so many    *)
(* bytes are in the buffer that its slice can have run past the end: with  *)
(* the code's 1025 bytes no 44 bytes, in whatever reads, make it panic.    *)
(***************************************************************************)
ShortMessagesSafe ==
    state = "panicked" =>
        in_buffer * (in_buffer + 1) > 2 * MESSAGE_BUFFER_SIZE

(***************************************************************************)
(* receive_server_message reports MessageTooLarge only after the peer has  *)
(* sent more bytes than a message may have.  They may be bytes of several  *)
(* messages: nothing empties read_buffer in between.                       *)
(***************************************************************************)
TooLargeOnlyIfLarge ==
    state = "MessageTooLarge" => delivered > MAX_MESSAGE_BINARY_SIZE

(***************************************************************************)
(* Refuted.  Over a base connection without message boundaries, sequential *)
(* messages form a single, contiguous stream of data                       *)
(* (src/src/protocol/mod.rs, ProtocolCapabilities::message_boundaries), so *)
(* what fill_buffer_from leaves in read_buffer is a beginning of it.       *)
(***************************************************************************)
ContiguousStream ==
    ~base_capabilities.message_boundaries /\ state = "receive" =>
        \A i \in 1..Len(read_buffer) : read_buffer[i] = i
=============================================================================
