------------------------ MODULE EndpointClientProofs ------------------------
(***************************************************************************)
(* Proofs about EndpointClient, for every size of the buffer and every way *)
(* in which the peer's bytes are cut into messages and reads.              *)
(***************************************************************************)
EXTENDS EndpointClient, Integers, TLAPS

-----------------------------------------------------------------------------
(* The inductive invariant.                                                *)

\* Bytes of the peer that have been read from messages, or dropped with them.
Passed == delivered - Len(data)

\* The buffer has its full size while it is filled.  The slice can be ahead
\* of the contents, but not by more than the sum of all counts so far.
FillOK ==
    state = "fill" =>
        /\ Len(read_buffer) = MESSAGE_BUFFER_SIZE
        /\ in_buffer <= slice
        /\ 2 * slice <= in_buffer * (in_buffer + 1)

\* No more bytes are counted than have passed.
CountOK ==
    /\ state = "hello" => read_buffer = <<>>
    /\ state \in {"hello", "receive"} =>
           Len(read_buffer) <= delivered /\ data = <<>>
    /\ state = "fill" => in_buffer <= Passed

\* The data at hand is what comes after the bytes that have passed, which are
\* the only ones in the buffer, and those in front of the slice.
OrderOK ==
    /\ state \in {"hello", "receive"} =>
           \A i \in 1..Len(read_buffer) : read_buffer[i] <= delivered
    /\ state = "fill" =>
           /\ \A k \in 1..Len(data) : data[k] = Passed + k
           /\ \A i \in 1..MESSAGE_BUFFER_SIZE : read_buffer[i] <= Passed
           /\ \A i \in slice + 1 .. MESSAGE_BUFFER_SIZE : read_buffer[i] = 0

\* As long as all messages were simple, the contents of the buffer are right,
\* it lacks nothing unless it is full, and the slice begins where they end if
\* another read may follow.
SimpleOK ==
    /\ simple /\ state \in {"hello", "receive"} =>
           /\ \A i \in 1..Len(read_buffer) : read_buffer[i] = i
           /\ Len(read_buffer) \in {delivered, MESSAGE_BUFFER_SIZE}
    /\ simple /\ state = "fill" =>
           /\ \A i \in 1..in_buffer : read_buffer[i] = i
           /\ in_buffer \in {Passed, MESSAGE_BUFFER_SIZE}
           /\ reads_left >= 1 => slice = in_buffer
           /\ reads_left = 2 => in_buffer = 0

IInv ==
    /\ TypeOK
    /\ FillOK
    /\ CountOK
    /\ OrderOK
    /\ SimpleOK
    /\ ReadOrderKept
    /\ ShortMessagesSafe
    /\ TooLargeOnlyIfLarge

-----------------------------------------------------------------------------
(* Arithmetic and sequences.                                               *)

\* A read adds one count to the position of the slice.
LEMMA SliceBound ==
    ASSUME NEW a \in Nat, NEW n \in Nat \ {0}, NEW b \in Nat,
           2 * b <= a * (a + 1)
    PROVE  2 * (b + (a + n)) <= (a + n) * ((a + n) + 1)
<1>1. (a + n) * ((a + n) + 1) = a * (a + 1) + 2 * (a * n) + n * n + n
  OBVIOUS
<1>2. a * n >= a
  OBVIOUS
<1>3. n * n >= n
  OBVIOUS
<1> QED
  BY <1>1, <1>2, <1>3

\* Contents of the buffer that ends in zeros up to its full size.
LEMMA Extended ==
    ASSUME NEW b \in Seq(Bytes), Len(b) <= MESSAGE_BUFFER_SIZE
    PROVE  LET x == b \o Zeros(MESSAGE_BUFFER_SIZE - Len(b))
           IN  /\ x \in Seq(Bytes)
               /\ Len(x) = MESSAGE_BUFFER_SIZE
               /\ \A i \in 1..MESSAGE_BUFFER_SIZE :
                      x[i] = IF i <= Len(b) THEN b[i] ELSE 0
<1> DEFINE n == MESSAGE_BUFFER_SIZE - Len(b)
<1>1. n \in Nat /\ MESSAGE_BUFFER_SIZE \in Nat
  BY SizeAssumption DEF MESSAGE_BUFFER_SIZE
<1>2. Zeros(n) \in Seq(Bytes) /\ Len(Zeros(n)) = n
      /\ \A i \in 1..n : Zeros(n)[i] = 0
  BY <1>1 DEF Zeros, Bytes
<1> HIDE DEF n
<1>3. /\ b \o Zeros(n) \in Seq(Bytes)
      /\ Len(b \o Zeros(n)) = Len(b) + n
      /\ \A i \in 1..(Len(b) + n) : (b \o Zeros(n))[i] =
             IF i <= Len(b) THEN b[i] ELSE Zeros(n)[i - Len(b)]
  BY <1>1, <1>2
<1> QED
  BY <1>1, <1>2, <1>3 DEF n

\* What truncate leaves of a buffer.
LEMMA Truncated ==
    ASSUME NEW b \in Seq(Bytes), NEW n \in 0..Len(b)
    PROVE  /\ SubSeq(b, 1, n) \in Seq(Bytes)
           /\ Len(SubSeq(b, 1, n)) = n
           /\ \A i \in 1..n : SubSeq(b, 1, n)[i] = b[i]
BY DEF Bytes

\* What a read of n bytes leaves of the data.
LEMMA Remaining ==
    ASSUME NEW d \in Seq(Bytes), NEW n \in 1..Len(d)
    PROVE  LET rest == SubSeq(d, n + 1, Len(d))
           IN  /\ rest \in Seq(Bytes)
               /\ Len(rest) = Len(d) - n
               /\ \A k \in 1..Len(rest) : rest[k] = d[n + k]
<1>1. Len(d) \in Nat /\ n \in Nat /\ Len(d) - n \in Nat
  OBVIOUS
<1>2. CASE n = Len(d)
  <2>1. SubSeq(d, n + 1, Len(d)) = <<>>
    BY <1>1, <1>2
  <2> QED
    BY <1>1, <1>2, <2>1
<1>3. CASE n < Len(d)
  <2>1. /\ SubSeq(d, n + 1, Len(d)) \in Seq(Bytes)
        /\ Len(SubSeq(d, n + 1, Len(d))) = Len(d) - n
    BY <1>1, <1>3
  <2>2. \A k \in 1..(Len(d) - n) : SubSeq(d, n + 1, Len(d))[k] = d[n + k]
    BY <1>1, <1>3
  <2> QED
    BY <2>1, <2>2
<1> QED
  BY <1>1, <1>2, <1>3

\* What a read writes into the buffer.
LEMMA FilledFacts ==
    ASSUME IInv, state = "fill", NEW n \in 1..Len(data), n <= Room
    PROVE  /\ Filled(n) \in Seq(Bytes)
           /\ Len(Filled(n)) = MESSAGE_BUFFER_SIZE
           /\ \A i \in 1..MESSAGE_BUFFER_SIZE :
                  Filled(n)[i] = IF i \in slice + 1 .. slice + n
                                 THEN Passed + (i - slice)
                                 ELSE read_buffer[i]
<1>1. /\ MESSAGE_BUFFER_SIZE \in Nat /\ slice \in Nat /\ n \in Nat
      /\ slice + n <= MESSAGE_BUFFER_SIZE
      /\ read_buffer \in Seq(Bytes) /\ Len(read_buffer) = MESSAGE_BUFFER_SIZE
      /\ data \in Seq(Bytes)
      /\ \A k \in 1..Len(data) : data[k] = Passed + k
  BY SizeAssumption DEF MESSAGE_BUFFER_SIZE, IInv, TypeOK, FillOK, OrderOK, Room
<1>2. \A i \in 1..MESSAGE_BUFFER_SIZE :
          i \in slice + 1 .. slice + n =>
              i - slice \in 1..Len(data) /\ data[i - slice] \in Bytes
  BY <1>1
<1>3. \A i \in 1..MESSAGE_BUFFER_SIZE : read_buffer[i] \in Bytes
  BY <1>1
<1>4. \A i \in 1..MESSAGE_BUFFER_SIZE :
          (IF i \in slice + 1 .. slice + n THEN data[i - slice]
           ELSE read_buffer[i]) \in Bytes
  BY <1>2, <1>3
<1>5. Filled(n) \in [1..MESSAGE_BUFFER_SIZE -> Bytes]
  BY <1>4 DEF Filled
<1>6. Filled(n) \in Seq(Bytes) /\ Len(Filled(n)) = MESSAGE_BUFFER_SIZE
  BY <1>1, <1>5
<1>7. ASSUME NEW i \in 1..MESSAGE_BUFFER_SIZE
      PROVE  Filled(n)[i] = IF i \in slice + 1 .. slice + n
                            THEN Passed + (i - slice) ELSE read_buffer[i]
  BY <1>1, <1>2 DEF Filled
<1> QED
  BY <1>6, <1>7

-----------------------------------------------------------------------------
(* The steps.                                                              *)

\* The buffer is empty and no byte has come.
LEMMA InitialStates == Init => IInv
<1> SUFFICES ASSUME Init PROVE IInv
  OBVIOUS
<1>1. MESSAGE_BUFFER_SIZE \in Nat /\ <<>> \in Seq(Bytes) /\ Len(<<>>) = 0
  BY SizeAssumption DEF MESSAGE_BUFFER_SIZE
<1>2. TypeOK
  BY <1>1 DEF Init, TypeOK, States
<1> QED
  BY <1>1, <1>2 DEF Init, IInv, FillOK, CountOK, OrderOK, SimpleOK,
     ReadOrderKept, ShortMessagesSafe, TooLargeOnlyIfLarge

\* A step that only goes on to the receive loop, or ends with an error.
LEMMA OtherSteps ==
    ASSUME IInv,
           \/ SendHello
           \/ ReceiveFails
           \/ \E channel_id \in ChannelIds : ReceiveOnUnknownChannel(channel_id)
           \/ ReadFails
           \/ UNCHANGED vars
    PROVE  IInv'
<1>1. /\ \/ state' = state
         \/ state = "hello" /\ state' = "receive"
         \/ state' \in {"ConnectionError", "ServerCreatedChannel", "IoError"}
      /\ UNCHANGED <<base_capabilities, read_buffer, in_buffer, slice, data,
                     delivered, reads_left, simple>>
  BY DEF SendHello, ReceiveFails, ReceiveOnUnknownChannel, ReadFails, vars,
     fillVars, historyVars
<1>2. TypeOK'
  BY <1>1 DEF IInv, TypeOK, States, Errors, MESSAGE_BUFFER_SIZE
<1>3. FillOK' /\ CountOK' /\ OrderOK' /\ SimpleOK'
  BY <1>1 DEF IInv, FillOK, CountOK, OrderOK, SimpleOK, Passed,
     MESSAGE_BUFFER_SIZE
<1>4. ReadOrderKept' /\ ShortMessagesSafe' /\ TooLargeOnlyIfLarge'
  BY <1>1 DEF IInv, ReadOrderKept, ShortMessagesSafe, TooLargeOnlyIfLarge,
     MESSAGE_BUFFER_SIZE
<1> QED
  BY <1>2, <1>3, <1>4 DEF IInv

\* The buffer is extended and a new message is at hand.
LEMMA ReceiveMessageStep ==
    ASSUME IInv, NEW size \in Nat, NEW channel_id,
           ReceiveMessage(size, channel_id)
    PROVE  IInv'
<1> DEFINE old == Len(read_buffer)
<1>1. /\ state = "receive" /\ state' = "fill"
      /\ data' = [i \in 1..size |-> delivered + i]
      /\ delivered' = delivered + size
      /\ in_buffer' = old /\ slice' = old
      /\ read_buffer' = read_buffer \o Zeros(MESSAGE_BUFFER_SIZE - old)
      /\ reads_left' = IF read_buffer = <<>> THEN 2 ELSE 1
      /\ base_capabilities' = base_capabilities /\ simple' = simple
  BY DEF ReceiveMessage
<1>2. /\ MESSAGE_BUFFER_SIZE \in Nat /\ old \in Nat
      /\ old <= MESSAGE_BUFFER_SIZE /\ delivered \in Nat
      /\ read_buffer \in Seq(Bytes)
  BY SizeAssumption DEF MESSAGE_BUFFER_SIZE, IInv, TypeOK
<1>3. /\ read_buffer' \in Seq(Bytes)
      /\ Len(read_buffer') = MESSAGE_BUFFER_SIZE
      /\ \A i \in 1..MESSAGE_BUFFER_SIZE :
             read_buffer'[i] = IF i <= old THEN read_buffer[i] ELSE 0
  BY <1>1, <1>2, Extended
<1>4. /\ data' \in Seq(Bytes) /\ Len(data') = size
      /\ \A k \in 1..size : data'[k] = delivered + k
  BY <1>1, <1>2 DEF Bytes
<1>5. Passed' = delivered
  BY <1>1, <1>2, <1>4 DEF Passed
<1> HIDE DEF old
<1>6. TypeOK'
  BY <1>1, <1>2, <1>3, <1>4 DEF IInv, TypeOK, States, MESSAGE_BUFFER_SIZE
<1>7. FillOK'
  <2>1. 2 * old <= old * (old + 1)
    <3>1. CASE old = 0
      BY <3>1
    <3>2. CASE old >= 1
      BY <3>2, <1>2
    <3> QED
      BY <3>1, <3>2, <1>2
  <2> QED
    BY <1>1, <1>2, <1>3, <2>1 DEF FillOK, MESSAGE_BUFFER_SIZE
<1>8. CountOK'
  BY <1>1, <1>2, <1>5 DEF IInv, CountOK, old
<1>9. OrderOK'
  BY <1>1, <1>2, <1>3, <1>4, <1>5, SMTT(20)
  DEF IInv, OrderOK, old, MESSAGE_BUFFER_SIZE
<1>10. SimpleOK'
  BY <1>1, <1>2, <1>3, <1>5 DEF IInv, SimpleOK, old, MESSAGE_BUFFER_SIZE
<1>11. ReadOrderKept'
  BY <1>2, <1>3 DEF IInv, ReadOrderKept, old
<1>12. ShortMessagesSafe' /\ TooLargeOnlyIfLarge'
  BY <1>1 DEF ShortMessagesSafe, TooLargeOnlyIfLarge
<1> QED
  BY <1>6, <1>7, <1>8, <1>9, <1>10, <1>11, <1>12 DEF IInv

\* After a read the bytes in the buffer are still in order, and right as far
\* as they were right before.
LEMMA AfterRead ==
    ASSUME IInv, state = "fill", NEW n \in 1..Len(data), n <= Room
    PROVE  /\ \A i, j \in 1..MESSAGE_BUFFER_SIZE :
                  i < j /\ Filled(n)[i] # 0 /\ Filled(n)[j] # 0
                      => Filled(n)[i] < Filled(n)[j]
           /\ \A i \in 1..MESSAGE_BUFFER_SIZE : Filled(n)[i] <= Passed + n
           /\ \A i \in slice + n + 1 .. MESSAGE_BUFFER_SIZE : Filled(n)[i] = 0
           /\ simple /\ reads_left >= 1 =>
                  \A i \in 1..(in_buffer + n) : Filled(n)[i] = i
           /\ in_buffer + n <= MESSAGE_BUFFER_SIZE
<1>1. /\ MESSAGE_BUFFER_SIZE \in Nat /\ slice \in Nat /\ in_buffer \in Nat
      /\ n \in Nat /\ n >= 1 /\ slice + n <= MESSAGE_BUFFER_SIZE
      /\ in_buffer <= slice
      /\ Passed \in Int
      /\ Len(read_buffer) = MESSAGE_BUFFER_SIZE
      /\ \A i \in 1..MESSAGE_BUFFER_SIZE :
             read_buffer[i] \in Nat /\ read_buffer[i] <= Passed
      /\ \A i \in slice + 1 .. MESSAGE_BUFFER_SIZE : read_buffer[i] = 0
  BY SizeAssumption DEF MESSAGE_BUFFER_SIZE, IInv, TypeOK, FillOK, OrderOK,
     Room, Passed, Bytes
<1>2. \A i \in 1..MESSAGE_BUFFER_SIZE :
          Filled(n)[i] = IF i \in slice + 1 .. slice + n
                         THEN Passed + (i - slice) ELSE read_buffer[i]
  BY FilledFacts
<1>3. ReadOrderKept
  BY DEF IInv
<1>4. Passed >= 0
  BY <1>1 DEF IInv, CountOK
<1>5. ASSUME NEW i \in 1..MESSAGE_BUFFER_SIZE,
             NEW j \in 1..MESSAGE_BUFFER_SIZE,
             i < j, Filled(n)[i] # 0, Filled(n)[j] # 0
      PROVE  Filled(n)[i] < Filled(n)[j]
  <2>1. CASE i <= slice
    BY <2>1, <1>1, <1>2, <1>3, <1>5 DEF ReadOrderKept
  <2>2. CASE i > slice
    BY <2>2, <1>1, <1>2, <1>5
  <2> QED
    BY <2>1, <2>2, <1>1
<1>6. \A i \in 1..MESSAGE_BUFFER_SIZE : Filled(n)[i] <= Passed + n
  BY <1>1, <1>2
<1>7. \A i \in slice + n + 1 .. MESSAGE_BUFFER_SIZE : Filled(n)[i] = 0
  BY <1>1, <1>2
<1>8. ASSUME simple, reads_left >= 1, NEW i \in 1..(in_buffer + n)
      PROVE  Filled(n)[i] = i
  <2>1. /\ slice = in_buffer
        /\ in_buffer = Passed
        /\ \A k \in 1..in_buffer : read_buffer[k] = k
    BY <1>1, <1>8 DEF IInv, SimpleOK
  <2> QED
    BY <2>1, <1>1, <1>2
<1> QED
  BY <1>1, <1>5, <1>6, <1>7, <1>8

\* fill_buffer_from is left with a buffer that has its bytes in order.
LEMMA FinishStep ==
    ASSUME IInv, state = "fill",
           NEW buffer \in Seq(Bytes), Len(buffer) = MESSAGE_BUFFER_SIZE,
           NEW count \in 0..MESSAGE_BUFFER_SIZE,
           Finish(buffer, count), in_buffer' = count,
           reads_left' \in 0..2, simple' \in BOOLEAN,
           UNCHANGED <<base_capabilities, delivered>>,
           count <= delivered,
           \A i, j \in 1..MESSAGE_BUFFER_SIZE :
               i < j /\ buffer[i] # 0 /\ buffer[j] # 0 => buffer[i] < buffer[j],
           \A i \in 1..MESSAGE_BUFFER_SIZE : buffer[i] <= delivered,
           simple' => /\ \A i \in 1..count : buffer[i] = i
                      /\ count \in {delivered, MESSAGE_BUFFER_SIZE}
    PROVE  IInv'
<1> DEFINE too_large == /\ count > MAX_MESSAGE_BINARY_SIZE
                        /\ base_capabilities.message_boundaries
           left == SubSeq(buffer, 1, count)
<1>1. /\ read_buffer' = IF too_large THEN <<>> ELSE left
      /\ state' = IF too_large THEN "MessageTooLarge" ELSE "receive"
      /\ data' = <<>> /\ slice' = count
  BY DEF Finish, FinishWith
<1>2. /\ MAX_MESSAGE_BINARY_SIZE \in Nat /\ delivered \in Nat
      /\ MESSAGE_BUFFER_SIZE = MAX_MESSAGE_BINARY_SIZE + 1
  BY SizeAssumption DEF MESSAGE_BUFFER_SIZE, IInv, TypeOK
<1>3. /\ left \in Seq(Bytes) /\ Len(left) = count
      /\ \A i \in 1..count : left[i] = buffer[i]
  BY Truncated
<1>4. /\ <<>> \in Seq(Bytes) /\ Len(<<>>) = 0
      /\ MESSAGE_BUFFER_SIZE' = MESSAGE_BUFFER_SIZE
  BY DEF MESSAGE_BUFFER_SIZE
<1> HIDE DEF left
<1>5. CASE too_large
  <2>1. state' = "MessageTooLarge" /\ read_buffer' = <<>>
    BY <1>1, <1>5
  <2>2. TypeOK'
    BY <1>1, <1>2, <1>4, <2>1 DEF IInv, TypeOK, States, Errors
  <2>3. TooLargeOnlyIfLarge'
    BY <1>2, <1>5 DEF TooLargeOnlyIfLarge
  <2> QED
    BY <1>2, <1>4, <2>1, <2>2, <2>3 DEF IInv, FillOK, CountOK, OrderOK,
       SimpleOK, ReadOrderKept, ShortMessagesSafe
<1>6. CASE ~too_large
  <2>1. state' = "receive" /\ read_buffer' = left
    BY <1>1, <1>6
  <2>2. TypeOK'
    BY <1>1, <1>2, <1>3, <1>4, <2>1 DEF IInv, TypeOK, States, Errors
  <2>3. CountOK' /\ OrderOK' /\ SimpleOK'
    BY <1>1, <1>2, <1>3, <1>4, <2>1 DEF CountOK, OrderOK, SimpleOK
  <2>4. ReadOrderKept'
    BY <1>2, <1>3, <2>1 DEF ReadOrderKept
  <2> QED
    BY <2>1, <2>2, <2>3, <2>4 DEF IInv, FillOK, ShortMessagesSafe,
       TooLargeOnlyIfLarge
<1> QED
  BY <1>5, <1>6

\* The data has ended or the slice is empty.
LEMMA ReadNothingStep ==
    ASSUME IInv, ReadNothing
    PROVE  IInv'
<1>1. /\ state = "fill" /\ Finish(read_buffer, in_buffer)
      /\ simple' = (simple /\ data = <<>>)
      /\ UNCHANGED <<base_capabilities, in_buffer, delivered, reads_left>>
  BY DEF ReadNothing
<1>2. /\ read_buffer \in Seq(Bytes) /\ Len(read_buffer) = MESSAGE_BUFFER_SIZE
      /\ in_buffer \in 0..MESSAGE_BUFFER_SIZE /\ reads_left \in 0..2
      /\ delivered \in Nat /\ Len(data) \in Nat /\ Passed <= delivered
      /\ Passed \in Int
  BY <1>1 DEF IInv, TypeOK, FillOK, Passed
<1>3. in_buffer <= delivered
  BY <1>1, <1>2, SizeAssumption DEF IInv, CountOK, MESSAGE_BUFFER_SIZE
<1>4. \A i, j \in 1..MESSAGE_BUFFER_SIZE :
          i < j /\ read_buffer[i] # 0 /\ read_buffer[j] # 0
              => read_buffer[i] < read_buffer[j]
  BY <1>2 DEF IInv, ReadOrderKept
<1>5. \A i \in 1..MESSAGE_BUFFER_SIZE : read_buffer[i] <= delivered
  <2> TAKE i \in 1..MESSAGE_BUFFER_SIZE
  <2>1. read_buffer[i] \in Nat /\ read_buffer[i] <= Passed
    BY <1>1, <1>2 DEF IInv, OrderOK, Bytes
  <2> QED
    BY <1>2, <2>1
<1>6. simple' => /\ \A i \in 1..in_buffer : read_buffer[i] = i
                 /\ in_buffer \in {delivered, MESSAGE_BUFFER_SIZE}
  <2>1. data = <<>> => Passed = delivered
    BY <1>2 DEF Passed
  <2> QED
    BY <1>1, <2>1 DEF IInv, SimpleOK
<1> QED
  BY <1>1, <1>2, <1>3, <1>4, <1>5, <1>6, FinishStep

\* data.read() yields n bytes: the buffer is full, or the loop goes on, or the
\* slice is cut beyond its end.
LEMMA ReadStep ==
    ASSUME IInv, NEW n, Read(n)
    PROVE  IInv'
<1> DEFINE count == in_buffer + n
<1>1. /\ state = "fill" /\ n \in 1..Len(data) /\ n <= Room
      /\ in_buffer' = count
      /\ reads_left' = IF reads_left = 0 THEN 0 ELSE reads_left - 1
      /\ simple' = (simple /\ reads_left > 0)
      /\ UNCHANGED <<base_capabilities, delivered>>
  BY DEF Read
<1>2. /\ MESSAGE_BUFFER_SIZE \in Nat /\ MAX_MESSAGE_BINARY_SIZE \in Nat
      /\ MESSAGE_BUFFER_SIZE = MAX_MESSAGE_BINARY_SIZE + 1
      /\ MESSAGE_BUFFER_SIZE' = MESSAGE_BUFFER_SIZE
      /\ slice \in Nat /\ in_buffer \in Nat /\ n \in Nat /\ n >= 1
      /\ reads_left \in 0..2 /\ simple \in BOOLEAN
      /\ delivered \in Nat /\ data \in Seq(Bytes) /\ Len(data) \in Nat
      /\ Passed = delivered - Len(data) /\ in_buffer <= Passed
      /\ in_buffer <= slice
  BY <1>1, SizeAssumption
  DEF MESSAGE_BUFFER_SIZE, IInv, TypeOK, FillOK, CountOK, Passed
<1>3. Filled(n) \in Seq(Bytes) /\ Len(Filled(n)) = MESSAGE_BUFFER_SIZE
  BY <1>1, FilledFacts
<1>4. /\ \A i, j \in 1..MESSAGE_BUFFER_SIZE :
             i < j /\ Filled(n)[i] # 0 /\ Filled(n)[j] # 0
                 => Filled(n)[i] < Filled(n)[j]
      /\ \A i \in 1..MESSAGE_BUFFER_SIZE : Filled(n)[i] <= Passed + n
      /\ \A i \in slice + n + 1 .. MESSAGE_BUFFER_SIZE : Filled(n)[i] = 0
      /\ simple /\ reads_left >= 1 =>
             \A i \in 1..count : Filled(n)[i] = i
      /\ count <= MESSAGE_BUFFER_SIZE
  BY <1>1, AfterRead
<1>5. count \in 0..MESSAGE_BUFFER_SIZE /\ count <= Passed + n
      /\ Passed + n <= delivered
  BY <1>1, <1>2, <1>4
<1>6. simple' => simple /\ reads_left >= 1
  <2>1. reads_left > 0 => reads_left >= 1
    BY <1>2
  <2>2. simple' => simple /\ reads_left > 0
    BY <1>1, Zenon
  <2> QED
    BY <2>1, <2>2, Zenon
<1>7. reads_left' \in 0..2 /\ simple' \in BOOLEAN
  BY <1>1, <1>2
<1>8. CASE count > MAX_MESSAGE_BINARY_SIZE /\ Finish(Filled(n), count)
  <2>1. count = MESSAGE_BUFFER_SIZE
    BY <1>2, <1>5, <1>8
  <2>2. \A i \in 1..MESSAGE_BUFFER_SIZE : Filled(n)[i] <= delivered
    <3> TAKE i \in 1..MESSAGE_BUFFER_SIZE
    <3>1. Filled(n)[i] \in Nat /\ Filled(n)[i] <= Passed + n
      BY <1>3, <1>4 DEF Bytes
    <3> QED
      BY <3>1, <1>2, <1>5
  <2>3. count <= delivered
    BY <1>2, <1>5
  <2> HIDE DEF count
  <2> QED
    BY <1>1, <1>3, <1>4, <1>5, <1>6, <1>7, <1>8, <2>1, <2>2, <2>3, FinishStep
<1>9. CASE /\ count <= MAX_MESSAGE_BINARY_SIZE
           /\ NextSlice(count) <= MESSAGE_BUFFER_SIZE
           /\ read_buffer' = Filled(n)
           /\ slice' = NextSlice(count)
           /\ data' = SubSeq(data, n + 1, Len(data))
           /\ UNCHANGED state
  <2>1. slice' = slice + count /\ slice' <= MESSAGE_BUFFER_SIZE
    BY <1>9 DEF NextSlice
  <2>2. /\ data' \in Seq(Bytes) /\ Len(data') = Len(data) - n
        /\ \A k \in 1..Len(data') : data'[k] = data[n + k]
    BY <1>1, <1>2, <1>9, Remaining
  <2>3. Passed' = Passed + n
    BY <1>1, <1>2, <2>2 DEF Passed
  <2>4. TypeOK'
    BY <1>1, <1>2, <1>3, <1>5, <1>7, <1>9, <2>1, <2>2 DEF IInv, TypeOK
  <2>5. FillOK'
    <3>1. 2 * slice <= in_buffer * (in_buffer + 1)
      BY <1>1 DEF IInv, FillOK
    <3>2. 2 * (slice + (in_buffer + n))
              <= (in_buffer + n) * ((in_buffer + n) + 1)
      BY <1>2, <3>1, SliceBound
    <3> QED
      BY <1>1, <1>2, <1>3, <1>9, <2>1, <3>2 DEF FillOK
  <2>6. CountOK'
    BY <1>1, <1>5, <1>9, <2>3 DEF CountOK
  <2>7. OrderOK'
    <3>1. \A k \in 1..Len(data) : data[k] = Passed + k
      BY <1>1 DEF IInv, OrderOK
    <3>2. \A k \in 1..Len(data') : data'[k] = Passed' + k
      BY <1>1, <1>2, <2>2, <2>3, <3>1
    <3>3. \A i \in slice' + 1 .. MESSAGE_BUFFER_SIZE : read_buffer'[i] = 0
      BY <1>2, <1>4, <1>9, <2>1
    <3> QED
      BY <1>1, <1>2, <1>4, <1>9, <2>3, <3>2, <3>3 DEF OrderOK
  <2>8. SimpleOK'
    <3> SUFFICES ASSUME simple' PROVE SimpleOK'
      BY DEF SimpleOK
    <3>1. simple /\ reads_left >= 1
      BY <1>6, Zenon
    <3>2. /\ slice = in_buffer
          /\ in_buffer \in {Passed, MESSAGE_BUFFER_SIZE}
          /\ reads_left = 2 => in_buffer = 0
      BY <1>1, <3>1 DEF IInv, SimpleOK
    <3>3. in_buffer = Passed
      BY <1>1, <1>2, <1>5, <3>2
    <3>4. reads_left' >= 1 => slice' = count
      <4>1. reads_left' >= 1 => reads_left = 2
        BY <1>1, <1>2
      <4> QED
        BY <1>2, <2>1, <3>2, <4>1
    <3>5. reads_left' # 2
      BY <1>1, <1>2
    <3>6. \A i \in 1..count : read_buffer'[i] = i
      BY <1>4, <1>9, <3>1
    <3>7. count = Passed'
      BY <2>3, <3>3
    <3> HIDE DEF count
    <3> QED
      BY <1>1, <1>9, <3>4, <3>5, <3>6, <3>7 DEF SimpleOK
  <2>9. ReadOrderKept'
    BY <1>2, <1>3, <1>4, <1>9 DEF ReadOrderKept
  <2> QED
    BY <1>1, <1>9, <2>4, <2>5, <2>6, <2>7, <2>8, <2>9
    DEF IInv, ShortMessagesSafe, TooLargeOnlyIfLarge
<1>10. CASE /\ count <= MAX_MESSAGE_BINARY_SIZE
            /\ NextSlice(count) > MESSAGE_BUFFER_SIZE
            /\ state' = "panicked"
            /\ read_buffer' = Filled(n)
            /\ UNCHANGED <<slice, data>>
  <2>1. TypeOK'
    BY <1>1, <1>2, <1>3, <1>5, <1>7, <1>10 DEF IInv, TypeOK, States
  <2>2. ShortMessagesSafe'
    <3>1. 2 * slice <= in_buffer * (in_buffer + 1)
      BY <1>1 DEF IInv, FillOK
    <3>2. 2 * (slice + (in_buffer + n))
              <= (in_buffer + n) * ((in_buffer + n) + 1)
      BY <1>2, <3>1, SliceBound
    <3>3. slice + (in_buffer + n) > MESSAGE_BUFFER_SIZE
      BY <1>10 DEF NextSlice
    <3>4. (in_buffer + n) * ((in_buffer + n) + 1) > 2 * MESSAGE_BUFFER_SIZE
      BY <1>2, <3>2, <3>3
    <3> QED
      BY <1>1, <1>2, <3>4 DEF ShortMessagesSafe
  <2>3. ReadOrderKept'
    BY <1>2, <1>3, <1>4, <1>10 DEF ReadOrderKept
  <2> QED
    BY <1>10, <2>1, <2>2, <2>3 DEF IInv, FillOK, CountOK, OrderOK, SimpleOK,
       TooLargeOnlyIfLarge
<1> QED
  BY <1>8, <1>9, <1>10 DEF Read

\* Every step keeps the invariant.
LEMMA Invariance == IInv /\ [Next]_vars => IInv'
<1> SUFFICES ASSUME IInv, [Next]_vars PROVE IInv'
  OBVIOUS
<1>1. CASE \/ SendHello
           \/ ReceiveFails
           \/ \E channel_id \in ChannelIds : ReceiveOnUnknownChannel(channel_id)
           \/ ReadFails
           \/ UNCHANGED vars
  BY <1>1, OtherSteps
<1>2. ASSUME NEW size \in 0..MaxData, NEW channel_id,
             ReceiveMessage(size, channel_id)
      PROVE  IInv'
  <2>1. size \in Nat
    BY SizeAssumption
  <2> QED
    BY <1>2, <2>1, ReceiveMessageStep
<1>3. ASSUME NEW n \in 1..MaxData, Read(n) PROVE IInv'
  BY <1>3, ReadStep
<1>4. CASE ReadNothing
  BY <1>4, ReadNothingStep
<1> QED
  BY <1>1, <1>2, <1>3, <1>4 DEF Next

\* The invariant holds in all reachable states.
LEMMA Inductive == Spec => []IInv
BY InitialStates, Invariance, PTL DEF Spec

-----------------------------------------------------------------------------
(* Results.                                                                *)

\* The variables keep their types: fill_buffer_from never counts more bytes
\* than its buffer holds, so its assertion never fails.
THEOREM TypeCorrect == Spec => []TypeOK
<1>1. IInv => TypeOK
  BY DEF IInv
<1> QED
  BY <1>1, Inductive, PTL

\* However the peer's bytes are cut into messages and reads, fill_buffer_from
\* never puts one of them in front of an earlier one and keeps none twice.
THEOREM OrderIsKept == Spec => []ReadOrderKept
<1>1. IInv => ReadOrderKept
  BY DEF IInv
<1> QED
  BY <1>1, Inductive, PTL

\* With two reads for the first message and one for each later one, the buffer
\* of receive_server_message is the beginning of what the peer sent.
THEOREM FewReadsAreContiguous == Spec => []ContiguousIfFewReads
<1>1. IInv => ContiguousIfFewReads
  BY DEF IInv, SimpleOK, ContiguousIfFewReads
<1> QED
  BY <1>1, Inductive, PTL

\* fill_buffer_from does not panic before k(k + 1) / 2 exceeds the size of the
\* buffer, where k is the number of bytes in it.
THEOREM ShortMessagesAreSafe == Spec => []ShortMessagesSafe
<1>1. IInv => ShortMessagesSafe
  BY DEF IInv
<1> QED
  BY <1>1, Inductive, PTL

\* receive_server_message reports MessageTooLarge only if the peer sent more
\* than a message may have.
THEOREM TooLargeIsLarge == Spec => []TooLargeOnlyIfLarge
<1>1. IInv => TooLargeOnlyIfLarge
  BY DEF IInv
<1> QED
  BY <1>1, Inductive, PTL
=============================================================================
