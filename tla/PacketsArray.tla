---------------------------- MODULE PacketsArray ----------------------------
(***************************************************************************)
(* The Packets_Array of toxcore/net_crypto.c: a ring of packet slots with  *)
(* a window {buffer_start, buffer_end) of packet numbers.  Packet numbers  *)
(* are 32 bit words that wrap around; every comparison of the code is a    *)
(* comparison of unsigned differences, and is kept as one here.            *)
(*                                                                         *)
(* A function of the code that fails with -1 and changes nothing is split  *)
(* into its condition (Can...) and its effect.                             *)
(***************************************************************************)
EXTENDS Integers

CONSTANTS
  BufferSize,   \* CRYPTO_PACKET_BUFFER_SIZE, 32768 in the code
  Word,         \* number of packet numbers, 2^32 in the code
  MaxRun,       \* 255 in the code, the largest byte of a request packet
  NoPacket      \* the NULL pointer of an empty slot

\* The code asks for a power of two; what it needs is that the ring divides
\* the number space, so that consecutive numbers stay in consecutive slots
\* when the number wraps.
ASSUME BufferSizeAssumption == BufferSize \in Nat \ {0}
ASSUME MaxRunAssumption == MaxRun \in Nat \ {0}
ASSUME WordAssumption ==
  /\ Word \in Nat
  /\ Word > 2 * BufferSize
  /\ \E q \in 1 .. Word : Word = BufferSize * q

Words == 0 .. Word - 1
Slots == 0 .. BufferSize - 1

\* uint32_t arithmetic.
Sub(a, b) == IF a >= b THEN a - b ELSE a + Word - b
Add(a, k) == IF a + k < Word THEN a + k ELSE a + k - Word

Slot(number) == number % BufferSize

At(array, number) == array.buf[Slot(number)]

EmptyArray(number) ==
  [buf |-> [s \in Slots |-> NoPacket], start |-> number, end |-> number]

num_packets_array(array) == Sub(array.end, array.start)

-----------------------------------------------------------------------------

\* add_data_to_buffer.  The bound lets number = start + BufferSize through,
\* whose slot is the one of start.
CanAddDataToBuffer(array, number) ==
  /\ Sub(number, array.start) <= BufferSize
  /\ At(array, number) = NoPacket

\* Mutant of add_data_to_buffer: packets are stored in the order they come in.
add_data_to_buffer_InOrderOfArrival(array, number, data) ==
  [array EXCEPT
     !.buf[Slot(array.end)] = data,
     !.end = IF Sub(number, array.start) >= num_packets_array(array)
               THEN Add(number, 1) ELSE @]

add_data_to_buffer(array, number, data) ==
  [array EXCEPT
     !.buf[Slot(number)] = data,
     !.end = IF Sub(number, array.start) >= num_packets_array(array)
               THEN Add(number, 1) ELSE @]

\* get_data_pointer: does it return something else than -1?
InWindow(array, number) ==
  /\ Sub(array.end, number) <= num_packets_array(array)
  /\ Sub(number, array.start) < num_packets_array(array)

\* get_data_pointer returns 1.
Holds(array, number) == InWindow(array, number) /\ At(array, number) # NoPacket

CanAddDataEndOfBuffer(array) == num_packets_array(array) < BufferSize

add_data_end_of_buffer(array, data) ==
  [array EXCEPT !.buf[Slot(array.end)] = data, !.end = Add(@, 1)]

\* How many packets a loop of read_data_beg_buffer calls returns: it stops at
\* the end of the window, at a hole, or when it has emptied the whole ring.
Readable(array) ==
  CHOOSE k \in 0 .. BufferSize :
    /\ k <= num_packets_array(array)
    /\ \A i \in 0 .. k - 1 : At(array, Add(array.start, i)) # NoPacket
    /\ \/ k = num_packets_array(array)
       \/ k = BufferSize
       \/ At(array, Add(array.start, k)) = NoPacket

\* The slots of the numbers at some offsets from the start of the window.
SlotsOf(array, offsets) == {Slot(Add(array.start, i)) : i \in offsets}

\* The array after the first k numbers of its window have been freed.
DropFirst(array, k) ==
  [array EXCEPT
     !.buf = [s \in Slots |->
                IF s \in SlotsOf(array, 0 .. k - 1) THEN NoPacket ELSE array.buf[s]],
     !.start = Add(@, k)]

CanClearBufferUntil(array, number) ==
  /\ Sub(array.end, number) < num_packets_array(array)
  /\ Sub(number, array.start) <= num_packets_array(array)

clear_buffer_until(array, number) == DropFirst(array, Sub(number, array.start))

\* Mutant of set_buffer_end: it does not refuse an old end.
set_buffer_end_Unchecked(array, number) == [array EXCEPT !.end = number]

set_buffer_end(array, number) ==
  IF Sub(number, array.start) > BufferSize \/ Sub(number, array.end) > BufferSize
    THEN array
    ELSE [array EXCEPT !.end = number]

\* What generate_request_packet reports: the offsets of the holes among the
\* first upto numbers of the window.  Its list ends with a hole, or with the
\* zero byte that stands for MaxRun packets received in a row.  (Module
\* RequestCodec has the bytes.)
Holes(array, upto) ==
  {i \in 0 .. upto - 1 : At(array, Add(array.start, i)) = NoPacket}

ListEnds(array) ==
  {0} \cup {upto \in 1 .. num_packets_array(array) :
              \/ upto - 1 \in Holes(array, upto)
              \/ upto >= MaxRun /\ Holes(array, upto) \subseteq 0 .. upto - MaxRun - 1}

\* Mutant of handle_request_packet: it frees what the peer lists as missing.
handle_request_packet_FreesListed(array, upto, missing, late) ==
  LET seen == {i \in 0 .. upto - 1 : i < num_packets_array(array)}
  IN  [array EXCEPT !.buf =
        [s \in Slots |-> IF s \in SlotsOf(array, seen) THEN NoPacket ELSE array.buf[s]]]

\* handle_request_packet.  Among the first upto numbers, the missing ones are
\* the ones the peer lists; those of them in late were sent longer than a
\* round trip ago and become unsent again.  The others were received: freed.
handle_request_packet(array, upto, missing, late) ==
  LET seen == {i \in 0 .. upto - 1 : i < num_packets_array(array)}
  IN  [array EXCEPT !.buf =
        [s \in Slots |->
           IF s \in SlotsOf(array, seen \ missing)
             THEN NoPacket
           ELSE IF s \in SlotsOf(array, seen \cap missing \cap late)
                   /\ array.buf[s] # NoPacket
             THEN [array.buf[s] EXCEPT !.sent = FALSE]
           ELSE array.buf[s]]]

=============================================================================
