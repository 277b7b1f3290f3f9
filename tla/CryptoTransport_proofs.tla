----------------------- MODULE CryptoTransport_proofs -----------------------
(***************************************************************************)
(* The data phase of a crypto connection is a pair of reliable channels,   *)
(* for every ring size, every packet number it starts with, any number of  *)
(* packets below the word size and any number of packets in flight:        *)
(* TransportIsRight and TransportIsReliable.                               *)
(*                                                                         *)
(* The properties are not inductive: they speak of packet numbers modulo   *)
(* 2^32 and of slots of a ring, and what a step does depends on packets    *)
(* that may be old.  TransportInv says in plain counts what the numbers    *)
(* mean:                                                                   *)
(*   Counts  the peer was given at least what is acknowledged, and at most *)
(*           what is written; what is not acknowledged fits the ring;      *)
(*   Rings   send_array spans the packets acked + 1 .. written, and        *)
(*           recv_array starts after those delivered; a slot in use holds  *)
(*           the packet whose number it stands for;                        *)
(*   Honest  a packet in the network says something that was true when it  *)
(*           was sent and has stayed so.                                   *)
(* add_data_to_buffer's own bound would let recv_array grow to one packet  *)
(* more than the ring holds; what excludes it is the send window of the    *)
(* peer (Counts) and that packets say the truth (Honest).                  *)
(*                                                                         *)
(* The parts: numbers and slots; what each function of packets_array does  *)
(* to a ring; the invariant; StepIsSound, what a step of one end has to    *)
(* show; the packets an end sends; one lemma for each action; the theorems.*)
(***************************************************************************)
EXTENDS CryptoTransport, SequenceTheorems, WellFoundedInduction, TLAPS

-----------------------------------------------------------------------------
(* Packet numbers and the slots of the ring.                               *)

\* The number of the k-th packet of a direction whose first number is f.
Nth(f, k) == Add(f, k - 1)

\* A positive multiple of BufferSize is no smaller than it.
LEMMA SmallMultiple ==
  ASSUME NEW k \in Int, NEW x \in Int, x = BufferSize * k, x < BufferSize, - x < BufferSize
  PROVE  x = 0
<1>1. CASE k >= 1
  <2>1. BufferSize * k = BufferSize + BufferSize * (k - 1) /\ BufferSize * (k - 1) >= 0
    BY <1>1, BufferSizeAssumption
  <2> QED
    BY <2>1, BufferSizeAssumption
<1>2. CASE k <= -1
  <2>1. BufferSize * (- k) = BufferSize + BufferSize * (- k - 1) /\ BufferSize * (- k - 1) >= 0
    BY <1>2, BufferSizeAssumption
  <2>2. BufferSize * (- k) = - (BufferSize * k)
    BY BufferSizeAssumption
  <2> QED
    BY <2>1, <2>2, BufferSizeAssumption
<1>3. CASE k = 0
  BY <1>3, BufferSizeAssumption
<1> QED
  BY <1>1, <1>2, <1>3

LEMMA SlotType ==
  ASSUME NEW x \in Nat
  PROVE  /\ Slot(x) \in Slots
         /\ \E p \in Int : x = BufferSize * p + Slot(x)
<1>1. /\ x = BufferSize * (x \div BufferSize) + (x % BufferSize)
      /\ (x % BufferSize) \in 0 .. BufferSize - 1
      /\ x \div BufferSize \in Int
  BY BufferSizeAssumption, SMT
<1> QED
  BY <1>1 DEF Slot, Slots

\* Two numbers share a slot exactly if their distance is a multiple of the
\* size of the ring.
LEMMA SlotsEqual ==
  ASSUME NEW x \in Nat, NEW y \in Nat, NEW c \in Int, x - y = BufferSize * c
  PROVE  Slot(x) = Slot(y)
<1>1. PICK p \in Int : x = BufferSize * p + Slot(x)
  BY SlotType
<1>2. PICK q \in Int : y = BufferSize * q + Slot(y)
  BY SlotType
<1>3. Slot(x) \in 0 .. BufferSize - 1 /\ Slot(y) \in 0 .. BufferSize - 1
  BY SlotType DEF Slots
<1>4. BufferSize * (c - p + q) = BufferSize * c - BufferSize * p + BufferSize * q
  BY BufferSizeAssumption
<1>5. Slot(x) - Slot(y) = BufferSize * (c - p + q)
  <2>1. /\ BufferSize * c \in Int /\ BufferSize * p \in Int /\ BufferSize * q \in Int
        /\ Slot(x) \in Int /\ Slot(y) \in Int
    BY <1>3, BufferSizeAssumption
  <2>2. Slot(x) - Slot(y) = BufferSize * c - BufferSize * p + BufferSize * q
    BY <1>1, <1>2, <2>1, x - y = BufferSize * c
  <2> QED
    BY <1>4, <2>2
<1>6. Slot(x) - Slot(y) = 0
  <2>1. /\ Slot(x) - Slot(y) < BufferSize /\ - (Slot(x) - Slot(y)) < BufferSize
        /\ Slot(x) - Slot(y) \in Int /\ c - p + q \in Int
    BY <1>3, BufferSizeAssumption
  <2> QED
    BY <1>5, <2>1, SmallMultiple
<1> QED
  BY <1>3, <1>6

LEMMA SlotsDiffer ==
  ASSUME NEW x \in Nat, NEW y \in Nat, Slot(x) = Slot(y), x - y < BufferSize, y - x < BufferSize
  PROVE  x = y
<1>1. PICK p \in Int : x = BufferSize * p + Slot(x)
  BY SlotType
<1>2. PICK q \in Int : y = BufferSize * q + Slot(y)
  BY SlotType
<1>3. Slot(x) \in Int
  BY SlotType, BufferSizeAssumption DEF Slots
<1>4. BufferSize * (p - q) = BufferSize * p - BufferSize * q
  BY BufferSizeAssumption
<1>5. x - y = BufferSize * (p - q)
  BY <1>1, <1>2, <1>3, <1>4, BufferSizeAssumption
<1>6. x - y = 0
  <2>1. x - y \in Int /\ p - q \in Int /\ - (x - y) < BufferSize
    BY BufferSizeAssumption
  <2> QED
    BY <1>5, <2>1, SmallMultiple
<1> QED
  BY <1>6

\* uint32_t arithmetic on the numbers of a direction that uses none twice.
LEMMA NthSub ==
  ASSUME NEW f \in Words, NEW j \in 1 .. Word, NEW k \in 1 .. Word
  PROVE  /\ Nth(f, k) \in Words
         /\ Sub(Nth(f, j), Nth(f, k)) = IF j >= k THEN j - k ELSE Word + j - k
  BY WordAssumption DEF Nth, Add, Sub, Words

LEMMA NthAdd ==
  ASSUME NEW f \in Words, NEW k \in 1 .. Word, NEW i \in Int, k + i \in 1 .. Word, i >= 0
  PROVE  Add(Nth(f, k), i) = Nth(f, k + i)
  BY WordAssumption DEF Nth, Add, Words

\* The slot of a packet number, without the wrap of the number.
LEMMA NthSlot ==
  ASSUME NEW f \in Words, NEW k \in 1 .. Word
  PROVE  Slot(Nth(f, k)) = Slot(f + k - 1) /\ Slot(Nth(f, k)) \in Slots
<1>1. Nth(f, k) \in Nat /\ f + k - 1 \in Nat /\ Word \in Nat
  BY NthSub, WordAssumption DEF Words
<1>2. Slot(Nth(f, k)) \in Slots
  BY <1>1, SlotType
<1>3. PICK q \in 1 .. Word : Word = BufferSize * q
  BY WordAssumption
<1>4. CASE f + k - 1 < Word
  BY <1>2, <1>4 DEF Nth, Add
<1>5. CASE f + k - 1 >= Word
  <2>1. f + k - 1 - Nth(f, k) = Word
    BY <1>1, <1>5, WordAssumption DEF Nth, Add, Words
  <2>2. q \in Int /\ f + k - 1 - Nth(f, k) = BufferSize * q
    BY <1>3, <2>1
  <2>3. Slot(f + k - 1) = Slot(Nth(f, k))
    <3>1. PICK x \in Nat : x = f + k - 1
      BY <1>1
    <3>2. x - Nth(f, k) = BufferSize * q
      BY <1>1, <2>2, <3>1, WordAssumption DEF Words
    <3>3. Slot(x) = Slot(Nth(f, k))
      BY ONLY <1>1, <2>2, <3>1, <3>2, SlotsEqual
    <3> QED
      BY <3>1, <3>3
  <2> QED
    BY <1>2, <2>3
<1> QED
  BY <1>1, <1>4, <1>5, WordAssumption DEF Words

\* Numbers less than a ring apart have slots of their own; a ring apart they
\* share one.
LEMMA NthApart ==
  ASSUME NEW f \in Words, NEW j \in 1 .. Word, NEW k \in 1 .. Word,
         j - k < BufferSize, k - j < BufferSize, Slot(Nth(f, j)) = Slot(Nth(f, k))
  PROVE  j = k
<1>1. Slot(f + j - 1) = Slot(f + k - 1)
  BY NthSlot
<1>2. f + j - 1 \in Nat /\ f + k - 1 \in Nat
  BY WordAssumption DEF Words
<1>3. (f + j - 1) - (f + k - 1) < BufferSize /\ (f + k - 1) - (f + j - 1) < BufferSize
  BY <1>2, BufferSizeAssumption, WordAssumption DEF Words
<1>4. f + j - 1 = f + k - 1
  BY <1>1, <1>2, <1>3, SlotsDiffer
<1> QED
  BY <1>4, WordAssumption DEF Words

LEMMA NthRound ==
  ASSUME NEW f \in Words, NEW k \in 1 .. Word, k + BufferSize \in 1 .. Word
  PROVE  Slot(Nth(f, k + BufferSize)) = Slot(Nth(f, k))
<1>1. f + k - 1 \in Nat /\ f + (k + BufferSize) - 1 \in Nat
  BY BufferSizeAssumption, WordAssumption DEF Words
<1>2. (f + (k + BufferSize) - 1) - (f + k - 1) = BufferSize * 1
  BY <1>1, BufferSizeAssumption, WordAssumption DEF Words
<1>3. Slot(f + (k + BufferSize) - 1) = Slot(f + k - 1)
  BY <1>1, <1>2, SlotsEqual
<1> QED
  BY <1>3, NthSlot

-----------------------------------------------------------------------------
(* The operations of a ring.  Its window is the packets a + 1 .. b of a    *)
(* direction that starts with number f; Far is as far as a direction goes. *)

Far == 0 .. Word - BufferSize - 2

Spans(array, f, a, b) == array.start = Nth(f, a + 1) /\ array.end = Nth(f, b + 1)

\* What is stored for packet k.
Stored(array, f, k) == At(array, Nth(f, k))

LEMMA FarIsNat == Far \subseteq Nat /\ \A k \in Far : k + BufferSize + 1 \in 1 .. Word
  BY BufferSizeAssumption, WordAssumption DEF Far

LEMMA WindowIsSpan ==
  ASSUME NEW f \in Words, NEW a \in Far, NEW b \in Far, a <= b, NEW array, Spans(array, f, a, b)
  PROVE  /\ num_packets_array(array) = b - a
         /\ \A k \in Far : k > 0 => (InWindow(array, Nth(f, k)) <=> a < k /\ k <= b)
<1>1. a \in Nat /\ b \in Nat /\ a + 1 \in 1 .. Word /\ b + 1 \in 1 .. Word
  BY BufferSizeAssumption, WordAssumption DEF Far
<1>2. num_packets_array(array) = b - a
  BY <1>1, NthSub DEF num_packets_array, Spans
<1>3. ASSUME NEW k \in Far, k > 0
      PROVE  InWindow(array, Nth(f, k)) <=> a < k /\ k <= b
  <2>1. k \in 1 .. Word /\ a - k < Word - BufferSize /\ k - b < Word - BufferSize
    BY <1>1, <1>3, BufferSizeAssumption, WordAssumption DEF Far
  <2>2. /\ Sub(array.end, Nth(f, k)) = IF b + 1 >= k THEN b + 1 - k ELSE Word + (b + 1) - k
        /\ Sub(Nth(f, k), array.start) = IF k >= a + 1 THEN k - (a + 1) ELSE Word + k - (a + 1)
    BY <1>1, <2>1, NthSub DEF Spans
  <2> QED
    BY <1>1, <1>2, <2>1, <2>2, BufferSizeAssumption, WordAssumption DEF InWindow
<1> QED
  BY <1>2, <1>3

\* The slots at some offsets are those of the packets at these offsets.
LEMMA SlotsOfOffsets ==
  ASSUME NEW f \in Words, NEW a \in Far, NEW array, array.start = Nth(f, a + 1),
         NEW offsets \in SUBSET (0 .. BufferSize - 1),
         NEW k \in a + 1 .. a + BufferSize
  PROVE  Slot(Nth(f, k)) \in SlotsOf(array, offsets) <=> k - a - 1 \in offsets
<1>1. a \in Nat /\ a + 1 \in 1 .. Word /\ k \in 1 .. Word /\ BufferSize \in Nat
  BY BufferSizeAssumption, WordAssumption DEF Far
<1>2. ASSUME NEW i \in offsets
      PROVE  /\ Slot(Add(array.start, i)) = Slot(Nth(f, a + 1 + i))
             /\ a + 1 + i \in 1 .. Word
             /\ i \in Nat /\ i < BufferSize
  <2>1. i \in Int /\ i >= 0 /\ i < BufferSize
    BY BufferSizeAssumption
  <2>2. (a + 1) + i \in 1 .. Word
    BY <1>1, <2>1, FarIsNat, BufferSizeAssumption, WordAssumption
  <2>3. Add(array.start, i) = Nth(f, a + 1 + i)
    BY <1>1, <2>1, <2>2, NthAdd
  <2> QED
    BY <2>1, <2>2, <2>3
<1>3. ASSUME Slot(Nth(f, k)) \in SlotsOf(array, offsets) PROVE k - a - 1 \in offsets
  <2>1. PICK i \in offsets : Slot(Nth(f, k)) = Slot(Add(array.start, i))
    BY <1>3 DEF SlotsOf
  <2>2. /\ Slot(Nth(f, k)) = Slot(Nth(f, a + 1 + i)) /\ a + 1 + i \in 1 .. Word
        /\ i \in Nat /\ i < BufferSize
    BY <1>2, <2>1
  <2>3. PICK j \in 1 .. Word : j = a + 1 + i
    BY <2>2
  <2>4. k - j < BufferSize /\ j - k < BufferSize /\ Slot(Nth(f, k)) = Slot(Nth(f, j))
    BY <1>1, <2>2, <2>3
  <2>5. k = j
    BY <1>1, <2>4, NthApart
  <2>6. k - a - 1 = i
    BY <1>1, <2>2, <2>3, <2>5
  <2> QED
    BY <2>6
<1>4. ASSUME k - a - 1 \in offsets PROVE Slot(Nth(f, k)) \in SlotsOf(array, offsets)
  <2>1. PICK i \in offsets : i = k - a - 1
    BY <1>4
  <2>2. a + 1 + i = k
    BY <1>1, <2>1
  <2>3. Slot(Add(array.start, i)) = Slot(Nth(f, k))
    BY <1>2, <2>2
  <2> QED
    BY <2>3 DEF SlotsOf
<1> QED
  BY <1>3, <1>4

\* DropFirst frees the first n packets of the window and keeps the others.
LEMMA DropFirstKeeps ==
  ASSUME NEW f \in Words, NEW a \in Far, NEW b \in Far, NEW array \in Arrays,
         Spans(array, f, a, b), NEW n \in 0 .. BufferSize, a + n \in Far
  PROVE  /\ DropFirst(array, n) \in Arrays
         /\ Spans(DropFirst(array, n), f, a + n, b)
         /\ \A k \in a + 1 .. a + BufferSize :
              Stored(DropFirst(array, n), f, k) =
                IF k <= a + n THEN NoPacket ELSE Stored(array, f, k)
<1> DEFINE d == DropFirst(array, n)
           freed == SlotsOf(array, 0 .. n - 1)
<1>1. a \in Nat /\ n \in Nat /\ a + 1 \in 1 .. Word /\ (a + 1) + n \in 1 .. Word
      /\ BufferSize \in Nat
  BY FarIsNat, BufferSizeAssumption, WordAssumption DEF Far
<1>2. Add(array.start, n) = Nth(f, a + n + 1) /\ Nth(f, a + n + 1) \in Words
  <2>1. Add(Nth(f, a + 1), n) = Nth(f, (a + 1) + n) /\ (a + 1) + n = a + n + 1
    BY <1>1, NthAdd
  <2> QED
    BY <1>1, <2>1, NthSub DEF Spans
<1>3. d.start = Nth(f, a + n + 1) /\ d.end = array.end
      /\ d.buf = [s \in Slots |-> IF s \in freed THEN NoPacket ELSE array.buf[s]]
  BY <1>2 DEF DropFirst, Arrays
<1>4. d \in Arrays
  <2>1. d.buf \in [Slots -> Packets \cup {NoPacket}]
    BY <1>3 DEF Arrays
  <2> QED
    BY <1>2, <1>3, <2>1 DEF Arrays, DropFirst
<1>5. ASSUME NEW k \in a + 1 .. a + BufferSize
      PROVE  Stored(d, f, k) = IF k <= a + n THEN NoPacket ELSE Stored(array, f, k)
  <2>1. k \in 1 .. Word
    BY <1>1, BufferSizeAssumption, WordAssumption DEF Far
  <2>2. Slot(Nth(f, k)) \in Slots
    BY <2>1, NthSlot
  <2>3. 0 .. n - 1 \in SUBSET (0 .. BufferSize - 1) /\ array.start = Nth(f, a + 1)
    BY <1>1 DEF Spans
  <2>4. Slot(Nth(f, k)) \in freed <=> k - a - 1 \in 0 .. n - 1
    BY <2>3, SlotsOfOffsets
  <2>5. k - a - 1 \in 0 .. n - 1 <=> k <= a + n
    BY <1>1
  <2> QED
    BY <1>3, <2>2, <2>4, <2>5 DEF Stored, At
<1> QED
  BY <1>3, <1>4, <1>5 DEF Spans

-----------------------------------------------------------------------------
(* The send queue: packets a + 1 .. w are in its window, each in its own   *)
(* slot unless it was freed.                                               *)

Kept(k) == {NoPacket, [data |-> k, sent |-> TRUE], [data |-> k, sent |-> FALSE]}

\* A stored packet differs from an empty slot.
Distinct(w) == \A k \in 1 .. w : \A b \in BOOLEAN : NoPacket # [data |-> k, sent |-> b]

SendSound(s, f, a, w) ==
  /\ s \in Arrays
  /\ Spans(s, f, a, w)
  /\ \A k \in a + 1 .. w : Stored(s, f, k) \in Kept(k)

\* Both queues lack the same packets.
SameHoles(s, t, f, a, w) ==
  \A k \in a + 1 .. w : Stored(t, f, k) = NoPacket <=> Stored(s, f, k) = NoPacket

LEMMA MarkRecord ==
  \A x, k : \A b \in BOOLEAN :
    x = [data |-> k, sent |-> TRUE] \/ x = [data |-> k, sent |-> FALSE]
      => [x EXCEPT !.sent = b] = [data |-> k, sent |-> b]
<1> TAKE x, k
<1> TAKE b \in BOOLEAN
<1>1. CASE x = [data |-> k, sent |-> TRUE]
  BY <1>1
<1>2. CASE x = [data |-> k, sent |-> FALSE]
  BY <1>2
<1> QED
  BY <1>1, <1>2

LEMMA MarkedAsSent ==
  ASSUME NEW f \in Words, NEW a \in Far, NEW w \in Far, w - a <= BufferSize, Distinct(w),
         NEW s, SendSound(s, f, a, w), NEW k \in a + 1 .. w, Stored(s, f, k) # NoPacket
  PROVE  /\ SendSound(MarkSent(s, Nth(f, k)), f, a, w)
         /\ SameHoles(s, MarkSent(s, Nth(f, k)), f, a, w)
         /\ Stored(s, f, k).data = k
<1> DEFINE t == MarkSent(s, Nth(f, k))
<1>1. a \in Nat /\ w \in Nat /\ BufferSize \in Nat /\ Word \in Nat /\ w \in 1 .. Word /\ k \in 1 .. Word
  BY BufferSizeAssumption, WordAssumption DEF Far
<1>2. /\ Stored(s, f, k) = [data |-> k, sent |-> TRUE]
         \/ Stored(s, f, k) = [data |-> k, sent |-> FALSE]
      /\ s \in Arrays
  BY DEF SendSound, Kept
<1>3. Slot(Nth(f, k)) \in Slots
  BY <1>1, NthSlot
<1>4. /\ t.start = s.start /\ t.end = s.end
      /\ t.buf = [s.buf EXCEPT ![Slot(Nth(f, k))] = [data |-> k, sent |-> TRUE]]
  <2>1. [Stored(s, f, k) EXCEPT !.sent = TRUE] = [data |-> k, sent |-> TRUE]
    BY <1>2, MarkRecord
  <2> QED
    BY <1>2, <1>3, <2>1 DEF MarkSent, Stored, At, Arrays
<1>5. t \in Arrays
  <2>1. [data |-> k, sent |-> TRUE] \in Packets
    BY <1>1 DEF Packets
  <2>2. t.buf \in [Slots -> Packets \cup {NoPacket}]
    BY <1>2, <1>4, <2>1 DEF Arrays
  <2> QED
    BY <1>2, <1>4, <2>2 DEF Arrays, MarkSent
<1>6. ASSUME NEW j \in a + 1 .. w
      PROVE  Stored(t, f, j) = IF j = k THEN [data |-> k, sent |-> TRUE] ELSE Stored(s, f, j)
  <2>1. j \in 1 .. Word /\ j - k < BufferSize /\ k - j < BufferSize
    BY <1>1
  <2>2. Slot(Nth(f, j)) \in Slots /\ (Slot(Nth(f, j)) = Slot(Nth(f, k)) => j = k)
    BY <1>1, <2>1, NthSlot, NthApart
  <2> QED
    BY <1>2, <1>4, <2>2 DEF Stored, At, Arrays
<1>7. NoPacket # [data |-> k, sent |-> TRUE]
  <2>1. k \in 1 .. w
    BY <1>1
  <2> QED
    BY <2>1 DEF Distinct
<1>8. SendSound(t, f, a, w)
  BY <1>4, <1>5, <1>6 DEF SendSound, Spans, Kept
<1>9. SameHoles(s, t, f, a, w)
  BY <1>6, <1>7 DEF SameHoles
<1> QED
  BY <1>2, <1>8, <1>9

LEMMA AddedAtEnd ==
  ASSUME NEW f \in Words, NEW a \in Far, NEW w \in Far, w - a < BufferSize, a <= w, w + 1 \in Far,
         NEW s, SendSound(s, f, a, w), NEW b \in BOOLEAN
  PROVE  LET t == add_data_end_of_buffer(s, [data |-> w + 1, sent |-> b])
         IN  /\ SendSound(t, f, a, w + 1)
             /\ \A k \in a + 1 .. w : Stored(t, f, k) = Stored(s, f, k)
             /\ Stored(t, f, w + 1) = [data |-> w + 1, sent |-> b]
<1> DEFINE x == [data |-> w + 1, sent |-> b]
           t == add_data_end_of_buffer(s, x)
<1>1. /\ a \in Nat /\ w \in Nat /\ BufferSize \in Nat /\ Word \in Nat
      /\ w + 1 \in 1 .. Word /\ (w + 1) + 1 \in 1 .. Word
  BY BufferSizeAssumption, WordAssumption DEF Far
<1>2. s \in Arrays /\ s.end = Nth(f, w + 1) /\ s.start = Nth(f, a + 1)
  BY DEF SendSound, Spans
<1>3. Add(s.end, 1) = Nth(f, (w + 1) + 1) /\ Nth(f, (w + 1) + 1) \in Words
  <2>1. Add(Nth(f, w + 1), 1) = Nth(f, (w + 1) + 1)
    BY <1>1, NthAdd
  <2>2. Nth(f, (w + 1) + 1) \in Words
    BY <1>1, NthSub
  <2> QED
    BY <1>2, <2>1, <2>2
<1>4. Slot(Nth(f, w + 1)) \in Slots /\ x \in Packets
  BY <1>1, NthSlot DEF Packets
<1>5. /\ t.start = s.start /\ t.end = Nth(f, (w + 1) + 1)
      /\ t.buf = [s.buf EXCEPT ![Slot(Nth(f, w + 1))] = x]
  BY <1>2, <1>3 DEF add_data_end_of_buffer, Arrays
<1>6. t \in Arrays
  <2>1. t.buf \in [Slots -> Packets \cup {NoPacket}]
    BY <1>2, <1>4, <1>5 DEF Arrays
  <2> QED
    BY <1>2, <1>3, <1>5, <2>1 DEF Arrays, add_data_end_of_buffer
<1>7. ASSUME NEW k \in a + 1 .. w + 1
      PROVE  Stored(t, f, k) = IF k = w + 1 THEN x ELSE Stored(s, f, k)
  <2>1. k \in 1 .. Word /\ k - (w + 1) < BufferSize /\ (w + 1) - k < BufferSize
    BY <1>1
  <2>2. Slot(Nth(f, k)) \in Slots /\ (Slot(Nth(f, k)) = Slot(Nth(f, w + 1)) => k = w + 1)
    BY <1>1, <2>1, NthSlot, NthApart
  <2> QED
    BY <1>2, <1>4, <1>5, <2>2 DEF Stored, At, Arrays
<1> HIDE DEF t
<1>8. \A k \in a + 1 .. w : Stored(t, f, k) = Stored(s, f, k)
  BY <1>1, <1>7
<1>9. Stored(t, f, w + 1) = x
  BY <1>1, <1>7
<1>10. \A k \in a + 1 .. w + 1 : Stored(t, f, k) \in Kept(k)
  <2>1. \A k \in a + 1 .. w : Stored(t, f, k) \in Kept(k)
    BY <1>8 DEF SendSound
  <2>2. x \in Kept(w + 1)
    BY DEF Kept
  <2> QED
    BY <1>1, <1>9, <2>1, <2>2
<1>11. SendSound(t, f, a, w + 1)
  BY <1>2, <1>5, <1>6, <1>10 DEF SendSound, Spans
<1> QED
  BY <1>8, <1>9, <1>11 DEF t

\* clear_buffer_until the packets up to c are freed.
LEMMA ClearedUntil ==
  ASSUME NEW f \in Words, NEW a \in Far, NEW w \in Far, NEW c \in a .. w, w - a <= BufferSize,
         NEW s, SendSound(s, f, a, w)
  PROVE  /\ SendSound(DropFirst(s, c - a), f, c, w)
         /\ \A k \in c + 1 .. w : Stored(DropFirst(s, c - a), f, k) = Stored(s, f, k)
<1> DEFINE t == DropFirst(s, c - a)
<1>1. /\ a \in Nat /\ w \in Nat /\ c \in Nat /\ c - a \in 0 .. BufferSize /\ a + (c - a) = c
      /\ c \in Far /\ BufferSize \in Nat /\ Word \in Nat
  BY BufferSizeAssumption, WordAssumption DEF Far
<1>2. s \in Arrays /\ Spans(s, f, a, w) /\ a + (c - a) \in Far
  BY <1>1 DEF SendSound
<1>3. /\ t \in Arrays /\ Spans(t, f, a + (c - a), w)
      /\ \A k \in a + 1 .. a + BufferSize :
           Stored(t, f, k) = IF k <= a + (c - a) THEN NoPacket ELSE Stored(s, f, k)
  BY <1>1, <1>2, DropFirstKeeps
<1>4. \A k \in c + 1 .. w : Stored(t, f, k) = Stored(s, f, k)
  BY <1>1, <1>3
<1>5. SendSound(t, f, c, w)
  BY <1>1, <1>3, <1>4 DEF SendSound
<1> QED
  BY <1>4, <1>5

\* send_requested_packets marks the packets at the chosen offsets.
Marked(s, chosen) ==
  [s EXCEPT !.buf = [x \in Slots |-> IF x \in SlotsOf(s, chosen)
                                       THEN [s.buf[x] EXCEPT !.sent = TRUE] ELSE s.buf[x]]]

LEMMA ChosenMarked ==
  ASSUME NEW f \in Words, NEW a \in Far, NEW w \in Far, w - a <= BufferSize, Distinct(w),
         NEW s, SendSound(s, f, a, w), NEW chosen \in SUBSET (0 .. w - a - 1),
         \A i \in chosen : Stored(s, f, a + 1 + i) # NoPacket
  PROVE  SendSound(Marked(s, chosen), f, a, w) /\ SameHoles(s, Marked(s, chosen), f, a, w)
<1> DEFINE t == Marked(s, chosen)
<1>1. a \in Nat /\ w \in Nat /\ BufferSize \in Nat /\ Word \in Nat /\ w \in 0 .. Word
  BY BufferSizeAssumption, WordAssumption DEF Far
<1>2. s \in Arrays /\ s.start = Nth(f, a + 1)
  BY DEF SendSound, Spans
<1>3. t.start = s.start /\ t.end = s.end /\ t.buf = [x \in Slots |->
        IF x \in SlotsOf(s, chosen) THEN [s.buf[x] EXCEPT !.sent = TRUE] ELSE s.buf[x]]
  BY <1>2 DEF Marked, Arrays
<1>4. ASSUME NEW k \in a + 1 .. w
      PROVE  Stored(t, f, k) = IF k - a - 1 \in chosen THEN [data |-> k, sent |-> TRUE]
                                                       ELSE Stored(s, f, k)
  <2>1. k \in 1 .. Word /\ k \in a + 1 .. a + BufferSize
    BY <1>1
  <2>2. Slot(Nth(f, k)) \in Slots
    BY <2>1, NthSlot
  <2>3. chosen \in SUBSET (0 .. BufferSize - 1)
    BY <1>1
  <2>4. Slot(Nth(f, k)) \in SlotsOf(s, chosen) <=> k - a - 1 \in chosen
    BY <1>2, <2>1, <2>3, SlotsOfOffsets
  <2>5. ASSUME k - a - 1 \in chosen
        PROVE  [Stored(s, f, k) EXCEPT !.sent = TRUE] = [data |-> k, sent |-> TRUE]
    <3>1. a + 1 + (k - a - 1) = k
      BY <1>1
    <3>2. Stored(s, f, k) # NoPacket
      BY <2>5, <3>1
    <3>3. Stored(s, f, k) \in Kept(k)
      BY DEF SendSound
    <3> QED
      BY <3>2, <3>3, MarkRecord DEF Kept
  <2> QED
    BY <1>3, <2>2, <2>4, <2>5 DEF Stored, At
<1>5. ASSUME NEW k \in a + 1 .. w
      PROVE  Stored(t, f, k) \in Kept(k) /\ (Stored(t, f, k) = NoPacket <=> Stored(s, f, k) = NoPacket)
  <2>1. CASE k - a - 1 \in chosen
    <3>1. a + 1 + (k - a - 1) = k /\ k \in 1 .. w
      BY <1>1
    <3>2. Stored(s, f, k) # NoPacket
      BY <2>1, <3>1
    <3>3. NoPacket # [data |-> k, sent |-> TRUE]
      BY <3>1 DEF Distinct
    <3> QED
      BY <1>4, <2>1, <3>2, <3>3 DEF Kept
  <2>2. CASE k - a - 1 \notin chosen
    BY <1>4, <2>2 DEF SendSound
  <2> QED
    BY <2>1, <2>2
<1>6. t \in Arrays
  <2>1. ASSUME NEW x \in Slots, x \in SlotsOf(s, chosen)
        PROVE  [s.buf[x] EXCEPT !.sent = TRUE] \in Packets
    <3>1. PICK i \in chosen : x = Slot(Add(s.start, i))
      BY <2>1 DEF SlotsOf
    <3>2. /\ a + 1 \in 1 .. Word /\ i \in Int /\ i >= 0 /\ (a + 1) + i \in 1 .. Word
          /\ (a + 1) + i \in a + 1 .. w /\ (a + 1) + i \in Nat
      BY <1>1
    <3>3. s.buf[x] = Stored(s, f, (a + 1) + i)
      BY <1>2, <3>1, <3>2, NthAdd DEF Stored, At
    <3>4. Stored(s, f, (a + 1) + i) \in Kept((a + 1) + i) /\ Stored(s, f, (a + 1) + i) # NoPacket
      BY <3>2 DEF SendSound
    <3>5. [s.buf[x] EXCEPT !.sent = TRUE] = [data |-> (a + 1) + i, sent |-> TRUE]
      BY <3>3, <3>4, MarkRecord DEF Kept
    <3> QED
      BY <3>2, <3>5 DEF Packets
  <2>2. t.buf \in [Slots -> Packets \cup {NoPacket}]
    BY <1>2, <1>3, <2>1 DEF Arrays
  <2> QED
    BY <1>2, <1>3, <2>2 DEF Arrays, Marked
<1> QED
  BY <1>3, <1>5, <1>6 DEF SendSound, SameHoles, Spans

\* handle_request_packet frees the packets that are not listed, and no others.
LEMMA RequestHandled ==
  ASSUME NEW f \in Words, NEW a \in Far, NEW w \in Far, a <= w, w - a <= BufferSize, Distinct(w),
         NEW s, SendSound(s, f, a, w), NEW upto \in Nat, NEW missing, NEW late
  PROVE  LET t == handle_request_packet(s, upto, missing, late)
         IN  /\ SendSound(t, f, a, w)
             /\ \A k \in a + 1 .. w :
                  (Stored(s, f, k) # NoPacket /\ Stored(t, f, k) = NoPacket)
                    => k - a - 1 < upto /\ k - a - 1 \notin missing
<1> DEFINE seen == {i \in 0 .. upto - 1 : i < num_packets_array(s)}
           t == handle_request_packet(s, upto, missing, late)
           free == SlotsOf(s, seen \ missing)
           again == SlotsOf(s, seen \cap missing \cap late)
<1>1. a \in Nat /\ w \in Nat /\ BufferSize \in Nat /\ Word \in Nat /\ w \in 0 .. Word
  BY BufferSizeAssumption, WordAssumption DEF Far
<1>2. s \in Arrays /\ s.start = Nth(f, a + 1) /\ Spans(s, f, a, w)
  BY DEF SendSound, Spans
<1>3. num_packets_array(s) = w - a
  BY <1>2, WindowIsSpan
<1>4. /\ t.start = s.start /\ t.end = s.end
      /\ t.buf = [x \in Slots |->
           IF x \in free THEN NoPacket
           ELSE IF x \in again /\ s.buf[x] # NoPacket THEN [s.buf[x] EXCEPT !.sent = FALSE]
           ELSE s.buf[x]]
  BY <1>2 DEF handle_request_packet, Arrays
<1>5. t \in Arrays
  <2>1. ASSUME NEW x \in Slots, s.buf[x] # NoPacket
        PROVE  [s.buf[x] EXCEPT !.sent = FALSE] \in Packets
    <3>1. s.buf[x] \in Packets
      BY <1>2, <2>1 DEF Arrays
    <3> QED
      BY <3>1 DEF Packets
  <2> HIDE DEF free, again
  <2>2. t.buf \in [Slots -> Packets \cup {NoPacket}]
    BY <1>2, <1>4, <2>1 DEF Arrays
  <2> QED
    BY <1>2, <1>4, <2>2 DEF Arrays, handle_request_packet
<1>6. ASSUME NEW k \in a + 1 .. w
      PROVE  /\ Stored(t, f, k) \in Kept(k)
             /\ (Stored(s, f, k) # NoPacket /\ Stored(t, f, k) = NoPacket)
                  => k - a - 1 < upto /\ k - a - 1 \notin missing
  <2>1. k \in 1 .. Word /\ k \in a + 1 .. a + BufferSize /\ k \in 1 .. w
    BY <1>1
  <2>2. Slot(Nth(f, k)) \in Slots
    BY <2>1, NthSlot
  <2>3. seen \in SUBSET (0 .. BufferSize - 1) /\ seen \in SUBSET (0 .. upto - 1)
    BY <1>1, <1>3
  <2>4. Slot(Nth(f, k)) \in free <=> k - a - 1 \in seen \ missing
    <3>1. seen \ missing \in SUBSET (0 .. BufferSize - 1)
      BY <2>3
    <3> HIDE DEF seen
    <3> QED
      BY <1>2, <2>1, <3>1, SlotsOfOffsets
  <2>5. Stored(s, f, k) \in Kept(k) /\ Stored(s, f, k) = s.buf[Slot(Nth(f, k))]
    BY DEF SendSound, Stored, At
  <2>6. NoPacket # [data |-> k, sent |-> FALSE]
    BY <2>1 DEF Distinct
  <2>7. CASE Slot(Nth(f, k)) \in free
    <3>1. Stored(t, f, k) = NoPacket
      BY <1>4, <2>2, <2>7 DEF Stored, At
    <3>2. k - a - 1 < upto /\ k - a - 1 \notin missing
      BY <2>3, <2>4, <2>7, <1>1
    <3> QED
      BY <3>1, <3>2 DEF Kept
  <2>8. CASE Slot(Nth(f, k)) \notin free
    <3> HIDE DEF free, again
    <3>1. CASE Slot(Nth(f, k)) \in again /\ Stored(s, f, k) # NoPacket
      <4>1. Stored(t, f, k) = [Stored(s, f, k) EXCEPT !.sent = FALSE]
        BY <1>4, <2>2, <2>5, <2>8, <3>1 DEF Stored, At
      <4>2. Stored(t, f, k) = [data |-> k, sent |-> FALSE]
        BY <4>1, <2>5, <3>1, MarkRecord DEF Kept
      <4> QED
        BY <4>2, <2>6 DEF Kept
    <3>2. CASE ~ (Slot(Nth(f, k)) \in again /\ Stored(s, f, k) # NoPacket)
      <4>1. Stored(t, f, k) = Stored(s, f, k)
        BY <1>4, <2>2, <2>5, <2>8, <3>2 DEF Stored, At
      <4> QED
        BY <4>1, <2>5
    <3> QED
      BY <3>1, <3>2
  <2> QED
    BY <2>7, <2>8
<1>7. SendSound(t, f, a, w)
  BY <1>2, <1>4, <1>5, <1>6 DEF SendSound, Spans
<1> QED
  BY <1>6, <1>7

-----------------------------------------------------------------------------
(* The receive queue: the packets up to d were delivered, the peer has     *)
(* written w, and every slot outside the window is empty.                  *)

Reach == 0 .. Word - 2 * BufferSize - 3

Arrived(k) == [data |-> k, sent |-> FALSE]

RecvSpan(r, f, d, n) ==
  /\ Spans(r, f, d, d + n)
  /\ \A k \in d + 1 .. d + BufferSize :
       Stored(r, f, k) = NoPacket \/ (k <= d + n /\ Stored(r, f, k) = Arrived(k))

RecvSound(r, f, d, w) ==
  /\ r \in Arrays
  /\ \E n \in 0 .. BufferSize : d + n <= w /\ RecvSpan(r, f, d, n)

LEMMA ReachIsFar ==
  \A w \in Reach : \A n \in 0 .. BufferSize :
    w \in Nat /\ w \in Far /\ w + n \in Far /\ w + n + 1 \in 1 .. Word
  BY BufferSizeAssumption, WordAssumption DEF Reach, Far

\* What get_data_pointer finds in the receive queue.
LEMMA RecvHolds ==
  ASSUME NEW f \in Words, NEW w \in Reach, NEW d \in 0 .. w, NEW r, RecvSound(r, f, d, w),
         NEW k \in 1 .. w
  PROVE  Holds(r, Nth(f, k)) <=> d < k /\ k <= d + BufferSize /\ Stored(r, f, k) # NoPacket
<1>1. PICK n \in 0 .. BufferSize : d + n <= w /\ RecvSpan(r, f, d, n)
  BY DEF RecvSound
<1>2. /\ w \in Nat /\ d \in Nat /\ n \in Nat /\ BufferSize \in Nat /\ Word \in Nat
      /\ d \in Far /\ d + n \in Far /\ k \in Far
  BY <1>1, BufferSizeAssumption, WordAssumption DEF Reach, Far
<1>3. InWindow(r, Nth(f, k)) <=> d < k /\ k <= d + n
  BY <1>1, <1>2, WindowIsSpan DEF RecvSpan
<1>4. d < k /\ k <= d + BufferSize => Stored(r, f, k) = NoPacket \/ k <= d + n
  BY <1>1, <1>2 DEF RecvSpan
<1> QED
  BY <1>2, <1>3, <1>4 DEF Holds, Stored

LEMMA EndSet ==
  ASSUME NEW f \in Words, NEW w \in Reach, NEW d \in 0 .. w, NEW r, RecvSound(r, f, d, w),
         NEW v \in 0 .. w
  PROVE  LET t == set_buffer_end(r, Nth(f, v + 1))
         IN  RecvSound(t, f, d, w) /\ \A k : Stored(t, f, k) = Stored(r, f, k)
<1> DEFINE t == set_buffer_end(r, Nth(f, v + 1))
<1>1. PICK n \in 0 .. BufferSize : d + n <= w /\ RecvSpan(r, f, d, n)
  BY DEF RecvSound
<1>2. /\ w \in Nat /\ d \in Nat /\ n \in Nat /\ v \in Nat /\ BufferSize \in Nat /\ Word \in Nat
      /\ w + 2 * BufferSize + 3 <= Word
      /\ d + 1 \in 1 .. Word /\ d + n + 1 \in 1 .. Word /\ v + 1 \in 1 .. Word
  BY <1>1, BufferSizeAssumption, WordAssumption DEF Reach
<1>3. r \in Arrays /\ r.start = Nth(f, d + 1) /\ r.end = Nth(f, d + n + 1)
  BY <1>1 DEF RecvSound, RecvSpan, Spans
<1>4. Sub(Nth(f, v + 1), r.start)
        = IF v + 1 >= d + 1 THEN v + 1 - (d + 1) ELSE Word + (v + 1) - (d + 1)
  BY <1>2, <1>3, NthSub
<1>5. Sub(Nth(f, v + 1), r.end)
        = IF v + 1 >= d + n + 1 THEN v + 1 - (d + n + 1) ELSE Word + (v + 1) - (d + n + 1)
  BY <1>2, <1>3, NthSub
<1>6. CASE v >= d + n /\ v - d <= BufferSize
  <2>1. t = [r EXCEPT !.end = Nth(f, v + 1)] \/ t = r
    BY DEF set_buffer_end
  <2>2. CASE t = r
    BY <2>2
  <2>3. CASE t = [r EXCEPT !.end = Nth(f, v + 1)]
    <3>1. t \in Arrays /\ t.start = r.start /\ t.end = Nth(f, v + 1) /\ t.buf = r.buf
      <4>1. Nth(f, v + 1) \in Words
        BY <1>2, NthSub
      <4> QED
        BY <1>3, <2>3, <4>1 DEF Arrays
    <3>2. PICK m \in 0 .. BufferSize : m = v - d
      BY <1>2, <1>6
    <3>3. d + m = v /\ n <= m
      BY <1>2, <1>6, <3>2
    <3>4. \A k : Stored(t, f, k) = Stored(r, f, k)
      BY <3>1 DEF Stored, At
    <3>5. Spans(t, f, d, d + m)
      BY <1>3, <3>1, <3>3 DEF Spans
    <3>6. \A k \in d + 1 .. d + BufferSize :
            Stored(t, f, k) = NoPacket \/ (k <= d + m /\ Stored(t, f, k) = Arrived(k))
      BY <1>1, <1>2, <3>3, <3>4 DEF RecvSpan
    <3>7. RecvSpan(t, f, d, m) /\ d + m <= w
      BY <1>2, <3>3, <3>5, <3>6 DEF RecvSpan
    <3> QED
      BY <3>1, <3>4, <3>7 DEF RecvSound
  <2> QED
    BY <2>1, <2>2, <2>3
<1>7. CASE ~ (v >= d + n /\ v - d <= BufferSize)
  <2>1. Sub(Nth(f, v + 1), r.start) > BufferSize \/ Sub(Nth(f, v + 1), r.end) > BufferSize
    BY <1>1, <1>2, <1>4, <1>5, <1>7
  <2>2. t = r
    BY <2>1 DEF set_buffer_end
  <2> QED
    BY <2>2
<1> QED
  BY <1>6, <1>7

\* add_data_to_buffer stores packet k in a place of its own.  The check of the
\* code lets packet d + BufferSize + 1 through; that the peer has not written it
\* is the premise w <= d + BufferSize.
LEMMA AddedToBuffer ==
  ASSUME NEW f \in Words, NEW w \in Reach, NEW d \in 0 .. w, w <= d + BufferSize,
         NEW r, RecvSound(r, f, d, w), NEW k \in 1 .. w, CanAddDataToBuffer(r, Nth(f, k))
  PROVE  LET t == add_data_to_buffer(r, Nth(f, k), Arrived(k))
         IN  /\ d < k
             /\ RecvSound(t, f, d, w)
             /\ \A j \in d + 1 .. d + BufferSize :
                  Stored(t, f, j) = IF j = k THEN Arrived(k) ELSE Stored(r, f, j)
<1> DEFINE t == add_data_to_buffer(r, Nth(f, k), Arrived(k))
<1>1. PICK n \in 0 .. BufferSize : d + n <= w /\ RecvSpan(r, f, d, n)
  BY DEF RecvSound
<1>2. /\ w \in Nat /\ d \in Nat /\ n \in Nat /\ k \in Nat /\ BufferSize \in Nat /\ Word \in Nat
      /\ w + 2 * BufferSize + 3 <= Word /\ k \in 1 .. Word /\ k + 1 \in 1 .. Word
      /\ d + 1 \in 1 .. Word /\ d + n + 1 \in 1 .. Word /\ d \in Far /\ d + n \in Far
  BY <1>1, BufferSizeAssumption, WordAssumption DEF Reach, Far
<1>3. r \in Arrays /\ r.start = Nth(f, d + 1) /\ r.end = Nth(f, d + n + 1)
  BY <1>1 DEF RecvSound, RecvSpan, Spans
<1>4. Sub(Nth(f, k), r.start) = IF k >= d + 1 THEN k - (d + 1) ELSE Word + k - (d + 1)
  BY <1>2, <1>3, NthSub
<1>5. Sub(Nth(f, k), r.start) <= BufferSize
  BY DEF CanAddDataToBuffer
<1>6. d < k /\ k <= d + BufferSize
  BY <1>2, <1>4, <1>5
<1>7. num_packets_array(r) = n
  <2>1. num_packets_array(r) = (d + n) - d
    BY <1>1, <1>2, WindowIsSpan DEF RecvSpan
  <2> QED
    BY <1>2, <2>1
<1>8. Add(Nth(f, k), 1) = Nth(f, k + 1) /\ Nth(f, k + 1) \in Words
  <2>1. Add(Nth(f, k), 1) = Nth(f, k + 1)
    BY <1>2, NthAdd
  <2> QED
    BY <1>2, <2>1, NthSub
<1>9. PICK m \in 0 .. BufferSize : m = IF k - (d + 1) >= n THEN k - d ELSE n
  <2>1. k - d \in 0 .. BufferSize /\ n \in 0 .. BufferSize
    BY <1>2, <1>6
  <2> QED
    BY <2>1
<1>10. /\ t.start = r.start
       /\ t.end = Nth(f, d + m + 1)
       /\ t.buf = [r.buf EXCEPT ![Slot(Nth(f, k))] = Arrived(k)]
  <2>1. t.end = IF k - (d + 1) >= n THEN Nth(f, k + 1) ELSE Nth(f, d + n + 1)
    <3>1. Sub(Nth(f, k), r.start) = k - (d + 1)
      BY <1>2, <1>4, <1>6
    <3> QED
      BY <1>3, <1>7, <1>8, <3>1 DEF add_data_to_buffer, Arrays
  <2>2. k - (d + 1) >= n => d + m + 1 = k + 1
    BY <1>2, <1>9
  <2>3. ~ (k - (d + 1) >= n) => m = n
    BY <1>9
  <2> QED
    BY <1>3, <2>1, <2>2, <2>3 DEF add_data_to_buffer, Arrays
<1>11. Slot(Nth(f, k)) \in Slots /\ Arrived(k) \in Packets
  BY <1>2, NthSlot DEF Packets, Arrived
<1>12. t \in Arrays
  <2>1. t.buf \in [Slots -> Packets \cup {NoPacket}]
    BY <1>3, <1>10, <1>11 DEF Arrays
  <2>2. t.end \in Words
    <3>1. d + m + 1 \in 1 .. Word
      BY <1>2, <1>9
    <3> QED
      BY <1>10, <3>1, NthSub
  <2> QED
    BY <1>3, <1>10, <2>1, <2>2 DEF Arrays, add_data_to_buffer
<1>13. ASSUME NEW j \in d + 1 .. d + BufferSize
       PROVE  Stored(t, f, j) = IF j = k THEN Arrived(k) ELSE Stored(r, f, j)
  <2>1. j \in 1 .. Word /\ j - k < BufferSize /\ k - j < BufferSize
    BY <1>2, <1>6
  <2>2. Slot(Nth(f, j)) \in Slots /\ (Slot(Nth(f, j)) = Slot(Nth(f, k)) => j = k)
    BY <1>2, <2>1, NthSlot, NthApart
  <2> QED
    BY <1>3, <1>10, <1>11, <2>2 DEF Stored, At, Arrays
<1>14. n <= m /\ k <= d + m /\ d + m <= w
  BY <1>1, <1>2, <1>9
<1> HIDE DEF t
<1>15. RecvSpan(t, f, d, m)
  <2>1. Spans(t, f, d, d + m)
    BY <1>3, <1>10 DEF Spans
  <2>2. ASSUME NEW j \in d + 1 .. d + BufferSize
        PROVE  Stored(t, f, j) = NoPacket \/ (j <= d + m /\ Stored(t, f, j) = Arrived(j))
    BY <1>1, <1>2, <1>13, <1>14 DEF RecvSpan
  <2> QED
    BY <2>1, <2>2 DEF RecvSpan
<1>16. RecvSound(t, f, d, w)
  BY <1>12, <1>14, <1>15 DEF RecvSound
<1> QED
  BY <1>6, <1>13, <1>16 DEF t

\* A set of numbers has a least element.
LEMMA LeastNumber ==
  ASSUME NEW S, S \subseteq Nat, S # {}
  PROVE  \E n \in S : \A m \in S : n <= m
<1>1. PICK x \in S : \A y \in S : ~ (<<y, x>> \in OpToRel(<, Nat))
  BY NatLessThanWellFounded, WFMin
<1>2. \A y \in S : ~ (y < x)
  BY <1>1 DEF OpToRel
<1> QED
  BY <1>2

\* The loop of read_data_beg_buffer ends at a hole or at the end of the window.
LEMMA ReadableExists ==
  ASSUME NEW f \in Words, NEW w \in Reach, NEW d \in 0 .. w, NEW r,
         NEW n \in 0 .. BufferSize, d + n <= w, RecvSpan(r, f, d, n)
  PROVE  /\ Readable(r) \in 0 .. n
         /\ \A i \in 0 .. Readable(r) - 1 :
              /\ Add(r.start, i) = Nth(f, d + 1 + i)
              /\ Stored(r, f, d + 1 + i) = Arrived(d + 1 + i)
<1>1. d + n <= w /\ RecvSpan(r, f, d, n)
  OBVIOUS
<1>2. /\ w \in Nat /\ d \in Nat /\ n \in Nat /\ BufferSize \in Nat /\ Word \in Nat
      /\ d \in Far /\ d + n \in Far /\ d + 1 \in 1 .. Word
      /\ w + 2 * BufferSize + 3 <= Word
  BY <1>1, BufferSizeAssumption, WordAssumption DEF Reach, Far
<1>3. num_packets_array(r) = n /\ r.start = Nth(f, d + 1)
  <2>1. num_packets_array(r) = (d + n) - d
    BY <1>1, <1>2, WindowIsSpan DEF RecvSpan
  <2> QED
    BY <1>1, <1>2, <2>1 DEF RecvSpan, Spans
<1> DEFINE Stops == {k \in Nat : k = n \/ At(r, Add(r.start, k)) = NoPacket}
           Ends(k) == /\ k <= num_packets_array(r)
                      /\ \A i \in 0 .. k - 1 : At(r, Add(r.start, i)) # NoPacket
                      /\ \/ k = num_packets_array(r)
                         \/ k = BufferSize
                         \/ At(r, Add(r.start, k)) = NoPacket
<1>4. PICK k \in Stops : \A m \in Stops : k <= m
  <2>1. Stops \subseteq Nat /\ n \in Stops
    BY <1>2
  <2> QED
    BY <2>1, LeastNumber
<1>5. k \in 0 .. BufferSize /\ Ends(k)
  <2>1. k <= n /\ k \in Nat
    BY <1>2, <1>4
  <2>2. \A i \in 0 .. k - 1 : At(r, Add(r.start, i)) # NoPacket
    BY <1>4, <2>1
  <2> QED
    BY <1>2, <1>3, <1>4, <2>1, <2>2
<1>6. Readable(r) \in 0 .. BufferSize /\ Ends(Readable(r))
  <2>1. Readable(r) = CHOOSE q \in 0 .. BufferSize : Ends(q)
    BY DEF Readable
  <2> HIDE DEF Ends
  <2> QED
    BY <1>5, <2>1
<1>7. ASSUME NEW i \in 0 .. Readable(r) - 1
      PROVE  /\ Add(r.start, i) = Nth(f, d + 1 + i)
             /\ Stored(r, f, d + 1 + i) = Arrived(d + 1 + i)
  <2>1. /\ i \in Int /\ i >= 0 /\ i < BufferSize /\ d + 1 + i \in 1 .. Word
        /\ d + 1 + i \in d + 1 .. d + BufferSize
    BY <1>2, <1>6
  <2>2. Add(r.start, i) = Nth(f, d + 1 + i)
    BY <1>2, <1>3, <2>1, NthAdd
  <2>3. Stored(r, f, d + 1 + i) # NoPacket
    BY <1>6, <2>2 DEF Stored
  <2> QED
    BY <1>1, <2>1, <2>2, <2>3 DEF RecvSpan
<1> QED
  BY <1>1, <1>2, <1>3, <1>6, <1>7

\* After the packets were delivered their slots serve the packets a ring further
\* on, and are empty.
LEMMA FirstRead ==
  ASSUME NEW f \in Words, NEW w \in Reach, NEW d \in 0 .. w, NEW r, RecvSound(r, f, d, w),
         NEW q, q = Readable(r)
  PROVE  LET t == DropFirst(r, q)
         IN  /\ q \in 0 .. BufferSize /\ d + q <= w
             /\ RecvSound(t, f, d + q, w)
             /\ \A k \in d + q + 1 .. d + BufferSize : Stored(t, f, k) = Stored(r, f, k)
             /\ \A i \in 1 .. q : At(r, Add(r.start, i - 1)).data = d + i
<1> DEFINE t == DropFirst(r, q)
<1>1. PICK n \in 0 .. BufferSize : d + n <= w /\ RecvSpan(r, f, d, n)
  BY DEF RecvSound
<1>2. q \in 0 .. n
  BY <1>1, ReadableExists
<1>3. /\ w \in Nat /\ d \in Nat /\ n \in Nat /\ q \in 0 .. BufferSize /\ q \in Nat /\ q <= n
      /\ BufferSize \in Nat /\ Word \in Nat
      /\ w + 2 * BufferSize + 3 <= Word /\ d \in Far /\ d + n \in Far /\ d + q <= w /\ d + q \in Far
  BY <1>1, <1>2, BufferSizeAssumption, WordAssumption DEF Reach, Far
<1>4. r \in Arrays /\ Spans(r, f, d, d + n)
  BY <1>1 DEF RecvSound, RecvSpan
<1>5. /\ t \in Arrays /\ Spans(t, f, d + q, d + n)
      /\ \A k \in d + 1 .. d + BufferSize :
           Stored(t, f, k) = IF k <= d + q THEN NoPacket ELSE Stored(r, f, k)
  BY <1>3, <1>4, DropFirstKeeps
<1> HIDE DEF t
<1>6. \A k \in d + q + 1 .. d + BufferSize : Stored(t, f, k) = Stored(r, f, k)
  BY <1>3, <1>5
<1>7. ASSUME NEW k \in d + q + 1 .. d + q + BufferSize
      PROVE  Stored(t, f, k) = NoPacket \/ (k <= d + n /\ Stored(t, f, k) = Arrived(k))
  <2>1. CASE k <= d + BufferSize
    <3>1. k \in d + 1 .. d + BufferSize /\ k \in d + q + 1 .. d + BufferSize
      BY <1>3, <2>1
    <3> QED
      BY <1>1, <1>6, <3>1 DEF RecvSpan
  <2>2. CASE k > d + BufferSize
    <3>1. PICK j \in 1 .. Word : j = k - BufferSize
      BY <1>3, <2>2
    <3>2. /\ j \in d + 1 .. d + BufferSize /\ j <= d + q /\ j + BufferSize = k
          /\ j + BufferSize \in 1 .. Word
      BY <1>3, <2>2, <3>1
    <3>3. Slot(Nth(f, k)) = Slot(Nth(f, j))
      BY <3>2, NthRound
    <3>4. Stored(t, f, k) = Stored(t, f, j)
      BY <3>3 DEF Stored, At
    <3> QED
      BY <1>5, <3>2, <3>4
  <2> QED
    BY <1>3, <2>1, <2>2
<1>8. PICK m \in 0 .. BufferSize : m = n - q
  BY <1>3
<1>9. (d + q) + m = d + n
  BY <1>3, <1>8
<1>10. RecvSpan(t, f, d + q, m)
  BY <1>5, <1>7, <1>9 DEF RecvSpan
<1>11. RecvSound(t, f, d + q, w)
  BY <1>1, <1>5, <1>9, <1>10 DEF RecvSound
<1>12. ASSUME NEW i \in 1 .. q PROVE At(r, Add(r.start, i - 1)).data = d + i
  <2>1. i - 1 \in 0 .. Readable(r) - 1 /\ d + 1 + (i - 1) = d + i
    BY <1>3
  <2>2. Add(r.start, i - 1) = Nth(f, d + i) /\ Stored(r, f, d + i) = Arrived(d + i)
    BY <1>1, <2>1, ReadableExists
  <2> QED
    BY <2>2 DEF Stored, Arrived
<1> QED
  BY <1>3, <1>6, <1>11, <1>12 DEF t

\* The first n packets, in order.
InOrder(n) == [i \in 1 .. n |-> i]

LEMMA InOrderSeq ==
  ASSUME NEW n \in Nat
  PROVE  InOrder(n) \in Seq(Nat) /\ Len(InOrder(n)) = n
  BY DEF InOrder

LEMMA InOrderConcat ==
  ASSUME NEW d \in Nat, NEW q \in Nat, NEW t, t = [i \in 1 .. q |-> d + i]
  PROVE  InOrder(d) \o t = InOrder(d + q)
<1>1. /\ InOrder(d) \in Seq(Nat) /\ Len(InOrder(d)) = d
      /\ InOrder(d + q) \in Seq(Nat) /\ Len(InOrder(d + q)) = d + q
      /\ t \in Seq(Nat) /\ Len(t) = q
  BY InOrderSeq
<1>2. /\ InOrder(d) \o t \in Seq(Nat) /\ Len(InOrder(d) \o t) = d + q
      /\ \A i \in 1 .. d + q : (InOrder(d) \o t)[i] = IF i <= d THEN InOrder(d)[i] ELSE t[i - d]
  BY <1>1, ConcatProperties
<1>3. ASSUME NEW i \in 1 .. d + q PROVE (InOrder(d) \o t)[i] = InOrder(d + q)[i]
  <2>1. CASE i <= d
    BY <1>2, <2>1 DEF InOrder
  <2>2. CASE i > d
    BY <1>2, <2>2 DEF InOrder
  <2>3. i <= d \/ i > d
    OBVIOUS
  <2> QED
    BY <2>1, <2>2, <2>3
<1> QED
  BY <1>1, <1>2, <1>3, SeqEqual

-----------------------------------------------------------------------------
(* The inductive invariant.                                                *)

\* How far each direction has come.
Counts(e) ==
  /\ acked[e] <= Len(delivered[Peer(e)])
  /\ Len(delivered[Peer(e)]) <= written[e]
  /\ written[e] <= WriteLimit[first][e]
  /\ written[e] - acked[e] <= BufferSize
  /\ delivered[e] = InOrder(Len(delivered[e]))

Rings(e) ==
  IF status[e] = "Gone"
    THEN recv[e] = EmptyArray(0)
    ELSE /\ SendSound(send[e], first, acked[e], written[e])
         /\ RecvSound(recv[e], first, Len(delivered[e]), written[Peer(e)])

\* A request packet that acknowledges the packets up to a lists every other one
\* that its sender lacks.
Lists(m, a) ==
  m.kind = "request" /\ status[Peer(m.to)] # "Gone" =>
    \A i \in 0 .. m.upto - 1 :
      i \notin m.missing => /\ a + 1 + i \in 1 .. written[m.to]
                            /\ Received(Peer(m.to), a + 1 + i)

\* The packet number of m, when its sender has written w packets.
Numbered(m, w) ==
  IF m.kind = "data" THEN m.data \in 1 .. w /\ m.num = Nth(first, m.data)
                     ELSE \E v \in 0 .. w : m.num = Nth(first, v + 1)

\* However old it is, a packet in the network says what was true, and still is.
Honest(m) ==
  /\ \E a \in 0 .. Len(delivered[Peer(m.to)]) : m.start = Nth(first, a + 1) /\ Lists(m, a)
  /\ Numbered(m, written[Peer(m.to)])

TransportInv ==
  /\ TypeOK
  /\ first \in FirstNumbers
  /\ \A e \in End : Counts(e) /\ Rings(e)
  /\ NothingFreedTooEarly
  /\ \A m \in net : Honest(m)

LEMMA PeerOfPeer == \A e \in End : Peer(e) \in End /\ Peer(e) # e /\ Peer(Peer(e)) = e
  BY EndAssumption DEF End, Peer

LEMMA NumIsNth == \A k : Num(k) = Nth(first, k)
  BY DEF Num, Nth

LEMMA LimitInReach ==
  ASSUME NEW f \in FirstNumbers, NEW e \in End
  PROVE  /\ WriteLimit[f][e] \in Reach /\ 0 .. WriteLimit[f][e] \subseteq Reach
         /\ f \in Words /\ Distinct(WriteLimit[f][e])
<1>1. WriteLimit[f][e] \in Nat /\ WriteLimit[f][e] + 2 * BufferSize + 2 < Word
  BY LimitAssumption
<1>2. WriteLimit[f][e] \in Reach /\ 0 .. WriteLimit[f][e] \subseteq Reach
  BY <1>1, BufferSizeAssumption, WordAssumption DEF Reach
<1>3. Distinct(WriteLimit[f][e])
  BY NoPacketAssumption DEF Distinct
<1> QED
  BY <1>2, <1>3, FirstAssumption

\* The numbers of an end are within reach.
LEMMA InReach ==
  ASSUME TransportInv, NEW e \in End
  PROVE  /\ first \in Words /\ written[e] \in Reach /\ written[e] \in Far /\ acked[e] \in Far
         /\ acked[e] \in Nat /\ written[e] \in Nat /\ Len(delivered[e]) \in Nat
         /\ acked[e] <= written[e] /\ acked[e] <= Len(delivered[Peer(e)])
         /\ written[e] - acked[e] <= BufferSize
         /\ Len(delivered[e]) \in 0 .. written[Peer(e)]
         /\ Distinct(written[e])
         /\ BufferSize \in Nat \ {0} /\ Word \in Nat
<1>1. /\ written[e] \in Nat /\ acked[e] \in Nat /\ delivered[e] \in Seq(Nat)
      /\ delivered[Peer(e)] \in Seq(Nat) /\ written[Peer(e)] \in Nat
  BY PeerOfPeer DEF TransportInv, TypeOK
<1>2. Counts(e) /\ Counts(Peer(e)) /\ Peer(Peer(e)) = e /\ first \in FirstNumbers
  BY PeerOfPeer DEF TransportInv
<1>3. Len(delivered[e]) \in Nat /\ Len(delivered[Peer(e)]) \in Nat
  BY <1>1
<1>4. /\ WriteLimit[first][e] \in Reach /\ 0 .. WriteLimit[first][e] \subseteq Reach
      /\ first \in Words /\ Distinct(WriteLimit[first][e]) /\ WriteLimit[first][e] \in Nat
  BY <1>2, LimitInReach, LimitAssumption
<1>5. written[e] \in Reach
  BY <1>1, <1>2, <1>4 DEF Counts
<1>6. /\ acked[e] <= written[e] /\ acked[e] <= Len(delivered[Peer(e)])
      /\ written[e] - acked[e] <= BufferSize /\ Len(delivered[e]) <= written[Peer(e)]
  BY <1>1, <1>2, <1>3 DEF Counts
<1>7. written[e] \in Far /\ acked[e] \in Far
  <2>1. written[e] \in Far
    BY <1>5, BufferSizeAssumption, WordAssumption DEF Reach, Far
  <2> QED
    BY <1>1, <1>6, <2>1, BufferSizeAssumption, WordAssumption DEF Far
<1>8. Distinct(written[e])
  BY <1>1, <1>2, <1>4 DEF Counts, Distinct
<1> QED
  BY <1>1, <1>3, <1>4, <1>5, <1>6, <1>7, <1>8, BufferSizeAssumption, WordAssumption

\* Which packets the send queue still holds.
LEMMA SendHolds ==
  ASSUME NEW f \in Words, NEW a \in Far, NEW w \in Far, a <= w, NEW s, SendSound(s, f, a, w),
         NEW k \in 1 .. w
  PROVE  Holds(s, Nth(f, k)) <=> a < k /\ Stored(s, f, k) # NoPacket
<1>1. k \in Far /\ k > 0 /\ k <= w
  BY BufferSizeAssumption, WordAssumption DEF Far
<1>2. InWindow(s, Nth(f, k)) <=> a < k /\ k <= w
  BY <1>1, WindowIsSpan DEF SendSound
<1> QED
  BY <1>1, <1>2 DEF Holds, Stored

LEMMA InvariantIsRight == TransportInv => EndsAreRight
<1> SUFFICES ASSUME TransportInv PROVE EndsAreRight
  OBVIOUS
<1>1. ASSUME NEW e \in End, status[e] # "Gone", NEW k \in 1 .. written[e],
             cryptpacket_received(e, Num(k))
      PROVE  k <= Len(delivered[Peer(e)])
  <2>1. SendSound(send[e], first, acked[e], written[e])
    BY <1>1 DEF TransportInv, Rings
  <2>2. num_packets_array(send[e]) = written[e] - acked[e]
    BY <2>1, InReach, WindowIsSpan DEF SendSound
  <2>3. /\ k \in 1 .. Word /\ acked[e] + 1 \in 1 .. Word /\ acked[e] \in Nat /\ written[e] \in Nat
        /\ acked[e] <= Len(delivered[Peer(e)]) /\ Len(delivered[Peer(e)]) \in Nat
    BY InReach, PeerOfPeer, BufferSizeAssumption, WordAssumption, SMTT(60) DEF Far
  <2>4. Sub(Num(k), send[e].start)
          = IF k >= acked[e] + 1 THEN k - (acked[e] + 1) ELSE Word + k - (acked[e] + 1)
    BY <2>1, <2>3, InReach, NumIsNth, NthSub DEF SendSound, Spans
  <2> QED
    BY <1>1, <2>2, <2>3, <2>4 DEF cryptpacket_received
<1>2. ASSUME NEW e \in End PROVE num_packets_array(recv[e]) <= BufferSize
  <2>1. CASE status[e] = "Gone"
    <3>1. recv[e] = EmptyArray(0)
      BY <2>1 DEF TransportInv, Rings
    <3> QED
      BY <3>1, BufferSizeAssumption DEF EmptyArray, num_packets_array, Sub
  <2>2. CASE status[e] # "Gone"
    <3> DEFINE d == Len(delivered[e])
    <3>1. RecvSound(recv[e], first, d, written[Peer(e)])
      BY <2>2 DEF TransportInv, Rings
    <3>2. PICK n \in 0 .. BufferSize :
            d + n <= written[Peer(e)] /\ RecvSpan(recv[e], first, d, n)
      BY <3>1 DEF RecvSound
    <3>3. /\ first \in Words /\ written[Peer(e)] \in Reach /\ d \in Nat /\ written[Peer(e)] \in Nat
      BY InReach, PeerOfPeer
    <3>4. d \in Far /\ d + n \in Far /\ d <= d + n
      BY <3>2, <3>3, BufferSizeAssumption, WordAssumption DEF Far, Reach
    <3>5. num_packets_array(recv[e]) = (d + n) - d
      BY <3>2, <3>3, <3>4, WindowIsSpan DEF RecvSpan
    <3> QED
      BY <3>2, <3>3, <3>5, BufferSizeAssumption
  <2> QED
    BY <2>1, <2>2
<1>3. TypeOK /\ NothingFreedTooEarly
  BY DEF TransportInv
<1> QED
  BY <1>1, <1>2, <1>3 DEF EndsAreRight, ReceiptsAreTruthful, RecvWindowFitsRing

LEMMA InitTransport == Init => TransportInv
<1> SUFFICES ASSUME Init PROVE TransportInv
  OBVIOUS
<1>1. first \in FirstNumbers /\ first \in Words
  BY FirstAssumption DEF Init
<1>2. EmptyArray(first) \in Arrays
  BY <1>1 DEF EmptyArray, Arrays
<1>3. TypeOK
  <2>1. send \in [End -> Arrays] /\ recv \in [End -> Arrays]
    BY <1>2 DEF Init
  <2>2. status \in [End -> {"NotConfirmed", "Established", "Gone"}]
    BY DEF Init
  <2>3. delivered \in [End -> Seq(Nat)]
    BY DEF Init
  <2> QED
    BY <1>1, <2>1, <2>2, <2>3 DEF Init, TypeOK
<1>4. \A e \in End : /\ acked[e] = 0 /\ written[e] = 0 /\ delivered[e] = << >>
                     /\ send[e] = EmptyArray(first) /\ recv[e] = EmptyArray(first)
                     /\ status[e] # "Gone" /\ Peer(e) \in End
  BY PeerOfPeer DEF Init
<1>5. Spans(EmptyArray(first), first, 0, 0)
  BY <1>1, WordAssumption DEF Spans, EmptyArray, Nth, Add, Words
<1>6. SendSound(EmptyArray(first), first, 0, 0)
  BY <1>2, <1>5 DEF SendSound
<1>7. RecvSound(EmptyArray(first), first, 0, 0)
  <2>1. ASSUME NEW k \in 0 + 1 .. 0 + BufferSize PROVE Stored(EmptyArray(first), first, k) = NoPacket
    <3>1. k \in 1 .. Word
      BY BufferSizeAssumption, WordAssumption
    <3>2. Slot(Nth(first, k)) \in Slots
      BY <1>1, <3>1, NthSlot
    <3> QED
      BY <3>2 DEF Stored, At, EmptyArray
  <2>2. RecvSpan(EmptyArray(first), first, 0, 0)
    BY <1>5, <2>1 DEF RecvSpan
  <2>3. 0 \in 0 .. BufferSize /\ 0 + 0 <= 0
    BY BufferSizeAssumption
  <2> QED
    BY <1>2, <2>2, <2>3 DEF RecvSound
<1>8. ASSUME NEW e \in End PROVE Counts(e) /\ Rings(e)
  <2>1. Peer(e) \in End /\ WriteLimit[first][e] \in Nat
    BY <1>1, PeerOfPeer, LimitAssumption
  <2>2. << >> = InOrder(0) /\ Len(<< >>) = 0
    BY DEF InOrder
  <2>3. Counts(e)
    BY <1>4, <2>1, <2>2, BufferSizeAssumption DEF Counts
  <2>4. Rings(e)
    BY <1>4, <1>6, <1>7, <2>1, <2>2 DEF Rings
  <2> QED
    BY <2>3, <2>4
<1>9. NothingFreedTooEarly
  BY <1>4 DEF NothingFreedTooEarly
<1>10. net = {}
  BY DEF Init
<1> QED
  BY <1>1, <1>3, <1>8, <1>9, <1>10 DEF TransportInv

LEMMA RecvSoundGrows ==
  ASSUME NEW r, NEW f, NEW d, NEW w, NEW v, RecvSound(r, f, d, w), w \in Nat, v \in Nat, w <= v,
         d \in Nat
  PROVE  RecvSound(r, f, d, v)
<1>1. PICK n \in 0 .. BufferSize : d + n <= w /\ RecvSpan(r, f, d, n)
  BY DEF RecvSound
<1>2. d + n <= v
  BY <1>1, BufferSizeAssumption
<1> QED
  BY <1>1, <1>2 DEF RecvSound

\* What a packet that end e sends says: e has been given its first Len(delivered)
\* packets, and has written up to w.
Fresh(m, e, w) ==
  /\ m.to = Peer(e)
  /\ m.start = Nth(first, Len(delivered[e]) + 1)
  /\ m.kind = "request" =>
       \A i \in 0 .. m.upto - 1 :
         i \notin m.missing => /\ Len(delivered[e]) + 1 + i \in 1 .. written[Peer(e)]
                               /\ Received(e, Len(delivered[e]) + 1 + i)
  /\ Numbered(m, w)

\* Every step of the protocol changes what one end e has: its status, its rings
\* s and r, and a, n and w, the packets it knows to be received, was given, and
\* has written.  What has to be shown of them for the invariant to hold:
Allowed(e, st, s, r, a, n, w) ==
  /\ st \in {"NotConfirmed", "Established", "Gone"} /\ s \in Arrays
  /\ a \in acked[e] .. Len(delivered[Peer(e)])
  /\ n \in Len(delivered[e]) .. written[Peer(e)]
  /\ w \in written[e] .. WriteLimit[first][e]
  /\ w - a <= BufferSize
  /\ st = "Gone" => r = EmptyArray(0)
  /\ st # "Gone" => /\ SendSound(s, first, a, w)
                    /\ RecvSound(r, first, n, written[Peer(e)])
                    /\ \A k \in 1 .. written[Peer(e)] :
                         Received(e, k) => k <= n \/ Holds(r, Nth(first, k))
                    /\ status[Peer(e)] # "Gone" =>
                         \A k \in 1 .. w : Holds(s, Nth(first, k)) \/ Received(Peer(e), k)

LEMMA StepIsSound ==
  ASSUME TransportInv, NEW e \in End, status[e] # "Gone",
         NEW st, NEW s, NEW r, NEW a, NEW n, NEW w, NEW P,
         Allowed(e, st, s, r, a, n, w),
         status' = [status EXCEPT ![e] = st],
         send' = [send EXCEPT ![e] = s],
         recv' = [recv EXCEPT ![e] = r],
         acked' = [acked EXCEPT ![e] = a],
         delivered' = [delivered EXCEPT ![e] = InOrder(n)],
         written' = [written EXCEPT ![e] = w],
         speed' \in [End -> BOOLEAN], first' = first,
         net' \subseteq net \cup P, P \subseteq Messages,
         \A m \in P : Fresh(m, e, w)
  PROVE  TransportInv'
<1> DEFINE p == Peer(e)
<1>1. p \in End /\ p # e /\ Peer(p) = e /\ \A d \in End : d = e \/ d = p
  BY PeerOfPeer, EndAssumption DEF End, Peer
<1>2. /\ status \in [End -> {"NotConfirmed", "Established", "Gone"}]
      /\ send \in [End -> Arrays] /\ recv \in [End -> Arrays]
      /\ written \in [End -> Nat] /\ delivered \in [End -> Seq(Nat)] /\ acked \in [End -> Nat]
      /\ net \subseteq Messages /\ first \in Words /\ first \in FirstNumbers
  BY DEF TransportInv, TypeOK
<1>3. /\ a \in Nat /\ n \in Nat /\ w \in Nat /\ WriteLimit[first][e] \in Nat
      /\ acked[e] <= a /\ Len(delivered[e]) <= n /\ written[e] <= w
  <2>1. /\ acked[e] \in Nat /\ Len(delivered[e]) \in Nat /\ written[e] \in Nat
    BY InReach
  <2>2. /\ Len(delivered[p]) \in Nat /\ written[p] \in Nat
    BY <1>1, InReach
  <2> QED
    BY <1>2, <2>1, <2>2, LimitAssumption DEF Allowed
<1>4. /\ status'[e] = st /\ send'[e] = s /\ recv'[e] = r /\ acked'[e] = a
      /\ delivered'[e] = InOrder(n) /\ written'[e] = w
  BY <1>2
<1>5. /\ status'[p] = status[p] /\ send'[p] = send[p] /\ recv'[p] = recv[p]
      /\ acked'[p] = acked[p] /\ delivered'[p] = delivered[p] /\ written'[p] = written[p]
  BY <1>1, <1>2
<1>6. InOrder(n) \in Seq(Nat) /\ Len(InOrder(n)) = n
  BY <1>3, InOrderSeq
<1>7. TypeOK'
  <2>1. r \in Arrays
    <3>1. CASE st = "Gone"
      BY <3>1, WordAssumption DEF Allowed, EmptyArray, Arrays, Words
    <3>2. CASE st # "Gone"
      BY <3>2 DEF Allowed, RecvSound
    <3> QED
      BY <3>1, <3>2
  <2>2. st \in {"NotConfirmed", "Established", "Gone"} /\ s \in Arrays
    BY DEF Allowed
  <2>3. status' \in [End -> {"NotConfirmed", "Established", "Gone"}]
    BY <1>2, <2>2
  <2>4. send' \in [End -> Arrays] /\ recv' \in [End -> Arrays]
    BY <1>2, <2>1, <2>2
  <2>5. written' \in [End -> Nat] /\ delivered' \in [End -> Seq(Nat)] /\ acked' \in [End -> Nat]
    BY <1>2, <1>3, <1>6
  <2>6. net' \subseteq Messages
    BY <1>2
  <2> QED
    BY <1>2, <2>3, <2>4, <2>5, <2>6 DEF TypeOK
<1>8. Counts(e)' /\ Counts(p)'
  <2>1. Counts(e) /\ Counts(p)
    BY <1>1 DEF TransportInv
  <2>2. Counts(e)'
    <3>1. Len(delivered[p]) \in Nat /\ written[e] \in Nat
      BY <1>1, InReach
    <3>2. /\ a <= Len(delivered[p]) /\ Len(delivered[p]) <= w
          /\ w <= WriteLimit[first][e] /\ w - a <= BufferSize
      BY <1>3, <2>1, <3>1 DEF Allowed, Counts
    <3> QED
      BY <1>4, <1>5, <1>6, <3>2 DEF Counts
  <2>3. Counts(p)'
    <3>1. Len(delivered[e]) \in Nat /\ acked[p] \in Nat /\ written[p] \in Nat
      BY <1>1, InReach
    <3>2. acked[p] <= n /\ n <= written[p]
      BY <1>1, <1>3, <2>1, <3>1 DEF Allowed, Counts
    <3> QED
      BY <1>1, <1>4, <1>5, <1>6, <2>1, <3>2 DEF Counts
  <2> QED
    BY <2>2, <2>3
<1>9. Rings(e)' /\ Rings(p)'
  <2>1. Rings(e)'
    BY <1>4, <1>5, <1>6 DEF Allowed, Rings
  <2>2. Rings(p)'
    <3>1. Rings(p) /\ Len(delivered[p]) \in Nat /\ written[e] \in Nat
      BY <1>1, InReach DEF TransportInv
    <3>2. CASE status[p] = "Gone"
      BY <1>5, <3>1, <3>2 DEF Rings
    <3>3. CASE status[p] # "Gone"
      <4>1. /\ SendSound(send[p], first, acked[p], written[p])
            /\ RecvSound(recv[p], first, Len(delivered[p]), written[e])
        BY <1>1, <3>1, <3>3 DEF Rings
      <4>2. RecvSound(recv[p], first, Len(delivered[p]), w)
        BY <1>3, <3>1, <4>1, RecvSoundGrows
      <4> QED
        BY <1>1, <1>4, <1>5, <3>3, <4>1, <4>2 DEF Rings
    <3> QED
      BY <3>2, <3>3
  <2> QED
    BY <2>1, <2>2
<1>10. \A k : Received(p, k)' <=> Received(p, k)
  BY <1>5, NumIsNth DEF Received, Num
<1>11. ASSUME st # "Gone", NEW k \in 1 .. written[p], Received(e, k) PROVE Received(e, k)'
  BY <1>4, <1>6, <1>11 DEF Allowed, Received, Num, Nth
<1>12. NothingFreedTooEarly'
  <2> SUFFICES ASSUME NEW d \in End, status'[d] # "Gone", status'[Peer(d)] # "Gone",
                      NEW k \in 1 .. written'[d]
               PROVE  Holds(send[d], Num(k))' \/ Received(Peer(d), k)'
    BY DEF NothingFreedTooEarly
  <2>1. CASE d = e
    <3>1. Holds(s, Nth(first, k)) \/ Received(p, k)
      BY <1>4, <1>5, <2>1 DEF Allowed
    <3> QED
      BY <1>4, <1>10, <2>1, <3>1 DEF Num, Nth
  <2>2. CASE d = p
    <3>1. Holds(send[p], Num(k)) \/ Received(e, k)
      BY <1>1, <1>5, <2>2 DEF TransportInv, NothingFreedTooEarly
    <3>2. st # "Gone"
      BY <1>1, <1>4, <2>2
    <3>3. k \in 1 .. written[p]
      BY <1>5, <2>2
    <3> QED
      BY <1>1, <1>5, <1>11, <2>2, <3>1, <3>2, <3>3 DEF Num
  <2> QED
    BY <1>1, <2>1, <2>2
<1>13. ASSUME NEW m \in net PROVE Honest(m)'
  <2>1. Honest(m) /\ m.to \in End
    BY <1>2 DEF TransportInv, Messages
  <2>2. PICK b \in 0 .. Len(delivered[Peer(m.to)]) : m.start = Nth(first, b + 1) /\ Lists(m, b)
    BY <2>1 DEF Honest
  <2>3. CASE m.to = e
    <3>1. \A i : b + 1 + i \in 1 .. written[e] => b + 1 + i \in 1 .. w
      BY <1>3, InReach
    <3>2. Lists(m, b)'
      BY <1>4, <1>5, <1>10, <2>2, <2>3, <3>1 DEF Lists
    <3>3. Numbered(m, written[p])
      BY <2>1, <2>3 DEF Honest
    <3>4. Numbered(m, written[p])'
      BY <1>5, <3>3 DEF Numbered
    <3> QED
      BY <1>5, <2>2, <2>3, <3>2, <3>4 DEF Honest
  <2>4. CASE m.to = p
    <3>1. b \in 0 .. n
      BY <1>1, <1>3, <2>2, <2>4, InReach
    <3>2. Lists(m, b)'
      <4> SUFFICES ASSUME m.kind = "request", st # "Gone", NEW i \in 0 .. m.upto - 1,
                          i \notin m.missing
                   PROVE  b + 1 + i \in 1 .. written[p] /\ Received(e, b + 1 + i)'
        BY <1>1, <1>4, <1>5, <2>4 DEF Lists
      <4>1. b + 1 + i \in 1 .. written[p] /\ Received(e, b + 1 + i)
        BY <1>1, <2>2, <2>4 DEF Lists
      <4> QED
        BY <1>11, <4>1
    <3>3. Numbered(m, written[e])
      BY <1>1, <2>1, <2>4 DEF Honest
    <3>4. 0 .. written[e] \subseteq 0 .. w /\ 1 .. written[e] \subseteq 1 .. w
      BY <1>3, InReach
    <3>5. Numbered(m, w)'
      BY <3>3, <3>4 DEF Numbered
    <3> QED
      BY <1>1, <1>4, <1>6, <2>2, <2>4, <3>1, <3>2, <3>5 DEF Honest
  <2> QED
    BY <1>1, <2>1, <2>3, <2>4
<1>14. ASSUME NEW m \in P PROVE Honest(m)'
  <2>1. Fresh(m, e, w) /\ m.to = p
    BY DEF Fresh
  <2> PICK b \in Nat : b = Len(delivered[e])
    BY InReach
  <2>2. b \in 0 .. n /\ m.start = Nth(first, b + 1)
    BY <1>3, <2>1 DEF Fresh
  <2>3. Lists(m, b)'
    <3> SUFFICES ASSUME m.kind = "request", st # "Gone", NEW i \in 0 .. m.upto - 1,
                        i \notin m.missing
                 PROVE  b + 1 + i \in 1 .. written[p] /\ Received(e, b + 1 + i)'
      BY <1>1, <1>4, <1>5, <2>1 DEF Lists
    <3>1. b + 1 + i \in 1 .. written[p] /\ Received(e, b + 1 + i)
      BY <2>1 DEF Fresh
    <3> QED
      BY <1>11, <3>1
  <2>4. Numbered(m, w)'
    BY <2>1 DEF Fresh, Numbered
  <2> QED
    BY <1>1, <1>4, <1>6, <2>1, <2>2, <2>3, <2>4 DEF Honest
<1> QED
  BY <1>1, <1>2, <1>7, <1>8, <1>9, <1>12, <1>13, <1>14 DEF TransportInv

-----------------------------------------------------------------------------
(* The packets an end sends.                                               *)

LEMMA RingsOf ==
  ASSUME TransportInv, NEW e \in End, status[e] # "Gone"
  PROVE  /\ SendSound(send[e], first, acked[e], written[e])
         /\ RecvSound(recv[e], first, Len(delivered[e]), written[Peer(e)])
         /\ send[e].end = Nth(first, written[e] + 1) /\ send[e].start = Nth(first, acked[e] + 1)
         /\ recv[e].start = Nth(first, Len(delivered[e]) + 1)
         /\ send[e] \in Arrays /\ recv[e] \in Arrays
<1>1. /\ SendSound(send[e], first, acked[e], written[e])
      /\ RecvSound(recv[e], first, Len(delivered[e]), written[Peer(e)])
  BY DEF TransportInv, Rings
<1> QED
  BY <1>1 DEF SendSound, RecvSound, RecvSpan, Spans

LEMMA PacketType ==
  ASSUME TransportInv, NEW e \in End, NEW kind \in {"data", "request", "lossy", "kill"},
         NEW num \in Words
  PROVE  Packet(e, kind, num) \in Messages
<1>1. Peer(e) \in End /\ recv[e].start \in Words
  BY PeerOfPeer DEF TransportInv, TypeOK, Arrays
<1> QED
  BY <1>1 DEF Packet, Messages

LEMMA DataFresh ==
  ASSUME TransportInv, NEW e \in End, status[e] # "Gone", NEW w \in Far, NEW k \in 1 .. w,
         NEW array, Stored(array, first, k).data = k
  PROVE  /\ DataPacket(e, array, Nth(first, k)) \in Messages
         /\ Fresh(DataPacket(e, array, Nth(first, k)), e, w)
<1> DEFINE m == DataPacket(e, array, Nth(first, k))
<1>1. first \in Words /\ k \in 1 .. Word /\ k \in Nat
  BY InReach, BufferSizeAssumption, WordAssumption DEF Far
<1>2. Nth(first, k) \in Words
  BY <1>1, NthSub
<1>3. Packet(e, "data", Nth(first, k)) \in Messages
  BY <1>2, PacketType
<1>4. m = [Packet(e, "data", Nth(first, k)) EXCEPT !.data = k]
  BY DEF DataPacket, Stored
<1>5. m \in Messages
  BY <1>1, <1>3, <1>4 DEF Messages
<1>6. m.to = Peer(e) /\ m.start = recv[e].start /\ m.kind = "data" /\ m.data = k
      /\ m.num = Nth(first, k)
  BY <1>4 DEF Packet
<1> QED
  BY <1>5, <1>6, RingsOf DEF Fresh, Numbered

LEMMA OtherFresh ==
  ASSUME TransportInv, NEW e \in End, status[e] # "Gone", NEW kind \in {"lossy", "kill"}
  PROVE  /\ Packet(e, kind, send[e].end) \in Messages
         /\ Fresh(Packet(e, kind, send[e].end), e, written[e])
<1> DEFINE m == Packet(e, kind, send[e].end)
<1>1. send[e].end \in Words /\ send[e].end = Nth(first, written[e] + 1)
  BY RingsOf DEF Arrays
<1>2. m \in Messages
  BY <1>1, PacketType
<1>3. m.to = Peer(e) /\ m.start = recv[e].start /\ m.kind = kind /\ m.num = send[e].end
  BY DEF Packet
<1>4. written[e] \in 0 .. written[e]
  BY InReach
<1>5. Numbered(m, written[e])
  BY <1>1, <1>3, <1>4 DEF Numbered
<1> QED
  BY <1>2, <1>3, <1>5, RingsOf DEF Fresh

\* A request packet lists every hole of the part of the window it is about.
LEMMA RequestFresh ==
  ASSUME TransportInv, NEW e \in End, status[e] # "Gone", NEW upto \in ListEnds(recv[e])
  PROVE  /\ RequestPacket(e, upto) \in Messages
         /\ Fresh(RequestPacket(e, upto), e, written[e])
<1> DEFINE m == RequestPacket(e, upto)
           d == Len(delivered[e])
           p == Peer(e)
<1>1. send[e].end \in Words /\ send[e].end = Nth(first, written[e] + 1)
      /\ RecvSound(recv[e], first, d, written[p])
  BY RingsOf DEF Arrays
<1>2. PICK n \in 0 .. BufferSize : d + n <= written[p] /\ RecvSpan(recv[e], first, d, n)
  BY <1>1 DEF RecvSound
<1>3. /\ first \in Words /\ d \in Nat /\ written[p] \in Nat /\ written[p] \in Reach
      /\ n \in Nat /\ d \in 0 .. written[p] /\ written[e] \in Nat
  BY <1>2, InReach, PeerOfPeer, BufferSizeAssumption
<1>4. d \in Far /\ d + n \in Far /\ d + 1 \in 1 .. Word /\ d + n + 1 \in 1 .. Word /\ d <= d + n
  <2>1. written[p] + 2 * BufferSize + 3 <= Word
    BY <1>3, BufferSizeAssumption, WordAssumption DEF Reach
  <2> HIDE DEF d, p
  <2> QED
    BY <1>2, <1>3, <2>1, BufferSizeAssumption, WordAssumption DEF Far
<1>5. num_packets_array(recv[e]) = n
  <2>1. num_packets_array(recv[e]) = (d + n) - d
    BY <1>2, <1>3, <1>4, WindowIsSpan DEF RecvSpan
  <2> QED
    BY <1>3, <2>1
<1>6. upto \in 0 .. n /\ upto \in Nat
  BY <1>3, <1>5 DEF ListEnds
<1>7. Packet(e, "request", send[e].end) \in Messages
  BY <1>1, PacketType
<1>8. m = [Packet(e, "request", send[e].end) EXCEPT !.upto = upto, !.missing = Holes(recv[e], upto)]
  BY DEF RequestPacket
<1>9. Holes(recv[e], upto) \subseteq Nat
  BY <1>6 DEF Holes
<1>10. m \in Messages
  BY <1>6, <1>7, <1>8, <1>9 DEF Messages
<1>11. /\ m.to = Peer(e) /\ m.start = recv[e].start /\ m.kind = "request" /\ m.num = send[e].end
       /\ m.upto = upto /\ m.missing = Holes(recv[e], upto)
  BY <1>8 DEF Packet
<1>12. ASSUME NEW i \in 0 .. upto - 1, i \notin Holes(recv[e], upto)
       PROVE  d + 1 + i \in 1 .. written[p] /\ Received(e, d + 1 + i)
  <2>1. PICK k \in 1 .. written[p] : k = d + 1 + i
    BY <1>2, <1>3, <1>6
  <2>2. i \in Int /\ i >= 0 /\ d + 1 + i \in 1 .. Word /\ d < k /\ k <= d + BufferSize
    BY <1>2, <1>3, <1>4, <1>6, <2>1, WordAssumption, BufferSizeAssumption
  <2>3. Add(recv[e].start, i) = Nth(first, k)
    BY <1>3, <1>4, <2>1, <2>2, RingsOf, NthAdd
  <2>4. Stored(recv[e], first, k) # NoPacket
    BY <1>12, <2>3 DEF Holes, Stored
  <2>5. Holds(recv[e], Nth(first, k))
    BY <1>1, <1>3, <2>2, <2>4, RecvHolds
  <2> QED
    BY <2>1, <2>5, NumIsNth DEF Received
<1>13. written[e] \in 0 .. written[e]
  BY <1>3
<1>14. Numbered(m, written[e])
  BY <1>1, <1>11, <1>13 DEF Numbered
<1> QED
  BY <1>10, <1>11, <1>12, <1>14, RingsOf DEF Fresh

LEMMA TransmitBounds ==
  ASSUME NEW P, Transmit(P)
  PROVE  net' \subseteq net \cup P
  BY DEF Transmit

\* A step that changes no more than the sent marks of a send queue, and sends.
LEMMA SendOnlyStep ==
  ASSUME TransportInv, NEW e \in End, status[e] # "Gone", NEW t, NEW P,
         SendSound(t, first, acked[e], written[e]),
         SameHoles(send[e], t, first, acked[e], written[e]),
         send' = [send EXCEPT ![e] = t], speed' \in [End -> BOOLEAN],
         UNCHANGED <<status, recv, written, delivered, acked, first>>,
         net' \subseteq net \cup P, P \subseteq Messages, \A m \in P : Fresh(m, e, written[e])
  PROVE  TransportInv'
<1> DEFINE p == Peer(e)
<1>1. /\ first \in Words /\ acked[e] \in Far /\ written[e] \in Far /\ acked[e] <= written[e]
      /\ acked[e] \in Nat /\ written[e] \in Nat /\ Len(delivered[e]) \in Nat
      /\ acked[e] <= Len(delivered[p]) /\ Len(delivered[e]) \in 0 .. written[p]
      /\ Len(delivered[p]) \in Nat /\ written[p] \in Nat
  BY InReach, PeerOfPeer
<1>2. /\ SendSound(send[e], first, acked[e], written[e])
      /\ RecvSound(recv[e], first, Len(delivered[e]), written[p])
  BY RingsOf
<1>3. ASSUME status[p] # "Gone", NEW k \in 1 .. written[e]
      PROVE  Holds(t, Nth(first, k)) \/ Received(p, k)
  <2>1. Holds(send[e], Nth(first, k)) \/ Received(p, k)
    BY <1>3, NumIsNth DEF TransportInv, NothingFreedTooEarly
  <2>2. Holds(send[e], Nth(first, k)) <=> acked[e] < k /\ Stored(send[e], first, k) # NoPacket
    BY <1>1, <1>2, SendHolds
  <2>3. Holds(t, Nth(first, k)) <=> acked[e] < k /\ Stored(t, first, k) # NoPacket
    BY <1>1, SendHolds
  <2> QED
    BY <1>1, <2>1, <2>2, <2>3 DEF SameHoles
<1>4. Counts(e) /\ TypeOK
  BY DEF TransportInv
<1>5. Allowed(e, status[e], t, recv[e], acked[e], Len(delivered[e]), written[e])
  <2>1. /\ status[e] \in {"NotConfirmed", "Established", "Gone"} /\ t \in Arrays
        /\ acked[e] \in acked[e] .. Len(delivered[p])
        /\ Len(delivered[e]) \in Len(delivered[e]) .. written[p]
    BY <1>1, <1>4 DEF TypeOK, SendSound
  <2>2. written[e] \in written[e] .. WriteLimit[first][e] /\ written[e] - acked[e] <= BufferSize
    <3>1. WriteLimit[first][e] \in Nat
      BY LimitAssumption DEF TransportInv
    <3> QED
      BY <1>1, <1>4, <3>1 DEF Counts
  <2>3. \A k : Received(e, k) => k <= Len(delivered[e]) \/ Holds(recv[e], Nth(first, k))
    BY NumIsNth DEF Received
  <2> QED
    BY <1>2, <1>3, <2>1, <2>2, <2>3 DEF Allowed
<1>6. /\ status' = [status EXCEPT ![e] = status[e]]
      /\ recv' = [recv EXCEPT ![e] = recv[e]]
      /\ acked' = [acked EXCEPT ![e] = acked[e]]
      /\ written' = [written EXCEPT ![e] = written[e]]
      /\ first' = first
  BY <1>4 DEF TypeOK
<1>7. delivered' = [delivered EXCEPT ![e] = InOrder(Len(delivered[e]))]
  BY <1>4 DEF TypeOK, Counts
<1>8. send' = [send EXCEPT ![e] = t]
  OBVIOUS
<1> QED
  BY ONLY TransportInv, e \in End, status[e] # "Gone", <1>5, <1>6, <1>7, <1>8,
     speed' \in [End -> BOOLEAN], net' \subseteq net \cup P, P \subseteq Messages,
     \A m \in P : Fresh(m, e, written[e]), StepIsSound

-----------------------------------------------------------------------------
(* The actions of the sender.                                              *)

\* reset_max_speed_reached sends a packet that is still in the queue.
LEMMA ResetIsSound ==
  ASSUME TransportInv, NEW e \in End, status[e] # "Gone", NEW retried \in BOOLEAN
  PROVE  /\ SendSound(SendAfterReset(e, retried), first, acked[e], written[e])
         /\ SameHoles(send[e], SendAfterReset(e, retried), first, acked[e], written[e])
         /\ ResetPackets(e, retried) \subseteq Messages
         /\ \A m \in ResetPackets(e, retried) : Fresh(m, e, written[e])
<1> DEFINE a == acked[e]
           w == written[e]
<1>1. /\ first \in Words /\ a \in Far /\ w \in Far /\ a <= w /\ a \in Nat /\ w \in Nat
      /\ w - a <= BufferSize /\ Distinct(w)
  BY InReach
<1>2. SendSound(send[e], first, a, w) /\ send[e].end = Nth(first, w + 1)
  BY RingsOf
<1>3. ASSUME RetryDue(e), retried
      PROVE  w \in a + 1 .. w /\ LastNumber(e) = Nth(first, w) /\ Stored(send[e], first, w) # NoPacket
  <2>1. num_packets_array(send[e]) = w - a
    BY <1>1, <1>2, WindowIsSpan DEF SendSound
  <2>2. Holds(send[e], LastNumber(e))
    BY <1>3 DEF RetryDue
  <2>3. Sub(LastNumber(e), send[e].start) < w - a /\ Sub(LastNumber(e), send[e].start) >= 0
    <3>1. LastNumber(e) \in Words /\ send[e].start \in Words
      BY <1>2, WordAssumption, BufferSizeAssumption DEF LastNumber, Sub, SendSound, Arrays, Words
    <3> QED
      BY <2>1, <2>2, <3>1, WordAssumption DEF Holds, InWindow, Sub, Words
  <2>4. w > a
    <3>1. Sub(LastNumber(e), send[e].start) \in Int
      BY <1>2, WordAssumption, BufferSizeAssumption DEF LastNumber, Sub, SendSound, Arrays, Words
    <3> QED
      BY <1>1, <2>3, <3>1
  <2>5. LastNumber(e) = Nth(first, w)
    BY <1>1, <1>2, <2>4, WordAssumption, BufferSizeAssumption
    DEF LastNumber, Nth, Sub, Add, Words, Far
  <2> QED
    BY <1>1, <2>2, <2>4, <2>5 DEF Holds, Stored
<1>4. CASE RetryDue(e) /\ retried
  <2>1. /\ SendAfterReset(e, retried) = MarkSent(send[e], Nth(first, w))
        /\ ResetPackets(e, retried) = {DataPacket(e, send[e], Nth(first, w))}
    BY <1>3, <1>4 DEF SendAfterReset, ResetPackets
  <2>2. /\ w \in a + 1 .. w /\ Stored(send[e], first, w) # NoPacket /\ w \in 1 .. w
    BY <1>1, <1>3, <1>4
  <2>3. /\ SendSound(MarkSent(send[e], Nth(first, w)), first, a, w)
        /\ SameHoles(send[e], MarkSent(send[e], Nth(first, w)), first, a, w)
        /\ Stored(send[e], first, w).data = w
    BY <1>1, <1>2, <2>2, MarkedAsSent
  <2>4. /\ DataPacket(e, send[e], Nth(first, w)) \in Messages
        /\ Fresh(DataPacket(e, send[e], Nth(first, w)), e, w)
    BY <1>1, <2>2, <2>3, DataFresh
  <2> QED
    BY <2>1, <2>3, <2>4
<1>5. CASE ~ (RetryDue(e) /\ retried)
  <2>1. SendAfterReset(e, retried) = send[e] /\ ResetPackets(e, retried) = {}
    BY <1>5 DEF SendAfterReset, ResetPackets
  <2> QED
    BY <1>2, <2>1 DEF SameHoles
<1> QED
  BY <1>4, <1>5

LEMMA RetriesType == \A e : Retries(e) \subseteq BOOLEAN
  BY DEF Retries

\* A retry on its own: max_speed_reached, and a write that is refused.
LEMMA ResetStep ==
  ASSUME TransportInv, NEW e \in End, status[e] # "Gone", NEW retried \in Retries(e),
         send' = [send EXCEPT ![e] = SendAfterReset(e, retried)],
         speed' = [speed EXCEPT ![e] = SpeedAfterReset(e, retried)],
         Transmit(ResetPackets(e, retried)),
         UNCHANGED <<status, recv, written, delivered, acked, first>>
  PROVE  TransportInv'
<1>1. retried \in BOOLEAN
  BY RetriesType
<1>2. speed' \in [End -> BOOLEAN]
  <2>1. SpeedAfterReset(e, retried) \in BOOLEAN
    BY DEF SpeedAfterReset
  <2> QED
    BY <2>1 DEF TransportInv, TypeOK
<1>3. net' \subseteq net \cup ResetPackets(e, retried)
  BY TransmitBounds
<1> QED
  BY <1>1, <1>2, <1>3, ResetIsSound, SendOnlyStep

LEMMA RequestStep ==
  ASSUME TransportInv, NEW e \in End, NEW upto \in ListEnds(recv[e]),
         send_request_packet(e, upto), first' = first
  PROVE  TransportInv'
<1>1. status[e] # "Gone"
  BY DEF send_request_packet
<1> DEFINE P == {RequestPacket(e, upto)}
<1>2. P \subseteq Messages /\ \A m \in P : Fresh(m, e, written[e])
  BY <1>1, RequestFresh
<1>3. /\ SendSound(send[e], first, acked[e], written[e])
      /\ SameHoles(send[e], send[e], first, acked[e], written[e])
  BY <1>1, RingsOf DEF SameHoles
<1>4. /\ send' = [send EXCEPT ![e] = send[e]] /\ speed' \in [End -> BOOLEAN]
      /\ UNCHANGED <<status, recv, written, delivered, acked, first>>
  BY DEF send_request_packet, TransportInv, TypeOK
<1>5. net' \subseteq net \cup P
  BY TransmitBounds DEF send_request_packet
<1> HIDE DEF P
<1> QED
  BY <1>1, <1>2, <1>3, <1>4, <1>5, SendOnlyStep

LEMMA LossyStep ==
  ASSUME TransportInv, NEW e \in End, send_lossy_cryptpacket(e), first' = first
  PROVE  TransportInv'
<1>1. status[e] # "Gone"
  BY DEF send_lossy_cryptpacket
<1> DEFINE P == {LossyPacket(e)}
<1>2. P \subseteq Messages /\ \A m \in P : Fresh(m, e, written[e])
  BY <1>1, OtherFresh DEF LossyPacket
<1>3. /\ SendSound(send[e], first, acked[e], written[e])
      /\ SameHoles(send[e], send[e], first, acked[e], written[e])
  BY <1>1, RingsOf DEF SameHoles
<1>4. /\ send' = [send EXCEPT ![e] = send[e]] /\ speed' \in [End -> BOOLEAN]
      /\ UNCHANGED <<status, recv, written, delivered, acked, first>>
  BY DEF send_lossy_cryptpacket, TransportInv, TypeOK
<1>5. net' \subseteq net \cup P
  BY TransmitBounds DEF send_lossy_cryptpacket
<1> HIDE DEF P
<1> QED
  BY <1>1, <1>2, <1>3, <1>4, <1>5, SendOnlyStep

LEMMA RequestedStep ==
  ASSUME TransportInv, NEW e \in End, NEW chosen \in SUBSET Unsent(send[e]),
         send_requested_packets(e, chosen), first' = first
  PROVE  TransportInv'
<1> DEFINE a == acked[e]
           w == written[e]
           P == {DataPacket(e, send[e], Add(send[e].start, i)) : i \in chosen}
<1>1. status[e] # "Gone"
  BY DEF send_requested_packets
<1>2. /\ first \in Words /\ a \in Far /\ w \in Far /\ a <= w /\ a \in Nat /\ w \in Nat
      /\ w - a <= BufferSize /\ Distinct(w) /\ a + 1 \in 1 .. Word /\ w \in 0 .. Word
      /\ Word \in Nat
  BY InReach, BufferSizeAssumption, WordAssumption DEF Far
<1>3. SendSound(send[e], first, a, w) /\ send[e].start = Nth(first, a + 1) /\ send[e] \in Arrays
  BY <1>1, RingsOf
<1>4. num_packets_array(send[e]) = w - a
  BY <1>2, <1>3, WindowIsSpan DEF SendSound
<1>5. ASSUME NEW i \in chosen
      PROVE  /\ i \in 0 .. w - a - 1
             /\ Add(send[e].start, i) = Nth(first, a + 1 + i)
             /\ Stored(send[e], first, a + 1 + i) # NoPacket
             /\ a + 1 + i \in 1 .. w /\ a + 1 + i \in a + 1 .. w
  <2>1. i \in 0 .. w - a - 1 /\ Holds(send[e], Add(send[e].start, i))
    BY <1>4 DEF Unsent
  <2>2. i \in Int /\ i >= 0 /\ a + 1 + i \in 1 .. Word /\ a + 1 + i \in 1 .. w
        /\ a + 1 + i \in a + 1 .. w
    BY <1>2, <2>1
  <2>3. Add(send[e].start, i) = Nth(first, a + 1 + i)
    BY <1>2, <1>3, <2>2, NthAdd
  <2> QED
    BY <2>1, <2>2, <2>3 DEF Holds, Stored
<1>6. SendSound(Marked(send[e], chosen), first, a, w)
      /\ SameHoles(send[e], Marked(send[e], chosen), first, a, w)
  <2>1. chosen \in SUBSET (0 .. w - a - 1) /\ \A i \in chosen : Stored(send[e], first, a + 1 + i) # NoPacket
    BY <1>5
  <2> QED
    BY <1>2, <1>3, <2>1, ChosenMarked
<1>7. ASSUME NEW i \in chosen
      PROVE  LET m == DataPacket(e, send[e], Add(send[e].start, i))
             IN  m \in Messages /\ Fresh(m, e, w)
  <2>1. PICK k \in a + 1 .. w : k = a + 1 + i
    BY <1>5
  <2>2. Stored(send[e], first, k).data = k /\ k \in 1 .. w
    BY <1>2, <1>3, <1>5, <2>1, MarkedAsSent
  <2> QED
    BY <1>1, <1>2, <1>5, <2>1, <2>2, DataFresh
<1>8. P \subseteq Messages /\ \A m \in P : Fresh(m, e, w)
  BY <1>7
<1>9. /\ send' = [send EXCEPT ![e] = Marked(send[e], chosen)] /\ speed' \in [End -> BOOLEAN]
      /\ UNCHANGED <<status, recv, written, delivered, acked, first>>
  <2>1. send' = [send EXCEPT ![e] = Marked(send[e], chosen)]
    BY <1>3 DEF send_requested_packets, Marked, TransportInv, TypeOK
  <2> QED
    BY <2>1 DEF send_requested_packets, TransportInv, TypeOK
<1>10. net' \subseteq net \cup P
  BY TransmitBounds DEF send_requested_packets
<1> HIDE DEF P
<1> QED
  BY <1>1, <1>6, <1>8, <1>9, <1>10, SendOnlyStep

\* Everything a step may leave as it is.
LEMMA AsItIs ==
  ASSUME TransportInv, NEW e \in End
  PROVE  /\ status = [status EXCEPT ![e] = status[e]]
         /\ send = [send EXCEPT ![e] = send[e]]
         /\ recv = [recv EXCEPT ![e] = recv[e]]
         /\ acked = [acked EXCEPT ![e] = acked[e]]
         /\ written = [written EXCEPT ![e] = written[e]]
         /\ delivered = [delivered EXCEPT ![e] = InOrder(Len(delivered[e]))]
<1>1. TypeOK /\ Counts(e)
  BY DEF TransportInv
<1>2. delivered = [delivered EXCEPT ![e] = InOrder(Len(delivered[e]))]
  BY <1>1 DEF TypeOK, Counts
<1> QED
  BY <1>1, <1>2 DEF TypeOK

LEMMA WithinLimit ==
  ASSUME TransportInv, NEW e \in End
  PROVE  WriteLimit[first][e] \in Nat /\ written[e] <= WriteLimit[first][e]
  BY LimitAssumption DEF TransportInv, Counts

LEMMA WriteStep ==
  ASSUME TransportInv, NEW e \in End, NEW congestion \in BOOLEAN, NEW retried \in Retries(e),
         NEW sent \in BOOLEAN, write_cryptpacket(e, congestion, retried, sent), first' = first
  PROVE  TransportInv'
<1> DEFINE p == Peer(e)
           a == acked[e]
           w == written[e]
           reset == SendAfterReset(e, retried)
           isSent == sent /\ ~ SpeedAfterReset(e, retried)
           queue == add_data_end_of_buffer(reset, [data |-> w + 1, sent |-> isSent])
           data == IF isSent THEN {DataPacket(e, queue, send[e].end)} ELSE {}
           P == ResetPackets(e, retried) \cup data
<1>1. status[e] # "Gone" /\ retried \in BOOLEAN /\ isSent \in BOOLEAN
  BY RetriesType DEF write_cryptpacket
<1>2. /\ first \in Words /\ a \in Far /\ w \in Far /\ a <= w /\ a \in Nat /\ w \in Nat
      /\ a <= Len(delivered[p]) /\ Len(delivered[e]) \in 0 .. written[p]
      /\ Len(delivered[p]) \in Nat /\ Len(delivered[e]) \in Nat /\ written[p] \in Nat
      /\ first \in FirstNumbers
  BY InReach, PeerOfPeer DEF TransportInv
<1>3. /\ SendSound(reset, first, a, w) /\ SameHoles(send[e], reset, first, a, w)
      /\ ResetPackets(e, retried) \subseteq Messages
      /\ \A m \in ResetPackets(e, retried) : Fresh(m, e, w)
  BY <1>1, ResetIsSound
<1>4. w + 1 \in 0 .. WriteLimit[first][e] /\ WriteLimit[first][e] \in Nat
  BY <1>2, WithinLimit DEF write_cryptpacket
<1>5. w + 1 \in Far /\ Distinct(w + 1)
  <2>1. w + 1 \in Reach /\ Distinct(WriteLimit[first][e])
    BY <1>2, <1>4, LimitInReach
  <2>2. w + 1 \in Far
    BY <2>1, BufferSizeAssumption, WordAssumption DEF Reach, Far
  <2> QED
    BY <1>2, <1>4, <2>1, <2>2 DEF Distinct
<1>6. w - a < BufferSize
  <2>1. num_packets_array(reset) = w - a
    BY <1>2, <1>3, WindowIsSpan DEF SendSound
  <2> QED
    BY <2>1 DEF write_cryptpacket, CanQueue, CanAddDataEndOfBuffer
<1> HIDE DEF reset, isSent
<1>7. /\ SendSound(queue, first, a, w + 1)
      /\ \A k \in a + 1 .. w : Stored(queue, first, k) = Stored(reset, first, k)
      /\ Stored(queue, first, w + 1) = [data |-> w + 1, sent |-> isSent]
  BY <1>1, <1>2, <1>3, <1>5, <1>6, AddedAtEnd
<1> HIDE DEF queue
<1>8. data \subseteq Messages /\ \A m \in data : Fresh(m, e, w + 1)
  <2>1. send[e].end = Nth(first, w + 1) /\ w + 1 \in 1 .. w + 1
    BY <1>1, <1>2, RingsOf
  <2>2. Stored(queue, first, w + 1).data = w + 1
    BY <1>7
  <2>3. /\ DataPacket(e, queue, Nth(first, w + 1)) \in Messages
        /\ Fresh(DataPacket(e, queue, Nth(first, w + 1)), e, w + 1)
    BY <1>1, <1>5, <2>1, <2>2, DataFresh
  <2> QED
    BY <2>1, <2>3
<1>9. \A m \in ResetPackets(e, retried) : Fresh(m, e, w + 1)
  <2>1. 1 .. w \subseteq 1 .. w + 1 /\ 0 .. w \subseteq 0 .. w + 1
    BY <1>2
  <2> QED
    BY <1>3, <2>1 DEF Fresh, Numbered
<1>10. P \subseteq Messages /\ \A m \in P : Fresh(m, e, w + 1)
  BY <1>3, <1>8, <1>9
<1>11. ASSUME status[p] # "Gone", NEW k \in 1 .. w + 1
       PROVE  Holds(queue, Nth(first, k)) \/ Received(p, k)
  <2>1. Holds(queue, Nth(first, k)) <=> a < k /\ Stored(queue, first, k) # NoPacket
    BY <1>2, <1>5, <1>7, SendHolds
  <2>2. CASE k = w + 1
    <3>1. [data |-> w + 1, sent |-> isSent] # NoPacket
      BY <1>1, <1>5, <2>2 DEF Distinct
    <3> QED
      BY <1>2, <1>7, <2>1, <2>2, <3>1
  <2>3. CASE k # w + 1
    <3>1. k \in 1 .. w
      BY <1>2, <2>3
    <3>2. Holds(send[e], Nth(first, k)) \/ Received(p, k)
      BY <1>1, <1>11, <3>1, NumIsNth DEF TransportInv, NothingFreedTooEarly
    <3>3. Holds(send[e], Nth(first, k)) <=> a < k /\ Stored(send[e], first, k) # NoPacket
      BY <1>1, <1>2, <3>1, RingsOf, SendHolds
    <3>4. a < k => (Stored(queue, first, k) = NoPacket <=> Stored(send[e], first, k) = NoPacket)
      BY <1>2, <1>3, <1>7, <3>1 DEF SameHoles
    <3> QED
      BY <2>1, <3>2, <3>3, <3>4
  <2> QED
    BY <2>2, <2>3
<1>12. Allowed(e, status[e], queue, recv[e], a, Len(delivered[e]), w + 1)
  <2>1. /\ status[e] \in {"NotConfirmed", "Established", "Gone"} /\ queue \in Arrays
        /\ a \in acked[e] .. Len(delivered[p])
        /\ Len(delivered[e]) \in Len(delivered[e]) .. written[p]
    BY <1>2, <1>7 DEF TransportInv, TypeOK, SendSound
  <2>2. w + 1 \in written[e] .. WriteLimit[first][e] /\ (w + 1) - a <= BufferSize
    BY <1>2, <1>4, <1>6, BufferSizeAssumption
  <2>3. \A k : Received(e, k) => k <= Len(delivered[e]) \/ Holds(recv[e], Nth(first, k))
    BY NumIsNth DEF Received
  <2>4. RecvSound(recv[e], first, Len(delivered[e]), written[p])
    BY <1>1, RingsOf
  <2>5. SendSound(queue, first, a, w + 1)
    BY <1>7
  <2>6. \A k \in 1 .. w + 1 : status[p] # "Gone" => Holds(queue, Nth(first, k)) \/ Received(p, k)
    BY <1>11
  <2>7. PICK v : v = w + 1
    OBVIOUS
  <2>8. Allowed(e, status[e], queue, recv[e], a, Len(delivered[e]), v)
    BY ONLY <1>1, <2>1, <2>2, <2>3, <2>4, <2>5, <2>6, <2>7 DEF Allowed
  <2> QED
    BY <2>7, <2>8
<1>13. /\ send' = [send EXCEPT ![e] = queue] /\ written' = [written EXCEPT ![e] = w + 1]
       /\ status' = status /\ recv' = recv /\ delivered' = delivered /\ acked' = acked
       /\ Transmit(P) /\ speed' = [speed EXCEPT ![e] = ~ isSent]
  BY DEF write_cryptpacket, queue, isSent, reset, TransportInv, TypeOK
<1>14. speed' \in [End -> BOOLEAN]
  BY <1>13 DEF TransportInv, TypeOK
<1>15. net' \subseteq net \cup P
  BY <1>13, TransmitBounds
<1>16. /\ status' = [status EXCEPT ![e] = status[e]] /\ recv' = [recv EXCEPT ![e] = recv[e]]
       /\ acked' = [acked EXCEPT ![e] = a]
       /\ delivered' = [delivered EXCEPT ![e] = InOrder(Len(delivered[e]))]
  BY <1>13, AsItIs
<1> HIDE DEF P
<1> QED
  BY ONLY TransportInv, e \in End, first' = first, <1>1, <1>10, <1>12, <1>13, <1>14, <1>15,
     <1>16, StepIsSound

\* A step that is allowed and writes nothing is one of the channel.
LEMMA ReceiveRefines ==
  ASSUME NEW e \in End, NEW st, NEW s, NEW r, NEW a, NEW n,
         Allowed(e, st, s, r, a, n, written[e]),
         acked' = [acked EXCEPT ![e] = a], delivered' = [delivered EXCEPT ![e] = InOrder(n)],
         written' = written
  PROVE  Chan!ChanReceive(e)
<1>1. /\ a \in acked[e] .. Len(delivered[Peer(e)])
      /\ n \in Len(delivered[e]) .. written[Peer(e)]
  BY DEF Allowed
<1>2. Chan!Peer(e) = Peer(e)
  BY DEF Chan!Peer, Peer
<1> QED
  BY <1>1, <1>2 DEF Chan!ChanReceive, InOrder

\* The connection is wiped, after b packets are known to be received.
LEMMA WipeStep ==
  ASSUME TransportInv, NEW e \in End, status[e] # "Gone", WipeArrays(e),
         Transmit(IF status[e] = "Established" THEN {KillPacket(e)} ELSE {}),
         NEW b \in acked[e] .. Len(delivered[Peer(e)]), acked' = [acked EXCEPT ![e] = b],
         UNCHANGED <<written, delivered, first>>
  PROVE  TransportInv' /\ Chan!ChanReceive(e)
<1> DEFINE P == IF status[e] = "Established" THEN {KillPacket(e)} ELSE {}
           w == written[e]
<1>1. P \subseteq Messages /\ \A m \in P : Fresh(m, e, w)
  BY OtherFresh DEF KillPacket
<1>2. net' \subseteq net \cup P
  BY TransmitBounds
<1>3. EmptyArray(0) \in Arrays
  BY WordAssumption DEF EmptyArray, Arrays, Words
<1>4. Allowed(e, "Gone", EmptyArray(0), EmptyArray(0), b, Len(delivered[e]), w)
  <2>1. /\ Len(delivered[e]) \in 0 .. written[Peer(e)] /\ Len(delivered[Peer(e)]) \in Nat
        /\ w \in Nat /\ acked[e] \in Nat /\ w - acked[e] <= BufferSize
        /\ written[Peer(e)] \in Nat /\ BufferSize \in Nat
    BY InReach, PeerOfPeer
  <2>2. w \in written[e] .. WriteLimit[first][e]
    BY <2>1, WithinLimit
  <2> QED
    BY <1>3, <2>1, <2>2 DEF Allowed
<1>5. /\ status' = [status EXCEPT ![e] = "Gone"] /\ send' = [send EXCEPT ![e] = EmptyArray(0)]
      /\ recv' = [recv EXCEPT ![e] = EmptyArray(0)] /\ speed' \in [End -> BOOLEAN]
  BY DEF WipeArrays, TransportInv, TypeOK
<1>6. /\ written' = [written EXCEPT ![e] = w] /\ first' = first
      /\ delivered' = [delivered EXCEPT ![e] = InOrder(Len(delivered[e]))]
  BY AsItIs
<1>7. Chan!ChanReceive(e)
  BY <1>4, <1>6, ReceiveRefines
<1> HIDE DEF P
<1>8. TransportInv'
  BY ONLY TransportInv, e \in End, status[e] # "Gone", acked' = [acked EXCEPT ![e] = b],
     <1>1, <1>2, <1>4, <1>5, <1>6, StepIsSound
<1> QED
  BY <1>7, <1>8

-----------------------------------------------------------------------------
(* The actions of the receiver.                                            *)

\* The acknowledgement of an accepted packet moves the window to b.
AckedUpTo(e, m, b) ==
  /\ b \in acked[e] .. Len(delivered[Peer(e)])
  /\ Sub(m.start, send[e].start) = b - acked[e]
  /\ Lists(m, b)
  /\ SendSound(SendAfterAck(e, m), first, b, written[e])
  /\ \A k \in b + 1 .. written[e] :
       Stored(SendAfterAck(e, m), first, k) = Stored(send[e], first, k)

LEMMA AckIsSound ==
  ASSUME TransportInv, NEW m \in net, NEW e \in End, m.to = e, status[e] # "Gone",
         AckAccepted(e, m)
  PROVE  \E b : AckedUpTo(e, m, b)
<1> DEFINE p == Peer(e)
           a == acked[e]
           w == written[e]
           s == send[e]
<1>1. /\ first \in Words /\ a \in Far /\ w \in Far /\ a <= w /\ a \in Nat /\ w \in Nat
      /\ a <= Len(delivered[p]) /\ Len(delivered[p]) \in Nat /\ w - a <= BufferSize
      /\ Len(delivered[p]) <= w
  <2>1. Len(delivered[p]) \in 0 .. written[Peer(p)] /\ Peer(p) = e
    BY InReach, PeerOfPeer
  <2> QED
    BY <2>1, InReach
<1>2. SendSound(s, first, a, w) /\ s.start = Nth(first, a + 1) /\ s.end = Nth(first, w + 1)
      /\ Spans(s, first, a, w)
  BY RingsOf DEF SendSound
<1>3. PICK b \in 0 .. Len(delivered[p]) : m.start = Nth(first, b + 1) /\ Lists(m, b)
  BY DEF TransportInv, Honest
<1>4. b \in Nat /\ b + 1 \in 1 .. Word /\ a + 1 \in 1 .. Word /\ w + 1 \in 1 .. Word /\ b <= w
      /\ Word \in Nat
  <2>1. Word \in Nat /\ BufferSize \in Nat
    BY BufferSizeAssumption, WordAssumption
  <2>2. b \in Nat /\ b <= w
    BY <1>1, <1>3
  <2>3. w + 1 \in 1 .. Word
    BY <1>1, <2>1 DEF Far
  <2> HIDE DEF a, w
  <2> QED
    BY <1>1, <2>1, <2>2, <2>3
<1>5. Sub(m.start, s.start) = IF b >= a THEN b - a ELSE Word + b - a
  <2> HIDE DEF a
  <2>1. Sub(Nth(first, b + 1), Nth(first, a + 1))
          = IF b + 1 >= a + 1 THEN (b + 1) - (a + 1) ELSE Word + (b + 1) - (a + 1)
    BY <1>1, <1>4, NthSub
  <2>2. Sub(Nth(first, b + 1), Nth(first, a + 1)) = IF b >= a THEN b - a ELSE Word + b - a
    BY <1>1, <1>4, <2>1
  <2> QED
    BY <1>2, <1>3, <2>2
<1>6. CASE m.start = s.start
  <2>1. Sub(m.start, s.start) = 0
    <3>1. s.start \in Words
      BY <1>2 DEF SendSound, Arrays
    <3> QED
      BY <1>6, <3>1, WordAssumption DEF Sub, Words
  <2>2. b = a
    BY <1>1, <1>4, <1>5, <2>1, BufferSizeAssumption, WordAssumption DEF Far
  <2>3. SendAfterAck(e, m) = s
    BY <1>6 DEF SendAfterAck
  <2> QED
    BY <1>1, <1>2, <1>3, <2>1, <2>2, <2>3 DEF AckedUpTo
<1>7. CASE m.start # s.start
  <2>1. Sub(s.end, m.start) < num_packets_array(s) /\ num_packets_array(s) = w - a
    BY <1>1, <1>2, <1>7, WindowIsSpan DEF AckAccepted, CanClearBufferUntil
  <2>2. Sub(s.end, m.start) = w - b
    <3> HIDE DEF w
    <3>1. Sub(Nth(first, w + 1), Nth(first, b + 1))
            = IF w + 1 >= b + 1 THEN (w + 1) - (b + 1) ELSE Word + (w + 1) - (b + 1)
      BY <1>1, <1>4, NthSub
    <3>2. Sub(Nth(first, w + 1), Nth(first, b + 1)) = w - b
      BY <1>1, <1>4, <3>1
    <3> QED
      BY <1>2, <1>3, <3>2
  <2>3. b \in a .. w /\ b \in acked[e] .. Len(delivered[Peer(e)]) /\ Sub(m.start, s.start) = b - a
    <3>1. a < b
      BY <1>1, <1>4, <2>1, <2>2
    <3> QED
      BY <1>1, <1>3, <1>4, <1>5, <3>1
  <2>4. SendAfterAck(e, m) = DropFirst(s, b - a)
    BY <1>7, <2>3 DEF SendAfterAck, clear_buffer_until
  <2>5. /\ SendSound(DropFirst(s, b - a), first, b, w)
        /\ \A k \in b + 1 .. w : Stored(DropFirst(s, b - a), first, k) = Stored(s, first, k)
    BY <1>1, <1>2, <2>3, ClearedUntil
  <2> QED
    BY <1>3, <2>3, <2>4, <2>5 DEF AckedUpTo
<1> QED
  BY <1>6, <1>7

\* A packet was handled: t and r are the rings, n packets have been delivered.
\* What left the send queue was acknowledged or is with the peer.
LEMMA HandledStep ==
  ASSUME TransportInv, NEW e \in End, status[e] # "Gone", NEW m, NEW b, AckedUpTo(e, m, b),
         NEW t, NEW r, NEW n \in Len(delivered[e]) .. written[Peer(e)],
         SendSound(t, first, b, written[e]),
         \A k \in b + 1 .. written[e] :
           (Stored(send[e], first, k) # NoPacket /\ Stored(t, first, k) = NoPacket)
             => (status[Peer(e)] # "Gone" => Received(Peer(e), k)),
         RecvSound(r, first, n, written[Peer(e)]),
         \A k \in 1 .. written[Peer(e)] : Received(e, k) => k <= n \/ Holds(r, Nth(first, k)),
         status' = [status EXCEPT ![e] = "Established"],
         acked' = [acked EXCEPT ![e] = @ + Sub(m.start, send[e].start)],
         send' = [send EXCEPT ![e] = t], recv' = [recv EXCEPT ![e] = r],
         delivered' = [delivered EXCEPT ![e] = InOrder(n)],
         UNCHANGED <<speed, net, written, first>>
  PROVE  TransportInv' /\ Chan!ChanReceive(e)
<1> DEFINE p == Peer(e)
           w == written[e]
<1>1. /\ first \in Words /\ acked[e] \in Far /\ w \in Far /\ acked[e] \in Nat /\ w \in Nat
      /\ Len(delivered[p]) \in Nat /\ w - acked[e] <= BufferSize /\ BufferSize \in Nat
      /\ acked[e] <= w /\ Len(delivered[p]) <= w
  <2>1. Len(delivered[p]) \in 0 .. written[Peer(p)] /\ Peer(p) = e
    BY InReach, PeerOfPeer
  <2> QED
    BY <2>1, InReach
<1>2. b \in acked[e] .. Len(delivered[p]) /\ Sub(m.start, send[e].start) = b - acked[e]
  BY DEF AckedUpTo
<1>3. b \in Nat /\ b <= w /\ b \in Far
  BY <1>1, <1>2, BufferSizeAssumption, WordAssumption DEF Far
<1>4. acked' = [acked EXCEPT ![e] = b]
  <2>1. acked[e] + (b - acked[e]) = b
    BY <1>1, <1>3
  <2> QED
    BY <1>2, <2>1
<1>5. ASSUME status[p] # "Gone", NEW k \in 1 .. w
      PROVE  Holds(t, Nth(first, k)) \/ Received(p, k)
  <2>1. CASE k <= b
    BY <1>1, <1>2, <2>1 DEF Received
  <2>2. CASE k > b
    <3>1. Holds(send[e], Nth(first, k)) \/ Received(p, k)
      BY <1>5, NumIsNth DEF TransportInv, NothingFreedTooEarly
    <3>2. Holds(send[e], Nth(first, k)) <=> acked[e] < k /\ Stored(send[e], first, k) # NoPacket
      BY <1>1, RingsOf, SendHolds
    <3>3. Holds(t, Nth(first, k)) <=> b < k /\ Stored(t, first, k) # NoPacket
      BY <1>1, <1>3, SendHolds
    <3>4. k \in b + 1 .. w
      BY <1>1, <1>3, <2>2
    <3> QED
      BY <1>5, <2>2, <3>1, <3>2, <3>3, <3>4
  <2> QED
    BY <1>3, <2>1, <2>2
<1>6. Allowed(e, "Established", t, r, b, n, w)
  <2>1. w \in written[e] .. WriteLimit[first][e] /\ w - b <= BufferSize
    BY <1>1, <1>2, WithinLimit
  <2>2. t \in Arrays
    BY DEF SendSound
  <2> QED
    BY <1>2, <1>5, <2>1, <2>2 DEF Allowed
<1>7. PICK P : P = {}
  OBVIOUS
<1>8. net' \subseteq net \cup P /\ P \subseteq Messages /\ \A x \in P : Fresh(x, e, w)
  BY <1>7
<1>9. speed' \in [End -> BOOLEAN] /\ first' = first /\ written' = [written EXCEPT ![e] = w]
  BY AsItIs DEF TransportInv, TypeOK
<1>10. /\ status' = [status EXCEPT ![e] = "Established"] /\ send' = [send EXCEPT ![e] = t]
       /\ recv' = [recv EXCEPT ![e] = r] /\ delivered' = [delivered EXCEPT ![e] = InOrder(n)]
  OBVIOUS
<1>11. Chan!ChanReceive(e)
  BY <1>4, <1>6, <1>10, ReceiveRefines
<1>12. TransportInv'
  BY ONLY TransportInv, e \in End, status[e] # "Gone", <1>4, <1>6, <1>8, <1>9, <1>10, StepIsSound
<1> QED
  BY <1>11, <1>12

\* A packet other than a data packet moves the end of the receive window.
LEMMA EndSetKeeps ==
  ASSUME TransportInv, NEW e \in End, status[e] # "Gone", NEW m \in net, m.to = e, m.kind # "data"
  PROVE  LET r == set_buffer_end(recv[e], m.num)
         IN  /\ RecvSound(r, first, Len(delivered[e]), written[Peer(e)])
             /\ \A k \in 1 .. written[Peer(e)] :
                  Received(e, k) => k <= Len(delivered[e]) \/ Holds(r, Nth(first, k))
<1> DEFINE p == Peer(e)
           r == set_buffer_end(recv[e], m.num)
<1>1. PICK v \in 0 .. written[p] : m.num = Nth(first, v + 1)
  BY DEF TransportInv, Honest, Numbered
<1>2. /\ first \in Words /\ written[p] \in Reach /\ Len(delivered[e]) \in 0 .. written[p]
      /\ RecvSound(recv[e], first, Len(delivered[e]), written[p])
  BY InReach, PeerOfPeer, RingsOf
<1>3. /\ RecvSound(r, first, Len(delivered[e]), written[p])
      /\ \A k : Stored(r, first, k) = Stored(recv[e], first, k)
  BY <1>1, <1>2, EndSet
<1> HIDE DEF r
<1>4. ASSUME NEW k \in 1 .. written[p], Received(e, k)
      PROVE  k <= Len(delivered[e]) \/ Holds(r, Nth(first, k))
  <2>1. k <= Len(delivered[e]) \/ Holds(recv[e], Nth(first, k))
    BY <1>4, NumIsNth DEF Received
  <2>2. Holds(recv[e], Nth(first, k)) <=> Holds(r, Nth(first, k))
    BY <1>2, <1>3, RecvHolds
  <2> QED
    BY <2>1, <2>2
<1> QED
  BY <1>3, <1>4 DEF r

LEMMA HandleRequestStep ==
  ASSUME TransportInv, NEW m \in net, m.to \in End, NEW late, HandleRequest(m, late),
         first' = first
  PROVE  TransportInv' /\ Chan!ChanReceive(m.to)
<1> DEFINE e == m.to
           p == Peer(e)
           w == written[e]
           t == handle_request_packet(SendAfterAck(e, m), m.upto, m.missing, late)
           r == set_buffer_end(recv[e], m.num)
<1>1. m.kind = "request" /\ status[e] # "Gone" /\ AckAccepted(e, m)
  BY DEF HandleRequest, Accept
<1>2. PICK b : AckedUpTo(e, m, b)
  BY <1>1, AckIsSound
<1>3. /\ first \in Words /\ w \in Far /\ w \in Nat /\ Distinct(w) /\ BufferSize \in Nat
      /\ acked[e] \in Nat /\ acked[e] \in Far /\ Len(delivered[p]) \in Nat /\ w - acked[e] <= BufferSize
      /\ Len(delivered[p]) <= w /\ Len(delivered[e]) \in 0 .. written[p] /\ written[p] \in Nat
  <2>1. Len(delivered[p]) \in 0 .. written[Peer(p)] /\ Peer(p) = e
    BY InReach, PeerOfPeer
  <2> QED
    BY <2>1, InReach, PeerOfPeer
<1>4. /\ b \in acked[e] .. Len(delivered[p]) /\ Lists(m, b)
      /\ SendSound(SendAfterAck(e, m), first, b, w)
      /\ \A k \in b + 1 .. w : Stored(SendAfterAck(e, m), first, k) = Stored(send[e], first, k)
  BY <1>2 DEF AckedUpTo
<1>5. b \in Nat /\ b \in Far /\ b <= w /\ w - b <= BufferSize
  BY <1>3, <1>4, BufferSizeAssumption, WordAssumption DEF Far
<1>6. m.upto \in Nat
  BY DEF TransportInv, TypeOK, Messages
<1>7. /\ SendSound(t, first, b, w)
      /\ \A k \in b + 1 .. w :
           (Stored(SendAfterAck(e, m), first, k) # NoPacket /\ Stored(t, first, k) = NoPacket)
             => k - b - 1 < m.upto /\ k - b - 1 \notin m.missing
  BY <1>3, <1>4, <1>5, <1>6, RequestHandled
<1> HIDE DEF t
<1>8. ASSUME NEW k \in b + 1 .. w, Stored(send[e], first, k) # NoPacket,
             Stored(t, first, k) = NoPacket, status[p] # "Gone"
      PROVE  Received(p, k)
  <2>1. PICK i \in Nat : i = k - b - 1
    BY <1>3, <1>5
  <2>2. i < m.upto /\ i \notin m.missing /\ b + 1 + i = k
    BY <1>3, <1>4, <1>5, <1>7, <1>8, <2>1
  <2>3. i \in 0 .. m.upto - 1
    BY <1>6, <2>1, <2>2
  <2> QED
    BY <1>1, <1>4, <1>8, <2>2, <2>3 DEF Lists
<1>9. /\ RecvSound(r, first, Len(delivered[e]), written[p])
      /\ \A k \in 1 .. written[p] : Received(e, k) => k <= Len(delivered[e]) \/ Holds(r, Nth(first, k))
  BY <1>1, EndSetKeeps
<1>10. /\ status' = [status EXCEPT ![e] = "Established"]
       /\ acked' = [acked EXCEPT ![e] = @ + Sub(m.start, send[e].start)]
       /\ send' = [send EXCEPT ![e] = t] /\ recv' = [recv EXCEPT ![e] = r]
       /\ delivered' = [delivered EXCEPT ![e] = InOrder(Len(delivered[e]))]
       /\ UNCHANGED <<speed, net, written, first>>
  BY AsItIs DEF HandleRequest, Accept, t
<1> HIDE DEF r
<1>11. Len(delivered[e]) \in Len(delivered[e]) .. written[p]
  BY <1>3
<1> QED
  BY ONLY TransportInv, m.to \in End, <1>1, <1>2, <1>7, <1>8, <1>9, <1>10, <1>11, HandledStep

LEMMA HandleLossyStep ==
  ASSUME TransportInv, NEW m \in net, m.to \in End, HandleLossy(m), first' = first
  PROVE  TransportInv' /\ Chan!ChanReceive(m.to)
<1> DEFINE e == m.to
           p == Peer(e)
           t == SendAfterAck(e, m)
           r == set_buffer_end(recv[e], m.num)
<1>1. m.kind = "lossy" /\ status[e] # "Gone" /\ AckAccepted(e, m)
  BY DEF HandleLossy, Accept
<1>2. PICK b : AckedUpTo(e, m, b)
  BY <1>1, AckIsSound
<1>3. /\ SendSound(t, first, b, written[e])
      /\ \A k \in b + 1 .. written[e] : Stored(t, first, k) = Stored(send[e], first, k)
  BY <1>2 DEF AckedUpTo
<1>4. /\ RecvSound(r, first, Len(delivered[e]), written[p])
      /\ \A k \in 1 .. written[p] : Received(e, k) => k <= Len(delivered[e]) \/ Holds(r, Nth(first, k))
  BY <1>1, EndSetKeeps
<1>5. /\ status' = [status EXCEPT ![e] = "Established"]
      /\ acked' = [acked EXCEPT ![e] = @ + Sub(m.start, send[e].start)]
      /\ send' = [send EXCEPT ![e] = t] /\ recv' = [recv EXCEPT ![e] = r]
      /\ delivered' = [delivered EXCEPT ![e] = InOrder(Len(delivered[e]))]
      /\ UNCHANGED <<speed, net, written, first>>
  BY AsItIs DEF HandleLossy, Accept
<1>6. Len(delivered[e]) \in Len(delivered[e]) .. written[p]
  BY InReach, PeerOfPeer
<1> HIDE DEF r, t
<1> QED
  BY ONLY TransportInv, m.to \in End, <1>1, <1>2, <1>3, <1>4, <1>5, <1>6, HandledStep

\* A data packet is stored in its place, and what has no hole before it is
\* delivered.
LEMMA HandleDataStep ==
  ASSUME TransportInv, NEW m \in net, m.to \in End, HandleData(m), first' = first
  PROVE  TransportInv' /\ Chan!ChanReceive(m.to)
<1> DEFINE e == m.to
           p == Peer(e)
           t == SendAfterAck(e, m)
<1>1. m.kind = "data" /\ status[e] # "Gone" /\ AckAccepted(e, m)
  BY DEF HandleData, Accept
<1>2. PICK b : AckedUpTo(e, m, b)
  BY <1>1, AckIsSound
<1>3. /\ SendSound(t, first, b, written[e])
      /\ \A k \in b + 1 .. written[e] : Stored(t, first, k) = Stored(send[e], first, k)
  BY <1>2 DEF AckedUpTo
<1>4. /\ status' = [status EXCEPT ![e] = "Established"]
      /\ acked' = [acked EXCEPT ![e] = @ + Sub(m.start, send[e].start)]
      /\ send' = [send EXCEPT ![e] = t]
      /\ UNCHANGED <<speed, net, written, first>>
  BY DEF HandleData, Accept
<1>5. PICK d \in Nat : d = Len(delivered[e])
  BY InReach
<1>6. PICK W \in Nat : W = written[p]
  BY InReach, PeerOfPeer
<1>7. /\ first \in Words /\ W \in Reach /\ d \in 0 .. W /\ W <= d + BufferSize /\ BufferSize \in Nat
      /\ RecvSound(recv[e], first, d, W)
  <2>1. /\ first \in Words /\ written[p] \in Reach /\ written[p] - acked[p] <= BufferSize
        /\ acked[p] <= Len(delivered[Peer(p)]) /\ acked[p] \in Nat /\ Peer(p) = e
        /\ BufferSize \in Nat
    BY InReach, PeerOfPeer
  <2>2. Len(delivered[e]) \in 0 .. written[p]
    BY InReach
  <2>3. RecvSound(recv[e], first, d, W)
    BY <1>1, <1>5, <1>6, RingsOf
  <2> QED
    BY <1>5, <1>6, <2>1, <2>2, <2>3
<1>8. PICK k \in 1 .. W : k = m.data /\ m.num = Nth(first, k)
  BY <1>1, <1>6 DEF TransportInv, Honest, Numbered
<1>9. \A j \in 1 .. W : Received(e, j) <=>
        j <= d \/ (j <= d + BufferSize /\ Stored(recv[e], first, j) # NoPacket)
  BY <1>5, <1>7, RecvHolds, NumIsNth DEF Received
<1> HIDE DEF t
<1>10. CASE ~ CanAddDataToBuffer(recv[e], m.num)
  <2>1. recv' = [recv EXCEPT ![e] = recv[e]] /\ delivered' = [delivered EXCEPT ![e] = InOrder(d)]
    BY <1>5, <1>10, AsItIs DEF HandleData
  <2>2. d \in Len(delivered[e]) .. written[p]
    BY <1>5, <1>6, <1>7
  <2>3. \A j \in 1 .. written[p] : Received(e, j) => j <= d \/ Holds(recv[e], Nth(first, j))
    BY <1>5, NumIsNth DEF Received
  <2>4. RecvSound(recv[e], first, d, written[p])
    BY <1>6, <1>7
  <2> QED
    BY ONLY TransportInv, m.to \in End, <1>1, <1>2, <1>3, <1>4, <2>1, <2>2, <2>3, <2>4, HandledStep
<1>11. CASE CanAddDataToBuffer(recv[e], m.num)
  <2> DEFINE stored == add_data_to_buffer(recv[e], Nth(first, k), Arrived(k))
             r == DropFirst(stored, Readable(stored))
  <2>1. /\ d < k /\ RecvSound(stored, first, d, W)
        /\ \A j \in d + 1 .. d + BufferSize :
             Stored(stored, first, j) = IF j = k THEN Arrived(k) ELSE Stored(recv[e], first, j)
    BY <1>7, <1>8, <1>11, AddedToBuffer
  <2>2. add_data_to_buffer(recv[e], m.num, [data |-> m.data, sent |-> FALSE]) = stored
    BY <1>8 DEF Arrived
  <2> HIDE DEF stored
  <2>3. PICK q : q = Readable(stored)
    OBVIOUS
  <2>4. /\ q \in 0 .. BufferSize /\ d + q <= W /\ RecvSound(r, first, d + q, W)
        /\ \A j \in d + q + 1 .. d + BufferSize : Stored(r, first, j) = Stored(stored, first, j)
        /\ \A i \in 1 .. q : At(stored, Add(stored.start, i - 1)).data = d + i
    BY <1>7, <2>1, <2>3, FirstRead
  <2>5. q \in Nat
    BY <1>7, <2>4
  <2>6. recv' = [recv EXCEPT ![e] = r]
    BY <1>11, <2>2 DEF HandleData
  <2>7. delivered' = [delivered EXCEPT ![e] = InOrder(d + q)]
    <3> DEFINE tail == [i \in 1 .. q |-> At(stored, Add(stored.start, i - 1)).data]
    <3>1. delivered' = [delivered EXCEPT ![e] = @ \o tail]
      BY <1>11, <2>2, <2>3 DEF HandleData
    <3>2. tail = [i \in 1 .. q |-> d + i]
      BY <2>4
    <3>3. delivered[e] = InOrder(d)
      BY <1>5 DEF TransportInv, Counts
    <3>4. InOrder(d) \o tail = InOrder(d + q)
      BY <2>5, <3>2, InOrderConcat
    <3> QED
      BY <3>1, <3>3, <3>4
  <2> HIDE DEF r
  <2>8. PICK n \in Nat : n = d + q
    BY <2>5
  <2>9. n \in Len(delivered[e]) .. written[p]
    BY <1>5, <1>6, <2>4, <2>5, <2>8
  <2>10. RecvSound(r, first, n, written[p]) /\ n \in 0 .. W
    BY <1>6, <2>4, <2>5, <2>8
  <2>11. ASSUME NEW j \in 1 .. written[p], Received(e, j) PROVE j <= n \/ Holds(r, Nth(first, j))
    <3>1. CASE j <= n
      BY <3>1
    <3>2. CASE j > n
      <4>1. d < j /\ j <= d + BufferSize /\ Stored(recv[e], first, j) # NoPacket /\ j \in 1 .. W
        BY <1>6, <1>9, <2>5, <2>8, <2>11, <3>2
      <4>2. Stored(stored, first, j) # NoPacket
        <5>1. j # k => Stored(stored, first, j) = Stored(recv[e], first, j)
          BY <1>7, <2>1, <4>1
        <5>2. j = k => Stored(stored, first, j) = Arrived(k)
          BY <1>7, <2>1, <4>1
        <5>3. Arrived(k) # NoPacket
          <6>1. Distinct(written[p])
            BY InReach, PeerOfPeer
          <6> QED
            BY <1>6, <1>8, <6>1 DEF Distinct, Arrived
        <5> QED
          BY <4>1, <5>1, <5>2, <5>3
      <4>3. Stored(r, first, j) = Stored(stored, first, j)
        BY <1>7, <2>4, <2>5, <2>8, <3>2, <4>1
      <4>4. n < j /\ j <= n + BufferSize
        BY <1>7, <2>5, <2>8, <3>2, <4>1
      <4> QED
        BY <1>6, <1>7, <2>10, <4>1, <4>2, <4>3, <4>4, RecvHolds
    <3> QED
      BY <2>8, <3>1, <3>2
  <2>12. delivered' = [delivered EXCEPT ![e] = InOrder(n)]
    BY <2>7, <2>8
  <2> QED
    BY ONLY TransportInv, m.to \in End, <1>1, <1>2, <1>3, <1>4, <2>6, <2>9, <2>10, <2>11, <2>12,
       HandledStep
<1> QED
  BY <1>10, <1>11

\* A kill packet acknowledges what it acknowledges, and the connection is wiped.
LEMMA HandleKillStep ==
  ASSUME TransportInv, NEW m \in net, m.to \in End, HandleKill(m), first' = first
  PROVE  TransportInv' /\ Chan!ChanReceive(m.to)
<1>1. PICK e \in End : e = m.to
  OBVIOUS
<1>2. /\ status[e] # "Gone" /\ AckAccepted(e, m) /\ WipeArrays(e)
      /\ acked' = [acked EXCEPT ![e] = @ + Sub(m.start, send[e].start)]
      /\ Transmit(IF status[e] = "Established" THEN {KillPacket(e)} ELSE {})
      /\ UNCHANGED <<written, delivered, first>>
  BY <1>1 DEF HandleKill
<1>3. PICK b : AckedUpTo(e, m, b)
  BY <1>1, <1>2, AckIsSound
<1>4. b \in acked[e] .. Len(delivered[Peer(e)]) /\ Sub(m.start, send[e].start) = b - acked[e]
  BY <1>3 DEF AckedUpTo
<1>5. acked' = [acked EXCEPT ![e] = b]
  <2>1. acked[e] \in Nat /\ Len(delivered[Peer(e)]) \in Nat
    BY InReach, PeerOfPeer
  <2>2. acked[e] + (b - acked[e]) = b
    BY <1>4, <2>1
  <2> QED
    BY <1>2, <1>4, <2>2
<1> QED
  BY <1>1, <1>2, <1>4, <1>5, WipeStep

\* A packet is lost, or dropped: what the others say is as true as before.
LEMMA FewerPackets ==
  ASSUME TransportInv, net' \subseteq net,
         UNCHANGED <<status, send, recv, speed, written, delivered, acked, first>>
  PROVE  TransportInv'
<1>1. TypeOK' /\ first' \in FirstNumbers
  BY DEF TransportInv, TypeOK
<1>2. \A e \in End : Counts(e)' /\ Rings(e)'
  BY DEF TransportInv, Counts, Rings
<1>3. NothingFreedTooEarly'
  BY DEF TransportInv, NothingFreedTooEarly, Received, Num
<1>4. ASSUME NEW m \in net' PROVE Honest(m)'
  <2>1. Honest(m)
    BY DEF TransportInv
  <2> QED
    BY <2>1 DEF Honest, Lists, Numbered, Received, Num
<1> QED
  BY <1>1, <1>2, <1>3, <1>4 DEF TransportInv

-----------------------------------------------------------------------------
(* Every step, and the theorems.                                           *)

\* Handling a packet is a step of the channel, or changes nothing.
LEMMA HandleStep ==
  ASSUME TransportInv, NEW m \in net, Handle(m), first' = first
  PROVE  TransportInv' /\ [Chan!ChanNext]_(Chan!chanVars)
<1>1. m.to \in End
  BY DEF TransportInv, TypeOK, Messages
<1>2. CASE HandleDropped(m)
  <2>1. net' \subseteq net /\ UNCHANGED <<status, send, recv, speed, written, delivered, acked, first>>
    BY <1>2 DEF HandleDropped
  <2> QED
    BY <2>1, FewerPackets DEF Chan!chanVars
<1>3. ASSUME TransportInv' /\ Chan!ChanReceive(m.to)
      PROVE  TransportInv' /\ [Chan!ChanNext]_(Chan!chanVars)
  BY <1>1, <1>3 DEF Chan!ChanNext, Chan!End, End
<1>4. CASE HandleKill(m)
  BY <1>1, <1>3, <1>4, HandleKillStep
<1>5. CASE \E late \in SUBSET m.missing : HandleRequest(m, late)
  BY <1>1, <1>3, <1>5, HandleRequestStep
<1>6. CASE HandleLossy(m)
  BY <1>1, <1>3, <1>6, HandleLossyStep
<1>7. CASE HandleData(m)
  BY <1>1, <1>3, <1>7, HandleDataStep
<1> QED
  BY <1>2, <1>4, <1>5, <1>6, <1>7 DEF Handle

\* A step of the sender is a write of the channel, or changes nothing of it.
LEMMA SenderStep ==
  ASSUME TransportInv, NEW e \in End, NEW retried \in Retries(e), first' = first,
         \/ max_speed_reached(e, retried)
         \/ \E congestion \in BOOLEAN :
              \/ WriteRefused(e, congestion, retried)
              \/ \E sent \in BOOLEAN : write_cryptpacket(e, congestion, retried, sent)
  PROVE  TransportInv' /\ [Chan!ChanNext]_(Chan!chanVars)
<1>1. CASE max_speed_reached(e, retried)
  <2>1. TransportInv'
    BY <1>1, ResetStep DEF max_speed_reached
  <2> QED
    BY <1>1, <2>1 DEF max_speed_reached, Chan!chanVars
<1>2. ASSUME NEW congestion \in BOOLEAN, WriteRefused(e, congestion, retried)
      PROVE  TransportInv' /\ [Chan!ChanNext]_(Chan!chanVars)
  <2>1. TransportInv'
    BY <1>2, ResetStep DEF WriteRefused
  <2> QED
    BY <1>2, <2>1 DEF WriteRefused, Chan!chanVars
<1>3. ASSUME NEW congestion \in BOOLEAN, NEW sent \in BOOLEAN,
             write_cryptpacket(e, congestion, retried, sent)
      PROVE  TransportInv' /\ [Chan!ChanNext]_(Chan!chanVars)
  <2>1. TransportInv'
    BY <1>3, WriteStep
  <2>2. Chan!ChanWrite(e)
    BY <1>3 DEF write_cryptpacket, Chan!ChanWrite
  <2> QED
    BY <2>1, <2>2 DEF Chan!ChanNext, Chan!End, End
<1> QED
  BY <1>1, <1>2, <1>3

LEMMA NextTransport ==
  TransportInv /\ [Next]_vars => TransportInv' /\ [Chan!ChanNext]_(Chan!chanVars)
<1> SUFFICES ASSUME TransportInv, [Next]_vars
             PROVE  TransportInv' /\ [Chan!ChanNext]_(Chan!chanVars)
  OBVIOUS
<1>1. CASE UNCHANGED vars
  <2>1. net' \subseteq net /\ UNCHANGED <<status, send, recv, speed, written, delivered, acked, first>>
    BY <1>1 DEF vars
  <2> QED
    BY <2>1, FewerPackets DEF Chan!chanVars
<1>2. CASE Next
  <2>1. first' = first /\ Step
    BY <1>2 DEF Next
  <2>2. ASSUME NEW e \in End, NEW retried \in Retries(e),
               \/ max_speed_reached(e, retried)
               \/ \E congestion \in BOOLEAN :
                    \/ WriteRefused(e, congestion, retried)
                    \/ \E sent \in BOOLEAN : write_cryptpacket(e, congestion, retried, sent)
        PROVE  TransportInv' /\ [Chan!ChanNext]_(Chan!chanVars)
    BY ONLY TransportInv, <2>1, <2>2, SenderStep
  <2>3. ASSUME NEW e \in End, NEW upto \in ListEnds(recv[e]), send_request_packet(e, upto)
        PROVE  TransportInv' /\ [Chan!ChanNext]_(Chan!chanVars)
    BY <2>1, <2>3, RequestStep DEF send_request_packet, Chan!chanVars
  <2>4. ASSUME NEW e \in End, NEW chosen \in SUBSET Unsent(send[e]), send_requested_packets(e, chosen)
        PROVE  TransportInv' /\ [Chan!ChanNext]_(Chan!chanVars)
    BY <2>1, <2>4, RequestedStep DEF send_requested_packets, Chan!chanVars
  <2>5. ASSUME NEW e \in End, send_lossy_cryptpacket(e)
        PROVE  TransportInv' /\ [Chan!ChanNext]_(Chan!chanVars)
    BY <2>1, <2>5, LossyStep DEF send_lossy_cryptpacket, Chan!chanVars
  <2>6. ASSUME NEW e \in End, crypto_kill(e)
        PROVE  TransportInv' /\ [Chan!ChanNext]_(Chan!chanVars)
    <3>1. acked[e] \in acked[e] .. Len(delivered[Peer(e)])
      BY InReach, PeerOfPeer
    <3>2. /\ status[e] # "Gone" /\ WipeArrays(e)
          /\ Transmit(IF status[e] = "Established" THEN {KillPacket(e)} ELSE {})
          /\ UNCHANGED <<written, delivered, first>> /\ acked' = acked
      BY <2>1, <2>6 DEF crypto_kill
    <3>3. acked' = [acked EXCEPT ![e] = acked[e]]
      BY <3>2, AsItIs
    <3> QED
      BY <3>1, <3>2, <3>3, WipeStep DEF Chan!chanVars
  <2>7. ASSUME NEW m \in net, Lose(m)
        PROVE  TransportInv' /\ [Chan!ChanNext]_(Chan!chanVars)
    <3>1. net' \subseteq net /\ UNCHANGED <<status, send, recv, speed, written, delivered, acked, first>>
      BY <2>1, <2>7 DEF Lose
    <3> QED
      BY <3>1, FewerPackets DEF Chan!chanVars
  <2>8. ASSUME NEW m \in net, Handle(m)
        PROVE  TransportInv' /\ [Chan!ChanNext]_(Chan!chanVars)
    BY <2>1, <2>8, HandleStep
  <2> QED
    BY ONLY <2>1, <2>2, <2>3, <2>4, <2>5, <2>6, <2>7, <2>8 DEF Step
<1> QED
  BY <1>1, <1>2

\* For any ring size, word size and number of packets: nothing leaves a send
\* queue (clear_buffer_until, handle_request_packet) that the peer does not have,
\* cryptpacket_received reports nothing the peer's application was not given, and
\* the window of recv_array fits the ring although add_data_to_buffer's own check
\* would let it grow by one more.
THEOREM TransportIsRight == Spec => []EndsAreRight
<1>1. TransportInv /\ [Next]_vars => TransportInv'
  BY NextTransport
<1> QED
  BY <1>1, InitTransport, InvariantIsRight, PTL DEF Spec

\* The connection implements the pair of reliable channels: what
\* handle_data_packet_helper hands to connection_data_callback is what the peer
\* gave to write_cryptpacket, in order and once, over a network that loses,
\* repeats and reorders packets and with packet numbers that wrap.
THEOREM TransportIsReliable == Spec => RefinesChannel
<1>1. Init => Chan!ChanInit
  BY DEF Init, Chan!ChanInit, Chan!End, End
<1>2. TransportInv /\ [Next]_vars => TransportInv'
  BY NextTransport
<1>3. TransportInv /\ [Next]_vars => [Chan!ChanNext]_(Chan!chanVars)
  BY NextTransport
<1> QED
  BY <1>1, <1>2, <1>3, InitTransport, PTL DEF Spec, RefinesChannel, Chan!ChanSpec

=============================================================================
