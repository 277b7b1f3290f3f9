---------------------- MODULE WrappingCounters_proofs ----------------------
(***************************************************************************)
(* Proofs about the counters that wrap around: the nonce of a crypto       *)
(* connection (module CryptoNonce), its quota of packets to send (module   *)
(* SendQuota) and the numbers of group messages (module GroupNumbers).     *)
(*                                                                         *)
(* The nonce: for every threshold and every first nonce, the 16 bits a     *)
(* packet shows are enough to rebuild its nonce.  recv_nonce is always the *)
(* nonce of some packet b, a packet decrypts exactly if it is one of the   *)
(* NumSpace packets from b on, and the newest packet stays at most         *)
(* 2 * Threshold behind the start b of that window and, once b has moved,  *)
(* more than Threshold after it.                                           *)
(*                                                                         *)
(* The quota: for every queue length and refill bound, the two unsigned    *)
(* counters stay ordered and neither wraps around once                     *)
(* send_crypto_packets has run.                                            *)
(*                                                                         *)
(* Group messages: with the n-th message the newest, last_message_number   *)
(* is the number of the n-th, and the flags of recv_lossy are, slot by     *)
(* slot, those of the last LossyCount packets up to the n-th.  Numbers of  *)
(* packets less than a word apart differ as the packets do, so both tests  *)
(* tell copies from new packets.                                           *)
(***************************************************************************)
EXTENDS CryptoNonce, SendQuota, GroupNumbers, TLAPS

-----------------------------------------------------------------------------
(* Remainders.                                                             *)

\* Division with remainder.
LEMMA Remainder ==
  ASSUME NEW x \in Int, NEW d \in Nat \ {0}
  PROVE  x % d \in 0 .. d - 1 /\ \E p \in Int : x = d * p + (x % d)
<1>1. x = d * (x \div d) + (x % d) /\ (x % d) \in 0 .. d - 1 /\ x \div d \in Int
  BY SMT
<1> QED
  BY <1>1

\* Only the multiple by 0 is smaller than the divisor.
LEMMA NoSmallMultiple ==
  ASSUME NEW d \in Nat \ {0}, NEW k \in Int, d * k < d, - (d * k) < d
  PROVE  k = 0
<1>1. CASE k >= 1
  <2>1. d * k = d + d * (k - 1) /\ d * (k - 1) >= 0
    BY <1>1, SMT
  <2> QED
    BY <2>1, SMT
<1>2. CASE k <= -1
  <2>1. d * (- k) = d + d * (- k - 1) /\ d * (- k - 1) >= 0
    BY <1>2, SMT
  <2>2. d * (- k) = - (d * k)
    BY SMT
  <2> QED
    BY <2>1, <2>2, SMT
<1> QED
  BY <1>1, <1>2, SMT

\* The remainder is the only one.
LEMMA RemainderIs ==
  ASSUME NEW x \in Int, NEW d \in Nat \ {0}, NEW p \in Int, NEW r \in 0 .. d - 1, x = d * p + r
  PROVE  x % d = r
<1>1. PICK q \in Int : x = d * q + (x % d)
  BY Remainder
<1>2. x % d \in 0 .. d - 1
  BY Remainder
<1>3. PICK s \in 0 .. d - 1 : s = x % d
  BY <1>2
<1>4. d * q = d * p + r - s
  <2>1. d * q \in Int /\ d * p \in Int
    BY SMT
  <2> QED
    BY <1>1, <1>3, <2>1, SMT
<1>5. d * (q - p) = r - s
  <2>1. d * (q - p) = d * q - d * p /\ d * q \in Int /\ d * p \in Int
    BY SMT
  <2> QED
    BY <1>4, <2>1, SMT
<1>6. q - p = 0
  <2>1. d * (q - p) < d /\ - (d * (q - p)) < d
    BY <1>5, SMT
  <2> QED
    BY <2>1, NoSmallMultiple
<1>7. d * (q - p) = 0
  BY <1>6, SMT
<1> QED
  BY <1>3, <1>5, <1>7, SMT

\* Numbers a multiple of the divisor apart have the same remainder.
LEMMA SameRemainder ==
  ASSUME NEW x \in Int, NEW y \in Int, NEW d \in Nat \ {0}, NEW c \in Int, x - y = d * c
  PROVE  x % d = y % d
<1>1. PICK q \in Int : y = d * q + (y % d)
  BY Remainder
<1>2. y % d \in 0 .. d - 1
  BY Remainder
<1>3. PICK s \in 0 .. d - 1 : s = y % d
  BY <1>2
<1>4. PICK p \in Int : p = q + c
  OBVIOUS
<1>5. x = d * p + s
  <2>1. d * p = d * q + d * c /\ d * q \in Int /\ d * c \in Int
    BY <1>4, SMT
  <2> QED
    BY <1>1, <1>3, <2>1, SMT
<1> QED
  BY <1>3, <1>5, RemainderIs

\* Numbers less than the divisor apart have different ones.
LEMMA OtherRemainder ==
  ASSUME NEW x \in Int, NEW y \in Int, NEW d \in Nat \ {0}, x % d = y % d, x - y < d, y - x < d
  PROVE  x = y
<1>1. PICK p \in Int : x = d * p + (x % d)
  BY Remainder
<1>2. PICK q \in Int : y = d * q + (y % d)
  BY Remainder
<1>3. PICK s \in Int : s = x % d
  BY Remainder
<1>4. d * (p - q) = x - y
  <2>1. d * (p - q) = d * p - d * q /\ d * p \in Int /\ d * q \in Int
    BY SMT
  <2> QED
    BY <1>1, <1>2, <1>3, <2>1, SMT
<1>5. p - q = 0
  <2>1. d * (p - q) < d /\ - (d * (p - q)) < d
    BY <1>4, SMT
  <2> QED
    BY <2>1, NoSmallMultiple
<1>6. d * (p - q) = 0
  BY <1>5, SMT
<1> QED
  BY <1>4, <1>6, SMT

\* The remainder of a number less than one divisor away from 0.
LEMMA SmallRemainder ==
  ASSUME NEW d \in Nat \ {0}, NEW x \in Int
  PROVE  /\ x \in 0 .. d - 1 => x % d = x
         /\ x < 0 /\ - x < d => x % d = x + d
<1>1. ASSUME x \in 0 .. d - 1 PROVE x % d = x
  <2>1. x = d * 0 + x
    BY SMT
  <2> QED
    BY <1>1, <2>1, RemainderIs
<1>2. ASSUME x < 0, - x < d PROVE x % d = x + d
  <2>1. x = d * (-1) + (x + d) /\ x + d \in 0 .. d - 1
    BY <1>2, SMT
  <2>2. PICK r \in 0 .. d - 1 : r = x + d
    BY <2>1
  <2> QED
    BY <2>1, <2>2, RemainderIs
<1> QED
  BY <1>1, <1>2

-----------------------------------------------------------------------------
(* The nonce.                                                              *)

\* recv_nonce belongs to packet b, and b is where it should be.
Base(b) ==
  /\ b \in 0 .. MaxSent
  /\ recv_nonce = NonceOf(b)
  /\ newest - b <= 2 * Threshold
  /\ b = 0 \/ newest - b > Threshold

NonceInv == NonceTypeOK /\ \E b \in 0 .. MaxSent : Base(b)

-----------------------------------------------------------------------------
\* The 16 bits of a nonce that a packet shows.
LEMMA DivMod ==
  ASSUME NEW x \in Nat
  PROVE  /\ get_nonce_uint16(x) \in 0 .. NumSpace - 1
         /\ \E p \in Nat : x = NumSpace * p + get_nonce_uint16(x)
  <1>1. NumSpace \in Nat \ {0}
    BY ThresholdAssumption, SMT
  <1>2. /\ x = NumSpace * (x \div NumSpace) + (x % NumSpace)
        /\ (x % NumSpace) \in 0 .. NumSpace - 1
    BY <1>1, SMT
  <1>3. x \div NumSpace \in Nat
    BY <1>1, SMT
  <1>. QED
    BY <1>2, <1>3 DEF get_nonce_uint16

\* A multiple of NumSpace that is small is 0.
LEMMA SmallMultiple ==
  ASSUME NEW k \in Int, NEW x \in Int, x = NumSpace * k, x < NumSpace, - x < NumSpace
  PROVE  x = 0
  <1>1. NumSpace \in Nat \ {0}
    BY ThresholdAssumption, SMT
  <1>2. k = 0
    BY <1>1, NoSmallMultiple
  <1>. QED
    BY <1>1, <1>2, SMT

\* The nonce of a packet, with its one possible carry.
LEMMA NonceOfType ==
  ASSUME NEW i \in 0 .. MaxSent
  PROVE  /\ NonceOf(i) \in 0 .. NonceSpace - 1
         /\ NonceOf(i) = FirstNonce + i \/ NonceOf(i) = FirstNonce + i - NonceSpace
  BY NonceAssumption, SentAssumption, ThresholdAssumption, SMT
    DEF NonceOf, increment_nonce_number

\* uint16_t subtraction stays in range.
LEMMA DiffType ==
  ASSUME NEW a \in 0 .. NumSpace - 1, NEW b \in 0 .. NumSpace - 1
  PROVE  /\ Diff(a, b) \in 0 .. NumSpace - 1
         /\ Diff(a, b) = a - b \/ Diff(a, b) = a - b + NumSpace
  BY ThresholdAssumption, SMT DEF Diff

\* The 16 bit difference of two nonces is the distance of their packets, for
\* packets at most NumSpace - 1 apart.
LEMMA DiffIsDistance ==
  ASSUME NEW b \in 0 .. MaxSent, NEW i \in 0 .. MaxSent, b <= i, i - b < NumSpace
  PROVE  Diff(get_nonce_uint16(NonceOf(i)), get_nonce_uint16(NonceOf(b))) = i - b
  <1>. DEFINE ri == get_nonce_uint16(NonceOf(i))
              rb == get_nonce_uint16(NonceOf(b))
              D == Diff(ri, rb)
  <1>0. NumSpace \in Nat \ {0} /\ NonceSpace \in Nat
    BY ThresholdAssumption, NonceAssumption, SMT
  <1>1. NonceOf(i) \in Nat /\ NonceOf(b) \in Nat
    BY NonceOfType, NonceAssumption, SMT
  <1>2. ri \in 0 .. NumSpace - 1 /\ rb \in 0 .. NumSpace - 1
    BY <1>1, DivMod
  <1>3. PICK p1 \in Nat : NonceOf(i) = NumSpace * p1 + ri
    BY <1>1, DivMod
  <1>4. PICK p2 \in Nat : NonceOf(b) = NumSpace * p2 + rb
    BY <1>1, DivMod
  <1>5. PICK q \in 1 .. NonceSpace : NonceSpace = NumSpace * q
    BY NonceAssumption
  <1>6. /\ NonceOf(i) = FirstNonce + i \/ NonceOf(i) = FirstNonce + i - NumSpace * q
        /\ NonceOf(b) = FirstNonce + b \/ NonceOf(b) = FirstNonce + b - NumSpace * q
    BY <1>5, NonceOfType
  <1>. HIDE DEF ri, rb
  <1>7. D \in 0 .. NumSpace - 1 /\ (D = ri - rb \/ D = ri - rb + NumSpace)
    BY <1>2, DiffType
  <1>. HIDE DEF D
  <1>8. FirstNonce \in Int /\ q \in Int
    BY NonceAssumption, <1>0, SMT
  <1>9. PICK e \in {-1, 0, 1} : NonceOf(i) - NonceOf(b) = (i - b) + e * (NumSpace * q)
    <2>1. NumSpace * q \in Int
      BY <1>0, <1>8, SMT
    <2>. QED
      BY <1>1, <1>6, <1>8, <2>1, SMT
  <1>10. PICK c \in {0, 1} : D = ri - rb + c * NumSpace
    BY <1>0, <1>2, <1>7, SMT
  <1>11. D - (i - b) = NumSpace * (p2 - p1 + e * q + c)
    <2>1. NumSpace * (p2 - p1 + e * q + c)
            = NumSpace * p2 - NumSpace * p1 + e * (NumSpace * q) + c * NumSpace
      BY <1>0, <1>8, SMT
    <2>2. NumSpace * p1 \in Int /\ NumSpace * p2 \in Int /\ NumSpace * q \in Int
      BY <1>0, <1>8, SMT
    <2>. QED
      BY <1>0, <1>1, <1>2, <1>3, <1>4, <1>9, <1>10, <2>1, <2>2, SMT
  <1>12. D - (i - b) < NumSpace /\ - (D - (i - b)) < NumSpace /\ D - (i - b) \in Int
    BY <1>0, <1>7, SMT
  <1>13. p2 - p1 + e * q + c \in Int
    BY <1>8, SMT
  <1>14. D - (i - b) = 0
    BY <1>11, <1>12, <1>13, SmallMultiple
  <1>. QED
    BY <1>0, <1>7, <1>14, SMT DEF D, ri, rb

\* A packet decrypts exactly if it lies in the window that starts at b.
LEMMA DecryptsInWindow ==
  ASSUME NEW b \in 0 .. MaxSent, recv_nonce = NonceOf(b), NEW i \in 0 .. MaxSent
  PROVE  /\ DiffOf(i) \in 0 .. NumSpace - 1
         /\ Decrypts(i) <=> b <= i /\ i - b < NumSpace
         /\ Decrypts(i) => DiffOf(i) = i - b
  <1>0. NumSpace \in Nat \ {0} /\ NonceSpace \in Nat
    BY ThresholdAssumption, NonceAssumption, SMT
  <1>1. NonceOf(i) \in Nat /\ NonceOf(b) \in Nat
    BY NonceOfType, NonceAssumption, SMT
  <1>2. DiffOf(i) \in 0 .. NumSpace - 1
    BY <1>1, DivMod, DiffType DEF DiffOf
  <1>3. ASSUME b <= i, i - b < NumSpace
        PROVE  DiffOf(i) = i - b /\ Decrypts(i)
    <2>1. DiffOf(i) = i - b
      BY <1>3, DiffIsDistance DEF DiffOf
    <2>2. increment_nonce_number(NonceOf(b), i - b) = NonceOf(i)
      BY <1>3, NonceAssumption, SentAssumption, ThresholdAssumption, SMT
        DEF NonceOf, increment_nonce_number
    <2>. QED
      BY <2>1, <2>2 DEF Decrypts
  <1>4. ASSUME Decrypts(i)
        PROVE  b <= i /\ i - b < NumSpace
    <2>. DEFINE d == DiffOf(i)
    <2>1. increment_nonce_number(NonceOf(b), d) = NonceOf(i)
      BY <1>4 DEF Decrypts
    <2>2. d \in 0 .. NumSpace - 1
      BY <1>2
    <2>. HIDE DEF d
    <2>3. i = b + d
      BY <1>0, <2>1, <2>2, NonceAssumption, SentAssumption, SMT
        DEF NonceOf, increment_nonce_number
    <2>. QED
      BY <1>0, <2>2, <2>3, SMT
  <1>. QED
    BY <1>2, <1>3, <1>4

-----------------------------------------------------------------------------
\* Moving recv_nonce by Threshold moves the base by Threshold.
LEMMA MoveBase ==
  ASSUME NEW b \in 0 .. MaxSent, b + Threshold <= MaxSent
  PROVE  increment_nonce_number(NonceOf(b), Threshold) = NonceOf(b + Threshold)
  BY NonceAssumption, SentAssumption, ThresholdAssumption, SMT
    DEF NonceOf, increment_nonce_number

\* handle_data_packet keeps the invariant.
LEMMA HandleKeepsInv ==
  ASSUME NonceInv, NEW i \in 0 .. nonces_used - 1, handle_data_packet(i)
  PROVE  NonceInv'
  <1>0. Threshold \in Nat \ {0} /\ NumSpace = 3 * Threshold + 1 /\ MaxSent \in Nat
    BY ThresholdAssumption, SentAssumption
  <1>1. nonces_used \in 0 .. MaxSent /\ newest \in -1 .. MaxSent - 1 /\ i \in 0 .. MaxSent
    BY <1>0, SMT DEF NonceInv, NonceTypeOK
  <1>2. PICK b \in 0 .. MaxSent : Base(b)
    BY DEF NonceInv
  <1>3. b <= i /\ i - b < NumSpace /\ DiffOf(i) = i - b
    BY <1>1, <1>2, DecryptsInWindow DEF Base, handle_data_packet
  <1>4. nonces_used' = nonces_used /\ newest' = IF i > newest THEN i ELSE newest
    BY DEF handle_data_packet
  <1>5. newest' \in -1 .. MaxSent - 1 /\ newest' >= i /\ newest' >= newest
    BY <1>0, <1>1, <1>4, SMT
  <1>6. CASE i - b > Threshold * 2
    <2>1. b + Threshold \in 0 .. MaxSent
      BY <1>0, <1>1, <1>6, SMT
    <2>2. recv_nonce' = NonceOf(b + Threshold)
      BY <1>2, <1>3, <1>6, <2>1, MoveBase, <1>0, SMT DEF Base, handle_data_packet
    <2>3. newest' - (b + Threshold) <= 2 * Threshold
      BY <1>0, <1>1, <1>2, <1>3, <1>4, SMT DEF Base
    <2>4. newest' - (b + Threshold) > Threshold
      <3>1. PICK n \in Int : n = newest'
        BY <1>5, <1>0, SMT
      <3>2. n >= i
        BY <1>5, <3>1
      <3>3. n - (b + Threshold) > Threshold
        BY <1>0, <1>1, <1>6, <3>2, SMT
      <3>. QED
        BY <3>1, <3>3
    <2>5. recv_nonce' \in 0 .. NonceSpace - 1
      BY <2>1, <2>2, NonceOfType
    <2>6. Base(b + Threshold)'
      BY <2>1, <2>2, <2>3, <2>4 DEF Base, NonceOf, increment_nonce_number
    <2>. QED
      BY <1>1, <1>4, <1>5, <2>1, <2>5, <2>6 DEF NonceInv, NonceTypeOK
  <1>7. CASE ~ (i - b > Threshold * 2)
    <2>1. recv_nonce' = recv_nonce
      BY <1>3, <1>7 DEF handle_data_packet
    <2>2. newest' - b <= 2 * Threshold
      BY <1>0, <1>1, <1>2, <1>4, <1>7, SMT DEF Base
    <2>3. b = 0 \/ newest' - b > Threshold
      <3>1. PICK n \in Int : n = newest'
        BY <1>5, <1>0, SMT
      <3>2. n >= newest
        BY <1>5, <3>1
      <3>3. b = 0 \/ n - b > Threshold
        BY <1>0, <1>1, <1>2, <3>2, SMT DEF Base
      <3>. QED
        BY <3>1, <3>3
    <2>4. Base(b)'
      BY <1>2, <2>1, <2>2, <2>3 DEF Base, NonceOf, increment_nonce_number
    <2>. QED
      BY <1>1, <1>4, <1>5, <2>1, <2>4 DEF NonceInv, NonceTypeOK
  <1>. QED
    BY <1>6, <1>7

\* The invariant holds always.
LEMMA NonceInvHolds == NonceSpec => []NonceInv
  <1>1. NonceInit => NonceInv
    <2>. SUFFICES ASSUME NonceInit PROVE NonceInv
      OBVIOUS
    <2>0. MaxSent \in Nat /\ Threshold \in Nat \ {0} /\ FirstNonce \in 0 .. NonceSpace - 1
      BY ThresholdAssumption, SentAssumption, NonceAssumption
    <2>1. NonceOf(0) = FirstNonce
      BY <2>0, NonceAssumption, SMT DEF NonceOf, increment_nonce_number
    <2>2. Base(0)
      BY <2>0, <2>1, SMT DEF Base, NonceInit
    <2>3. NonceTypeOK
      BY <2>0, SMT DEF NonceTypeOK, NonceInit
    <2>4. 0 \in 0 .. MaxSent
      BY <2>0, SMT
    <2>. QED
      BY <2>2, <2>3, <2>4 DEF NonceInv
  <1>2. NonceInv /\ [NonceNext]_nonceVars => NonceInv'
    <2>. SUFFICES ASSUME NonceInv, [NonceNext]_nonceVars PROVE NonceInv'
      OBVIOUS
    <2>1. CASE send_data_packet
      <3>1. PICK b \in 0 .. MaxSent : Base(b)
        BY DEF NonceInv
      <3>2. Base(b)'
        BY <2>1, <3>1 DEF Base, send_data_packet, NonceOf, increment_nonce_number
      <3>3. NonceTypeOK'
        BY <2>1, SentAssumption, SMT DEF send_data_packet, NonceInv, NonceTypeOK
      <3>. QED
        BY <3>2, <3>3 DEF NonceInv
    <2>2. ASSUME NEW i \in 0 .. nonces_used - 1, handle_data_packet(i) PROVE NonceInv'
      BY <2>2, HandleKeepsInv
    <2>3. CASE UNCHANGED nonceVars
      BY <2>3 DEF nonceVars, NonceInv, NonceTypeOK, Base, NonceOf, increment_nonce_number
    <2>. QED
      BY <2>1, <2>2, <2>3 DEF NonceNext
  <1>. QED
    BY <1>1, <1>2, PTL DEF NonceSpec

\* A packet up to Threshold places before or after the newest one always
\* decrypts: handle_data_packet never loses a peer that lost fewer packets.
THEOREM NonceWindow == NonceSpec => []WindowAroundNewest
  <1>1. NonceInv => WindowAroundNewest
    <2>. SUFFICES ASSUME NonceInv, NEW i \in 0 .. MaxSent - 1,
                         newest - Threshold <= i, i <= newest + Threshold
                  PROVE  Decrypts(i)
      BY DEF WindowAroundNewest
    <2>0. Threshold \in Nat \ {0} /\ NumSpace = 3 * Threshold + 1 /\ MaxSent \in Nat
      BY ThresholdAssumption, SentAssumption
    <2>1. PICK b \in 0 .. MaxSent : Base(b)
      BY DEF NonceInv
    <2>2. newest \in -1 .. MaxSent - 1 /\ i \in 0 .. MaxSent
      BY <2>0, SMT DEF NonceInv, NonceTypeOK
    <2>3. b <= i /\ i - b < NumSpace
      BY <2>0, <2>1, <2>2, SMT DEF Base
    <2>. QED
      BY <2>1, <2>2, <2>3, DecryptsInWindow DEF Base
  <1>. QED
    BY <1>1, NonceInvHolds, PTL

\* No packet more than 2 * Threshold behind the newest one is accepted again.
THEOREM NonceNoReplay == NonceSpec => []OldPacketsRejected
  <1>1. NonceInv => OldPacketsRejected
    <2>. SUFFICES ASSUME NonceInv, NEW i \in 0 .. MaxSent - 1, Decrypts(i)
                  PROVE  newest - i <= 2 * Threshold
      BY DEF OldPacketsRejected
    <2>0. Threshold \in Nat \ {0} /\ MaxSent \in Nat
      BY ThresholdAssumption, SentAssumption
    <2>1. PICK b \in 0 .. MaxSent : Base(b)
      BY DEF NonceInv
    <2>2. newest \in -1 .. MaxSent - 1 /\ i \in 0 .. MaxSent
      BY <2>0, SMT DEF NonceInv, NonceTypeOK
    <2>3. b <= i
      BY <2>1, <2>2, DecryptsInWindow DEF Base
    <2>. QED
      BY <2>0, <2>1, <2>2, <2>3, SMT DEF Base
  <1>. QED
    BY <1>1, NonceInvHolds, PTL

-----------------------------------------------------------------------------
\* Before the first round packets_left has only gone down from MinQueue.
QuotaInv == QuotaTypeOK /\ QuotaOrdered /\ (~ started => packets_left <= MinQueue)

Limit == MinQueue + 5 * MaxRefill

\* A refill never lifts the quota above the limit.
LEMMA RefillBounded ==
  ASSUME NEW left \in 0 .. Limit, NEW num \in 0 .. MaxRefill
  PROVE  Refilled(left, num) \in 0 .. Limit
  BY QuotaAssumption, SMT DEF Refilled, Limit

\* What the end of send_crypto_packets leaves is ordered if it was before.
LEMMA SendRequestedOrdered ==
  ASSUME NEW left \in 0 .. Limit, NEW requested \in 0 .. Limit,
         left <= requested,
         NEW resent \in 0 .. Limit,
         SendRequested(left, requested, resent)
  PROVE  QuotaInv'
  <1>1. packets_left' \in 0 .. Limit /\ packets_left_requested' \in 0 .. Limit
    BY QuotaAssumption, SMT DEF SendRequested, Limit
  <1>2. packets_left' <= packets_left_requested'
    BY QuotaAssumption, SMT DEF SendRequested, Limit
  <1>3. started' = TRUE
    BY DEF SendRequested
  <1>4. Limit < QuotaWord /\ Limit \in Nat
    BY QuotaAssumption, SMT DEF Limit
  <1>. QED
    BY <1>1, <1>2, <1>3, <1>4, QuotaAssumption, SMT DEF QuotaInv, QuotaTypeOK, QuotaOrdered, Limit

\* write_cryptpacket keeps the invariant: both counters are positive when it
\* decrements them, unless no round has run yet.
LEMMA WriteOrdered ==
  ASSUME QuotaInv, write_cryptpacket
  PROVE  QuotaInv'
  <1>1. packets_left' \in 0 .. QuotaWord - 1 /\ packets_left_requested' \in 0 .. QuotaWord - 1
    BY QuotaAssumption, SMT DEF QuotaInv, QuotaTypeOK, write_cryptpacket, Dec
  <1>2. CASE started
    BY <1>1, <1>2, QuotaAssumption, SMT
      DEF QuotaInv, QuotaTypeOK, QuotaOrdered, write_cryptpacket, Dec
  <1>3. CASE ~ started
    BY <1>1, <1>3, QuotaAssumption, SMT
      DEF QuotaInv, QuotaTypeOK, QuotaOrdered, write_cryptpacket, Dec
  <1>. QED
    BY <1>2, <1>3

\* A round of send_crypto_packets keeps the invariant.
LEMMA RoundOrdered ==
  ASSUME QuotaInv, NEW refill \in BOOLEAN, NEW num \in 0 .. MaxRefill,
         NEW requestedRefill \in BOOLEAN, NEW numRequested \in 0 .. MaxRefill,
         NEW resent \in 0 .. Limit,
         Round(refill, num, requestedRefill, numRequested, resent)
  PROVE  QuotaInv'
  <1>. DEFINE left == IF refill THEN Refilled(packets_left, num) ELSE packets_left
              own == IF requestedRefill THEN numRequested ELSE packets_left_requested
              requested == IF left > own THEN left ELSE own
  <1>1. started /\ SendRequested(left, requested, resent)
    BY DEF Round
  <1>2. packets_left \in 0 .. Limit /\ packets_left_requested \in 0 .. Limit
    BY <1>1, QuotaAssumption, SMT DEF QuotaInv, QuotaTypeOK, QuotaOrdered, Limit
  <1>3. left \in 0 .. Limit
    BY <1>2, RefillBounded
  <1>4. own \in 0 .. Limit
    BY <1>2, QuotaAssumption, SMT DEF Limit
  <1>. HIDE DEF left, own
  <1>5. requested \in 0 .. Limit /\ left <= requested
    BY <1>3, <1>4, QuotaAssumption, SMT DEF Limit
  <1>. HIDE DEF requested
  <1>. QED
    BY <1>1, <1>3, <1>5, SendRequestedOrdered

\* The quota of new packets never exceeds the quota of packets sent again, so
\* write_cryptpacket's unguarded second decrement never wraps around, and both
\* stay within their bound (QuotaOrdered); the counters keep their type.
THEOREM QuotaIsOrdered == QuotaSpec => [](QuotaTypeOK /\ QuotaOrdered)
  <1>1. QuotaInit => QuotaInv
    <2>. SUFFICES ASSUME QuotaInit PROVE QuotaInv
      OBVIOUS
    <2>1. packets_left \in 0 .. QuotaWord - 1 /\ packets_left_requested \in 0 .. QuotaWord - 1
      BY QuotaAssumption, SMT DEF QuotaInit
    <2>2. started = FALSE /\ packets_left <= MinQueue
      BY QuotaAssumption, SMT DEF QuotaInit
    <2>. QED
      BY <2>1, <2>2 DEF QuotaInv, QuotaTypeOK, QuotaOrdered
  <1>2. QuotaInv /\ [QuotaNext]_quotaVars => QuotaInv'
    <2>. SUFFICES ASSUME QuotaInv, [QuotaNext]_quotaVars PROVE QuotaInv'
      OBVIOUS
    <2>1. CASE write_cryptpacket
      BY <2>1, WriteOrdered
    <2>2. ASSUME NEW resent \in 0 .. MinQueue + 5 * MaxRefill, FirstRound(resent)
          PROVE  QuotaInv'
      <3>1. MinQueue \in 0 .. Limit
        BY QuotaAssumption, SMT DEF Limit
      <3>2. SendRequested(MinQueue, MinQueue, resent)
        BY <2>2 DEF FirstRound
      <3>3. MinQueue <= MinQueue /\ resent \in 0 .. Limit
        BY QuotaAssumption, SMT DEF Limit
      <3>. QED
        BY <3>1, <3>2, <3>3, SendRequestedOrdered
    <2>3. ASSUME NEW resent \in 0 .. MinQueue + 5 * MaxRefill,
                 NEW refill \in BOOLEAN, NEW requestedRefill \in BOOLEAN,
                 NEW num \in 0 .. MaxRefill, NEW numRequested \in 0 .. MaxRefill,
                 Round(refill, num, requestedRefill, numRequested, resent)
          PROVE  QuotaInv'
      BY <2>3, RoundOrdered DEF Limit
    <2>4. CASE UNCHANGED quotaVars
      BY <2>4 DEF quotaVars, QuotaInv, QuotaTypeOK, QuotaOrdered
    <2>. QED
      BY <2>1, <2>2, <2>3, <2>4 DEF QuotaNext
  <1>3. QuotaInv => QuotaTypeOK /\ QuotaOrdered
    BY DEF QuotaInv
  <1>. QED
    BY <1>1, <1>2, <1>3, PTL DEF QuotaSpec

-----------------------------------------------------------------------------
(* Group messages: words and slots.                                        *)

\* The assumption on the sizes, with half the word and the word in windows.
LEMMA Sizes ==
  /\ NumberWord \in Nat \ {0, 1} /\ LossyCount \in Nat \ {0, 1} /\ 2 * LossyCount <= NumberWord
  /\ AheadOfLast \in Nat /\ MaxLag \in Nat /\ MaxGap \in Nat /\ MaxSpoken \in Nat
  /\ MaxLag + AheadOfLast + 2 <= NumberWord
  /\ MaxLag < NumberWord \div 2 + LossyCount - 1
  /\ MaxGap + LossyCount <= NumberWord
  /\ \E h \in Nat : NumberWord = 2 * h /\ NumberWord \div 2 = h
  /\ \E q \in Int : NumberWord = LossyCount * q
<1>1. PICK q \in Int : NumberWord = LossyCount * q + (NumberWord % LossyCount)
  <2>1. NumberWord \in Int /\ LossyCount \in Nat \ {0}
    BY GroupNumbersAssumption
  <2> QED
    BY <2>1, Remainder
<1>2. NumberWord = LossyCount * q
  <2>1. LossyCount * q \in Int
    BY GroupNumbersAssumption, SMT
  <2> QED
    BY GroupNumbersAssumption, <1>1, <2>1, SMT
<1>3. \E h \in Nat : NumberWord = 2 * h /\ NumberWord \div 2 = h
  BY GroupNumbersAssumption, SMT
<1> QED
  BY GroupNumbersAssumption, <1>2, <1>3

\* A number is its word and a multiple of NumberWord.
LEMMA WordType ==
  ASSUME NEW x \in Int
  PROVE  Word(x) \in 0 .. NumberWord - 1 /\ \E p \in Int : x = NumberWord * p + Word(x)
  BY Sizes, Remainder DEF Word

\* Numbers whole words apart have the same word, and whole windows apart the
\* same flag.
LEMMA SameWord ==
  ASSUME NEW a \in Int, NEW b \in Int, NEW c \in Int, a - b = NumberWord * c
  PROVE  Word(a) = Word(b)
<1>1. NumberWord \in Nat \ {0}
  BY Sizes
<1> QED
  BY <1>1, SameRemainder, Zenon DEF Word

LEMMA SameSlot ==
  ASSUME NEW a \in Int, NEW b \in Int, NEW c \in Int, a - b = LossyCount * c
  PROVE  a % LossyCount = b % LossyCount
<1>1. LossyCount \in Nat \ {0}
  BY Sizes
<1> QED
  BY <1>1, SameRemainder, Zenon

\* Differences of words are words of differences.
LEMMA WordOfDifference ==
  ASSUME NEW x \in Int, NEW y \in Int, NEW z \in Int
  PROVE  Word(Word(x) - Word(y) + z) = Word(x - y + z)
<1>1. PICK p \in Int : x = NumberWord * p + Word(x)
  BY WordType
<1>2. PICK q \in Int : y = NumberWord * q + Word(y)
  BY WordType
<1>3. Word(x) \in Int /\ Word(y) \in Int /\ NumberWord \in Nat \ {0}
  BY WordType, Sizes
<1>4. PICK c \in Int : c = q - p
  OBVIOUS
<1>5. PICK a \in Int, b \in Int : a = Word(x) - Word(y) + z /\ b = x - y + z
  BY <1>3
<1>6. a - b = NumberWord * c
  <2>1. NumberWord * c = NumberWord * q - NumberWord * p
        /\ NumberWord * q \in Int /\ NumberWord * p \in Int
    BY <1>3, <1>4, SMT
  <2> QED
    <3>1. PICK m \in Int, n \in Int, v \in Int, w \in Int :
            m = NumberWord * p /\ n = NumberWord * q /\ v = Word(x) /\ w = Word(y)
      BY <1>3, <2>1
    <3>2. x = m + v /\ y = n + w /\ NumberWord * c = n - m /\ a = v - w + z /\ b = x - y + z
      BY <1>1, <1>2, <1>5, <2>1, <3>1
    <3> QED
      BY <1>5, <3>1, <3>2, SMT
<1>7. Word(a) = Word(b)
  BY <1>6, SameWord
<1> QED
  BY <1>5, <1>7

\* The slot of a number in recv_lossy is the slot of its packet.
LEMMA SlotOfWord ==
  ASSUME NEW x \in Int, NEW z \in Int
  PROVE  (Word(x) + z) % LossyCount = (x + z) % LossyCount
<1>1. PICK p \in Int : x = NumberWord * p + Word(x)
  BY WordType
<1>2. PICK q \in Int : NumberWord = LossyCount * q
  BY Sizes
<1>3. Word(x) \in Int /\ LossyCount \in Nat \ {0}
  BY WordType, Sizes
<1>4. NumberWord * p = LossyCount * (q * p) /\ q * p \in Int
  BY <1>2, <1>3, SMT
<1>5. PICK c \in Int : c = - (q * p)
  BY <1>4
<1>6. LossyCount * c = - (NumberWord * p) /\ NumberWord * p \in Int
  BY <1>3, <1>4, <1>5, SMT
<1>7. PICK a \in Int, b \in Int : a = Word(x) + z /\ b = x + z
  BY <1>3
<1>8. a - b = LossyCount * c
  <2>1. PICK m \in Int, w \in Int : m = NumberWord * p /\ w = Word(x)
    BY <1>3, <1>6
  <2>2. x = m + w /\ LossyCount * c = - m
    BY <1>1, <1>6, <2>1
  <2> QED
    BY <1>7, <2>1, <2>2, SMT
<1>9. a % LossyCount = b % LossyCount
  BY <1>8, SameSlot
<1> QED
  BY <1>7, <1>9

-----------------------------------------------------------------------------
(* Group messages: the invariant.                                          *)

\* The numbers of a member's t-th message and t-th lossy packet.
Number(t) == 1 + ((t - 1) % (NumberWord - 1))

Expected(t) == IF stream = "message" THEN Number(t) ELSE Word(t - 1)

\* The flag of the t-th lossy packet.
Slot(t) == (t - 1) % LossyCount

\* n is the newest message taken, 0 before the first.
IsNewest(n) ==
  /\ n \in Nat
  /\ n = 0 <=> numbersShown = <<>>
  /\ n # 0 => n \in ShownNumbers
  /\ \A t \in ShownNumbers : t <= n

Window(bottom, top, recv) == [bottom |-> bottom, top |-> top, recv |-> recv]

\* Window w of a peer whose newest packet is the n-th, and of whose packets
\* those of S were taken: the flags are those of the last LossyCount packets.
WindowOf(w, n, S) ==
  /\ w = Window(Word(n - LossyCount), Word(n - 1), w.recv)
  /\ w.recv \in [0 .. LossyCount - 1 -> BOOLEAN]
  /\ \A t \in n - LossyCount + 1 .. n : w.recv[Slot(t)] <=> t \in S

Increasing == \A i, j \in DOMAIN numbersShown : i < j => numbersShown[i] < numbersShown[j]

NumbersInv(n) ==
  /\ stream \in {"message", "lossy"}
  /\ spoken \in Seq(Nat) /\ numbersShown \in Seq(Nat) /\ last \in Nat
  /\ \A t \in 1 .. Len(spoken) : spoken[t] = Expected(t)
  /\ ShownNumbers \subseteq 1 .. Len(spoken)
  /\ IsNewest(n)
  /\ Len(spoken) <= n + MaxGap
  /\ stream = "message" => Increasing /\ last = IF n = 0 THEN 0 ELSE Number(n)
  /\ stream = "lossy" => IF n = 0 THEN window = NoLossy ELSE WindowOf(window, n, ShownNumbers)

\* Newest is the message the invariant calls the newest.
LEMMA NewestIs ==
  ASSUME NEW n, IsNewest(n), \A t \in ShownNumbers : t \in Nat
  PROVE  Newest = n
<1>1. CASE numbersShown = <<>>
  BY <1>1 DEF IsNewest, Newest
<1>2. CASE numbersShown # <<>>
  <2>1. n \in ShownNumbers /\ \A t \in ShownNumbers : t <= n
    BY <1>2 DEF IsNewest
  <2>2. Newest = CHOOSE t \in ShownNumbers : \A u \in ShownNumbers : u <= t
    BY <1>2 DEF Newest
  <2>3. \A t \in ShownNumbers : (\A u \in ShownNumbers : u <= t) => t = n
    BY <2>1
  <2> QED
    BY <2>1, <2>2, <2>3
<1> QED
  BY <1>1, <1>2

-----------------------------------------------------------------------------
(* Group messages: the last number.                                        *)

\* The number of a message is never 0.
LEMMA NumberType ==
  ASSUME NEW t \in Int
  PROVE  Number(t) \in 1 .. NumberWord - 1
<1>1. NumberWord - 1 \in Nat \ {0} /\ t - 1 \in Int
  BY Sizes
<1>2. PICK r : r = (t - 1) % (NumberWord - 1)
  OBVIOUS
<1>3. r \in 0 .. (NumberWord - 1) - 1
  BY <1>1, <1>2, Remainder
<1> QED
  BY <1>1, <1>2, <1>3 DEF Number

\* next_message_number counts the messages modulo NumberWord - 1.
LEMMA SuccessorNumber ==
  ASSUME NEW t \in Nat
  PROVE  next_message_number(IF t = 0 THEN 0 ELSE Number(t)) = Number(t + 1)
<1>1. PICK m \in Nat \ {0} : m = NumberWord - 1
  BY Sizes
<1>2. NumberWord = m + 1
  BY <1>1, Sizes
<1>3. Number(t + 1) = 1 + (t % m) /\ Number(t) = 1 + ((t - 1) % m)
  BY <1>1 DEF Number
<1>4. \A k \in 0 .. m : Word(k) = k
  <2> TAKE k \in 0 .. m
  <2>1. k \in 0 .. NumberWord - 1 /\ k \in Int /\ NumberWord \in Nat \ {0}
    BY <1>2
  <2> QED
    BY <2>1, SmallRemainder DEF Word
<1>5. Word(m + 1) = 0
  <2>1. m + 1 = NumberWord * 1 + 0 /\ 0 \in 0 .. NumberWord - 1 /\ NumberWord \in Nat \ {0}
    BY <1>2
  <2>2. (m + 1) % NumberWord = 0
    BY <2>1, RemainderIs
  <2> QED
    BY <2>2 DEF Word
<1>6. CASE t = 0
  <2>1. 0 % m = 0
    BY SmallRemainder
  <2>2. Word(1) = 1
    BY <1>4
  <2> QED
    BY <1>3, <1>6, <2>1, <2>2 DEF next_message_number
<1>7. CASE t # 0
  <2>1. PICK p \in Int : t - 1 = m * p + ((t - 1) % m)
    <3>1. PICK x \in Int : x = t - 1
      OBVIOUS
    <3>2. \E p \in Int : x = m * p + (x % m)
      BY Remainder
    <3> QED
      BY <3>1, <3>2
  <2>2. PICK r \in 0 .. m - 1 : r = (t - 1) % m
    <3>1. PICK x \in Int : x = t - 1
      OBVIOUS
    <3>2. x % m \in 0 .. m - 1
      BY Remainder
    <3> QED
      BY <3>1, <3>2
  <2>3. next_message_number(r + 1) = IF Word(r + 2) = 0 THEN 1 ELSE Word(r + 2)
    <3>1. (r + 1) + 1 = r + 2
      OBVIOUS
    <3> QED
      BY <3>1 DEF next_message_number
  <2>4. CASE r = m - 1
    <3>1. t = m * (p + 1) + 0
      <4>1. m * (p + 1) = m * p + m /\ m * p \in Int
        BY SMT
      <4> QED
        BY <2>1, <2>2, <2>4, <4>1
    <3>2. PICK q \in Int : q = p + 1
      OBVIOUS
    <3>3. t = m * q + 0 /\ 0 \in 0 .. m - 1
      BY <3>1, <3>2
    <3>4. t % m = 0
      BY <3>3, RemainderIs
    <3>5. r + 2 = m + 1
      BY <2>4
    <3> QED
      BY <1>3, <1>5, <1>7, <2>2, <2>3, <3>4, <3>5
  <2>5. CASE r # m - 1
    <3>1. t = m * p + (r + 1)
      <4>1. PICK k \in Int : k = m * p
        BY SMT
      <4>2. t - 1 = k + r
        BY <2>1, <2>2, <4>1
      <4>3. t = k + (r + 1)
        BY <4>2
      <4> QED
        BY <4>1, <4>3
    <3>2. PICK s \in 0 .. m - 1 : s = r + 1
      BY <2>5
    <3>3. t % m = s
      BY <3>1, <3>2, RemainderIs
    <3>4. r + 2 \in 0 .. m /\ r + 2 # 0
      BY <2>5
    <3>5. Word(r + 2) = r + 2
      BY <1>4, <3>4
    <3> QED
      BY <1>3, <1>7, <2>2, <2>3, <3>2, <3>3, <3>4, <3>5
  <2> QED
    BY <2>4, <2>5
<1> QED
  BY <1>6, <1>7

\* A copy of a message that is not newer than the last one is not new.
LEMMA OldMessageIsOld ==
  ASSUME NEW t \in Nat, NEW n \in Nat, t <= n, t + MaxLag >= n
  PROVE  ~ message_is_new(Number(n), Number(t))
<1>1. PICK m \in Nat \ {0} : m = NumberWord - 1
  BY Sizes
<1>2. NumberWord = m + 1 /\ MaxLag + AheadOfLast + 1 <= m /\ AheadOfLast \in Nat /\ MaxLag \in Nat
  BY <1>1, Sizes
<1>3. PICK d \in 0 .. MaxLag : d = n - t
  BY <1>2
<1>4. Number(n) \in 1 .. m /\ Number(t) \in 1 .. m
  BY <1>1, NumberType
<1>5. CASE d = 0
  <2>1. t = n
    BY <1>3, <1>5
  <2> QED
    BY <1>4, <2>1 DEF message_is_new
<1>6. CASE d # 0
  <2>1. PICK p \in Int : t - 1 = m * p + ((t - 1) % m)
    <3>1. PICK x \in Int : x = t - 1
      OBVIOUS
    <3>2. \E p \in Int : x = m * p + (x % m)
      BY Remainder
    <3> QED
      BY <3>1, <3>2
  <2>2. PICK r \in 0 .. m - 1 : r = (t - 1) % m
    <3>1. PICK x \in Int : x = t - 1
      OBVIOUS
    <3>2. x % m \in 0 .. m - 1
      BY Remainder
    <3> QED
      BY <3>1, <3>2
  <2>3. n - 1 = m * p + (r + d)
    <3>1. m * p \in Int
      BY SMT
    <3> QED
      BY <1>3, <2>1, <2>2, <3>1
  <2>4. Number(t) = r + 1 /\ Number(n) = 1 + ((n - 1) % m)
    BY <1>1, <2>2 DEF Number
  <2>5. CASE r + d <= m - 1
    <3>1. PICK s \in 0 .. m - 1 : s = r + d
      BY <1>2, <2>5
    <3>2. (n - 1) % m = s
      BY <2>3, <3>1, RemainderIs
    <3>3. Number(t) - Number(n) = - d
      BY <2>4, <3>1, <3>2
    <3>4. Word(- d) = - d + NumberWord
      <4>1. - d \in Int /\ - d < 0 /\ - (- d) < NumberWord /\ NumberWord \in Nat \ {0}
        BY <1>2, <1>6
      <4> QED
        BY <4>1, SmallRemainder DEF Word
    <3>5. ~ (- d + NumberWord <= AheadOfLast)
      BY <1>2
    <3> QED
      BY <1>4, <3>3, <3>4, <3>5 DEF message_is_new
  <2>6. CASE r + d > m - 1
    <3>1. PICK s \in 0 .. m - 1 : s = r + d - m
      BY <1>2, <2>6
    <3>2. PICK q \in Int : q = p + 1
      OBVIOUS
    <3>3. n - 1 = m * q + s
      <4>1. m * q = m * p + m /\ m * p \in Int
        BY <3>2, SMT
      <4> QED
        BY <2>3, <3>1, <4>1
    <3>4. (n - 1) % m = s
      BY <3>2, <3>3, RemainderIs
    <3>5. Number(t) - Number(n) = m - d
      BY <2>4, <3>1, <3>4
    <3>6. Word(m - d) = m - d
      <4>1. m - d \in 0 .. NumberWord - 1 /\ NumberWord \in Nat \ {0} /\ m - d \in Int
        BY <1>2
      <4> QED
        BY <4>1, SmallRemainder DEF Word
    <3>7. ~ (m - d <= AheadOfLast)
      BY <1>2
    <3> QED
      BY <1>4, <3>5, <3>6, <3>7 DEF message_is_new
  <2> QED
    BY <2>5, <2>6
<1> QED
  BY <1>5, <1>6

-----------------------------------------------------------------------------
(* Group messages: the window of lossy packets.                            *)

\* A flag is one of recv_lossy.
LEMMA SlotType ==
  ASSUME NEW t \in Int
  PROVE  Slot(t) \in 0 .. LossyCount - 1
<1>1. LossyCount \in Nat \ {0} /\ t - 1 \in Int
  BY Sizes
<1> QED
  BY <1>1, Remainder DEF Slot

\* Packets less than a window apart have different flags.
LEMMA OtherSlot ==
  ASSUME NEW a \in Int, NEW b \in Int, a # b, a - b < LossyCount, b - a < LossyCount
  PROVE  Slot(a) # Slot(b)
<1>1. PICK x \in Int, y \in Int : x = a - 1 /\ y = b - 1
  OBVIOUS
<1>2. x # y /\ x - y < LossyCount /\ y - x < LossyCount /\ LossyCount \in Nat \ {0}
  BY <1>1, Sizes
<1>3. x % LossyCount # y % LossyCount
  BY <1>2, OtherRemainder
<1> QED
  BY <1>1, <1>3 DEF Slot

\* A packet takes over the flag of the one a window before it.
LEMMA SlotBelow ==
  ASSUME NEW t \in Int
  PROVE  Slot(t - LossyCount) = Slot(t)
<1>1. LossyCount \in Nat \ {0}
  BY Sizes
<1>2. PICK x \in Int, y \in Int : x = t - 1 /\ y = t - LossyCount - 1
  BY <1>1
<1>3. x - y = LossyCount * 1
  BY <1>1, <1>2
<1>4. x % LossyCount = y % LossyCount
  BY <1>3, SameSlot
<1> QED
  BY <1>2, <1>4 DEF Slot

\* The flag of a packet is found from its number alone,
LEMMA SlotOfNumber ==
  ASSUME NEW t \in Int
  PROVE  Word(t - 1) % LossyCount = Slot(t)
<1>1. PICK x \in Int : x = t - 1
  OBVIOUS
<1>2. (Word(x) + 0) % LossyCount = (x + 0) % LossyCount
  BY SlotOfWord
<1>3. Word(x) + 0 = Word(x) /\ x + 0 = x
  BY WordType
<1> QED
  BY <1>1, <1>2, <1>3 DEF Slot

\* and so is that of a packet counted from the bottom of the window.
LEMMA SlotFromBottom ==
  ASSUME NEW n \in Int, NEW k \in Int
  PROVE  (Word(n - LossyCount) + k) % LossyCount = Slot(n - LossyCount + k + 1)
<1>1. PICK x \in Int : x = n - LossyCount
  BY Sizes
<1>2. (Word(x) + k) % LossyCount = (x + k) % LossyCount
  BY SlotOfWord
<1>3. (x + k + 1) - 1 = x + k
  OBVIOUS
<1>4. Slot(x + k + 1) = (x + k) % LossyCount
  BY <1>3 DEF Slot
<1> QED
  BY <1>1, <1>2, <1>4

\* How far two numbers lie apart, for packets close enough to each other.
LEMMA Apart ==
  ASSUME NEW a \in Int, NEW b \in Int
  PROVE  /\ a - b \in 0 .. NumberWord - 1 => Word(Word(a) - Word(b)) = a - b
         /\ a - b < 0 /\ b - a < NumberWord => Word(Word(a) - Word(b)) = a - b + NumberWord
<1>1. PICK x \in Int : x = a - b
  OBVIOUS
<1>2. Word(Word(a) - Word(b) + 0) = Word(a - b + 0)
  BY WordOfDifference
<1>3. Word(a) - Word(b) + 0 = Word(a) - Word(b) /\ a - b + 0 = x
  BY <1>1, WordType
<1>4. Word(Word(a) - Word(b)) = x % NumberWord
  BY <1>2, <1>3 DEF Word
<1>5. NumberWord \in Nat \ {0}
  BY Sizes
<1>6. /\ x \in 0 .. NumberWord - 1 => x % NumberWord = x
      /\ x < 0 /\ - x < NumberWord => x % NumberWord = x + NumberWord
  BY <1>5, SmallRemainder
<1>7. - x = b - a
  BY <1>1
<1> QED
  BY <1>1, <1>4, <1>6, <1>7

\* The bottom that Ends computes for the t-th packet.
LEMMA BottomOf ==
  ASSUME NEW t \in Int
  PROVE  Word(Word(t - 1) - LossyCount + 1) = Word(t - LossyCount)
<1>1. LossyCount \in Nat /\ NumberWord \in Nat \ {0, 1}
  BY Sizes
<1>2. PICK x \in Int, z \in Int : x = t - 1 /\ z = 1 - LossyCount
  BY <1>1
<1>3. Word(Word(x) - Word(0) + z) = Word(x - 0 + z)
  BY WordOfDifference
<1>4. Word(0) = 0
  BY <1>1, SmallRemainder DEF Word
<1>5. x - 0 + z = t - LossyCount
  BY <1>1, <1>2
<1>6. Word(x) \in Int
  BY WordType
<1>7. Word(x) - 0 + z = Word(x) - LossyCount + 1
  BY <1>1, <1>2, <1>6
<1> QED
  BY <1>2, <1>3, <1>4, <1>5, <1>7

\* Where the window puts the t-th packet when the newest is the n-th.
LEMMA AheadIs ==
  ASSUME NEW n \in Nat \ {0}, NEW t \in Nat \ {0}, t + MaxLag >= n, t <= n + MaxGap
  PROVE  /\ Word(n - LossyCount) # Word(n - 1)
         /\ t > n - LossyCount =>
              Word(Word(t - 1) - Word(n - LossyCount)) = t - 1 - n + LossyCount
         /\ t <= n - LossyCount =>
              /\ Word(Word(t - 1) - Word(n - LossyCount)) > NumberWord \div 2
              /\ Word(Word(t - 1) - Word(n - LossyCount)) >= LossyCount
<1>1. PICK l \in Nat \ {0, 1} : l = LossyCount
  BY Sizes
<1>2. PICK h \in Nat : NumberWord = 2 * h /\ NumberWord \div 2 = h
  BY Sizes
<1>3. l <= h /\ MaxLag \in Nat /\ MaxGap \in Nat /\ MaxLag < h + l - 1 /\ MaxGap + l <= 2 * h
  BY <1>1, <1>2, Sizes
<1>4. Word(n - l) # Word(n - 1)
  <2>1. PICK x \in Int, y \in Int : x = n - l /\ y = n - 1
    OBVIOUS
  <2>2. x # y /\ x - y < NumberWord /\ y - x < NumberWord /\ NumberWord \in Nat \ {0}
    BY <1>2, <1>3, <2>1
  <2> QED
    BY <2>1, <2>2, OtherRemainder DEF Word
<1>5. PICK a \in Int, b \in Int : a = t - 1 /\ b = n - l
  OBVIOUS
<1>6. /\ a - b \in 0 .. NumberWord - 1 => Word(Word(a) - Word(b)) = a - b
      /\ a - b < 0 /\ b - a < NumberWord => Word(Word(a) - Word(b)) = a - b + NumberWord
  BY Apart
<1>7. t > n - l => a - b \in 0 .. NumberWord - 1 /\ a - b = t - 1 - n + l
  BY <1>2, <1>3, <1>5
<1>8. t <= n - l => a - b < 0 /\ b - a < NumberWord /\ a - b + NumberWord > h /\ a - b + NumberWord >= l
  BY <1>2, <1>3, <1>5
<1> QED
  BY <1>1, <1>2, <1>4, <1>5, <1>6, <1>7, <1>8

\* The window with the flag of the t-th packet set.
Mark(v, t) == [v EXCEPT !.recv[Word(t - 1) % LossyCount] = TRUE]

Flagged(g, t) == [g EXCEPT ![Slot(t)] = TRUE]

\* The first packet is taken.
LEMMA LossyFirst ==
  ASSUME NEW t \in Nat \ {0}
  PROVE  lossy_packet_not_received(NoLossy, Word(t - 1))
           = [taken |-> TRUE, window |-> Mark(Ends(NoLossy, Word(t - 1)), t)]
<1>1. NoLossy.bottom = NoLossy.top
  BY DEF NoLossy
<1> QED
  BY <1>1 DEF lossy_packet_not_received, Mark

\* The three ways of lossy_packet_not_received once the window is in use.
LEMMA LossyCases ==
  ASSUME NEW n \in Nat \ {0}, NEW t \in Nat \ {0}, t + MaxLag >= n, t <= n + MaxGap,
         NEW w, NEW S, WindowOf(w, n, S),
         NEW r, r = lossy_packet_not_received(w, Word(t - 1))
  PROVE  /\ t > n - LossyCount /\ t <= n /\ t \notin S => r = [taken |-> TRUE, window |-> Mark(w, t)]
         /\ t > n - LossyCount /\ t <= n /\ t \in S => ~ r.taken
         /\ t <= n - LossyCount => ~ r.taken
         /\ t > n /\ t - n >= (NumberWord \div 2) - LossyCount + 2 => ~ r.taken
         /\ t > n /\ t - n < (NumberWord \div 2) - LossyCount + 2
              => r = [taken |-> TRUE, window |-> Mark(Slide(w, Word(t - 1)), t)]
<1>1. PICK l \in Nat \ {0, 1} : l = LossyCount
  BY Sizes
<1>2. PICK h \in Nat : NumberWord \div 2 = h
  BY Sizes
<1>3. w.bottom = Word(n - l) /\ w.top = Word(n - 1)
  BY <1>1 DEF WindowOf, Window
<1>4. PICK ahead : ahead = Word(Word(t - 1) - w.bottom)
  OBVIOUS
<1>5. /\ w.bottom # w.top
      /\ t > n - l => ahead = t - 1 - n + l
      /\ t <= n - l => ahead > h /\ ahead >= l
  BY <1>1, <1>2, <1>3, <1>4, AheadIs
<1>6. ahead \in Int
  <2>1. Word(n - l) \in Int /\ Word(t - 1) \in Int
    BY WordType
  <2>2. Word(t - 1) - w.bottom \in Int
    BY <1>3, <2>1
  <2> QED
    BY <1>4, <2>2, WordType
<1>7. PICK f : f = w.recv[Word(t - 1) % LossyCount]
  OBVIOUS
<1>8. r = IF ahead < l
          THEN IF f THEN [taken |-> FALSE, window |-> w] ELSE [taken |-> TRUE, window |-> Mark(w, t)]
          ELSE IF ahead > h THEN [taken |-> FALSE, window |-> w]
          ELSE [taken |-> TRUE, window |-> Mark(Slide(w, Word(t - 1)), t)]
  BY <1>1, <1>2, <1>4, <1>5, <1>7, Zenon DEF lossy_packet_not_received, Mark
<1>9. ASSUME t > n - l, t <= n
      PROVE  /\ t \notin S => r = [taken |-> TRUE, window |-> Mark(w, t)]
             /\ t \in S => ~ r.taken
  <2>1. ahead < l
    BY <1>5, <1>9
  <2>2. f <=> t \in S
    <3>1. f = w.recv[Slot(t)]
      BY <1>7, SlotOfNumber
    <3>2. t \in n - LossyCount + 1 .. n
      BY <1>1, <1>9
    <3> QED
      BY <3>1, <3>2 DEF WindowOf
  <2>3. CASE t \in S
    <3>1. r = [taken |-> FALSE, window |-> w]
      BY <1>8, <2>1, <2>2, <2>3, Zenon
    <3> QED
      BY <2>3, <3>1
  <2>4. CASE t \notin S
    BY <1>8, <2>1, <2>2, <2>4, Zenon
  <2> QED
    BY <2>3, <2>4
<1>10. ASSUME t <= n - l PROVE ~ r.taken
  <2>1. ~ (ahead < l) /\ ahead > h
    BY <1>5, <1>6, <1>10
  <2> QED
    BY <1>8, <2>1
<1>11. ASSUME t > n, t - n >= h - l + 2 PROVE ~ r.taken
  <2>1. ~ (ahead < l) /\ ahead > h
    BY <1>5, <1>11
  <2> QED
    BY <1>8, <2>1
<1>12. ASSUME t > n, t - n < h - l + 2
       PROVE  r = [taken |-> TRUE, window |-> Mark(Slide(w, Word(t - 1)), t)]
  <2>1. ~ (ahead < l) /\ ~ (ahead > h)
    BY <1>5, <1>12
  <2> QED
    BY <1>8, <2>1
<1> QED
  BY <1>1, <1>2, <1>9, <1>10, <1>11, <1>12

\* What Ends and Mark leave in the fields.
LEMMA EndsAndMark ==
  ASSUME NEW t \in Int, NEW g \in [0 .. LossyCount - 1 -> BOOLEAN], NEW m, NEW n
  PROVE  /\ Ends(Window(m, n, g), Word(t - 1))
              = Window(Word(t - LossyCount), Word(t - 1), g)
         /\ Mark(Window(m, n, g), t)
              = Window(m, n, Flagged(g, t))
<1>1. PICK w : w = Window(m, n, g)
  OBVIOUS
<1>2. Ends(w, Word(t - 1)) = Window(Word(t - LossyCount), Word(t - 1), g)
  <2>1. PICK a, b : a = Word(t - 1) /\ b = Word(t - LossyCount)
    OBVIOUS
  <2>2. PICK v : v = Ends(w, a)
    OBVIOUS
  <2>3. v = [w EXCEPT !.top = a, !.bottom = b]
    BY <2>1, <2>2, BottomOf DEF Ends
  <2>4. v = Window(b, a, g)
    BY <1>1, <2>3 DEF Window
  <2> QED
    BY <2>1, <2>2, <2>4
<1>3. Mark(w, t) = Window(m, n, Flagged(g, t))
  <2>1. Word(t - 1) % LossyCount = Slot(t)
    BY SlotOfNumber
  <2>2. PICK s : s = Slot(t)
    OBVIOUS
  <2>3. PICK v : v = Mark(w, t)
    OBVIOUS
  <2>4. v = [w EXCEPT !.recv[s] = TRUE]
    BY <2>1, <2>2, <2>3, Zenon DEF Mark
  <2>5. v = Window(m, n, [g EXCEPT ![s] = TRUE])
    BY <1>1, <2>4 DEF Window
  <2>6. Flagged(g, t) = [g EXCEPT ![s] = TRUE]
    BY <2>2 DEF Flagged
  <2> QED
    BY <2>3, <2>5, <2>6
<1> QED
  BY <1>1, <1>2, <1>3

\* Flags of a window in which the t-th packet has been marked.
LEMMA MarkKeeps ==
  ASSUME NEW n \in Int, NEW t \in n - LossyCount + 1 .. n, NEW S,
         NEW g \in [0 .. LossyCount - 1 -> BOOLEAN],
         \A u \in n - LossyCount + 1 .. n : u # t => (g[Slot(u)] <=> u \in S)
  PROVE  WindowOf(Window(Word(n - LossyCount), Word(n - 1), Flagged(g, t)),
                  n, S \union {t})
<1>1. LossyCount \in Nat
  BY Sizes
<1>2. Slot(t) \in 0 .. LossyCount - 1
  BY <1>1, SlotType
<1>3. PICK f : f = Flagged(g, t)
  OBVIOUS
<1>4. f \in [0 .. LossyCount - 1 -> BOOLEAN]
  BY <1>3 DEF Flagged
<1>5. ASSUME NEW u \in n - LossyCount + 1 .. n PROVE f[Slot(u)] <=> u \in S \union {t}
  <2>1. Slot(u) \in 0 .. LossyCount - 1
    BY <1>1, SlotType
  <2>2. CASE u = t
    BY <1>2, <1>3, <2>2 DEF Flagged
  <2>3. CASE u # t
    <3>1. Slot(u) # Slot(t)
      <4>1. u \in Int /\ t \in Int /\ u - t < LossyCount /\ t - u < LossyCount
        BY <1>1
      <4> QED
        BY <2>3, <4>1, OtherSlot
    <3>2. f[Slot(u)] = g[Slot(u)]
      BY <1>3, <2>1, <3>1 DEF Flagged
    <3> QED
      BY <2>3, <3>2
  <2> QED
    BY <2>2, <2>3
<1> QED
  BY <1>3, <1>4, <1>5 DEF WindowOf, Window

\* The window after the first packet,
LEMMA FirstWindow ==
  ASSUME NEW t \in Nat \ {0}
  PROVE  WindowOf(Mark(Ends(NoLossy, Word(t - 1)), t), t, {t})
<1>1. LossyCount \in Nat \ {0} /\ t \in Int
  BY Sizes
<1>2. PICK g : g = [i \in 0 .. LossyCount - 1 |-> FALSE]
  OBVIOUS
<1>3. g \in [0 .. LossyCount - 1 -> BOOLEAN]
  BY <1>2
<1>4. NoLossy = Window(0, 0, g)
  BY <1>2 DEF NoLossy, Window
<1>5. PICK v : v = Ends(NoLossy, Word(t - 1))
  OBVIOUS
<1>6. v = Window(Word(t - LossyCount), Word(t - 1), g)
  BY <1>1, <1>3, <1>4, <1>5, EndsAndMark, ZenonT(60)
<1>7. Mark(v, t) = Window(Word(t - LossyCount), Word(t - 1), Flagged(g, t))
  <2>1. PICK b, c : b = Word(t - LossyCount) /\ c = Word(t - 1)
    OBVIOUS
  <2>2. Mark(Window(b, c, g), t) = Window(b, c, Flagged(g, t))
    BY <1>1, <1>3, EndsAndMark, Zenon
  <2> QED
    BY <1>6, <2>1, <2>2
<1>8. t \in t - LossyCount + 1 .. t
  BY <1>1
<1>9. \A u \in t - LossyCount + 1 .. t : u # t => (g[Slot(u)] <=> u \in {})
  <2> SUFFICES ASSUME NEW u \in t - LossyCount + 1 .. t PROVE ~ g[Slot(u)]
    OBVIOUS
  <2>1. Slot(u) \in 0 .. LossyCount - 1
    BY <1>1, SlotType
  <2> QED
    BY <1>2, <2>1
<1>10. WindowOf(Mark(v, t), t, {} \union {t})
  BY <1>1, <1>3, <1>7, <1>8, <1>9, MarkKeeps
<1> QED
  BY <1>5, <1>10

\* after a packet that was missing in it,
LEMMA MarkedWindow ==
  ASSUME NEW n \in Nat, NEW t \in n - LossyCount + 1 .. n, NEW w, NEW S, WindowOf(w, n, S)
  PROVE  WindowOf(Mark(w, t), n, S \union {t})
<1>1. PICK g : g = w.recv
  OBVIOUS
<1>2. /\ w = Window(Word(n - LossyCount), Word(n - 1), g)
      /\ g \in [0 .. LossyCount - 1 -> BOOLEAN]
      /\ \A u \in n - LossyCount + 1 .. n : g[Slot(u)] <=> u \in S
  BY <1>1 DEF WindowOf
<1>3. t \in Int /\ n \in Int
  BY Sizes
<1>4. Mark(w, t) = Window(Word(n - LossyCount), Word(n - 1), Flagged(g, t))
  <2>1. PICK b, c : b = Word(n - LossyCount) /\ c = Word(n - 1)
    OBVIOUS
  <2>2. Mark(Window(b, c, g), t) = Window(b, c, Flagged(g, t))
    BY <1>2, <1>3, EndsAndMark, Zenon
  <2> QED
    BY <1>2, <2>1, <2>2
<1> QED
  BY <1>2, <1>3, <1>4, MarkKeeps

\* and after a packet above it, when the flags that drop out of the window
\* have been cleared.
LEMMA MovedWindow ==
  ASSUME NEW n \in Nat \ {0}, NEW t \in Nat, t > n, t <= n + MaxGap, NEW w, NEW S, WindowOf(w, n, S),
         \A u \in S : u <= n
  PROVE  WindowOf(Mark(Slide(w, Word(t - 1)), t), t, S \union {t})
<1>1. LossyCount \in Nat \ {0} /\ MaxGap \in Nat /\ NumberWord \in Nat /\ MaxGap + LossyCount <= NumberWord
  BY Sizes
<1>2. PICK g : g = w.recv
  OBVIOUS
<1>3. /\ w = Window(Word(n - LossyCount), Word(n - 1), g)
      /\ g \in [0 .. LossyCount - 1 -> BOOLEAN]
      /\ \A u \in n - LossyCount + 1 .. n : g[Slot(u)] <=> u \in S
  BY <1>2 DEF WindowOf
<1>4. Word(Word(t - 1) - w.top) = t - n
  <2>1. PICK a \in Int, b \in Int : a = t - 1 /\ b = n - 1
    OBVIOUS
  <2>2. a - b \in 0 .. NumberWord - 1 /\ a - b = t - n
    BY <1>1, <2>1
  <2>3. Word(Word(a) - Word(b)) = a - b
    BY <2>2, Apart
  <2>4. w.top = Word(n - 1)
    BY <1>3 DEF Window
  <2> QED
    BY <2>1, <2>2, <2>3, <2>4
<1>5. PICK dropped : dropped = IF t - n >= LossyCount THEN 0 .. LossyCount - 1
                               ELSE {Slot(n - LossyCount + k + 1) : k \in 0 .. t - n - 1}
  OBVIOUS
<1>6. PICK f : f = [i \in 0 .. LossyCount - 1 |-> i \notin dropped /\ g[i]]
  OBVIOUS
<1>7. f \in [0 .. LossyCount - 1 -> BOOLEAN]
  BY <1>6
<1>8. Slide(w, Word(t - 1)) = Ends(Window(Word(n - LossyCount), Word(n - 1), f), Word(t - 1))
  <2>1. w.bottom = Word(n - LossyCount)
    BY <1>3 DEF Window
  <2>2. {(w.bottom + k) % LossyCount : k \in 0 .. t - n - 1}
          = {Slot(n - LossyCount + k + 1) : k \in 0 .. t - n - 1}
    <3>1. \A k \in 0 .. t - n - 1 : (w.bottom + k) % LossyCount = Slot(n - LossyCount + k + 1)
      BY <2>1, SlotFromBottom
    <3> QED
      BY <3>1, Zenon
  <2>3. DOMAIN g = 0 .. LossyCount - 1
    BY <1>3
  <2>4. PICK v : v = [w EXCEPT !.recv = [i \in DOMAIN w.recv |-> i \notin dropped /\ w.recv[i]]]
    OBVIOUS
  <2>5. v = Window(Word(n - LossyCount), Word(n - 1), f)
    <3>1. PICK b, c : b = Word(n - LossyCount) /\ c = Word(n - 1)
      OBVIOUS
    <3>2. f = [i \in DOMAIN w.recv |-> i \notin dropped /\ w.recv[i]]
      BY <1>2, <1>6, <2>3
    <3>3. v = [w EXCEPT !.recv = f]
      BY <2>4, <3>2
    <3>4. w = [bottom |-> b, top |-> c, recv |-> g]
      BY <1>3, <3>1 DEF Window
    <3>5. v = [bottom |-> b, top |-> c, recv |-> f]
      BY <3>3, <3>4
    <3> QED
      BY <3>1, <3>5 DEF Window
  <2>6. Slide(w, Word(t - 1)) = Ends(v, Word(t - 1))
    BY <1>4, <1>5, <2>2, <2>4, Zenon DEF Slide
  <2> QED
    BY <2>5, <2>6
<1>9. t \in Int /\ n \in Int /\ t - LossyCount \in Int /\ t \in t - LossyCount + 1 .. t
  BY <1>1
<1>10. Slide(w, Word(t - 1)) = Window(Word(t - LossyCount), Word(t - 1), f)
  <2>1. PICK b, c : b = Word(n - LossyCount) /\ c = Word(n - 1)
    OBVIOUS
  <2>2. t \in Int
    BY <1>9
  <2>3. Ends(Window(b, c, f), Word(t - 1)) = Window(Word(t - LossyCount), Word(t - 1), f)
    BY <1>7, <2>2, EndsAndMark
  <2> QED
    BY <1>8, <2>1, <2>3
<1>11. Mark(Slide(w, Word(t - 1)), t) = Window(Word(t - LossyCount), Word(t - 1), Flagged(f, t))
  <2>1. PICK b, c : b = Word(t - LossyCount) /\ c = Word(t - 1)
    OBVIOUS
  <2>2. t \in Int
    BY <1>9
  <2>3. Mark(Window(b, c, f), t) = Window(b, c, Flagged(f, t))
    BY <1>7, <2>2, EndsAndMark
  <2> QED
    BY <1>10, <2>1, <2>3
<1>12. ASSUME NEW u \in t - LossyCount + 1 .. t, u # t PROVE f[Slot(u)] <=> u \in S
  <2>1. u \in Int /\ Slot(u) \in 0 .. LossyCount - 1
    BY <1>1, SlotType
  <2>2. f[Slot(u)] <=> Slot(u) \notin dropped /\ g[Slot(u)]
    BY <1>6, <2>1
  <2>3. CASE t - n >= LossyCount
    <3>1. u > n
      BY <1>1, <1>12, <2>3
    <3>2. u \notin S
      BY <2>1, <3>1
    <3> QED
      BY <1>5, <2>1, <2>2, <2>3, <3>2
  <2>4. CASE t - n < LossyCount
    <3>1. dropped = {Slot(n - LossyCount + k + 1) : k \in 0 .. t - n - 1}
      BY <1>1, <1>5, <2>4
    <3>2. CASE u > n
      <4>1. PICK k \in 0 .. t - n - 1 : k = u - n - 1
        BY <1>12, <2>1, <3>2
      <4>2. n - LossyCount + k + 1 = u - LossyCount
        BY <1>1, <2>1, <4>1
      <4>3. Slot(u) = Slot(n - LossyCount + k + 1)
        BY <2>1, <4>2, SlotBelow
      <4>4. Slot(u) \in dropped
        BY <3>1, <4>1, <4>3
      <4>5. u \notin S
        BY <2>1, <3>2
      <4> QED
        BY <2>2, <4>4, <4>5
    <3>3. CASE u <= n
      <4>1. ASSUME NEW k \in 0 .. t - n - 1 PROVE Slot(u) # Slot(n - LossyCount + k + 1)
        <5>1. PICK v \in Int : v = n - LossyCount + k + 1
          BY <1>1
        <5>2. u # v /\ u - v < LossyCount /\ v - u < LossyCount
          BY <1>1, <2>1, <2>4, <3>3, <5>1
        <5>3. Slot(u) # Slot(v)
          BY <2>1, <5>2, OtherSlot
        <5> QED
          BY <5>1, <5>3
      <4>2. Slot(u) \notin dropped
        BY <3>1, <4>1
      <4>3. u \in n - LossyCount + 1 .. n
        BY <1>1, <2>1, <3>3
      <4> QED
        BY <1>3, <2>2, <4>2, <4>3
    <3> QED
      BY <2>1, <3>2, <3>3
  <2> QED
    BY <1>1, <2>3, <2>4
<1>13. \A u \in t - LossyCount + 1 .. t : u # t => (f[Slot(u)] <=> u \in S)
  BY <1>12
<1>14. WindowOf(Window(Word(t - LossyCount), Word(t - 1), Flagged(f, t)), t, S \union {t})
  BY <1>7, <1>9, <1>13, MarkKeeps
<1> QED
  BY <1>11, <1>14

-----------------------------------------------------------------------------
(* Group messages: the steps.                                              *)

\* Appending a packet to those shown.
LEMMA ShownAppended ==
  ASSUME numbersShown \in Seq(Nat), NEW t \in Nat, numbersShown' = Append(numbersShown, t)
  PROVE  numbersShown' \in Seq(Nat) /\ ShownNumbers' = ShownNumbers \union {t} /\ numbersShown' # <<>>
<1>1. numbersShown' \in Seq(Nat) /\ Len(numbersShown') = Len(numbersShown) + 1
  OBVIOUS
<1>2. \A i \in 1 .. Len(numbersShown) : numbersShown'[i] = numbersShown[i]
  OBVIOUS
<1>3. numbersShown'[Len(numbersShown) + 1] = t
  OBVIOUS
<1>4. DOMAIN numbersShown = 1 .. Len(numbersShown) /\ DOMAIN numbersShown' = 1 .. Len(numbersShown) + 1
  BY <1>1
<1>5. \A x : x \in ShownNumbers' <=> x \in ShownNumbers \/ x = t
  BY <1>2, <1>3, <1>4 DEF ShownNumbers
<1>6. numbersShown' # <<>>
  BY <1>1
<1> QED
  BY <1>1, <1>5, <1>6

\* The newest packet after the t-th has been shown.
LEMMA NewestAfter ==
  ASSUME NEW n, IsNewest(n), NEW t \in Nat \ {0}, NEW m, m = IF t > n THEN t ELSE n,
         numbersShown \in Seq(Nat), numbersShown' = Append(numbersShown, t)
  PROVE  IsNewest(m)'
<1>1. ShownNumbers' = ShownNumbers \union {t} /\ numbersShown' # <<>>
  BY ShownAppended
<1>2. n \in Nat /\ (n # 0 => n \in ShownNumbers) /\ \A u \in ShownNumbers : u <= n
  BY DEF IsNewest
<1>3. \A u \in ShownNumbers : u \in Nat
  BY DEF ShownNumbers
<1>4. m \in Nat /\ m # 0 /\ m \in ShownNumbers'
  BY <1>1, <1>2
<1>5. \A u \in ShownNumbers' : u <= m
  BY <1>1, <1>2, <1>3, <1>4
<1> QED
  BY <1>1, <1>4, <1>5 DEF IsNewest

\* The peer uses its next number.
LEMMA SpeakStep ==
  ASSUME NEW n, NumbersInv(n), Speak
  PROVE  NumbersInv(n)'
<1> USE DEF NumbersInv
<1>1. /\ Len(spoken) < MaxSpoken /\ Len(spoken) - Newest < MaxGap
      /\ UNCHANGED <<stream, numbersShown, last, window>>
  BY DEF Speak
<1>2. Newest = n /\ n \in Nat
  <2>1. \A t \in ShownNumbers : t \in Nat
    OBVIOUS
  <2> QED
    BY <2>1, NewestIs DEF IsNewest
<1>3. PICK c \in Nat : c = Len(spoken)
  OBVIOUS
<1>4. PICK x : spoken' = Append(spoken, x) /\ x = Expected(c + 1)
  <2>1. PICK prior : prior = IF spoken = <<>> THEN 0 ELSE spoken[Len(spoken)]
    OBVIOUS
  <2>2. spoken' = Append(spoken, IF stream = "message" THEN next_message_number(prior) ELSE Word(Len(spoken)))
    BY <2>1 DEF Speak
  <2>3. CASE stream = "message"
    <3>1. prior = IF c = 0 THEN 0 ELSE Number(c)
      BY <1>3, <2>1, <2>3 DEF Expected
    <3>2. next_message_number(prior) = Number(c + 1)
      BY <3>1, SuccessorNumber
    <3> QED
      BY <2>2, <2>3, <3>2 DEF Expected
  <2>4. CASE stream # "message"
    <3>1. (c + 1) - 1 = Len(spoken)
      BY <1>3
    <3> QED
      BY <2>2, <2>4, <3>1 DEF Expected
  <2> QED
    BY <2>3, <2>4
<1>5. x \in Nat
  <2>1. PICK d \in Int, k \in Int : d = c + 1 /\ k = (c + 1) - 1
    OBVIOUS
  <2>2. NumberWord \in Nat
    BY Sizes
  <2>3. Number(d) \in 1 .. NumberWord - 1 /\ Word(k) \in 0 .. NumberWord - 1
    BY NumberType, WordType
  <2>4. Number(d) \in Nat /\ Word(k) \in Nat
    BY <2>2, <2>3
  <2> QED
    BY <1>4, <2>1, <2>4 DEF Expected
<1>6. spoken' \in Seq(Nat) /\ Len(spoken') = c + 1
  BY <1>3, <1>4, <1>5
<1>7. \A t \in 1 .. Len(spoken') : spoken'[t] = Expected(t)'
  <2> SUFFICES ASSUME NEW t \in 1 .. c + 1 PROVE spoken'[t] = Expected(t)'
    BY <1>6
  <2>1. Expected(t)' = Expected(t)
    BY <1>1 DEF Expected
  <2>2. CASE t = c + 1
    BY <1>3, <1>4, <1>5, <2>1, <2>2
  <2>3. CASE t # c + 1
    BY <1>3, <1>4, <1>5, <2>1, <2>3
  <2> QED
    BY <2>2, <2>3
<1>8. ShownNumbers' = ShownNumbers /\ (IsNewest(n)' <=> IsNewest(n)) /\ (Increasing' <=> Increasing)
  BY <1>1 DEF ShownNumbers, IsNewest, Increasing
<1>9. ShownNumbers' \subseteq 1 .. Len(spoken') /\ Len(spoken') <= n + MaxGap
  BY <1>1, <1>2, <1>3, <1>6, <1>8, Sizes
<1> QED
  BY <1>1, <1>6, <1>7, <1>8, <1>9

\* What both ways of hearing the t-th packet keep.
LEMMA HearFrame ==
  ASSUME NEW n, NumbersInv(n), NEW t \in DOMAIN spoken, NEW m, m = IF t > n THEN t ELSE n,
         numbersShown' = Append(numbersShown, t), UNCHANGED <<stream, spoken>>
  PROVE  /\ t \in Nat \ {0} /\ t <= n + MaxGap /\ n \in Nat /\ Newest = n
         /\ m \in Nat \ {0} /\ IsNewest(m)'
         /\ numbersShown' \in Seq(Nat) /\ ShownNumbers' = ShownNumbers \union {t}
         /\ stream' \in {"message", "lossy"} /\ spoken' \in Seq(Nat)
         /\ \A u \in 1 .. Len(spoken') : spoken'[u] = Expected(u)'
         /\ ShownNumbers' \subseteq 1 .. Len(spoken')
         /\ Len(spoken') <= m + MaxGap
<1> USE DEF NumbersInv
<1>1. t \in 1 .. Len(spoken) /\ t \in Nat \ {0}
  OBVIOUS
<1>2. n \in Nat /\ MaxGap \in Nat
  BY Sizes DEF IsNewest
<1>3. t <= n + MaxGap /\ m \in Nat \ {0} /\ Len(spoken) <= m + MaxGap
  BY <1>1, <1>2
<1>4. Newest = n
  <2>1. \A u \in ShownNumbers : u \in Nat
    OBVIOUS
  <2> QED
    BY <2>1, NewestIs
<1>5. IsNewest(m)'
  BY <1>1, NewestAfter
<1>6. numbersShown' \in Seq(Nat) /\ ShownNumbers' = ShownNumbers \union {t}
  BY <1>1, ShownAppended
<1>7. \A u \in 1 .. Len(spoken') : spoken'[u] = Expected(u)'
  BY DEF Expected
<1>8. ShownNumbers' \subseteq 1 .. Len(spoken')
  BY <1>1, <1>6
<1> QED
  BY <1>1, <1>2, <1>3, <1>4, <1>5, <1>6, <1>7, <1>8

\* A message that is taken is later than all that were taken before.
LEMMA HearMessageStep ==
  ASSUME NEW n, NumbersInv(n), NEW t \in DOMAIN spoken, t + MaxLag >= Newest, HearMessage(t)
  PROVE  NumbersInv(t)'
<1>1. /\ stream = "message" /\ message_is_new(last, spoken[t]) /\ last' = spoken[t]
      /\ numbersShown' = Append(numbersShown, t) /\ UNCHANGED <<stream, spoken, window>>
  BY DEF HearMessage
<1>2. PICK m : m = IF t > n THEN t ELSE n
  OBVIOUS
<1>3. /\ t \in Nat \ {0} /\ t <= n + MaxGap /\ n \in Nat /\ Newest = n
      /\ m \in Nat \ {0} /\ IsNewest(m)'
      /\ numbersShown' \in Seq(Nat) /\ ShownNumbers' = ShownNumbers \union {t}
      /\ stream' \in {"message", "lossy"} /\ spoken' \in Seq(Nat)
      /\ \A u \in 1 .. Len(spoken') : spoken'[u] = Expected(u)'
      /\ ShownNumbers' \subseteq 1 .. Len(spoken')
      /\ Len(spoken') <= m + MaxGap
  BY <1>1, <1>2, HearFrame
<1>4. spoken \in Seq(Nat) /\ numbersShown \in Seq(Nat) /\ spoken[t] = Number(t) /\ spoken[t] \in Nat
  BY <1>1 DEF NumbersInv, Expected
<1>5. Increasing /\ last = IF n = 0 THEN 0 ELSE Number(n)
  BY <1>1 DEF NumbersInv
<1>6. t > n
  <2>1. CASE n = 0
    BY <1>3, <2>1
  <2>2. CASE n # 0
    <3>1. ~ message_is_new(Number(n), Number(t)) \/ ~ (t <= n)
      <4>1. t \in Nat /\ n \in Nat /\ t + MaxLag >= n
        BY <1>3
      <4> QED
        BY <4>1, OldMessageIsOld
    <3>2. message_is_new(Number(n), Number(t))
      BY <1>1, <1>4, <1>5, <2>2
    <3> QED
      BY <1>3, <3>1, <3>2
  <2> QED
    BY <2>1, <2>2
<1>7. m = t
  BY <1>2, <1>6
<1>8. Increasing'
  <2>1. PICK c \in Nat : c = Len(numbersShown)
    BY <1>4
  <2>2. DOMAIN numbersShown' = 1 .. c + 1 /\ DOMAIN numbersShown = 1 .. c
    BY <1>1, <1>3, <1>4, <2>1
  <2>3. \A i \in 1 .. c : numbersShown'[i] = numbersShown[i]
    BY <1>1, <1>3, <1>4, <2>1
  <2>4. numbersShown'[c + 1] = t
    BY <1>1, <1>3, <1>4, <2>1
  <2>5. \A i \in 1 .. c : numbersShown[i] \in Nat /\ numbersShown[i] <= n
    <3>1. \A u \in ShownNumbers : u <= n
      BY DEF NumbersInv, IsNewest
    <3>2. \A i \in 1 .. c : numbersShown[i] \in ShownNumbers
      BY <2>2, Zenon DEF ShownNumbers
    <3>3. \A i \in 1 .. c : numbersShown[i] \in Nat
      BY <1>4, <2>1
    <3> QED
      BY <3>1, <3>2, <3>3
  <2>6. ASSUME NEW i \in 1 .. c + 1, NEW j \in 1 .. c + 1, i < j PROVE numbersShown'[i] < numbersShown'[j]
    <3>1. i \in 1 .. c
      BY <2>6
    <3>2. CASE j = c + 1
      BY <1>3, <1>6, <2>3, <2>4, <2>5, <3>1, <3>2, SMTT(60)
    <3>3. CASE j # c + 1
      <4>1. j \in 1 .. c
        BY <3>3
      <4>2. numbersShown[i] < numbersShown[j]
        BY <1>5, <2>2, <2>6, <3>1, <4>1 DEF Increasing
      <4> QED
        BY <2>3, <3>1, <4>1, <4>2
    <3> QED
      BY <3>2, <3>3
  <2> QED
    BY <2>2, <2>6 DEF Increasing
<1>9. stream' = "message" /\ last' \in Nat /\ last' = IF t = 0 THEN 0 ELSE Number(t)
  BY <1>1, <1>3, <1>4
<1> QED
  BY <1>3, <1>7, <1>8, <1>9 DEF NumbersInv

\* What the window of a peer says of a copy of the t-th packet, and what it
\* becomes when the copy is taken.
LEMMA LossyIs ==
  ASSUME NEW n, NumbersInv(n), stream = "lossy", NEW t \in DOMAIN spoken, t + MaxLag >= n,
         NEW r, r = lossy_packet_not_received(window, spoken[t])
  PROVE  /\ r.taken <=> /\ t \notin ShownNumbers
                        /\ n # 0 => t > n - LossyCount /\ t - n < (NumberWord \div 2) - LossyCount + 2
         /\ r.taken => WindowOf(r.window, IF t > n THEN t ELSE n, ShownNumbers \union {t})
<1>1. t \in Nat \ {0} /\ t <= n + MaxGap /\ n \in Nat /\ spoken[t] = Word(t - 1)
  BY Sizes, SMTT(60) DEF NumbersInv, IsNewest, Expected
<1>2. \A u \in ShownNumbers : u <= n
  BY DEF NumbersInv, IsNewest
<1>3. CASE n = 0
  <2>1. ShownNumbers = {}
    BY <1>3 DEF NumbersInv, IsNewest, ShownNumbers
  <2>2. window = NoLossy
    BY <1>3 DEF NumbersInv
  <2>3. r = [taken |-> TRUE, window |-> Mark(Ends(NoLossy, Word(t - 1)), t)]
    BY <1>1, <2>2, LossyFirst
  <2>4. WindowOf(r.window, t, {t})
    <3>1. r.window = Mark(Ends(NoLossy, Word(t - 1)), t)
      BY <2>3
    <3> QED
      BY <1>1, <3>1, FirstWindow
  <2>5. t > n /\ ShownNumbers \union {t} = {t}
    BY <1>1, <1>3, <2>1
  <2> QED
    BY <1>3, <2>1, <2>3, <2>4, <2>5
<1>4. CASE n # 0
  <2>1. WindowOf(window, n, ShownNumbers)
    BY <1>4 DEF NumbersInv
  <2>2. /\ t > n - LossyCount /\ t <= n /\ t \notin ShownNumbers
             => r = [taken |-> TRUE, window |-> Mark(window, t)]
        /\ t > n - LossyCount /\ t <= n /\ t \in ShownNumbers => ~ r.taken
        /\ t <= n - LossyCount => ~ r.taken
        /\ t > n /\ t - n >= (NumberWord \div 2) - LossyCount + 2 => ~ r.taken
        /\ t > n /\ t - n < (NumberWord \div 2) - LossyCount + 2
             => r = [taken |-> TRUE, window |-> Mark(Slide(window, Word(t - 1)), t)]
    <3>1. n \in Nat \ {0} /\ r = lossy_packet_not_received(window, Word(t - 1))
      BY <1>1, <1>4
    <3> QED
      BY <1>1, <2>1, <3>1, LossyCases
  <2>3. PICK h \in Nat, l \in Nat : NumberWord \div 2 = h /\ l = LossyCount /\ l <= h
    BY Sizes
  <2>4. CASE t > n
    <3>1. t \notin ShownNumbers /\ t > n - l /\ ~ (t <= n)
      BY <1>1, <1>2, <2>4
    <3>2. CASE t - n < h - l + 2
      <4>1. r = [taken |-> TRUE, window |-> Mark(Slide(window, Word(t - 1)), t)]
        BY <2>2, <2>3, <2>4, <3>2
      <4>2. r.taken /\ r.window = Mark(Slide(window, Word(t - 1)), t)
        BY <4>1
      <4>3. WindowOf(r.window, t, ShownNumbers \union {t})
        BY <1>1, <1>2, <1>4, <2>1, <2>4, <4>2, MovedWindow
      <4> QED
        BY <2>3, <2>4, <3>1, <3>2, <4>2, <4>3
    <3>3. CASE ~ (t - n < h - l + 2)
      <4>1. ~ r.taken
        BY <1>1, <2>2, <2>3, <2>4, <3>3
      <4> QED
        BY <1>4, <2>3, <3>3, <4>1
    <3> QED
      BY <3>2, <3>3
  <2>5. CASE ~ (t > n)
    <3>1. t <= n /\ t - n < h - l + 2
      BY <1>1, <2>3, <2>5
    <3>2. CASE t > n - l /\ t \notin ShownNumbers
      <4>1. r = [taken |-> TRUE, window |-> Mark(window, t)]
        BY <2>2, <2>3, <3>1, <3>2
      <4>2. r.taken /\ r.window = Mark(window, t)
        BY <4>1
      <4>3. t \in n - LossyCount + 1 .. n
        BY <1>1, <2>3, <3>1, <3>2
      <4>4. WindowOf(r.window, n, ShownNumbers \union {t})
        BY <1>1, <2>1, <4>2, <4>3, MarkedWindow
      <4> QED
        BY <2>3, <2>5, <3>1, <3>2, <4>2, <4>4
    <3>3. CASE ~ (t > n - l) \/ t \in ShownNumbers
      <4>1. ~ r.taken
        BY <1>1, <2>2, <2>3, <3>1, <3>3
      <4> QED
        BY <1>4, <2>3, <3>3, <4>1
    <3> QED
      BY <3>2, <3>3
  <2> QED
    BY <2>4, <2>5
<1> QED
  BY <1>3, <1>4

\* A lossy packet is taken.
LEMMA HearLossyStep ==
  ASSUME NEW n, NumbersInv(n), NEW t \in DOMAIN spoken, t + MaxLag >= Newest, HearLossy(t),
         NEW m, m = IF t > n THEN t ELSE n
  PROVE  NumbersInv(m)'
<1>1. PICK r : r = lossy_packet_not_received(window, spoken[t])
  OBVIOUS
<1>2. /\ stream = "lossy" /\ r.taken /\ window' = r.window
      /\ numbersShown' = Append(numbersShown, t) /\ UNCHANGED <<stream, spoken, last>>
  BY <1>1 DEF HearLossy
<1>3. /\ t \in Nat \ {0} /\ t <= n + MaxGap /\ n \in Nat /\ Newest = n
      /\ m \in Nat \ {0} /\ IsNewest(m)'
      /\ numbersShown' \in Seq(Nat) /\ ShownNumbers' = ShownNumbers \union {t}
      /\ stream' \in {"message", "lossy"} /\ spoken' \in Seq(Nat)
      /\ \A u \in 1 .. Len(spoken') : spoken'[u] = Expected(u)'
      /\ ShownNumbers' \subseteq 1 .. Len(spoken')
      /\ Len(spoken') <= m + MaxGap
  BY <1>2, HearFrame
<1>4. WindowOf(r.window, m, ShownNumbers \union {t})
  <2>1. t + MaxLag >= n
    BY <1>3
  <2> QED
    BY <1>1, <1>2, <2>1, LossyIs
<1>5. WindowOf(window, m, ShownNumbers)'
  <2>1. WindowOf(window', m, ShownNumbers')
    BY <1>2, <1>3, <1>4
  <2> QED
    BY <2>1 DEF WindowOf, Window
<1>6. stream' = "lossy" /\ last' \in Nat /\ m # 0
  BY <1>2, <1>3 DEF NumbersInv
<1> QED
  BY <1>3, <1>5, <1>6 DEF NumbersInv

\* Every step keeps the invariant,
LEMMA NumbersInvNext ==
  ASSUME \E n \in Nat : NumbersInv(n), [GroupNumbersNext]_groupNumbersVars
  PROVE  (\E n \in Nat : NumbersInv(n))'
<1>1. PICK n \in Nat : NumbersInv(n)
  OBVIOUS
<1>2. CASE Speak
  BY <1>1, <1>2, SpeakStep
<1>3. ASSUME NEW t \in DOMAIN spoken, t + MaxLag >= Newest, HearMessage(t) \/ HearLossy(t)
      PROVE  (\E m \in Nat : NumbersInv(m))'
  <2>1. CASE HearMessage(t)
    <3>1. NumbersInv(t)'
      BY <1>1, <1>3, <2>1, HearMessageStep
    <3>2. t \in Nat
      BY <1>1 DEF NumbersInv
    <3> QED
      BY <3>1, <3>2
  <2>2. CASE HearLossy(t)
    <3>1. PICK m : m = IF t > n THEN t ELSE n
      OBVIOUS
    <3>2. NumbersInv(m)'
      BY <1>1, <1>3, <2>2, <3>1, HearLossyStep
    <3>3. m \in Nat
      BY <1>1, <3>1 DEF NumbersInv
    <3> QED
      BY <3>2, <3>3
  <2> QED
    BY <1>3, <2>1, <2>2
<1>4. CASE UNCHANGED groupNumbersVars
  <2>1. ShownNumbers' = ShownNumbers /\ UNCHANGED <<stream, spoken, numbersShown, last, window>>
    BY <1>4 DEF groupNumbersVars, ShownNumbers
  <2>2. (IsNewest(n)' <=> IsNewest(n)) /\ (Increasing' <=> Increasing)
    BY <2>1 DEF IsNewest, Increasing
  <2>3. WindowOf(window, n, ShownNumbers)' <=> WindowOf(window, n, ShownNumbers)
    BY <2>1 DEF WindowOf
  <2>4. \A t \in 1 .. Len(spoken') : spoken'[t] = Expected(t)'
    BY <1>1, <2>1 DEF NumbersInv, Expected
  <2>5. NumbersInv(n)'
    BY <1>1, <2>1, <2>2, <2>3, <2>4 DEF NumbersInv
  <2> QED
    BY <2>5
<1> QED
  BY <1>2, <1>3, <1>4 DEF GroupNumbersNext

\* which holds in the beginning
LEMMA NumbersInvInit ==
  ASSUME GroupNumbersInit
  PROVE  \E n \in Nat : NumbersInv(n)
<1>1. stream \in {"message", "lossy"} /\ spoken = <<>> /\ numbersShown = <<>> /\ last = 0 /\ window = NoLossy
  BY DEF GroupNumbersInit
<1>2. ShownNumbers = {}
  BY <1>1 DEF ShownNumbers
<1>3. IsNewest(0) /\ Increasing
  BY <1>1, <1>2 DEF IsNewest, Increasing
<1>4. NumbersInv(0)
  BY <1>1, <1>2, <1>3, Sizes DEF NumbersInv
<1> QED
  BY <1>4

\* and implies the property.
LEMMA NumbersInvDrops ==
  ASSUME NEW n \in Nat, NumbersInv(n)
  PROVE  CopiesAreDropped
<1>1. Newest = n
  <2>1. \A u \in ShownNumbers : u \in Nat
    BY DEF NumbersInv
  <2> QED
    BY <2>1, NewestIs DEF NumbersInv
<1>2. ASSUME stream = "message"
      PROVE  \A i, j \in DOMAIN numbersShown : i < j => numbersShown[i] < numbersShown[j]
  BY <1>2 DEF NumbersInv, Increasing
<1>3. ASSUME stream = "lossy", NEW t \in DOMAIN spoken, t + MaxLag >= Newest
      PROVE  lossy_packet_not_received(window, spoken[t]).taken
               <=> /\ t \notin ShownNumbers
                   /\ Newest # 0 => /\ t > Newest - LossyCount
                                    /\ t - Newest < NumberWord \div 2 - LossyCount + 2
  <2>1. PICK r : r = lossy_packet_not_received(window, spoken[t])
    OBVIOUS
  <2>2. t + MaxLag >= n
    BY <1>1, <1>3
  <2> QED
    BY <1>1, <1>3, <2>1, <2>2, LossyIs
<1> QED
  BY <1>2, <1>3 DEF CopiesAreDropped

(* The copies of a message that members pass on are never shown twice: a   *)
(* message never after itself or a later one, and of the lossy packets      *)
(* exactly those a list of all numbers ever taken would let through, for    *)
(* any width of the numbers, any size of the window that divides it, and    *)
(* any number of wraps, as long as copies lag and gaps grow no further      *)
(* than the assumption says (handle_message_packet_group and                *)
(* lossy_packet_not_received in toxcore/group.c).                           *)
THEOREM CopiesStayDropped == GroupNumbersSpec => []CopiesAreDropped
<1>1. GroupNumbersInit => \E n \in Nat : NumbersInv(n)
  BY NumbersInvInit
<1>2. (\E n \in Nat : NumbersInv(n)) /\ [GroupNumbersNext]_groupNumbersVars => (\E n \in Nat : NumbersInv(n))'
  BY NumbersInvNext
<1>3. (\E n \in Nat : NumbersInv(n)) => CopiesAreDropped
  BY NumbersInvDrops
<1> QED
  BY <1>1, <1>2, <1>3, PTL DEF GroupNumbersSpec
=============================================================================
