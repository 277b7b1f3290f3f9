---------------------------- MODULE CryptoNonce ----------------------------
(***************************************************************************)
(* The nonces of data packets in one direction of a crypto connection      *)
(* (toxcore/net_crypto.c).  The sender counts packets in sent_nonce; a     *)
(* packet shows only the lowest 16 bits of its nonce.  The receiver        *)
(* rebuilds the whole nonce from its own recv_nonce, which trails behind   *)
(* in steps of DATA_NUM_THRESHOLD; a packet it gets wrong does not         *)
(* decrypt and is dropped.                                                 *)
(***************************************************************************)
EXTENDS Integers

CONSTANTS
  NumSpace,     \* 2^16, the nonce numbers a packet can show
  NonceSpace,   \* 2^192, the nonces
  Threshold,    \* DATA_NUM_THRESHOLD, 21845
  FirstNonce,   \* the sent_nonce of the handshake, random in the code
  MaxSent       \* bound: packets sent

ASSUME ThresholdAssumption ==
  /\ Threshold \in Nat \ {0}
  /\ NumSpace = 3 * Threshold + 1
ASSUME NonceAssumption ==
  /\ NonceSpace \in Nat
  /\ \E q \in 1 .. NonceSpace : NonceSpace = NumSpace * q
  /\ FirstNonce \in 0 .. NonceSpace - 1
\* No nonce is used twice under one key.
ASSUME SentAssumption == MaxSent \in Nat /\ MaxSent + 2 * NumSpace < NonceSpace

VARIABLES
  nonces_used,  \* packets sent: sent_nonce is FirstNonce + nonces_used
  recv_nonce,   \* conn->recv_nonce of the receiver
  newest        \* history: the newest packet that was decrypted, or -1

nonceVars == <<nonces_used, recv_nonce, newest>>

\* increment_nonce_number: the carry out of the last byte is lost.
increment_nonce_number(nonce, k) ==
  IF nonce + k < NonceSpace THEN nonce + k ELSE nonce + k - NonceSpace

get_nonce_uint16(nonce) == nonce % NumSpace

\* uint16_t subtraction.
Diff(a, b) == IF a >= b THEN a - b ELSE a + NumSpace - b

\* The nonce of packet i, counted from 0.
NonceOf(i) == increment_nonce_number(FirstNonce, i)

\* What handle_data_packet works out from the number in packet i.
DiffOf(i) == Diff(get_nonce_uint16(NonceOf(i)), get_nonce_uint16(recv_nonce))

\* decrypt_data_symmetric succeeds with the nonce of the sender and no other.
Decrypts(i) == increment_nonce_number(recv_nonce, DiffOf(i)) = NonceOf(i)

NonceInit == nonces_used = 0 /\ recv_nonce = FirstNonce /\ newest = -1

\* send_data_packet: encryption and increment are under conn->mutex.
send_data_packet ==
  /\ nonces_used < MaxSent
  /\ nonces_used' = nonces_used + 1
  /\ UNCHANGED <<recv_nonce, newest>>

\* Mutants of handle_data_packet: recv_nonce moves too far, or not at all.
handle_data_packet_TooFar(i) ==
  /\ Decrypts(i)
  /\ recv_nonce' = IF DiffOf(i) > Threshold * 2
                     THEN increment_nonce_number(recv_nonce, Threshold * 2)
                     ELSE recv_nonce
  /\ newest' = IF i > newest THEN i ELSE newest
  /\ UNCHANGED nonces_used

handle_data_packet_Stays(i) ==
  /\ Decrypts(i)
  /\ newest' = IF i > newest THEN i ELSE newest
  /\ UNCHANGED <<nonces_used, recv_nonce>>

\* The receiver gets packet i: any one sent before, in any order, any number
\* of times.
handle_data_packet(i) ==
  /\ Decrypts(i)
  /\ recv_nonce' = IF DiffOf(i) > Threshold * 2
                     THEN increment_nonce_number(recv_nonce, Threshold)
                     ELSE recv_nonce
  /\ newest' = IF i > newest THEN i ELSE newest
  /\ UNCHANGED nonces_used

NonceNext == send_data_packet \/ \E i \in 0 .. nonces_used - 1 : handle_data_packet(i)

NonceSpec == NonceInit /\ [][NonceNext]_nonceVars

-----------------------------------------------------------------------------
\* The type invariant.
NonceTypeOK ==
  /\ nonces_used \in 0 .. MaxSent
  /\ recv_nonce \in 0 .. NonceSpace - 1
  /\ newest \in -1 .. MaxSent - 1

\* A burst of up to Threshold lost packets does not desynchronise the ends,
\* and a packet up to Threshold places late still decrypts: handle_data_packet
\* moves recv_nonce neither too late nor too far.
WindowAroundNewest ==
  \A i \in 0 .. MaxSent - 1 :
    (newest - Threshold <= i /\ i <= newest + Threshold) => Decrypts(i)

\* An old packet is useless: nothing more than 2 * Threshold behind the newest
\* packet is accepted again.
OldPacketsRejected ==
  \A i \in 0 .. MaxSent - 1 : Decrypts(i) => newest - i <= 2 * Threshold

=============================================================================
