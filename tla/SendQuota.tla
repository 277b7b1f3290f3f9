----------------------------- MODULE SendQuota -----------------------------
(***************************************************************************)
(* The sending quota of an established crypto connection                   *)
(* (toxcore/net_crypto.c): packets_left limits the new packets             *)
(* write_cryptpacket accepts, packets_left_requested the packets           *)
(* send_crypto_packets sends again.  Both are uint32_t and are decremented *)
(* without a check of their own.  The rates are floating point numbers in  *)
(* the code; here a refill is any number up to MaxRefill.                  *)
(***************************************************************************)
EXTENDS Integers

CONSTANTS
  MinQueue,    \* CRYPTO_MIN_QUEUE_LENGTH, 64
  MaxRefill,   \* bound: the packets one refill allows
  QuotaWord    \* 2^32, what a uint32_t can hold

ASSUME QuotaAssumption ==
  /\ MinQueue \in Nat \ {0}
  /\ MaxRefill \in Nat
  /\ QuotaWord \in Nat
  /\ MinQueue + 5 * MaxRefill < QuotaWord

VARIABLES
  packets_left,
  packets_left_requested,
  started      \* last_packets_left_set and last_packets_left_requested_set # 0

quotaVars == <<packets_left, packets_left_requested, started>>

Dec(x) == IF x = 0 THEN QuotaWord - 1 ELSE x - 1

\* new_crypto_connection, accept_crypto_connection.
QuotaInit ==
  /\ packets_left = MinQueue
  /\ packets_left_requested = 0
  /\ started = FALSE

\* write_cryptpacket with congestion control, when the packet could be queued.
\* Without congestion control it does not touch the quota.
write_cryptpacket ==
  /\ packets_left # 0
  /\ packets_left' = Dec(packets_left)
  /\ packets_left_requested' = Dec(packets_left_requested)
  /\ UNCHANGED started

\* A refill of packets_left by num packets.
Refilled(left, num) ==
  IF left > num * 4 + MinQueue THEN num * 4 + MinQueue ELSE left + num

\* The end of send_crypto_packets: send_requested_packets sends resent packets
\* again (it refuses when its quota is 0), which uses up both quotas.
SendRequested(left, requested, resent) ==
  /\ resent <= requested
  /\ packets_left_requested' = requested - resent
  /\ packets_left' = IF requested = 0 \/ resent < left
                       THEN left - resent
                       ELSE 0
  /\ started' = TRUE

\* send_crypto_packets for one connection.  refill and requestedRefill say
\* which of the two timers have run out.
FirstRound(resent) ==
  /\ ~ started
  /\ SendRequested(MinQueue, MinQueue, resent)

\* Mutant of Round: packets_left_requested is not raised to packets_left.
Round_NotRaised(refill, num, requestedRefill, numRequested, resent) ==
  LET left == IF refill THEN Refilled(packets_left, num) ELSE packets_left
      own == IF requestedRefill THEN numRequested ELSE packets_left_requested
  IN  /\ started
      /\ SendRequested(left, own, resent)

Round(refill, num, requestedRefill, numRequested, resent) ==
  LET left == IF refill THEN Refilled(packets_left, num) ELSE packets_left
      own == IF requestedRefill THEN numRequested ELSE packets_left_requested
      requested == IF left > own THEN left ELSE own
  IN  /\ started
      /\ SendRequested(left, requested, resent)

QuotaNext ==
  \/ write_cryptpacket
  \/ \E resent \in 0 .. MinQueue + 5 * MaxRefill :
       \/ FirstRound(resent)
       \/ \E refill, requestedRefill \in BOOLEAN, num, numRequested \in 0 .. MaxRefill :
            Round(refill, num, requestedRefill, numRequested, resent)

QuotaSpec == QuotaInit /\ [][QuotaNext]_quotaVars

-----------------------------------------------------------------------------
\* The type invariant.
QuotaTypeOK ==
  /\ packets_left \in 0 .. QuotaWord - 1
  /\ packets_left_requested \in 0 .. QuotaWord - 1
  /\ started \in BOOLEAN

\* Once send_crypto_packets has run, what may be written is never more than
\* what may be sent again, so that write_cryptpacket's second decrement, which
\* nothing guards, does not wrap around and lift the limit on resends.
QuotaOrdered ==
  started => /\ packets_left <= packets_left_requested
             /\ packets_left_requested <= MinQueue + 5 * MaxRefill


=============================================================================
