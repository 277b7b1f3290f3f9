-------------------------- MODULE ReliableChannel --------------------------
(***************************************************************************)
(* What a crypto connection promises to the code above it: a pair of       *)
(* reliable, ordered channels with truthful receipts.  The k-th packet     *)
(* that an end writes is packet k; the other end is handed packets         *)
(* 1, 2, 3, ... without gap or repetition, and a packet is acknowledged    *)
(* only after it was handed over.                                          *)
(***************************************************************************)
EXTENDS Integers, Sequences

CONSTANTS Alice, Bob

VARIABLES
  written,     \* [End -> Nat], packets accepted by write_cryptpacket
  delivered,   \* [End -> Seq(Nat)], packets passed to the data callback
  acked        \* [End -> Nat], packets reported by cryptpacket_received

chanVars == <<written, delivered, acked>>

End == {Alice, Bob}

Peer(e) == IF e = Alice THEN Bob ELSE Alice

ChanInit ==
  /\ written = [e \in End |-> 0]
  /\ delivered = [e \in End |-> <<>>]
  /\ acked = [e \in End |-> 0]

ChanWrite(e) ==
  /\ written' = [written EXCEPT ![e] = @ + 1]
  /\ UNCHANGED <<delivered, acked>>

\* End e handles one packet of the network: it may learn that the peer has
\* received more packets, and be handed some more packets itself.
ChanReceive(e) ==
  /\ \E n \in Len(delivered[e]) .. written[Peer(e)] :
       delivered' = [delivered EXCEPT ![e] = [i \in 1 .. n |-> i]]
  /\ \E n \in acked[e] .. Len(delivered[Peer(e)]) :
       acked' = [acked EXCEPT ![e] = n]
  /\ UNCHANGED written

ChanNext == \E e \in End : ChanWrite(e) \/ ChanReceive(e)

ChanSpec == ChanInit /\ [][ChanNext]_chanVars

=============================================================================
