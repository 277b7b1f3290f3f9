------------------------- MODULE MCCryptoTransport -------------------------
(***************************************************************************)
(* Instances of CryptoTransport for TLC: a new connection on which each    *)
(* end writes NewWrites packets, and one that has been used for a while.   *)
(***************************************************************************)
EXTENDS CryptoTransport, TLC

CONSTANTS NewWrites, AliceWrites, BobWrites

MCWriteLimit ==
  [f \in FirstNumbers |->
     IF f = 0 THEN [e \in End |-> NewWrites]
              ELSE (Alice :> AliceWrites) @@ (Bob :> BobWrites)]

=============================================================================
