------------------------------ MODULE MCAvCall ------------------------------
(***************************************************************************)
(* Calls between Alice and Bob, who are alike: either may call, answer,    *)
(* hang up and lose the connection.                                        *)
(***************************************************************************)
EXTENDS AvCall, TLC

CONSTANTS Alice, Bob

Symmetry == Permutations({Alice, Bob})

=============================================================================
