------------------------------- MODULE MCWire -------------------------------
(***************************************************************************)
(* What travels between nodes, in one instance for TLC: the handshake and  *)
(* the request packets of a crypto connection, the packets in a TCP        *)
(* stream, the onion with the announcements at a node, and hole punching.  *)
(* They share no state, so that every behaviour moves one of them and      *)
(* leaves the others where they start.                                     *)
(***************************************************************************)
EXTENDS CryptoHandshake, RequestCodec, TcpStream, OnionAnnounce, DhtNat, TLC

CONSTANTS n1, n2, n3, n4, u1, u2   \* nodes and users of the onion

VARIABLE part   \* the part that moves

PathVars == <<tcpStreamVars, onionAnnounceVars, natVars>>

WireInit ==
  /\ part \in {"handshake", "codec", "stream", "onion", "nat"}
  /\ Init /\ CodecInit /\ TcpStreamInit /\ OnionAnnounceInit /\ DhtNatInit
  /\ part # "codec" => window = MaxWindow /\ sent = MaxWindow /\ holes = {} /\ limit = 0

InHandshake(A) == part = "handshake" /\ A /\ UNCHANGED <<part, codecVars, PathVars>>
InCodec(A) == part = "codec" /\ A /\ UNCHANGED <<part, vars, PathVars>>
InStream(A) == part = "stream" /\ A /\ UNCHANGED <<part, vars, codecVars, onionAnnounceVars, natVars>>
InOnion(A) == part = "onion" /\ A /\ UNCHANGED <<part, vars, codecVars, tcpStreamVars, natVars>>
InNat(A) == part = "nat" /\ A /\ UNCHANGED <<part, vars, codecVars, tcpStreamVars, onionAnnounceVars>>

WireNext ==
  \/ InHandshake(Next) \/ InCodec(CodecNext)
  \/ InStream(TcpStreamNext) \/ InOnion(OnionAnnounceNext) \/ InNat(DhtNatNext)

WireSpec == WireInit /\ [][WireNext]_<<part, vars, codecVars, PathVars>>

Alike == Permutations({Alice, Bob})

-----------------------------------------------------------------------------
(* The instance.                                                           *)

WirePaths == {<<n1, n2, n3>>, <<n3, n2, n1>>}

WireTcpPaths == {<<n3, n2, n1>>}

WireDistance == u1 :> 2 @@ u2 :> 1

WireReports == {[family |-> 4, ip |-> 1, port |-> 3], [family |-> 4, ip |-> 1, port |-> 7],
                [family |-> 4, ip |-> 1, port |-> 12]}

=============================================================================
