--------------------------- MODULE MCConnections ---------------------------
(***************************************************************************)
(* The life of connections in one instance for TLC: the table of crypto    *)
(* connections, the locks around it, the nonces and the send quotas of one *)
(* connection, a friend connection, and the handshake of two nodes, which  *)
(* CryptoHandshake describes with names of its own.  They look at          *)
(* different parts of the state, so that every behaviour moves one of them *)
(* and leaves the others where they start.                                 *)
(***************************************************************************)
EXTENDS ConnectionTable, ConnectionLocks, CryptoNonce, SendQuota, FriendConnection

CONSTANTS Alice, Bob, NoPacket, MaxSessions, MaxEpoch, Networks

VARIABLES
  part,                                        \* the part that moves
  conn, epoch, opened, msgs, keys, network     \* the state of the handshake

Hs == INSTANCE CryptoHandshake

hsVars == <<conn, epoch, opened, msgs, keys, network>>

packetVars == <<nonceVars, quotaVars>>

vars == <<part, tableVars, lockVars, packetVars, friendVars, hsVars>>

Init ==
  /\ part \in {"table", "locks", "nonce", "quota", "friend", "handshake"}
  /\ TableInit /\ LocksInit /\ NonceInit /\ QuotaInit /\ FriendInit /\ Hs!Init
  /\ part # "handshake" => network = "none"

InTable(A) == part = "table" /\ A /\ UNCHANGED <<part, lockVars, packetVars, friendVars, hsVars>>
InLocks(A) == part = "locks" /\ A /\ UNCHANGED <<part, tableVars, packetVars, friendVars, hsVars>>
InNonce(A) == part = "nonce" /\ A /\ UNCHANGED <<part, tableVars, lockVars, quotaVars, friendVars, hsVars>>
InQuota(A) == part = "quota" /\ A /\ UNCHANGED <<part, tableVars, lockVars, nonceVars, friendVars, hsVars>>
InFriend(A) == part = "friend" /\ A /\ UNCHANGED <<part, tableVars, lockVars, packetVars, hsVars>>
InHandshake(A) == part = "handshake" /\ A /\ UNCHANGED <<part, tableVars, lockVars, packetVars, friendVars>>

Next ==
  \/ InTable(TableNext) \/ InLocks(LocksNext) \/ InNonce(NonceNext) \/ InQuota(QuotaNext)
  \/ InFriend(FriendNext) \/ InHandshake(Hs!Next)

\* The fairness of TableFairSpec, LocksFairSpec and FriendFairSpec, and of the
\* handshake's FairSpec.
FairSpec ==
  /\ Init /\ [][Next]_vars
  /\ WF_vars(InTable(do_net_crypto_when_due))
  /\ WF_vars(InLocks(ToxNext))
  /\ \A t \in AvThread : WF_vars(InLocks(AvGoesOn(t)))
  /\ WF_vars(InFriend(do_friend_connections))
  /\ WF_vars(InFriend(Tick))
  /\ \A e \in {Alice, Bob} :
       /\ WF_vars(InHandshake(Hs!do_net_crypto(e)))
       /\ \A type \in {"CookieRequest", "CookieResponse", "Handshake", "Request"} :
            WF_vars(InHandshake(Hs!Arrives(e, type)))

\* Every handshake with a route ends, established on both sides or killed,
\* whatever order packets come in and whoever starts (HandshakesEnd of
\* CryptoHandshake).
HandshakesEnd == Hs!HandshakesEnd

=============================================================================
