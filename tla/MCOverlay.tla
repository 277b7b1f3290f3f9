------------------------------ MODULE MCOverlay ------------------------------
(***************************************************************************)
(* Nodes that pass packets on for others, in one instance for TLC: a TCP   *)
(* relay with its clients and the sorted list it keeps their keys in, the  *)
(* relays a node keeps for its peers, and a group chat with the ring its   *)
(* members form and the numbers on their messages.  They share no state,   *)
(* so that every behaviour moves one of them and leaves the others where   *)
(* they start.                                                             *)
(***************************************************************************)
EXTENDS TcpRelay, SortedList, TcpConnections, GroupChat, TLC

CONSTANTS c1, c2,     \* the first clients of the relay
          RingClose   \* DESIRED_CLOSE_CONNECTIONS of the ring, more than the group needs

VARIABLE part   \* the part that moves

Ring == INSTANCE GroupRing WITH DesiredClose <- RingClose

\* The relay has accepted two clients, and nothing is on its way.
RelayStart ==
  LET first == <<c1, c2>>
      Conn(k) == [NoAccepted EXCEPT !.sock = k, !.pk = first[k], !.ident = k]
      Sock(k) == [NoSocket EXCEPT !.open = TRUE, !.owner = first[k], !.ready = TRUE]
  IN  /\ srv = [acc |-> [i \in AccIndex |-> IF i < 2 THEN Conn(i + 1) ELSE NoAccepted],
                size |-> 2, counter |-> 2,
                sock |-> [k \in Socket |-> IF k <= 2 THEN Sock(k) ELSE NoSocket]]
      /\ incoming = [q \in QueueIndex |-> 0]
      /\ unconfirmed = [q \in QueueIndex |-> 0]
      /\ arrivals = [in |-> 2, un |-> 2]
      /\ cli = [c \in RelayClient |-> [sock |-> CASE c = c1 -> 1 [] c = c2 -> 2 [] OTHER -> 0,
                                        links |-> [i \in LinkId |-> NoClientLink]]]
      /\ onionWay = {} /\ received = << >> /\ astray = {} /\ relayCalls = 0

OverlayInit ==
  /\ part \in {"relay", "list", "relays", "ring", "numbers", "group"}
  /\ RelayStart /\ SortedListInit /\ TcpConnInit
  /\ Ring!GroupRingInit /\ GroupNumbersInit /\ GroupChatInit
  /\ part # "ring" => DOMAIN ring = {GroupSelf} \cup GroupFriend
  /\ part # "numbers" => stream = "message"

Relays == <<tcpRelayVars, listVars, tcpConnVars>>

Groups == <<groupRingVars, groupNumbersVars, groupChatVars>>

InRelay(A) == part = "relay" /\ A /\ UNCHANGED <<part, listVars, tcpConnVars, Groups>>
InList(A) == part = "list" /\ A /\ UNCHANGED <<part, tcpRelayVars, tcpConnVars, Groups>>
InRelays(A) == part = "relays" /\ A /\ UNCHANGED <<part, tcpRelayVars, listVars, Groups>>
InRing(A) == part = "ring" /\ A /\ UNCHANGED <<part, Relays, groupNumbersVars, groupChatVars>>
InNumbers(A) == part = "numbers" /\ A /\ UNCHANGED <<part, Relays, groupRingVars, groupChatVars>>
InGroup(A) == part = "group" /\ A /\ UNCHANGED <<part, Relays, groupRingVars, groupNumbersVars>>

OverlayNext ==
  \/ InRelay(TcpRelayNext) \/ InList(SortedListNext) \/ InRelays(TcpConnNext)
  \/ InRing(Ring!GroupRingNext) \/ InNumbers(GroupNumbersNext) \/ InGroup(GroupChatNext)

OverlaySpec == OverlayInit /\ [][OverlayNext]_<<part, Relays, Groups>>

Alike == Permutations(TcpPeer) \cup Permutations(TcpNode)

\* Data of two owners.
OverlayIds == [x \in Datum |-> x % 2]

=============================================================================
