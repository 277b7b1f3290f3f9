------------------------------ MODULE GroupRing ------------------------------
(***************************************************************************)
(* The ring a group chat is (toxcore/group.c).  Public keys are read as    *)
(* numbers on a circle.  A member keeps in closest_peers the peers it      *)
(* connects to, half of the places for the keys below its own and half for *)
(* the keys above; whatever it takes from one connection it passes on to   *)
(* the others, a lossy packet to only one closest peer on either side.     *)
(* The machine at the end floods one packet through a group each of whose  *)
(* members has come to know the others in an order of its own.             *)
(***************************************************************************)
EXTENDS Integers, FiniteSets
LOCAL INSTANCE SequencesExt

CONSTANTS GroupRingSize,   \* 2^64 in the code: the first 8 bytes of a key
          DesiredClose,    \* DESIRED_CLOSE_CONNECTIONS
          GroupMember,     \* the keys of the members
          NoMember,        \* an empty place
          MaxLapses        \* bound on how often a packet is not passed on

ASSUME GroupRingAssumption ==
    /\ GroupRingSize \in Nat \ {0}
    /\ DesiredClose \in Nat \ {0} /\ DesiredClose % 2 = 0
    /\ GroupMember \subseteq 0 .. (GroupRingSize - 1)
    /\ NoMember \notin GroupMember /\ MaxLapses \in Nat
    \* A key right behind another would have the distance ~0, which
    \* send_lossy_all_close takes for "nobody yet".
    /\ \A a, b \in GroupMember : (a - b) % GroupRingSize # GroupRingSize - 1

Places == 1 .. DesiredClose

calculate_comp_value(a, b) == (a - b) % GroupRingSize

\* The lower half of the places looks down the ring, the upper half up.
CompAt(self, i, pk) == IF i <= DesiredClose \div 2
                       THEN calculate_comp_value(self, pk)
                       ELSE calculate_comp_value(pk, self)

\* The places whose peer is farther off than pk would be there.
Farther(self, c, pk) ==
    {i \in Places : CompAt(self, i, c[i]) > CompAt(self, i, pk)}

\* closest_peers of self once pk has been offered a place: none if it has one,
\* the first empty one, or that of the farthest peer that is farther than pk,
\* which is then offered a place again.
add_to_closest(self, closest, peer) ==
    LET Worst(c, pk) ==
            CHOOSE i \in Farther(self, c, pk) : \A j \in Farther(self, c, pk) :
                \/ CompAt(self, j, c[j]) < CompAt(self, i, c[i])
                \/ CompAt(self, j, c[j]) = CompAt(self, i, c[i]) /\ i <= j
        Empty(c) == {i \in Places : c[i] = NoMember}
        Settle[c \in [Places -> GroupMember \cup {NoMember}], pk \in GroupMember] ==
            IF \E i \in Places : c[i] = pk THEN c
            ELSE IF Empty(c) # {}
            THEN [c EXCEPT ![CHOOSE i \in Empty(c) : \A j \in Empty(c) : i <= j] = pk]
            ELSE IF Farther(self, c, pk) = {} THEN c
            ELSE Settle[[c EXCEPT ![Worst(c, pk)] = pk], c[Worst(c, pk)]]
    IN IF peer = self THEN closest ELSE Settle[closest, peer]

Closest(c) == {c[i] : i \in Places} \ {NoMember}

\* The member of S nearest to self below, and above.
Below(self, S) == CHOOSE p \in S : \A q \in S :
                      calculate_comp_value(self, p) <= calculate_comp_value(self, q)
Above(self, S) == CHOOSE p \in S : \A q \in S :
                      calculate_comp_value(p, self) <= calculate_comp_value(q, self)

\* Mutant of send_lossy_all_close: the second search looks the same way as the first.
send_lossy_all_close_Variant(self, online, closest, receiver) ==
    LET near == (online \cap closest) \ {receiver}
    IN ((online \ closest) \ {receiver}) \cup (IF near = {} THEN {} ELSE {Below(self, near)})

\* Who gets a lossy packet: every connection that is not a closest peer, and
\* the nearest closest peer on either side; never the one it came from.
send_lossy_all_close(self, online, closest, receiver) ==
    LET near == (online \cap closest) \ {receiver}
    IN ((online \ closest) \ {receiver})
       \cup (IF near = {} THEN {} ELSE {Below(self, near), Above(self, near)})

\* Who gets a message: every connection.
send_message_all_close(online) == online
-----------------------------------------------------------------------------
(* One packet in a group.  `ring` is whom everybody has in closest_peers,   *)
(* `word` who sent the packet and how, `carried` the copies under way,      *)
(* `reached` who has taken it, `lapses` what kept it from going on: <<m>>   *)
(* when m did not know the sender or did not pass it on, <<m, p>> when m    *)
(* could not send it to p, or it was lost between them.                     *)

VARIABLES ring, word, carried, reached, lapses

groupRingVars == <<ring, word, carried, reached, lapses>>

\* Whom self may have in closest_peers once it has heard of all the others.
Introduced(self, others) ==
    {Closest(FoldLeft(LAMBDA c, pk : add_to_closest(self, c, pk),
                      [i \in Places |-> NoMember], order)) : order \in SetToSeqs(others)}

\* Both must hold a connection for a packet to be taken.
Online(self) == {p \in ring[self] : self \in ring[p]}

Receivers(self, lossy, from) ==
    IF lossy THEN send_lossy_all_close(self, Online(self), ring[self], from)
    ELSE send_message_all_close(Online(self))

GroupRingInit ==
    /\ \E M \in {M \in SUBSET GroupMember : Cardinality(M) > 1} :
       \E may \in {UNION {{m} \X Introduced(m, M \ {m}) : m \in M}} :
         ring \in {r \in [M -> {x[2] : x \in may}] : \A m \in M : <<m, r[m]>> \in may}
    /\ word = [from |-> NoMember, lossy |-> FALSE]
    /\ carried = {} /\ reached = {} /\ lapses = {}

Lapsed(new) ==
    /\ lapses' = lapses \cup new
    /\ Cardinality(lapses') <= MaxLapses

\* self sends to the peers in to, and not every packet gets through.  The
\* copies in left stay under way; one for somebody who has taken the packet
\* changes nothing there and is not kept.
SendTo(self, to, left) ==
    \E failed \in SUBSET to :
        /\ Lapsed({<<self, p>> : p \in failed})
        /\ carried' = left \cup {<<self, p>> : p \in (to \ failed) \ reached'}

\* group_message_send, or send_group_lossy_packet.  A lossy packet that comes back
\* is refused by its number; a message is taken by its own sender too.
Originate(self, lossy) ==
    /\ word.from = NoMember
    /\ word' = [from |-> self, lossy |-> lossy]
    /\ reached' = IF lossy THEN {self} ELSE {}
    /\ SendTo(self, Receivers(self, lossy, NoMember), {})
    /\ UNCHANGED ring

\* handle_message_packet_group and handle_lossy: what is new is taken and passed
\* on; or taken by a handler that fails or that nobody has set; or refused, since
\* self does not know who sent it (yet).
Relay(from, self) ==
    LET left == {c \in carried : c[2] # self}
    IN  /\ <<from, self>> \in carried
        /\ \/ /\ reached' = reached \cup {self}
              /\ SendTo(self, Receivers(self, word.lossy, from), left)
           \/ /\ reached' = reached \cup {self} /\ carried' = left
              /\ Lapsed({<<self>>})
           \/ /\ reached' = reached /\ carried' = carried \ {<<from, self>>}
              /\ Lapsed({<<self>>})
        /\ UNCHANGED <<ring, word>>

GroupRingNext ==
    \/ \E self \in DOMAIN ring, lossy \in BOOLEAN : Originate(self, lossy)
    \/ \E c \in carried : Relay(c[1], c[2])

GroupRingSpec == GroupRingInit /\ [][GroupRingNext]_groupRingVars
-----------------------------------------------------------------------------
(* What is sent to the group reaches everybody in it, whatever the orders   *)
(* in which the members came to know each other: the half of closest_peers  *)
(* that looks up and the half that looks down make links that both ends     *)
(* hold, and following them leads round the whole ring both ways.  So in a  *)
(* group of three or more it still does after one send that failed, and     *)
(* after one member who did not pass it on, save perhaps that member        *)
(* itself (add_to_closest, send_lossy_all_close, handle_lossy).             *)
WordGoesRound ==
    (/\ word.from # NoMember /\ carried = {}
     /\ Cardinality(lapses) <= 1 /\ (lapses = {} \/ Cardinality(DOMAIN ring) > 2))
      => \A m \in DOMAIN ring : m \in reached \cup {word.from} \/ <<m>> \in lapses
==============================================================================
