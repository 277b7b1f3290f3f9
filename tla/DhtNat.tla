------------------------------- MODULE DhtNat --------------------------------
(***************************************************************************)
(* DHT.c: hole punching.  The nodes in the list of a friend tell where     *)
(* they see him (ret_ip_port); while he has not answered himself, requests *)
(* to punch (NAT pings) are routed through them.  When one is answered and *)
(* the friend is asking too, ports near the ones the nodes see are pinged. *)
(*                                                                         *)
(* One friend; NAT pings are lost, repeated and late.  Ages are counted in *)
(* steps of time, up to OldNat for whatever is older.                      *)
(***************************************************************************)
EXTENDS Integers, Sequences, FiniteSets
LOCAL INSTANCE SequencesExt

CONSTANTS
  NatClients,    \* MAX_FRIEND_CLIENTS
  Report,        \* where nodes see the friend: records with family, ip and port
  PortWord,      \* number of ports
  FirstPort,     \* where the search of all ports begins
  PunchPorts,    \* MAX_PUNCHING_PORTS
  NormalTries,   \* MAX_NORMAL_PUNCHING_TRIES
  PunchInterval, \* PUNCH_INTERVAL
  ReportTimeout, \* BAD_NODE_TIMEOUT
  OldNat,        \* bound of ages
  MaxNatCalls    \* bound on what comes in

ASSUME NatAssumption ==
  /\ NatClients \in Nat \ {0, 1} /\ PortWord \in Nat \ {0} /\ FirstPort \in Nat
  /\ \A r \in Report : r.family \in {4, 6} /\ r.port \in 0 .. PortWord - 1
  /\ PunchPorts \in Nat \ {0} /\ NormalTries \in Nat
  /\ PunchInterval \in Nat /\ ReportTimeout \in Nat /\ MaxNatCalls \in Nat
  /\ OldNat \in Nat /\ OldNat > 2 * PunchInterval /\ OldNat >= ReportTimeout

VARIABLES
  nat,       \* the friend's NAT record
  reports,   \* what each node of his list has told: of each family an address and its age
  direct,    \* age of his own last answer
  natSent,   \* ids of the requests sent
  natSeen,   \* history: ids whose answers were accepted
  punched,   \* history: how often holes were punched
  basis,     \* history: ports of the last punch, and where punching_index was when they changed
  guessed,   \* history: ports tried since
  natCalls

natVars == <<nat, reports, direct, natSent, natSeen, punched, basis, guessed, natCalls>>

NoReport == [addr |-> [family |-> 0, ip |-> 0, port |-> 0], age |-> OldNat]

DhtNatInit ==
  /\ nat = [hole_punching |-> FALSE, index |-> 0, index2 |-> 0, tries |-> 0, id |-> 1,
            sentAge |-> OldNat, punchAge |-> OldNat, recvAge |-> OldNat]
  /\ reports = [c \in 1 .. NatClients |-> [f \in {4, 6} |-> NoReport]]
  /\ direct = OldNat
  /\ natSent = {} /\ natSeen = {} /\ punched = 0
  /\ basis = [ip |-> 0, ports |-> << >>, from |-> 0] /\ guessed = {}
  /\ natCalls = 0

NatCall == natCalls < MaxNatCalls /\ natCalls' = natCalls + 1

-----------------------------------------------------------------------------
(* Addresses and ports.                                                    *)

IsReported(c, f) == reports[c][f].addr # NoReport.addr /\ reports[c][f].age < ReportTimeout

\* The i-th of a set of numbers.
Nth(S, i) == CHOOSE j \in S : Cardinality({k \in S : k <= j}) = i

Reported(f) ==
  LET good == {c \in 1 .. NatClients : IsReported(c, f)}
  IN  [i \in 1 .. Cardinality(good) |-> reports[Nth(good, i)][f].addr]

\* friend_iplist: nothing when he has answered himself; the longer list.
friend_iplist ==
  IF direct < ReportTimeout THEN << >>
  ELSE IF Len(Reported(6)) >= Len(Reported(4)) THEN Reported(6)
  ELSE Reported(4)

\* The nodes a request goes to.
route_tofriend ==
  IF Len(friend_iplist) < NatClients \div 4 THEN {}
  ELSE {c \in 1 .. NatClients : \E f \in {4, 6} : IsReported(c, f)}

\* The first address that is seen by enough nodes; 0 for none.
NAT_commonip(list, min) ==
  LET i == SelectInSeq(list, LAMBDA r : Cardinality({j \in DOMAIN list : list[j].ip = r.ip}) >= min)
  IN  IF i = 0 THEN 0 ELSE list[i].ip

NAT_getports(list, ip) ==
  LET same == {j \in DOMAIN list : list[j].ip = ip}
  IN  [i \in 1 .. Cardinality(same) |-> list[Nth(same, i)].port]

\* Mutant of Guess: the distance grows before all ports have had both sides.
Guess_Variant(ports, i) ==
  LET port == ports[((i \div 2) % Len(ports)) + 1]
      delta == i \div Len(ports)
  IN  IF i % 2 = 1 THEN (port - delta) % PortWord ELSE (port + delta) % PortWord

\* The ports around those seen, by turns above and below and ever farther.
Guess(ports, i) ==
  LET port == ports[((i \div 2) % Len(ports)) + 1]
      delta == i \div (2 * Len(ports))
  IN  IF i % 2 = 1 THEN (port - delta) % PortWord ELSE (port + delta) % PortWord

AllSame(ports) == \A i \in DOMAIN ports : ports[i] = ports[1]

Window(from) == from .. from + PunchPorts - 1

Searched(n) == IF n.tries > NormalTries THEN {(FirstPort + i) % PortWord : i \in Window(n.index2)} ELSE {}

\* What punch_holes pings, and what it leaves of the friend's record.
Punches(ports) ==
  Searched(nat) \cup
  IF AllSame(ports) THEN {ports[1]} ELSE {Guess(ports, i) : i \in Window(nat.index)}

punch_holes(n, ports) ==
  [n EXCEPT !.index = IF AllSame(ports) THEN @ ELSE @ + PunchPorts,
            !.index2 = IF n.tries > NormalTries THEN @ + PunchPorts - PunchPorts \div 2 ELSE @,
            !.tries = @ + 1]

-----------------------------------------------------------------------------
(* Actions.                                                                *)

\* A node of the friend's list answers and names the friend.
returnedip_ports(c, r) ==
  /\ NatCall
  /\ reports' = [reports EXCEPT ![c][r.family] = [addr |-> r, age |-> 0]]
  /\ UNCHANGED <<nat, direct, natSent, natSeen, punched, basis, guessed>>

\* Another node takes the place of c in the list.
ClientReplaced(c) ==
  /\ NatCall
  /\ reports' = [reports EXCEPT ![c] = [f \in {4, 6} |-> NoReport]]
  /\ UNCHANGED <<nat, direct, natSent, natSeen, punched, basis, guessed>>

FriendAnswers ==
  /\ NatCall
  /\ direct' = 0
  /\ UNCHANGED <<nat, reports, natSent, natSeen, punched, basis, guessed>>

\* A request of the friend; the answer that is routed to him is not followed.
handle_request ==
  /\ NatCall
  /\ nat' = [nat EXCEPT !.recvAge = 0]
  /\ UNCHANGED <<reports, direct, natSent, natSeen, punched, basis, guessed>>

\* Mutant of handle_response: the id is not renewed.
handle_response_Variant(id) ==
  /\ NatCall
  /\ id \in natSent /\ id = nat.id
  /\ nat' = [nat EXCEPT !.hole_punching = TRUE]
  /\ natSeen' = natSeen \cup {id}
  /\ UNCHANGED <<reports, direct, natSent, punched, basis, guessed>>

handle_response(id) ==
  /\ NatCall
  /\ id \in natSent /\ id = nat.id
  /\ nat' = [nat EXCEPT !.id = @ + 1, !.hole_punching = TRUE]
  /\ natSeen' = natSeen \cup {id}
  /\ UNCHANGED <<reports, direct, natSent, punched, basis, guessed>>

handle_NATping == handle_request \/ \E id \in natSent : handle_response(id)

\* do_NAT: a request when the last one is old enough, then holes.
do_NAT ==
  LET list == friend_iplist
      asks == nat.sentAge > PunchInterval
      ip == NAT_commonip(list, NatClients \div 2)
      ports == NAT_getports(list, ip)
      punch == /\ nat.hole_punching /\ nat.punchAge > PunchInterval /\ nat.recvAge <= 2 * PunchInterval
               /\ ip # 0
      asked == [nat EXCEPT !.sentAge = IF asks THEN 0 ELSE @]
      again == basis.ip = ip /\ basis.ports = ports
  IN  /\ Len(list) >= NatClients \div 2
      /\ asks \/ punch
      /\ natSent' = IF asks /\ route_tofriend # {} THEN natSent \cup {nat.id} ELSE natSent
      /\ nat' = IF punch THEN [punch_holes(asked, ports) EXCEPT !.punchAge = 0, !.hole_punching = FALSE]
                ELSE asked
      /\ punched' = IF punch THEN punched + 1 ELSE punched
      /\ basis' = IF punch /\ ~again THEN [ip |-> ip, ports |-> ports, from |-> nat.index] ELSE basis
      /\ guessed' = IF ~punch THEN guessed ELSE IF again THEN guessed \cup Punches(ports) ELSE Punches(ports)
      /\ UNCHANGED <<reports, direct, natSeen, natCalls>>

Aged(age) == IF age < OldNat THEN age + 1 ELSE OldNat

NatTimePasses ==
  /\ nat' = [nat EXCEPT !.sentAge = Aged(@), !.punchAge = Aged(@), !.recvAge = Aged(@)]
  /\ reports' = [c \in DOMAIN reports |-> [f \in {4, 6} |-> [reports[c][f] EXCEPT !.age = Aged(@)]]]
  /\ direct' = Aged(direct)
  /\ UNCHANGED <<natSent, natSeen, punched, basis, guessed, natCalls>>

DhtNatNext ==
  \/ \E c \in 1 .. NatClients : ClientReplaced(c) \/ \E r \in Report : returnedip_ports(c, r)
  \/ FriendAnswers
  \/ handle_NATping
  \/ do_NAT
  \/ NatTimePasses

DhtNatSpec == DhtNatInit /\ [][DhtNatNext]_natVars

-----------------------------------------------------------------------------
(* Properties.                                                             *)

\* Holes are punched no more often than the friend has answered requests of
\* their own: an answer that is repeated or late punches nothing
\* (handle_NATping, do_NAT).
PunchesAreAnswered == punched <= Cardinality(natSeen)

\* As long as the nodes see the friend at the same ports, the ports around each
\* of them are tried outwards, on both sides and with no distance left out,
\* beginning where punching_index stood when they were first seen (punch_holes).
\* That is at the ports themselves for the first ones only: punching_index is not
\* reset when the ports change, and what lies nearer to the new ones than the
\* search has come so far is not promised, and not tried.
PortsAreTriedInTurn ==
  LET n == Len(basis.ports)
  IN  (n > 0 /\ ~AllSame(basis.ports)) =>
        \A i \in 1 .. n, k \in 0 .. nat.index :
          (basis.from <= 2 * n * k /\ 2 * n * (k + 1) <= nat.index) =>
            {(basis.ports[i] + k) % PortWord, (basis.ports[i] - k) % PortWord} \subseteq guessed

\* Hole punching does what it was asked to, and only then (do_NAT, punch_holes).
HolePunchingIsSound == PunchesAreAnswered /\ PortsAreTriedInTurn

=============================================================================
