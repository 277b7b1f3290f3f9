-------------------------- MODULE ConnectionTable --------------------------
(***************************************************************************)
(* The crypto_connections array of Net_Crypto (toxcore/net_crypto.c) and   *)
(* the list that finds the connection of an address (ip_port_list): how    *)
(* ids are given out and taken back, and which connections the main loop   *)
(* reaches.  Connection ids count from 1 here, from 0 in the code.         *)
(***************************************************************************)
EXTENDS Integers, Sequences, FiniteSets

CONSTANTS
  Key,        \* the public keys of the peers
  Address,    \* IPv4 addresses with port
  Local,      \* the addresses of the local network (LAN_ip)
  Nothing,    \* no key, or no address
  MaxTries    \* MAX_NUM_SENDPACKET_TRIES, 8

ASSUME TriesAssumption == MaxTries \in Nat \ {0}
ASSUME NothingAssumption == Nothing \notin Key \cup Address
ASSUME PeersAssumption == IsFiniteSet(Key)
ASSUME LocalAssumption == Local \subseteq Address

VARIABLES
  conns,        \* crypto_connections
  ip_port_list  \* [Address -> id], 0 for an address that is not in the list

tableVars == <<conns, ip_port_list>>

\* A cleared entry; its status is CRYPTO_CONN_NO_CONNECTION.
Unused == [status |-> "NoConnection", key |-> Nothing, address |-> Nothing, num_sent |-> 0]

Ids == DOMAIN conns

\* get_crypto_connection does not return 0.
IsUsed(table, id) == id \in DOMAIN table /\ table[id].status # "NoConnection"

IsHalfOpen(id) == IsUsed(conns, id) /\ conns[id].status = "HalfOpen"

Min(S) == CHOOSE x \in S : \A y \in S : x <= y

\* Mutant of FreeIds: entries are not used again.
FreeIds_None == {}

\* create_crypto_connection: the first unused entry, or a new one at the end.
FreeIds == {id \in Ids : ~ IsUsed(conns, id)}

NewId == IF FreeIds = {} THEN Len(conns) + 1 ELSE Min(FreeIds)

Grown == IF FreeIds = {} THEN Append(conns, Unused) ELSE conns

\* wipe_crypto_connection: unused entries at the end are given back.
Trim(table) ==
  SubSeq(table, 1,
    CHOOSE n \in 0 .. Len(table) :
      /\ n > 0 => IsUsed(table, n)
      /\ \A id \in n + 1 .. Len(table) : ~ IsUsed(table, id))

\* crypto_kill of ids: bs_list_remove takes the address of each out of the list
\* if it is there under its id, wipe_crypto_connection clears the entry.
WithoutEntries(ids) ==
  Trim([id \in Ids |-> IF id \in ids THEN Unused ELSE conns[id]])

\* Mutant of WithoutAddresses: the addresses stay in the list.
WithoutAddresses_Kept(ids) == ip_port_list

WithoutAddresses(ids) ==
  [a \in Address |->
     IF \E id \in ids : conns[id].address = a /\ ip_port_list[a] = id
       THEN 0 ELSE ip_port_list[a]]

-----------------------------------------------------------------------------

TableInit ==
  /\ conns = <<>>
  /\ ip_port_list = [a \in Address |-> 0]

\* Mutant of IsUnknown: getcryptconnection_id is not asked.
IsUnknown_Always(key) == TRUE

\* getcryptconnection_id finds no connection.
IsUnknown(key) == \A id \in Ids : IsUsed(conns, id) => conns[id].key # key

\* new_crypto_connection.
new_crypto_connection(key) ==
  /\ IsUnknown(key)
  /\ conns' = [Grown EXCEPT ![NewId] = [@ EXCEPT !.status = "HalfOpen", !.key = key]]
  /\ UNCHANGED ip_port_list

\* It fails after it has got its entry, as accept_crypto_connection may: no TCP
\* connection number is free.
new_crypto_connection_fails(key) ==
  /\ IsUnknown(key)
  /\ conns' = Grown
  /\ UNCHANGED ip_port_list

\* accept_crypto_connection, with the source of the handshake packet, which
\* crypto_connection_add_source takes unless it belongs to another connection.
\* create_send_handshake comes before that, when the connection has neither an
\* address nor a relay, so its first send fails and is not counted.
accept_crypto_connection(key, source) ==
  LET taken == source = Nothing \/ ip_port_list[source] # 0
  IN  /\ IsUnknown(key)
      /\ conns' = [Grown EXCEPT ![NewId] =
           [status |-> "HalfOpen", key |-> key, num_sent |-> 0,
            address |-> IF taken THEN Nothing ELSE source]]
      /\ ip_port_list' = IF taken THEN ip_port_list
                                  ELSE [ip_port_list EXCEPT ![source] = NewId]

\* The handshake completes (handle_data_packet_helper).
Establish(id) ==
  /\ IsHalfOpen(id)
  /\ conns' = [conns EXCEPT ![id].status = "Established", ![id].num_sent = 0]
  /\ UNCHANGED ip_port_list

\* set_direct_ip_port, crypto_connection_add_source: add_ip_port_connection.
\* An address of the local network is kept.
add_ip_port_connection(id, a) ==
  /\ IsUsed(conns, id)
  /\ conns[id].address \notin Local \cup {a}
  /\ ip_port_list[a] = 0
  /\ ip_port_list' = [b \in Address |->
       CASE b = a -> id
         [] b = conns[id].address /\ ip_port_list[b] = id -> 0
         [] OTHER -> ip_port_list[b]]
  /\ conns' = [conns EXCEPT ![id].address = a]

crypto_kill(id) ==
  /\ IsUsed(conns, id)
  /\ conns' = WithoutEntries({id})
  /\ ip_port_list' = WithoutAddresses({id})

\* Mutant of Visited: the loops end one entry early.
Visited_NotLast(table) ==
  {id \in 1 .. Len(table) - 1 : \A j \in 1 .. id : IsUsed(table, j)}

\* The loops of kill_timedout, do_tcp and send_crypto_packets all end at the
\* first unused entry: they return where get_crypto_connection returns 0.
Visited(table) == {id \in DOMAIN table : \A j \in 1 .. id : IsUsed(table, j)}

TimedOut ==
  {id \in Visited(conns) : conns[id].status = "HalfOpen" /\ conns[id].num_sent >= MaxTries}

\* do_net_crypto: kill_timedout, then send_temp_packet for what is left.  due
\* are the connections whose timer has run out and whose send succeeds; a send
\* that fails is not counted.
do_net_crypto(due) ==
  \E left \in {WithoutEntries(TimedOut)} :
    /\ conns' = [id \in DOMAIN left |->
         IF id \in due \cap Visited(left) /\ left[id].status = "HalfOpen"
           THEN [left[id] EXCEPT !.num_sent = @ + 1]
           ELSE left[id]]
    /\ ip_port_list' = WithoutAddresses(TimedOut)

TableNext ==
  \/ \E key \in Key :
       \/ new_crypto_connection(key)
       \/ new_crypto_connection_fails(key)
       \/ \E source \in Address \cup {Nothing} : accept_crypto_connection(key, source)
  \/ \E id \in Ids :
       \/ Establish(id)
       \/ crypto_kill(id)
       \/ \E a \in Address : add_ip_port_connection(id, a)
  \/ \E due \in SUBSET Ids : do_net_crypto(due)

TableSpec == TableInit /\ [][TableNext]_tableVars

\* The connections with an address: send_packet_to gives their cookie requests
\* and handshakes to the socket, so that the send succeeds.
Routed == {id \in Ids : conns[id].address # Nothing}

\* All timers have run out.  Without an address a send needs a relay, of which
\* nothing is assumed.
do_net_crypto_when_due ==
  \E due \in SUBSET Ids : Routed \subseteq due /\ do_net_crypto(due)

\* do_net_crypto is called for ever, and timers run out.
TableFairSpec == TableSpec /\ WF_tableVars(do_net_crypto_when_due)

-----------------------------------------------------------------------------
Entries ==
  [status : {"NoConnection", "HalfOpen", "Established"}, key : Key \cup {Nothing},
   address : Address \cup {Nothing}, num_sent : 0 .. MaxTries]

\* The type invariant.
TableTypeOK ==
  /\ conns \in Seq(Entries)
  /\ ip_port_list \in [Address -> Nat]

\* Two connections never share a peer: a friend is reached through exactly
\* one of them (getcryptconnection_id is asked before an id is given out).
OneConnectionPerKey ==
  \A i, j \in Ids :
    (IsUsed(conns, i) /\ IsUsed(conns, j) /\ conns[i].key = conns[j].key) => i = j

\* An address leads to the connection that has it, and to no other: the ids
\* in ip_port_list do not outlive the connections, although ids are reused.
AddressesLeadHome ==
  \A a \in Address : \A id \in 1 .. Len(conns) + 1 :
    ip_port_list[a] = id <=> IsUsed(conns, id) /\ conns[id].address = a

\* The array does not leak entries: unused ones are reused before it grows, so
\* it never gets longer than the number of peers (create_crypto_connection).
TableIsBounded == Len(conns) <= Cardinality(Key)

\* A peer has one connection, an address leads to it, and entries are reused
\* (new_crypto_connection, add_ip_port_connection, wipe_crypto_connection).
TableIsSound == TableTypeOK /\ OneConnectionPerKey /\ AddressesLeadHome /\ TableIsBounded

HoleBefore(id) == \E j \in 1 .. id - 1 : ~ IsUsed(conns, j)

HasRoute(id) == IsHalfOpen(id) /\ conns[id].address # Nothing

\* A half open connection that has an address ends, or gets an unused entry
\* before it (kill_timedout).  Nothing is said of one without: when no relay
\* takes its packets either, no send is counted and kill_timedout lets it be.
HalfOpenEndsOrIsCutOff ==
  \A id \in 1 .. Cardinality(Key) : HasRoute(id) ~> (~ IsHalfOpen(id) \/ HoleBefore(id))

\* net_crypto.h on MAX_NUM_SENDPACKET_TRIES: "The maximum number of times we
\* try to send the cookie request and handshake before giving up."  So every
\* half open connection with an address, where each try succeeds, is given up or
\* becomes established.
GivesUp == \A id \in 1 .. Cardinality(Key) : HasRoute(id) ~> ~ IsHalfOpen(id)

=============================================================================
