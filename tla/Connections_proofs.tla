------------------------- MODULE Connections_proofs -------------------------
(***************************************************************************)
(* The table of connections is sound for any number of peers, addresses    *)
(* and tries (TableStaysSound), and its array is used by any number of     *)
(* toxav threads without a stale pointer, for every number of packets and  *)
(* changes and for every route (PointersStayValid).                        *)
(*                                                                         *)
(* TableIsSound is not inductive.  TableInv adds that a used entry has a   *)
(* key (or the bound would not follow from one connection for each key),   *)
(* that an unused one is wholly cleared (new_crypto_connection leaves the  *)
(* address as it finds it), and that ip_port_list never names an id beyond *)
(* the end of the array, which is what keeps an old address from leading   *)
(* to whoever gets an id that was given back and is given out again.       *)
(*                                                                         *)
(* PointerStaysValid is inductive together with what makes the counter     *)
(* work: it is the number of threads that use a pointer (Counted), and     *)
(* while the tox thread changes the array it owns connections_mutex and    *)
(* the counter is 0 (Excluded).  Bounded keeps the bound on the changes.   *)
(*                                                                         *)
(* Friend connections, above, are sound for every set of DHT keys, both    *)
(* timeouts and any number of holders: FriendLayersAgree,                  *)
(* FriendCallbacksAlternate and FriendWipedForLastHolder.  The three       *)
(* invariants are inductive together with one more fact, Held: lock_count  *)
(* is one less than the number of holders, and net_crypto has no           *)
(* connection for a friend connection that does not exist (so that         *)
(* GoOnline cannot bring one to life).                                     *)
(*                                                                         *)
(* The sorted list that finds a connection by its address finds what was   *)
(* added to it, for all data and any number of calls:                      *)
(* ListsFindWhatWasAdded.  The invariant, ListInv, is about the loop of    *)
(* find as much as about the list: as long as the search moves by more     *)
(* than one place it has twice that distance of room on either side, and   *)
(* once it moves by one it has come from the neighbour, so that where it   *)
(* turns round there is nothing between the two (LoopInv).                 *)
(*                                                                         *)
(* The packets of a TCP connection to a relay reach the reader whole and   *)
(* in order, for all sizes of packets and every partial send:              *)
(* TcpStreamStaysInOrder.  StreamInv says of all that is ahead of the      *)
(* reader, in the stream, pending and queued, that it can be read from     *)
(* where the reader is, be it before or behind a length (Readable); a      *)
(* write leaves it as it is or adds a whole packet at its end.             *)
(*                                                                         *)
(* The bytes of a request packet mean to handle_request_packet what they   *)
(* mean to generate_request_packet, for every set of missing packets, all  *)
(* windows and every room in the packet: RequestsAreUnderstood.  CodecInv  *)
(* says of the bytes written, and of those not yet read, that they tell    *)
(* what is missing of the packets they speak of, one stretch of packets    *)
(* for each byte (Lists), and of the loops that they are inside the        *)
(* stretch of the byte at hand.                                            *)
(***************************************************************************)
EXTENDS ConnectionTable, ConnectionLocks, FriendConnection, SortedList, TcpStream, RequestCodec,
        FiniteSetTheorems, SequenceTheorems, WellFoundedInduction, TLAPS

-----------------------------------------------------------------------------
(* The table.                                                              *)

Used(table) == {id \in DOMAIN table : table[id].status # "NoConnection"}

\* Each entry is in use, with a key, or cleared.
Tidy(table) ==
  \A id \in DOMAIN table : IF id \in Used(table) THEN table[id].key \in Key ELSE table[id] = Unused

OnePerKey(table) ==
  \A i, j \in Used(table) : table[i].key = table[j].key => i = j

\* The addresses that list knows, and those the connections have.
Home(table, list) ==
  /\ \A a \in Address : list[a] # 0 => list[a] \in Used(table) /\ table[list[a]].address = a
  /\ \A id \in Used(table) : table[id].address \in Address => list[table[id].address] = id

\* What holds of the two parts of the state.
Sound(table, list) ==
  /\ table \in Seq(Entries) /\ list \in [Address -> Nat]
  /\ Tidy(table) /\ OnePerKey(table) /\ Home(table, list)
  /\ Len(table) <= Cardinality(Key)

TableInv == Sound(conns, ip_port_list)

-----------------------------------------------------------------------------

LEMMA UnusedType == Unused \in Entries /\ Unused.status = "NoConnection" /\ Unused.address = Nothing
  BY TriesAssumption DEF Unused, Entries

LEMMA UsedIs ==
  ASSUME NEW table, NEW id
  PROVE  IsUsed(table, id) <=> id \in Used(table)
  BY DEF IsUsed, Used

LEMMA InvariantIsRight == TableInv => TableIsSound
<1> SUFFICES ASSUME TableInv PROVE TableIsSound
  OBVIOUS
<1>1. TableTypeOK
  BY DEF TableInv, Sound, TableTypeOK
<1>2. OneConnectionPerKey
  BY UsedIs DEF TableInv, Sound, OnePerKey, OneConnectionPerKey
<1>3. AddressesLeadHome
  <2> SUFFICES ASSUME NEW a \in Address, NEW id \in 1 .. Len(conns) + 1
               PROVE  ip_port_list[a] = id <=> IsUsed(conns, id) /\ conns[id].address = a
    BY DEF AddressesLeadHome
  <2>1. id # 0
    OBVIOUS
  <2> QED
    BY <2>1, UsedIs DEF TableInv, Sound, Home
<1>4. TableIsBounded
  BY DEF TableInv, Sound, TableIsBounded
<1> QED
  BY <1>1, <1>2, <1>3, <1>4 DEF TableIsSound

LEMMA InitTable == TableInit => TableInv
<1> SUFFICES ASSUME TableInit PROVE TableInv
  OBVIOUS
<1>1. conns = << >> /\ conns \in Seq(Entries) /\ DOMAIN conns = {} /\ Len(conns) = 0
  BY DEF TableInit
<1>2. Used(conns) = {}
  BY <1>1 DEF Used
<1>3. ip_port_list \in [Address -> Nat] /\ \A a \in Address : ip_port_list[a] = 0
  BY DEF TableInit
<1>4. 0 <= Cardinality(Key)
  BY PeersAssumption, FS_CardinalityType
<1> QED
  BY <1>1, <1>2, <1>3, <1>4 DEF TableInv, Sound, Tidy, OnePerKey, Home

-----------------------------------------------------------------------------
(* Giving out an id.                                                       *)

\* A set of numbers has a least element.
LEMMA LeastNumber ==
  ASSUME NEW S, S \subseteq Nat, S # {}
  PROVE  \E n \in S : \A m \in S : n <= m
<1>1. PICK x \in S : \A y \in S : ~ (<<y, x>> \in OpToRel(<, Nat))
  BY NatLessThanWellFounded, WFMin
<1>2. \A y \in S : ~ (y < x)
  BY <1>1 DEF OpToRel
<1> QED
  BY <1>2

\* A full table whose connections have other keys than key has room for it.
LEMMA RoomForOneMore ==
  ASSUME NEW table, table \in Seq(Entries), Tidy(table), OnePerKey(table),
         DOMAIN table \subseteq Used(table),
         NEW key \in Key, \A id \in Used(table) : table[id].key # key
  PROVE  Len(table) + 1 <= Cardinality(Key)
<1> DEFINE S == Key \ {key}
           f == [id \in 1 .. Len(table) |-> table[id].key]
<1>1. Len(table) \in Nat /\ DOMAIN table = 1 .. Len(table)
  OBVIOUS
<1>2. IsFiniteSet(S) /\ Cardinality(S) = Cardinality(Key) - 1 /\ Cardinality(Key) \in Nat
  BY PeersAssumption, FS_RemoveElement, FS_CardinalityType
<1>3. IsFiniteSet(1 .. Len(table)) /\ Cardinality(1 .. Len(table)) = Len(table)
  <2>1. /\ IsFiniteSet(1 .. Len(table))
        /\ Cardinality(1 .. Len(table)) = IF 1 > Len(table) THEN 0 ELSE Len(table) - 1 + 1
    BY <1>1, FS_Interval
  <2> QED
    BY <1>1, <2>1
<1>4. f \in [1 .. Len(table) -> S]
  BY <1>1 DEF Tidy
<1>5. f \in Injection(1 .. Len(table), S)
  <2>1. \A i, j \in 1 .. Len(table) : f[i] = f[j] => i = j
    BY <1>1 DEF OnePerKey
  <2> QED
    BY <1>4, <2>1 DEF Injection, IsInjective
<1>6. Cardinality(1 .. Len(table)) <= Cardinality(S)
  BY <1>2, <1>5, FS_Injection DEF ExistsInjection
<1> QED
  BY <1>1, <1>2, <1>3, <1>6

\* create_crypto_connection gives out an unused entry, which is wholly cleared.
LEMMA GrownIsSound ==
  ASSUME TableInv, NEW key \in Key, IsUnknown(key)
  PROVE  /\ Sound(Grown, ip_port_list)
         /\ NewId \in DOMAIN Grown /\ NewId \notin Used(Grown) /\ Grown[NewId] = Unused
         /\ \A id \in Used(Grown) : Grown[id].key # key
<1>1. /\ conns \in Seq(Entries) /\ Len(conns) \in Nat /\ DOMAIN conns = 1 .. Len(conns)
      /\ ip_port_list \in [Address -> Nat] /\ Tidy(conns) /\ OnePerKey(conns)
      /\ Home(conns, ip_port_list) /\ Len(conns) <= Cardinality(Key)
  BY DEF TableInv, Sound
<1>2. \A id \in Used(conns) : conns[id].key # key
  BY UsedIs DEF IsUnknown, Ids, Used
<1>3. CASE FreeIds = {}
  <2>1. DOMAIN conns \subseteq Used(conns)
    BY <1>3, UsedIs DEF FreeIds, Ids
  <2>2. Len(conns) + 1 <= Cardinality(Key)
    BY <1>1, <1>2, <2>1, RoomForOneMore
  <2>3. Grown = Append(conns, Unused) /\ NewId = Len(conns) + 1
    BY <1>3 DEF Grown, NewId
  <2>4. PICK t : t = Append(conns, Unused)
    OBVIOUS
  <2>5. /\ t \in Seq(Entries) /\ Len(t) = Len(conns) + 1 /\ DOMAIN t = 1 .. Len(conns) + 1
        /\ t[Len(conns) + 1] = Unused /\ \A id \in DOMAIN conns : t[id] = conns[id]
    BY <1>1, <2>4, UnusedType
  <2>6. DOMAIN t = DOMAIN conns \cup {Len(conns) + 1} /\ Len(conns) + 1 \notin DOMAIN conns
    BY <1>1, <2>5
  <2>7. Used(t) = Used(conns)
    BY <2>5, <2>6, UnusedType DEF Used
  <2>8. Used(conns) \subseteq DOMAIN conns
    BY DEF Used
  <2>9. Tidy(t) /\ OnePerKey(t) /\ Home(t, ip_port_list)
    BY <1>1, <2>5, <2>6, <2>7, <2>8 DEF Tidy, OnePerKey, Home
  <2>10. Sound(t, ip_port_list)
    BY <1>1, <2>2, <2>5, <2>9 DEF Sound
  <2> QED
    BY <1>2, <2>3, <2>4, <2>5, <2>6, <2>7, <2>8, <2>10
<1>4. CASE FreeIds # {}
  <2>1. FreeIds \subseteq Nat /\ FreeIds \subseteq DOMAIN conns
    BY <1>1 DEF FreeIds, Ids
  <2>2. \E x \in FreeIds : \A y \in FreeIds : x <= y
    BY <1>4, <2>1, LeastNumber
  <2>3. Min(FreeIds) \in FreeIds
    BY <2>2 DEF Min
  <2>4. Grown = conns /\ NewId = Min(FreeIds)
    BY <1>4 DEF Grown, NewId
  <2>5. NewId \in DOMAIN conns /\ NewId \notin Used(conns)
    BY <2>1, <2>3, <2>4, UsedIs DEF FreeIds
  <2>6. conns[NewId] = Unused
    BY <1>1, <2>5 DEF Tidy
  <2> QED
    BY <1>2, <2>4, <2>5, <2>6 DEF TableInv
<1> QED
  BY <1>3, <1>4

\* A new connection takes entry n; list2 has its address, if it has one.
LEMMA EntryTaken ==
  ASSUME NEW table, NEW list, NEW list2, Sound(table, list),
         NEW n \in DOMAIN table, n \notin Used(table),
         NEW e \in Entries, e.status # "NoConnection", e.key \in Key,
         \A id \in Used(table) : table[id].key # e.key,
         \/ e.address = Nothing /\ list2 = list
         \/ e.address \in Address /\ list[e.address] = 0 /\ list2 = [list EXCEPT ![e.address] = n]
  PROVE  Sound([table EXCEPT ![n] = e], list2)
<1>1. /\ table \in Seq(Entries) /\ Len(table) \in Nat /\ DOMAIN table = 1 .. Len(table)
      /\ list \in [Address -> Nat] /\ Tidy(table) /\ OnePerKey(table) /\ Home(table, list)
      /\ Len(table) <= Cardinality(Key)
  BY DEF Sound
<1>2. PICK t : t = [table EXCEPT ![n] = e]
  OBVIOUS
<1>3. /\ t \in Seq(Entries) /\ Len(t) = Len(table) /\ DOMAIN t = DOMAIN table /\ t[n] = e
      /\ \A id \in DOMAIN table : id # n => t[id] = table[id]
  BY <1>1, <1>2
<1>4. Used(t) = Used(table) \cup {n} /\ Used(table) \subseteq DOMAIN table
  BY <1>3 DEF Used
<1>5. Tidy(t)
  BY <1>1, <1>3, <1>4 DEF Tidy
<1>6. OnePerKey(t)
  BY <1>1, <1>3, <1>4 DEF OnePerKey
<1>7. list2 \in [Address -> Nat]
  <2>1. n \in Nat
    BY <1>1
  <2> QED
    BY <1>1, <2>1
<1>8. Home(t, list2)
  <2>1. CASE e.address = Nothing /\ list2 = list
    <3>1. e.address \notin Address
      BY <2>1, NothingAssumption
    <3> QED
      BY <1>1, <1>3, <1>4, <2>1, <3>1 DEF Home
  <2>2. CASE e.address \in Address /\ list[e.address] = 0 /\ list2 = [list EXCEPT ![e.address] = n]
    <3>1. /\ list2[e.address] = n /\ \A b \in Address : b # e.address => list2[b] = list[b]
      BY <1>1, <2>2
    <3>2. 0 \notin DOMAIN table
      BY <1>1
    <3> QED
      BY <1>1, <1>3, <1>4, <2>2, <3>1, <3>2 DEF Home
  <2> QED
    BY <2>1, <2>2
<1> QED
  BY <1>1, <1>2, <1>3, <1>5, <1>6, <1>7, <1>8 DEF Sound

LEMMA NewStep ==
  ASSUME TableInv, NEW key \in Key, new_crypto_connection(key)
  PROVE  TableInv'
<1>1. PICK n : n = NewId
  OBVIOUS
<1>2. PICK t : t = Grown
  OBVIOUS
<1>3. /\ Sound(t, ip_port_list) /\ n \in DOMAIN t /\ n \notin Used(t) /\ t[n] = Unused
      /\ \A id \in Used(t) : t[id].key # key
  BY <1>1, <1>2, GrownIsSound DEF new_crypto_connection
<1>4. PICK e : e = [Unused EXCEPT !.status = "HalfOpen", !.key = key]
  OBVIOUS
<1>5. conns' = [t EXCEPT ![n] = e] /\ ip_port_list' = ip_port_list
  BY <1>1, <1>2, <1>3, <1>4 DEF new_crypto_connection
<1>6. e \in Entries /\ e.status # "NoConnection" /\ e.key = key /\ e.address = Nothing
  <2>1. e = [status |-> "HalfOpen", key |-> key, address |-> Nothing, num_sent |-> 0]
    BY <1>4 DEF Unused
  <2> QED
    BY <2>1, TriesAssumption DEF Entries
<1>7. Sound([t EXCEPT ![n] = e], ip_port_list)
  BY <1>3, <1>6, EntryTaken
<1> QED
  BY <1>5, <1>7 DEF TableInv, Sound, Tidy, OnePerKey, Home, Used, Unused, Entries

LEMMA AcceptStep ==
  ASSUME TableInv, NEW key \in Key, NEW source \in Address \cup {Nothing},
         accept_crypto_connection(key, source)
  PROVE  TableInv'
<1>1. PICK n : n = NewId
  OBVIOUS
<1>2. PICK t : t = Grown
  OBVIOUS
<1>3. /\ Sound(t, ip_port_list) /\ n \in DOMAIN t /\ n \notin Used(t)
      /\ \A id \in Used(t) : t[id].key # key
  BY <1>1, <1>2, GrownIsSound DEF accept_crypto_connection
<1>4. PICK taken : taken = (source = Nothing \/ ip_port_list[source] # 0)
  OBVIOUS
<1>5. PICK e : e = [status |-> "HalfOpen", key |-> key, num_sent |-> 0,
                    address |-> IF taken THEN Nothing ELSE source]
  OBVIOUS
<1>6. /\ conns' = [t EXCEPT ![n] = e]
      /\ ip_port_list' = IF taken THEN ip_port_list ELSE [ip_port_list EXCEPT ![source] = n]
  BY <1>1, <1>2, <1>4, <1>5 DEF accept_crypto_connection
<1>7. e \in Entries /\ e.status # "NoConnection" /\ e.key = key
  BY <1>5, TriesAssumption DEF Entries
<1>8. \/ e.address = Nothing /\ ip_port_list' = ip_port_list
      \/ /\ e.address \in Address /\ ip_port_list[e.address] = 0
         /\ ip_port_list' = [ip_port_list EXCEPT ![e.address] = n]
  BY <1>4, <1>5, <1>6
<1>9. PICK list : list = ip_port_list'
  OBVIOUS
<1>10. Sound([t EXCEPT ![n] = e], list)
  BY <1>3, <1>7, <1>8, <1>9, EntryTaken
<1> QED
  BY <1>6, <1>9, <1>10 DEF TableInv, Sound, Tidy, OnePerKey, Home, Used, Unused, Entries

-----------------------------------------------------------------------------
(* Changing and wiping connections.                                        *)

\* Connections that keep their keys and addresses.
LEMMA SameConnections ==
  ASSUME NEW table, NEW list, Sound(table, list), NEW t, t \in Seq(Entries),
         DOMAIN t = DOMAIN table,
         \A id \in DOMAIN table :
           \/ t[id] = table[id]
           \/ /\ id \in Used(table) /\ t[id].status # "NoConnection"
              /\ t[id].key = table[id].key /\ t[id].address = table[id].address
  PROVE  Sound(t, list)
<1>1. /\ table \in Seq(Entries) /\ list \in [Address -> Nat] /\ Tidy(table) /\ OnePerKey(table)
      /\ Home(table, list) /\ Len(table) <= Cardinality(Key)
  BY DEF Sound
<1>2. Used(t) = Used(table) /\ Used(table) \subseteq DOMAIN table
  BY DEF Used
<1>3. \A id \in Used(t) : t[id].key = table[id].key /\ t[id].address = table[id].address
  BY <1>2
<1>4. Tidy(t) /\ OnePerKey(t)
  BY <1>1, <1>2, <1>3 DEF Tidy, OnePerKey
<1>5. Home(t, list)
  BY <1>1, <1>2, <1>3 DEF Home
<1>6. Len(t) = Len(table)
  BY <1>1
<1> QED
  BY <1>1, <1>4, <1>5, <1>6 DEF Sound

LEMMA EstablishStep ==
  ASSUME TableInv, NEW id \in Ids, Establish(id)
  PROVE  TableInv'
<1>1. PICK t : t = [conns EXCEPT ![id].status = "Established", ![id].num_sent = 0]
  OBVIOUS
<1>2. conns' = t /\ ip_port_list' = ip_port_list /\ id \in Used(conns)
  BY <1>1, UsedIs DEF Establish, IsHalfOpen
<1>3. conns \in Seq(Entries) /\ id \in DOMAIN conns /\ conns[id] \in Entries
  BY DEF TableInv, Sound, Ids
<1>4. PICK e : e = [conns[id] EXCEPT !.status = "Established", !.num_sent = 0]
  OBVIOUS
<1>5. /\ e \in Entries /\ e.status = "Established" /\ e.key = conns[id].key
      /\ e.address = conns[id].address
  <2>1. e = [status |-> "Established", key |-> conns[id].key, address |-> conns[id].address,
             num_sent |-> 0]
    BY <1>3, <1>4 DEF Entries
  <2>2. conns[id].key \in Key \cup {Nothing} /\ conns[id].address \in Address \cup {Nothing}
    BY <1>3 DEF Entries
  <2> QED
    BY <2>1, <2>2, TriesAssumption DEF Entries
<1>6. t = [conns EXCEPT ![id] = e]
  BY <1>1, <1>3, <1>4
<1>7. t \in Seq(Entries) /\ DOMAIN t = DOMAIN conns /\ t[id] = e
      /\ \A j \in DOMAIN conns : j # id => t[j] = conns[j]
  BY <1>3, <1>5, <1>6
<1>8. Sound(t, ip_port_list)
  BY <1>2, <1>5, <1>7, SameConnections DEF TableInv
<1> QED
  BY <1>2, <1>8 DEF TableInv, Sound, Tidy, OnePerKey, Home, Used, Unused, Entries

\* add_ip_port_connection takes the old address out of the list.
LEMMA AddressStep ==
  ASSUME TableInv, NEW id \in Ids, NEW a \in Address, add_ip_port_connection(id, a)
  PROVE  TableInv'
<1>1. /\ conns \in Seq(Entries) /\ Len(conns) \in Nat /\ DOMAIN conns = 1 .. Len(conns)
      /\ ip_port_list \in [Address -> Nat] /\ Tidy(conns) /\ OnePerKey(conns)
      /\ Home(conns, ip_port_list) /\ Len(conns) <= Cardinality(Key)
  BY DEF TableInv, Sound
<1>2. PICK t : t = [conns EXCEPT ![id].address = a]
  OBVIOUS
<1>3. PICK list : list = ip_port_list'
  OBVIOUS
<1>4. /\ id \in Used(conns) /\ ip_port_list[a] = 0 /\ conns' = t /\ conns[id].address # a
      /\ list = [b \in Address |->
           CASE b = a -> id
             [] b = conns[id].address /\ ip_port_list[b] = id -> 0
             [] OTHER -> ip_port_list[b]]
  BY <1>2, <1>3, UsedIs DEF add_ip_port_connection
<1>5. id \in DOMAIN conns /\ conns[id] \in Entries /\ id \in Nat /\ id # 0 /\ 0 \notin DOMAIN conns
  BY <1>1 DEF Ids
<1>6. PICK e : e = [conns[id] EXCEPT !.address = a]
  OBVIOUS
<1>7. /\ e \in Entries /\ e.status = conns[id].status /\ e.key = conns[id].key /\ e.address = a
  BY <1>5, <1>6 DEF Entries
<1>8. /\ t \in Seq(Entries) /\ DOMAIN t = DOMAIN conns /\ t[id] = e /\ Len(t) = Len(conns)
      /\ \A j \in DOMAIN conns : j # id => t[j] = conns[j]
  <2>1. t = [conns EXCEPT ![id] = e]
    BY <1>2, <1>5, <1>6
  <2> QED
    BY <1>1, <1>5, <1>7, <2>1
<1>9. Used(t) = Used(conns) /\ Used(conns) \subseteq DOMAIN conns
  BY <1>4, <1>7, <1>8 DEF Used
<1>10. Tidy(t) /\ OnePerKey(t)
  <2>1. \A j \in DOMAIN conns : t[j].key = conns[j].key /\ (j # id => t[j] = conns[j])
    BY <1>7, <1>8
  <2>2. Tidy(t)
    BY <1>1, <1>4, <1>8, <1>9, <2>1 DEF Tidy
  <2>3. OnePerKey(t)
    BY <1>1, <1>9, <2>1 DEF OnePerKey
  <2> QED
    BY <2>2, <2>3
<1>11. /\ list[a] = id
       /\ \A b \in Address : b # a =>
            list[b] = IF b = conns[id].address /\ ip_port_list[b] = id THEN 0 ELSE ip_port_list[b]
       /\ list \in [Address -> Nat]
  BY <1>1, <1>4, <1>5
<1>12. ASSUME NEW b \in Address, list[b] # 0 PROVE list[b] \in Used(t) /\ t[list[b]].address = b
  <2>1. CASE b = a
    BY <1>4, <1>7, <1>8, <1>9, <1>11, <2>1
  <2>2. CASE b # a
    <3>1. list[b] = ip_port_list[b] /\ ~ (b = conns[id].address /\ ip_port_list[b] = id)
      BY <1>11, <1>12, <2>2
    <3>2. ip_port_list[b] \in Used(conns) /\ conns[ip_port_list[b]].address = b
      BY <1>1, <1>12, <3>1 DEF Home
    <3>3. ip_port_list[b] # id
      BY <3>1, <3>2
    <3> QED
      BY <1>8, <1>9, <3>1, <3>2, <3>3
  <2> QED
    BY <2>1, <2>2
<1>13. ASSUME NEW j \in Used(t), t[j].address \in Address PROVE list[t[j].address] = j
  <2>1. CASE j = id
    BY <1>7, <1>8, <1>11, <2>1
  <2>2. CASE j # id
    <3>1. j \in Used(conns) /\ t[j] = conns[j] /\ ip_port_list[conns[j].address] = j
      BY <1>1, <1>8, <1>9, <1>13, <2>2 DEF Home
    <3>2. conns[j].address # a
      BY <1>4, <1>5, <1>9, <3>1
    <3> QED
      BY <1>11, <1>13, <2>2, <3>1, <3>2
  <2> QED
    BY <2>1, <2>2
<1>14. Sound(t, list)
  BY <1>1, <1>8, <1>10, <1>11, <1>12, <1>13 DEF Sound, Home
<1> QED
  BY <1>3, <1>4, <1>14 DEF TableInv, Sound, Tidy, OnePerKey, Home, Used, Unused, Entries

\* Only unused entries are given back.
LEMMA TrimKeeps ==
  ASSUME NEW table \in Seq(Entries)
  PROVE  /\ Trim(table) \in Seq(Entries) /\ Len(Trim(table)) <= Len(table)
         /\ DOMAIN Trim(table) \subseteq DOMAIN table
         /\ \A id \in DOMAIN Trim(table) : Trim(table)[id] = table[id]
         /\ Used(Trim(table)) = Used(table)
<1> DEFINE Last(n) == /\ n > 0 => IsUsed(table, n)
                      /\ \A id \in n + 1 .. Len(table) : ~ IsUsed(table, id)
           n == CHOOSE k \in 0 .. Len(table) : Last(k)
<1>1. Len(table) \in Nat /\ DOMAIN table = 1 .. Len(table)
  OBVIOUS
<1>2. \E k \in 0 .. Len(table) : Last(k)
  <2> DEFINE S == {k \in 0 .. Len(table) : \A id \in k + 1 .. Len(table) : ~ IsUsed(table, id)}
  <2>1. S \subseteq Nat /\ Len(table) \in S
    BY <1>1
  <2>2. PICK k \in S : \A m \in S : k <= m
    BY <2>1, LeastNumber
  <2>3. k \in 0 .. Len(table) /\ \A id \in k + 1 .. Len(table) : ~ IsUsed(table, id)
    OBVIOUS
  <2>4. ASSUME k > 0, ~ IsUsed(table, k) PROVE FALSE
    <3>1. k - 1 \in 0 .. Len(table) /\ k \in Nat
      BY <1>1, <2>3, <2>4
    <3>2. \A id \in (k - 1) + 1 .. Len(table) : id = k \/ id \in k + 1 .. Len(table)
      BY <1>1, <3>1
    <3>3. k - 1 \in S
      BY <2>3, <2>4, <3>1, <3>2
    <3> QED
      BY <2>2, <3>1, <3>3, SMTT(60)
  <2> QED
    BY <2>3, <2>4
<1>3. n \in 0 .. Len(table) /\ Last(n)
  BY <1>2
<1>4. Trim(table) = SubSeq(table, 1, n)
  BY DEF Trim
<1> HIDE DEF n
<1>5. PICK t : t = SubSeq(table, 1, n)
  OBVIOUS
<1>6. /\ t \in Seq(Entries) /\ Len(t) = n /\ DOMAIN t = 1 .. n
      /\ \A id \in 1 .. n : t[id] = table[id]
  BY <1>1, <1>3, <1>5
<1>7. Used(t) = Used(table)
  <2>1. ASSUME NEW id \in Used(table) PROVE id \in 1 .. n
    <3>1. id \in 1 .. Len(table) /\ IsUsed(table, id)
      BY <1>1, UsedIs DEF Used
    <3> QED
      BY <1>1, <1>3, <3>1
  <2> QED
    BY <1>1, <1>3, <1>6, <2>1 DEF Used
<1> QED
  BY <1>1, <1>3, <1>4, <1>5, <1>6, <1>7

\* crypto_kill of ids: what is left is sound, and is what there was.
LEMMA WipeIsSound ==
  ASSUME TableInv, NEW ids \in SUBSET Ids
  PROVE  /\ Sound(WithoutEntries(ids), WithoutAddresses(ids))
         /\ Used(WithoutEntries(ids)) = Used(conns) \ ids
         /\ \A id \in Used(WithoutEntries(ids)) : WithoutEntries(ids)[id] = conns[id]
<1>1. /\ conns \in Seq(Entries) /\ Len(conns) \in Nat /\ DOMAIN conns = 1 .. Len(conns)
      /\ ip_port_list \in [Address -> Nat] /\ Tidy(conns) /\ OnePerKey(conns)
      /\ Home(conns, ip_port_list) /\ Len(conns) <= Cardinality(Key) /\ Cardinality(Key) \in Nat
  BY PeersAssumption, FS_CardinalityType DEF TableInv, Sound
<1>2. PICK w : w = [id \in Ids |-> IF id \in ids THEN Unused ELSE conns[id]]
  OBVIOUS
<1>3. /\ w \in Seq(Entries) /\ Len(w) = Len(conns) /\ DOMAIN w = DOMAIN conns
      /\ \A id \in DOMAIN conns : w[id] = IF id \in ids THEN Unused ELSE conns[id]
  <2>1. w \in [1 .. Len(conns) -> Entries]
    BY <1>1, <1>2, UnusedType DEF Ids
  <2> QED
    BY <1>1, <1>2, <2>1 DEF Ids
<1>4. Used(w) = Used(conns) \ ids
  BY <1>3, UnusedType DEF Used
<1>5. PICK t : t = Trim(w)
  OBVIOUS
<1>6. /\ t \in Seq(Entries) /\ Len(t) <= Len(conns) /\ DOMAIN t \subseteq DOMAIN conns
      /\ Len(t) \in Nat
      /\ \A id \in DOMAIN t : t[id] = w[id]
      /\ Used(t) = Used(conns) \ ids
  BY <1>3, <1>4, <1>5, TrimKeeps
<1>7. Used(t) \subseteq DOMAIN t /\ \A id \in Used(t) : t[id] = conns[id]
  <2>1. Used(t) \subseteq DOMAIN t
    BY DEF Used
  <2> QED
    BY <1>3, <1>6, <2>1
<1>8. Tidy(t)
  <2>1. ASSUME NEW id \in DOMAIN t, id \notin Used(t) PROVE t[id] = Unused
    BY <1>1, <1>3, <1>6, <2>1 DEF Tidy
  <2>2. ASSUME NEW id \in Used(t) PROVE t[id].key \in Key
    <3>1. id \in Used(conns) /\ id \in DOMAIN conns
      BY <1>6, <1>7
    <3> QED
      BY <1>1, <1>7, <3>1 DEF Tidy
  <2> QED
    BY <2>1, <2>2 DEF Tidy
<1>9. OnePerKey(t)
  BY <1>1, <1>6, <1>7 DEF OnePerKey
<1>10. PICK list : list = WithoutAddresses(ids)
  OBVIOUS
<1>11. /\ list \in [Address -> Nat]
       /\ \A a \in Address :
            list[a] = IF \E id \in ids : conns[id].address = a /\ ip_port_list[a] = id
                        THEN 0 ELSE ip_port_list[a]
  BY <1>1, <1>10 DEF WithoutAddresses
<1>12. ASSUME NEW a \in Address, list[a] # 0 PROVE list[a] \in Used(t) /\ t[list[a]].address = a
  <2>1. list[a] = ip_port_list[a] /\ ~ \E id \in ids : conns[id].address = a /\ ip_port_list[a] = id
    BY <1>11, <1>12
  <2>2. ip_port_list[a] \in Used(conns) /\ conns[ip_port_list[a]].address = a
    BY <1>1, <1>12, <2>1 DEF Home
  <2> QED
    BY <1>6, <1>7, <2>1, <2>2
<1>13. ASSUME NEW id \in Used(t), t[id].address \in Address PROVE list[t[id].address] = id
  <2>1. ip_port_list[conns[id].address] = id /\ id \notin ids /\ t[id] = conns[id]
    BY <1>1, <1>6, <1>7, <1>13 DEF Home
  <2> QED
    BY <1>11, <1>13, <2>1
<1>14. Sound(t, list)
  <2>1. Len(t) <= Cardinality(Key)
    BY <1>1, <1>6
  <2> QED
    BY <1>6, <1>8, <1>9, <1>11, <1>12, <1>13, <2>1 DEF Sound, Home
<1>15. t = WithoutEntries(ids)
  BY <1>2, <1>5 DEF WithoutEntries
<1> QED
  BY <1>6, <1>7, <1>10, <1>14, <1>15

LEMMA KillStep ==
  ASSUME TableInv, NEW id \in Ids, crypto_kill(id)
  PROVE  TableInv'
<1>1. Sound(WithoutEntries({id}), WithoutAddresses({id}))
  BY WipeIsSound
<1>2. PICK t : t = WithoutEntries({id})
  OBVIOUS
<1>3. PICK list : list = WithoutAddresses({id})
  OBVIOUS
<1>4. conns' = t /\ ip_port_list' = list
  BY <1>2, <1>3 DEF crypto_kill
<1>5. Sound(t, list)
  BY <1>1, <1>2, <1>3
<1> QED
  BY <1>4, <1>5 DEF TableInv, Sound, Tidy, OnePerKey, Home, Used, Unused, Entries

\* A half open connection that the loops reach after kill_timedout has tries left.
LEMMA TriesLeft ==
  ASSUME TableInv, NEW left, left = WithoutEntries(TimedOut), NEW id \in Visited(left),
         left[id].status = "HalfOpen"
  PROVE  id \in Used(left) /\ left[id].num_sent + 1 \in 0 .. MaxTries
<1>1. TimedOut \in SUBSET Ids
  BY DEF TimedOut, Visited, Ids
<1>2. /\ Used(left) = Used(conns) \ TimedOut
      /\ \A j \in Used(left) : left[j] = conns[j]
  BY <1>1, WipeIsSound
<1>3. \A j \in 1 .. id : j \in Used(left)
  BY UsedIs DEF Visited
<1>4. id \in Used(left)
  BY DEF Visited, Used
<1>5. id \in Used(conns) /\ id \notin TimedOut /\ left[id] = conns[id]
  BY <1>2, <1>4
<1>6. id \in Visited(conns)
  <2>1. \A j \in 1 .. id : IsUsed(conns, j)
    BY <1>2, <1>3, UsedIs
  <2> QED
    BY <1>5, <2>1 DEF Visited, Used
<1>7. ~ (conns[id].num_sent >= MaxTries)
  BY <1>5, <1>6 DEF TimedOut
<1>8. conns[id].num_sent \in 0 .. MaxTries
  <2>1. conns[id] \in Entries
    BY <1>5 DEF TableInv, Sound, Used
  <2> QED
    BY <2>1 DEF Entries
<1> QED
  BY <1>4, <1>5, <1>7, <1>8, TriesAssumption

LEMMA RoundStep ==
  ASSUME TableInv, NEW due, do_net_crypto(due)
  PROVE  TableInv'
<1>1. PICK left : left = WithoutEntries(TimedOut)
  OBVIOUS
<1>2. PICK list : list = WithoutAddresses(TimedOut)
  OBVIOUS
<1>3. PICK t : t = [id \in DOMAIN left |->
                     IF id \in due \cap Visited(left) /\ left[id].status = "HalfOpen"
                       THEN [left[id] EXCEPT !.num_sent = @ + 1] ELSE left[id]]
  OBVIOUS
<1>4. conns' = t /\ ip_port_list' = list
  BY <1>1, <1>2, <1>3 DEF do_net_crypto
<1>5. Sound(left, list)
  <2>1. TimedOut \in SUBSET Ids
    BY DEF TimedOut, Visited, Ids
  <2> QED
    BY <1>1, <1>2, <2>1, WipeIsSound
<1>6. left \in Seq(Entries) /\ Len(left) \in Nat /\ DOMAIN left = 1 .. Len(left)
  BY <1>5 DEF Sound
<1>7. ASSUME NEW id \in DOMAIN left
      PROVE  /\ t[id] \in Entries
             /\ \/ t[id] = left[id]
                \/ /\ id \in Used(left) /\ t[id].status # "NoConnection"
                   /\ t[id].key = left[id].key /\ t[id].address = left[id].address
  <2>1. left[id] \in Entries
    BY <1>6
  <2>2. CASE id \in due \cap Visited(left) /\ left[id].status = "HalfOpen"
    <3>1. id \in Used(left) /\ left[id].num_sent + 1 \in 0 .. MaxTries
      BY <1>1, <2>2, TriesLeft
    <3>2. t[id] = [left[id] EXCEPT !.num_sent = @ + 1]
      BY <1>3, <2>2
    <3>3. t[id] = [status |-> "HalfOpen", key |-> left[id].key, address |-> left[id].address,
                   num_sent |-> left[id].num_sent + 1]
      BY <2>1, <2>2, <3>2 DEF Entries
    <3>4. left[id].key \in Key \cup {Nothing} /\ left[id].address \in Address \cup {Nothing}
      BY <2>1 DEF Entries
    <3>5. t[id] \in Entries
      BY <3>1, <3>3, <3>4 DEF Entries
    <3> QED
      BY <3>1, <3>3, <3>5
  <2>3. CASE ~ (id \in due \cap Visited(left) /\ left[id].status = "HalfOpen")
    <3>1. t[id] = left[id]
      BY <1>3, <2>3
    <3> QED
      BY <2>1, <3>1
  <2> QED
    BY <2>2, <2>3
<1>8. t \in Seq(Entries) /\ DOMAIN t = DOMAIN left
  <2>1. DOMAIN t = DOMAIN left
    BY <1>3
  <2>2. t \in [1 .. Len(left) -> Entries]
    BY <1>3, <1>6, <1>7
  <2> QED
    BY <1>6, <2>1, <2>2
<1>9. Sound(t, list)
  BY <1>5, <1>7, <1>8, SameConnections
<1> QED
  BY <1>4, <1>9 DEF TableInv, Sound, Tidy, OnePerKey, Home, Used, Unused, Entries

-----------------------------------------------------------------------------

LEMMA NextTable == TableInv /\ [TableNext]_tableVars => TableInv'
<1> SUFFICES ASSUME TableInv, [TableNext]_tableVars PROVE TableInv'
  OBVIOUS
<1>1. CASE UNCHANGED tableVars
  BY <1>1 DEF tableVars, TableInv, Sound, Tidy, OnePerKey, Home, Used, Unused, Entries
<1>2. ASSUME NEW key \in Key, new_crypto_connection(key) PROVE TableInv'
  BY <1>2, NewStep
<1>3. ASSUME NEW key \in Key, new_crypto_connection_fails(key) PROVE TableInv'
  <2>1. PICK t : t = Grown
    OBVIOUS
  <2>2. Sound(t, ip_port_list) /\ conns' = t /\ ip_port_list' = ip_port_list
    BY <1>3, <2>1, GrownIsSound DEF new_crypto_connection_fails
  <2> QED
    BY <2>2 DEF TableInv, Sound, Tidy, OnePerKey, Home, Used, Unused, Entries
<1>4. ASSUME NEW key \in Key, NEW source \in Address \cup {Nothing},
             accept_crypto_connection(key, source)
      PROVE  TableInv'
  BY <1>4, AcceptStep
<1>5. ASSUME NEW id \in Ids, Establish(id) PROVE TableInv'
  BY <1>5, EstablishStep
<1>6. ASSUME NEW id \in Ids, crypto_kill(id) PROVE TableInv'
  BY <1>6, KillStep
<1>7. ASSUME NEW id \in Ids, NEW a \in Address, add_ip_port_connection(id, a) PROVE TableInv'
  BY <1>7, AddressStep
<1>8. ASSUME NEW due \in SUBSET Ids, do_net_crypto(due) PROVE TableInv'
  BY <1>8, RoundStep
<1> QED
  BY <1>1, <1>2, <1>3, <1>4, <1>5, <1>6, <1>7, <1>8 DEF TableNext

\* For any number of peers and addresses: a peer has one connection
\* (getcryptconnection_id before create_crypto_connection), an address leads to
\* the connection that has it although ids are given back and used again
\* (add_ip_port_connection, crypto_kill), and the array has no more entries than
\* there are peers although entries are wasted (create_crypto_connection).
THEOREM TableStaysSound == TableSpec => []TableIsSound
  BY InitTable, NextTable, InvariantIsRight, PTL DEF TableSpec

-----------------------------------------------------------------------------
(* The array and the threads.                                              *)

Users == {t \in AvThread : InUse(t)}

Counted == use_counter = Cardinality(Users)

Changing == pc["tox"] \in {"locked", "wiping"}

Excluded ==
  /\ connections_mutex = IF Changing THEN "tox" ELSE Nobody
  /\ Changing => use_counter = 0

Bounded == pc["tox"] \in {"spin", "locked", "wiping"} => moves < MaxChanges

LocksInv == LocksTypeOK /\ Counted /\ Excluded /\ Bounded /\ PointerStaysValid

LEMMA UsersFinite == IsFiniteSet(Users) /\ Cardinality(Users) \in Nat
<1>1. IsFiniteSet(Users)
  BY ThreadAssumption, FS_Subset DEF Users
<1> QED
  BY <1>1, FS_CardinalityType

LEMMA InitLocksInv == LocksInit => LocksInv
<1> SUFFICES ASSUME LocksInit PROVE LocksInv
  OBVIOUS
<1>1. LocksTypeOK
  <2>1. pc \in [Thread -> {"idle"}] /\ inTcp \in BOOLEAN
    BY DEF LocksInit
  <2>2. moves \in 0 .. MaxChanges /\ use_counter \in Nat
    BY BoundAssumption DEF LocksInit
  <2>3. seen \in [AvThread -> 0 .. MaxChanges]
    BY BoundAssumption DEF LocksInit
  <2> QED
    BY <2>1, <2>2, <2>3 DEF LocksInit, LocksTypeOK
<1>2. Users = {}
  BY ThreadAssumption DEF LocksInit, Users, InUse, Thread
<1>3. Counted
  BY <1>2, FS_EmptySet DEF LocksInit, Counted
<1>4. Excluded /\ Bounded /\ PointerStaysValid
  BY ThreadAssumption DEF LocksInit, Excluded, Changing, Bounded, PointerStaysValid, InUse, Thread
<1> QED
  BY <1>1, <1>3, <1>4 DEF LocksInv

\* A step that neither begins nor ends a use leaves the threads that are counted.
LEMMA SameUsers ==
  ASSUME Counted, \A t \in AvThread : InUse(t)' <=> InUse(t), use_counter' = use_counter
  PROVE  Counted'
  BY DEF Counted, Users

LEMMA NextLocksInv == LocksInv /\ [LocksNext]_lockVars => LocksInv'
<1> SUFFICES ASSUME LocksInv, [LocksNext]_lockVars PROVE LocksInv'
  OBVIOUS
<1>0. LocksTypeOK /\ Counted /\ Excluded /\ Bounded /\ PointerStaysValid
  BY DEF LocksInv
<1>a. \A t \in AvThread : t # "tox"
  BY ThreadAssumption
<1>1. ASSUME NEW t \in AvThread, BeginUse(t) PROVE LocksInv'
  <2>1. LocksTypeOK'
    <3>1. use_counter + 1 \in Nat
      BY <1>0 DEF LocksTypeOK
    <3> QED
      BY <1>0, <1>1, <3>1 DEF BeginUse, Goto, LocksTypeOK, Thread
  <2>2. Users' = Users \cup {t} /\ t \notin Users
    BY <1>0, <1>1 DEF BeginUse, Goto, LocksTypeOK, Thread, Users, InUse
  <2>3. Counted'
    BY <1>0, <1>1, <2>2, UsersFinite, FS_AddElement DEF BeginUse, Counted
  <2>4. ~ Changing /\ ~ Changing'
    BY <1>0, <1>1, <1>a, ThreadAssumption DEF BeginUse, Goto, Changing, Excluded, LocksTypeOK, Thread
  <2>5. Excluded' /\ Bounded'
    BY <1>0, <1>1, <1>a, <2>4 DEF Excluded, Bounded, BeginUse, Goto, LocksTypeOK, Thread
  <2>6. PointerStaysValid'
    BY <1>0, <1>1 DEF BeginUse, Goto, LocksTypeOK, Thread, PointerStaysValid, InUse
  <2> QED
    BY <2>1, <2>3, <2>5, <2>6 DEF LocksInv
<1>2. ASSUME NEW t \in AvThread, SendDirect(t) \/ NotDirect(t) \/ SendTcp(t) \/ SentTcp(t)
      PROVE LocksInv'
  <2> USE <1>0, <1>2 DEF SendDirect, NotDirect, SendTcp, SentTcp, Goto, LocksTypeOK, Thread
  <2>1. LocksTypeOK'
    OBVIOUS
  <2>2. \A u \in AvThread : InUse(u)' <=> InUse(u)
    BY DEF InUse
  <2>3. Counted'
    BY <2>2, SameUsers
  <2>4. Excluded' /\ Bounded'
    BY <1>a DEF Excluded, Changing, Bounded
  <2>5. PointerStaysValid'
    BY <2>2 DEF PointerStaysValid
  <2> QED
    BY <2>1, <2>3, <2>4, <2>5 DEF LocksInv
<1>3. ASSUME NEW t \in AvThread, EndUse(t) PROVE LocksInv'
  <2>1. Users' = Users \ {t} /\ t \in Users
    BY <1>0, <1>3 DEF EndUse, Goto, LocksTypeOK, Thread, Users, InUse
  <2>2. Counted'
    BY <1>0, <1>3, <2>1, UsersFinite, FS_RemoveElement DEF EndUse, Counted
  <2>3. LocksTypeOK'
    <3>1. use_counter' \in Nat
      BY <2>2, UsersFinite, <2>1, FS_RemoveElement, FS_CardinalityType DEF Counted
    <3> QED
      BY <1>0, <1>3, <3>1 DEF EndUse, Goto, LocksTypeOK, Thread
  <2>4. ~ Changing /\ ~ Changing'
    BY <1>0, <1>3, <1>a, ThreadAssumption DEF EndUse, Goto, Changing, Excluded, LocksTypeOK, Thread
  <2>5. Excluded' /\ Bounded'
    BY <1>0, <1>3, <1>a, <2>4 DEF Excluded, Bounded, EndUse, Goto, LocksTypeOK, Thread
  <2>6. PointerStaysValid'
    BY <1>0, <1>3 DEF EndUse, Goto, LocksTypeOK, Thread, PointerStaysValid, InUse
  <2> QED
    BY <2>2, <2>3, <2>5, <2>6 DEF LocksInv
<1>4. CASE ToxNext
  <2> USE DEF ToxNext, do_tcp, LeaveTcp, PacketFrom, LeaveSpin, Grow, KillTcpConnection,
              wipe_crypto_connection, Return, Goto
  <2>1. \A u \in AvThread : InUse(u)' <=> InUse(u)
    BY <1>0, <1>4, <1>a DEF InUse, LocksTypeOK, Thread
  <2>2. Counted'
    BY <1>0, <1>4, <2>1, SameUsers
  <2>3. LocksTypeOK'
    <3>1. pc' \in [Thread -> {"idle", "using", "waiting", "sending", "sent",
                              "tcp", "spin", "locked", "wiping", "changed"}]
      BY <1>0, <1>4 DEF LocksTypeOK, Thread
    <3>2. connections_mutex' \in Thread \cup {Nobody} /\ tcp_mutex' \in Thread \cup {Nobody}
      BY <1>0, <1>4 DEF LocksTypeOK, Thread
    <3>3. moves' \in 0 .. MaxChanges
      BY <1>0, <1>4, BoundAssumption DEF LocksTypeOK, Bounded
    <3>4. inTcp' \in BOOLEAN
      BY <1>0, <1>4 DEF LocksTypeOK
    <3> QED
      BY <1>0, <1>4, <3>1, <3>2, <3>3, <3>4 DEF LocksTypeOK
  <2>4. Excluded'
    BY <1>0, <1>4, ThreadAssumption DEF LocksTypeOK, Thread, Excluded, Changing, CanLeaveSpin
  <2>5. Bounded'
    BY <1>0, <1>4 DEF LocksTypeOK, Thread, Bounded
  <2>6. PointerStaysValid'
    <3>1. CASE Changing
      <4>1. Users = {}
        BY <1>0, <3>1, UsersFinite, FS_EmptySet DEF Excluded, Counted
      <4> QED
        BY <2>1, <4>1 DEF Users, PointerStaysValid
    <3>2. CASE ~ Changing
      BY <1>0, <1>4, <2>1, <3>2 DEF Changing, PointerStaysValid
    <3> QED
      BY <3>1, <3>2
  <2> QED
    BY <2>2, <2>3, <2>4, <2>5, <2>6 DEF LocksInv
<1>5. CASE UNCHANGED lockVars
  BY <1>0, <1>5 DEF lockVars, LocksInv, LocksTypeOK, Counted, Excluded, Bounded, PointerStaysValid, Users, InUse,
     Changing
<1> QED
  BY <1>1, <1>2, <1>3, <1>4, <1>5 DEF LocksNext, AvNext, AvGoesOn

\* No toxav thread ever uses a pointer into an array that the tox thread has
\* moved or wiped meanwhile, whatever the number of threads.
THEOREM PointersStayValid == LocksSpec => []PointerStaysValid
<1>1. LocksInv => PointerStaysValid
  BY DEF LocksInv
<1> QED
  BY <1>1, InitLocksInv, NextLocksInv, PTL DEF LocksSpec

-----------------------------------------------------------------------------
(* Friend connections.                                                     *)

Held ==
  /\ fc.status = "None" => users = 0 /\ crypto.status = "None"
  /\ fc.status # "None" => users = fc.lock_count + 1

FcInv == FriendTypeOK /\ LayersAgree /\ CallbacksAlternate /\ Held

LEMMA HeldImpliesLastHolder == FriendTypeOK /\ Held => WipedForLastHolder
  BY DEF FriendTypeOK, FcType, Held, WipedForLastHolder, Exists

LEMMA OldAgesType == OldAges \in AgesType
  BY TimeAssumption DEF OldAges, AgesType

\* Setting ages back to 0 keeps their type.
LEMMA AgesReset ==
  ASSUME NEW a \in AgesType
  PROVE  /\ [a EXCEPT !.pk = 0, !.heard = 0] \in AgesType
         /\ [a EXCEPT !.ping = 0] \in AgesType
         /\ [a EXCEPT !.heard = 0] \in AgesType
<1>1. 0 \in 0 .. DhtTimeout + 1 /\ 0 \in 0 .. ConnectionTimeout + 1
  BY TimeAssumption
<1> QED
  BY <1>1 DEF AgesType

LEMMA InitFcInv == FriendInit => FcInv
<1> SUFFICES ASSUME FriendInit PROVE FcInv
  OBVIOUS
<1> USE TimeAssumption, UsersAssumption DEF FriendInit, NoConn, NoCrypto
<1>1. FriendTypeOK
  <2>1. fc \in FcType
    BY DEF FcType
  <2>2. crypto \in CryptoType
    BY DEF CryptoType
  <2>3. told \in Int
    OBVIOUS
  <2> QED
    BY <2>1, <2>2, <2>3, OldAgesType DEF FriendTypeOK
<1>2. LayersAgree /\ CallbacksAlternate /\ Held
  BY DEF LayersAgree, CallbacksAlternate, Held
<1> QED
  BY <1>1, <1>2 DEF FcInv

LEMMA NextFcInv == FcInv /\ [FriendNext]_friendVars => FcInv'
<1> SUFFICES ASSUME FcInv, [FriendNext]_friendVars PROVE FcInv'
  OBVIOUS
<1>0. FriendTypeOK /\ LayersAgree /\ CallbacksAlternate /\ Held
  BY DEF FcInv
<1>1. CASE new_friend_connection
  <2> USE <1>0, <1>1 DEF new_friend_connection, Exists, NoConn
  <2>1. fc' \in FcType /\ crypto' \in CryptoType
    BY UsersAssumption DEF FriendTypeOK, FcType, CryptoType, Held
  <2>2. ages' \in AgesType /\ told' \in Int /\ users' \in 0 .. MaxUsers
    <3>1. ages' \in AgesType
      BY DEF FriendTypeOK
    <3>2. told' \in Int
      BY DEF FriendTypeOK
    <3>3. users' \in 0 .. MaxUsers
      BY UsersAssumption DEF FriendTypeOK
    <3> QED
      BY <3>1, <3>2, <3>3
  <2>3. LayersAgree' /\ CallbacksAlternate'
    BY DEF FriendTypeOK, FcType, CryptoType, LayersAgree, CallbacksAlternate, Held
  <2>4. Held'
    BY UsersAssumption DEF FriendTypeOK, FcType, LayersAgree, Held
  <2> QED
    BY ONLY <2>1, <2>2, <2>3, <2>4 DEF FcInv, FriendTypeOK
<1>2. CASE friend_connection_lock
  <2> USE <1>0, <1>2 DEF friend_connection_lock, Exists
  <2>1. fc' \in FcType /\ crypto' \in CryptoType
    BY UsersAssumption DEF FriendTypeOK, FcType, CryptoType, Held
  <2>2. ages' \in AgesType /\ told' \in Int /\ users' \in 0 .. MaxUsers
    <3>1. ages' \in AgesType
      BY DEF FriendTypeOK
    <3>2. told' \in Int
      BY DEF FriendTypeOK
    <3>3. users' \in 0 .. MaxUsers
      BY UsersAssumption DEF FriendTypeOK
    <3> QED
      BY <3>1, <3>2, <3>3
  <2>3. LayersAgree' /\ CallbacksAlternate'
    BY DEF FriendTypeOK, FcType, CryptoType, LayersAgree, CallbacksAlternate, Held
  <2>4. Held'
    BY UsersAssumption DEF FriendTypeOK, FcType, LayersAgree, Held
  <2> QED
    BY ONLY <2>1, <2>2, <2>3, <2>4 DEF FcInv, FriendTypeOK
<1>3. CASE kill_friend_connection
  <2> USE <1>0, <1>3 DEF kill_friend_connection, Exists, NoConn, NoCrypto
  <2>1. fc' \in FcType /\ crypto' \in CryptoType
    <3>1. crypto' \in CryptoType
      BY DEF FriendTypeOK, CryptoType
    <3>2. CASE fc.lock_count > 0
      <4>1. fc.lock_count - 1 \in 0 .. MaxUsers
        BY <3>2, UsersAssumption DEF FriendTypeOK, FcType
      <4> QED
        BY <3>1, <3>2, <4>1 DEF FriendTypeOK, FcType
    <3>3. CASE ~ fc.lock_count > 0
      <4>1. fc' = NoConn
        BY <3>3
      <4>2. 0 \in 0 .. MaxUsers
        BY UsersAssumption
      <4>3. NoConn \in FcType
        BY ONLY <4>2 DEF NoConn, FcType
      <4> QED
        BY ONLY <3>1, <4>1, <4>3
    <3> QED
      BY <3>2, <3>3
  <2>2. ages' \in AgesType /\ told' \in Int /\ users' \in 0 .. MaxUsers
    <3>1. ages' \in AgesType
      BY OldAgesType DEF FriendTypeOK
    <3>2. told' \in Int
      BY DEF FriendTypeOK
    <3>3. users' \in 0 .. MaxUsers
      BY UsersAssumption DEF FriendTypeOK
    <3> QED
      BY <3>1, <3>2, <3>3
  <2>3. LayersAgree' /\ CallbacksAlternate'
    BY DEF FriendTypeOK, FcType, CryptoType, LayersAgree, CallbacksAlternate, Held
  <2>4. Held'
    BY UsersAssumption DEF FriendTypeOK, FcType, LayersAgree, Held
  <2> QED
    BY ONLY <2>1, <2>2, <2>3, <2>4 DEF FcInv, FriendTypeOK
<1>4. ASSUME NEW dht \in DhtKey, DhtPkKnown(dht) PROVE FcInv'
  <2> USE <1>0, <1>4 DEF DhtPkKnown, Exists
  <2>1. fc' \in FcType /\ crypto' \in CryptoType
    BY UsersAssumption DEF FriendTypeOK, FcType, CryptoType, Held
  <2>2. ages' \in AgesType /\ told' \in Int /\ users' \in 0 .. MaxUsers
    BY AgesReset, OldAgesType, UsersAssumption DEF FriendTypeOK
  <2>3. LayersAgree' /\ CallbacksAlternate'
    BY DEF FriendTypeOK, FcType, CryptoType, LayersAgree, CallbacksAlternate, Held
  <2>4. Held'
    BY UsersAssumption DEF FriendTypeOK, FcType, LayersAgree, Held
  <2> QED
    BY ONLY <2>1, <2>2, <2>3, <2>4 DEF FcInv, FriendTypeOK
<1>5. ASSUME NEW dht \in DhtKey, DhtPkNew(dht) PROVE FcInv'
  <2> USE <1>0, <1>5 DEF DhtPkNew, Exists, change_dht_pk, Offline, HalfOpen, OfflineTold
  <2>1. fc' \in FcType /\ crypto' \in CryptoType
    BY UsersAssumption DEF FriendTypeOK, FcType, CryptoType, Held
  <2>2. ages' \in AgesType /\ told' \in Int /\ users' \in 0 .. MaxUsers
    <3>1. ages' \in AgesType
      BY AgesReset, OldAgesType DEF FriendTypeOK
    <3>2. told' \in Int
      BY DEF FriendTypeOK
    <3>3. users' \in 0 .. MaxUsers
      BY UsersAssumption DEF FriendTypeOK
    <3> QED
      BY <3>1, <3>2, <3>3
  <2>3. LayersAgree' /\ CallbacksAlternate'
    BY DEF FriendTypeOK, FcType, CryptoType, LayersAgree, CallbacksAlternate, Held
  <2>4. Held'
    BY UsersAssumption DEF FriendTypeOK, FcType, LayersAgree, Held
  <2> QED
    BY ONLY <2>1, <2>2, <2>3, <2>4 DEF FcInv, FriendTypeOK
<1>6. ASSUME NEW dht \in DhtKey, handle_new_connections(dht) PROVE FcInv'
  <2> USE <1>0, <1>6 DEF handle_new_connections, Exists, change_dht_pk, HalfOpen
  <2>1. fc' \in FcType /\ crypto' \in CryptoType
    BY UsersAssumption DEF FriendTypeOK, FcType, CryptoType, Held
  <2>2. ages' \in AgesType /\ told' \in Int /\ users' \in 0 .. MaxUsers
    BY AgesReset, OldAgesType, UsersAssumption DEF FriendTypeOK
  <2>3. LayersAgree' /\ CallbacksAlternate'
    BY DEF FriendTypeOK, FcType, CryptoType, LayersAgree, CallbacksAlternate, Held
  <2>4. Held'
    BY UsersAssumption DEF FriendTypeOK, FcType, LayersAgree, Held
  <2> QED
    BY ONLY <2>1, <2>2, <2>3, <2>4 DEF FcInv, FriendTypeOK
<1>7. ASSUME NEW dht \in DhtKey, ReplaceConnection(dht) PROVE FcInv'
  <2> USE <1>0, <1>7 DEF ReplaceConnection, change_dht_pk, Offline, HalfOpen, OfflineAges, OfflineTold
  <2>1. fc' \in FcType /\ crypto' \in CryptoType
    BY UsersAssumption DEF FriendTypeOK, FcType, CryptoType, Held
  <2>2. ages' \in AgesType /\ told' \in Int /\ users' \in 0 .. MaxUsers
    <3>1. ages' \in AgesType
      BY AgesReset, OldAgesType DEF FriendTypeOK
    <3>2. told' \in Int
      BY DEF FriendTypeOK
    <3>3. users' \in 0 .. MaxUsers
      BY UsersAssumption DEF FriendTypeOK
    <3> QED
      BY <3>1, <3>2, <3>3
  <2>3. LayersAgree' /\ CallbacksAlternate'
    BY DEF FriendTypeOK, FcType, CryptoType, LayersAgree, CallbacksAlternate, Held
  <2>4. Held'
    BY UsersAssumption DEF FriendTypeOK, FcType, LayersAgree, Held
  <2> QED
    BY ONLY <2>1, <2>2, <2>3, <2>4 DEF FcInv, FriendTypeOK
<1>8. CASE dht_ip_callback
  <2> USE <1>0, <1>8 DEF dht_ip_callback, Exists, CanConnect, HalfOpen
  <2>1. fc' \in FcType /\ crypto' \in CryptoType
    BY UsersAssumption DEF FriendTypeOK, FcType, CryptoType, Held
  <2>2. ages' \in AgesType /\ told' \in Int /\ users' \in 0 .. MaxUsers
    BY AgesReset, OldAgesType, UsersAssumption DEF FriendTypeOK
  <2>3. LayersAgree' /\ CallbacksAlternate'
    BY DEF FriendTypeOK, FcType, CryptoType, LayersAgree, CallbacksAlternate, Held
  <2>4. Held'
    BY UsersAssumption DEF FriendTypeOK, FcType, LayersAgree, Held
  <2> QED
    BY ONLY <2>1, <2>2, <2>3, <2>4 DEF FcInv, FriendTypeOK
<1>9. CASE GoOnline
  <2> USE <1>0, <1>9 DEF GoOnline
  <2>1. fc' \in FcType /\ crypto' \in CryptoType
    BY UsersAssumption DEF FriendTypeOK, FcType, CryptoType, Held
  <2>2. ages' \in AgesType /\ told' \in Int /\ users' \in 0 .. MaxUsers
    <3>1. ages' \in AgesType
      BY AgesReset, OldAgesType DEF FriendTypeOK
    <3>2. told' \in Int
      BY DEF FriendTypeOK
    <3>3. users' \in 0 .. MaxUsers
      BY UsersAssumption DEF FriendTypeOK
    <3> QED
      BY <3>1, <3>2, <3>3
  <2>3. LayersAgree' /\ CallbacksAlternate'
    BY DEF FriendTypeOK, FcType, CryptoType, LayersAgree, CallbacksAlternate, Held
  <2>4. Held'
    BY UsersAssumption DEF FriendTypeOK, FcType, LayersAgree, Held
  <2> QED
    BY ONLY <2>1, <2>2, <2>3, <2>4 DEF FcInv, FriendTypeOK
<1>10. CASE connection_kill
  <2> USE <1>0, <1>10 DEF connection_kill, NoCrypto, Offline, OfflineAges, OfflineTold
  <2>1. fc' \in FcType /\ crypto' \in CryptoType
    BY UsersAssumption DEF FriendTypeOK, FcType, CryptoType, Held
  <2>2. ages' \in AgesType /\ told' \in Int /\ users' \in 0 .. MaxUsers
    <3>1. ages' \in AgesType
      BY AgesReset, OldAgesType DEF FriendTypeOK
    <3>2. told' \in Int
      BY DEF FriendTypeOK
    <3>3. users' \in 0 .. MaxUsers
      BY UsersAssumption DEF FriendTypeOK
    <3> QED
      BY <3>1, <3>2, <3>3
  <2>3. LayersAgree' /\ CallbacksAlternate'
    BY DEF FriendTypeOK, FcType, CryptoType, LayersAgree, CallbacksAlternate, Held
  <2>4. Held'
    BY UsersAssumption DEF FriendTypeOK, FcType, LayersAgree, Held
  <2> QED
    BY ONLY <2>1, <2>2, <2>3, <2>4 DEF FcInv, FriendTypeOK
<1>11. CASE HandleAlive
  <2> USE <1>0, <1>11 DEF HandleAlive
  <2>1. fc' \in FcType /\ crypto' \in CryptoType
    BY UsersAssumption DEF FriendTypeOK, FcType, CryptoType, Held
  <2>2. ages' \in AgesType /\ told' \in Int /\ users' \in 0 .. MaxUsers
    BY AgesReset, OldAgesType, UsersAssumption DEF FriendTypeOK
  <2>3. LayersAgree' /\ CallbacksAlternate'
    BY DEF FriendTypeOK, FcType, CryptoType, LayersAgree, CallbacksAlternate, Held
  <2>4. Held'
    BY UsersAssumption DEF FriendTypeOK, FcType, LayersAgree, Held
  <2> QED
    BY ONLY <2>1, <2>2, <2>3, <2>4 DEF FcInv, FriendTypeOK
<1>12. CASE DoConnecting
  <2> USE <1>0, <1>12 DEF DoConnecting, Forgets, CanConnect, HalfOpen
  <2>1. fc' \in FcType /\ crypto' \in CryptoType
    <3>1. fc' \in FcType
      BY DEF FriendTypeOK, FcType
    <3>2. crypto' \in CryptoType
      BY DEF FriendTypeOK, FcType, CryptoType
    <3> QED
      BY <3>1, <3>2
  <2>2. ages' \in AgesType /\ told' \in Int /\ users' \in 0 .. MaxUsers
    BY AgesReset, OldAgesType, UsersAssumption DEF FriendTypeOK
  <2>3. LayersAgree' /\ CallbacksAlternate'
    BY DEF FriendTypeOK, FcType, CryptoType, LayersAgree, CallbacksAlternate, Held
  <2>4. Held'
    BY UsersAssumption DEF FriendTypeOK, FcType, LayersAgree, Held
  <2> QED
    BY ONLY <2>1, <2>2, <2>3, <2>4 DEF FcInv, FriendTypeOK
<1>13. CASE DoConnected
  <2> USE <1>0, <1>13 DEF DoConnected, NoCrypto, Offline, OfflineAges, OfflineTold
  <2>1. fc' \in FcType /\ crypto' \in CryptoType
    BY UsersAssumption DEF FriendTypeOK, FcType, CryptoType, Held
  <2>2. ages' \in AgesType /\ told' \in Int /\ users' \in 0 .. MaxUsers
    <3>1. ages' \in AgesType
      BY AgesReset, OldAgesType DEF FriendTypeOK
    <3>2. told' \in Int
      BY DEF FriendTypeOK
    <3>3. users' \in 0 .. MaxUsers
      BY UsersAssumption DEF FriendTypeOK
    <3> QED
      BY <3>1, <3>2, <3>3
  <2>3. LayersAgree' /\ CallbacksAlternate'
    BY DEF FriendTypeOK, FcType, CryptoType, LayersAgree, CallbacksAlternate, Held
  <2>4. Held'
    BY UsersAssumption DEF FriendTypeOK, FcType, LayersAgree, Held
  <2> QED
    BY ONLY <2>1, <2>2, <2>3, <2>4 DEF FcInv, FriendTypeOK
<1>14. CASE Tick
  <2> USE <1>0, <1>14 DEF Tick, Older
  <2>1. fc' \in FcType /\ crypto' \in CryptoType
    BY UsersAssumption DEF FriendTypeOK, FcType, CryptoType, Held
  <2>2. ages' \in AgesType /\ told' \in Int /\ users' \in 0 .. MaxUsers
    <3>1. ages' \in AgesType
      BY TimeAssumption DEF FriendTypeOK, AgesType
    <3>2. told' \in Int
      BY DEF FriendTypeOK
    <3>3. users' \in 0 .. MaxUsers
      BY UsersAssumption DEF FriendTypeOK
    <3> QED
      BY <3>1, <3>2, <3>3
  <2>3. LayersAgree' /\ CallbacksAlternate'
    BY DEF FriendTypeOK, FcType, CryptoType, LayersAgree, CallbacksAlternate, Held
  <2>4. Held'
    BY UsersAssumption DEF FriendTypeOK, FcType, LayersAgree, Held
  <2> QED
    BY ONLY <2>1, <2>2, <2>3, <2>4 DEF FcInv, FriendTypeOK
<1>15. CASE UNCHANGED friendVars
  <2> USE <1>0, <1>15 DEF friendVars
  <2>1. fc' \in FcType /\ crypto' \in CryptoType
    BY UsersAssumption DEF FriendTypeOK, FcType, CryptoType, Held
  <2>2. ages' \in AgesType /\ told' \in Int /\ users' \in 0 .. MaxUsers
    BY AgesReset, OldAgesType, UsersAssumption DEF FriendTypeOK
  <2>3. LayersAgree' /\ CallbacksAlternate'
    BY DEF FriendTypeOK, FcType, CryptoType, LayersAgree, CallbacksAlternate, Held
  <2>4. Held'
    BY UsersAssumption DEF FriendTypeOK, FcType, LayersAgree, Held
  <2> QED
    BY ONLY <2>1, <2>2, <2>3, <2>4 DEF FcInv, FriendTypeOK
<1> QED
  BY <1>1, <1>2, <1>3, <1>4, <1>5, <1>6, <1>7, <1>8, <1>9, <1>10, <1>11, <1>12, <1>13, <1>14,
     <1>15
  DEF FriendNext, dht_pk_callback, do_friend_connections

\* Friend connection and net_crypto agree, whatever the number of DHT keys, the
\* timeouts and the order in which the callbacks of three modules come.
THEOREM FriendLayersAgree == FriendSpec => []LayersAgree
<1>1. FcInv => LayersAgree
  BY DEF FcInv
<1> QED
  BY <1>1, InitFcInv, NextFcInv, PTL DEF FriendSpec

\* The status callbacks tell of every change and of none twice.
THEOREM FriendCallbacksAlternate == FriendSpec => []CallbacksAlternate
<1>1. FcInv => CallbacksAlternate
  BY DEF FcInv
<1> QED
  BY <1>1, InitFcInv, NextFcInv, PTL DEF FriendSpec

\* kill_friend_connection wipes the entry for the last holder and for no other.
THEOREM FriendWipedForLastHolder == FriendSpec => []WipedForLastHolder
<1>1. FcInv => WipedForLastHolder
  BY HeldImpliesLastHolder DEF FcInv
<1> QED
  BY <1>1, InitFcInv, NextFcInv, PTL DEF FriendSpec

-----------------------------------------------------------------------------
(* The sorted list.                                                        *)

Entry == [data : Datum, id : Nat]

\* What list.c searches: data in order, each with the id it was added with, and
\* all that is stored.
SortedInv ==
  /\ sorted \in Seq(Entry)
  /\ stored \in [Datum -> Nat \cup {NotStored}]
  /\ \A k, l \in 1 .. Len(sorted) : k < l => sorted[k].data < sorted[l].data
  /\ \A k \in 1 .. Len(sorted) : stored[sorted[k].data] = sorted[k].id
  /\ \A x \in Datum : stored[x] # NotStored => \E k \in 1 .. Len(sorted) : sorted[k].data = x
  /\ capacity \in Nat /\ Len(sorted) <= capacity

\* x belongs behind the first p elements.
BelongsAt(x, p) ==
  /\ p \in 0 .. Len(sorted)
  /\ \A k \in 1 .. Len(sorted) : k <= p => sorted[k].data < x
  /\ \A k \in 1 .. Len(sorted) : k > p => x < sorted[k].data

SearchType ==
  [call : {"none", "find", "add", "remove"}, data : Nat, id : Nat, open : BOOLEAN,
   i : Int, delta : Nat \ {0}, d : {-1, 0, 1}, r : Int, rounds : Nat]

\* The loop: there is room for two moves of this distance on either side, or it
\* is 1; once the search has a way it has come from the neighbour, beyond which
\* x is; and the rounds are used up by the distance and then by the moves.
LoopInv(s) ==
  LET n == Len(sorted)
  IN  /\ s.i \in 0 .. n - 1
      /\ s.delta > 1 => 2 * s.delta <= s.i /\ 2 * s.delta <= n - s.i
      /\ s.d # -1 => s.delta = 1
      /\ s.d = -1 => s.rounds + s.delta <= n
      /\ s.d = 1 => s.i >= 1 /\ sorted[s.i].data < s.data /\ s.rounds <= n + s.i - 1
      /\ s.d = 0 => s.i + 1 < n /\ s.data < sorted[s.i + 2].data /\ s.rounds <= n + (n - 2 - s.i)

FoundInv(s) ==
  /\ s.r >= 0 => s.r < Len(sorted) /\ sorted[s.r + 1].data = s.data
  /\ s.r < 0 => BelongsAt(s.data, INDEX(s.r))
  /\ s.rounds <= 2 * Len(sorted)

SearchInv ==
  /\ search \in SearchType
  /\ search.call = "none" => ~search.open /\ search.rounds = 0
  /\ search.call # "none" => search.data \in Datum
  /\ search.call = "add" => search.id = IdOf[search.data]
  /\ search.open => LoopInv(search)
  /\ search.call # "none" /\ ~search.open => FoundInv(search)

ListInv == SortedInv /\ SearchInv

LEMMA SortedData ==
  ASSUME SortedInv
  PROVE  /\ Len(sorted) \in Nat
         /\ \A k \in 1 .. Len(sorted) : sorted[k].data \in Nat /\ sorted[k].data \in Datum /\ sorted[k].id \in Nat
<1>1. Len(sorted) \in Nat /\ \A k \in 1 .. Len(sorted) : sorted[k] \in Entry
  BY DEF SortedInv
<1>2. \A e \in Entry : e.data \in Datum /\ e.id \in Nat
  BY DEF Entry
<1>3. \A x \in Datum : x \in Nat
  BY SortedListAssumption
<1> QED
  BY <1>1, <1>2, <1>3

LEMMA ListFinds == ListInv => FindsWhatWasAdded
<1> SUFFICES ASSUME ListInv PROVE FindsWhatWasAdded
  OBVIOUS
<1>1. sorted \in Seq(Entry) /\ Len(sorted) \in Nat /\ search \in SearchType
  BY DEF ListInv, SortedInv, SearchInv
<1>2. ASSUME search.call # "none", ~search.open
      PROVE  Id = stored[search.data]
  <2>1. search.data \in Datum /\ FoundInv(search)
    BY <1>2 DEF ListInv, SearchInv
  <2>2. search.r \in Int /\ search.data \in Nat
    BY <1>1 DEF SearchType
  <2>3. CASE search.r >= 0
    <3>1. search.r + 1 \in 1 .. Len(sorted) /\ sorted[search.r + 1].data = search.data
      BY <1>1, <2>1, <2>2, <2>3 DEF FoundInv
    <3> QED
      BY <2>2, <2>3, <3>1 DEF ListInv, SortedInv, Id
  <2>4. CASE search.r < 0
    <3>1. BelongsAt(search.data, INDEX(search.r))
      BY <2>1, <2>4 DEF FoundInv
    <3>2. PICK p \in 0 .. Len(sorted) : p = INDEX(search.r)
      BY <3>1 DEF BelongsAt
    <3>3. ASSUME NEW k \in 1 .. Len(sorted)
          PROVE  sorted[k].data # search.data
      <4>1. sorted[k].data \in Nat
        BY SortedData DEF ListInv
      <4>2. k <= p => sorted[k].data < search.data
        BY <3>1, <3>2 DEF BelongsAt
      <4>3. k > p => search.data < sorted[k].data
        BY <3>1, <3>2 DEF BelongsAt
      <4> QED
        BY <2>2, <4>1, <4>2, <4>3
    <3> QED
      BY <2>1, <2>2, <2>4, <3>3 DEF ListInv, SortedInv, Id
  <2> QED
    BY <2>2, <2>3, <2>4
<1>3. search.open => search.i \in 0 .. Len(sorted) - 1
  BY DEF ListInv, SearchInv, LoopInv
<1>4. search.rounds <= 2 * Len(sorted)
  <2>1. search.rounds \in Nat /\ search.d \in {-1, 0, 1} /\ search.delta \in Nat \ {0} /\ search.i \in Int
    BY <1>1 DEF SearchType
  <2>2. CASE search.call = "none"
    BY <1>1, <2>2 DEF ListInv, SearchInv
  <2>3. CASE search.open
    <3>1. LoopInv(search)
      BY <2>3 DEF ListInv, SearchInv
    <3> QED
      BY <1>1, <2>1, <3>1, SMTT(60) DEF LoopInv
  <2>4. CASE search.call # "none" /\ ~search.open
    BY <2>4 DEF ListInv, SearchInv, FoundInv
  <2> QED
    BY <2>2, <2>3, <2>4
<1> QED
  BY <1>2, <1>3, <1>4 DEF FindsWhatWasAdded, ListInv, SortedInv

LEMMA ListInitial == SortedListInit => ListInv
<1> SUFFICES ASSUME SortedListInit PROVE ListInv
  OBVIOUS
<1>1. sorted = << >> /\ sorted \in Seq(Entry) /\ Len(sorted) = 0
  BY DEF SortedListInit
<1>2. SortedInv
  BY <1>1, SortedListAssumption DEF SortedListInit, SortedInv
<1>3. search \in SearchType /\ search.call = "none" /\ search.open = FALSE /\ search.rounds = 0
  BY DEF SortedListInit, NoSearch, SearchType
<1> QED
  BY <1>2, <1>3 DEF ListInv, SearchInv

LEMMA HalfOf ==
  ASSUME NEW m \in Nat
  PROVE  /\ m \div 2 \in Nat /\ 2 * (m \div 2) <= m /\ m <= 2 * (m \div 2) + 1
         /\ Half(m) \in Nat \ {0}
         /\ Half(m) > 1 => 2 * Half(m) <= m
         /\ m > 1 => Half(m) < m
         /\ m <= 1 => Half(m) = 1 /\ m \div 2 = 0
         /\ m > 1 => m \div 2 # 0
<1>1. m \div 2 \in Nat /\ 2 * (m \div 2) <= m /\ m <= 2 * (m \div 2) + 1
  BY Z3
<1>2. PICK h \in Nat : h = m \div 2
  BY <1>1
<1>3. Half(m) = IF h = 0 THEN 1 ELSE h
  BY <1>2 DEF Half
<1> QED
  BY <1>1, <1>2, <1>3

\* In order, what is below one element is below all that follow.
LEMMA OrderOfSorted ==
  ASSUME SortedInv, NEW x \in Nat
  PROVE  /\ \A k, l \in 1 .. Len(sorted) : k <= l /\ sorted[l].data < x => sorted[k].data < x
         /\ \A k, l \in 1 .. Len(sorted) : k <= l /\ x < sorted[k].data => x < sorted[l].data
<1>1. \A k \in 1 .. Len(sorted) : sorted[k].data \in Nat
  BY SortedData
<1>2. \A k, l \in 1 .. Len(sorted) : k < l => sorted[k].data < sorted[l].data
  BY DEF SortedInv
<1>3. Len(sorted) \in Nat
  BY DEF SortedInv
<1> QED
  BY <1>1, <1>2, <1>3

\* A call begins in the middle.
LEMMA CallKeepsList ==
  ASSUME ListInv, NEW call \in {"find", "add", "remove"}, NEW x \in Datum, NEW id \in Nat,
         call = "add" => id = IdOf[x], Calls(call, x, id)
  PROVE  ListInv'
<1> DEFINE n == Len(sorted)
           middle == n \div 2
<1>1. UNCHANGED <<sorted, capacity, stored>>
  BY DEF Calls
<1>2. SortedInv'
  BY <1>1 DEF ListInv, SortedInv, Entry
<1>3. n \in Nat /\ x \in Nat /\ sorted \in Seq(Entry)
  BY SortedListAssumption DEF ListInv, SortedInv
<1>4. /\ middle \in Nat /\ 2 * middle <= n /\ n <= 2 * middle + 1
      /\ Half(middle) \in Nat \ {0} /\ (Half(middle) > 1 => 2 * Half(middle) <= middle)
      /\ (middle > 1 => Half(middle) < middle) /\ (middle <= 1 => Half(middle) = 1)
  BY <1>3, HalfOf
<1>5. search' = [call |-> call, data |-> x, id |-> id, open |-> sorted # << >>,
                 i |-> middle, delta |-> Half(middle), d |-> -1, r |-> INDEX(0), rounds |-> 0]
  BY DEF Calls
<1>6. search' \in SearchType /\ search'.call = call /\ search'.data = x /\ search'.id = id
  BY <1>3, <1>4, <1>5 DEF SearchType, INDEX
<1>7. /\ search'.i = middle /\ search'.delta = Half(middle) /\ search'.d = -1
      /\ search'.r = -1 /\ search'.rounds = 0
  BY <1>5 DEF INDEX
<1>8. search'.open <=> sorted # << >>
  BY <1>5
<1>9. ASSUME search'.open PROVE LoopInv(search)'
  <2>1. n >= 1
    BY <1>3, <1>8, <1>9
  <2> HIDE DEF middle
  <2>2. middle \in 0 .. n - 1
    BY <1>3, <1>4, <2>1
  <2>3. Half(middle) > 1 => 2 * Half(middle) <= n - middle
    BY <1>3, <1>4
  <2>4. 0 + Half(middle) <= n
    BY <1>3, <1>4, <2>1
  <2> QED
    BY <1>1, <1>4, <1>7, <2>2, <2>3, <2>4 DEF LoopInv
<1>10. ASSUME ~search'.open PROVE FoundInv(search)'
  <2>1. n = 0
    BY <1>8, <1>10
  <2>2. INDEX(search.r)' = 0
    <3>1. PICK r \in Int : r = search'.r /\ r + 1 = 0
      BY <1>7
    <3>2. -r - 1 = 0
      BY <3>1
    <3> QED
      BY <3>1, <3>2 DEF INDEX
  <2>3. BelongsAt(search.data, INDEX(search.r))'
    BY <1>1, <2>1, <2>2 DEF BelongsAt
  <2> QED
    BY <1>1, <1>7, <2>1, <2>3 DEF FoundInv
<1>11. SearchInv'
  <2>1. search'.call # "none"
    BY <1>6
  <2> QED
    BY <1>6, <1>9, <1>10, <2>1 DEF SearchInv, SearchType
<1> QED
  BY <1>2, <1>11 DEF ListInv

\* What a round leaves, field by field.
LEMMA ReturnedRecord ==
  ASSUME NEW s \in SearchType, NEW r \in Int, NEW t, t = Returned(s, r)
  PROVE  /\ t \in SearchType /\ ~t.open /\ t.r = r
         /\ t.call = s.call /\ t.data = s.data /\ t.id = s.id /\ t.rounds = s.rounds
BY DEF Returned, SearchType

LEMMA MovedRecord ==
  ASSUME NEW s \in SearchType, NEW i \in Int, NEW way \in {0, 1},
         NEW t, t = Moved(s, i, way)
  PROVE  /\ t \in SearchType /\ t.open = s.open /\ t.i = i
         /\ t.call = s.call /\ t.data = s.data /\ t.id = s.id /\ t.rounds = s.rounds
         /\ s.delta > 1 => t.delta < s.delta /\ t.d = s.d /\ (t.delta > 1 => 2 * t.delta <= s.delta)
         /\ s.delta = 1 => t.delta = 1 /\ t.d = way
<1>1. s.delta \in Nat \ {0} /\ s.d \in {-1, 0, 1}
  BY DEF SearchType
<1>2. PICK h \in Nat \ {0} : /\ h = Half(s.delta) /\ (h > 1 => 2 * h <= s.delta)
                             /\ (s.delta > 1 => h < s.delta) /\ (s.delta = 1 => h = 1)
  BY <1>1, HalfOf
<1>3. PICK w \in {-1, 0, 1} : /\ w = Turned(s.delta, s.d, way)
                              /\ (s.delta > 1 => w = s.d) /\ (s.delta = 1 => w = way)
  <2>1. s.delta > 1 => s.delta \div 2 # 0
    BY <1>1, HalfOf
  <2>2. s.delta = 1 => s.delta \div 2 = 0
    BY <1>1, HalfOf
  <2> QED
    BY <1>1, <2>1, <2>2 DEF Turned
<1>4. Moved(s, i, way) = [s EXCEPT !.i = i, !.delta = h, !.d = w]
  BY <1>2, <1>3 DEF Moved
<1>5. /\ t \in SearchType /\ t.open = s.open /\ t.i = i /\ t.delta = h /\ t.d = w
      /\ t.call = s.call /\ t.data = s.data /\ t.id = s.id /\ t.rounds = s.rounds
  BY <1>4 DEF SearchType
<1> QED
  BY <1>2, <1>3, <1>5

\* A round keeps the order it relies on, and finds the place when it returns.
LEMMA RoundIsSound ==
  ASSUME SortedInv, NEW s \in SearchType, s.open, s.data \in Datum, LoopInv(s),
         NEW t, t = Round([s EXCEPT !.rounds = @ + 1])
  PROVE  /\ t \in SearchType /\ t.call = s.call /\ t.data = s.data /\ t.id = s.id
         /\ t.open => LoopInv(t)
         /\ ~t.open => FoundInv(t)
<1> DEFINE n == Len(sorted)
           u == [s EXCEPT !.rounds = @ + 1]
           at == sorted[s.i + 1].data
           x == s.data
<1>1. n \in Nat /\ \A k \in 1 .. n : sorted[k].data \in Nat
  BY SortedData
<1>2. /\ s.i \in 0 .. n - 1 /\ s.delta \in Nat \ {0} /\ s.d \in {-1, 0, 1} /\ s.rounds \in Nat
      /\ x \in Nat /\ at \in Nat /\ s.i + 1 \in 1 .. n
  <2>1. s.i \in 0 .. n - 1 /\ s.delta \in Nat \ {0} /\ s.d \in {-1, 0, 1} /\ s.rounds \in Nat /\ x \in Nat
    BY DEF LoopInv, SearchType
  <2>2. s.i + 1 \in 1 .. n
    BY <1>1, <2>1
  <2> QED
    BY <1>1, <2>1, <2>2
<1>3. /\ u \in SearchType /\ u.open /\ u.rounds = s.rounds + 1
      /\ u.i = s.i /\ u.delta = s.delta /\ u.d = s.d /\ u.data = s.data /\ u.call = s.call /\ u.id = s.id
  <2>1. PICK w \in Nat : w = s.rounds + 1
    BY <1>2
  <2>2. u = [s EXCEPT !.rounds = w]
    BY <2>1
  <2> HIDE DEF u
  <2> QED
    BY <2>1, <2>2 DEF SearchType
<1>4. /\ s.delta > 1 => 2 * s.delta <= s.i /\ 2 * s.delta <= n - s.i
      /\ s.d # -1 => s.delta = 1
      /\ s.d = -1 => s.rounds + s.delta <= n
      /\ s.d = 1 => s.i >= 1 /\ sorted[s.i].data < s.data /\ s.rounds <= n + s.i - 1
      /\ s.d = 0 => s.i + 1 < n /\ s.data < sorted[s.i + 2].data /\ s.rounds <= n + (n - 2 - s.i)
  BY DEF LoopInv
<1>5. u.rounds <= 2 * n
  BY <1>1, <1>2, <1>3, <1>4, SMTT(60)
<1>6. Round(u) = IF x = at THEN Returned(u, u.i)
                 ELSE IF x > at
                 THEN IF u.d = 0 \/ u.i + u.delta = n THEN Returned(u, INDEX(u.i + u.delta))
                      ELSE Moved(u, u.i + u.delta, 1)
                 ELSE IF u.d = 1 \/ u.i = 0 THEN Returned(u, INDEX(u.i)) ELSE Moved(u, u.i - u.delta, 0)
  BY <1>3 DEF Round
<1>7. t = Round(u)
  OBVIOUS
<1> HIDE DEF u, n, at, x
<1>8. CASE x = at
  <2>1. t = Returned(u, u.i) /\ u.i \in Int
    BY <1>2, <1>3, <1>6, <1>7, <1>8
  <2>2. t \in SearchType /\ ~t.open /\ t.r = u.i /\ t.call = s.call /\ t.data = s.data /\ t.id = s.id /\ t.rounds = u.rounds
    BY <1>3, <2>1, ReturnedRecord
  <2>3. FoundInv(t)
    BY <1>1, <1>2, <1>3, <1>5, <1>8, <2>2 DEF FoundInv, n, at, x
  <2> QED
    BY <2>2, <2>3
<1>9. CASE x > at /\ (u.d = 0 \/ u.i + u.delta = n)
  <2>1. t = Returned(u, INDEX(u.i + u.delta))
    BY <1>2, <1>6, <1>7, <1>9
  <2>2. PICK j \in Int : j = INDEX(u.i + u.delta) /\ j < 0 /\ INDEX(j) = u.i + u.delta
    BY <1>2, <1>3 DEF INDEX
  <2>3. /\ t \in SearchType /\ ~t.open /\ t.r = j
        /\ t.call = s.call /\ t.data = s.data /\ t.id = s.id /\ t.rounds = u.rounds
    BY <1>3, <2>1, <2>2, ReturnedRecord
  <2>4. s.delta = 1 /\ s.i + 1 \in 0 .. n
    BY <1>1, <1>2, <1>3, <1>4, <1>9
  <2>5. \A k \in 1 .. n : k <= s.i + 1 => sorted[k].data < x
    BY <1>2, <1>9, OrderOfSorted DEF n, at
  <2>6. \A k \in 1 .. n : k > s.i + 1 => x < sorted[k].data
    <3>1. CASE u.d = 0
      <4>1. s.i + 2 \in 1 .. n /\ x < sorted[s.i + 2].data
        BY <1>1, <1>2, <1>3, <1>4, <3>1 DEF x
      <4>2. \A k \in 1 .. n : s.i + 2 <= k => x < sorted[k].data
        BY <1>2, <4>1, OrderOfSorted DEF n
      <4> QED
        BY <1>2, <4>2
    <3>2. CASE u.i + u.delta = n
      BY <1>1, <1>2, <1>3, <2>4, <3>2
    <3> QED
      BY <1>9, <3>1, <3>2
  <2>7. BelongsAt(x, s.i + 1)
    BY <2>4, <2>5, <2>6 DEF BelongsAt, n
  <2>8. INDEX(t.r) = s.i + 1
    BY <1>3, <2>2, <2>3, <2>4
  <2>9. FoundInv(t)
    BY <1>5, <2>2, <2>3, <2>7, <2>8 DEF FoundInv, n, x
  <2> QED
    BY <2>3, <2>9
<1>10. CASE x > at /\ ~(u.d = 0 \/ u.i + u.delta = n)
  <2>1. PICK j \in Int : j = u.i + u.delta
    BY <1>2, <1>3
  <2>2. t = Moved(u, j, 1)
    BY <1>2, <1>6, <1>7, <1>10, <2>1
  <2>3. /\ t \in SearchType /\ t.open = u.open /\ t.i = j
        /\ t.call = u.call /\ t.data = u.data /\ t.id = u.id /\ t.rounds = u.rounds
        /\ u.delta > 1 => t.delta < u.delta /\ t.d = u.d /\ (t.delta > 1 => 2 * t.delta <= u.delta)
        /\ u.delta = 1 => t.delta = 1 /\ t.d = 1
    BY <1>3, <2>2, MovedRecord
  <2>4. /\ t \in SearchType /\ t.open /\ t.i = s.i + s.delta
        /\ t.call = s.call /\ t.data = s.data /\ t.id = s.id /\ t.rounds = s.rounds + 1
        /\ s.delta > 1 => t.delta < s.delta /\ t.d = s.d /\ (t.delta > 1 => 2 * t.delta <= s.delta)
        /\ s.delta = 1 => t.delta = 1 /\ t.d = 1
    BY <1>3, <2>1, <2>3
  <2>5. t.delta \in Nat \ {0}
    BY <2>4 DEF SearchType
  <2>6. LoopInv(t)
    <3>1. CASE s.delta > 1
      <4>1. s.d = -1
        BY <1>2, <1>4, <3>1
      <4>2. t.i \in 0 .. n - 1
        BY <1>1, <1>2, <1>4, <2>4, <3>1
      <4>3. t.delta > 1 => 2 * t.delta <= t.i /\ 2 * t.delta <= n - t.i
        BY <1>1, <1>2, <1>4, <2>4, <2>5, <3>1
      <4>4. t.d = -1 /\ t.rounds + t.delta <= n
        BY <1>1, <1>2, <1>4, <2>4, <2>5, <3>1, <4>1
      <4> QED
        BY <4>2, <4>3, <4>4 DEF LoopInv, n
    <3>2. CASE s.delta = 1
      <4>1. t.i = s.i + 1 /\ t.i \in 0 .. n - 1 /\ t.delta = 1 /\ t.d = 1
        BY <1>1, <1>2, <1>3, <1>10, <2>4, <3>2
      <4>2. sorted[t.i].data < t.data
        BY <1>10, <2>4, <4>1 DEF at, x
      <4>3. t.rounds <= n + t.i - 1
        BY <1>1, <1>2, <1>3, <1>4, <1>10, <2>4, <3>2, <4>1
      <4> QED
        BY <1>2, <4>1, <4>2, <4>3, SMTT(60) DEF LoopInv, n
    <3> QED
      BY <1>2, <3>1, <3>2
  <2> QED
    BY <2>4, <2>6
<1>11. CASE x < at /\ (u.d = 1 \/ u.i = 0)
  <2>1. t = Returned(u, INDEX(u.i))
    BY <1>2, <1>6, <1>7, <1>11
  <2>2. PICK j \in Int : j = INDEX(u.i) /\ j < 0 /\ INDEX(j) = u.i
    BY <1>2, <1>3 DEF INDEX
  <2>3. /\ t \in SearchType /\ ~t.open /\ t.r = j
        /\ t.call = s.call /\ t.data = s.data /\ t.id = s.id /\ t.rounds = u.rounds
    BY <1>3, <2>1, <2>2, ReturnedRecord
  <2>4. s.i \in 0 .. n
    BY <1>1, <1>2
  <2>5. \A k \in 1 .. n : k > s.i => x < sorted[k].data
    <3>1. \A k \in 1 .. n : s.i + 1 <= k => x < sorted[k].data
      BY <1>2, <1>11, OrderOfSorted DEF n, at
    <3> QED
      BY <1>2, <3>1
  <2>6. \A k \in 1 .. n : k <= s.i => sorted[k].data < x
    <3>1. CASE u.d = 1
      <4>1. s.i \in 1 .. n /\ sorted[s.i].data < x
        BY <1>1, <1>2, <1>3, <1>4, <3>1 DEF x
      <4> QED
        BY <1>2, <4>1, OrderOfSorted DEF n
    <3>2. CASE u.i = 0
      BY <1>1, <1>2, <1>3, <3>2
    <3> QED
      BY <1>11, <3>1, <3>2
  <2>7. BelongsAt(x, s.i)
    BY <2>4, <2>5, <2>6 DEF BelongsAt, n
  <2>8. INDEX(t.r) = s.i
    BY <1>3, <2>2, <2>3
  <2>9. FoundInv(t)
    BY <1>5, <2>2, <2>3, <2>7, <2>8 DEF FoundInv, n, x
  <2> QED
    BY <2>3, <2>9
<1>12. CASE x < at /\ ~(u.d = 1 \/ u.i = 0)
  <2>1. PICK j \in Int : j = u.i - u.delta
    BY <1>2, <1>3
  <2>2. t = Moved(u, j, 0)
    BY <1>2, <1>6, <1>7, <1>12, <2>1
  <2>3. /\ t \in SearchType /\ t.open = u.open /\ t.i = j
        /\ t.call = u.call /\ t.data = u.data /\ t.id = u.id /\ t.rounds = u.rounds
        /\ u.delta > 1 => t.delta < u.delta /\ t.d = u.d /\ (t.delta > 1 => 2 * t.delta <= u.delta)
        /\ u.delta = 1 => t.delta = 1 /\ t.d = 0
    BY <1>3, <2>2, MovedRecord
  <2>4. /\ t \in SearchType /\ t.open /\ t.i = s.i - s.delta
        /\ t.call = s.call /\ t.data = s.data /\ t.id = s.id /\ t.rounds = s.rounds + 1
        /\ s.delta > 1 => t.delta < s.delta /\ t.d = s.d /\ (t.delta > 1 => 2 * t.delta <= s.delta)
        /\ s.delta = 1 => t.delta = 1 /\ t.d = 0
    BY <1>3, <2>1, <2>3
  <2>5. t.delta \in Nat \ {0}
    BY <2>4 DEF SearchType
  <2>6. LoopInv(t)
    <3>1. CASE s.delta > 1
      <4>1. s.d = -1
        BY <1>2, <1>4, <3>1
      <4>2. t.i \in 0 .. n - 1
        BY <1>1, <1>2, <1>4, <2>4, <3>1
      <4>3. t.delta > 1 => 2 * t.delta <= t.i /\ 2 * t.delta <= n - t.i
        BY <1>1, <1>2, <1>4, <2>4, <2>5, <3>1
      <4>4. t.d = -1 /\ t.rounds + t.delta <= n
        BY <1>1, <1>2, <1>4, <2>4, <2>5, <3>1, <4>1
      <4> QED
        BY <4>2, <4>3, <4>4 DEF LoopInv, n
    <3>2. CASE s.delta = 1
      <4>1. t.i = s.i - 1 /\ t.i \in 0 .. n - 1 /\ t.delta = 1 /\ t.d = 0 /\ t.i + 1 < n /\ t.i + 2 = s.i + 1
        BY <1>1, <1>2, <1>3, <1>12, <2>4, <3>2
      <4>2. t.data < sorted[t.i + 2].data
        BY <1>12, <2>4, <4>1 DEF at, x
      <4>3. t.rounds <= n + (n - 2 - t.i)
        BY <1>1, <1>2, <1>3, <1>4, <1>12, <2>4, <3>2, <4>1
      <4> QED
        BY <4>1, <4>2, <4>3 DEF LoopInv, n
    <3> QED
      BY <1>2, <3>1, <3>2
  <2> QED
    BY <2>4, <2>6
<1> QED
  BY <1>2, <1>8, <1>9, <1>10, <1>11, <1>12, <1>7

LEMMA RoundKeepsList ==
  ASSUME ListInv, find
  PROVE  ListInv'
<1>1. /\ UNCHANGED <<sorted, capacity, stored>> /\ search.open
      /\ search' = Round([search EXCEPT !.rounds = @ + 1])
  BY DEF find
<1>2. SortedInv'
  BY <1>1 DEF ListInv, SortedInv, Entry
<1>3. search \in SearchType /\ search.call # "none" /\ search.data \in Datum /\ LoopInv(search) /\ SortedInv
  BY <1>1 DEF ListInv, SearchInv
<1>4. PICK t : t = Round([search EXCEPT !.rounds = @ + 1])
  OBVIOUS
<1>5. /\ t \in SearchType /\ t.call = search.call /\ t.data = search.data /\ t.id = search.id
      /\ t.open => LoopInv(t)
      /\ ~t.open => FoundInv(t)
  BY <1>1, <1>3, <1>4, RoundIsSound
<1>6. search' = t
  BY <1>1, <1>4
<1>7. (t.open => LoopInv(search)') /\ (~t.open => FoundInv(search)')
  BY <1>1, <1>5, <1>6 DEF LoopInv, FoundInv, BelongsAt, INDEX
<1>8. search.call = "add" => search.id = IdOf[search.data]
  BY DEF ListInv, SearchInv
<1>9. SearchInv'
  BY <1>3, <1>5, <1>6, <1>7, <1>8 DEF SearchInv, SearchType
<1> QED
  BY <1>2, <1>9 DEF ListInv

LEMMA ReturnKeepsSearch ==
  ASSUME search' = NoSearch
  PROVE  SearchInv'
<1>1. search' \in SearchType /\ search'.call = "none" /\ search'.open = FALSE /\ search'.rounds = 0
  BY DEF NoSearch, SearchType
<1> QED
  BY <1>1 DEF SearchInv, SearchType

\* What is added goes where it belongs.
LEMMA AddKeepsList ==
  ASSUME ListInv, bs_list_add
  PROVE  ListInv'
<1> DEFINE n == Len(sorted)
           x == search.data
           place == INDEX(search.r)
           new == [data |-> x, id |-> search.id]
<1>1. /\ search.call = "add" /\ ~search.open /\ search' = NoSearch /\ search.r < 0
      /\ capacity' = IF n = capacity THEN n + n \div 2 + 1 ELSE capacity
      /\ sorted' = [k \in 1 .. n + 1 |-> IF k <= place THEN sorted[k]
                                         ELSE IF k = place + 1 THEN new ELSE sorted[k - 1]]
      /\ stored' = [stored EXCEPT ![x] = search.id]
  BY DEF bs_list_add, Found
<1>2. /\ n \in Nat /\ capacity \in Nat /\ n <= capacity /\ sorted \in Seq(Entry)
      /\ stored \in [Datum -> Nat \cup {NotStored}] /\ SortedInv
  BY SortedData DEF ListInv, SortedInv
<1>3. x \in Datum /\ search.id \in Nat /\ BelongsAt(x, place) /\ x \in Nat /\ new \in Entry
  <2>1. x \in Datum /\ FoundInv(search) /\ search \in SearchType
    BY <1>1 DEF ListInv, SearchInv
  <2>2. search.id \in Nat /\ x \in Nat
    BY <2>1 DEF SearchType
  <2> QED
    BY <1>1, <2>1, <2>2 DEF FoundInv, Entry
<1>4. PICK p \in 0 .. n : p = place
  BY <1>3 DEF BelongsAt
<1>5. /\ \A k \in 1 .. n : k <= p => sorted[k].data < x
      /\ \A k \in 1 .. n : k > p => x < sorted[k].data
  BY <1>3, <1>4 DEF BelongsAt
<1> HIDE DEF place
<1>6. PICK e \in Entry : e = new /\ e.data = x /\ e.id = search.id
  BY <1>3
<1> HIDE DEF new, n, x
<1>7. /\ DOMAIN sorted' = 1 .. n + 1
      /\ \A k \in 1 .. n + 1 : sorted'[k] = IF k <= p THEN sorted[k] ELSE IF k = p + 1 THEN e ELSE sorted[k - 1]
  BY <1>1, <1>4, <1>6
<1>8. /\ \A k \in 1 .. n : k <= p => sorted'[k] = sorted[k]
      /\ \A k \in 1 .. n : k > p => sorted'[k + 1] = sorted[k]
      /\ sorted'[p + 1] = e
  BY <1>2, <1>7
<1>9. \A k \in 1 .. n : sorted[k] \in Entry
  BY <1>2 DEF n
<1>10. \A k \in 1 .. n + 1 :
         \/ k \in 1 .. n /\ k <= p /\ sorted'[k] = sorted[k]
         \/ k = p + 1 /\ sorted'[k] = e
         \/ k - 1 \in 1 .. n /\ k - 1 > p /\ sorted'[k] = sorted[k - 1]
  BY <1>2, <1>7
<1>11. sorted' \in Seq(Entry) /\ Len(sorted') = n + 1
  <2>1. sorted' \in [1 .. n + 1 -> Entry]
    <3>1. \A k \in 1 .. n + 1 : sorted'[k] \in Entry
      BY <1>9, <1>10
    <3>2. sorted' = [k \in 1 .. n + 1 |-> sorted'[k]]
      BY <1>1
    <3> QED
      BY <3>1, <3>2
  <2> QED
    BY <1>2, <2>1
<1>12. \A k \in 1 .. n : sorted[k].data \in Nat /\ sorted[k].data \in Datum
  BY <1>2, SortedData DEF n
<1>13. \A k, l \in 1 .. n + 1 : k < l => sorted'[k].data < sorted'[l].data
  <2> SUFFICES ASSUME NEW k \in 1 .. n + 1, NEW l \in 1 .. n + 1, k < l
               PROVE  sorted'[k].data < sorted'[l].data
    OBVIOUS
  <2>1. \A a, b \in 1 .. n : a < b => sorted[a].data < sorted[b].data
    BY <1>2 DEF SortedInv, n
  <2>2. CASE k \in 1 .. n /\ k <= p /\ sorted'[k] = sorted[k]
    <3>1. CASE l \in 1 .. n /\ l <= p /\ sorted'[l] = sorted[l]
      BY <2>1, <2>2, <3>1
    <3>2. CASE l = p + 1 /\ sorted'[l] = e
      BY <1>5, <1>6, <2>2, <3>2
    <3>3. CASE l - 1 \in 1 .. n /\ l - 1 > p /\ sorted'[l] = sorted[l - 1]
      <4>1. k < l - 1
        BY <1>4, <2>2, <3>3
      <4> QED
        BY <2>1, <2>2, <3>3, <4>1
    <3> QED
      BY <1>10, <3>1, <3>2, <3>3
  <2>3. CASE k = p + 1 /\ sorted'[k] = e
    <3>1. l - 1 \in 1 .. n /\ l - 1 > p /\ sorted'[l] = sorted[l - 1]
      BY <1>2, <1>4, <1>10, <2>3
    <3> QED
      BY <1>5, <1>6, <2>3, <3>1
  <2>4. CASE k - 1 \in 1 .. n /\ k - 1 > p /\ sorted'[k] = sorted[k - 1]
    <3>1. l - 1 \in 1 .. n /\ l - 1 > p /\ sorted'[l] = sorted[l - 1] /\ k - 1 < l - 1
      BY <1>2, <1>4, <1>10, <2>4
    <3> QED
      BY <2>1, <2>4, <3>1
  <2> QED
    BY <1>10, <2>2, <2>3, <2>4
<1>14. /\ stored' \in [Datum -> Nat \cup {NotStored}] /\ stored'[x] = e.id
       /\ \A y \in Datum : y # x => stored'[y] = stored[y]
  BY <1>1, <1>2, <1>3, <1>6
<1>15. \A k \in 1 .. n : sorted[k].data # x
  BY <1>4, <1>5, <1>12, <1>3
<1>16. \A k \in 1 .. n : stored[sorted[k].data] = sorted[k].id
  BY <1>2 DEF SortedInv, n
<1>17. \A k \in 1 .. n + 1 : stored'[sorted'[k].data] = sorted'[k].id
  BY <1>6, <1>10, <1>12, <1>14, <1>15, <1>16
<1>18. ASSUME NEW y \in Datum, stored'[y] # NotStored
       PROVE  \E k \in 1 .. n + 1 : sorted'[k].data = y
  <2>1. CASE y = x
    <3>1. p + 1 \in 1 .. n + 1
      BY <1>2, <1>4
    <3> QED
      BY <1>6, <1>8, <2>1, <3>1
  <2>2. CASE y # x
    <3>1. stored[y] # NotStored
      BY <1>14, <1>18, <2>2
    <3>2. PICK k \in 1 .. n : sorted[k].data = y
      BY <1>2, <3>1 DEF SortedInv, n
    <3>3. k \in 1 .. n + 1 /\ k + 1 \in 1 .. n + 1
      BY <1>2
    <3>4. CASE k <= p
      BY <1>8, <3>2, <3>3, <3>4
    <3>5. CASE k > p
      BY <1>8, <3>2, <3>3, <3>5
    <3> QED
      BY <1>4, <3>4, <3>5
  <2> QED
    BY <2>1, <2>2
<1>19. capacity' \in Nat /\ n + 1 <= capacity'
  <2>1. PICK h \in Nat : h = n \div 2
    BY <1>2, HalfOf
  <2> QED
    BY <1>1, <1>2, <2>1 DEF n
<1>20. SortedInv'
  BY <1>11, <1>13, <1>14, <1>17, <1>18, <1>19 DEF SortedInv, Entry, NotStored
<1> QED
  BY <1>1, <1>20, ReturnKeepsSearch DEF ListInv

\* What is removed is the element that was found.
LEMMA RemoveKeepsList ==
  ASSUME ListInv, bs_list_remove
  PROVE  ListInv'
<1> DEFINE n == Len(sorted)
           x == search.data
           Resized == capacity' = capacity \/ (n < capacity \div 2 /\ capacity' = capacity \div 2)
<1> HIDE DEF Resized
<1>1. search.call = "remove" /\ ~search.open /\ search' = NoSearch
  BY DEF bs_list_remove, Found
<1>2. /\ n \in Nat /\ capacity \in Nat /\ n <= capacity /\ sorted \in Seq(Entry)
      /\ stored \in [Datum -> Nat \cup {NotStored}] /\ SortedInv
  BY SortedData DEF ListInv, SortedInv
<1>3. x \in Datum /\ FoundInv(search) /\ search \in SearchType
  BY <1>1 DEF ListInv, SearchInv
<1>4. CASE UNCHANGED <<sorted, capacity, stored>>
  <2>1. SortedInv'
    BY <1>2, <1>4 DEF SortedInv, Entry
  <2> QED
    BY <1>1, <2>1, ReturnKeepsSearch DEF ListInv
<1>5. CASE /\ search.r >= 0
           /\ Resized
           /\ sorted' = [k \in 1 .. n - 1 |-> IF k <= search.r THEN sorted[k] ELSE sorted[k + 1]]
           /\ stored' = [stored EXCEPT ![x] = NotStored]
  <2>1. PICK p \in Nat : p = search.r /\ p < n /\ sorted[p + 1].data = x
    <3>1. search.r \in Int
      BY <1>3 DEF SearchType
    <3> QED
      BY <1>3, <1>5, <3>1 DEF FoundInv
  <2> HIDE DEF n, x
  <2>2. DOMAIN sorted' = 1 .. n - 1
    BY <1>5
  <2>3. \A k \in 1 .. n - 1 : sorted'[k] = IF k <= p THEN sorted[k] ELSE sorted[k + 1]
    BY <1>5, <2>1
  <2>4. \A k \in 1 .. n - 1 : \/ k \in 1 .. n /\ k <= p /\ sorted'[k] = sorted[k]
                              \/ k + 1 \in 1 .. n /\ k > p /\ sorted'[k] = sorted[k + 1]
    BY <1>2, <2>1, <2>3
  <2>5. \A k \in 1 .. n : sorted[k] \in Entry
    BY <1>2 DEF n
  <2>6. sorted' \in Seq(Entry) /\ Len(sorted') = n - 1
    <3>1. \A k \in 1 .. n - 1 : sorted'[k] \in Entry
      BY <2>4, <2>5
    <3>2. sorted' = [k \in 1 .. n - 1 |-> sorted'[k]]
      BY <1>5
    <3>3. sorted' \in [1 .. n - 1 -> Entry]
      BY <3>1, <3>2
    <3>4. n - 1 \in Nat
      BY <1>2, <2>1
    <3> QED
      BY <3>3, <3>4
  <2>7. \A k \in 1 .. n : sorted[k].data \in Nat /\ sorted[k].data \in Datum
    BY <1>2, SortedData DEF n
  <2>8. \A k, l \in 1 .. n : k < l => sorted[k].data < sorted[l].data
    BY <1>2 DEF SortedInv, n
  <2>9. \A k, l \in 1 .. n - 1 : k < l => sorted'[k].data < sorted'[l].data
    <3> SUFFICES ASSUME NEW k \in 1 .. n - 1, NEW l \in 1 .. n - 1, k < l
                 PROVE  sorted'[k].data < sorted'[l].data
      OBVIOUS
    <3>1. CASE k \in 1 .. n /\ k <= p /\ sorted'[k] = sorted[k]
      <4>1. CASE l \in 1 .. n /\ l <= p /\ sorted'[l] = sorted[l]
        BY <2>8, <3>1, <4>1
      <4>2. CASE l + 1 \in 1 .. n /\ l > p /\ sorted'[l] = sorted[l + 1]
        <5>1. k < l + 1
          OBVIOUS
        <5> QED
          BY <2>8, <3>1, <4>2, <5>1
      <4> QED
        BY <2>4, <4>1, <4>2
    <3>2. CASE k + 1 \in 1 .. n /\ k > p /\ sorted'[k] = sorted[k + 1]
      <4>1. l + 1 \in 1 .. n /\ sorted'[l] = sorted[l + 1] /\ k + 1 < l + 1
        BY <1>2, <2>1, <2>4, <3>2
      <4> QED
        BY <2>8, <3>2, <4>1
    <3> QED
      BY <2>4, <3>1, <3>2
  <2>10. p + 1 \in 1 .. n /\ \A k \in 1 .. n : k # p + 1 => sorted[k].data # x
    <3>1. p + 1 \in 1 .. n
      BY <1>2, <2>1
    <3>2. ASSUME NEW k \in 1 .. n, k # p + 1
          PROVE  sorted[k].data # x
      <4>1. k < p + 1 \/ p + 1 < k
        BY <2>1, <3>2
      <4> QED
        BY <2>1, <2>7, <2>8, <3>1, <4>1
    <3> QED
      BY <3>1, <3>2
  <2>11. /\ stored' \in [Datum -> Nat \cup {NotStored}] /\ stored'[x] = NotStored
         /\ \A y \in Datum : y # x => stored'[y] = stored[y]
    BY <1>2, <1>3, <1>5 DEF x
  <2>12. \A k \in 1 .. n - 1 : sorted'[k].data \in Datum /\ sorted'[k].data # x
                               /\ stored[sorted'[k].data] = sorted'[k].id
    <3>1. \A k \in 1 .. n : stored[sorted[k].data] = sorted[k].id
      BY <1>2 DEF SortedInv, n
    <3>2. \A k \in 1 .. n - 1 : k <= p => k # p + 1
      BY <2>1
    <3>3. \A k \in 1 .. n - 1 : k > p => k + 1 # p + 1
      BY <2>1
    <3> QED
      BY <2>4, <2>7, <2>10, <3>1, <3>2, <3>3
  <2>13. ASSUME NEW y \in Datum, stored'[y] # NotStored
         PROVE  \E k \in 1 .. n - 1 : sorted'[k].data = y
    <3>1. y # x /\ stored[y] # NotStored
      BY <2>11, <2>13
    <3>2. PICK k \in 1 .. n : sorted[k].data = y
      BY <1>2, <3>1 DEF SortedInv, n
    <3>3. k # p + 1
      BY <2>1, <3>1, <3>2
    <3>4. CASE k <= p
      <4>1. k \in 1 .. n - 1 /\ sorted'[k] = sorted[k]
        BY <1>2, <2>1, <2>3, <3>4
      <4> QED
        BY <3>2, <4>1
    <3>5. CASE k > p + 1
      <4>1. k - 1 \in 1 .. n - 1 /\ ~(k - 1 <= p) /\ (k - 1) + 1 = k
        BY <1>2, <2>1, <3>5
      <4>2. sorted'[k - 1] = sorted[k]
        BY <2>3, <4>1
      <4> QED
        BY <3>2, <4>1, <4>2
    <3> QED
      BY <2>1, <3>3, <3>4, <3>5
  <2>14. capacity' \in Nat /\ n - 1 <= capacity'
    <3>1. PICK h \in Nat : h = capacity \div 2
      BY <1>2, HalfOf
    <3> QED
      BY <1>2, <1>5, <3>1 DEF n, Resized
  <2>15. SortedInv'
    BY <2>6, <2>9, <2>11, <2>12, <2>13, <2>14 DEF SortedInv, Entry, NotStored
  <2> QED
    BY <1>1, <2>15, ReturnKeepsSearch DEF ListInv
<1>6. search.r \in Int
  BY <1>3 DEF SearchType
<1>7. search.r < 0 \/ search.r >= 0
  BY <1>6
<1>8. \/ UNCHANGED <<sorted, capacity, stored>>
      \/ /\ ~(search.r < 0)
         /\ Resized
         /\ sorted' = [k \in 1 .. n - 1 |-> IF k <= search.r THEN sorted[k] ELSE sorted[k + 1]]
         /\ stored' = [stored EXCEPT ![x] = NotStored]
  BY DEF bs_list_remove, Resized
<1> QED
  BY <1>4, <1>5, <1>7, <1>8

LEMMA StepKeepsList == ListInv /\ [SortedListNext]_listVars => ListInv'
<1> SUFFICES ASSUME ListInv, [SortedListNext]_listVars PROVE ListInv'
  OBVIOUS
<1>1. ASSUME NEW x \in Datum,
             \/ Calls("find", x, 0) \/ Calls("add", x, IdOf[x])
             \/ \E id \in {IdOf[y] : y \in Datum} : Calls("remove", x, id)
      PROVE  ListInv'
  <2>1. \A y \in Datum : IdOf[y] \in Nat
    BY SortedListAssumption
  <2>2. CASE Calls("find", x, 0)
    BY <2>2, CallKeepsList
  <2>3. CASE Calls("add", x, IdOf[x])
    BY <2>1, <2>3, CallKeepsList
  <2>4. ASSUME NEW y \in Datum, Calls("remove", x, IdOf[y])
        PROVE  ListInv'
    BY <2>1, <2>4, CallKeepsList
  <2> QED
    BY <1>1, <2>2, <2>3, <2>4
<1>2. CASE find
  BY <1>2, RoundKeepsList
<1>3. ASSUME search' = NoSearch, UNCHANGED <<sorted, capacity, stored>>
      PROVE  ListInv'
  <2>1. SortedInv'
    BY <1>3 DEF ListInv, SortedInv, Entry
  <2> QED
    BY <1>3, <2>1, ReturnKeepsSearch DEF ListInv
<1>4. CASE bs_list_find \/ AddRefused
  BY <1>3, <1>4 DEF bs_list_find, AddRefused, Found
<1>5. CASE bs_list_add
  BY <1>5, AddKeepsList
<1>6. CASE bs_list_remove
  BY <1>6, RemoveKeepsList
<1>7. CASE UNCHANGED listVars
  <2>1. UNCHANGED <<sorted, capacity, stored, search>>
    BY <1>7 DEF listVars
  <2>2. SortedInv'
    BY <2>1 DEF ListInv, SortedInv, Entry
  <2>3. SearchInv'
    BY <2>1 DEF ListInv, SearchInv, SearchType, LoopInv, FoundInv, BelongsAt, INDEX
  <2> QED
    BY <2>2, <2>3 DEF ListInv
<1> QED
  BY <1>1, <1>2, <1>4, <1>5, <1>6, <1>7 DEF SortedListNext

\* Whatever was added and removed, a search of the sorted list ends, stays in the
\* array and gives the id of the datum, or says that it is not there (find,
\* bs_list_find, bs_list_add and bs_list_remove of list.c).
THEOREM ListsFindWhatWasAdded == SortedListSpec => []FindsWhatWasAdded
BY ListInitial, StepKeepsList, ListFinds, PTL DEF SortedListSpec

-----------------------------------------------------------------------------
(* The packets of a TCP stream.                                            *)

StreamUnit == {u \in Nat \X (Nat \ {0}) \X (Nat \ {0, 1}) : u[2] <= u[3]}

FollowedBy(u, v) ==
  IF u[2] = u[3] THEN v[1] = u[1] + 1 /\ v[2] = 1 ELSE v = <<u[1], u[2] + 1, u[3]>>

Ahead == stream \o (pending \o priority)

InTurn(s) == \A k \in 1 .. Len(s) - 1 : FollowedBy(s[k], s[k + 1])

\* What a reader that expects the packet `first`, of which it has read the length
\* `length` (0: not yet), needs to find, up to the packet before `next`.
Readable(s, first, length, next) ==
  /\ s \in Seq(StreamUnit) /\ InTurn(s)
  /\ s = << >> => first = next /\ length = 0
  /\ s # << >> => s[1][1] = first /\ s[Len(s)][1] = next - 1 /\ s[Len(s)][2] = s[Len(s)][3]
  /\ s # << >> /\ length = 0 => s[1][2] = 1
  /\ s # << >> /\ length # 0 => s[1] = <<first, 2, length>>

StreamInv ==
  /\ stream \in Seq(StreamUnit) /\ pending \in Seq(StreamUnit) /\ priority \in Seq(StreamUnit)
  /\ sentNonce \in Nat /\ recvNonce \in Nat /\ nextLength \in Nat
  /\ readFails = FALSE
  /\ Readable(Ahead, recvNonce, nextLength, sentNonce)

LEMMA StreamIsRight == StreamInv => StreamStaysInOrder
<1> SUFFICES ASSUME StreamInv PROVE StreamStaysInOrder
  OBVIOUS
<1>1. PICK s \in Seq(StreamUnit) : s = stream \o (pending \o priority) /\ Readable(s, recvNonce, nextLength, sentNonce)
  BY DEF StreamInv, Ahead, Readable
<1>2. Len(s) \in Nat /\ (Len(s) = 0 <=> s = << >>)
  BY <1>1, EmptySeq
<1>3. readFails = FALSE
  BY DEF StreamInv
<1>4. \A k \in 1 .. Len(s) - 1 : FollowedBy(s[k], s[k + 1])
  BY <1>1 DEF Readable, InTurn
<1> QED
  BY <1>1, <1>2, <1>3, <1>4 DEF StreamStaysInOrder, Readable, FollowedBy

LEMMA StreamInitial == TcpStreamInit => StreamInv
<1> SUFFICES ASSUME TcpStreamInit PROVE StreamInv
  OBVIOUS
<1>1. stream = << >> /\ pending = << >> /\ priority = << >> /\ << >> \in Seq(StreamUnit)
  BY DEF TcpStreamInit
<1>2. Ahead = << >>
  BY <1>1, ConcatEmptySeq DEF Ahead
<1>3. Readable(<< >>, 0, 0, 0)
  BY <1>1 DEF Readable, InTurn
<1> QED
  BY <1>1, <1>2, <1>3 DEF TcpStreamInit, StreamInv

\* What send() takes and what it leaves are the two parts of what it was given.
LEMMA TakenAndKept ==
  ASSUME NEW s \in Seq(StreamUnit), NEW room \in Nat
  PROVE  /\ Taken(s, room) \in Seq(StreamUnit) /\ Kept(s, room) \in Seq(StreamUnit)
         /\ Taken(s, room) \o Kept(s, room) = s
         /\ Len(Taken(s, room)) \in Nat /\ Len(Taken(s, room)) <= room
         /\ Kept(s, room) # << >> => Len(Taken(s, room)) = room
<1>1. Len(s) \in Nat
  OBVIOUS
<1>2. CASE Len(s) < room
  <2>1. Taken(s, room) = SubSeq(s, 1, Len(s))
    BY <1>2 DEF Taken
  <2>2. Taken(s, room) = s
    BY <2>1, SubSeqFull
  <2>3. Kept(s, room) = << >>
    BY <1>1, <1>2, SubSeqEmpty DEF Kept
  <2> QED
    BY <1>1, <1>2, <2>2, <2>3, ConcatEmptySeq
<1>3. CASE ~(Len(s) < room)
  <2>1. Taken(s, room) = SubSeq(s, 1, room)
    BY <1>3 DEF Taken
  <2>2. Kept(s, room) = SubSeq(s, room + 1, Len(s))
    BY DEF Kept
  <2>3. SubSeq(s, 1, room) \in Seq(StreamUnit) /\ Len(SubSeq(s, 1, room)) = room
    BY <1>1, <1>3, SubSeqProperties
  <2>4. SubSeq(s, room + 1, Len(s)) \in Seq(StreamUnit)
    BY <1>1, <1>3, SubSeqProperties
  <2>5. SubSeq(s, 1, room) \o SubSeq(s, room + 1, Len(s)) = SubSeq(s, 1, Len(s))
    <3>1. 1 \in 1 .. Len(s) + 1 /\ room \in 1 - 1 .. Len(s) /\ Len(s) \in room .. Len(s)
      BY <1>1, <1>3
    <3> QED
      BY <3>1, ConcatAdjacentSubSeq
  <2>6. SubSeq(s, 1, Len(s)) = s
    BY SubSeqFull
  <2>7. Taken(s, room) \in Seq(StreamUnit) /\ Kept(s, room) \in Seq(StreamUnit) /\ Len(Taken(s, room)) = room
    BY <2>1, <2>2, <2>3, <2>4
  <2>8. Taken(s, room) \o Kept(s, room) = s
    BY <2>1, <2>2, <2>5, <2>6
  <2> QED
    BY <2>7, <2>8
<1> QED
  BY <1>2, <1>3

\* Sequences of units put together, without a look at their elements.
Joined(s, t) == s \o t

LEMMA JoinedSequences ==
  /\ \A s, t \in Seq(StreamUnit) : Joined(s, t) \in Seq(StreamUnit)
  /\ \A s, t, u \in Seq(StreamUnit) : Joined(Joined(s, t), u) = Joined(s, Joined(t, u))
  /\ \A s \in Seq(StreamUnit) : Joined(s, << >>) = s /\ Joined(<< >>, s) = s
<1>1. \A s, t \in Seq(StreamUnit) : s \o t \in Seq(StreamUnit)
  BY ConcatProperties
<1>2. \A s, t, u \in Seq(StreamUnit) : (s \o t) \o u = s \o (t \o u)
  BY ConcatAssociative
<1>3. \A s \in Seq(StreamUnit) : s \o << >> = s /\ << >> \o s = s
  BY ConcatEmptySeq
<1> QED
  BY <1>1, <1>2, <1>3 DEF Joined

\* With no room nothing is taken.
LEMMA NothingTaken ==
  ASSUME NEW s \in Seq(StreamUnit)
  PROVE  Taken(s, 0) = << >> /\ Kept(s, 0) = s
<1>1. Taken(s, 0) \in Seq(StreamUnit) /\ Taken(s, 0) \o Kept(s, 0) = s /\ Len(Taken(s, 0)) \in Nat /\ Len(Taken(s, 0)) <= 0
  BY TakenAndKept
<1>2. Taken(s, 0) = << >>
  BY <1>1, EmptySeq
<1>3. Kept(s, 0) \in Seq(StreamUnit)
  BY TakenAndKept
<1> QED
  BY <1>1, <1>2, <1>3, ConcatEmptySeq

\* Sending what is pending loses nothing and keeps its order.
LEMMA PendingSent ==
  ASSUME StreamInv, NEW room \in Nat, NEW f, f = send_pending_data(room)
  PROVE  /\ f.last \in Seq(StreamUnit) /\ f.queue \in Seq(StreamUnit) /\ f.out \in Seq(StreamUnit)
         /\ f.room \in Nat
         /\ f.out \o (f.last \o f.queue) = pending \o priority
<1>1. pending \in Seq(StreamUnit) /\ priority \in Seq(StreamUnit)
  BY DEF StreamInv
<1>2. PICK o \in Seq(StreamUnit) : o = Taken(pending, room) /\ Len(o) <= room
  BY <1>1, TakenAndKept
<1>3. PICK l \in Seq(StreamUnit) : l = Kept(pending, room) /\ o \o l = pending /\ (l # << >> => Len(o) = room)
  <2>1. /\ Kept(pending, room) \in Seq(StreamUnit)
        /\ Taken(pending, room) \o Kept(pending, room) = pending
        /\ Kept(pending, room) # << >> => Len(Taken(pending, room)) = room
    BY <1>1, TakenAndKept
  <2> QED
    BY <1>2, <2>1
<1>4. PICK left \in Nat : left = room - Len(o)
  BY <1>2
<1>5. PICK p \in Seq(StreamUnit) : p = Taken(priority, left) /\ Len(p) <= left
  BY <1>1, TakenAndKept
<1>6. PICK q \in Seq(StreamUnit) : q = Kept(priority, left) /\ p \o q = priority
  BY <1>1, <1>5, TakenAndKept
<1>7. f = [last |-> l, queue |-> q, out |-> o \o p, room |-> left - Len(p)]
  BY <1>2, <1>3, <1>4, <1>5, <1>6 DEF send_pending_data, send_pending_data_nonpriority
<1>8. f.last = l /\ f.queue = q /\ f.out = o \o p /\ f.room = left - Len(p)
  BY <1>7
<1>9. (o \o p) \o (l \o q) = (o \o l) \o (p \o q)
  <2>1. CASE l = << >>
    <3>1. l \o q = q /\ o \o l = o
      BY <2>1, ConcatEmptySeq
    <3>2. (o \o p) \o q = o \o (p \o q)
      BY ConcatAssociative, SMTT(60)
    <3> QED
      BY <3>1, <3>2
  <2>2. CASE l # << >>
    <3>1. left = 0
      BY <1>2, <1>3, <1>4, <2>2
    <3>2. p = << >>
      BY <1>1, <1>5, <3>1, NothingTaken
    <3>3. o \o p = o /\ p \o q = q
      BY <3>2, ConcatEmptySeq
    <3>4. o \o (l \o q) = (o \o l) \o q
      BY ConcatAssociative, SMTT(60)
    <3> QED
      BY <3>3, <3>4
  <2> QED
    BY <2>1, <2>2
<1>10. f.room \in Nat
  BY <1>4, <1>5, <1>8
<1>11. o \o p \in Seq(StreamUnit)
  BY ConcatProperties
<1> QED
  BY <1>3, <1>6, <1>8, <1>9, <1>10, <1>11

\* A packet that is written whole at the end keeps the whole readable.
LEMMA PacketAdded ==
  ASSUME NEW s, NEW first \in Nat, NEW length \in Nat, NEW next \in Nat, NEW size \in PacketSizes,
         Readable(s, first, length, next)
  PROVE  /\ UnitsOf(next, size) \in Seq(StreamUnit)
         /\ Readable(s \o UnitsOf(next, size), first, length, next + 1)
<1> DEFINE u == UnitsOf(next, size)
           t == s \o u
           m == Len(s)
<1>1. size \in Nat \ {0, 1}
  BY TcpStreamAssumption
<1>2. \A k \in 1 .. size : <<next, k, size>> \in StreamUnit
  BY <1>1 DEF StreamUnit
<1>3. /\ u \in Seq(StreamUnit) /\ Len(u) = size
      /\ \A k \in 1 .. size : u[k] = <<next, k, size>>
  BY <1>1, <1>2, IsASeq DEF UnitsOf
<1>4. s \in Seq(StreamUnit) /\ InTurn(s) /\ m \in Nat
  BY DEF Readable
<1>5. PICK n \in Nat : n = m + size
  BY <1>1, <1>4
<1> HIDE DEF u
<1>6. t \in Seq(StreamUnit) /\ Len(t) = n
  BY <1>3, <1>4, <1>5, ConcatProperties
<1>7. \A k \in 1 .. n : t[k] = IF k <= m THEN s[k] ELSE u[k - m]
  BY <1>3, <1>4, <1>5, ConcatProperties
<1> HIDE DEF t, m
<1>8. \A k \in 1 .. m : t[k] = s[k]
  BY <1>1, <1>4, <1>5, <1>7
<1>9. \A k \in 1 .. size : t[m + k] = <<next, k, size>>
  <2> TAKE k \in 1 .. size
  <2>1. m + k \in 1 .. n /\ ~(m + k <= m) /\ (m + k) - m = k
    BY <1>1, <1>4, <1>5
  <2>2. t[m + k] = u[(m + k) - m]
    BY <1>7, <2>1
  <2> QED
    BY <1>3, <2>1, <2>2
<1>10. InTurn(t)
  <2> SUFFICES ASSUME NEW k \in 1 .. n - 1 PROVE FollowedBy(t[k], t[k + 1])
    BY <1>6 DEF InTurn
  <2>1. CASE k < m
    <3>1. k \in 1 .. m /\ k + 1 \in 1 .. m /\ k \in 1 .. m - 1
      BY <1>4, <2>1
    <3> QED
      BY <1>4, <1>8, <3>1 DEF InTurn, m
  <2>2. CASE k = m
    <3>1. m # 0 /\ s # << >> /\ m \in 1 .. m
      BY <1>4, <2>2 DEF m
    <3>2. s[m][1] = next - 1 /\ s[m][2] = s[m][3]
      BY <3>1 DEF Readable, m
    <3>3. 1 \in 1 .. size
      BY <1>1
    <3>4. t[k] = s[m] /\ t[k + 1] = <<next, 1, size>>
      BY <1>8, <1>9, <2>2, <3>1, <3>3
    <3> QED
      BY <3>2, <3>4 DEF FollowedBy
  <2>3. CASE k > m
    <3>1. PICK j \in 1 .. size - 1 : k = m + j
      <4>1. k - m \in 1 .. size - 1 /\ k = m + (k - m)
        BY <1>1, <1>4, <1>5, <2>3
      <4> QED
        BY <4>1
    <3>2. j \in 1 .. size /\ j + 1 \in 1 .. size /\ k + 1 = m + (j + 1) /\ j # size
      BY <1>1, <1>4, <3>1
    <3>3. t[k] = <<next, j, size>> /\ t[k + 1] = <<next, j + 1, size>>
      BY <1>9, <3>1, <3>2
    <3> QED
      BY <3>2, <3>3 DEF FollowedBy
  <2> QED
    BY <1>4, <2>1, <2>2, <2>3
<1>11. t # << >> /\ n \in 1 .. n /\ size \in 1 .. size /\ 1 \in 1 .. size /\ 1 \in 1 .. n
  BY <1>1, <1>4, <1>5, <1>6
<1>12. t[Len(t)] = <<next, size, size>>
  BY <1>5, <1>6, <1>9, <1>11
<1>13. CASE s = << >>
  <2>1. m = 0 /\ first = next /\ length = 0
    BY <1>13 DEF Readable, m
  <2>2. t[1] = <<next, 1, size>>
    BY <1>9, <1>11, <2>1
  <2> QED
    BY <1>3, <1>6, <1>10, <1>11, <1>12, <2>1, <2>2 DEF Readable, u, t
<1>14. CASE s # << >>
  <2>1. 1 \in 1 .. m
    BY <1>4, <1>14 DEF m
  <2>2. t[1] = s[1]
    BY <1>8, <2>1
  <2> QED
    BY <1>3, <1>6, <1>10, <1>11, <1>12, <1>14, <2>2 DEF Readable, u, t
<1> QED
  BY <1>13, <1>14

LEMMA SendKeepsStream ==
  ASSUME StreamInv, NEW room \in Nat, NEW f, f = send_pending_data(room),
         pending' = f.last, priority' = f.queue, stream' = stream \o f.out,
         UNCHANGED <<sentNonce, nextLength, recvNonce, readFails>>
  PROVE  StreamInv'
<1>1. /\ f.last \in Seq(StreamUnit) /\ f.queue \in Seq(StreamUnit) /\ f.out \in Seq(StreamUnit)
      /\ Joined(f.out, Joined(f.last, f.queue)) = Joined(pending, priority)
  BY PendingSent DEF Joined
<1>2. stream \in Seq(StreamUnit)
  BY DEF StreamInv
<1>3. Joined(stream, f.out) \in Seq(StreamUnit)
  BY <1>1, <1>2, JoinedSequences
<1>4. Joined(Joined(stream, f.out), Joined(f.last, f.queue)) = Joined(stream, Joined(pending, priority))
  <2>1. PICK x \in Seq(StreamUnit) : x = Joined(f.last, f.queue)
    BY <1>1, JoinedSequences
  <2>2. PICK o \in Seq(StreamUnit) : o = f.out
    BY <1>1
  <2>3. PICK s \in Seq(StreamUnit) : s = stream
    BY <1>2
  <2>4. Joined(Joined(s, o), x) = Joined(s, Joined(o, x))
    BY JoinedSequences
  <2> QED
    BY <1>1, <2>1, <2>2, <2>3, <2>4
<1>5. Ahead' = Ahead
  BY <1>4 DEF Ahead, Joined
<1>6. Readable(Ahead, recvNonce, nextLength, sentNonce)'
  <2>1. Readable(Ahead, recvNonce, nextLength, sentNonce)
    BY DEF StreamInv
  <2> QED
    BY <1>5, <2>1 DEF Readable, InTurn, FollowedBy, StreamUnit
<1> QED
  BY <1>1, <1>3, <1>6 DEF StreamInv, StreamUnit, Joined

\* A packet of which the first units are sent and the others kept, behind all
\* that is pending.
LEMMA PacketBehind ==
  ASSUME NEW s \in Seq(StreamUnit), NEW o \in Seq(StreamUnit), NEW l \in Seq(StreamUnit),
         NEW q \in Seq(StreamUnit), NEW a \in Seq(StreamUnit), NEW b \in Seq(StreamUnit),
         a = << >> \/ (l = << >> /\ q = << >>)
  PROVE  /\ Joined(Joined(Joined(s, o), a), Joined(l, Joined(q, b)))
              = Joined(Joined(s, Joined(o, Joined(l, q))), Joined(a, b))
         /\ Joined(Joined(s, o), a) \in Seq(StreamUnit)
<1>1. /\ \A x, y \in Seq(StreamUnit) : Joined(x, y) \in Seq(StreamUnit)
      /\ \A x, y, z \in Seq(StreamUnit) : Joined(Joined(x, y), z) = Joined(x, Joined(y, z))
      /\ \A x \in Seq(StreamUnit) : Joined(x, << >>) = x /\ Joined(<< >>, x) = x
  BY JoinedSequences
<1>2. Joined(s, o) \in Seq(StreamUnit) /\ Joined(l, q) \in Seq(StreamUnit)
  BY <1>1
<1>3. Joined(Joined(s, o), a) \in Seq(StreamUnit)
  BY <1>1, <1>2
<1>4. CASE a = << >>
  <2>1. Joined(Joined(s, o), a) = Joined(s, o) /\ Joined(a, b) = b
    BY <1>1, <1>2, <1>4
  <2>2. Joined(l, Joined(q, b)) = Joined(Joined(l, q), b)
    BY <1>1
  <2>3. Joined(Joined(s, o), Joined(Joined(l, q), b)) = Joined(Joined(Joined(s, o), Joined(l, q)), b)
    BY <1>1, <1>2
  <2>4. Joined(Joined(s, o), Joined(l, q)) = Joined(s, Joined(o, Joined(l, q)))
    BY <1>1, <1>2
  <2> QED
    BY <1>3, <2>1, <2>2, <2>3, <2>4
<1>5. CASE l = << >> /\ q = << >>
  <2>1. Joined(l, Joined(q, b)) = b /\ Joined(o, Joined(l, q)) = o
    BY <1>1, <1>5
  <2>2. Joined(Joined(Joined(s, o), a), b) = Joined(Joined(s, o), Joined(a, b))
    BY <1>1, <1>2
  <2> QED
    BY <1>3, <2>1, <2>2
<1> QED
  BY <1>4, <1>5

LEMMA WriteKeepsStream ==
  ASSUME StreamInv, NEW size \in PacketSizes, NEW hasPriority \in BOOLEAN, NEW room \in Nat,
         write_packet_TCP_secure_connection(size, hasPriority, room)
  PROVE  StreamInv'
<1> DEFINE u == UnitsOf(sentNonce, size)
<1>1. PICK f : f = send_pending_data(room)
  OBVIOUS
<1>2. /\ f.last \in Seq(StreamUnit) /\ f.queue \in Seq(StreamUnit) /\ f.out \in Seq(StreamUnit)
      /\ f.room \in Nat /\ f.out \o (f.last \o f.queue) = pending \o priority
  BY <1>1, PendingSent
<1>3. UNCHANGED <<nextLength, recvNonce, readFails>>
  BY DEF write_packet_TCP_secure_connection
<1>4. stream \in Seq(StreamUnit) /\ sentNonce \in Nat /\ recvNonce \in Nat /\ nextLength \in Nat
      /\ readFails = FALSE /\ Readable(Ahead, recvNonce, nextLength, sentNonce)
  BY DEF StreamInv
<1>5. u \in Seq(StreamUnit) /\ Readable(Ahead \o u, recvNonce, nextLength, sentNonce + 1)
  BY <1>4, PacketAdded
<1>6. Ahead = stream \o (f.out \o (f.last \o f.queue))
  BY <1>2 DEF Ahead
<1> HIDE DEF u
<1>7. ASSUME NEW r \in Nat, Flushed(f) \/ r = 0, sentNonce' = sentNonce + 1,
             stream' = (stream \o f.out) \o Taken(u, r),
             pending' \o priority' = f.last \o (f.queue \o Kept(u, r)),
             pending' \in Seq(StreamUnit), priority' \in Seq(StreamUnit)
      PROVE  StreamInv'
  <2>1. PICK a \in Seq(StreamUnit) : a = Taken(u, r)
    BY <1>5, TakenAndKept
  <2>2. PICK b \in Seq(StreamUnit) : b = Kept(u, r)
    BY <1>5, TakenAndKept
  <2>3. a \o b = u
    BY <1>5, <2>1, <2>2, TakenAndKept
  <2>4. a = << >> \/ (f.last = << >> /\ f.queue = << >>)
    BY <1>5, <1>7, <2>1, NothingTaken DEF Flushed
  <2>5. /\ Joined(Joined(Joined(stream, f.out), a), Joined(f.last, Joined(f.queue, b)))
             = Joined(Joined(stream, Joined(f.out, Joined(f.last, f.queue))), Joined(a, b))
        /\ Joined(Joined(stream, f.out), a) \in Seq(StreamUnit)
    <3>1. PICK o \in Seq(StreamUnit) : o = f.out
      BY <1>2
    <3>2. PICK l \in Seq(StreamUnit) : l = f.last
      BY <1>2
    <3>3. PICK q \in Seq(StreamUnit) : q = f.queue
      BY <1>2
    <3>4. a = << >> \/ (l = << >> /\ q = << >>)
      BY <2>4, <3>2, <3>3
    <3>5. /\ Joined(Joined(Joined(stream, o), a), Joined(l, Joined(q, b)))
               = Joined(Joined(stream, Joined(o, Joined(l, q))), Joined(a, b))
          /\ Joined(Joined(stream, o), a) \in Seq(StreamUnit)
      BY <1>4, <3>4, PacketBehind
    <3> QED
      BY <3>1, <3>2, <3>3, <3>5
  <2>6. Ahead' = Ahead \o u
    BY <1>6, <1>7, <2>1, <2>2, <2>3, <2>5 DEF Ahead, Joined
  <2>7. Readable(Ahead, recvNonce, nextLength, sentNonce)'
    BY <1>3, <1>5, <1>7, <2>6 DEF Readable, InTurn, FollowedBy, StreamUnit
  <2> QED
    BY <1>3, <1>4, <1>7, <2>1, <2>5, <2>7 DEF StreamInv, StreamUnit, Joined
<1>8. CASE hasPriority
  <2>1. PICK r \in Nat : r = IF Flushed(f) THEN f.room ELSE 0
    BY <1>2
  <2>2. WritePriorityPacket(f, u)
    BY <1>1, <1>8 DEF write_packet_TCP_secure_connection, u
  <2>3. /\ pending' = f.last /\ priority' = f.queue \o Kept(u, r)
        /\ stream' = stream \o f.out \o Taken(u, r) /\ sentNonce' = sentNonce + 1
    BY <2>1, <2>2 DEF WritePriorityPacket, add_priority
  <2>4. Kept(u, r) \in Seq(StreamUnit)
    BY <1>5, TakenAndKept
  <2>5. pending' \in Seq(StreamUnit) /\ priority' \in Seq(StreamUnit)
    BY <1>2, <2>3, <2>4, ConcatProperties
  <2>6. Flushed(f) \/ r = 0
    BY <2>1
  <2> QED
    BY <1>7, <2>3, <2>5, <2>6
<1>9. CASE ~hasPriority
  <2>1. WriteOtherPacket(f, u)
    BY <1>1, <1>9 DEF write_packet_TCP_secure_connection, u
  <2>2. CASE Flushed(f) /\ f.room > 0
    <3>1. /\ pending' = Kept(u, f.room) /\ priority' = f.queue
          /\ stream' = stream \o f.out \o Taken(u, f.room) /\ sentNonce' = sentNonce + 1
      BY <2>1, <2>2 DEF WriteOtherPacket
    <3>2. Kept(u, f.room) \in Seq(StreamUnit)
      BY <1>2, <1>5, TakenAndKept
    <3>3. f.last = << >> /\ f.queue = << >>
      BY <2>2 DEF Flushed
    <3>4. /\ Kept(u, f.room) \o << >> = Kept(u, f.room)
          /\ << >> \o Kept(u, f.room) = Kept(u, f.room)
      BY <3>2, ConcatEmptySeq
    <3>5. pending' \o priority' = f.last \o (f.queue \o Kept(u, f.room))
      BY <3>1, <3>3, <3>4
    <3> QED
      BY <1>2, <1>7, <2>2, <3>1, <3>2, <3>5
  <2>3. CASE ~(Flushed(f) /\ f.room > 0)
    <3>1. /\ pending' = f.last /\ priority' = f.queue
          /\ stream' = stream \o f.out \o << >> /\ sentNonce' = sentNonce
      BY <2>1, <2>3 DEF WriteOtherPacket
    <3>2. stream \o f.out \in Seq(StreamUnit)
      BY <1>2, <1>4, ConcatProperties
    <3>3. stream' = stream \o f.out
      BY <3>1, <3>2, ConcatEmptySeq
    <3> QED
      BY <1>1, <1>3, <3>1, <3>3, SendKeepsStream
  <2> QED
    BY <2>2, <2>3
<1> QED
  BY <1>8, <1>9

-----------------------------------------------------------------------------
(* Reading.                                                                *)

\* What is behind the first n units of the stream is behind the first n of all
\* that is ahead.
LEMMA AheadFrom ==
  ASSUME NEW s \in Seq(StreamUnit), NEW t \in Seq(StreamUnit), NEW n \in Nat, n <= Len(s)
  PROVE  SubSeq(s, n + 1, Len(s)) \o t = SubSeq(s \o t, n + 1, Len(s \o t))
<1> DEFINE a == SubSeq(s, n + 1, Len(s))
           c == s \o t
<1>1. Len(s) \in Nat /\ Len(t) \in Nat
  OBVIOUS
<1>2. c \in Seq(StreamUnit) /\ Len(c) = Len(s) + Len(t)
  BY ConcatProperties
<1>3. \A k \in 1 .. Len(s) + Len(t) : c[k] = IF k <= Len(s) THEN s[k] ELSE t[k - Len(s)]
  BY ConcatProperties
<1>4. \A k \in n + 1 .. Len(s) : s[k] \in StreamUnit
  BY <1>1
<1>5. a \in Seq(StreamUnit) /\ Len(a) = Len(s) - n
  BY <1>1, <1>4, SubSeqProperties
<1>6. \A k \in 1 .. Len(s) - n : a[k] = s[n + k]
  <2>1. \A k \in 1 .. Len(s) - (n + 1) + 1 : a[k] = s[(n + 1) + k - 1]
    BY <1>1, <1>4, SubSeqProperties
  <2>2. Len(s) - (n + 1) + 1 = Len(s) - n /\ \A k \in 1 .. Len(s) - n : (n + 1) + k - 1 = n + k
    BY <1>1
  <2> QED
    BY <2>1, <2>2
<1> DEFINE d == SubSeq(c, n + 1, Len(c))
<1>7. \A k \in n + 1 .. Len(c) : c[k] \in StreamUnit
  BY <1>2
<1> HIDE DEF a, c
<1>8. d \in Seq(StreamUnit) /\ Len(d) = Len(c) - n
  BY <1>1, <1>2, <1>7, SubSeqProperties
<1>9. \A k \in 1 .. Len(c) - n : d[k] = c[n + k]
  <2>1. \A k \in 1 .. Len(c) - (n + 1) + 1 : d[k] = c[(n + 1) + k - 1]
    BY <1>1, <1>2, <1>7, SubSeqProperties
  <2>2. Len(c) \in Nat
    BY <1>2
  <2>3. Len(c) - (n + 1) + 1 = Len(c) - n /\ \A k \in 1 .. Len(c) - n : (n + 1) + k - 1 = n + k
    BY <2>2
  <2> QED
    BY <2>1, <2>3
<1> HIDE DEF d
<1> DEFINE e == a \o t
<1>10. /\ e \in Seq(StreamUnit) /\ Len(e) = Len(a) + Len(t)
       /\ \A k \in 1 .. Len(a) + Len(t) : e[k] = IF k <= Len(a) THEN a[k] ELSE t[k - Len(a)]
  BY <1>5, ConcatProperties
<1> HIDE DEF e
<1>11. Len(e) = Len(d)
  BY <1>1, <1>2, <1>5, <1>8, <1>10
<1>12. ASSUME NEW k \in 1 .. Len(e)
       PROVE  e[k] = d[k]
  <2>1. k \in 1 .. Len(a) + Len(t) /\ k \in 1 .. Len(c) - n /\ n + k \in 1 .. Len(s) + Len(t)
    BY <1>1, <1>2, <1>5, <1>10
  <2>2. d[k] = IF n + k <= Len(s) THEN s[n + k] ELSE t[(n + k) - Len(s)]
    BY <1>3, <1>9, <2>1
  <2>3. CASE k <= Len(a)
    <3>1. n + k <= Len(s) /\ k \in 1 .. Len(s) - n
      BY <1>1, <1>5, <2>3
    <3> QED
      BY <1>6, <1>10, <2>1, <2>2, <2>3, <3>1
  <2>4. CASE ~(k <= Len(a))
    <3>1. ~(n + k <= Len(s)) /\ (n + k) - Len(s) = k - Len(a)
      BY <1>1, <1>5, <2>4
    <3> QED
      BY <1>10, <2>1, <2>2, <2>4, <3>1
  <2> QED
    BY <2>3, <2>4
<1>13. e = d
  BY <1>8, <1>10, <1>11, <1>12, SeqEqual
<1> QED
  BY <1>13 DEF e, d, a, c

\* The units of the packet that is being read follow each other to its end.
LEMMA PacketIsWhole ==
  ASSUME NEW s \in Seq(StreamUnit), InTurn(s), NEW first \in Nat, NEW size \in Nat, size > 1,
         size - 1 <= Len(s), s[1] = <<first, 2, size>>
  PROVE  \A k \in 1 .. size - 1 : s[k] = <<first, k + 1, size>>
<1> DEFINE Bad == {k \in 1 .. size - 1 : s[k] # <<first, k + 1, size>>}
<1>1. Bad = {}
  <2> SUFFICES ASSUME Bad # {} PROVE FALSE
    OBVIOUS
  <2>1. PICK k \in Bad : \A j \in Bad : k <= j
    <3>1. Bad \subseteq Nat
      OBVIOUS
    <3> QED
      BY <3>1, LeastNumber
  <2>2. k \in 1 .. size - 1 /\ s[k] # <<first, k + 1, size>>
    BY <2>1
  <2>3. k # 1
    BY <2>2
  <2>4. PICK j \in 1 .. size - 1 : j + 1 = k
    <3>1. k - 1 \in 1 .. size - 1 /\ (k - 1) + 1 = k
      BY <2>2, <2>3
    <3> QED
      BY <3>1
  <2>5. j \notin Bad
    BY <2>1, <2>2, <2>4
  <2>6. s[j] = <<first, j + 1, size>>
    BY <2>4, <2>5
  <2>7. j \in 1 .. Len(s) - 1 /\ j + 1 # size
    BY <2>2, <2>4
  <2>8. FollowedBy(s[j], s[j + 1])
    BY <2>7 DEF InTurn
  <2>9. s[j + 1] = <<first, (j + 1) + 1, size>>
    BY <2>6, <2>7, <2>8 DEF FollowedBy
  <2> QED
    BY <2>2, <2>4, <2>9
<1> QED
  BY <1>1

\* What is left when whole units are read off.
LEMMA RestReadable ==
  ASSUME NEW s \in Seq(StreamUnit), InTurn(s), NEW n \in 1 .. Len(s), NEW t, t = SubSeq(s, n + 1, Len(s))
  PROVE  /\ t \in Seq(StreamUnit) /\ InTurn(t) /\ Len(t) = Len(s) - n
         /\ n < Len(s) => t # << >> /\ t[1] = s[n + 1] /\ t[Len(t)] = s[Len(s)] /\ FollowedBy(s[n], s[n + 1])
         /\ n = Len(s) => t = << >>
<1>1. Len(s) \in Nat /\ \A k \in n + 1 .. Len(s) : s[k] \in StreamUnit
  OBVIOUS
<1>2. t \in Seq(StreamUnit) /\ Len(t) = Len(s) - n
  BY <1>1, SubSeqProperties
<1>3. \A k \in 1 .. Len(s) - n : t[k] = s[n + k]
  <2>1. \A k \in 1 .. Len(s) - (n + 1) + 1 : t[k] = s[(n + 1) + k - 1]
    BY <1>1, SubSeqProperties
  <2>2. Len(s) - (n + 1) + 1 = Len(s) - n /\ \A k \in 1 .. Len(s) - n : (n + 1) + k - 1 = n + k
    BY <1>1
  <2> QED
    BY <2>1, <2>2
<1>4. ASSUME NEW k \in 1 .. Len(t) - 1
      PROVE  FollowedBy(t[k], t[k + 1])
  <2>1. /\ k \in 1 .. Len(s) - n /\ k + 1 \in 1 .. Len(s) - n
        /\ n + k \in 1 .. Len(s) - 1 /\ n + (k + 1) = (n + k) + 1
    BY <1>1, <1>2
  <2>2. FollowedBy(s[n + k], s[(n + k) + 1])
    BY <2>1 DEF InTurn
  <2> QED
    BY <1>3, <2>1, <2>2
<1>5. InTurn(t)
  BY <1>4 DEF InTurn
<1>6. ASSUME n < Len(s)
      PROVE  t # << >> /\ t[1] = s[n + 1] /\ t[Len(t)] = s[Len(s)] /\ FollowedBy(s[n], s[n + 1])
  <2>1. 1 \in 1 .. Len(s) - n /\ n \in 1 .. Len(s) - 1
    BY <1>1, <1>6
  <2>2. PICK m \in 1 .. Len(s) - n : m = Len(t) /\ n + m = Len(s)
    BY <1>1, <1>2, <1>6, SMTT(60)
  <2>3. t[1] = s[n + 1] /\ t[m] = s[n + m]
    BY <1>3, <2>1
  <2>4. t # << >>
    <3>1. Len(<< >>) = 0
      OBVIOUS
    <3>2. Len(t) # 0
      BY <2>2
    <3> QED
      BY <3>1, <3>2, Zenon
  <2>5. FollowedBy(s[n], s[n + 1])
    BY <2>1 DEF InTurn
  <2> QED
    BY <2>2, <2>3, <2>4, <2>5
<1>7. ASSUME n = Len(s)
      PROVE  t = << >>
  BY <1>1, <1>2, <1>7, EmptySeq
<1> QED
  BY <1>2, <1>5, <1>6, <1>7

LEMMA ReadLengthKeepsStream ==
  ASSUME StreamInv, read_TCP_length
  PROVE  StreamInv'
<1>1. PICK s \in Seq(StreamUnit) : s = Ahead /\ Readable(s, recvNonce, nextLength, sentNonce)
  BY DEF StreamInv, Readable
<1>2. PICK t \in Seq(StreamUnit) : t = pending \o priority
  BY ConcatProperties DEF StreamInv
<1>3. /\ nextLength = 0 /\ stream # << >> /\ stream \in Seq(StreamUnit)
      /\ sentNonce \in Nat /\ recvNonce \in Nat /\ pending \in Seq(StreamUnit) /\ priority \in Seq(StreamUnit)
  BY DEF read_TCP_length, StreamInv
<1>4. Len(stream) \in Nat /\ Len(stream) >= 1
  BY <1>3, EmptySeq
<1>5. s = stream \o t
  BY <1>1, <1>2 DEF Ahead
<1>6. Len(s) = Len(stream) + Len(t) /\ Len(t) \in Nat /\ s[1] = stream[1]
  <2>1. \A k \in 1 .. Len(stream) + Len(t) : s[k] = IF k <= Len(stream) THEN stream[k] ELSE t[k - Len(stream)]
    BY <1>3, <1>5, ConcatProperties
  <2>2. Len(s) = Len(stream) + Len(t) /\ Len(t) \in Nat
    BY <1>3, <1>5, ConcatProperties
  <2> QED
    BY <1>4, <2>1, <2>2
<1>7. PICK h \in StreamUnit : h = s[1]
  BY <1>4, <1>6
<1>8. h[1] \in Nat /\ h[2] \in Nat /\ h[3] \in Nat /\ h[3] > 1
  BY DEF StreamUnit
<1>9. s # << >> /\ h[1] = recvNonce /\ h[2] = 1 /\ s[Len(s)][1] = sentNonce - 1 /\ s[Len(s)][2] = s[Len(s)][3] /\ InTurn(s)
  <2>1. s # << >>
    BY <1>4, <1>6
  <2> QED
    BY <1>1, <1>3, <1>7, <2>1 DEF Readable
<1>10. Len(s) > 1
  BY <1>4, <1>6, <1>7, <1>8, <1>9
<1>11. Head(stream) = h
  BY <1>3, <1>6, <1>7
<1>12. /\ nextLength' = h[3] /\ stream' = Tail(stream) /\ readFails' = FALSE
       /\ UNCHANGED <<pending, priority, sentNonce, recvNonce>>
  BY <1>9, <1>11 DEF read_TCP_length
<1>13. stream' = SubSeq(stream, 1 + 1, Len(stream)) /\ stream' \in Seq(StreamUnit)
  BY <1>3, <1>12, TailIsSubSeq, HeadTailProperties
<1>14. PICK r : r = SubSeq(s, 1 + 1, Len(s))
  OBVIOUS
<1>15. Ahead' = r
  <2>1. SubSeq(stream, 1 + 1, Len(stream)) \o t = SubSeq(stream \o t, 1 + 1, Len(stream \o t))
    BY <1>3, <1>4, AheadFrom
  <2> QED
    BY <1>2, <1>5, <1>12, <1>13, <1>14, <2>1 DEF Ahead
<1>16. /\ r \in Seq(StreamUnit) /\ InTurn(r) /\ r # << >> /\ r[1] = s[1 + 1]
       /\ r[Len(r)] = s[Len(s)] /\ FollowedBy(s[1], s[1 + 1])
  <2>1. 1 \in 1 .. Len(s) /\ 1 < Len(s)
    BY <1>4, <1>6, <1>10
  <2> QED
    BY <1>9, <1>14, <2>1, RestReadable
<1>17. r[1] = <<recvNonce, 2, h[3]>>
  <2>1. FollowedBy(h, r[1])
    BY <1>7, <1>16
  <2>2. h[2] # h[3]
    BY <1>8, <1>9
  <2>3. r[1] = <<h[1], h[2] + 1, h[3]>>
    BY <2>1, <2>2 DEF FollowedBy
  <2> QED
    BY <1>9, <2>3
<1>18. Readable(r, recvNonce, h[3], sentNonce)
  BY <1>8, <1>9, <1>16, <1>17 DEF Readable
<1>19. Readable(Ahead, recvNonce, nextLength, sentNonce)'
  BY <1>12, <1>15, <1>18 DEF Readable, InTurn, FollowedBy, StreamUnit
<1> QED
  BY <1>3, <1>8, <1>12, <1>13, <1>19 DEF StreamInv, StreamUnit

LEMMA ReadPacketKeepsStream ==
  ASSUME StreamInv, read_TCP_packet
  PROVE  StreamInv'
<1>1. PICK s \in Seq(StreamUnit) : s = Ahead /\ Readable(s, recvNonce, nextLength, sentNonce)
  BY DEF StreamInv, Readable
<1>2. PICK t \in Seq(StreamUnit) : t = pending \o priority
  BY ConcatProperties DEF StreamInv
<1>3. /\ stream \in Seq(StreamUnit) /\ nextLength \in Nat /\ nextLength # 0 /\ Len(stream) >= nextLength - 1
      /\ sentNonce \in Nat /\ recvNonce \in Nat /\ pending \in Seq(StreamUnit) /\ priority \in Seq(StreamUnit)
      /\ readFails = FALSE
  BY DEF read_TCP_packet, StreamInv
<1>4. s = stream \o t
  BY <1>1, <1>2 DEF Ahead
<1>5. /\ Len(s) = Len(stream) + Len(t) /\ Len(t) \in Nat /\ Len(stream) \in Nat
      /\ \A k \in 1 .. Len(stream) : s[k] = stream[k]
  <2>1. \A k \in 1 .. Len(stream) + Len(t) : s[k] = IF k <= Len(stream) THEN stream[k] ELSE t[k - Len(stream)]
    BY <1>3, <1>4, ConcatProperties
  <2>2. Len(s) = Len(stream) + Len(t) /\ Len(t) \in Nat /\ Len(stream) \in Nat
    BY <1>3, <1>4, ConcatProperties
  <2> QED
    BY <2>1, <2>2
<1>6. s # << >>
  BY <1>1, <1>3 DEF Readable
<1>7. /\ s[1] = <<recvNonce, 2, nextLength>> /\ InTurn(s)
      /\ s[Len(s)][1] = sentNonce - 1 /\ s[Len(s)][2] = s[Len(s)][3]
  BY <1>1, <1>3, <1>6 DEF Readable
<1>8. nextLength > 1
  <2>1. s[1] \in StreamUnit
    BY <1>6
  <2> QED
    BY <1>7, <2>1 DEF StreamUnit
<1>9. PICK m \in Nat : m = nextLength - 1 /\ m >= 1 /\ m <= Len(stream) /\ nextLength = m + 1
  BY <1>3, <1>8
<1>10. \A k \in 1 .. nextLength - 1 : s[k] = <<recvNonce, k + 1, nextLength>>
  <2>1. nextLength - 1 <= Len(s)
    BY <1>3, <1>5
  <2> QED
    BY <1>3, <1>7, <1>8, <2>1, PacketIsWhole
<1>11. SubSeq(stream, 1, nextLength - 1) = Tail(UnitsOf(recvNonce, nextLength))
  <2> DEFINE u == UnitsOf(recvNonce, nextLength)
             a == SubSeq(stream, 1, nextLength - 1)
  <2>1. \A k \in 1 .. nextLength : <<recvNonce, k, nextLength>> \in StreamUnit
    BY <1>3, <1>8 DEF StreamUnit
  <2>2. /\ u \in Seq(StreamUnit) /\ Len(u) = nextLength
        /\ \A k \in 1 .. nextLength : u[k] = <<recvNonce, k, nextLength>>
    BY <1>3, <2>1, IsASeq DEF UnitsOf
  <2> HIDE DEF u
  <2>3. u # << >>
    BY <1>3, <2>2
  <2>4. /\ Tail(u) \in Seq(StreamUnit) /\ Len(Tail(u)) = Len(u) - 1
        /\ \A k \in 1 .. Len(Tail(u)) : Tail(u)[k] = u[k + 1]
    BY <2>2, <2>3, HeadTailProperties
  <2>5. \A k \in 1 .. m : stream[k] \in StreamUnit
    BY <1>3, <1>5, <1>9
  <2>6. a \in Seq(StreamUnit) /\ Len(a) = m /\ \A k \in 1 .. m - 1 + 1 : a[k] = stream[1 + k - 1]
    BY <1>9, <2>5, SubSeqProperties
  <2> HIDE DEF a
  <2>7. ASSUME NEW k \in 1 .. m
        PROVE  a[k] = Tail(u)[k]
    <3>1. /\ k \in 1 .. m - 1 + 1 /\ 1 + k - 1 = k /\ k \in 1 .. Len(stream) /\ k \in 1 .. nextLength - 1
          /\ k + 1 \in 1 .. nextLength
      BY <1>3, <1>5, <1>9
    <3>2. k \in 1 .. Len(Tail(u))
      BY <1>9, <2>2, <2>4
    <3>3. a[k] = stream[k]
      BY <2>6, <3>1
    <3>4. a[k] = <<recvNonce, k + 1, nextLength>>
      BY <1>5, <1>10, <3>1, <3>3
    <3>5. Tail(u)[k] = <<recvNonce, k + 1, nextLength>>
      BY <2>2, <2>4, <3>1, <3>2
    <3> QED
      BY <3>4, <3>5
  <2>8. Len(Tail(u)) = m
    BY <1>9, <2>2, <2>4
  <2>9. a = Tail(u)
    BY <2>4, <2>6, <2>7, <2>8, SeqEqual
  <2> QED
    BY <2>9 DEF a, u
<1>12. /\ stream' = SubSeq(stream, nextLength, Len(stream)) /\ nextLength' = 0
       /\ recvNonce' = recvNonce + 1 /\ readFails' = FALSE
       /\ UNCHANGED <<pending, priority, sentNonce>>
  BY <1>3, <1>11 DEF read_TCP_packet
<1>13. stream' = SubSeq(stream, m + 1, Len(stream)) /\ stream' \in Seq(StreamUnit)
  <2>1. \A k \in m + 1 .. Len(stream) : stream[k] \in StreamUnit
    BY <1>3, <1>5
  <2> QED
    BY <1>5, <1>9, <1>12, <2>1, SubSeqProperties
<1>14. PICK r : r = SubSeq(s, m + 1, Len(s))
  OBVIOUS
<1>15. Ahead' = r
  <2>1. SubSeq(stream, m + 1, Len(stream)) \o t = SubSeq(stream \o t, m + 1, Len(stream \o t))
    BY <1>3, <1>9, AheadFrom
  <2> QED
    BY <1>2, <1>4, <1>12, <1>13, <1>14, <2>1 DEF Ahead
<1>16. /\ r \in Seq(StreamUnit) /\ InTurn(r)
       /\ m < Len(s) => r # << >> /\ r[1] = s[m + 1] /\ r[Len(r)] = s[Len(s)] /\ FollowedBy(s[m], s[m + 1])
       /\ m = Len(s) => r = << >>
  <2>1. m \in 1 .. Len(s)
    BY <1>5, <1>9
  <2> QED
    BY <1>7, <1>14, <2>1, RestReadable
<1>17. s[m] = <<recvNonce, nextLength, nextLength>>
  BY <1>9, <1>10
<1>18. Readable(r, recvNonce + 1, 0, sentNonce)
  <2>1. CASE m < Len(s)
    <3>1. r[1][1] = recvNonce + 1 /\ r[1][2] = 1
      BY <1>16, <1>17, <2>1 DEF FollowedBy
    <3>2. r # << >> /\ r[Len(r)] = s[Len(s)]
      BY <1>16, <2>1
    <3> QED
      BY <1>7, <1>16, <3>1, <3>2 DEF Readable
  <2>2. CASE m = Len(s)
    <3>1. r = << >> /\ recvNonce = sentNonce - 1
      BY <1>7, <1>16, <1>17, <2>2
    <3>2. recvNonce + 1 = sentNonce
      BY <1>3, <3>1
    <3> QED
      BY <1>16, <3>1, <3>2 DEF Readable
  <2> QED
    BY <1>5, <1>9, <2>1, <2>2
<1>19. Readable(Ahead, recvNonce, nextLength, sentNonce)'
  BY <1>12, <1>15, <1>18 DEF Readable, InTurn, FollowedBy, StreamUnit
<1> QED
  BY <1>3, <1>12, <1>13, <1>19 DEF StreamInv, StreamUnit

LEMMA StepKeepsStream == StreamInv /\ [TcpStreamNext]_tcpStreamVars => StreamInv'
<1> SUFFICES ASSUME StreamInv, [TcpStreamNext]_tcpStreamVars PROVE StreamInv'
  OBVIOUS
<1>1. \A room \in 0 .. MaxRoom : room \in Nat
  BY TcpStreamAssumption
<1>2. ASSUME NEW room \in 0 .. MaxRoom, Flush(room) PROVE StreamInv'
  BY <1>1, <1>2, SendKeepsStream DEF Flush
<1>3. ASSUME NEW size \in PacketSizes, NEW hasPriority \in BOOLEAN, NEW room \in 0 .. MaxRoom,
             write_packet_TCP_secure_connection(size, hasPriority, room)
      PROVE  StreamInv'
  BY <1>1, <1>3, WriteKeepsStream
<1>4. CASE read_TCP_length
  BY <1>4, ReadLengthKeepsStream
<1>5. CASE read_TCP_packet
  BY <1>5, ReadPacketKeepsStream
<1>6. CASE UNCHANGED tcpStreamVars
  BY <1>6 DEF tcpStreamVars, StreamInv, Ahead, Readable, InTurn, FollowedBy, StreamUnit
<1> QED
  BY <1>2, <1>3, <1>4, <1>5, <1>6 DEF TcpStreamNext

\* However little of a packet the socket takes at a time, and whatever is queued
\* with priority in between, the packets of a TCP connection reach the reader
\* whole and in the order of their nonces, and it decrypts every one
\* (write_packet_TCP_secure_connection, send_pending_data,
\* read_packet_TCP_secure_connection).
THEOREM TcpStreamStaysInOrder == TcpStreamSpec => []StreamStaysInOrder
BY StreamInitial, StepKeepsStream, StreamIsRight, PTL DEF TcpStreamSpec

-----------------------------------------------------------------------------
(* The bytes of a request packet.                                          *)

\* How far a byte of a request packet reaches.
Stretch(b) == IF b = 0 THEN MaxRun ELSE b

\* The byte b speaks of the packets from .. from + Stretch(b) - 1.
Tells(b, from) ==
  \A j \in from .. from + Stretch(b) - 1 : j \in holes <=> b # 0 /\ j = from + Stretch(b) - 1

\* d lists what is missing of the packets from .. upto - 1; starts[k] is the first
\* packet that the k-th byte speaks of.
ListsFrom(d, from, upto, starts) ==
  /\ starts[1] = from /\ starts[Len(d) + 1] = upto
  /\ \A k \in 1 .. Len(d) + 1 : starts[k] \in Nat /\ starts[k] <= upto
  /\ \A k \in 1 .. Len(d) : starts[k + 1] = starts[k] + Stretch(d[k]) /\ Tells(d[k], starts[k])

Lists(d, from, upto) == \E starts : ListsFrom(d, from, upto, starts)

NoneMissing(from, upto) == \A j \in from .. upto - 1 : j \notin holes

From == offset - (count - 1)

Generating ==
  /\ offset <= window /\ Len(data) <= offset
  /\ From \in Nat /\ Lists(data, 0, From) /\ IsListEnd(From) /\ NoneMissing(From, offset)
  /\ freed = {} /\ requested = {}

Handling(upto) ==
  /\ IsListEnd(upto)
  /\ window <= limit => NoneMissing(upto, window)
  /\ From \in Nat /\ Lists(data, From, upto)
  /\ data # << >> => count <= Stretch(data[1])
  /\ data = << >> => count = 1
  /\ requested = holes \cap 0 .. offset - 1 /\ freed = (0 .. offset - 1) \ holes

CodecInv ==
  /\ window \in Nat /\ sent \in Nat /\ limit \in Nat /\ window <= sent /\ sent <= MaxWindow
  /\ holes \subseteq 0 .. window - 1
  /\ CodecTypeOK /\ phase # "failed"
  /\ phase = "generate" => Generating
  /\ phase \in {"handle", "done"} => \E upto \in 0 .. window : Handling(upto)
  /\ phase = "done" => data = << >>

LEMMA StretchIs ==
  ASSUME NEW b \in 0 .. MaxRun
  PROVE  Stretch(b) \in 1 .. MaxRun /\ (b # 0 => Stretch(b) = b) /\ (b = 0 => Stretch(b) = MaxRun)
BY CodecAssumption DEF Stretch

LEMMA NothingListed ==
  ASSUME NEW from \in Nat
  PROVE  Lists(<< >>, from, from)
<1> DEFINE s == [k \in 1 .. 1 |-> from]
<1>1. ListsFrom(<< >>, from, from, s)
  BY DEF ListsFrom
<1> QED
  BY <1>1 DEF Lists

LEMMA OneMoreByte ==
  ASSUME NEW d \in Seq(0 .. MaxRun), NEW from \in Nat, NEW upto \in Nat, NEW b \in 0 .. MaxRun,
         Lists(d, from, upto), Tells(b, upto)
  PROVE  Lists(Append(d, b), from, upto + Stretch(b))
<1> DEFINE m == Len(d)
           e == Append(d, b)
<1>1. PICK s : ListsFrom(d, from, upto, s)
  BY DEF Lists
<1>2. PICK u \in Nat : u = upto + Stretch(b) /\ upto <= u
  BY StretchIs
<1> DEFINE t == [k \in 1 .. m + 2 |-> IF k <= m + 1 THEN s[k] ELSE u]
<1>3. m \in Nat /\ Len(e) = m + 1 /\ (\A k \in 1 .. m : e[k] = d[k]) /\ e[m + 1] = b
  BY AppendProperties
<1> HIDE DEF m, e
<1>4. (\A k \in 1 .. m + 1 : t[k] = s[k]) /\ t[m + 2] = u
  BY <1>3
<1> HIDE DEF t
<1>5. /\ s[1] = from /\ s[m + 1] = upto
      /\ \A k \in 1 .. m + 1 : s[k] \in Nat /\ s[k] <= upto
      /\ \A k \in 1 .. m : s[k + 1] = s[k] + Stretch(d[k]) /\ Tells(d[k], s[k])
  BY <1>1 DEF ListsFrom, m
<1>6. t[1] = from /\ t[(m + 1) + 1] = u
  BY <1>3, <1>4, <1>5
<1>7. \A k \in 1 .. (m + 1) + 1 : t[k] \in Nat /\ t[k] <= u
  <2> TAKE k \in 1 .. (m + 1) + 1
  <2>1. CASE k \in 1 .. m + 1
    <3>1. t[k] = s[k] /\ s[k] \in Nat /\ s[k] <= upto
      BY <1>4, <1>5, <2>1
    <3> QED
      BY <1>2, <3>1
  <2>2. CASE k = m + 2
    BY <1>2, <1>4, <2>2
  <2> QED
    BY <1>3, <2>1, <2>2
<1>8. \A k \in 1 .. m + 1 : t[k + 1] = t[k] + Stretch(e[k]) /\ Tells(e[k], t[k])
  <2> TAKE k \in 1 .. m + 1
  <2>1. CASE k \in 1 .. m
    <3>1. k + 1 \in 1 .. m + 1
      BY <1>3, <2>1
    <3> QED
      BY <1>3, <1>4, <1>5, <2>1, <3>1
  <2>2. CASE k = m + 1
    <3>1. k + 1 = m + 2 /\ m + 1 \in 1 .. m + 1
      BY <1>3, <2>2
    <3>2. t[k] = upto /\ t[k + 1] = u /\ e[k] = b
      BY <1>3, <1>4, <1>5, <2>2, <3>1
    <3> QED
      BY <1>2, <3>2
  <2> QED
    BY <1>3, <2>1, <2>2
<1>9. ListsFrom(e, from, u, t)
  BY <1>3, <1>6, <1>7, <1>8 DEF ListsFrom
<1> QED
  BY <1>2, <1>9 DEF Lists, e

LEMMA FirstByteRead ==
  ASSUME NEW d \in Seq(0 .. MaxRun), d # << >>, NEW from \in Nat, NEW upto \in Nat, Lists(d, from, upto)
  PROVE  /\ d[1] \in 0 .. MaxRun /\ Tells(d[1], from) /\ from + Stretch(d[1]) <= upto
         /\ Tail(d) \in Seq(0 .. MaxRun) /\ Lists(Tail(d), from + Stretch(d[1]), upto)
<1> DEFINE m == Len(d)
           e == Tail(d)
<1>1. PICK s : ListsFrom(d, from, upto, s)
  BY DEF Lists
<1>2. /\ m \in Nat /\ m >= 1 /\ e \in Seq(0 .. MaxRun) /\ Len(e) = m - 1
      /\ \A k \in 1 .. m - 1 : e[k] = d[k + 1]
  BY HeadTailProperties
<1>3. d[1] \in 0 .. MaxRun
  <2>1. 1 \in 1 .. Len(d)
    BY <1>2
  <2> QED
    BY <2>1, ElementOfSeq
<1> DEFINE t == [k \in 1 .. m |-> s[k + 1]]
<1>4. \A k \in 1 .. m : t[k] = s[k + 1]
  OBVIOUS
<1>5. /\ s[1] = from /\ s[m + 1] = upto
      /\ \A k \in 1 .. m + 1 : s[k] \in Nat /\ s[k] <= upto
      /\ \A k \in 1 .. m : s[k + 1] = s[k] + Stretch(d[k]) /\ Tells(d[k], s[k])
  BY <1>1 DEF ListsFrom
<1> HIDE DEF m, e, t
<1>6. 1 \in 1 .. m /\ 1 + 1 \in 1 .. m + 1 /\ m \in 1 .. m
  BY <1>2
<1>7. s[1 + 1] = from + Stretch(d[1]) /\ Tells(d[1], from) /\ s[1 + 1] <= upto
  BY <1>5, <1>6
<1>8. t[1] = from + Stretch(d[1]) /\ t[(m - 1) + 1] = upto
  <2>1. (m - 1) + 1 = m
    BY <1>2
  <2> QED
    BY <1>4, <1>5, <1>6, <1>7, <2>1
<1>9. \A k \in 1 .. (m - 1) + 1 : t[k] \in Nat /\ t[k] <= upto
  <2> TAKE k \in 1 .. (m - 1) + 1
  <2>1. k \in 1 .. m /\ k + 1 \in 1 .. m + 1
    BY <1>2
  <2> QED
    BY <1>4, <1>5, <2>1
<1>10. \A k \in 1 .. m - 1 : t[k + 1] = t[k] + Stretch(e[k]) /\ Tells(e[k], t[k])
  <2> TAKE k \in 1 .. m - 1
  <2>1. k \in 1 .. m /\ k + 1 \in 1 .. m
    BY <1>2
  <2> QED
    BY <1>2, <1>4, <1>5, <2>1
<1>11. ListsFrom(e, from + Stretch(d[1]), upto, t)
  BY <1>2, <1>8, <1>9, <1>10 DEF ListsFrom
<1> QED
  BY <1>2, <1>3, <1>7, <1>11 DEF Lists, e

\* A step that leaves the missing packets alone leaves the meaning of bytes alone.
LEMMA RereadLists ==
  ASSUME NEW d, NEW from, NEW upto, UNCHANGED holes, Lists(d, from, upto)
  PROVE  Lists(d, from, upto)'
BY DEF Lists, ListsFrom, Tells, Stretch

LEMMA SameHandling ==
  ASSUME NEW upto, Handling(upto),
         UNCHANGED <<holes, window, limit, offset, count, data, freed, requested>>
  PROVE  Handling(upto)'
<1>1. From' = From
  BY DEF From
<1>2. Lists(data, From, upto)'
  <2>1. PICK d : d = data'
    OBVIOUS
  <2>2. PICK at : at = From'
    OBVIOUS
  <2>3. Lists(d, at, upto)
    BY <1>1, <2>1, <2>2 DEF Handling
  <2> QED
    BY <2>1, <2>2, <2>3, RereadLists
<1> QED
  BY <1>1, <1>2 DEF Handling, IsListEnd, NoneMissing, Stretch

LEMMA CodecIsRight == CodecInv => AgreesWithReference
<1> SUFFICES ASSUME CodecInv PROVE AgreesWithReference
  OBVIOUS
<1>1. CodecTypeOK /\ phase # "failed" /\ window \in Nat /\ holes \subseteq 0 .. window - 1
  BY DEF CodecInv
<1>2. phase \in {"generate", "handle", "done"} /\ offset \in Nat /\ count \in Nat
  BY <1>1, CodecAssumption DEF CodecTypeOK
<1>3. CASE phase = "generate"
  BY <1>1, <1>3 DEF CodecInv, Generating, AgreesWithReference
<1>4. CASE phase = "handle"
  BY <1>1, <1>4 DEF CodecInv, Handling, AgreesWithReference
<1>5. CASE phase = "done"
  <2>1. PICK upto \in 0 .. window : Handling(upto)
    BY <1>5 DEF CodecInv
  <2>2. data = << >> /\ count = 1
    BY <1>5, <2>1 DEF CodecInv, Handling
  <2>3. From = offset
    BY <1>2, <2>2 DEF From
  <2>4. From = upto
    <3>1. PICK s : ListsFrom(data, From, upto, s)
      BY <2>1 DEF Handling, Lists
    <3>2. Len(data) + 1 = 1
      BY <2>2
    <3> QED
      BY <3>1, <3>2 DEF ListsFrom
  <2>5. offset <= window /\ IsListEnd(offset)
    BY <1>1, <2>1, <2>3, <2>4 DEF Handling
  <2>6. requested = holes \cap 0 .. offset - 1 /\ freed = (0 .. offset - 1) \ holes
    BY <2>1 DEF Handling
  <2>7. ASSUME window <= limit PROVE requested = holes
    <3>1. \A j \in offset .. window - 1 : j \notin holes
      BY <2>1, <2>3, <2>4, <2>7 DEF Handling, NoneMissing
    <3>2. \A j \in holes : j \in 0 .. offset - 1
      BY <1>1, <1>2, <3>1
    <3> QED
      BY <2>6, <3>2
  <2> QED
    BY <1>1, <2>2, <2>5, <2>6, <2>7 DEF AgreesWithReference
<1> QED
  BY <1>2, <1>3, <1>4, <1>5

LEMMA CodecInitial == CodecInit => CodecInv
<1> SUFFICES ASSUME CodecInit PROVE CodecInv
  OBVIOUS
<1>1. /\ window \in Nat /\ sent \in Nat /\ limit \in Nat /\ window <= sent /\ sent <= MaxWindow
      /\ holes \subseteq 0 .. window - 1
  BY CodecAssumption DEF CodecInit
<1>2. offset = 0 /\ count = 1 /\ data = << >> /\ Len(data) = 0 /\ freed = {} /\ requested = {} /\ phase = "generate"
  BY DEF CodecInit
<1>3. CodecTypeOK
  BY <1>1, <1>2, CodecAssumption DEF CodecTypeOK
<1>4. From = 0
  BY <1>2 DEF From
<1>5. Lists(<< >>, 0, 0)
  BY NothingListed
<1>6. Generating
  BY <1>1, <1>2, <1>4, <1>5 DEF Generating, IsListEnd, NoneMissing
<1> QED
  BY <1>1, <1>2, <1>3, <1>6 DEF CodecInv

\* The parts of the invariant that every step has to keep.
LEMMA CodecFacts ==
  ASSUME CodecInv
  PROVE  /\ window \in Nat /\ sent \in Nat /\ limit \in Nat /\ window <= sent /\ sent <= MaxWindow
         /\ MaxWindow \in Nat /\ MaxRun \in Nat /\ MaxRun >= 1 /\ MaxLength \in Nat
         /\ holes \subseteq 0 .. window - 1 /\ offset \in Nat /\ offset <= MaxWindow
         /\ count \in Nat /\ count >= 1 /\ count <= MaxRun
         /\ data \in Seq(0 .. MaxRun) /\ Len(data) \in Nat /\ Len(data) <= limit
         /\ freed \subseteq 0 .. MaxWindow - 1 /\ requested \subseteq 0 .. MaxWindow - 1
BY CodecAssumption DEF CodecInv, CodecTypeOK

LEMMA GenerateStep ==
  ASSUME CodecInv, generate_request_packet
  PROVE  CodecInv'
<1>1. /\ window \in Nat /\ sent \in Nat /\ limit \in Nat /\ window <= sent /\ sent <= MaxWindow
      /\ MaxWindow \in Nat /\ MaxRun \in Nat /\ MaxRun >= 1
      /\ offset \in Nat /\ count \in Nat /\ count >= 1 /\ count <= MaxRun
      /\ data \in Seq(0 .. MaxRun) /\ Len(data) \in Nat /\ Len(data) <= limit
  BY CodecFacts
<1>2. /\ phase = "generate" /\ offset < window /\ Len(data) < limit
      /\ data' = IF ByteDue THEN Append(data, Byte) ELSE data
      /\ count' = IF ByteDue THEN 1 ELSE count + 1
      /\ offset' = offset + 1
      /\ UNCHANGED <<holes, window, sent, limit, phase, freed, requested>>
  BY <1>1 DEF generate_request_packet, IsFull
<1>3. /\ Len(data) <= offset /\ From \in Nat /\ Lists(data, 0, From) /\ IsListEnd(From)
      /\ NoneMissing(From, offset) /\ freed = {} /\ requested = {}
  BY <1>2 DEF CodecInv, Generating
<1>4. From = offset - (count - 1) /\ From + count = offset + 1 /\ From <= offset
  BY <1>1 DEF From
<1>5. holes \subseteq 0 .. window - 1
  BY DEF CodecInv
<1>6. CASE ByteDue
  <2>1. Byte \in 0 .. MaxRun /\ Stretch(Byte) = count
    BY <1>1, <1>6 DEF ByteDue, Byte, Stretch
  <2>2. Tells(Byte, From)
    <3>1. From + Stretch(Byte) - 1 = offset
      BY <1>1, <1>3, <1>4, <2>1
    <3>2. \A j \in From .. offset : j # offset => j \notin holes
      BY <1>1, <1>3, <1>4 DEF NoneMissing
    <3>3. Byte # 0 <=> offset \in holes
      BY <1>1, <1>6 DEF ByteDue, Byte
    <3>4. \A j \in From .. offset : j \in holes <=> Byte # 0 /\ j = offset
      BY <3>2, <3>3
    <3> QED
      BY <3>1, <3>4 DEF Tells
  <2>3. Lists(Append(data, Byte), 0, From + Stretch(Byte))
    BY <1>1, <1>3, <2>1, <2>2, OneMoreByte
  <2>4. From + Stretch(Byte) = offset + 1
    BY <1>4, <2>1
  <2>5. data' = Append(data, Byte) /\ count' = 1 /\ offset' = offset + 1
    BY <1>2, <1>6
  <2>6. data' \in Seq(0 .. MaxRun) /\ Len(data') = Len(data) + 1
    BY <1>1, <2>1, <2>5, AppendProperties
  <2>7. From' = offset + 1
    BY <1>1, <2>5 DEF From
  <2>8. IsListEnd(offset + 1)
    <3>1. CASE offset \in holes
      BY <1>1, <3>1 DEF IsListEnd
    <3>2. CASE offset \notin holes
      <4>1. count = MaxRun
        BY <1>6, <3>2 DEF ByteDue
      <4>2. PICK u \in Nat : u = offset + 1
        BY <1>1
      <4>3. u - MaxRun = From /\ u >= MaxRun /\ u - 1 = offset
        BY <1>1, <1>3, <1>4, <4>1, <4>2
      <4>4. \A j \in From .. offset : j \notin holes
        BY <1>1, <1>3, <1>4, <3>2 DEF NoneMissing
      <4>5. \A j \in u - MaxRun .. u - 1 : j \notin holes
        BY <4>3, <4>4
      <4>6. IsListEnd(u)
        BY <4>3, <4>5 DEF IsListEnd
      <4> QED
        BY <4>2, <4>6
    <3> QED
      BY <3>1, <3>2
  <2>9. CodecTypeOK'
    BY <1>1, <1>2, <1>3, <2>5, <2>6 DEF CodecTypeOK
  <2>10. (offset <= window /\ Len(data) <= offset /\ From \in Nat)'
    BY <1>1, <1>2, <1>3, <2>5, <2>6, <2>7
  <2>11. Lists(data, 0, From)'
    <3>1. PICK d : d = data'
      OBVIOUS
    <3>2. PICK at : at = From'
      OBVIOUS
    <3>3. Lists(d, 0, at)
      BY <2>3, <2>4, <2>5, <2>7, <3>1, <3>2
    <3> QED
      BY <1>2, <3>1, <3>2, <3>3, RereadLists
  <2>12. IsListEnd(From)'
    BY <1>2, <2>7, <2>8 DEF IsListEnd
  <2>13. NoneMissing(From, offset)'
    BY <1>1, <2>5, <2>7 DEF NoneMissing
  <2>14. Generating'
    BY <1>2, <1>3, <2>10, <2>11, <2>12, <2>13 DEF Generating
  <2> QED
    BY <1>1, <1>2, <1>5, <2>9, <2>14 DEF CodecInv
<1>7. CASE ~ByteDue
  <2>1. offset \notin holes /\ count # MaxRun /\ data' = data /\ count' = count + 1
    BY <1>2, <1>7 DEF ByteDue
  <2>2. From' = From
    BY <1>1, <1>2, <2>1 DEF From
  <2>3. CodecTypeOK'
    BY <1>1, <1>2, <1>3, <2>1 DEF CodecTypeOK
  <2>4. \A j \in From .. offset : j \notin holes
    BY <1>1, <1>3, <1>4, <2>1 DEF NoneMissing
  <2>5. NoneMissing(From, offset)'
    <3>1. \A j \in From .. (offset + 1) - 1 : j \notin holes
      BY <1>1, <2>4
    <3> QED
      BY <1>2, <2>2, <3>1 DEF NoneMissing
  <2>6. Lists(data, 0, From)'
    <3>1. PICK d : d = data'
      OBVIOUS
    <3>2. PICK at : at = From'
      OBVIOUS
    <3>3. Lists(d, 0, at)
      BY <1>3, <2>1, <2>2, <3>1, <3>2
    <3> QED
      BY <1>2, <3>1, <3>2, <3>3, RereadLists
  <2>7. IsListEnd(From)'
    BY <1>2, <1>3, <2>2 DEF IsListEnd
  <2>8. (offset <= window /\ Len(data) <= offset /\ From \in Nat)'
    BY <1>1, <1>2, <1>3, <2>1, <2>2
  <2>9. Generating'
    BY <1>2, <1>3, <2>5, <2>6, <2>7, <2>8 DEF Generating
  <2> QED
    BY <1>1, <1>2, <1>5, <2>3, <2>9 DEF CodecInv
<1> QED
  BY <1>6, <1>7

LEMMA DeliverStep ==
  ASSUME CodecInv, Deliver
  PROVE  CodecInv'
<1>1. /\ window \in Nat /\ sent \in Nat /\ limit \in Nat /\ window <= sent /\ sent <= MaxWindow
      /\ MaxWindow \in Nat /\ MaxRun \in Nat /\ MaxRun >= 1 /\ offset \in Nat /\ count \in Nat /\ count >= 1
      /\ data \in Seq(0 .. MaxRun) /\ Len(data) \in Nat /\ Len(data) <= limit
  BY CodecFacts
<1>2. /\ phase = "generate" /\ (offset = window \/ Len(data) >= limit)
      /\ phase' = "handle" /\ offset' = 0 /\ count' = 1
      /\ UNCHANGED <<holes, window, sent, limit, data, freed, requested>>
  BY DEF Deliver, IsFull
<1>3. /\ offset <= window /\ Len(data) <= offset
      /\ From \in Nat /\ Lists(data, 0, From) /\ IsListEnd(From) /\ NoneMissing(From, offset)
      /\ freed = {} /\ requested = {}
  BY <1>2 DEF CodecInv, Generating
<1>4. PICK upto \in Nat : upto = From
  BY <1>3
<1>5. upto <= offset
  BY <1>1, <1>4 DEF From
<1>6. window <= limit => NoneMissing(upto, window)
  <2>1. window <= limit => offset = window
    BY <1>1, <1>2, <1>3
  <2> QED
    BY <1>3, <1>4, <2>1
<1>7. From' = 0
  BY <1>2 DEF From
<1>8. CodecTypeOK'
  BY <1>1, <1>2, <1>3 DEF CodecTypeOK
<1>9. upto \in 0 .. window
  BY <1>1, <1>3, <1>5
<1>10. (data # << >> => count <= Stretch(data[1]))'
  <2>1. ASSUME data # << >> PROVE 1 <= Stretch(data[1])
    <3>1. data[1] \in 0 .. MaxRun
      <4>1. 1 \in 1 .. Len(data)
        BY <1>1, <2>1, EmptySeq
      <4> QED
        BY <1>1, <4>1, ElementOfSeq
    <3> QED
      BY <3>1, StretchIs
  <2> QED
    BY <1>2, <2>1 DEF Stretch
<1>11. (requested = holes \cap 0 .. offset - 1 /\ freed = (0 .. offset - 1) \ holes)'
  <2>1. 0 .. 0 - 1 = {}
    OBVIOUS
  <2> QED
    BY <1>2, <1>3, <2>1
<1>12. IsListEnd(upto)' /\ (window <= limit => NoneMissing(upto, window))'
  BY <1>2, <1>3, <1>4, <1>6 DEF IsListEnd, NoneMissing
<1>13. Lists(data, From, upto)'
  <2>1. PICK d : d = data'
    OBVIOUS
  <2>2. PICK at : at = From'
    OBVIOUS
  <2>3. Lists(d, at, upto)
    BY <1>2, <1>3, <1>4, <1>7, <2>1, <2>2
  <2> QED
    BY <1>2, <2>1, <2>2, <2>3, RereadLists
<1>14. Handling(upto)'
  BY <1>2, <1>7, <1>10, <1>11, <1>12, <1>13 DEF Handling
<1>15. holes \subseteq 0 .. window - 1
  BY DEF CodecInv
<1> QED
  BY <1>1, <1>2, <1>8, <1>9, <1>14, <1>15 DEF CodecInv

LEMMA HandleStep ==
  ASSUME CodecInv, handle_request_packet
  PROVE  CodecInv'
<1>1. /\ window \in Nat /\ sent \in Nat /\ limit \in Nat /\ window <= sent /\ sent <= MaxWindow
      /\ MaxWindow \in Nat /\ MaxRun \in Nat /\ MaxRun >= 1
      /\ offset \in Nat /\ count \in Nat /\ count >= 1 /\ count <= MaxRun
      /\ data \in Seq(0 .. MaxRun) /\ Len(data) \in Nat /\ Len(data) <= limit
      /\ freed \subseteq 0 .. MaxWindow - 1 /\ requested \subseteq 0 .. MaxWindow - 1
  BY CodecFacts
<1>2. /\ phase = "handle" /\ offset < sent /\ data # << >> /\ offset' = offset + 1
      /\ UNCHANGED <<holes, window, sent, limit>>
  BY DEF handle_request_packet
<1>3. holes \subseteq 0 .. window - 1
  BY DEF CodecInv
<1>4. PICK upto \in 0 .. window : Handling(upto)
  BY <1>2 DEF CodecInv
<1>5. /\ IsListEnd(upto) /\ (window <= limit => NoneMissing(upto, window))
      /\ From \in Nat /\ Lists(data, From, upto) /\ count <= Stretch(data[1])
      /\ requested = holes \cap 0 .. offset - 1 /\ freed = (0 .. offset - 1) \ holes
  BY <1>2, <1>4 DEF Handling
<1>6. upto \in Nat /\ upto <= window
  BY <1>1
<1>7. PICK b : b = data[1]
  OBVIOUS
<1>8. /\ b \in 0 .. MaxRun /\ Tells(b, From) /\ From + Stretch(b) <= upto
      /\ Tail(data) \in Seq(0 .. MaxRun) /\ Lists(Tail(data), From + Stretch(b), upto)
  BY <1>1, <1>2, <1>5, <1>6, <1>7, FirstByteRead
<1>9. Stretch(b) \in 1 .. MaxRun /\ (b # 0 => Stretch(b) = b) /\ (b = 0 => Stretch(b) = MaxRun)
  BY <1>8, StretchIs
<1>10. Head(data) = b
  BY <1>1, <1>2, <1>7, HeadTailProperties
<1>11. From = offset - (count - 1) /\ From + count = offset + 1 /\ From <= offset
  BY <1>1 DEF From
<1>12. offset \in From .. From + Stretch(b) - 1
  BY <1>1, <1>5, <1>7, <1>9, <1>11
<1>13. offset \in holes <=> b # 0 /\ offset = From + Stretch(b) - 1
  BY <1>8, <1>12 DEF Tells
<1>14. offset \in holes <=> count = b
  BY <1>1, <1>5, <1>9, <1>11, <1>13
<1>15. IsListEnd(upto)' /\ (window <= limit => NoneMissing(upto, window))'
  BY <1>2, <1>5 DEF IsListEnd, NoneMissing
<1>16. 0 .. offset' - 1 = (0 .. offset - 1) \cup {offset}
  BY <1>1, <1>2
<1>17. (requested = holes \cap 0 .. offset - 1 /\ freed = (0 .. offset - 1) \ holes)'
  <2>1. CASE count = b
    <3>1. requested' = requested \cup {offset} /\ freed' = freed
      BY <1>10, <2>1 DEF handle_request_packet, Listed
    <3> QED
      BY <1>2, <1>5, <1>14, <1>16, <2>1, <3>1
  <2>2. CASE count # b
    <3>1. freed' = freed \cup {offset} /\ requested' = requested
      BY <1>10, <2>2 DEF handle_request_packet, Listed
    <3> QED
      BY <1>2, <1>5, <1>14, <1>16, <2>2, <3>1
  <2> QED
    BY <2>1, <2>2
<1>18. (freed \subseteq 0 .. MaxWindow - 1 /\ requested \subseteq 0 .. MaxWindow - 1)'
  <2>1. (0 .. offset - 1)' \subseteq 0 .. MaxWindow - 1
    BY <1>1, <1>2
  <2> QED
    BY <1>17, <2>1
<1>19. offset' \in 0 .. MaxWindow
  BY <1>1, <1>2
<1>20. CASE data' = Tail(data) /\ count' = 1 /\ phase' = "handle" /\ count = Stretch(b)
  <2>1. From' = From + Stretch(b)
    BY <1>1, <1>2, <1>11, <1>20 DEF From
  <2>2. Len(Tail(data)) = Len(data) - 1
    BY <1>1, <1>2, HeadTailProperties
  <2>3. CodecTypeOK'
    BY <1>1, <1>2, <1>8, <1>18, <1>19, <1>20, <2>2 DEF CodecTypeOK
  <2>4. Lists(data, From, upto)'
    <3>1. PICK d : d = data'
      OBVIOUS
    <3>2. PICK at : at = From'
      OBVIOUS
    <3>3. Lists(d, at, upto)
      BY <1>8, <1>20, <2>1, <3>1, <3>2
    <3> QED
      BY <1>2, <3>1, <3>2, <3>3, RereadLists
  <2>5. (data # << >> => count <= Stretch(data[1]))'
    <3>1. PICK e \in Seq(0 .. MaxRun) : e = Tail(data)
      BY <1>8
    <3>2. ASSUME e # << >> PROVE 1 <= Stretch(e[1])
      <4>1. Len(e) \in Nat /\ Len(e) # 0
        BY <3>2, EmptySeq
      <4>2. 1 \in 1 .. Len(e)
        BY <4>1
      <4>3. e[1] \in 0 .. MaxRun
        BY <4>2, ElementOfSeq
      <4> QED
        BY <1>1, <4>3, StretchIs
    <3> QED
      BY <1>20, <3>1, <3>2 DEF Stretch
  <2>6. From' \in Nat
    BY <1>5, <1>9, <2>1
  <2>7. Handling(upto)'
    BY <1>15, <1>17, <1>20, <2>4, <2>5, <2>6 DEF Handling
  <2> QED
    BY <1>1, <1>2, <1>3, <1>20, <2>3, <2>7 DEF CodecInv
<1>21. CASE data' = data /\ count' = count + 1 /\ phase' = "handle" /\ count # Stretch(b)
  <2>1. From' = From
    BY <1>1, <1>2, <1>21 DEF From
  <2>2. count + 1 <= Stretch(b) /\ count + 1 <= MaxRun
    BY <1>1, <1>5, <1>7, <1>9, <1>21
  <2>3. CodecTypeOK'
    BY <1>1, <1>2, <1>18, <1>19, <1>21, <2>2 DEF CodecTypeOK
  <2>4. Lists(data, From, upto)'
    <3>1. PICK d : d = data'
      OBVIOUS
    <3>2. PICK at : at = From'
      OBVIOUS
    <3>3. Lists(d, at, upto)
      BY <1>5, <1>21, <2>1, <3>1, <3>2
    <3> QED
      BY <1>2, <3>1, <3>2, <3>3, RereadLists
  <2>5. (data # << >> => count <= Stretch(data[1]))'
    BY <1>7, <1>21, <2>2 DEF Stretch
  <2>6. Handling(upto)'
    BY <1>2, <1>5, <1>15, <1>17, <1>21, <2>1, <2>4, <2>5 DEF Handling
  <2> QED
    BY <1>1, <1>2, <1>3, <1>21, <2>3, <2>6 DEF CodecInv
<1>22. CASE count = b
  <2>1. count = Stretch(b)
    BY <1>1, <1>9, <1>22
  <2>2. data' = Tail(data) /\ count' = 1 /\ phase' = "handle"
    BY <1>2, <1>10, <1>22 DEF handle_request_packet, Listed
  <2> QED
    BY <1>20, <2>1, <2>2
<1>23. CASE count # b /\ count = MaxRun
  <2>1. b = 0 /\ count = Stretch(b)
    BY <1>1, <1>5, <1>7, <1>8, <1>9, <1>23
  <2>2. data' = Tail(data) /\ count' = 1 /\ phase' = "handle"
    BY <1>2, <1>10, <1>23, <2>1 DEF handle_request_packet, Listed
  <2> QED
    BY <1>20, <2>1, <2>2
<1>24. CASE count # b /\ count # MaxRun
  <2>1. count # Stretch(b)
    BY <1>8, <1>9, <1>24
  <2>2. data' = data /\ count' = count + 1 /\ phase' = "handle"
    BY <1>2, <1>10, <1>24 DEF handle_request_packet, Listed
  <2> QED
    BY <1>21, <2>1, <2>2
<1> QED
  BY <1>22, <1>23, <1>24

LEMMA FinishStep ==
  ASSUME CodecInv, Finish
  PROVE  CodecInv'
<1>1. /\ window \in Nat /\ sent \in Nat /\ window <= sent /\ MaxRun \in Nat
      /\ offset \in Nat /\ count \in Nat /\ count >= 1 /\ data \in Seq(0 .. MaxRun)
  BY CodecFacts
<1>2. /\ phase = "handle" /\ (offset = sent \/ data = << >>) /\ phase' = "done"
      /\ UNCHANGED <<holes, window, sent, limit, offset, count, data, freed, requested>>
  BY DEF Finish
<1>3. PICK upto \in 0 .. window : Handling(upto)
  BY <1>2 DEF CodecInv
<1>4. data = << >>
  <2> SUFFICES ASSUME data # << >> PROVE FALSE
    OBVIOUS
  <2>1. upto \in Nat /\ upto <= window
    BY <1>1
  <2>2. From \in Nat /\ Lists(data, From, upto) /\ count <= Stretch(data[1])
    BY <1>3 DEF Handling
  <2>3. data[1] \in 0 .. MaxRun /\ From + Stretch(data[1]) <= upto
    BY <1>1, <2>1, <2>2, FirstByteRead
  <2>4. Stretch(data[1]) \in 1 .. MaxRun
    BY <2>3, StretchIs
  <2>5. offset = From + count - 1
    BY <1>1 DEF From
  <2>6. offset < sent
    BY <1>1, <2>1, <2>2, <2>3, <2>4, <2>5
  <2> QED
    BY <1>1, <1>2, <2>6
<1>5. Handling(upto)'
  BY <1>2, <1>3, SameHandling
<1>6. CodecTypeOK'
  BY <1>2 DEF CodecInv, CodecTypeOK
<1> QED
  BY <1>2, <1>4, <1>5, <1>6 DEF CodecInv

LEMMA StepKeepsCodec == CodecInv /\ [CodecNext]_codecVars => CodecInv'
<1> SUFFICES ASSUME CodecInv, [CodecNext]_codecVars PROVE CodecInv'
  OBVIOUS
<1>1. CASE UNCHANGED codecVars
  <2>1. UNCHANGED <<holes, window, sent, limit, phase, offset, count, data, freed, requested>>
    BY <1>1 DEF codecVars
  <2>2. CodecTypeOK'
    BY <2>1 DEF CodecInv, CodecTypeOK
  <2>3. phase = "generate" => Generating'
    <3>1. From' = From
      BY <2>1 DEF From
    <3>2. Generating => Lists(data, 0, From)'
      <4>1. PICK d : d = data'
        OBVIOUS
      <4>2. PICK at : at = From'
        OBVIOUS
      <4>3. Generating => Lists(d, 0, at)
        BY <2>1, <3>1, <4>1, <4>2 DEF Generating
      <4> QED
        BY <2>1, <4>1, <4>2, <4>3, RereadLists
    <3>3. Generating => Generating'
      BY <2>1, <3>1, <3>2 DEF Generating, IsListEnd, NoneMissing
    <3> QED
      BY <3>3 DEF CodecInv
  <2>4. ASSUME NEW upto \in 0 .. window, Handling(upto) PROVE Handling(upto)'
    BY <2>1, <2>4, SameHandling
  <2> QED
    BY <2>1, <2>2, <2>3, <2>4 DEF CodecInv
<1> QED
  BY <1>1, GenerateStep, DeliverStep, HandleStep, FinishStep DEF CodecNext

\* Whatever packets are missing, however long the two windows are and however few
\* bytes fit, handle_request_packet reads the bytes generate_request_packet wrote as
\* they were meant: it frees no packet the receiver misses at any round of its loop,
\* requests exactly the missing ones among those the bytes speak of, and never
\* returns -1 on them.
THEOREM RequestsAreUnderstood == CodecSpec => []AgreesWithReference
<1>1. CodecSpec => []CodecInv
  BY CodecInitial, StepKeepsCodec, PTL DEF CodecSpec
<1> QED
  BY <1>1, CodecIsRight, PTL

=============================================================================
