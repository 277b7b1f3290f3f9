---------------------------- MODULE OnionAnnounce ---------------------------
(***************************************************************************)
(* onion_announce.c, on top of the paths of Onion: a node keeps for a      *)
(* number of users the way back to them, and hands on the data others send *)
(* to them.  A user who asks is told a ping id, which depends on his key,  *)
(* on the last node of his path and on the time; when he comes back with   *)
(* it he is stored.  The nodes of the DHT that the answer also holds are   *)
(* left out (get_close_nodes in Dht).                                      *)
(*                                                                         *)
(* Time is counted in periods of PING_ID_TIMEOUT; age is the number of     *)
(* periods since an entry was stored.                                      *)
(***************************************************************************)
EXTENDS Onion, Integers
LOCAL INSTANCE FiniteSetsExt

CONSTANTS
  Store,            \* the node that stores
  OnionDistance,    \* user -> distance of his key from the node's key
  MaxEntries,       \* ONION_ANNOUNCE_MAX_ENTRIES
  AnnounceTimeout,  \* ONION_ANNOUNCE_TIMEOUT in periods
  MaxPeriod,        \* bound on the time
  NoUser

ASSUME OnionAnnounceAssumption ==
  /\ Store \in OnionNode /\ NoUser \notin OnionUser
  /\ OnionDistance \in [OnionUser -> Nat]
  /\ \A u, v \in OnionUser : OnionDistance[u] = OnionDistance[v] => u = v
  /\ MaxEntries \in Nat \ {0} /\ AnnounceTimeout \in Nat \ {0, 1}
  /\ MaxPeriod \in Nat

VARIABLES
  announces, \* onion_a->entries
  period,    \* the time
  secret,    \* the number of secret_bytes
  learnt     \* per user, the ping ids and data keys he has been told

announceVars == <<announces, period, secret, learnt>>
onionAnnounceVars == <<onionVars, announceVars>>

NoAnnounce == [pk |-> NoUser, via |-> At(Store), ret |-> << >>, dataKey |-> 0, age |-> AnnounceTimeout]
NoPingId == [secret |-> 0, period |-> 0, pk |-> NoUser, via |-> At(Store)]

OnionAnnounceInit ==
  /\ OnionInit
  /\ announces = [i \in 1 .. MaxEntries |-> NoAnnounce]
  /\ period = 0
  /\ secret = 1
  /\ learnt = [u \in OnionUser |-> [ids |-> {}, keys |-> {}, dataKey |-> 1]]

-----------------------------------------------------------------------------
(* The entries.                                                            *)

EntryTimedOut(e) == e.age >= AnnounceTimeout

\* The index of the user's entry, 0 for none.
in_entries(list, pk) ==
  LET found == {i \in DOMAIN list : ~EntryTimedOut(list[i]) /\ list[i].pk = pk}
  IN  IF found = {} THEN 0 ELSE CHOOSE i \in found : \A j \in found : i <= j

\* cmp_entry: entries that have timed out first, then the farthest.  qsort
\* leaves the ones that have timed out in any order, and they are all alike to
\* the code: the order they have is kept here.
cmp_entry(e1, e2) ==
  \/ EntryTimedOut(e1) /\ ~EntryTimedOut(e2)
  \/ ~EntryTimedOut(e1) /\ ~EntryTimedOut(e2) /\ OnionDistance[e1.pk] > OnionDistance[e2.pk]

Before(list, i, j) ==
  \/ cmp_entry(list[i], list[j])
  \/ ~cmp_entry(list[j], list[i]) /\ i < j

\* qsort: the entries in the order of cmp_entry.
SortedEntries(list) ==
  LET orders == {o \in [DOMAIN list -> DOMAIN list] :
                   \A i, j \in DOMAIN list : i < j => Before(list, o[i], o[j])}
  IN  {[i \in DOMAIN list |-> list[o[i]]] : o \in orders}

\* A new entry takes the place of the user's own, of the last that has timed
\* out, or of the farthest one.
Place(list, pk) ==
  LET own == in_entries(list, pk)
      old == {i \in DOMAIN list : EntryTimedOut(list[i])}
  IN  IF own # 0 THEN own
      ELSE IF old # {} THEN Max(old)
      ELSE IF OnionDistance[pk] < OnionDistance[list[1].pk] THEN 1
      ELSE 0

\* What the entries may become.
add_to_entries(list, entry) ==
  IF Place(list, entry.pk) = 0 THEN {list}
  ELSE SortedEntries([list EXCEPT ![Place(list, entry.pk)] = entry])

\* Mutant of generate_ping_id: the last node of the path is left out.
generate_ping_id_Variant(time, pk, via) ==
  [secret |-> secret, period |-> time, pk |-> pk, via |-> At(Store)]

generate_ping_id(time, pk, via) == [secret |-> secret, period |-> time, pk |-> pk, via |-> via]

-----------------------------------------------------------------------------
(* The storing node.                                                       *)

\* is_stored is 2 when the user who asks is stored as he asks, 1 when the user
\* he looks for is.
Announced(list, index, p, id) ==
  LET stored == list[index].pk = p.data.pk
  IN  IF index = 0 \/ (stored /\ list[index].dataKey # p.data.dataKey)
      THEN [isStored |-> 0, id |-> id, dataKey |-> 0]
      ELSE IF stored THEN [isStored |-> 2, id |-> id, dataKey |-> 0]
      ELSE [isStored |-> 1, id |-> NoPingId, dataKey |-> list[index].dataKey]

handle_announce_request(p) ==
  LET id == [t \in {0, 1} |-> generate_ping_id(period + t, p.data.pk, p.from)]
      proven == p.data.id \in {id[0], id[1]}
      entry == [pk |-> p.data.pk, via |-> p.from, ret |-> p.ret, dataKey |-> p.data.dataKey, age |-> 0]
      Reply(list) ==
        LET index == in_entries(list, IF proven THEN p.data.pk ELSE p.data.search)
        IN  [kind |-> "announced", for |-> p.data.pk, search |-> p.data.search,
             is |-> Announced(list, index, p, id[1])]
  IN  /\ p.type = "request" /\ p.data.kind = "announce"
      /\ announces' \in IF proven THEN add_to_entries(announces, entry) ELSE {announces}
      /\ Handles(p, {send_onion_response(Store, p.from, Reply(announces'), p.ret)})
      /\ UNCHANGED <<onionKey, due, period, secret, learnt>>

handle_data_request(p) ==
  LET index == in_entries(announces, p.data.search)
      data == [kind |-> "delivered", for |-> p.data.search, dataKey |-> p.data.dataKey]
  IN  /\ p.type = "request" /\ p.data.kind = "data"
      /\ Handles(p, IF index = 0 THEN {}
                    ELSE {send_onion_response(Store, announces[index].via, data, announces[index].ret)})
      /\ UNCHANGED <<onionKey, due, announceVars>>

\* new_onion and new_onion_announce: the node is started again.
new_onion_announce ==
  /\ Event
  /\ onionKey' = [onionKey EXCEPT ![Store] = @ + 1]
  /\ due' = due \ {Store}
  /\ secret' = secret + 1
  /\ announces' = [i \in 1 .. MaxEntries |-> NoAnnounce]
  /\ UNCHANGED <<wire, period, learnt>>

PeriodPasses ==
  /\ period < MaxPeriod
  /\ period' = period + 1
  /\ announces' = [i \in DOMAIN announces |->
                   [announces[i] EXCEPT !.age = IF @ < AnnounceTimeout THEN @ + 1 ELSE @]]
  /\ UNCHANGED <<onionVars, secret, learnt>>

-----------------------------------------------------------------------------
(* The users, as far as the paths see them; OnionClient has the rest.  A   *)
(* user announces himself, with an id he was told, looks for another one,  *)
(* and sends data to those whose data key he was told.                     *)

Packet(u, path, data) ==
  IF path \in TcpPath THEN create_onion_packet_tcp([who |-> u, family |-> "tcp"], path, Store, data)
  ELSE create_onion_packet([who |-> u, family |-> "udp"], path, Store, data)

send_announce_request(u, path, id, search) ==
  /\ id = NoPingId \/ (id \in learnt[u].ids /\ search = u)
  /\ SendOnion(Packet(u, path,
       [kind |-> "announce", pk |-> u, id |-> id, search |-> search, dataKey |-> learnt[u].dataKey]))
  /\ UNCHANGED <<announces, period, secret, learnt>>

send_data_request(u, path, known) ==
  /\ known \in learnt[u].keys
  /\ SendOnion(Packet(u, path,
       [kind |-> "data", search |-> known.user, dataKey |-> known.key]))
  /\ UNCHANGED <<announces, period, secret, learnt>>

\* An answer reaches an address.
ResponseArrives(p) ==
  LET u == p.to.who
      is == p.data.is
  IN  /\ p.type = "response"
      /\ Handles(p, {})
      /\ learnt' = IF p.data.kind # "announced" THEN learnt
                   ELSE IF is.isStored = 1
                   THEN [learnt EXCEPT ![u].keys = @ \cup {[user |-> p.data.search, key |-> is.dataKey]}]
                   ELSE [learnt EXCEPT ![u].ids = @ \cup {is.id}]
      /\ UNCHANGED <<onionKey, due, announces, period, secret>>

OnionAnnounceNext ==
  \/ \E p \in wire :
       \/ p.to.who \in OnionNode /\ OnionStep(p.to.who, p) /\ UNCHANGED announceVars
       \/ handle_announce_request(p) \/ handle_data_request(p)
       \/ ResponseArrives(p)
       \/ LoseOnion(p) /\ UNCHANGED announceVars
  \/ \E n \in OnionNode : KeyTimesOut(n) /\ UNCHANGED announceVars
  \/ new_onion_announce \/ PeriodPasses
  \/ \E u \in OnionUser, path \in OnionPath :
       \/ \E id \in learnt[u].ids \cup {NoPingId}, v \in OnionUser :
            send_announce_request(u, path, id, v)
       \/ \E known \in learnt[u].keys : send_data_request(u, path, known)

OnionAnnounceSpec == OnionAnnounceInit /\ [][OnionAnnounceNext]_onionAnnounceVars

-----------------------------------------------------------------------------
(* Properties.                                                             *)

\* Over three hops there and three hops back, with packets lost, doubled and
\* overtaking each other, nodes changing keys and users being stored over
\* changing paths, a user is handed only answers to his own requests and data
\* for his own key (the return data of onion.c, ret of an announce entry).
AnswersFindTheirWay == \A p \in wire : p.type = "response" => p.to.who = p.data.for

\* Nobody is stored for a path he does not receive on: the entry of a user goes
\* over a node over which he was told an id of the present secret, for the
\* period in which the entry was made or the next (handle_announce_request,
\* generate_ping_id).
EntriesAreEarned ==
  \A i \in DOMAIN announces : ~EntryTimedOut(announces[i]) =>
    \E id \in learnt[announces[i].pk].ids :
      /\ id.via = announces[i].via /\ id.secret = secret
      /\ id.period - (period - announces[i].age) \in {0, 1}

=============================================================================
