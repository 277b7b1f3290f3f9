------------------------------- MODULE Assoc -------------------------------
(***************************************************************************)
(* assoc.c: the cache of nodes that are not in use.  A node is kept in the *)
(* bucket of the first bits of its key, in one of HASH_COLLIDE_COUNT       *)
(* places that its hash leads to, and may push out a node that is worth    *)
(* less: used beats seen, seen beats heard, heard beats silent.            *)
(*                                                                         *)
(* A key is two bytes of ByteBits bits; ages stand for timestamps, counted *)
(* in steps of BAD_NODE_TIMEOUT, up to SeenTimeout for whatever is older   *)
(* or was never.                                                           *)
(***************************************************************************)
EXTENDS Integers, Sequences, FiniteSets
LOCAL INSTANCE Bitwise
LOCAL INSTANCE FiniteSetsExt
LOCAL INSTANCE SequencesExt

CONSTANTS
  ByteBits,      \* bits of a byte of a key
  LastBits,      \* bits of the last byte that id_distance looks at
  BucketBits,    \* candidates_bucket_bits
  AssocKey,      \* keys of nodes
  AssocSelf,     \* keys this node may have
  KeyHash,       \* id_hash before its last correction
  AssocEntries,  \* the numbers of entries asked of new_Assoc
  AssocAddr,     \* addresses: records with family, lan and host; one of another
                 \* family, for which a new entry would be wiped, does not get here
  HeardTimeout,  \* CANDIDATES_HEARD_TIMEOUT
  SeenTimeout,   \* CANDIDATES_SEEN_TIMEOUT
  CloseCount,    \* count and count_good of a query
  MaxAssocCalls

ASSUME AssocAssumption ==
  /\ ByteBits \in Nat /\ LastBits \in 0 .. ByteBits /\ BucketBits \in 1 .. ByteBits
  /\ \A k \in AssocKey \cup AssocSelf : k \in (0 .. 2^ByteBits - 1) \X (0 .. 2^ByteBits - 1)
  /\ \A k \in AssocKey \cup AssocSelf : KeyHash[k] \in Nat
  /\ \A a \in AssocAddr : a.family \in {4, 6} /\ a.lan \in BOOLEAN
  /\ HeardTimeout \in Nat /\ SeenTimeout \in Nat /\ 1 < HeardTimeout /\ HeardTimeout < SeenTimeout
  /\ AssocEntries \subseteq 0 .. 2^17 - 1

VARIABLES
  assocSize,   \* candidates_bucket_size
  assocSelf,   \* self_client_id
  table,       \* the entries, by bucket and place
  refreshed,   \* the nodes the last do_Assoc asked: <<entry, address>>
  assocCalls

assocVars == <<assocSize, assocSelf, table, refreshed, assocCalls>>

HashCollideCount == 5
HashCollidePrime == 101
BucketIds == 0 .. 2^BucketBits - 1

NoAddress == [family |-> 0, lan |-> FALSE, host |-> 0]

\* An entry with the hash 0.
Vacant == [set |-> FALSE, id |-> <<0, 0>>, used |-> SeenTimeout, seen |-> SeenTimeout,
           heard |-> SeenTimeout, asked |-> SeenTimeout, seenFamily |-> 4, heardFamily |-> 4,
           at |-> [f \in {4, 6} |-> [addr |-> NoAddress, age |-> SeenTimeout]],
           rumor |-> [f \in {4, 6} |-> NoAddress]]

-----------------------------------------------------------------------------
(* Sizes, hashes and distances.                                            *)

odd_min9_is_prime(n) == \A i \in 3 .. n : i % 2 = 1 /\ i * i <= n => n % i # 0

prime_upto_min9(n) ==
  Max({p \in 3 .. n : p % 2 = 1 /\ odd_min9_is_prime(p)})

\* The number of places in a bucket: a prime other than the one of hash_collide.
BucketSizeFor(entries) ==
  LET odd == entries - (1 - (entries % 2))
      prime == prime_upto_min9(entries)
  IN  IF entries <= 6 THEN 5
      ELSE IF entries < 25 THEN (IF odd % 3 = 0 THEN odd - 2 ELSE odd)
      ELSE IF prime = HashCollidePrime THEN prime_upto_min9(prime - 1)
      ELSE prime

\* No hash is a multiple of the size.
id_hash(id, size) == IF KeyHash[id] % size = 0 THEN KeyHash[id] + 1 ELSE KeyHash[id]

hash_collide(pos, size) ==
  LET next == ((pos % size) * HashCollidePrime) % size
  IN  IF next = 0 THEN 1 ELSE next

\* For every size the places a key may have, in the order they are tried.
TriedPlaces ==
  [size \in {BucketSizeFor(n) : n \in AssocEntries} |->
    [id \in AssocKey \cup AssocSelf |->
      LET pos[n \in 1 .. HashCollideCount] ==
            IF n = 1 THEN id_hash(id, size) % size ELSE hash_collide(pos[n - 1], size)
      IN  [n \in 1 .. HashCollideCount |-> pos[n]]]]

Tries(id) == TriedPlaces[assocSize][id]

id_bucket(id) == id[1] \div 2^(ByteBits - BucketBits)

\* The exclusive or of two bytes is taken as signed, and made positive.
id_distance(ref, id) ==
  LET first == ref[1] ^^ id[1]
      abs == IF first < 2^(ByteBits - 1) THEN first ELSE 2^ByteBits - first
  IN  abs * 2^LastBits + (ref[2] ^^ id[2]) \div 2^(ByteBits - LastBits)

\* id_closest of DHT.c.
Nearer(ref, id1, id2) ==
  \/ (ref[1] ^^ id1[1]) < (ref[1] ^^ id2[1])
  \/ id1[1] = id2[1] /\ (ref[2] ^^ id1[2]) < (ref[2] ^^ id2[2])

-----------------------------------------------------------------------------
(* Candidates.                                                             *)

\* The place of a key in its bucket, 0 when it has none.
candidates_search(id) ==
  LET found == {n \in 1 .. HashCollideCount :
                  LET e == table[id_bucket(id)][Tries(id)[n]] IN e.set /\ e.id = id}
  IN  IF found = {} THEN 0 ELSE Tries(id)[Min(found)]

\* BAD, SEENB_HEARDG, SEENG and USED.
Worth(e) ==
  IF e.used < 1 THEN 3
  ELSE IF e.seen < SeenTimeout THEN 2
  ELSE IF e.heard < HeardTimeout THEN 1
  ELSE 0

\* Mutant of BumpLimit: an entry may push out one that is worth as much.
BumpLimit_Variant(seen, used) == IF used THEN 4 ELSE IF seen THEN 3 ELSE 2

\* What an entry must be worth less than to be pushed out.
BumpLimit(seen, used) == IF used THEN 3 ELSE IF seen THEN 2 ELSE 1

\* The first free place, or the first of those worth least; 0 for none.
candidates_create_internal(id, seen, used) ==
  LET list == table[id_bucket(id)]
      tries == Tries(id)
      free == {n \in DOMAIN tries : ~list[tries[n]].set}
      lesser == {n \in DOMAIN tries : Worth(list[tries[n]]) < BumpLimit(seen, used)}
      least == {n \in lesser : \A m \in lesser : Worth(list[tries[n]]) <= Worth(list[tries[m]])}
  IN  IF free # {} THEN tries[Min(free)]
      ELSE IF lesser # {} THEN tries[Min(least)]
      ELSE 0

Seen(e, addr) ==
  [e EXCEPT !.seen = 0, !.seenFamily = addr.family, !.at[addr.family] = [addr |-> addr, age |-> 0]]

Rumored(e, addr) ==
  [e EXCEPT !.heard = 0, !.heardFamily = addr.family, !.rumor[addr.family] = addr]

\* An address that is known changes nothing, and one inside the LAN does not
\* replace one outside, unless that is old.
entry_heard_store(e, addr) ==
  LET old == e.rumor[addr.family]
  IN  IF addr = old \/ (old # NoAddress /\ addr.lan /\ ~old.lan /\ e.heard < HeardTimeout)
      THEN e ELSE Rumored(e, addr)

candidates_update_assoc(e, addr, seen, used) ==
  LET u == [e EXCEPT !.used = IF used THEN 0 ELSE @]
  IN  IF seen THEN Seen(u, addr) ELSE entry_heard_store(u, addr)

candidates_create_new(id, addr, seen, used) ==
  LET e == [Vacant EXCEPT !.set = TRUE, !.id = id, !.used = IF used THEN 0 ELSE @]
  IN  IF seen THEN Seen(e, addr) ELSE Rumored(e, addr)

\* The entries of the own key are removed.
client_id_self_update(entries, id) ==
  [b \in BucketIds |-> [p \in DOMAIN entries[b] |->
     IF b = id_bucket(id) /\ entries[b][p].set /\ entries[b][p].id = id
     THEN Vacant ELSE entries[b][p]]]

-----------------------------------------------------------------------------
(* Calls.                                                                  *)

AssocCall(entries) ==
  /\ assocCalls < MaxAssocCalls /\ assocCalls' = assocCalls + 1
  /\ table' = entries
  /\ UNCHANGED assocSize

new_Assoc(entries, self) ==
  /\ assocSize = BucketSizeFor(entries)
  /\ assocSelf = self
  /\ table = [b \in BucketIds |-> [p \in 0 .. assocSize - 1 |-> Vacant]]
  /\ refreshed = {}
  /\ assocCalls = 0

Assoc_add_entry(id, addr, seen, used) ==
  LET b == id_bucket(id)
      known == candidates_search(id)
      place == candidates_create_internal(id, seen, used)
  IN  /\ id # assocSelf
      /\ known # 0 \/ place # 0
      /\ AssocCall(IF known # 0
                   THEN [table EXCEPT ![b][known] = candidates_update_assoc(@, addr, seen, used)]
                   ELSE [table EXCEPT ![b][place] = candidates_create_new(id, addr, seen, used)])
      /\ refreshed' = {}
      /\ UNCHANGED assocSelf

Assoc_self_client_id_changed(id) ==
  /\ id # assocSelf
  /\ assocSelf' = id
  /\ AssocCall(client_id_self_update(table, id))
  /\ refreshed' = {}

\* From a bucket on, those around it by turns, all but one: the first node seen
\* and the first heard of that have not been asked for long are asked.
BucketOrder(candidate) ==
  [i \in 1 .. 2^BucketBits - 1 |->
     (candidate + (IF i % 2 = 1 THEN -(i \div 2) ELSE i \div 2)) % 2^BucketBits]

PlacesFrom(candidate) ==
  FlattenSeq([i \in 1 .. 2^BucketBits - 1 |->
    [p \in 1 .. assocSize |-> <<BucketOrder(candidate)[i], p - 1>>]])

do_Assoc(candidate) ==
  LET order == PlacesFrom(candidate)
      At(x) == table[x[1]][x[2]]
      Idle(x) == At(x).set /\ At(x).asked >= SeenTimeout
      seen == SelectInSeq(order, LAMBDA x : Idle(x) /\ At(x).seen < SeenTimeout)
      heard == SelectInSeq(order, LAMBDA x : Idle(x) /\ At(x).heard < HeardTimeout)
      places == {order[i] : i \in {seen, heard} \ {0}}
      bySeen == IF seen = 0 THEN {}
                ELSE {<<At(order[seen]), At(order[seen]).at[At(order[seen]).seenFamily].addr>>}
      byHeard == IF heard \in {0, seen} THEN {}
                 ELSE {<<At(order[heard]), At(order[heard]).rumor[At(order[heard]).heardFamily]>>}
  IN  /\ places # {}
      /\ AssocCall([b \in BucketIds |-> [p \in DOMAIN table[b] |->
           IF <<b, p>> \in places THEN [table[b][p] EXCEPT !.asked = 0] ELSE table[b][p]]])
      /\ refreshed' = bySeen \cup byHeard
      /\ UNCHANGED assocSelf

Later(age) == IF age < SeenTimeout THEN age + 1 ELSE SeenTimeout

AssocTimePasses ==
  /\ table' = [b \in BucketIds |-> [p \in DOMAIN table[b] |->
       [table[b][p] EXCEPT !.used = Later(@), !.seen = Later(@), !.heard = Later(@), !.asked = Later(@),
          !.at = [f \in {4, 6} |-> [@[f] EXCEPT !.age = Later(@)]]]]]
  /\ refreshed' = {}
  /\ UNCHANGED <<assocSize, assocSelf, assocCalls>>

AssocInit == \E entries \in AssocEntries, self \in AssocSelf : new_Assoc(entries, self)

AssocNext ==
  \/ \E id \in AssocKey, addr \in AssocAddr, seen, used \in BOOLEAN : Assoc_add_entry(id, addr, seen, used)
  \/ \E id \in AssocSelf : Assoc_self_client_id_changed(id)
  \/ \E b \in BucketIds : do_Assoc(b)
  \/ AssocTimePasses

AssocSpec == AssocInit /\ [][AssocNext]_assocVars

-----------------------------------------------------------------------------
(* Assoc_get_close_entries: the entries sorted by id_distance, equal ones  *)
(* by id_closest; of these the first good ones up to a quota, then any.    *)

AssocEntriesSet ==
  {table[x[1]][x[2]] : x \in {y \in BucketIds \X (0 .. assocSize - 1) : table[y[1]][y[2]].set}}

\* protos: the families asked for, all of which the entry must have.
Wanted(e, protos, lanOk) ==
  \A f \in protos : e.at[f].addr # NoAddress /\ (e.at[f].addr.lan => lanOk)

GoodEntry(e, protos) == IF protos = {} THEN e.seen < 1 ELSE \A f \in protos : e.at[f].age < 1

\* The key that the others are compared with is not renewed after a swap.
dist_index_bubble(list, ref) ==
  LET Pass(l, i) ==
        FoldLeft(LAMBDA m, k : IF Nearer(ref, l[k].id, l[i].id)
                               THEN [m EXCEPT ![i] = m[k], ![k] = m[i]] ELSE m,
                 l, [n \in 1 .. Len(l) - i |-> i + n])
  IN  FoldLeft(Pass, list, [i \in 1 .. Len(list) |-> i])

SortedByDistance(ref, entries) ==
  LET groups == {id_distance(ref, e.id) : e \in entries}
      Index(e) == id_bucket(e.id) * assocSize + candidates_search(e.id)
      Group(d) == SetToSortSeq({e \in entries : id_distance(ref, e.id) = d},
                               LAMBDA e, f : Index(e) < Index(f))
  IN  FlattenSeq([i \in 1 .. Cardinality(groups) |->
        dist_index_bubble(Group(SetToSortSeq(groups, <)[i]), ref)])

\* Mutant of Remaining: the last one taken is taken again.
Remaining_Variant(sorted, last, room) ==
  SubSeq(sorted, Max({last, 1}), Min({Len(sorted), last + room}))

\* The entries after the last one taken when the quota of good ones was not met.
Remaining(sorted, last, room) ==
  SubSeq(sorted, last + 1, Min({Len(sorted), last + room}))

TakeClosest(sorted, protos) ==
  LET Take(acc, i) ==
        IF Len(acc.result) < CloseCount.all /\ (acc.good >= CloseCount.good \/ GoodEntry(sorted[i], protos))
        THEN [result |-> Append(acc.result, sorted[i]), last |-> i,
              good |-> acc.good + IF acc.good < CloseCount.good THEN 1 ELSE 0]
        ELSE acc
      Rest(first) == first.result \o Remaining(sorted, first.last, CloseCount.all - Len(first.result))
  IN  Rest(FoldLeft(Take, [result |-> << >>, last |-> 0, good |-> 0], [i \in DOMAIN sorted |-> i]))

Assoc_get_close_entries(ref, protos, lanOk) ==
  TakeClosest(SortedByDistance(ref, {e \in AssocEntriesSet : Wanted(e, protos, lanOk)}), protos)

-----------------------------------------------------------------------------
(* Properties.                                                             *)

\* Every entry is where candidates_search looks for it, once, and none has the
\* own key.
EntriesAreFound ==
  \A b \in BucketIds, p \in 0 .. assocSize - 1 :
    LET e == table[b][p]
    IN  e.set => b = id_bucket(e.id) /\ candidates_search(e.id) = p /\ e.id # assocSelf

\* An entry is pushed out only for one worth more or when its key becomes the
\* own one; and do_Assoc asks a node that was not asked for long, at an address
\* where it was seen or heard of (candidates_create_internal,
\* client_id_self_update, do_Assoc).
AssocKeepsTheBest ==
  [][table' # table =>
     /\ \A b \in BucketIds, p \in 0 .. assocSize - 1 :
          LET e == table[b][p]
              f == table'[b][p]
          IN  /\ e.set /\ f.set /\ e.id # f.id => Worth(e) < Worth(f)
              /\ e.set /\ ~f.set => e.id = assocSelf'
     /\ \A r \in refreshed' : r[2] # NoAddress /\ r[1].asked >= SeenTimeout /\ Worth(r[1]) > 0]_assocVars

IsGoodAnswer(result, wanted, good) ==
  /\ ToSet(result) \subseteq wanted
  /\ Cardinality(ToSet(result)) = Len(result) /\ Len(result) <= CloseCount.all
  /\ Cardinality(ToSet(result) \cap good) >= Min({CloseCount.good, Cardinality(good)})
  /\ wanted # {} => result # << >>

\* A query is given good nodes up to its quota as long as there are any, no node
\* twice, and others only when it asked for them (Assoc_get_close_entries).
CloseEntriesAreGood ==
  AssocEntriesSet # {} => \A ref \in AssocKey, protos \in SUBSET {4, 6}, lanOk \in BOOLEAN :
    LET wanted == {e \in AssocEntriesSet : Wanted(e, protos, lanOk)}
    IN  IsGoodAnswer(Assoc_get_close_entries(ref, protos, lanOk), wanted,
                     {e \in wanted : GoodEntry(e, protos)})

\* The table keeps what is worth keeping and its queries are answered from it.
AssocIsSound == AssocKeepsTheBest /\ [](EntriesAreFound /\ CloseEntriesAreGood)

=============================================================================
