-------------------------------- MODULE Dht ---------------------------------
(***************************************************************************)
(* DHT.c and ping.c: the nodes one node of the DHT knows.  The close list  *)
(* has a bucket for every number of leading bits a key shares with ours; a *)
(* friend has a list of the nodes closest to him.  A node enters a list    *)
(* when it answers a request; requests go to the nodes in the lists, to    *)
(* the nodes others have told us of (to_bootstrap) and to the nodes that   *)
(* have asked us something (to_ping).                                      *)
(*                                                                         *)
(* A key is a sequence of bits.  Time is counted in ping intervals: the    *)
(* age of an address is the number of intervals since its node answered.   *)
(* asked and pinged hold the requests that can still be answered; how      *)
(* ping_array.c keeps them is in PingArray.  The addresses that nodes      *)
(* return for a friend (ret_ip_port) are in DhtNat.  The build without     *)
(* ENABLE_ASSOC_DHT is modelled; do_hardening is never called.             *)
(***************************************************************************)
EXTENDS Integers, Sequences, FiniteSets
LOCAL INSTANCE SequencesExt
LOCAL INSTANCE FiniteSetsExt
LOCAL INSTANCE TLC

CONSTANTS
  KeyBits,       \* bits of a key
  SelfKey,       \* our public key
  DhtNode,       \* nodes, <<key, address>>; a key may move and an address change hands;
                 \* an address is a record of family (4 or 6), lan and host
  BootNode,      \* nodes the user bootstraps from
  DhtHolder,     \* those who add friends
  FriendKey,     \* keys they add
  FakeKeys,      \* random keys of the DHT_FAKE_FRIEND_NUMBER friends of new_DHT
  Buckets,       \* LCLIENT_LENGTH
  BucketSize,    \* LCLIENT_NODES
  FriendClients, \* MAX_FRIEND_CLIENTS
  MaxSentNodes,  \* MAX_SENT_NODES
  MaxCloseBoot,  \* MAX_CLOSE_TO_BOOTSTRAP_NODES
  MaxToPing,     \* MAX_TO_PING
  MaxLocks,      \* DHT_FRIEND_MAX_LOCKS
  BadAge,        \* BAD_NODE_TIMEOUT in ping intervals
  KillAge,       \* KILL_NODE_TIMEOUT in ping intervals
  MaxDhtCalls    \* bound on the packets and calls that come in

DhtKey == [1 .. KeyBits -> {0, 1}]

Agree(k1, k2) == Cardinality({i \in 1 .. KeyBits : \A j \in 1 .. i : k1[j] = k2[j]})

\* add_to_close moves a key that shares more than LCLIENT_LENGTH bits to the
\* last bucket; one that shares exactly that many would be put behind the list,
\* so that no key of the instance does.
ASSUME DhtAssumption ==
  /\ KeyBits \in Nat /\ SelfKey \in DhtKey /\ BootNode \subseteq DhtNode
  /\ \A n \in DhtNode : n[1] \in DhtKey /\ n[2].family \in {4, 6} /\ n[2].lan \in BOOLEAN /\ FriendKey \subseteq DhtKey \ {SelfKey}
  /\ FakeKeys \in Seq(DhtKey \ (FriendKey \cup {SelfKey}))
  /\ Buckets \in Nat \ {0} /\ BucketSize \in Nat \ {0}
  /\ FriendClients \in Nat \ {0, 1}
  /\ {MaxSentNodes, MaxCloseBoot, MaxToPing, MaxLocks} \subseteq Nat \ {0}
  /\ BadAge \in Nat \ {0} /\ KillAge \in Nat /\ BadAge < KillAge
  /\ \A k \in DhtKey : Agree(k, SelfKey) # Buckets

VARIABLES
  close,    \* close_clientlist
  friends,  \* friends_list
  boot,     \* to_bootstrap
  toPing,   \* to_ping
  asked,    \* getnodes requests that can still be answered: <<key, address>>
  pinged,   \* ping requests that can
  loaded,   \* loaded_nodes_list, from the next node to try on
  held,     \* what the holders have: friend key and lock number
  dhtCalls

dhtVars == <<close, friends, boot, toPing, asked, pinged, loaded, held, dhtCalls>>

NoKey == [i \in 1 .. KeyBits |-> 2]
NoAddr == [family |-> 0, lan |-> FALSE, host |-> 0]
NoAssoc == [addr |-> NoAddr, age |-> KillAge]
NoData == [pk |-> NoKey, at |-> [f \in {4, 6} |-> NoAssoc]]
NoNode == <<NoKey, NoAddr>>
NotHeld == [pk |-> NoKey, lock |-> 0]

NoLock == "no callback"

\* A friend with one lock, the first callback of which is given.
FriendOf(pk, nodes, callback) ==
  [pk |-> pk, list |-> [i \in 1 .. FriendClients |-> NoData], boot |-> nodes,
   lock |-> 1, callbacks |-> [i \in 1 .. MaxLocks |-> IF i = 1 THEN callback ELSE NoLock]]

\* new_DHT adds friends of its own, which nobody removes: they stay the first.
FakeFriends == [i \in DOMAIN FakeKeys |-> FriendOf(FakeKeys[i], << >>, NoLock)]

DhtInit ==
  /\ close = [i \in 1 .. Buckets * BucketSize |-> NoData]
  /\ friends = FakeFriends
  /\ boot = << >>
  /\ toPing = [i \in 1 .. MaxToPing |-> NoNode]
  /\ asked = {} /\ pinged = {}
  /\ loaded = << >>
  /\ held = [h \in DhtHolder |-> NotHeld]
  /\ dhtCalls = 0

-----------------------------------------------------------------------------
(* Keys and lists.                                                         *)

\* id_closest: the first bit in which two keys differ decides.
id_closest(pk, k1, k2) ==
  \E i \in 1 .. KeyBits : /\ \A j \in 1 .. i - 1 : k1[j] = k2[j]
                          /\ k1[i] = pk[i] /\ k2[i] # pk[i]

Bucket(pk) == IF Agree(pk, SelfKey) > Buckets THEN Buckets - 1 ELSE Agree(pk, SelfKey)

IsBad(assoc) == assoc.age >= BadAge
IsDead(assoc) == assoc.age >= KillAge
BadNode(client) == \A f \in {4, 6} : IsBad(client.at[f])

NewClient(pk, addr) ==
  [pk |-> pk, at |-> [f \in {4, 6} |-> IF f = addr.family THEN [addr |-> addr, age |-> 0] ELSE NoAssoc]]

IndexOfKey(list, pk) == SelectInSeq(list, LAMBDA c : c.pk = pk)
IndexOfAddr(list, addr) == SelectInSeq(list, LAMBDA c : c.at[addr.family].addr = addr)

InList(list, pk, addr) == IndexOfKey(list, pk) # 0 \/ IndexOfAddr(list, addr) # 0

\* client_or_ip_port_in_list: a known key gets the new address, unless that
\* would replace one outside the LAN by one inside; a known address gets the
\* new key.
client_or_ip_port_in_list(list, pk, addr) ==
  LET k == IndexOfKey(list, pk)
  IN  IF k = 0 THEN [list EXCEPT ![IndexOfAddr(list, addr)] = NewClient(pk, addr)]
      ELSE IF ~list[k].at[addr.family].addr.lan /\ addr.lan THEN list
      ELSE [list EXCEPT ![k].at[addr.family] = [addr |-> addr, age |-> 0]]

\* add_to_list puts a node in the place of the first one that is farther away
\* and goes on with the node it has taken out.
AddStep(acc, i) ==
  IF ~id_closest(acc.to, acc.node[1], acc.list[i][1]) THEN acc
  ELSE [acc EXCEPT !.list[i] = acc.node, !.node = acc.list[i]]

add_to_list(list, node, to) ==
  FoldLeft(AddStep, [list |-> list, node |-> node, to |-> to],
           [i \in 1 .. Len(list) |-> i]).list

\* Mutant of client_in_nodelist: a node in two lists is sent twice.
client_in_nodelist_Variant(list, pk) == FALSE

client_in_nodelist(list, pk) == \E i \in 1 .. Len(list) : list[i][1] = pk

\* A list of nodes that keeps the closest when it is full.
Offer(list, node, max, to) ==
  IF client_in_nodelist(list, node[1]) THEN list
  ELSE IF Len(list) < max THEN Append(list, node)
  ELSE add_to_list(list, node, to)

\* get_close_nodes: of every good node the address that was confirmed last, the
\* one of family 4 when both were at the same time.
NewestAssoc(client) == IF client.at[4].age <= client.at[6].age THEN client.at[4] ELSE client.at[6]

Sendable(client, isLan) == ~IsBad(NewestAssoc(client)) /\ (NewestAssoc(client).addr.lan => isLan)

KnownClients == FoldLeft(LAMBDA s, f : s \o f.list, close, friends)

get_close_nodes(to, isLan) ==
  FoldLeft(LAMBDA nodes, c : IF Sendable(c, isLan)
                             THEN Offer(nodes, <<c.pk, NewestAssoc(c).addr>>, MaxSentNodes, to)
                             ELSE nodes,
           << >>, KnownClients)

\* sort_client_list: bad nodes first, then the farthest.  qsort leaves nodes
\* that compare equal in any order.
Before(c1, c2, to) ==
  \/ BadNode(c1) /\ ~BadNode(c2)
  \/ ~BadNode(c1) /\ ~BadNode(c2) /\ id_closest(to, c2.pk, c1.pk)

sort_client_list(list, to) ==
  {s \in {[i \in DOMAIN list |-> list[p[i]]] : p \in Permutations(DOMAIN list)} :
     \A i, j \in DOMAIN list : i < j => ~Before(s[j], s[i], to)}

store_node_ok(client, pk, to) == BadNode(client) \/ id_closest(to, pk, client.pk)

StoreOk(list, pk, to) == store_node_ok(list[1], pk, to) \/ store_node_ok(list[2], pk, to)

\* Mutant of replace_all: the list is not sorted before its first node is replaced.
replace_all_Variant(list, pk, addr, to) ==
  IF StoreOk(list, pk, to) THEN {[list EXCEPT ![1] = NewClient(pk, addr)]} ELSE {list}

replace_all(list, pk, addr, to) ==
  IF StoreOk(list, pk, to)
  THEN {[s EXCEPT ![1] = NewClient(pk, addr)] : s \in sort_client_list(list, to)}
  ELSE {list}

\* add_to_close replaces a bad node of the bucket.
FreePlaces(list, pk) ==
  {i \in Bucket(pk) * BucketSize + 1 .. (Bucket(pk) + 1) * BucketSize : BadNode(list[i])}

node_addable_to_close_list(list, pk) == FreePlaces(list, pk) # {}

add_to_close(list, pk, addr) ==
  IF ~node_addable_to_close_list(list, pk) THEN list
  ELSE [list EXCEPT ![Min(FreePlaces(list, pk))] = NewClient(pk, addr)]

-----------------------------------------------------------------------------
(* Answers.  addto_lists tells the close list and every friend of the node *)
(* that has answered; when the node is a friend, his holders are called.   *)

CloseAfter(pk, addr) ==
  IF InList(close, pk, addr) THEN client_or_ip_port_in_list(close, pk, addr)
  ELSE add_to_close(close, pk, addr)

ListsAfter(list, pk, addr, to) ==
  IF InList(list, pk, addr) THEN {client_or_ip_port_in_list(list, pk, addr)}
  ELSE replace_all(list, pk, addr, to)

friend_number(pk) == SelectInSeq(friends, LAMBDA f : f.pk = pk)

\* ping_node_from_getnodes_ok: a node we are told of is asked later when a list
\* has a place for it.
GoodInList(list, node) ==
  \E i \in DOMAIN list : list[i].pk = node[1] /\ ~IsBad(list[i].at[node[2].family])

\* in_list: with this very address.
GoodAt(list, node) ==
  \E i \in DOMAIN list : /\ list[i].pk = node[1] /\ list[i].at[node[2].family].addr = node[2]
                         /\ ~IsBad(list[i].at[node[2].family])

BootAfter(closeList, nodes, node) ==
  IF node_addable_to_close_list(closeList, node[1]) THEN Offer(nodes, node, MaxCloseBoot, SelfKey) ELSE nodes

FriendBootAfter(friend, node) ==
  IF StoreOk(friend.list, node[1], friend.pk) /\ ~GoodInList(friend.list, node)
  THEN Offer(friend.boot, node, MaxSentNodes, friend.pk) ELSE friend.boot

\* The friends after an answer of node that names the nodes in others.
FriendsAfter(friend, node, others) ==
  {LET f == [friend EXCEPT !.list = list]
   IN  [f EXCEPT !.boot = FoldLeft(LAMBDA b, n : FriendBootAfter([f EXCEPT !.boot = b], n), @, others)] :
     list \in ListsAfter(friend.list, node[1], node[2], friend.pk)}

Called == dhtCalls < MaxDhtCalls /\ dhtCalls' = dhtCalls + 1

addto_lists(node, others) ==
  /\ close' = CloseAfter(node[1], node[2])
  /\ friends' \in [DOMAIN friends -> UNION {FriendsAfter(friends[i], node, others) : i \in DOMAIN friends}]
  /\ \A i \in DOMAIN friends : friends'[i] \in FriendsAfter(friends[i], node, others)

\* An answer counts once, and only from the node and the address it was asked
\* from.
Answer(node, others) ==
  /\ Called
  /\ addto_lists(node, others)
  /\ boot' = FoldLeft(LAMBDA b, n : BootAfter(close', b, n), boot, others)
  /\ UNCHANGED <<toPing, loaded, held>>

handle_ping_response(node) ==
  /\ node \in pinged
  /\ pinged' = pinged \ {node}
  /\ Answer(node, << >>)
  /\ UNCHANGED asked

sent_getnode_to_node(node) == node \in asked /\ asked' = asked \ {node}

handle_sendnodes_ipv6(node, other) ==
  /\ sent_getnode_to_node(node)
  /\ Answer(node, <<other>>)
  /\ UNCHANGED pinged

-----------------------------------------------------------------------------
(* Requests.  A node that asks us something is pinged later, closest       *)
(* first when there are too many; a friend we look for at once.            *)

\* Neither goes to ourselves.
getnodes(nodes) == {n \in nodes : n[1] # SelfKey}

send_ping_request(nodes) == {n \in nodes : n[1] # SelfKey}

\* DHT_getfriendip: we look for the friend and have no good address of his.
LookedFor(pk) ==
  LET n == friend_number(pk)
  IN  n # 0 /\ \A i \in DOMAIN friends[n].list :
                 friends[n].list[i].pk = pk => BadNode(friends[n].list[i])

FirstFree == SelectInSeq(toPing, LAMBDA n : n = NoNode)

ToPingAfter(node) ==
  LET known == SelectInSeq(toPing, LAMBDA n : n[1] = node[1])
  IN  IF FirstFree # 0 /\ (known = 0 \/ FirstFree < known) THEN [toPing EXCEPT ![FirstFree] = node]
      ELSE IF known # 0 THEN toPing
      ELSE add_to_list(toPing, node, SelfKey)

add_to_ping(node) ==
  /\ node_addable_to_close_list(close, node[1]) /\ ~GoodAt(close, node)
  /\ IF LookedFor(node[1])
     THEN pinged' = pinged \cup send_ping_request({node}) /\ UNCHANGED toPing
     ELSE toPing' = ToPingAfter(node) /\ UNCHANGED pinged
  /\ UNCHANGED <<close, friends, boot, asked, loaded, held>>

\* A request is answered; its sender is pinged later.
handle_ping_request(node) == Called /\ node[1] # SelfKey /\ add_to_ping(node)

handle_getnodes(node) == Called /\ node[1] # SelfKey /\ add_to_ping(node)

DHT_bootstrap(node) ==
  /\ Called
  /\ asked' = asked \cup getnodes({node})
  /\ UNCHANGED <<close, friends, boot, toPing, pinged, loaded, held>>

\* do_to_ping goes through the list up to the first free place; a node that has
\* found no place in the close list stays.
PingedNow(closeList) ==
  {i \in 1 .. MaxToPing : /\ \A j \in 1 .. i : toPing[j] # NoNode
                          /\ node_addable_to_close_list(closeList, toPing[i][1])}

do_to_ping(places) == toPing' = [i \in DOMAIN toPing |-> IF i \in places THEN NoNode ELSE toPing[i]]

-----------------------------------------------------------------------------
(* The main loop.                                                          *)

Older(list) ==
  [i \in DOMAIN list |->
     [list[i] EXCEPT !.at = [f \in {4, 6} |->
        [@[f] EXCEPT !.age = IF @ < KillAge THEN @ + 1 ELSE KillAge]]]]

Alive(list) == {<<i, f>> \in (DOMAIN list) \X {4, 6} : ~IsDead(list[i].at[f])}

AliveNodes(list) == {<<list[x[1]].pk, list[x[1]].at[x[2]].addr>> : x \in Alive(list)}

\* do_Close: when all nodes are dead they are tried again.  not_kill, which counts
\* the living addresses, is a uint8_t.
Revived(list) ==
  IF Cardinality(Alive(list)) % 2^8 # 0 THEN list
  ELSE [i \in DOMAIN list |->
          [list[i] EXCEPT !.at = [f \in {4, 6} |->
             IF @[f].addr = NoAddr THEN @[f] ELSE [@[f] EXCEPT !.age = BadAge]]]]

\* do_ping_and_sendnode_requests sorts when dead addresses follow a living one.
SortNeeded(list) ==
  LET dead(j) == IsDead(list[(j + 1) \div 2].at[IF j % 2 = 1 THEN 6 ELSE 4])
  IN  \E j \in 3 .. 2 * Len(list) : dead(j) /\ dead(j - 1) /\ \E i \in 1 .. j - 2 : ~dead(i)

FriendsServed(friend, passed) ==
  LET list == IF passed THEN Older(friend.list) ELSE friend.list
  IN  {[friend EXCEPT !.list = s, !.boot = << >>] :
         s \in IF SortNeeded(list) THEN sort_client_list(list, friend.pk) ELSE {list}}

DHT_non_lan_connected(list) ==
  \E i \in DOMAIN list, f \in {4, 6} : ~IsBad(list[i].at[f]) /\ ~list[i].at[f].addr.lan

\* The next of the nodes that were loaded.
DHT_connect_after_load(load) == IF load = << >> THEN {} ELSE {Head(load)}

\* do_DHT.  After a ping interval (passed) older requests can no longer be
\* answered and every node that is not dead is asked again; before, the interval
\* of some node may have run out (due), and that of to_ping (pings).
do_DHT(passed, due, pings) ==
  LET aged == IF passed THEN Older(close) ELSE close
      load == IF DHT_non_lan_connected(aged) THEN << >> ELSE loaded
      places == IF pings THEN PingedNow(close') ELSE {}
      alive == UNION ({AliveNodes(aged)} \cup {AliveNodes(Older(friends[i].list)) : i \in DOMAIN friends})
  IN  /\ close' = Revived(aged)
      /\ friends' \in [DOMAIN friends -> UNION {FriendsServed(friends[i], passed) : i \in DOMAIN friends}]
      /\ \A i \in DOMAIN friends : friends'[i] \in FriendsServed(friends[i], passed)
      /\ loaded' = IF load = << >> THEN << >> ELSE Append(Tail(load), Head(load))
      /\ boot' = << >>
      /\ do_to_ping(places)
      /\ asked' = (IF passed THEN alive ELSE asked \cup due)
                  \cup getnodes(ToSet(boot) \cup UNION {ToSet(friends[i].boot) : i \in DOMAIN friends}
                               \cup DHT_connect_after_load(load))
      /\ pinged' = (IF passed THEN {} ELSE pinged) \cup send_ping_request({toPing[i] : i \in places})
      /\ UNCHANGED <<held, dhtCalls>>

KnownNodes == AliveNodes(KnownClients)

-----------------------------------------------------------------------------
(* Friends and the holders of their locks; restarts.                       *)

DHT_addfriend(h, pk) ==
  LET n == friend_number(pk)
      lock == IF n = 0 THEN 1 ELSE friends[n].lock + 1
  IN  /\ Called
      /\ held[h] = NotHeld
      /\ lock <= MaxLocks
      /\ friends' = IF n = 0 THEN Append(friends, FriendOf(pk, get_close_nodes(pk, TRUE), h))
                    ELSE [friends EXCEPT ![n].lock = lock, ![n].callbacks[lock] = h]
      /\ held' = [held EXCEPT ![h] = [pk |-> pk, lock |-> lock]]
      /\ UNCHANGED <<close, boot, toPing, asked, pinged, loaded>>

\* The last friend takes the place of the one removed.
Without(list, n) ==
  [i \in 1 .. Len(list) - 1 |-> IF i = n THEN list[Len(list)] ELSE list[i]]

DHT_delfriend(h) ==
  LET n == friend_number(held[h].pk)
  IN  /\ Called
      /\ held[h] # NotHeld
      /\ friends' = IF n = 0 THEN friends
                    ELSE IF friends[n].lock > 1
                    THEN [friends EXCEPT ![n].lock = @ - 1, ![n].callbacks[held[h].lock] = NoLock]
                    ELSE Without(friends, n)
      /\ held' = [held EXCEPT ![h] = NotHeld]
      /\ UNCHANGED <<close, boot, toPing, asked, pinged, loaded>>

\* The addresses that were ever confirmed, in the order of the lists.
Confirmed(list) ==
  FoldLeft(LAMBDA s, c : s \o SelectSeq(<<<<c.pk, c.at[4].addr>>, <<c.pk, c.at[6].addr>>>>,
                                        LAMBDA n : n[2] # NoAddr),
           << >>, list)

\* Of the friends only the first, which are those of new_DHT, have their nodes saved.
DHT_save ==
  Confirmed(close) \o FlattenSeq([i \in DOMAIN FakeKeys |-> Confirmed(friends[i].list)])

DHT_load(saved) == loaded' = saved

Restart ==
  /\ Called
  /\ close' = [i \in DOMAIN close |-> NoData]
  /\ friends' = FakeFriends /\ boot' = << >> /\ asked' = {} /\ pinged' = {}
  /\ toPing' = [i \in DOMAIN toPing |-> NoNode]
  /\ DHT_load(DHT_save)
  /\ held' = [h \in DhtHolder |-> NotHeld]

DhtNext ==
  \/ \E node \in DhtNode : handle_ping_response(node)
  \/ \E node, other \in DhtNode : handle_sendnodes_ipv6(node, other)
  \/ \E node \in DhtNode : handle_ping_request(node) \/ handle_getnodes(node)
  \/ \E node \in BootNode : DHT_bootstrap(node)
  \/ \E passed, pings \in BOOLEAN, due \in {{}} \cup {{n} : n \in KnownNodes} : do_DHT(passed, due, pings)
  \/ \E h \in DhtHolder, pk \in FriendKey : DHT_addfriend(h, pk)
  \/ \E h \in DhtHolder : DHT_delfriend(h)
  \/ Restart

DhtSpec == DhtInit /\ [][DhtNext]_dhtVars

-----------------------------------------------------------------------------
(* Properties.                                                             *)

\* The good nodes of a list that are not in the next one.
Displaced(list, next) ==
  {c \in {list[i] : i \in DOMAIN list} : ~BadNode(c) /\ IndexOfKey(next, c.pk) = 0}

AddressTaken(c, next) ==
  \E i \in DOMAIN next, f \in {4, 6} :
    next[i].pk # c.pk /\ next[i].at[f].addr # NoAddr /\ next[i].at[f].addr = c.at[f].addr

KeysDiffer(list) ==
  \A i, j \in DOMAIN list : i # j /\ list[i].pk = list[j].pk => list[i].pk = NoKey

\* A good node leaves a list only when its address has answered with another
\* key or, in a friend's list, when a node closer to the friend takes a place;
\* no list holds a key twice (client_or_ip_port_in_list, replace_all,
\* add_to_close, do_ping_and_sendnode_requests).
GoodNodesAreKept ==
  [][<<close, friends>>' # <<close, friends>> =>
     /\ ~Restart => \A c \in Displaced(close, close') : AddressTaken(c, close')
     /\ KeysDiffer(close')
     /\ \A m \in DOMAIN friends' : KeysDiffer(friends'[m].list)
     /\ \A n \in DOMAIN friends, m \in DOMAIN friends' :
          ~Restart /\ friends[n].pk = friends'[m].pk =>
            \A c \in Displaced(friends[n].list, friends'[m].list) :
              \/ AddressTaken(c, friends'[m].list)
              \/ \E i \in DOMAIN friends'[m].list :
                   id_closest(friends[n].pk, friends'[m].list[i].pk, c.pk)]_dhtVars

\* What get_close_nodes sends are the nodes closest to the key in question of
\* all the good nodes in the lists, each with an address at which it is good.
SendsTheClosest ==
  \A to \in DhtKey, isLan \in BOOLEAN :
    LET sent == get_close_nodes(to, isLan)
        keys == {sent[i][1] : i \in DOMAIN sent}
        good == {c \in ToSet(KnownClients) : Sendable(c, isLan)}
        rest == {c.pk : c \in good} \ keys
    IN  /\ Cardinality(keys) = Len(sent) /\ Len(sent) <= MaxSentNodes
        /\ \A i \in DOMAIN sent : \E c \in good : sent[i] = <<c.pk, NewestAssoc(c).addr>>
        /\ rest # {} => Len(sent) = MaxSentNodes
        /\ \A k \in keys, r \in rest : id_closest(to, k, r)

=============================================================================
