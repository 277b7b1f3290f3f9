----------------------------- MODULE OnionClient ----------------------------
(***************************************************************************)
(* onion_client.c: how a node makes itself known to its friends, and finds *)
(* them, over the onion.  It announces itself to the nodes closest to its  *)
(* own key, looks for every friend at the nodes closest to his, sends them *)
(* its DHT key through those that know them, and chooses and renews the    *)
(* paths it uses.                                                          *)
(*                                                                         *)
(* The client is one record, and the functions of the code are operators   *)
(* on it.  num is 0 for ourselves and the place of a friend in             *)
(* friends_list, counted from 1, otherwise.  A request that has been sent  *)
(* is a sendback in sent; an answer is encrypted with the key the request  *)
(* was made with (temp).  Intervals and timeouts are flags that time sets. *)
(***************************************************************************)
EXTENDS Naturals, Sequences, FiniteSets
LOCAL INSTANCE SequencesExt
LOCAL INSTANCE FiniteSetsExt

CONSTANTS
  PathNode,       \* nodes of the network
  OnionFriend,    \* keys of friends
  Us, Nobody,     \* our key; no key
  ClientDistance, \* [Us and friends -> [PathNode -> distance]]
  PathLength,     \* ONION_PATH_LENGTH
  NumPaths,       \* NUMBER_ONION_PATHS
  ListLength,     \* MAX_ONION_CLIENTS, MAX_ONION_CLIENTS_ANNOUNCE
  MaxPathNodes,   \* MAX_PATH_NODES
  IndexWord,      \* 2^16, where path_nodes_index wraps
  NoResponseUses, \* ONION_PATH_MAX_NO_RESPONSE_USES
  MaxPinged,      \* MAX_STORED_PINGED_NODES
  OnlineAfter,    \* ONION_CONNECTION_SECONDS
  MaxSlots,       \* bound on num_friends
  MaxSent,        \* bound on the requests without an answer
  MaxOnionEvents, \* bound on the calls, packets and timeouts
  MaxTicks        \* bound on the timeouts

ASSUME OnionClientAssumption ==
  /\ Us \notin OnionFriend /\ Nobody \notin OnionFriend \cup {Us} \cup PathNode
  /\ ClientDistance \in [OnionFriend \cup {Us} -> [PathNode -> Nat]]
  /\ {PathLength, NumPaths, MaxPathNodes, MaxPinged, OnlineAfter, MaxSlots} \subseteq Nat \ {0}
  /\ ListLength \in Nat \ {0, 1} /\ NoResponseUses \in Nat
  /\ IndexWord \in Nat /\ IndexWord > MaxPathNodes + 1
  /\ {MaxSent, MaxOnionEvents, MaxTicks} \subseteq Nat

VARIABLES
  oc,         \* the client
  credited,   \* the answer that last kept a path alive: the path it was sent on
              \* and the path now in that place
  onionEvents, onionTicks

onionClientVars == <<oc, credited, onionEvents, onionTicks>>

Kinds == {"self", "friends"}
PathSlot == 0 .. NumPaths - 1
NoPath == [num |-> 0, nodes |-> << >>, uses |-> 0, quiet |-> TRUE, late |-> FALSE, old |-> TRUE]
NoClientNode == [pk |-> Nobody, stored |-> 0, path |-> 0, age |-> 2, met |-> FALSE, of |-> Nobody]
NoClientList == [i \in 1 .. ListLength |-> NoClientNode]
NoOnionFriend == [status |-> 0, pk |-> Nobody, temp |-> 0, online |-> FALSE, dhtKey |-> 0, noreplay |-> 0]
NoRing == [nodes |-> [i \in 0 .. MaxPathNodes - 1 |-> Nobody], index |-> 0]

OnionClientInit ==
  /\ oc = [ring |-> [r \in {"dht", "bs"} |-> NoRing],
           paths |-> [k \in Kinds |-> [i \in PathSlot |-> NoPath]],
           lists |-> [n \in 0 .. MaxSlots |-> NoClientList],
           pinged |-> [n \in 0 .. MaxSlots |-> << >>],
           friends |-> << >>,
           sent |-> {},
           numbers |-> 0,     \* temporary keys and path numbers given so far
           heard |-> FALSE,   \* last_packet_recv is recent
           phase |-> "new",   \* first_run
           connected |-> 0]   \* onion_connected
  /\ credited = << >>
  /\ onionEvents = 0
  /\ onionTicks = 0

-----------------------------------------------------------------------------
(* Nodes for paths.                                                        *)

RingCount(ring) == IF ring.index < MaxPathNodes THEN ring.index ELSE MaxPathNodes

\* onion_add_path_node and onion_add_bs_path_node.
RingAfter(ring, node) ==
  IF \E i \in DOMAIN ring.nodes : ring.nodes[i] = node THEN ring
  ELSE [nodes |-> [ring.nodes EXCEPT ![ring.index % MaxPathNodes] = node],
        index |-> IF ring.index + 1 = IndexWord THEN MaxPathNodes + 1 ELSE ring.index + 1]

onion_add_path_node(s, node) == [s EXCEPT !.ring["dht"] = RingAfter(@, node)]

onion_add_bs_path_node(s, node) == [s EXCEPT !.ring["bs"] = RingAfter(@, node)]

RingNodes(ring) == {ring.nodes[i] : i \in 0 .. RingCount(ring) - 1}

\* random_nodes_path_onion: the paths that rand may give.  net says how the
\* client is connected; with TCP the first node is a relay.
random_nodes_path_onion(s, net) ==
  LET ring == IF net = "udp" \/ RingCount(s.ring["dht"]) >= 2 THEN s.ring["dht"] ELSE s.ring["bs"]
  IN  CASE net = "none" -> {}
        [] net = "udp"  -> [1 .. PathLength -> RingNodes(ring)]
        [] net = "tcp"  -> {<<Nobody>> \o p : p \in [1 .. PathLength - 1 -> RingNodes(ring)]}

-----------------------------------------------------------------------------
(* Paths.                                                                  *)

path_timed_out(p) == (p.late /\ p.uses >= NoResponseUses) \/ p.old

\* is_path_used: a live path that begins with the last node.
UsedPaths(paths, nodes) ==
  {i \in PathSlot : ~paths[i].quiet /\ ~paths[i].old /\ paths[i].nodes[1] = nodes[PathLength]}

\* random_path: the place used and the state after it; nodes is what rand gives
\* for a new path.
PathPlace(s, kind, i, nodes) ==
  IF path_timed_out(s.paths[kind][i]) /\ UsedPaths(s.paths[kind], nodes) # {}
  THEN Min(UsedPaths(s.paths[kind], nodes)) ELSE i

random_path(s, kind, i, nodes) ==
  LET place == PathPlace(s, kind, i, nodes)
      new == path_timed_out(s.paths[kind][i]) /\ place = i
      fresh == [num |-> s.numbers + 1, nodes |-> nodes, uses |-> NoResponseUses \div 2,
                quiet |-> FALSE, late |-> FALSE, old |-> FALSE]
      path == IF new THEN fresh ELSE s.paths[kind][place]
  IN  [s EXCEPT !.numbers = IF new THEN @ + 1 ELSE @,
                !.paths[kind][place] = [path EXCEPT !.uses = IF @ < NoResponseUses THEN @ + 1 ELSE @,
                                                    !.late = path.quiet]]

\* A path number also says its place.
PathOf(s, num) ==
  {<<k, i>> \in Kinds \X PathSlot : num # 0 /\ s.paths[k][i].num = num}

path_exists(s, num) == \E x \in PathOf(s, num) : ~path_timed_out(s.paths[x[1]][x[2]])

\* Mutant of Credits: only the place of the path is compared.
Credits_Variant(s, kind, b) == TRUE

\* The number of the path must still be the one the request was sent on.
Credits(s, kind, b) == s.paths[kind][b.place].num = b.path

\* set_path_timeouts: an answer keeps the path alive and its nodes in the ring.
set_path_timeouts(s, kind, b) ==
  LET kept == [s EXCEPT !.paths[kind][b.place] = [@ EXCEPT !.quiet = FALSE, !.late = FALSE, !.uses = 0]]
  IN  IF ~Credits(s, kind, b) THEN s
      ELSE FoldLeft(LAMBDA t, n : IF n = Nobody THEN t ELSE onion_add_path_node(t, n),
                    kept, s.paths[kind][b.place].nodes)

-----------------------------------------------------------------------------
(* Requests.                                                               *)

KindOf(num) == IF num = 0 THEN "self" ELSE "friends"
RefOf(s, num) == IF num = 0 THEN Us ELSE s.friends[num].pk
TempOf(s, num) == IF num = 0 THEN 0 ELSE s.friends[num].temp

\* client_send_announce_request with the choices of rand: the place of the path
\* when none is asked for, and the nodes of a new one (<< >> when there are none).
\* new_sendback is part of it.
client_send_announce_request(s, num, pk, want, rand) ==
  LET kind == KindOf(num)
      i == IF want # {} THEN Min(want) ELSE rand.place
      t == random_path(s, kind, i, rand.nodes)
      place == PathPlace(s, kind, i, rand.nodes)
  IN  IF path_timed_out(s.paths[kind][i]) /\ rand.nodes = << >> THEN s
      ELSE [t EXCEPT !.sent = IF Cardinality(@) >= MaxSent THEN @
              ELSE @ \cup {[num |-> num, pk |-> pk, place |-> place, path |-> t.paths[kind][place].num,
                            temp |-> TempOf(s, num), of |-> RefOf(s, num)]}]

\* What rand may give.
OrNone(paths) == IF paths = {} THEN {<< >>} ELSE paths

NoRand == [place |-> 0, nodes |-> << >>]

Rand(s) ==
  [place : PathSlot,
   nodes : UNION {OrNone(random_nodes_path_onion(s, net)) : net \in {"udp", "tcp", "none"}}]

\* cmp_entry: timed out first, then the farthest.  Nodes that have timed out
\* compare equal; they keep their order here.
Silent(n) == n.age >= 1

ClientOrder(list, ref) ==
  SelectSeq(list, Silent) \o
  SortSeq(SelectSeq(list, LAMBDA n : ~Silent(n)),
          LAMBDA n, m : ClientDistance[ref][n.pk] > ClientDistance[ref][m.pk])

Farther(n, pk, ref) == Silent(n) \/ ClientDistance[ref][n.pk] > ClientDistance[ref][pk]

\* client_add_to_list with the answer to b, which says whether the node has our
\* announcement or the friend's.  A node that has us with a data key we do not use
\* any more does not know us, so that its answer is like one with 0.
client_add_to_list(s, b, stored) ==
  LET list == ClientOrder(s.lists[b.num], RefOf(s, b.num))
      known == SelectInSeq(list, LAMBDA n : n.pk = b.pk)
      index == IF known # 0 THEN known ELSE IF Farther(list[1], b.pk, RefOf(s, b.num)) THEN 1 ELSE 0
      sorted == [s EXCEPT !.lists[b.num] = list]
      t == set_path_timeouts(onion_add_path_node(sorted, b.pk), KindOf(b.num), b)
  IN  IF index = 0 THEN sorted
      ELSE [t EXCEPT !.lists[b.num][index] =
              [pk |-> b.pk, stored |-> IF stored = 0 THEN 0 ELSE 1,
               path |-> IF Credits(s, KindOf(b.num), b) THEN b.path ELSE 0,
               age |-> 0, met |-> known # 0 /\ list[index].met, of |-> b.of]]

\* good_to_ping, the last nodes pinged.
PingedAfter(pinged, pk) ==
  LET all == Append(pinged, pk)
  IN  IF Len(all) > MaxPinged THEN Tail(all) ELSE all

\* client_ping_nodes: nodes an answer names are asked when they are closer than
\* one of the first two of the list.
WorthAPing(s, num, pk) ==
  /\ Farther(s.lists[num][1], pk, RefOf(s, num)) \/ Farther(s.lists[num][2], pk, RefOf(s, num))
  /\ \A i \in 1 .. ListLength : s.lists[num][i].pk # pk
  /\ ~Contains(s.pinged[num], pk)

client_ping_nodes(s, num, others, rand) ==
  FoldLeft(LAMBDA t, pk : IF ~WorthAPing(t, num, pk) THEN t
                          ELSE client_send_announce_request([t EXCEPT !.pinged[num] = PingedAfter(@, pk)],
                                                            num, pk, {}, rand),
           s, others)

-----------------------------------------------------------------------------
(* Packets.                                                                *)

OnionEvent ==
  /\ onionEvents' = onionEvents + 1
  /\ UNCHANGED onionTicks

\* Mutant of Acceptable: a friend in the place of another is given his key.
Acceptable_Variant(s, b) ==
  b.num <= Len(s.friends) /\ (b.num # 0 => s.friends[b.num].status = 1)

\* An answer is taken when its sendback is known, the friend is still there and
\* it can be decrypted with the key used for him now (check_sendback).
Acceptable(s, b) ==
  /\ b.num <= Len(s.friends)
  /\ b.num # 0 => s.friends[b.num].status = 1 /\ s.friends[b.num].temp = b.temp

\* An answer whose nodes cannot be unpacked still gets into the list.
handle_announce_response(b, stored, others, readable, rand) ==
  LET s == [oc EXCEPT !.sent = @ \ {b}]
      t == client_ping_nodes(client_add_to_list(s, b, stored), b.num, others, rand)
  IN  /\ b \in oc.sent /\ OnionEvent
      /\ IF Acceptable(s, b) /\ (b.num # 0 => stored < 2)
         THEN /\ oc' = [t EXCEPT !.heard = @ \/ readable]
              /\ credited' = IF Credits(s, KindOf(b.num), b)
                             THEN <<b.path, s.paths[KindOf(b.num)][b.place].num>> ELSE << >>
         ELSE oc' = s /\ credited' = << >>

onion_friend_num(s, pk) == SelectInSeq(s.friends, LAMBDA f : f.status = 1 /\ f.pk = pk)

\* handle_dhtpk_announce, over the onion or the DHT: a friend's DHT key, with the
\* time he sent it; the key is named by that time (onion_set_friend_DHT_pubkey).
handle_dhtpk_announce(pk, time) ==
  LET n == onion_friend_num(oc, pk)
  IN  /\ OnionEvent
      /\ n # 0 /\ time > oc.friends[n].noreplay
      /\ oc' = [oc EXCEPT !.friends[n].noreplay = time, !.friends[n].dhtKey = time]
      /\ UNCHANGED credited

-----------------------------------------------------------------------------
(* Friends.                                                                *)

onion_addfriend(pk) ==
  LET free == SelectInSeq(oc.friends, LAMBDA f : f.status = 0)
      n == IF free = 0 THEN Len(oc.friends) + 1 ELSE free
      empty == IF free = 0 THEN NoOnionFriend ELSE oc.friends[free]
      f == [empty EXCEPT !.status = 1, !.pk = pk, !.temp = oc.numbers + 1]
  IN  /\ onion_friend_num(oc, pk) = 0 /\ n <= MaxSlots /\ OnionEvent
      /\ oc' = [oc EXCEPT !.friends = IF free = 0 THEN Append(@, f) ELSE [@ EXCEPT ![n] = f],
                          !.numbers = @ + 1]
      /\ UNCHANGED credited

\* The entry is cleared; free places at the end are given back.
onion_delfriend(n) ==
  LET cleared == [oc.friends EXCEPT ![n] = NoOnionFriend]
      size == Max({0} \cup {i \in DOMAIN cleared : cleared[i].status = 1})
  IN  /\ n <= Len(oc.friends) /\ OnionEvent
      /\ oc' = [oc EXCEPT !.friends = SubSeq(cleared, 1, size),
                          !.lists[n] = NoClientList, !.pinged[n] = << >>]
      /\ UNCHANGED credited

\* When a friend goes offline older announcements of his are accepted again.
onion_set_friend_online(n, online) ==
  /\ n <= Len(oc.friends) /\ OnionEvent
  /\ oc' = [oc EXCEPT !.friends[n].online = online,
                      !.friends[n].noreplay = IF online THEN @ ELSE 0]
  /\ UNCHANGED credited

\* send_onion_data, here with our DHT key (send_dhtpk_announce): when enough of
\* the nodes that answer know the friend, every one of them is sent the data.
LiveNodes(list) == {i \in 1 .. ListLength : ~Silent(list[i])}
KnowingNodes(list) == {i \in LiveNodes(list) : list[i].stored # 0}

send_onion_data(s, n, rand) ==
  LET list == s.lists[n]
      good == Cardinality(KnowingNodes(list))
  IN  IF good < Cardinality(LiveNodes(list)) \div 4 + 1
         \/ (path_timed_out(s.paths["friends"][rand.place]) /\ rand.nodes = << >>) THEN s
      ELSE random_path(s, "friends", rand.place, rand.nodes)

-----------------------------------------------------------------------------
(* The main loop, once a second.                                           *)

\* onion_isconnected: half of the nodes we know have us stored.
onion_isconnected(s) ==
  LET num == Cardinality(LiveNodes(s.lists[0]))
      announced == Cardinality(KnowingNodes(s.lists[0]))
      pnodes == IF s.ring["dht"].index > ListLength THEN ListLength ELSE s.ring["dht"].index
  IN  /\ s.heard /\ s.ring["dht"].index # 0
      /\ num # 0 /\ announced # 0 /\ num \div 2 <= announced /\ pnodes \div 2 <= num

\* Nodes of a list become known the first time the loop sees them; of the others
\* at most one is due at a time.
Met(list, age) == [i \in DOMAIN list |-> [list[i] EXCEPT !.met = @ \/ list[i].age <= age]]

DueNodes(list, age) == {i \in DOMAIN list : list[i].age <= age /\ list[i].met}

\* due is the node whose interval has run out, 0 when none has; more is a node
\* of the ring that is asked when the list is not full.
do_announce(s, due, more, rand) ==
  LET list == s.lists[0]
      t == [s EXCEPT !.lists[0] = Met(@, 0)]
      want == {x[2] : x \in {y \in PathOf(s, list[due].path) : y[1] = "self"}}
      u == IF due = 0 THEN t ELSE client_send_announce_request(t, 0, list[due].pk, want, rand)
  IN  IF more = Nobody \/ LiveNodes(list) = 1 .. ListLength THEN u
      ELSE client_send_announce_request(u, 0, more, {}, rand)

do_friend(s, n, due, more, rand) ==
  LET list == s.lists[n]
      t == [s EXCEPT !.lists[n] = Met(@, 1)]
      u == IF due = 0 THEN t ELSE client_send_announce_request(t, n, list[due].pk, {}, rand)
      v == IF more = Nobody \/ \A i \in DOMAIN list : list[i].age <= 1 THEN u
           ELSE client_send_announce_request(u, n, more, {}, rand)
  IN  IF s.friends[n].status = 0 \/ s.friends[n].online THEN s ELSE send_onion_data(v, n, rand)

onion_connection_status(s) == s.connected >= OnlineAfter

\* seen is a node the DHT gives for paths (populate_path_nodes), or one of the
\* TCP relays (populate_path_nodes_tcp).
Populated(seen) ==
  IF oc.phase = "waiting" \/ seen = Nobody THEN oc ELSE onion_add_path_node(oc, seen)

\* The nodes of a list that may be asked again, and those that may be added.
\* For ourselves there are none while the first run waits for its nodes.
Idle(n) == IF n = 0 THEN oc.phase = "waiting" ELSE oc.connected + 1 < OnlineAfter

MayAsk(n) == IF Idle(n) THEN {0} ELSE DueNodes(oc.lists[n], IF n = 0 THEN 0 ELSE 1) \cup {0}

MayAdd(n, seen) ==
  IF Idle(n) THEN {Nobody}
  ELSE RingNodes(Populated(seen).ring["dht"]) \cup {Nobody}
       \cup (IF n = 0 THEN RingNodes(oc.ring["bs"]) ELSE {})

do_onion_client(n, due, more, seen, rand) ==
  LET start == IF oc.phase = "waiting" THEN oc
               ELSE do_announce(Populated(seen), IF n = 0 THEN due ELSE 0,
                                IF n = 0 THEN more ELSE Nobody, rand)
      count == IF onion_isconnected(start)
               THEN [start EXCEPT !.connected = IF @ < 2 * OnlineAfter THEN @ + 1 ELSE @]
               ELSE [(IF seen = Nobody THEN start ELSE onion_add_bs_path_node(start, seen)) EXCEPT
                       !.connected = IF @ = 0 THEN 0 ELSE @ - 1]
      served == IF ~onion_connection_status(count) THEN count
                ELSE FoldLeft(LAMBDA t, m : do_friend(t, m, IF m = n THEN due ELSE 0,
                                                      IF m = n THEN more ELSE Nobody, rand),
                              count, [m \in 1 .. Len(oc.friends) |-> m])
  IN  /\ OnionEvent
      /\ oc' = [served EXCEPT !.phase = IF @ = "new" THEN "waiting" ELSE @]
      /\ credited' = << >>

\* Time: a path has not answered for ONION_PATH_TIMEOUT or is older than
\* ONION_PATH_MAX_LIFETIME, a node is silent, a sendback times out, the nodes
\* pinged are forgotten, nothing was heard, ONION_CONNECTION_SECONDS are over.
Tick(s) ==
  /\ onionEvents' = onionEvents + 1
  /\ onionTicks < MaxTicks /\ onionTicks' = onionTicks + 1
  /\ oc' = s /\ oc' # oc /\ credited' = << >>

OnionTimePasses ==
  \/ \E k \in Kinds, i \in PathSlot :
       oc.paths[k][i].num # 0 /\ (Tick([oc EXCEPT !.paths[k][i].quiet = TRUE])
                                  \/ Tick([oc EXCEPT !.paths[k][i].old = TRUE]))
  \/ \E n \in 0 .. MaxSlots : Tick([oc EXCEPT !.pinged[n] = << >>,
       !.lists[n] = [i \in DOMAIN @ |-> [@[i] EXCEPT !.age = IF @ < 2 THEN @ + 1 ELSE 2]]])
  \/ \E b \in oc.sent : Tick([oc EXCEPT !.sent = @ \ {b}])
  \/ Tick([oc EXCEPT !.heard = FALSE])
  \/ oc.phase = "waiting" /\ Tick([oc EXCEPT !.phase = "warm"])

OnionClientNext ==
  /\ onionEvents < MaxOnionEvents
  /\ \/ \E b \in oc.sent, stored \in 0 .. 2, o \in PathNode, rand \in Rand(oc) :
          handle_announce_response(b, stored, <<o>>, TRUE, rand)
     \/ \E n \in 0 .. Len(oc.friends), seen \in PathNode \cup {Nobody} :
          \E due \in MayAsk(n), more \in MayAdd(n, seen), rand \in Rand(Populated(seen)) :
            do_onion_client(n, due, more, seen, rand)
     \/ \E b \in oc.sent, stored \in 0 .. 2, readable \in BOOLEAN :
          handle_announce_response(b, stored, << >>, readable, NoRand)
     \/ \E pk \in OnionFriend :
          onion_addfriend(pk) \/ \E time \in 1 .. 2 : handle_dhtpk_announce(pk, time)
     \/ \E n \in 1 .. MaxSlots :
          onion_delfriend(n) \/ \E online \in BOOLEAN : onion_set_friend_online(n, online)
     \/ OnionTimePasses

OnionClientSpec == OnionClientInit /\ [][OnionClientNext]_onionClientVars

-----------------------------------------------------------------------------
(* Properties.                                                             *)

\* What we know about a friend comes from answers to requests for him, though
\* his place in friends_list may have been another's when the request was sent
\* (handle_announce_response, onion_addfriend, onion_delfriend); the counts used
\* with rand are those of nodes that have been put in.
ListsHoldOwnAnswers ==
  /\ \A n \in 1 .. Len(oc.friends), i \in 1 .. ListLength :
       LET node == oc.lists[n][i]
       IN  oc.friends[n].status = 1 /\ node.pk # Nobody => node.of = oc.friends[n].pk
  /\ \A r \in {"dht", "bs"} :
       RingCount(oc.ring[r]) = Cardinality({i \in DOMAIN oc.ring[r].nodes : oc.ring[r].nodes[i] # Nobody})

\* An answer that comes late keeps no other path alive than the one it came on,
\* though the place of the path may have been given to a new one
\* (set_path_timeouts).
OnlyOwnAnswersKeepAPath == credited # << >> => credited[1] = credited[2]

\* An answer changes what its request was about, and nothing else.
AnswersAreOwn == ListsHoldOwnAnswers /\ OnlyOwnAnswersKeepAPath

=============================================================================
