--------------------------- MODULE TcpConnections ---------------------------
(***************************************************************************)
(* TCP_connection.c: the relays this node keeps a connection to (TCP_con)  *)
(* and, for every peer, the relays that are tied to him                    *)
(* (TCP_Connection_to), over the slots of TCP_client.c.  A relay is        *)
(* connected, asked to route to the peers tied to it, put to sleep when    *)
(* all the peers who use it sleep, woken, and killed when nobody needs it. *)
(*                                                                         *)
(* The state of TCP_Connections is one record, tc.  The loop of            *)
(* do_tcp_conns visits one relay after the other and reads one packet      *)
(* after the other; each round is a step, and until kill_nonused_tcp ends  *)
(* the call nothing else happens.  A relay is named by its key; its place  *)
(* in tcp_connections only matters for the order of that loop, which is    *)
(* therefore arbitrary.  The place of a peer in connections is kept: the   *)
(* client slots hold it as their number.                                   *)
(*                                                                         *)
(* The relay at the other end of each connection is the one of TcpRelay,   *)
(* seen from this client only: its slots and the packets in the two        *)
(* streams.                                                                *)
(***************************************************************************)
EXTENDS Integers, Sequences, FiniteSetsExt

CONSTANTS
  TcpPeer,        \* DHT public keys of peers
  TcpNode,        \* relays
  NoPeer,         \* the key of a wiped connection
  Recommended,    \* RECOMMENDED_FRIEND_TCP_CONNECTIONS and NUM_ONION_TCP_CONNECTIONS
  MaxTies,        \* MAX_FRIEND_TCP_CONNECTIONS
  NumSlots,       \* NUM_CLIENT_CONNECTIONS
  MaxInFlight,    \* the relay sends while fewer packets than this wait for us
  MaxTcpCalls     \* bound on the calls of the layers above

ASSUME TcpConnectionsAssumption ==
  /\ NoPeer \notin TcpPeer
  /\ IsFiniteSet(TcpPeer) /\ IsFiniteSet(TcpNode)
  /\ Recommended \in Nat \ {0}
  /\ MaxTies \in Nat /\ 2 * Recommended <= MaxTies
  /\ NumSlots \in Nat \ {0} /\ {MaxInFlight, MaxTcpCalls} \subseteq Nat

VARIABLES
  tc,         \* TCP_Connections
  routes,     \* per relay, what it keeps in each slot of our connection
  tcpCalls,   \* calls so far
  loop,       \* do_tcp_conns: whether it runs, and the relays it has yet to visit
  stray       \* a disconnect request has named a slot its tie never had

tcpConnVars == <<tc, routes, tcpCalls, loop, stray>>

SlotId == 0 .. NumSlots - 1
ConnNo == 0 .. Cardinality(TcpPeer) - 1
NoNumber == -1

-----------------------------------------------------------------------------
(* Records.                                                                *)

NoTie == [status |-> "UNTIED", id |-> 0]

NoConTo == [status |-> "NONE", pk |-> NoPeer, ties |-> [r \in TcpNode |-> NoTie]]

\* A slot nobody has used: calloc gives it the number 0.
NoSlot == [status |-> 0, pk |-> NoPeer, number |-> 0]

NoCon == [status |-> "NONE", up |-> "DISCONNECTED", slots |-> [i \in SlotId |-> NoSlot],
          out |-> << >>, in |-> << >>, lock |-> 0, sleep |-> 0, onion |-> FALSE,
          fresh |-> FALSE, unsleep |-> FALSE]

NoRoute == [status |-> 0, pk |-> NoPeer]

TcpConnInit ==
  /\ tc = [to |-> [n \in ConnNo |-> NoConTo], con |-> [r \in TcpNode |-> NoCon],
           onion |-> FALSE, num |-> 0]
  /\ routes = [r \in TcpNode |-> [i \in SlotId |-> NoRoute]]
  /\ tcpCalls = 0
  /\ loop = [on |-> FALSE, todo |-> {}, reads |-> {}]
  /\ stray = FALSE

IsConn(t, n) == n \in ConnNo /\ t.to[n].status # "NONE"

Tied(t, n, r) == t.to[n].ties[r].status # "UNTIED"

\* set_tcp_connection_status changes nothing when the relay is not tied to the
\* connection or already has that status.
CanSetStatus(t, n, r, status) == t.to[n].ties[r].status \notin {"UNTIED", status}

SetStatus(t, n, r, status, id) ==
  [t EXCEPT !.to[n].ties[r] = [status |-> status, id |-> id]]

SetAllStatus(t, r, status) ==
  [t EXCEPT !.to = [n \in ConnNo |->
     IF t.to[n].ties[r].status = "UNTIED" THEN t.to[n]
     ELSE [t.to[n] EXCEPT !.ties[r] = [status |-> status, id |-> 0]]]]

find_tcp_connection_to(t, pk) == {n \in ConnNo : IsConn(t, n) /\ t.to[n].pk = pk}

OnlineTies(conTo) == {r \in TcpNode : conTo.ties[r].status = "ONLINE"}

\* Routing and disconnect requests are priority packets: they are queued when
\* the socket is full.
RoutingRequest(pk) == [type |-> "request", pk |-> pk]

\* send_disconnect_request frees the slot at once and sets its number to 0.
send_disconnect_request(c, id) ==
  [c EXCEPT !.out = Append(@, [type |-> "disconnect", id |-> id]),
            !.slots[id] = [@ EXCEPT !.status = 0, !.number = 0]]

-----------------------------------------------------------------------------
(* Relays: killed, connected again, put to sleep and woken.                *)

WithoutOnion(t, r) ==
  [t EXCEPT !.num = @ - (IF t.con[r].onion THEN 1 ELSE 0), !.con[r].onion = FALSE]

kill_tcp_relay_connection(t, r) ==
  [WithoutOnion(t, r) EXCEPT
     !.to = [n \in ConnNo |-> [t.to[n] EXCEPT !.ties[r] = NoTie]],
     !.con[r] = NoCon]

\* new_TCP_connection, which fails when there is no socket to be had.
Connecting(t, r, onionless) ==
  [onionless EXCEPT !.con[r] = [NoCon EXCEPT !.status = "VALID", !.up = "CONNECTING"]]

reconnect_tcp_relay_connection(t, r, fails) ==
  IF r \in fails THEN kill_tcp_relay_connection(t, r)
  ELSE Connecting(t, r, WithoutOnion(SetAllStatus(t, r, "NONE"), r))

sleep_tcp_relay_connection(t, r) ==
  [WithoutOnion(SetAllStatus(t, r, "NONE"), r) EXCEPT
     !.con[r] = [NoCon EXCEPT !.status = "SLEEPING"]]

unsleep_tcp_relay_connection(t, r, fails) ==
  IF r \in fails THEN kill_tcp_relay_connection(t, r) ELSE Connecting(t, r, t)

\* The k-th number of a set.
InTurn(S, k) == CHOOSE n \in S : Cardinality({m \in S : m <= n}) = k

\* Mutant of tcp_relay_on_online: one relay more than wanted is given to the onion.
tcp_relay_on_online_Variant(t, r) ==
  LET tied == {n \in ConnNo : IsConn(t, n) /\ Tied(t, n, r)}
      requests == [k \in 1 .. Cardinality(tied) |-> RoutingRequest(t.to[InTurn(tied, k)].pk)]
      online == [t.con[r] EXCEPT !.out = @ \o requests, !.status = "CONNECTED", !.fresh = tied # {}]
  IN  IF t.onion /\ t.num <= Recommended
      THEN [t EXCEPT !.con[r] = [online EXCEPT !.onion = TRUE], !.num = @ + 1]
      ELSE [t EXCEPT !.con[r] = online]

\* Every peer tied to the relay is asked for, in the order of the array.
tcp_relay_on_online(t, r) ==
  LET tied == {n \in ConnNo : IsConn(t, n) /\ Tied(t, n, r)}
      requests == [k \in 1 .. Cardinality(tied) |-> RoutingRequest(t.to[InTurn(tied, k)].pk)]
      online == [t.con[r] EXCEPT !.out = @ \o requests, !.status = "CONNECTED", !.fresh = tied # {}]
  IN  IF t.onion /\ t.num < Recommended
      THEN [t EXCEPT !.con[r] = [online EXCEPT !.onion = TRUE], !.num = @ + 1]
      ELSE [t EXCEPT !.con[r] = online]

-----------------------------------------------------------------------------
(* handle_TCP_packet of the client and the callbacks it makes.             *)

tcp_response_callback(t, r, id, pk) ==
  LET found == {n \in find_tcp_connection_to(t, pk) : CanSetStatus(t, n, r, "REGISTERED")}
      n == CHOOSE m \in found : TRUE
  IN  IF found = {} THEN t
      ELSE [SetStatus(t, n, r, "REGISTERED", id) EXCEPT !.con[r].slots[id].number = n]

tcp_status_callback(t, r, n, id, status) ==
  LET change == IF status = "ONLINE" THEN 1 ELSE -1
  IN  IF ~(IsConn(t, n) /\ CanSetStatus(t, n, r, status)) THEN t
      ELSE [SetStatus(t, n, r, status, id) EXCEPT
              !.con[r].lock = @ + change,
              !.con[r].sleep = @ + (IF t.to[n].status = "SLEEPING" THEN change ELSE 0)]

\* A response for a slot in use, and a notification that does not follow the
\* slot's status, change nothing.
HandleResponse(t, r, p) ==
  IF t.con[r].slots[p.id].status # 0 THEN t
  ELSE tcp_response_callback(
         [t EXCEPT !.con[r].slots[p.id] = [status |-> 1, pk |-> p.pk, number |-> NoNumber]],
         r, p.id, p.pk)

HandleConnect(t, r, p) ==
  IF t.con[r].slots[p.id].status # 1 THEN t
  ELSE tcp_status_callback([t EXCEPT !.con[r].slots[p.id].status = 2],
                           r, t.con[r].slots[p.id].number, p.id, "ONLINE")

HandleDisconnect(t, r, p) ==
  IF t.con[r].slots[p.id].status # 2 THEN t
  ELSE tcp_status_callback([t EXCEPT !.con[r].slots[p.id].status = 1],
                           r, t.con[r].slots[p.id].number, p.id, "REGISTERED")

\* Data goes to the connection the slot's number names and changes nothing.
HandleTcpPacket(t, r, p) ==
  CASE p.type = "response"   -> HandleResponse(t, r, p)
    [] p.type = "connect"    -> HandleConnect(t, r, p)
    [] p.type = "disconnect" -> HandleDisconnect(t, r, p)

\* The next packet that has arrived is read.
NextPacket(t, r) == HandleTcpPacket([t EXCEPT !.con[r].in = Tail(@)], r, Head(t.con[r].in))

-----------------------------------------------------------------------------
(* do_tcp_connections.                                                     *)

MaySleep(c) ==
  /\ c.status = "CONNECTED" /\ ~c.onion
  /\ c.lock # 0 /\ c.lock = c.sleep
  /\ ~c.fresh

LoseRelay(t, r, fails) ==
  IF t.con[r].status = "CONNECTED" THEN reconnect_tcp_relay_connection(t, r, fails)
  ELSE kill_tcp_relay_connection(t, r)

BeginRelay(t, r) ==
  IF t.con[r].status = "VALID" /\ t.con[r].up = "CONFIRMED" THEN tcp_relay_on_online(t, r) ELSE t

RestRelay(t, r) == IF MaySleep(t.con[r]) THEN sleep_tcp_relay_connection(t, r) ELSE t

WakeRelay(t, r, fails) ==
  IF t.con[r].status = "SLEEPING" /\ t.con[r].unsleep
  THEN unsleep_tcp_relay_connection(t, r, fails) ELSE t

\* After the packets of a relay that is awake: the loss of the connection or
\* else the start of its use, then the decision to let it sleep.
AfterPackets(t, r, fails) ==
  IF t.con[r].up = "DISCONNECTED" THEN LoseRelay(t, r, fails) ELSE RestRelay(BeginRelay(t, r), r)

DoRelay(t, r, fails) ==
  WakeRelay(IF t.con[r].status \in {"VALID", "CONNECTED"} THEN AfterPackets(t, r, fails) ELSE t,
            r, fails)

\* The relay's side of a connection ends when the client's does.
Forget(t) ==
  [r \in TcpNode |-> IF t.con[r].status = "CONNECTED" THEN routes[r]
                     ELSE [i \in SlotId |-> NoRoute]]

do_tcp_connections ==
  /\ ~loop.on
  /\ loop' = [on |-> TRUE, todo |-> TcpNode, reads |-> {}]
  /\ UNCHANGED <<tc, routes, tcpCalls, stray>>

\* The next relay, or the one whose packets are being read.
Visits(r) == loop.on /\ r \in loop.todo /\ loop.reads \subseteq {r}

\* do_confirmed_TCP reads all that has arrived.
do_TCP_connection(r) ==
  /\ Visits(r) /\ tc.con[r].in # << >>
  /\ tc' = NextPacket(tc, r)
  /\ loop' = [loop EXCEPT !.reads = {r}]
  /\ UNCHANGED <<routes, tcpCalls, stray>>

do_tcp_conns(r) ==
  /\ Visits(r) /\ tc.con[r].in = << >>
  /\ \E fails \in SUBSET {r} : tc' = DoRelay(tc, r, fails)
  /\ routes' = Forget(tc')
  /\ loop' = [loop EXCEPT !.todo = @ \ {r}, !.reads = {}]
  /\ UNCHANGED <<tcpCalls, stray>>

\* Some of the relays nobody uses are killed, as long as more than Recommended
\* are connected: the first ones, in the order of the array.
kill_nonused_tcp ==
  LET unused == {r \in TcpNode : /\ tc.con[r].status = "CONNECTED" /\ ~tc.con[r].onion
                                 /\ tc.con[r].lock = 0 /\ ~tc.con[r].fresh}
      online == {r \in TcpNode : tc.con[r].status = "CONNECTED"}
  IN  /\ loop.on /\ loop.todo = {}
      /\ \E killed \in SUBSET unused :
           /\ Cardinality(killed) = Min({Max({Cardinality(online) - Recommended, 0}), Cardinality(unused)})
           /\ tc' = [tc EXCEPT
                       !.to = [n \in ConnNo |->
                                 [tc.to[n] EXCEPT
                                    !.ties = [r \in TcpNode |-> IF r \in killed THEN NoTie ELSE @[r]]]],
                       !.con = [r \in TcpNode |-> IF r \in killed THEN NoCon ELSE tc.con[r]]]
      /\ routes' = Forget(tc')
      /\ loop' = [loop EXCEPT !.on = FALSE]
      /\ UNCHANGED <<tcpCalls, stray>>

-----------------------------------------------------------------------------
(* The calls of net_crypto and the onion client.                           *)

TcpCall(t, strays) ==
  /\ ~loop.on /\ tcpCalls < MaxTcpCalls
  /\ tcpCalls' = tcpCalls + 1
  /\ tc' = t
  /\ stray' = (stray \/ strays)
  /\ UNCHANGED <<routes, loop>>

new_tcp_connection_to(pk) ==
  LET free == {n \in ConnNo : tc.to[n].status = "NONE"}
  IN  /\ find_tcp_connection_to(tc, pk) = {}
      /\ TcpCall([tc EXCEPT !.to[Min(free)] = [NoConTo EXCEPT !.status = "VALID", !.pk = pk]], FALSE)

\* What becomes of a relay of a connection that is killed.  It is told to
\* disconnect the slot of the tie, which is 0 for a tie whose routing response
\* has not come: the request goes astray and may free the slot of another peer.
UntieKilled(c, conTo, tie) ==
  LET told == IF c.status = "CONNECTED" THEN send_disconnect_request(c, tie.id) ELSE c
      online == IF tie.status = "ONLINE" THEN 1 ELSE 0
  IN  [told EXCEPT
         !.lock = @ - online,
         !.sleep = @ - (IF conTo.status = "SLEEPING" THEN online ELSE 0)]

kill_tcp_connection_to(n) ==
  LET conTo == tc.to[n]
  IN  /\ IsConn(tc, n)
      /\ TcpCall([tc EXCEPT
           !.to[n] = NoConTo,
           !.con = [r \in TcpNode |-> IF Tied(tc, n, r) THEN UntieKilled(tc.con[r], conTo, conTo.ties[r])
                                      ELSE tc.con[r]]],
           \E r \in TcpNode : tc.con[r].status = "CONNECTED" /\ conTo.ties[r].status = "NONE")

\* Used again: the relays that sleep are marked to be woken.
UseConnection(n) ==
  /\ tc.to[n].status = "SLEEPING"
  /\ TcpCall([tc EXCEPT
       !.to[n].status = "VALID",
       !.con = [r \in TcpNode |->
                  [tc.con[r] EXCEPT
                     !.unsleep = @ \/ (Tied(tc, n, r) /\ tc.con[r].status = "SLEEPING")]]], FALSE)

\* No longer used: the relays it is online at are told so by sleep_count.
RestConnection(n) ==
  /\ tc.to[n].status = "VALID"
  /\ TcpCall([tc EXCEPT
       !.to[n].status = "SLEEPING",
       !.con = [r \in TcpNode |->
                  [tc.con[r] EXCEPT !.sleep = @ + (IF r \in OnlineTies(tc.to[n]) THEN 1 ELSE 0)]]], FALSE)

set_tcp_connection_to_status(n) == UseConnection(n) \/ RestConnection(n)

FreeTies(conTo) == Cardinality({r \in TcpNode : conTo.ties[r].status # "UNTIED"}) < MaxTies

\* add_tcp_number_relay_connection: a sleeping relay is marked even when the tie
\* already exists.
TieKnown(n, r) ==
  LET marked == IF tc.to[n].status # "SLEEPING" /\ tc.con[r].status = "SLEEPING"
                THEN [tc EXCEPT !.con[r].unsleep = TRUE] ELSE tc
      tied == [marked EXCEPT !.to[n].ties[r] = [status |-> "NONE", id |-> 0]]
      asked == [tc.con[r] EXCEPT !.out = Append(@, RoutingRequest(tc.to[n].pk)), !.fresh = TRUE]
  IN  IF Tied(tc, n, r) \/ ~FreeTies(tc.to[n]) THEN marked
      ELSE IF tc.con[r].status = "CONNECTED" THEN [tied EXCEPT !.con[r] = asked] ELSE tied

\* A relay that is not known is added unless the connection has enough of them;
\* it stays when there is no room for the tie.
TieNew(n, r) ==
  LET added == Connecting(tc, r, tc)
  IN  IF Cardinality(OnlineTies(tc.to[n])) >= Recommended THEN tc
      ELSE IF ~FreeTies(tc.to[n]) THEN added
      ELSE [added EXCEPT !.to[n].ties[r] = [status |-> "NONE", id |-> 0]]

add_tcp_relay_connection(n, r) ==
  LET t == IF tc.con[r].status # "NONE" THEN TieKnown(n, r) ELSE TieNew(n, r)
  IN  IsConn(tc, n) /\ t # tc /\ TcpCall(t, FALSE)

add_tcp_relay_global(r) ==
  /\ tc.con[r].status = "NONE"
  /\ TcpCall(Connecting(tc, r, tc), FALSE)

\* Relays are given to the onion until there are enough; when there are not,
\* all that sleep are woken, for the count of those to wake is never lowered.
StartOnion(given) ==
  LET wake == Cardinality(given) < Recommended
  IN  [tc EXCEPT
         !.onion = TRUE,
         !.num = @ + Cardinality(given),
         !.con = [r \in TcpNode |->
                    [tc.con[r] EXCEPT
                       !.onion = @ \/ r \in given,
                       !.unsleep = @ \/ (wake /\ tc.con[r].status = "SLEEPING")]]]

StopOnion ==
  [tc EXCEPT
     !.onion = FALSE,
     !.num = @ - Cardinality({r \in TcpNode : tc.con[r].onion}),
     !.con = [r \in TcpNode |-> [tc.con[r] EXCEPT !.onion = FALSE]]]

set_tcp_onion_status ==
  LET usable == {r \in TcpNode : tc.con[r].status = "CONNECTED" /\ ~tc.con[r].onion}
  IN  \/ /\ ~tc.onion
         /\ \E given \in SUBSET usable :
              /\ Cardinality(given) = Min({Recommended, Cardinality(usable)})
              /\ TcpCall(StartOnion(given), FALSE)
      \/ tc.onion /\ TcpCall(StopOnion, FALSE)

-----------------------------------------------------------------------------
(* Time, the socket and the relay at its other end.                        *)

\* TCP_CONNECTION_ANNOUNCE_TIMEOUT after the last routing request.
AnnounceTimeout(r) ==
  /\ ~loop.on /\ tc.con[r].fresh
  /\ tc' = [tc EXCEPT !.con[r].fresh = FALSE]
  /\ UNCHANGED <<routes, tcpCalls, loop, stray>>

\* The handshake with the relay ends, or the connection is lost: refused,
\* closed, or silent for too long.
SocketChanges(r) ==
  /\ ~loop.on
  /\ \/ tc.con[r].up = "CONNECTING" /\ tc' = [tc EXCEPT !.con[r].up = "CONFIRMED"]
     \/ /\ tc.con[r].up \in {"CONNECTING", "CONFIRMED"}
        /\ tc' = [tc EXCEPT !.con[r].up = "DISCONNECTED"]
  /\ UNCHANGED <<routes, tcpCalls, loop, stray>>

RelaySends(r, route) ==
  /\ Len(tc.con[r].in) < MaxInFlight
  /\ routes' = [routes EXCEPT ![r] = route]

\* handle_TCP_routing_req, with the other peer there or not yet.
RelayRoutes(r) ==
  LET pk == Head(tc.con[r].out).pk
      known == {i \in SlotId : routes[r][i].status # 0 /\ routes[r][i].pk = pk}
      free == {i \in SlotId : routes[r][i].status = 0}
      Response(i) == [type |-> "response", id |-> i, pk |-> pk]
      Connect(i) == [type |-> "connect", id |-> i]
      Route(i, status) == [routes[r] EXCEPT ![i] = [status |-> status, pk |-> pk]]
      Answers(packets, route) ==
        /\ RelaySends(r, route)
        /\ tc' = [tc EXCEPT !.con[r] = [tc.con[r] EXCEPT !.out = Tail(@), !.in = @ \o packets]]
  IN  /\ Head(tc.con[r].out).type = "request"
      /\ IF known # {} THEN Answers(<<Response(Min(known))>>, routes[r])
         ELSE IF free = {} THEN Answers(<< >>, routes[r])
         ELSE \/ Answers(<<Response(Min(free))>>, Route(Min(free), 1))
              \/ Answers(<<Response(Min(free)), Connect(Min(free))>>, Route(Min(free), 2))

\* rm_connection_index; a slot that is not used makes the relay hang up.
RelayDisconnects(r) ==
  LET id == Head(tc.con[r].out).id
  IN  /\ Head(tc.con[r].out).type = "disconnect"
      /\ IF routes[r][id].status = 0
         THEN /\ tc' = [tc EXCEPT !.con[r] = [tc.con[r] EXCEPT !.out = << >>, !.up = "DISCONNECTED"]]
              /\ UNCHANGED routes
         ELSE /\ tc' = [tc EXCEPT !.con[r].out = Tail(@)]
              /\ routes' = [routes EXCEPT ![r][id] = NoRoute]

RelayReads(r) ==
  /\ ~loop.on /\ tc.con[r].up = "CONFIRMED" /\ tc.con[r].out # << >>
  /\ RelayRoutes(r) \/ RelayDisconnects(r)
  /\ UNCHANGED <<tcpCalls, loop, stray>>

\* The peer behind a slot asks for us, or leaves.
PeerActs(r, i) ==
  LET s == routes[r][i].status
      Tells(p, status) ==
        /\ RelaySends(r, [routes[r] EXCEPT ![i].status = status])
        /\ tc' = [tc EXCEPT !.con[r].in = Append(@, p)]
  IN  /\ ~loop.on /\ tc.con[r].up = "CONFIRMED"
      /\ \/ s = 1 /\ Tells([type |-> "connect", id |-> i], 2)
         \/ s = 2 /\ Tells([type |-> "disconnect", id |-> i], 1)
      /\ UNCHANGED <<tcpCalls, loop, stray>>

TcpConnNext ==
  \/ \E pk \in TcpPeer : new_tcp_connection_to(pk)
  \/ \E n \in ConnNo : kill_tcp_connection_to(n) \/ set_tcp_connection_to_status(n)
  \/ \E n \in ConnNo, r \in TcpNode : add_tcp_relay_connection(n, r)
  \/ \E r \in TcpNode : add_tcp_relay_global(r)
  \/ set_tcp_onion_status
  \/ do_tcp_connections \/ kill_nonused_tcp
  \/ \E r \in TcpNode : do_TCP_connection(r) \/ do_tcp_conns(r)
  \/ \E r \in TcpNode : AnnounceTimeout(r) \/ SocketChanges(r) \/ RelayReads(r)
  \/ \E r \in TcpNode, i \in SlotId : PeerActs(r, i)

TcpConnSpec == TcpConnInit /\ [][TcpConnNext]_tcpConnVars

-----------------------------------------------------------------------------
(* Properties.                                                             *)

UsersOf(t, r) == {n \in ConnNo : r \in OnlineTies(t.to[n])}

\* onion_num_conns is the number of relays the onion has, never more than
\* NUM_ONION_TCP_CONNECTIONS.  Until a disconnect request goes astray (see
\* UntieKilled), lock_count, which keeps a relay from being killed, is the
\* number of peers that are online at the relay, through kills, responses that
\* come late, reconnections and sleep; and a slot in use that names a
\* connection names one to its own peer, although connections are killed and
\* their places reused while responses are on their way (kill_nonused_tcp,
\* sleep_tcp_relay_connection, tcp_relay_on_online, tcp_response_callback).
RelayCountsAreExact ==
  /\ tc.num = Cardinality({r \in TcpNode : tc.con[r].onion})
  /\ tc.num <= Recommended
  /\ ~stray => \A r \in TcpNode :
       /\ tc.con[r].lock = Cardinality(UsersOf(tc, r))
       /\ \A i \in SlotId :
            LET slot == tc.con[r].slots[i]
            IN  slot.status # 0 /\ slot.number # NoNumber => tc.to[slot.number].pk = slot.pk

=============================================================================
