------------------------------ MODULE TcpRelay ------------------------------
(***************************************************************************)
(* TCP_server.c and the clients of TCP_client.c: a relay accepts           *)
(* connections, replaces an older one of the same key, gives every         *)
(* connection slots for the peers its client asks for, links two slots     *)
(* when two clients have asked for each other, and carries data, out of    *)
(* band packets and onion packets between them.                            *)
(*                                                                         *)
(* A socket is a number; its two streams are sequences of packets          *)
(* (TcpStream is about how packets become a stream).  Packets with         *)
(* priority are always queued, the others are dropped when the socket is   *)
(* full.  Timeouts, errors and hang-ups end a connection at any moment.    *)
(***************************************************************************)
EXTENDS Integers, Sequences, FiniteSetsExt

CONSTANTS
  RelayClient,      \* public keys of the clients
  NoClient,
  NumLinks,         \* NUM_CLIENT_CONNECTIONS
  GrowBy,           \* what add_accepted adds to the array, 4 in the code
  MaxIncoming,      \* MAX_INCOMMING_CONNECTIONS, the size of the two queues
  MaxSockets,       \* bound on the connections clients open
  MaxStream,        \* packets a socket takes before it is full
  MaxRelayCalls     \* bound on the calls of the clients

ASSUME TcpRelayAssumption ==
  /\ NoClient \notin RelayClient /\ IsFiniteSet(RelayClient)
  /\ {NumLinks, GrowBy, MaxIncoming, MaxSockets, MaxStream} \subseteq Nat \ {0}
  /\ MaxRelayCalls \in Nat

VARIABLES
  srv,         \* TCP_Server: acc, size, counter, and the sockets it serves
  incoming,    \* incomming_connection_queue, its sockets, 0 where unused
  unconfirmed, \* unconfirmed_connection_queue
  arrivals,    \* the two queue indexes
  cli,         \* per client, TCP_Client_Connection: its socket and slots
  onionWay,    \* onion requests the relay has passed on
  received,    \* what the last packet handed up by a client was
  astray,      \* history: sockets a client has sent a disconnect request on for no slot of his
  relayCalls

tcpRelayVars == <<srv, incoming, unconfirmed, arrivals, cli, onionWay, received, astray, relayCalls>>

LinkId == 0 .. NumLinks - 1
Socket == 1 .. MaxSockets
QueueIndex == 0 .. MaxIncoming - 1
AccIndex == 0 .. Cardinality(RelayClient) + GrowBy

NoLink == [status |-> 0, pk |-> NoClient, index |-> 0, other |-> 0]
NoAccepted == [sock |-> 0, pk |-> NoClient, ident |-> 0, links |-> [i \in LinkId |-> NoLink]]
NoClientLink == [status |-> 0, pk |-> NoClient]
NoSocket == [open |-> FALSE, owner |-> NoClient, ready |-> FALSE, up |-> << >>, down |-> << >>]

TcpRelayInit ==
  /\ srv = [acc |-> [i \in AccIndex |-> NoAccepted], size |-> 0, counter |-> 0,
            sock |-> [k \in Socket |-> NoSocket]]
  /\ incoming = [q \in QueueIndex |-> 0]
  /\ unconfirmed = [q \in QueueIndex |-> 0]
  /\ arrivals = [in |-> 0, un |-> 0]
  /\ cli = [c \in RelayClient |-> [sock |-> 0, links |-> [i \in LinkId |-> NoClientLink]]]
  /\ onionWay = {}
  /\ received = << >>
  /\ astray = {}
  /\ relayCalls = 0

-----------------------------------------------------------------------------
(* The server's array of accepted connections.                             *)

InUse(s) == {i \in AccIndex : s.acc[i].sock # 0}

\* bs_list_find over accepted_key_list.
get_TCP_connection_index(s, pk) == {i \in InUse(s) : s.acc[i].pk = pk}

Full(s, k) == Len(s.sock[k].down) >= MaxStream

WritePriority(s, i, p) == [s EXCEPT !.sock[s.acc[i].sock].down = Append(@, p)]

WriteData(s, i, p) == IF Full(s, s.acc[i].sock) THEN s ELSE WritePriority(s, i, p)

\* The socket is closed; what the client has not read is lost.
kill_sock(s, k) == [s EXCEPT !.sock[k].open = FALSE, !.sock[k].up = << >>, !.sock[k].down = << >>]

\* The slots ids of connection i are freed.  A link to another connection is
\* taken back there, and that connection is told; no two slots of i are linked
\* to the same connection, for a client has one slot for a peer.
FreeLinks(s, i, ids) ==
  LET links == s.acc[i].links
      linked == {id \in LinkId : id \in ids /\ links[id].status = 2}
      Freed(link, status) == [link EXCEPT !.status = status, !.index = 0, !.other = 0]
      Link(j, other) ==
        IF j = i /\ other \in ids THEN Freed(links[other], 0)
        ELSE IF \E id \in linked : links[id].index = j /\ links[id].other = other
        THEN Freed(s.acc[j].links[other], 1) ELSE s.acc[j].links[other]
      told == [k \in Socket |-> {id \in linked : s.acc[links[id].index].sock = k}]
      Notice(k) == [type |-> "disconnect", id |-> links[CHOOSE id \in told[k] : TRUE].other]
  IN  [s EXCEPT
         !.acc = [j \in AccIndex |-> [s.acc[j] EXCEPT !.links = [id \in LinkId |-> Link(j, id)]]],
         !.sock = [k \in Socket |-> IF told[k] = {} THEN s.sock[k]
                                    ELSE [s.sock[k] EXCEPT !.down = Append(@, Notice(k))]]]

rm_connection_index(s, i, id) == FreeLinks(s, i, {id})

del_accepted(s, i) ==
  LET deleted == [s EXCEPT !.acc[i] = NoAccepted]
  IN  IF InUse(deleted) = {} THEN [deleted EXCEPT !.size = 0] ELSE deleted

\* Mutant of kill_accepted: the slots are not taken back.
kill_accepted_Variant(s, i) == kill_sock(del_accepted(s, i), s.acc[i].sock)

kill_accepted(s, i) == kill_sock(del_accepted(FreeLinks(s, i, LinkId), i), s.acc[i].sock)

\* An older connection of the same key is killed; the array grows when it is
\* full, and otherwise its last free entry is used.
add_accepted(s, k) ==
  LET pk == s.sock[k].owner
      old == get_TCP_connection_index(s, pk)
      t == IF old = {} THEN s ELSE kill_accepted(s, Min(old))
      full == t.size = Cardinality(InUse(t))
      index == IF full THEN t.size ELSE Max({i \in 0 .. t.size - 1 : t.acc[i].sock = 0})
  IN  [s |-> [t EXCEPT
                !.size = IF full THEN @ + GrowBy ELSE @,
                !.counter = @ + 1,
                !.acc[index] = [NoAccepted EXCEPT !.sock = k, !.pk = pk, !.ident = t.counter + 1]],
       index |-> index]

-----------------------------------------------------------------------------
(* handle_TCP_packet of the server: the new state, and whether the         *)
(* connection may live.  The pong that answers a ping is left out.         *)

Alive(s) == [s |-> s, ok |-> TRUE]
MustKill(s) == [s |-> s, ok |-> FALSE]

Response(id, pk) == [type |-> "response", id |-> id, pk |-> pk]
Connected(id) == [type |-> "connect", id |-> id]

LinkBoth(s, i, id, j, other) ==
  LET linked == [s EXCEPT
        !.acc[i].links[id] = [@ EXCEPT !.status = 2, !.index = j, !.other = other],
        !.acc[j].links[other] = [@ EXCEPT !.status = 2, !.index = i, !.other = id]]
  IN  WritePriority(WritePriority(linked, i, Connected(id)), j, Connected(other))

\* A client who asks for himself, and one who has no slot left, is answered by
\* a response the client ignores.
handle_TCP_routing_req(s, i, pk) ==
  LET links == s.acc[i].links
      known == {id \in LinkId : links[id].status # 0 /\ links[id].pk = pk}
      free == {id \in LinkId : links[id].status = 0}
      id == Min(free)
      taken == [WritePriority(s, i, Response(id, pk)) EXCEPT
                  !.acc[i].links[id] = [NoLink EXCEPT !.status = 1, !.pk = pk]]
      there == get_TCP_connection_index(s, pk)
      j == Min(there)
      waiting == {other \in LinkId : /\ there # {} /\ s.acc[j].links[other].status = 1
                                     /\ s.acc[j].links[other].pk = s.acc[i].pk}
  IN  IF pk = s.acc[i].pk THEN s
      ELSE IF known # {} THEN WritePriority(s, i, Response(Min(known), pk))
      ELSE IF free = {} THEN s
      ELSE IF waiting = {} THEN taken ELSE LinkBoth(taken, i, id, j, Min(waiting))

handle_TCP_oob_send(s, i, pk) ==
  LET other == get_TCP_connection_index(s, pk)
  IN  IF other = {} THEN s
      ELSE WriteData(s, Min(other), [type |-> "oob", from |-> s.acc[i].pk])

RouteData(s, i, id) ==
  LET link == s.acc[i].links[id]
  IN  IF link.status = 0 THEN MustKill(s)
      ELSE IF link.status # 2 THEN Alive(s)
      ELSE Alive(WriteData(s, link.index, [type |-> "data", id |-> link.other, from |-> s.acc[i].pk]))

handle_TCP_packet(s, i, p) ==
  CASE p.type = "request"    -> Alive(handle_TCP_routing_req(s, i, p.pk))
    [] p.type = "disconnect" -> IF s.acc[i].links[p.id].status = 0 THEN MustKill(s)
                                ELSE Alive(rm_connection_index(s, i, p.id))
    [] p.type = "oob"        -> Alive(handle_TCP_oob_send(s, i, p.pk))
    [] p.type = "data"       -> RouteData(s, i, p.id)
    [] OTHER                 -> Alive(s)

\* The packet is handled; a connection that misbehaves is killed.
HandleOrKill(s, i, p) ==
  LET done == handle_TCP_packet(s, i, p)
  IN  IF done.ok THEN done.s ELSE kill_accepted(done.s, i)

\* onion_send_1 is given the place of the connection and its identifier.
OnionSource(s, i, p) ==
  IF p.type = "onion"
  THEN {[index |-> i, ident |-> s.acc[i].ident, origin |-> s.acc[i].sock]} ELSE {}

-----------------------------------------------------------------------------
(* The server's loop.                                                      *)

Serve(s) == srv' = s /\ received' = << >> /\ UNCHANGED <<cli, astray, relayCalls>>

\* A new socket takes the next place of the ring; whoever is still in that
\* place is cut off.
do_TCP_accept_new(k) ==
  LET q == arrivals.in % MaxIncoming
  IN  /\ srv.sock[k].open /\ ~srv.sock[k].ready
      /\ \A r \in QueueIndex : incoming[r] # k /\ unconfirmed[r] # k
      /\ incoming' = [incoming EXCEPT ![q] = k]
      /\ arrivals' = [arrivals EXCEPT !.in = @ + 1]
      /\ Serve(IF incoming[q] = 0 THEN srv ELSE kill_sock(srv, incoming[q]))
      /\ UNCHANGED <<unconfirmed, onionWay>>

\* The handshake is read and answered.  One of a client who has hung up may still
\* be; with epoll the connection is killed for it.
do_incoming(q) ==
  LET k == incoming[q]
      u == arrivals.un % MaxIncoming
      freed == IF unconfirmed[u] = 0 THEN srv ELSE kill_sock(srv, unconfirmed[u])
  IN  /\ k # 0
      /\ incoming' = [incoming EXCEPT ![q] = 0]
      /\ \/ /\ Serve([freed EXCEPT !.sock[k].ready = TRUE])
            /\ unconfirmed' = [unconfirmed EXCEPT ![u] = k]
            /\ arrivals' = [arrivals EXCEPT !.un = @ + 1]
         \/ ~srv.sock[k].open /\ Serve(srv) /\ UNCHANGED <<unconfirmed, arrivals>>
      /\ UNCHANGED onionWay

\* The first packet confirms the connection and is handled, also when the client
\* has hung up since, unless epoll says so first.
do_unconfirmed(q) ==
  LET k == unconfirmed[q]
      p == Head(srv.sock[k].up)
      added == add_accepted([srv EXCEPT !.sock[k].up = Tail(@)], k)
  IN  /\ k # 0
      /\ unconfirmed' = [unconfirmed EXCEPT ![q] = 0]
      /\ \/ /\ srv.sock[k].up # << >>
            /\ Serve(HandleOrKill(added.s, added.index, p))
            /\ onionWay' = onionWay \cup OnionSource(added.s, added.index, p)
         \/ ~srv.sock[k].open /\ Serve(srv) /\ UNCHANGED onionWay
      /\ UNCHANGED <<incoming, arrivals>>

do_confirmed_recv(i) ==
  LET k == srv.acc[i].sock
      p == Head(srv.sock[k].up)
  IN  /\ i \in InUse(srv) /\ srv.sock[k].up # << >>
      /\ Serve(HandleOrKill([srv EXCEPT !.sock[k].up = Tail(@)], i, p))
      /\ onionWay' = onionWay \cup OnionSource(srv, i, p)
      /\ UNCHANGED <<incoming, unconfirmed, arrivals>>

\* No pong in time, a ping that could not be sent, or an error of the socket.
do_TCP_confirmed(i) ==
  /\ i \in InUse(srv)
  /\ Serve(kill_accepted(srv, i))
  /\ UNCHANGED <<incoming, unconfirmed, arrivals, onionWay>>

\* The onion answers.  The connection may be gone, and its place taken.
handle_onion_recv_1(w) ==
  /\ w \in onionWay
  /\ onionWay' = onionWay \ {w}
  /\ Serve(IF w.index < srv.size /\ srv.acc[w.index].ident = w.ident
           THEN WriteData(srv, w.index, [type |-> "onion", origin |-> w.origin]) ELSE srv)
  /\ UNCHANGED <<incoming, unconfirmed, arrivals>>

-----------------------------------------------------------------------------
(* The clients.                                                            *)

Client(c) == cli[c].sock # 0 /\ srv.sock[cli[c].sock].open /\ srv.sock[cli[c].sock].ready

RelayCall ==
  /\ relayCalls < MaxRelayCalls
  /\ relayCalls' = relayCalls + 1
  /\ received' = << >>
  /\ UNCHANGED <<incoming, unconfirmed, arrivals, onionWay>>

ClientSends(c, p) == srv' = [srv EXCEPT !.sock[cli[c].sock].up = Append(@, p)]

\* A client connects, leaving the connection he had.  The first packet of a
\* connection is the ping do_confirmed_TCP sends at once.
new_TCP_connection(c) ==
  LET new == {k \in Socket : srv.sock[k].owner = NoClient}
      k == Min(new)
      left == IF cli[c].sock = 0 THEN srv ELSE [srv EXCEPT !.sock[cli[c].sock].open = FALSE]
  IN  /\ new # {} /\ RelayCall
      /\ srv' = [left EXCEPT !.sock[k] =
                   [NoSocket EXCEPT !.open = TRUE, !.owner = c, !.up = <<[type |-> "ping"]>>]]
      /\ cli' = [cli EXCEPT ![c] = [sock |-> k, links |-> [i \in LinkId |-> NoClientLink]]]
      /\ UNCHANGED astray

\* TCP_connection.c asks for a peer again only after it has given him up; if it
\* did so before the answer came, the first request may still be on its way.
Asked(c, pk) ==
  LET k == cli[c].sock
      For(stream, type) == \E n \in DOMAIN stream : stream[n].type = type /\ stream[n].pk = pk
  IN  /\ k \notin astray
      /\ \/ \E id \in LinkId : cli[c].links[id].status # 0 /\ cli[c].links[id].pk = pk
         \/ For(srv.sock[k].up, "request") \/ For(srv.sock[k].down, "response")

send_routing_request(c, pk) ==
  /\ Client(c) /\ ~Asked(c, pk) /\ RelayCall
  /\ ClientSends(c, [type |-> "request", pk |-> pk])
  /\ UNCHANGED <<cli, astray>>

\* send_disconnect_request: the slot is free at once.  TCP_connection.c names slot
\* 0 when it gives up a peer before the relay has answered, whether or not the
\* client has that slot.
Disconnect(c, id) ==
  /\ Client(c) /\ (id = 0 \/ cli[c].links[id].status # 0) /\ RelayCall
  /\ ClientSends(c, [type |-> "disconnect", id |-> id])
  /\ cli' = [cli EXCEPT ![c].links[id].status = 0]
  /\ astray' = IF cli[c].links[id].status = 0 THEN astray \cup {cli[c].sock} ELSE astray

send_data(c, id) ==
  /\ Client(c) /\ cli[c].links[id].status = 2 /\ RelayCall
  /\ ClientSends(c, [type |-> "data", id |-> id])
  /\ UNCHANGED <<cli, astray>>

send_oob_packet(c, pk) ==
  /\ Client(c) /\ RelayCall
  /\ ClientSends(c, [type |-> "oob", pk |-> pk])
  /\ UNCHANGED <<cli, astray>>

send_onion_request(c) ==
  /\ Client(c) /\ RelayCall
  /\ ClientSends(c, [type |-> "onion"])
  /\ UNCHANGED <<cli, astray>>

\* handle_TCP_packet of the client.
ClientLink(link, p) ==
  CASE p.type = "response"   -> IF link.status = 0 THEN [status |-> 1, pk |-> p.pk] ELSE link
    [] p.type = "connect"    -> IF link.status = 1 THEN [link EXCEPT !.status = 2] ELSE link
    [] p.type = "disconnect" -> IF link.status = 2 THEN [link EXCEPT !.status = 1] ELSE link

do_confirmed_TCP(c) ==
  LET k == cli[c].sock
      p == Head(srv.sock[k].down)
  IN  /\ Client(c) /\ srv.sock[k].down # << >>
      /\ srv' = [srv EXCEPT !.sock[k].down = Tail(@)]
      /\ cli' = IF p.type \in {"response", "connect", "disconnect"}
                THEN [cli EXCEPT ![c].links[p.id] = ClientLink(@, p)] ELSE cli
      /\ received' = IF p.type \in {"data", "oob", "onion"} THEN <<c, p>> ELSE << >>
      /\ UNCHANGED <<incoming, unconfirmed, arrivals, onionWay, astray, relayCalls>>

TcpRelayNext ==
  \/ \E k \in Socket : do_TCP_accept_new(k)
  \/ \E q \in QueueIndex : do_incoming(q) \/ do_unconfirmed(q)
  \/ \E i \in AccIndex : do_confirmed_recv(i) \/ do_TCP_confirmed(i)
  \/ \E w \in onionWay : handle_onion_recv_1(w)
  \/ \E c \in RelayClient : new_TCP_connection(c) \/ send_onion_request(c) \/ do_confirmed_TCP(c)
  \/ \E c, pk \in RelayClient : send_routing_request(c, pk) \/ send_oob_packet(c, pk)
  \/ \E c \in RelayClient, id \in LinkId : Disconnect(c, id) \/ send_data(c, id)

TcpRelaySpec == TcpRelayInit /\ [][TcpRelayNext]_tcpRelayVars

-----------------------------------------------------------------------------
(* Properties.                                                             *)

\* The relay's tables stay consistent while connections are replaced, killed
\* and their places reused: a key has one accepted connection, and a slot that
\* is online names a slot of a live connection of the right peer that names it
\* back (handle_TCP_routing_req, rm_connection_index, kill_accepted).
LinksAreMutual ==
  /\ \A i, j \in InUse(srv) : srv.acc[i].pk = srv.acc[j].pk => i = j
  /\ \A i \in InUse(srv), id \in LinkId :
       LET link == srv.acc[i].links[id]
           back == srv.acc[link.index].links[link.other]
       IN  link.status = 2 =>
             /\ link.index \in InUse(srv) /\ srv.acc[link.index].pk = link.pk
             /\ back.status = 2 /\ back.pk = srv.acc[i].pk
             /\ back.index = i /\ back.other = id

\* When nothing is on its way between a client and the relay they agree on the
\* client's slots, and what a client is handed comes from the peer of the slot,
\* or is the answer to an onion request of this very connection (the client's
\* handle_TCP_packet, handle_onion_recv_1).  Of slots it is so until a disconnect
\* request goes astray on the connection: kill_tcp_connection_to may name slot 0
\* before the relay has answered, the relay frees it, the client takes the late
\* answer for his own, and after that the slot may belong to another peer.
ClientsAgreeWithRelay ==
  /\ \A c \in RelayClient, i \in InUse(srv) :
       LET k == cli[c].sock
       IN  (/\ srv.acc[i].sock = k /\ Client(c) /\ k \notin astray
            /\ srv.sock[k].up = << >> /\ srv.sock[k].down = << >>)
             => \A id \in LinkId :
                  LET link == srv.acc[i].links[id]
                  IN  /\ link.status = cli[c].links[id].status
                      /\ link.status # 0 => link.pk = cli[c].links[id].pk
  /\ received # << >> =>
       LET c == received[1]
           p == received[2]
       IN  /\ p.type = "data" /\ cli[c].sock \notin astray => cli[c].links[p.id].pk = p.from
           /\ p.type = "onion" => p.origin = cli[c].sock

\* The relay's tables are consistent and the clients agree with them, however
\* connections are replaced and slots asked for again (kill_accepted,
\* handle_TCP_routing_req, handle_onion_recv_1).
RelayAndClientsAgree == LinksAreMutual /\ ClientsAgreeWithRelay

=============================================================================
