-------------------------- MODULE CryptoHandshake --------------------------
(***************************************************************************)
(* How two nodes set up a crypto connection (toxcore/net_crypto.c):        *)
(* cookie request, cookie response, handshakes in both directions, and the *)
(* first data packet that confirms the session key.  Each node has at most *)
(* one connection to the other (getcryptconnection_id).                    *)
(*                                                                         *)
(* A packet that was sent stays in msgs: it may arrive at any later time,  *)
(* any number of times, or never.  An expired cookie (COOKIE_TIMEOUT) is a *)
(* handshake that never arrives.  A session number stands for everything   *)
(* new_crypto_connection draws at random: session key pair, sent_nonce and *)
(* cookie_request_number.  No data packet is sent before the last          *)
(* handshake packet of a session was created, so its nonce is always the   *)
(* first one.  The incarnation of a node stands for what it draws when it  *)
(* starts: its DHT key and the secret_symmetric_key of its cookies.        *)
(***************************************************************************)
EXTENDS Integers

CONSTANTS
  Alice, Bob,    \* two nodes, friends of each other
  NoPacket,      \* no temp_packet
  MaxTries,      \* MAX_NUM_SENDPACKET_TRIES, 8
  MaxSessions,   \* bound: connections created in all
  MaxEpoch,      \* bound: incarnations of a node
  Networks       \* the values of network the model starts with

Node == {Alice, Bob}

Peer(e) == IF e = Alice THEN Bob ELSE Alice

ASSUME NodeAssumption == Alice # Bob
ASSUME TriesAssumption == MaxTries \in Nat \ {0}
ASSUME BoundsAssumption == MaxSessions \in Nat /\ MaxEpoch \in Nat \ {0}
\* "none": nothing is promised; "routed": there is a way to send, so that sends do
\* not fail for ever; "patient": besides, packets that are sent again and again
\* arrive, never so slow that kill_timedout acts, and nobody calls crypto_kill.
Network == {"none", "routed", "patient"}

ASSUME NetworksAssumption == Networks \subseteq Network

VARIABLES
  conn,     \* [Node -> connection]
  epoch,    \* [Node -> Nat], the incarnation of each node
  opened,   \* connections created so far; session numbers count from 1
  msgs,     \* every packet ever sent
  keys,     \* history: <<s, t>> if session s computed its key with session t
  network   \* what is promised of the network and the users; it never changes

vars == <<conn, epoch, opened, msgs, keys, network>>

\* An unused connection.  wipe_crypto_connection sets every field to 0.
NoConnection ==
  [status |-> "NoConnection", session |-> 0, peer |-> 0, dht |-> 0,
   temp |-> NoPacket, num_sent |-> 0]

HalfOpenStates == {"CookieRequesting", "HandshakeSent", "NotConfirmed"}

HalfOpen(e) == conn[e].status \in HalfOpenStates

-----------------------------------------------------------------------------
\* Packets.

\* create_cookie: only its maker can open it, and only the incarnation that
\* made it.  dht is the DHT key of the node it was made for.
Cookie(e, dht) == [maker |-> e, epoch |-> epoch[e], dht |-> dht]

create_cookie_request(e, session, dht) ==
  [type |-> "CookieRequest", to |-> Peer(e), todht |-> dht, dht |-> epoch[e],
   number |-> session]

\* The answer of node e to cookie request m.
create_cookie_response(e, m) ==
  [type |-> "CookieResponse", to |-> Peer(e), todht |-> m.dht, dht |-> epoch[e],
   number |-> m.number, cookie |-> Cookie(e, m.dht)]

\* A handshake carries the cookie it answers, and one made for the peer.
create_crypto_handshake(e, session, cookie, dht) ==
  [type |-> "Handshake", to |-> Peer(e), cookie |-> cookie, session |-> session,
   reply |-> Cookie(e, dht)]

DataPacket(e, kind) ==
  [type |-> kind, to |-> Peer(e), from |-> conn[e].session, key |-> conn[e].peer]

\* Packets given to send_packet_to; ok is its outcome.
Sent(ok, packet) == IF ok /\ packet # NoPacket THEN {packet} ELSE {}

\* new_temp_packet, and its first send by create_send_handshake.
WithHandshake(c, packet, ok) ==
  [c EXCEPT !.temp = packet, !.num_sent = IF ok THEN 1 ELSE 0]

-----------------------------------------------------------------------------

Init ==
  /\ conn = [e \in Node |-> NoConnection]
  /\ epoch = [e \in Node |-> 1]
  /\ opened = 0
  /\ msgs = {}
  /\ keys = {}
  /\ network \in Networks

\* The connection new_crypto_connection makes; its cookie request is sent by
\* the next send_crypto_packets.
Requesting(e, session, dht) ==
  [status |-> "CookieRequesting", session |-> session, peer |-> 0, dht |-> dht,
   temp |-> create_cookie_request(e, session, dht), num_sent |-> 0]

\* A friend's DHT key is learned from packets that may be old.
new_crypto_connection(e, dht) ==
  /\ conn[e].status = "NoConnection"
  /\ opened < MaxSessions
  /\ conn' = [conn EXCEPT ![e] = Requesting(e, opened + 1, dht)]
  /\ opened' = opened + 1
  /\ UNCHANGED <<epoch, msgs, keys>>

\* crypto_kill tells the peer if the connection is established.
KillPackets(e, ok) ==
  IF conn[e].status = "Established" THEN Sent(ok, DataPacket(e, "Kill")) ELSE {}

crypto_kill(e, ok) ==
  /\ conn[e].status # "NoConnection"
  /\ network # "patient"
  /\ conn' = [conn EXCEPT ![e] = NoConnection]
  /\ msgs' = msgs \cup KillPackets(e, ok)
  /\ UNCHANGED <<epoch, opened, keys>>

\* The process ends and starts again, with new DHT and cookie keys.
Restart(e) ==
  /\ epoch[e] < MaxEpoch
  /\ epoch' = [epoch EXCEPT ![e] = @ + 1]
  /\ conn' = [conn EXCEPT ![e] = NoConnection]
  /\ UNCHANGED <<opened, msgs, keys>>

\* do_net_crypto for the connection: kill_timedout, then send_crypto_packets.
\* temp and request say which of the two timers have run out, ok whether the
\* packets can be sent.  (Counting stops at MaxTries, which only matters when
\* patience suspends kill_timedout.)
kill_timedout(e) ==
  /\ HalfOpen(e)
  /\ conn[e].num_sent >= MaxTries
  /\ network # "patient"
  /\ conn' = [conn EXCEPT ![e] = NoConnection]
  /\ UNCHANGED <<epoch, opened, msgs, keys>>

send_crypto_packets(e, temp, request, ok) ==
  LET tempSent == temp /\ conn[e].temp # NoPacket /\ ok
      isKeyed == conn[e].status \in {"NotConfirmed", "Established"}
  IN  /\ conn[e].status # "NoConnection"
      /\ HalfOpen(e) /\ network # "patient" => conn[e].num_sent < MaxTries
      /\ conn' = IF tempSent /\ conn[e].num_sent < MaxTries
                   THEN [conn EXCEPT ![e].num_sent = @ + 1] ELSE conn
      /\ msgs' = msgs \cup Sent(tempSent, conn[e].temp)
                      \cup (IF request /\ isKeyed THEN Sent(ok, DataPacket(e, "Request")) ELSE {})
      /\ UNCHANGED <<epoch, opened, keys>>

-----------------------------------------------------------------------------
\* Packets that arrive at node m.to.

\* handle_cookie_request and the three functions that call it; nothing is
\* stored.
HandleCookieRequest(m) ==
  LET e == m.to
  IN  /\ m.type = "CookieRequest"
      /\ m.todht = epoch[e]
      /\ msgs' = msgs \cup {create_cookie_response(e, m)}
      /\ UNCHANGED <<conn, epoch, opened, keys>>

\* handle_packet_connection, NET_PACKET_COOKIE_RESPONSE.
HandleCookieResponse(m, ok) ==
  LET e == m.to
      packet == create_crypto_handshake(e, conn[e].session, m.cookie, conn[e].dht)
  IN  /\ m.type = "CookieResponse"
      /\ conn[e].status = "CookieRequesting"
      /\ m.todht = epoch[e] /\ m.dht = conn[e].dht
      /\ m.number = conn[e].session
      /\ conn' = [conn EXCEPT ![e] =
                    [WithHandshake(@, packet, ok) EXCEPT !.status = "HandshakeSent"]]
      /\ msgs' = msgs \cup Sent(ok, packet)
      /\ UNCHANGED <<epoch, opened, keys>>

\* handle_crypto_handshake succeeds if the cookie is one of ours.
IsValidHandshake(m) ==
  m.type = "Handshake" /\ m.cookie.maker = m.to /\ m.cookie.epoch = epoch[m.to]

\* Mutants of HandshakeAccepted: the key counts as confirmed at once; no
\* handshake is sent back; a handshake is sent back every time.
HandshakeAccepted_Confirms(m, ok) ==
  LET e == m.to
      packet == create_crypto_handshake(e, conn[e].session, m.reply, m.cookie.dht)
  IN  /\ conn' = [conn EXCEPT ![e] = [WithHandshake(@, packet, ok) EXCEPT
                    !.peer = m.session, !.status = "Established"]]
      /\ msgs' = msgs \cup Sent(ok, packet)
      /\ keys' = keys \cup {<<conn[e].session, m.session>>}
      /\ UNCHANGED <<epoch, opened>>

HandshakeAccepted_Silent(m, ok) ==
  /\ conn' = [conn EXCEPT ![m.to].peer = m.session, ![m.to].status = "NotConfirmed"]
  /\ keys' = keys \cup {<<conn[m.to].session, m.session>>}
  /\ UNCHANGED <<epoch, opened, msgs>>

HandshakeAccepted_AnswersAll(m, ok) ==
  LET e == m.to
      packet == create_crypto_handshake(e, conn[e].session, m.reply, m.cookie.dht)
  IN  /\ conn' = [conn EXCEPT ![e] = [WithHandshake(@, packet, ok) EXCEPT
                    !.peer = m.session, !.status = "NotConfirmed"]]
      /\ msgs' = msgs \cup Sent(ok, packet)
      /\ keys' = keys \cup {<<conn[e].session, m.session>>}
      /\ UNCHANGED <<epoch, opened>>

\* handle_packet_connection, NET_PACKET_CRYPTO_HS: the handshake came from an
\* address, or through a relay, that belongs to the connection.  If it shows
\* another DHT key, dht_pk_callback of friend_connection.c replaces the
\* connection by one to that key.
HandshakeAccepted(m, ok) ==
  LET e == m.to
      packet == create_crypto_handshake(e, conn[e].session, m.reply, m.cookie.dht)
      answers == conn[e].status = "CookieRequesting"
      answered == IF answers THEN WithHandshake(conn[e], packet, ok) ELSE conn[e]
  IN  /\ conn' = [conn EXCEPT ![e] =
                    [answered EXCEPT !.peer = m.session, !.status = "NotConfirmed"]]
      /\ msgs' = msgs \cup (IF answers THEN Sent(ok, packet) ELSE {})
      /\ keys' = keys \cup {<<conn[e].session, m.session>>}
      /\ UNCHANGED <<epoch, opened>>

HandshakeOtherDht(m) ==
  /\ opened < MaxSessions
  /\ conn' = [conn EXCEPT ![m.to] = Requesting(m.to, opened + 1, m.cookie.dht)]
  /\ opened' = opened + 1
  /\ UNCHANGED <<epoch, msgs, keys>>

\* Mutant of HandleHandshake: the DHT key in the cookie is not compared.
HandleHandshake_AnyDht(m, ok) ==
  /\ IsValidHandshake(m)
  /\ HalfOpen(m.to)
  /\ HandshakeAccepted(m, ok)

HandleHandshake(m, ok) ==
  LET e == m.to
  IN  /\ IsValidHandshake(m)
      /\ HalfOpen(e)
      /\ IF m.cookie.dht = conn[e].dht
           THEN HandshakeAccepted(m, ok)
           ELSE HandshakeOtherDht(m)

\* handle_new_connection_handshake: the handshake came from an unknown address
\* or out of band through a relay.
NewHandshakeAccepted(m, ok) ==
  LET e == m.to
      packet == create_crypto_handshake(e, conn[e].session, m.reply, m.cookie.dht)
  IN  /\ conn[e].status \in {"CookieRequesting", "HandshakeSent"}
      /\ m.cookie.dht = conn[e].dht
      /\ conn' = [conn EXCEPT ![e] = [WithHandshake(@, packet, ok) EXCEPT
                    !.peer = m.session, !.status = "NotConfirmed"]]
      /\ msgs' = msgs \cup Sent(ok, packet)
      /\ keys' = keys \cup {<<conn[e].session, m.session>>}
      /\ UNCHANGED <<epoch, opened>>

\* There is no connection, or one to another DHT key, which is killed first:
\* the callback (handle_new_connections) calls accept_crypto_connection.  It
\* sends its handshake before it has an address or a relay to send to, which
\* fails: the first one that is sent is that of send_crypto_packets.
accept_crypto_connection(m, ok) ==
  LET e == m.to
      s == opened + 1
      packet == create_crypto_handshake(e, s, m.reply, m.cookie.dht)
  IN  /\ conn[e].status = "NoConnection" \/ m.cookie.dht # conn[e].dht
      /\ opened < MaxSessions
      /\ opened' = s
      /\ conn' = [conn EXCEPT ![e] =
                    [status |-> "NotConfirmed", session |-> s, peer |-> m.session,
                     dht |-> m.cookie.dht, temp |-> packet, num_sent |-> 0]]
      /\ msgs' = msgs \cup KillPackets(e, ok)
      /\ keys' = keys \cup {<<s, m.session>>}
      /\ UNCHANGED epoch

handle_new_connection_handshake(m, ok) ==
  /\ IsValidHandshake(m)
  /\ NewHandshakeAccepted(m, ok) \/ accept_crypto_connection(m, ok)

\* A data packet decrypts with the key and the nonce of its sender.
CanOpen(e, m) ==
  /\ conn[e].status \in {"NotConfirmed", "Established"}
  /\ m.key = conn[e].session
  /\ m.from = conn[e].peer

\* handle_data_packet_helper: the first packet that decrypts confirms the key
\* and ends the handshake.
HandleData(m) ==
  LET e == m.to
  IN  /\ m.type = "Request"
      /\ CanOpen(e, m)
      /\ conn' = IF conn[e].status = "NotConfirmed"
                   THEN [conn EXCEPT ![e].status = "Established",
                                     ![e].temp = NoPacket, ![e].num_sent = 0]
                   ELSE conn
      /\ UNCHANGED <<epoch, opened, msgs, keys>>

HandleKill(m, ok) ==
  LET e == m.to
  IN  /\ m.type = "Kill"
      /\ CanOpen(e, m)
      /\ conn' = [conn EXCEPT ![e] = NoConnection]
      /\ msgs' = msgs \cup KillPackets(e, ok)
      /\ UNCHANGED <<epoch, opened, keys>>

Handle(m, ok) ==
  \/ HandleCookieRequest(m)
  \/ HandleCookieResponse(m, ok)
  \/ HandleHandshake(m, ok)
  \/ handle_new_connection_handshake(m, ok)
  \/ HandleData(m)
  \/ HandleKill(m, ok)

Step ==
  \/ \E e \in Node :
       \/ \E dht \in 1 .. epoch[Peer(e)] : new_crypto_connection(e, dht)
       \/ \E ok \in BOOLEAN : crypto_kill(e, ok)
       \/ Restart(e)
       \/ kill_timedout(e)
       \/ \E temp, request, ok \in BOOLEAN : send_crypto_packets(e, temp, request, ok)
  \/ \E m \in msgs, ok \in BOOLEAN : Handle(m, ok)

Next == Step /\ UNCHANGED network

Spec == Init /\ [][Next]_vars

\* do_net_crypto runs for ever; what comes of a send, and of a packet that is
\* sent, is what the network promises.
do_net_crypto(e) ==
  /\ \/ kill_timedout(e)
     \/ network # "none" /\ send_crypto_packets(e, TRUE, TRUE, TRUE)
  /\ UNCHANGED network

Arrives(e, type) ==
  /\ network = "patient"
  /\ \E m \in msgs : m.to = e /\ m.type = type /\ Handle(m, TRUE)
  /\ UNCHANGED network

FairSpec ==
  /\ Spec
  /\ \A e \in Node :
       /\ WF_vars(do_net_crypto(e))
       /\ \A type \in {"CookieRequest", "CookieResponse", "Handshake", "Request"} :
            WF_vars(Arrives(e, type))

-----------------------------------------------------------------------------
Sessions == 0 .. MaxSessions

Epochs == 0 .. MaxEpoch

Cookies == [maker : Node, epoch : Epochs, dht : Epochs]

Packets ==
  [type : {"CookieRequest"}, to : Node, todht : Epochs, dht : Epochs, number : Sessions]
  \cup [type : {"CookieResponse"}, to : Node, todht : Epochs, dht : Epochs,
        number : Sessions, cookie : Cookies]
  \cup [type : {"Handshake"}, to : Node, cookie : Cookies, session : Sessions, reply : Cookies]
  \cup [type : {"Request", "Kill"}, to : Node, from : Sessions, key : Sessions]

Connections ==
  [status : HalfOpenStates \cup {"NoConnection", "Established"}, session : Sessions,
   peer : Sessions, dht : Epochs, temp : Packets \cup {NoPacket}, num_sent : 0 .. MaxTries]

\* The type invariant; it includes that no temp packet is sent more than
\* MAX_NUM_SENDPACKET_TRIES times.
TypeOK ==
  /\ conn \in [Node -> Connections]
  /\ epoch \in [Node -> 1 .. MaxEpoch]
  /\ opened \in Sessions
  /\ msgs \subseteq Packets
  /\ keys \subseteq Sessions \X Sessions
  /\ network \in Network

\* A connection that is established (handle_data_packet_helper reports it
\* online) uses a key that the peer's session has computed as well.
KeyConfirmed ==
  \A e \in Node :
    conn[e].status = "Established" => <<conn[e].peer, conn[e].session>> \in keys

\* A connection that has a key names, as the peer's DHT key, the DHT key of the
\* very incarnation that session belongs to, although handshakes of earlier
\* incarnations may still arrive and the two keys travel in different packets:
\* packets for the friend are not routed towards a node that is gone
\* (handle_packet_connection, handle_new_connection_handshake).
IncarnationOf(e, session, dht) ==
  \E m \in msgs : /\ m.type = "Handshake"
                 /\ m.to = Peer(e)
                 /\ m.session = session
                 /\ m.reply.epoch = dht

DhtKeyMatchesSession ==
  \A e \in Node :
    conn[e].status \in {"NotConfirmed", "Established"} =>
      IncarnationOf(Peer(e), conn[e].peer, conn[e].dht)

\* Established sessions share their key and connections know whose DHT key they
\* route to.
SessionsAgree == TypeOK /\ KeyConfirmed /\ DhtKeyMatchesSession

\* No connection that has a route hangs half open: kill_timedout ends it unless
\* it becomes established, whatever packets arrive and however often.  Without
\* a route it does hang: send_temp_packet counts no send that fails.
NoHalfOpenForever ==
  \A e \in Node : \A s \in 1 .. MaxSessions :
    (network # "none" /\ HalfOpen(e) /\ conn[e].session = s)
      ~> ~ (HalfOpen(e) /\ conn[e].session = s)

\* With patience, once one side has opened a connection both sides become and
\* stay established on the same key, also if both open at the same time and
\* whatever order the packets come in.
BothEstablished ==
  /\ \A e \in Node : conn[e].status = "Established"
  /\ conn[Alice].peer = conn[Bob].session
  /\ conn[Bob].peer = conn[Alice].session

OpenLeadsToEstablished ==
  (network = "patient" /\ \E e \in Node : conn[e].status # "NoConnection") ~> [] BothEstablished

\* Every handshake with a route ends: established on both sides, or killed.
HandshakesEnd == NoHalfOpenForever /\ OpenLeadsToEstablished

=============================================================================
