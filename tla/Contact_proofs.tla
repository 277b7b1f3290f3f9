---------------------------- MODULE Contact_proofs ---------------------------
(***************************************************************************)
(* Getting in touch with a friend: the holes that are punched on the way   *)
(* to him, the friend requests of those who want to be friends, and the    *)
(* handshake that opens a crypto connection.                               *)
(*                                                                         *)
(* The handshake, for any number of sessions, restarts and tries.          *)
(* SessionsAgree is not inductive: what an end believes rests on packets   *)
(* that may be as old as the network.  The invariant HsInv says of every   *)
(* packet, sent or still waiting to be sent as temp_packet, what its maker *)
(* knew: a cookie response and the two cookies of a handshake name the     *)
(* same pair of incarnations, and a data packet was encrypted with a key   *)
(* its sender had computed; and it ties the connections to the keys.       *)
(*                                                                         *)
(* PunchingInv counts the answers to NAT pings that were accepted, of      *)
(* which one may still wait for do_NAT, and says that the turns of         *)
(* punch_holes since the ports changed have all been tried; a port at a    *)
(* distance has its turn (TurnOfPort).                                     *)
(*                                                                         *)
(* RequestsInv says what the list of friend requests holds: the last ones  *)
(* that were shown, the last of them at the index, so that the request     *)
(* that is overwritten is the one that was shown MAX_RECEIVED_STORED       *)
(* requests before.                                                        *)
(***************************************************************************)
EXTENDS CryptoHandshake, DhtNat, Savedata, SequenceTheorems, FiniteSetTheorems, TLAPS

-----------------------------------------------------------------------------
(* The handshake.                                                          *)

\* Node e has made the cookie in its incarnation made, for incarnation dht of
\* its peer.
IsCookie(c, e, made, dht) == c.maker = e /\ c.epoch = made /\ c.dht = dht

HonestResponse(m) == IsCookie(m.cookie, Peer(m.to), m.dht, m.todht)

\* m.cookie came from m.to, m.reply is its maker's own.
HonestHandshake(m) ==
  /\ IsCookie(m.cookie, m.to, m.reply.dht, m.reply.epoch)
  /\ m.reply.maker = Peer(m.to)

\* known are the pairs of sessions that have a key.
Honest(m, known) ==
  /\ m.type = "CookieResponse" => HonestResponse(m)
  /\ m.type = "Handshake" => HonestHandshake(m)
  /\ m.type \in {"Request", "Kill"} => <<m.from, m.key>> \in known

HonestTemp(p) ==
  \/ p = NoPacket
  \/ p.type = "CookieRequest"
  \/ p.type = "Handshake" /\ HonestHandshake(p)

\* A handshake in sent shows that session has the incarnation dht.
Shown(e, sent, session, dht) ==
  \E m \in sent : /\ m.type = "Handshake" /\ m.to = e
                  /\ m.session = session /\ m.reply.epoch = dht

\* What holds of the connection c of node e.
IsSound(e, c, known, sent) ==
  /\ c \in Connections
  /\ HonestTemp(c.temp)
  /\ c.status \in {"NotConfirmed", "Established"} =>
       <<c.session, c.peer>> \in known /\ Shown(e, sent, c.peer, c.dht)
  /\ c.status = "Established" => <<c.peer, c.session>> \in known

HsInv ==
  /\ TypeOK
  /\ \A m \in msgs : Honest(m, keys)
  /\ \A e \in Node : IsSound(e, conn[e], keys, msgs)

LEMMA PeerOfPeer == \A e \in Node : Peer(e) \in Node /\ Peer(Peer(e)) = e
  BY NodeAssumption DEF Node, Peer

-----------------------------------------------------------------------------
(* The packets a node makes are packets.                                   *)

LEMMA CookieType ==
  ASSUME TypeOK, NEW e \in Node, NEW dht \in Epochs
  PROVE  Cookie(e, dht) \in Cookies
  BY BoundsAssumption DEF TypeOK, Cookie, Cookies, Epochs

LEMMA RequestType ==
  ASSUME TypeOK, NEW e \in Node, NEW session \in Sessions, NEW dht \in Epochs
  PROVE  create_cookie_request(e, session, dht) \in Packets
<1>1. epoch[e] \in Epochs /\ Peer(e) \in Node
  BY BoundsAssumption, PeerOfPeer DEF TypeOK, Epochs
<1> QED
  BY <1>1 DEF create_cookie_request, Packets

LEMMA ResponseType ==
  ASSUME TypeOK, NEW e \in Node, NEW m \in Packets, m.type = "CookieRequest"
  PROVE  create_cookie_response(e, m) \in Packets
<1>1. epoch[e] \in Epochs /\ Peer(e) \in Node
  BY BoundsAssumption, PeerOfPeer DEF TypeOK, Epochs
<1>2. m.dht \in Epochs /\ m.number \in Sessions
  BY DEF Packets
<1>3. Cookie(e, m.dht) \in Cookies
  BY <1>2, CookieType
<1> QED
  BY <1>1, <1>2, <1>3 DEF create_cookie_response, Packets

LEMMA HandshakeType ==
  ASSUME TypeOK, NEW e \in Node, NEW session \in Sessions, NEW cookie \in Cookies,
         NEW dht \in Epochs
  PROVE  create_crypto_handshake(e, session, cookie, dht) \in Packets
<1>1. Cookie(e, dht) \in Cookies /\ Peer(e) \in Node
  BY CookieType, PeerOfPeer
<1> QED
  BY <1>1 DEF create_crypto_handshake, Packets

LEMMA DataType ==
  ASSUME TypeOK, NEW e \in Node, NEW kind \in {"Request", "Kill"}
  PROVE  DataPacket(e, kind) \in Packets
<1>1. Peer(e) \in Node /\ conn[e].session \in Sessions /\ conn[e].peer \in Sessions
  BY PeerOfPeer DEF TypeOK, Connections
<1> QED
  BY <1>1 DEF DataPacket, Packets

LEMMA InvariantAgrees == HsInv => SessionsAgree
<1> SUFFICES ASSUME HsInv PROVE SessionsAgree
  OBVIOUS
<1>1. \A e \in Node : Shown(e, msgs, conn[e].peer, conn[e].dht)
                      => IncarnationOf(Peer(e), conn[e].peer, conn[e].dht)
  BY PeerOfPeer DEF IncarnationOf, Shown
<1> QED
  BY <1>1 DEF HsInv, SessionsAgree, KeyConfirmed, DhtKeyMatchesSession, IsSound

LEMMA InitHsInv == Init => HsInv
<1> SUFFICES ASSUME Init PROVE HsInv
  OBVIOUS
<1>1. NoConnection \in Connections
  BY TriesAssumption, BoundsAssumption
  DEF NoConnection, Connections, HalfOpenStates, Sessions, Epochs
<1>2. TypeOK
  <2>1. conn \in [Node -> Connections]
    BY <1>1 DEF Init
  <2>2. network \in Network
    BY NetworksAssumption DEF Init
  <2>3. epoch \in [Node -> 1 .. MaxEpoch] /\ opened \in Sessions
    BY BoundsAssumption DEF Init, Sessions
  <2> QED
    BY <2>1, <2>2, <2>3 DEF Init, TypeOK
<1>3. \A m \in msgs : Honest(m, keys)
  BY DEF Init
<1>4. \A e \in Node : IsSound(e, conn[e], keys, msgs)
  BY <1>1 DEF Init, NoConnection, IsSound, HonestTemp
<1> QED
  BY <1>2, <1>3, <1>4 DEF HsInv

-----------------------------------------------------------------------------
(* Every step replaces the connection of one node by some c, sends some    *)
(* packets and adds to the keys.  What has to be shown of c, of the        *)
(* packets and of the keys for the invariant to hold afterwards:           *)

LEMMA StepIsSound ==
  ASSUME HsInv, NEW e \in Node, NEW c, NEW P,
         conn' = [conn EXCEPT ![e] = c],
         msgs' = msgs \cup P, P \subseteq Packets,
         keys \subseteq keys', keys' \subseteq Sessions \X Sessions,
         epoch' \in [Node -> 1 .. MaxEpoch], opened' \in Sessions, network' = network,
         \A m \in P : Honest(m, keys'),
         IsSound(e, c, keys', msgs')
  PROVE  HsInv'
<1>0. /\ TypeOK
      /\ \A m \in msgs : Honest(m, keys)
      /\ \A d \in Node : IsSound(d, conn[d], keys, msgs)
  BY DEF HsInv
<1>1. TypeOK'
  <2>1. c \in Connections
    BY DEF IsSound
  <2>2. conn' \in [Node -> Connections]
    BY <1>0, <2>1 DEF TypeOK
  <2>3. msgs' \subseteq Packets
    BY <1>0 DEF TypeOK
  <2>4. network' \in Network
    BY <1>0 DEF TypeOK
  <2> QED
    BY <2>2, <2>3, <2>4 DEF TypeOK
<1>2. \A m \in msgs' : Honest(m, keys')
  BY <1>0 DEF Honest
<1>3. ASSUME NEW d \in Node PROVE IsSound(d, conn'[d], keys', msgs')
  <2>1. CASE d = e
    BY <2>1, <1>0 DEF TypeOK
  <2>2. CASE d # e
    <3>1. conn'[d] = conn[d]
      BY <2>2, <1>0 DEF TypeOK
    <3>2. IsSound(d, conn[d], keys, msgs)
      BY <1>0
    <3> QED
      BY ONLY <3>1, <3>2, keys \subseteq keys', msgs' = msgs \cup P DEF IsSound, Shown
  <2> QED
    BY <2>1, <2>2
<1> QED
  BY <1>1, <1>2, <1>3 DEF HsInv

\* NoConnection is sound for any node, and so is a connection that only asks
\* for a cookie.
LEMMA NoConnectionIsSound ==
  \A e, known, sent : IsSound(e, NoConnection, known, sent)
  BY TriesAssumption, BoundsAssumption
  DEF NoConnection, IsSound, HonestTemp, Connections, HalfOpenStates, Sessions, Epochs

LEMMA RequestingIsSound ==
  ASSUME TypeOK, NEW e \in Node, NEW session \in Sessions, NEW dht \in Epochs,
         NEW known, NEW sent
  PROVE  IsSound(e, Requesting(e, session, dht), known, sent)
<1> DEFINE c == Requesting(e, session, dht)
<1>1. create_cookie_request(e, session, dht) \in Packets
  BY RequestType
<1>2. c \in Connections
  BY <1>1, TriesAssumption, BoundsAssumption
  DEF Requesting, Connections, HalfOpenStates, Sessions, Epochs
<1>3. HonestTemp(c.temp)
  BY DEF Requesting, HonestTemp, create_cookie_request
<1> QED
  BY <1>2, <1>3 DEF Requesting, IsSound

\* crypto_kill of an established connection uses a key it has.
LEMMA KillPacketsAreHonest ==
  ASSUME HsInv, NEW e \in Node, NEW ok \in BOOLEAN, NEW known, keys \subseteq known
  PROVE  /\ KillPackets(e, ok) \subseteq Packets
         /\ \A m \in KillPackets(e, ok) : Honest(m, known)
<1>1. DataPacket(e, "Kill") \in Packets
  BY DataType DEF HsInv
<1>2. ASSUME conn[e].status = "Established" PROVE Honest(DataPacket(e, "Kill"), known)
  <2>1. <<conn[e].session, conn[e].peer>> \in keys
    BY <1>2 DEF HsInv, IsSound
  <2> QED
    BY <2>1 DEF DataPacket, Honest
<1> QED
  BY <1>1, <1>2 DEF KillPackets, Sent

\* The connection is dropped, with or without a packet to the peer: crypto_kill,
\* kill_timedout, a restart, a kill packet from the peer.
LEMMA DropIsSound ==
  ASSUME HsInv, NEW e \in Node, NEW P,
         conn' = [conn EXCEPT ![e] = NoConnection],
         msgs' = msgs \cup P, P \subseteq Packets, \A m \in P : Honest(m, keys),
         keys' = keys, epoch' \in [Node -> 1 .. MaxEpoch], opened' = opened,
         network' = network
  PROVE  HsInv'
<1>1. IsSound(e, NoConnection, keys', msgs')
  BY NoConnectionIsSound
<1>2. keys' \subseteq Sessions \X Sessions /\ opened' \in Sessions
  BY DEF HsInv, TypeOK
<1> QED
  BY <1>1, <1>2, StepIsSound

\* A new connection that asks for a cookie.
LEMMA RequestStepIsSound ==
  ASSUME HsInv, NEW e \in Node, NEW dht \in Epochs, opened < MaxSessions,
         conn' = [conn EXCEPT ![e] = Requesting(e, opened + 1, dht)],
         opened' = opened + 1, UNCHANGED <<epoch, msgs, keys>>, network' = network
  PROVE  HsInv'
<1>1. TypeOK /\ opened + 1 \in Sessions
  BY BoundsAssumption DEF HsInv, TypeOK, Sessions
<1>2. IsSound(e, Requesting(e, opened + 1, dht), keys', msgs')
  BY <1>1, RequestingIsSound
<1>3. /\ keys' \subseteq Sessions \X Sessions /\ keys \subseteq keys'
      /\ opened' \in Sessions /\ epoch' \in [Node -> 1 .. MaxEpoch]
  BY <1>1 DEF TypeOK
<1>4. PICK P : P = {}
  OBVIOUS
<1>5. msgs' = msgs \cup P /\ P \subseteq Packets /\ \A m \in P : Honest(m, keys')
  BY <1>4
<1>6. conn' = [conn EXCEPT ![e] = Requesting(e, opened + 1, dht)]
  OBVIOUS
<1> QED
  BY ONLY HsInv, e \in Node, network' = network, <1>2, <1>3, <1>5, <1>6, StepIsSound

\* A valid handshake m shows to its receiver, whose incarnation made m.cookie,
\* what the answer has to say.
LEMMA ValidHandshake ==
  ASSUME HsInv, NEW m \in msgs, IsValidHandshake(m)
  PROVE  /\ m \in Packets /\ m.to \in Node /\ m.session \in Sessions
         /\ m.cookie \in Cookies /\ m.reply \in Cookies /\ m.cookie.dht \in Epochs
         /\ Shown(m.to, msgs, m.session, m.cookie.dht)
         /\ \A session \in Sessions :
              LET packet == create_crypto_handshake(m.to, session, m.reply, m.cookie.dht)
              IN  packet \in Packets /\ packet.type = "Handshake" /\ HonestHandshake(packet)
<1>1. m.type = "Handshake" /\ m \in Packets /\ HonestHandshake(m)
  BY DEF HsInv, TypeOK, IsValidHandshake, Honest
<1>2. /\ m.to \in Node /\ m.session \in Sessions
      /\ m.cookie \in Cookies /\ m.reply \in Cookies
  BY <1>1 DEF Packets
<1>3. m.cookie.dht \in Epochs
  BY <1>2 DEF Cookies
<1>4. Shown(m.to, msgs, m.session, m.cookie.dht)
  BY <1>1 DEF Shown, HonestHandshake, IsCookie
<1>5. ASSUME NEW session \in Sessions
      PROVE  LET packet == create_crypto_handshake(m.to, session, m.reply, m.cookie.dht)
             IN  packet \in Packets /\ packet.type = "Handshake" /\ HonestHandshake(packet)
  <2>1. create_crypto_handshake(m.to, session, m.reply, m.cookie.dht) \in Packets
    BY <1>2, <1>3, HandshakeType DEF HsInv
  <2>2. m.cookie.epoch = epoch[m.to]
    BY DEF IsValidHandshake
  <2>3. Peer(m.to) \in Node /\ Peer(Peer(m.to)) = m.to
    BY <1>2, PeerOfPeer
  <2> QED
    BY <1>1, <2>1, <2>2, <2>3
    DEF create_crypto_handshake, HonestHandshake, IsCookie, Cookie
<1> QED
  BY <1>1, <1>2, <1>3, <1>4, <1>5

\* A handshake is accepted: the connection of its receiver becomes one of
\* session with the handshake's session, and may be answered by packet.
LEMMA AcceptIsSound ==
  ASSUME HsInv, NEW m \in msgs, IsValidHandshake(m), NEW session \in Sessions, NEW c, NEW P,
         c \in Connections, c.status = "NotConfirmed", c.session = session,
         c.peer = m.session, c.dht = m.cookie.dht, HonestTemp(c.temp),
         conn' = [conn EXCEPT ![m.to] = c],
         msgs' = msgs \cup P, P \subseteq Packets,
         keys' = keys \cup {<<session, m.session>>},
         \A p \in P : Honest(p, keys'),
         epoch' = epoch, opened' \in Sessions, network' = network
  PROVE  HsInv'
<1>1. m.to \in Node /\ m.session \in Sessions /\ Shown(m.to, msgs, m.session, m.cookie.dht)
  BY ValidHandshake
<1>2. keys \subseteq keys' /\ keys' \subseteq Sessions \X Sessions
  BY <1>1 DEF HsInv, TypeOK
<1>3. epoch' \in [Node -> 1 .. MaxEpoch]
  BY DEF HsInv, TypeOK
<1>4. Shown(m.to, msgs', c.peer, c.dht)
  BY <1>1 DEF Shown
<1>5. IsSound(m.to, c, keys', msgs')
  BY <1>4 DEF IsSound
<1> QED
  BY <1>1, <1>2, <1>3, <1>5, StepIsSound

\* What new_temp_packet and create_send_handshake leave in the connection.
LEMMA WithHandshakeType ==
  ASSUME NEW c \in Connections, NEW packet \in Packets, NEW ok \in BOOLEAN
  PROVE  LET d == WithHandshake(c, packet, ok)
         IN  /\ d \in Connections /\ d.temp = packet /\ d.session = c.session
             /\ d.dht = c.dht
<1>1. (IF ok THEN 1 ELSE 0) \in 0 .. MaxTries
  BY TriesAssumption
<1>2. packet \in Packets \cup {NoPacket}
  OBVIOUS
<1> QED
  BY ONLY <1>1, <1>2, c \in Connections DEF WithHandshake, Connections

-----------------------------------------------------------------------------
(* The actions.                                                            *)

LEMMA SendStep ==
  ASSUME HsInv, NEW e \in Node, NEW temp \in BOOLEAN, NEW request \in BOOLEAN,
         NEW ok \in BOOLEAN, send_crypto_packets(e, temp, request, ok), network' = network
  PROVE  HsInv'
<1> DEFINE tempSent == temp /\ conn[e].temp # NoPacket /\ ok
           isKeyed == conn[e].status \in {"NotConfirmed", "Established"}
           T == Sent(tempSent, conn[e].temp)
           R == IF request /\ isKeyed THEN Sent(ok, DataPacket(e, "Request")) ELSE {}
<1>1. /\ conn[e] \in Connections /\ conn \in [Node -> Connections]
      /\ IsSound(e, conn[e], keys, msgs)
  BY DEF HsInv, TypeOK
<1>2. PICK c : /\ conn' = [conn EXCEPT ![e] = c]
               /\ c = [conn[e] EXCEPT !.num_sent = c.num_sent] /\ c.num_sent \in 0 .. MaxTries
  <2>1. CASE tempSent /\ conn[e].num_sent < MaxTries
    <3> DEFINE c == [conn[e] EXCEPT !.num_sent = @ + 1]
    <3>1. conn' = [conn EXCEPT ![e] = c]
      BY <2>1, <1>1 DEF send_crypto_packets
    <3>2. c.num_sent \in 0 .. MaxTries /\ c = [conn[e] EXCEPT !.num_sent = c.num_sent]
      BY <2>1, <1>1, TriesAssumption DEF Connections
    <3> QED
      BY <3>1, <3>2
  <2>2. CASE ~ (tempSent /\ conn[e].num_sent < MaxTries)
    <3>1. conn' = [conn EXCEPT ![e] = conn[e]]
      BY <2>2, <1>1 DEF send_crypto_packets
    <3>2. conn[e].num_sent \in 0 .. MaxTries /\ conn[e] = [conn[e] EXCEPT !.num_sent = conn[e].num_sent]
      BY <1>1 DEF Connections
    <3> QED
      BY <3>1, <3>2
  <2> QED
    BY <2>1, <2>2
<1>3. PICK P : P = T \cup R
  OBVIOUS
<1>4. /\ msgs' = msgs \cup P /\ keys' = keys /\ epoch' = epoch /\ opened' = opened
  BY <1>3 DEF send_crypto_packets
<1>5. T \subseteq Packets /\ \A m \in T : Honest(m, keys)
  BY <1>1 DEF Sent, IsSound, HonestTemp, Honest, Connections
<1>6. R \subseteq Packets /\ \A m \in R : Honest(m, keys)
  <2>1. DataPacket(e, "Request") \in Packets
    BY DataType DEF HsInv
  <2>2. ASSUME isKeyed PROVE Honest(DataPacket(e, "Request"), keys)
    BY <1>1, <2>2 DEF IsSound, DataPacket, Honest
  <2> QED
    BY <2>1, <2>2 DEF Sent
<1>7. P \subseteq Packets /\ \A m \in P : Honest(m, keys')
  BY <1>3, <1>4, <1>5, <1>6
<1>8. IsSound(e, c, keys', msgs')
  <2>1. /\ c \in Connections /\ c.status = conn[e].status /\ c.temp = conn[e].temp
        /\ c.session = conn[e].session /\ c.peer = conn[e].peer /\ c.dht = conn[e].dht
    BY <1>1, <1>2 DEF Connections
  <2> QED
    BY ONLY <1>1, <1>4, <2>1 DEF IsSound, Shown
<1>9. /\ keys \subseteq keys' /\ keys' \subseteq Sessions \X Sessions
      /\ epoch' \in [Node -> 1 .. MaxEpoch] /\ opened' \in Sessions
  BY <1>4 DEF HsInv, TypeOK
<1>10. conn' = [conn EXCEPT ![e] = c]
  BY <1>2
<1> QED
  BY ONLY HsInv, e \in Node, network' = network, <1>4, <1>7, <1>8, <1>9, <1>10, StepIsSound

LEMMA CookieRequestStep ==
  ASSUME HsInv, NEW m \in msgs, HandleCookieRequest(m), network' = network
  PROVE  HsInv'
<1>1. m \in Packets /\ m.type = "CookieRequest" /\ m.to \in Node /\ TypeOK
  BY DEF HsInv, TypeOK, HandleCookieRequest, Packets
<1>2. PICK P : P = {create_cookie_response(m.to, m)}
  OBVIOUS
<1>3. P \subseteq Packets
  BY <1>1, <1>2, ResponseType
<1>4. \A p \in P : Honest(p, keys')
  BY <1>1, <1>2, PeerOfPeer
  DEF create_cookie_response, Honest, HonestResponse, IsCookie, Cookie
<1>5. /\ msgs' = msgs \cup P /\ keys' = keys /\ epoch' = epoch /\ opened' = opened
      /\ conn' = [conn EXCEPT ![m.to] = conn[m.to]]
  BY <1>1, <1>2 DEF HandleCookieRequest, TypeOK
<1>6. IsSound(m.to, conn[m.to], keys', msgs')
  BY <1>1, <1>5 DEF HsInv, IsSound, Shown
<1>7. /\ keys \subseteq keys' /\ keys' \subseteq Sessions \X Sessions
      /\ epoch' \in [Node -> 1 .. MaxEpoch] /\ opened' \in Sessions
  BY <1>1, <1>5 DEF TypeOK
<1> QED
  BY ONLY HsInv, network' = network, <1>1, <1>3, <1>4, <1>5, <1>6, <1>7, StepIsSound

LEMMA CookieResponseStep ==
  ASSUME HsInv, NEW m \in msgs, NEW ok \in BOOLEAN, HandleCookieResponse(m, ok),
         network' = network
  PROVE  HsInv'
<1> DEFINE e == m.to
           packet == create_crypto_handshake(e, conn[e].session, m.cookie, conn[e].dht)
           c == [WithHandshake(conn[e], packet, ok) EXCEPT !.status = "HandshakeSent"]
<1>1. /\ m \in Packets /\ m.type = "CookieResponse" /\ m.to \in Node /\ m.cookie \in Cookies
      /\ TypeOK /\ conn[e] \in Connections
  BY DEF HsInv, TypeOK, HandleCookieResponse, Packets
<1>2. conn[e].session \in Sessions /\ conn[e].dht \in Epochs
  BY <1>1 DEF Connections
<1>3. packet \in Packets /\ packet.type = "Handshake"
  BY <1>1, <1>2, HandshakeType DEF create_crypto_handshake
<1>4. HonestHandshake(packet)
  <2>1. HonestResponse(m)
    BY <1>1 DEF HsInv, Honest
  <2>2. m.todht = epoch[e] /\ m.dht = conn[e].dht
    BY DEF HandleCookieResponse
  <2>3. Peer(e) \in Node /\ Peer(Peer(e)) = e
    BY <1>1, PeerOfPeer
  <2> QED
    BY <2>1, <2>2, <2>3
    DEF HonestResponse, HonestHandshake, IsCookie, Cookie, create_crypto_handshake
<1> HIDE DEF packet
<1>5. c \in Connections /\ c.temp = packet /\ c.status = "HandshakeSent"
  <2>1. /\ WithHandshake(conn[e], packet, ok) \in Connections
        /\ WithHandshake(conn[e], packet, ok).temp = packet
    BY <1>1, <1>3, WithHandshakeType
  <2>2. "HandshakeSent" \in HalfOpenStates
    BY DEF HalfOpenStates
  <2> QED
    BY <2>1, <2>2 DEF Connections
<1>6. IsSound(e, c, keys', msgs')
  BY <1>3, <1>4, <1>5 DEF IsSound, HonestTemp
<1>7. PICK P : P = Sent(ok, packet)
  OBVIOUS
<1>8. P \subseteq Packets /\ \A p \in P : Honest(p, keys')
  BY <1>3, <1>4, <1>7 DEF Sent, Honest
<1>9. /\ msgs' = msgs \cup P /\ keys' = keys /\ epoch' = epoch /\ opened' = opened
      /\ conn' = [conn EXCEPT ![e] = c]
  BY <1>1, <1>7 DEF HandleCookieResponse, TypeOK, packet
<1>10. /\ keys \subseteq keys' /\ keys' \subseteq Sessions \X Sessions
       /\ epoch' \in [Node -> 1 .. MaxEpoch] /\ opened' \in Sessions
  BY <1>1, <1>9 DEF TypeOK
<1> HIDE DEF c
<1> QED
  BY ONLY HsInv, network' = network, <1>1, <1>6, <1>8, <1>9, <1>10, StepIsSound

\* The three ways to accept a handshake.
LEMMA HandshakeAcceptedStep ==
  ASSUME HsInv, NEW m \in msgs, NEW ok \in BOOLEAN, IsValidHandshake(m),
         m.cookie.dht = conn[m.to].dht, HandshakeAccepted(m, ok), network' = network
  PROVE  HsInv'
<1> DEFINE e == m.to
           packet == create_crypto_handshake(e, conn[e].session, m.reply, m.cookie.dht)
           answers == conn[e].status = "CookieRequesting"
           answered == IF answers THEN WithHandshake(conn[e], packet, ok) ELSE conn[e]
           c == [answered EXCEPT !.peer = m.session, !.status = "NotConfirmed"]
<1>1. e \in Node /\ m.session \in Sessions
  BY ValidHandshake
<1>2. /\ conn[e] \in Connections /\ conn[e].session \in Sessions /\ opened \in Sessions
      /\ HonestTemp(conn[e].temp)
  BY <1>1 DEF HsInv, TypeOK, Connections, IsSound
<1>3. packet \in Packets /\ packet.type = "Handshake" /\ HonestHandshake(packet)
  BY <1>2, ValidHandshake
<1>4. PICK P : P = IF answers THEN Sent(ok, packet) ELSE {}
  OBVIOUS
<1>5. /\ conn' = [conn EXCEPT ![e] = c] /\ msgs' = msgs \cup P
      /\ keys' = keys \cup {<<conn[e].session, m.session>>}
      /\ epoch' = epoch /\ opened' = opened
  BY <1>4 DEF HandshakeAccepted
<1>6. P \subseteq Packets /\ \A p \in P : Honest(p, keys')
  BY <1>3, <1>4 DEF Sent, Honest
<1> HIDE DEF packet
<1>7. /\ answered \in Connections /\ HonestTemp(answered.temp)
      /\ answered.session = conn[e].session /\ answered.dht = conn[e].dht
  <2>1. /\ WithHandshake(conn[e], packet, ok) \in Connections
        /\ WithHandshake(conn[e], packet, ok).temp = packet
        /\ WithHandshake(conn[e], packet, ok).session = conn[e].session
        /\ WithHandshake(conn[e], packet, ok).dht = conn[e].dht
    BY <1>2, <1>3, WithHandshakeType
  <2> QED
    BY <1>2, <1>3, <2>1 DEF HonestTemp
<1> HIDE DEF answered
<1>8. /\ c \in Connections /\ c.status = "NotConfirmed" /\ c.session = conn[e].session
      /\ c.peer = m.session /\ c.dht = m.cookie.dht /\ HonestTemp(c.temp)
  BY <1>1, <1>7 DEF Connections, HalfOpenStates
<1> HIDE DEF c
<1> QED
  BY ONLY HsInv, m \in msgs, IsValidHandshake(m), network' = network, <1>2, <1>5, <1>6, <1>8,
     AcceptIsSound

LEMMA NewHandshakeStep ==
  ASSUME HsInv, NEW m \in msgs, NEW ok \in BOOLEAN, IsValidHandshake(m),
         NewHandshakeAccepted(m, ok), network' = network
  PROVE  HsInv'
<1> DEFINE e == m.to
           packet == create_crypto_handshake(e, conn[e].session, m.reply, m.cookie.dht)
           c == [WithHandshake(conn[e], packet, ok) EXCEPT
                   !.peer = m.session, !.status = "NotConfirmed"]
<1>1. e \in Node /\ m.session \in Sessions
  BY ValidHandshake
<1>2. /\ conn[e] \in Connections /\ conn[e].session \in Sessions /\ opened \in Sessions
      /\ conn \in [Node -> Connections]
  BY <1>1 DEF HsInv, TypeOK, Connections
<1>3. packet \in Packets /\ packet.type = "Handshake" /\ HonestHandshake(packet)
  BY <1>2, ValidHandshake
<1>4. PICK P : P = Sent(ok, packet)
  OBVIOUS
<1>5. /\ conn' = [conn EXCEPT ![e] = c] /\ msgs' = msgs \cup P
      /\ keys' = keys \cup {<<conn[e].session, m.session>>}
      /\ epoch' = epoch /\ opened' = opened /\ m.cookie.dht = conn[e].dht
  BY <1>1, <1>2, <1>4 DEF NewHandshakeAccepted
<1>6. P \subseteq Packets /\ \A p \in P : Honest(p, keys')
  BY <1>3, <1>4 DEF Sent, Honest
<1> HIDE DEF packet
<1>7. /\ WithHandshake(conn[e], packet, ok) \in Connections
      /\ WithHandshake(conn[e], packet, ok).temp = packet
      /\ WithHandshake(conn[e], packet, ok).session = conn[e].session
      /\ WithHandshake(conn[e], packet, ok).dht = m.cookie.dht
  BY <1>2, <1>3, <1>5, WithHandshakeType
<1>8. /\ c \in Connections /\ c.status = "NotConfirmed" /\ c.session = conn[e].session
      /\ c.peer = m.session /\ c.dht = m.cookie.dht /\ HonestTemp(c.temp)
  BY <1>1, <1>3, <1>7 DEF Connections, HalfOpenStates, HonestTemp
<1> HIDE DEF c
<1> QED
  BY ONLY HsInv, m \in msgs, IsValidHandshake(m), network' = network, <1>2, <1>5, <1>6, <1>8,
     AcceptIsSound

LEMMA AcceptStep ==
  ASSUME HsInv, NEW m \in msgs, NEW ok \in BOOLEAN, IsValidHandshake(m),
         accept_crypto_connection(m, ok), network' = network
  PROVE  HsInv'
<1> DEFINE e == m.to
           s == opened + 1
           packet == create_crypto_handshake(e, s, m.reply, m.cookie.dht)
           c == [status |-> "NotConfirmed", session |-> s, peer |-> m.session,
                 dht |-> m.cookie.dht, temp |-> packet, num_sent |-> 0]
<1>1. e \in Node /\ m.session \in Sessions /\ m.cookie.dht \in Epochs
  BY ValidHandshake
<1>2. s \in Sessions
  BY BoundsAssumption DEF HsInv, TypeOK, Sessions, accept_crypto_connection
<1>3. packet \in Packets /\ packet.type = "Handshake" /\ HonestHandshake(packet)
  BY <1>2, ValidHandshake
<1>4. PICK P : P = KillPackets(e, ok)
  OBVIOUS
<1>5. /\ conn' = [conn EXCEPT ![e] = c] /\ msgs' = msgs \cup P
      /\ keys' = keys \cup {<<s, m.session>>} /\ epoch' = epoch /\ opened' = s
  BY <1>4 DEF accept_crypto_connection
<1>6. P \subseteq Packets /\ \A p \in P : Honest(p, keys')
  <2>1. keys \subseteq keys'
    BY <1>5
  <2> QED
    BY <1>1, <1>4, <2>1, KillPacketsAreHonest
<1> HIDE DEF packet, s
<1>8. /\ c \in Connections /\ c.temp = packet /\ c.session = s /\ c.dht = m.cookie.dht
  BY <1>1, <1>2, <1>3, TriesAssumption DEF Connections, HalfOpenStates
<1>9. c.peer = m.session /\ c.status = "NotConfirmed"
  OBVIOUS
<1>10. HonestTemp(c.temp)
  BY <1>3, <1>8 DEF HonestTemp
<1>11. opened' \in Sessions
  BY <1>2, <1>5
<1> HIDE DEF c
<1> QED
  BY ONLY HsInv, m \in msgs, IsValidHandshake(m), network' = network, <1>2, <1>5, <1>6, <1>8,
     <1>9, <1>10, <1>11, AcceptIsSound

\* The first data packet confirms the key: it was encrypted by a session that
\* had computed the same key.
LEMMA DataStep ==
  ASSUME HsInv, NEW m \in msgs, HandleData(m), network' = network
  PROVE  HsInv'
<1> DEFINE e == m.to
           confirmed == [conn[e] EXCEPT !.status = "Established", !.temp = NoPacket,
                                        !.num_sent = 0]
           c == IF conn[e].status = "NotConfirmed" THEN confirmed ELSE conn[e]
<1>1. /\ m \in Packets /\ m.type = "Request" /\ m.to \in Node
      /\ conn[e] \in Connections /\ conn \in [Node -> Connections]
      /\ IsSound(e, conn[e], keys, msgs)
  BY DEF HsInv, TypeOK, HandleData, Packets
<1>2. /\ conn[e].status \in {"NotConfirmed", "Established"}
      /\ <<conn[e].peer, conn[e].session>> \in keys
  BY <1>1 DEF HandleData, CanOpen, HsInv, Honest
<1>3. /\ conn' = [conn EXCEPT ![e] = c] /\ keys' = keys /\ msgs' = msgs
      /\ epoch' = epoch /\ opened' = opened
  BY <1>1 DEF HandleData
<1>4. /\ c \in Connections /\ HonestTemp(c.temp) /\ c.status = "Established"
      /\ c.session = conn[e].session /\ c.peer = conn[e].peer /\ c.dht = conn[e].dht
  <2>1. CASE conn[e].status = "NotConfirmed"
    <3>1. c = confirmed /\ 0 \in 0 .. MaxTries
      BY <2>1, TriesAssumption
    <3>2. confirmed \in Connections /\ confirmed.temp = NoPacket
      BY ONLY <1>1, <3>1 DEF Connections
    <3> QED
      BY <1>1, <3>1, <3>2 DEF Connections, HonestTemp
  <2>2. CASE conn[e].status # "NotConfirmed"
    BY <1>1, <1>2, <2>2 DEF IsSound
  <2> QED
    BY <2>1, <2>2
<1>5. IsSound(e, c, keys', msgs')
  BY ONLY <1>1, <1>2, <1>3, <1>4 DEF IsSound
<1>6. PICK P : P = {}
  OBVIOUS
<1>7. msgs' = msgs \cup P /\ P \subseteq Packets /\ \A p \in P : Honest(p, keys')
  BY <1>3, <1>6
<1>8. /\ keys \subseteq keys' /\ keys' \subseteq Sessions \X Sessions
      /\ epoch' \in [Node -> 1 .. MaxEpoch] /\ opened' \in Sessions
  BY <1>3 DEF HsInv, TypeOK
<1> HIDE DEF c
<1> QED
  BY ONLY HsInv, network' = network, <1>1, <1>3, <1>5, <1>7, <1>8, StepIsSound

LEMMA HandleStep ==
  ASSUME HsInv, NEW m \in msgs, NEW ok \in BOOLEAN, Handle(m, ok), network' = network
  PROVE  HsInv'
<1>1. CASE HandleCookieRequest(m)
  BY <1>1, CookieRequestStep
<1>2. CASE HandleCookieResponse(m, ok)
  BY <1>2, CookieResponseStep
<1>3. CASE HandleHandshake(m, ok)
  <2>1. CASE m.cookie.dht = conn[m.to].dht
    BY <1>3, <2>1, HandshakeAcceptedStep DEF HandleHandshake
  <2>2. CASE m.cookie.dht # conn[m.to].dht
    <3>1. IsValidHandshake(m) /\ HandshakeOtherDht(m)
      BY <1>3, <2>2 DEF HandleHandshake
    <3>2. m.to \in Node /\ m.cookie.dht \in Epochs
      BY <3>1, ValidHandshake
    <3> QED
      BY <3>1, <3>2, RequestStepIsSound DEF HandshakeOtherDht
  <2> QED
    BY <2>1, <2>2
<1>4. CASE handle_new_connection_handshake(m, ok)
  BY <1>4, NewHandshakeStep, AcceptStep DEF handle_new_connection_handshake
<1>5. CASE HandleData(m)
  BY <1>5, DataStep
<1>6. CASE HandleKill(m, ok)
  <2>1. m.to \in Node
    BY <1>6 DEF HsInv, TypeOK, HandleKill, Packets
  <2>2. /\ KillPackets(m.to, ok) \subseteq Packets
        /\ \A p \in KillPackets(m.to, ok) : Honest(p, keys)
    BY <2>1, KillPacketsAreHonest
  <2>3. epoch' \in [Node -> 1 .. MaxEpoch]
    BY <1>6 DEF HandleKill, HsInv, TypeOK
  <2> QED
    BY <1>6, <2>1, <2>2, <2>3, DropIsSound DEF HandleKill
<1> QED
  BY <1>1, <1>2, <1>3, <1>4, <1>5, <1>6 DEF Handle

LEMMA NextHsInv == HsInv /\ [Next]_vars => HsInv'
<1> SUFFICES ASSUME HsInv, [Next]_vars PROVE HsInv'
  OBVIOUS
<1>1. ASSUME NEW e \in Node, NEW dht \in 1 .. epoch[Peer(e)], new_crypto_connection(e, dht),
             network' = network
      PROVE  HsInv'
  <2>1. epoch[Peer(e)] \in 1 .. MaxEpoch
    BY PeerOfPeer DEF HsInv, TypeOK
  <2>2. dht \in Epochs
    BY <2>1, BoundsAssumption DEF Epochs
  <2> QED
    BY <1>1, <2>2, RequestStepIsSound DEF new_crypto_connection
<1>2. ASSUME NEW e \in Node, NEW ok \in BOOLEAN, crypto_kill(e, ok), network' = network
      PROVE  HsInv'
  <2>1. /\ KillPackets(e, ok) \subseteq Packets
        /\ \A p \in KillPackets(e, ok) : Honest(p, keys)
    BY KillPacketsAreHonest
  <2>2. epoch' \in [Node -> 1 .. MaxEpoch]
    BY <1>2 DEF crypto_kill, HsInv, TypeOK
  <2> QED
    BY <1>2, <2>1, <2>2, DropIsSound DEF crypto_kill
<1>3. ASSUME NEW e \in Node, Restart(e) \/ kill_timedout(e), network' = network
      PROVE  HsInv'
  <2>1. epoch' \in [Node -> 1 .. MaxEpoch]
    BY <1>3, BoundsAssumption DEF Restart, kill_timedout, HsInv, TypeOK
  <2>2. PICK P : P = {}
    OBVIOUS
  <2>3. /\ msgs' = msgs \cup P /\ P \subseteq Packets /\ \A m \in P : Honest(m, keys)
        /\ conn' = [conn EXCEPT ![e] = NoConnection] /\ keys' = keys /\ opened' = opened
    BY <1>3, <2>2 DEF Restart, kill_timedout
  <2> QED
    BY ONLY HsInv, e \in Node, <1>3, <2>1, <2>3, DropIsSound
<1>4. CASE UNCHANGED vars
  BY <1>4 DEF vars, HsInv, TypeOK, IsSound, Shown, Honest, HonestResponse, HonestHandshake,
              HonestTemp
<1> QED
  BY <1>1, <1>2, <1>3, <1>4, SendStep, HandleStep DEF Next, Step

-----------------------------------------------------------------------------

\* The two ends of an established connection computed the same key, and each
\* end that has a key routes to the incarnation the peer's session belongs to,
\* whatever old packets arrive, in any order and any number of times
\* (handle_packet_connection, handle_new_connection_handshake).
THEOREM HandshakesAgree == Spec => []SessionsAgree
<1>1. Init => HsInv
  BY InitHsInv
<1>2. HsInv /\ [Next]_vars => HsInv'
  BY NextHsInv
<1>3. HsInv => SessionsAgree
  BY InvariantAgrees
<1> QED
  BY <1>1, <1>2, <1>3, PTL DEF Spec

-----------------------------------------------------------------------------
(* Hole punching.                                                          *)

\* A multiple of d that is smaller is 0.
LEMMA SmallMultiple ==
  ASSUME NEW d \in Nat \ {0}, NEW k \in Int, NEW x \in Int, x = d * k, x < d, - x < d
  PROVE  x = 0
<1>1. CASE k >= 1
  <2>1. d * k = d + d * (k - 1) /\ d * (k - 1) >= 0
    BY <1>1
  <2> QED
    BY <2>1
<1>2. CASE k <= -1
  <2>1. d * (- k) = d + d * (- k - 1) /\ d * (- k - 1) >= 0
    BY <1>2
  <2>2. d * (- k) = - (d * k)
    OBVIOUS
  <2> QED
    BY <2>1, <2>2
<1>3. CASE k = 0
  BY <1>3
<1> QED
  BY <1>1, <1>2, <1>3

\* Quotient and remainder are the only ones.
LEMMA QuotientAndRemainder ==
  ASSUME NEW d \in Nat \ {0}, NEW q \in Nat, NEW r \in 0 .. d - 1, NEW x \in Nat, x = d * q + r
  PROVE  x \div d = q /\ x % d = r
<1>1. /\ x = d * (x \div d) + (x % d) /\ (x % d) \in 0 .. d - 1
      /\ x \div d \in Int
  BY Z3
<1>2. PICK p \in Int, s \in Int : p = x \div d /\ s = x % d
  BY <1>1
<1>3. x = d * p + s /\ s \in 0 .. d - 1
  BY <1>1, <1>2
<1>4. d * (q - p) = d * q - d * p /\ d * (q - p) \in Int /\ q - p \in Int
  OBVIOUS
<1>5. d * (q - p) = s - r
  BY <1>3, <1>4
<1>6. s - r = 0
  <2>1. s - r \in Int /\ s - r < d /\ - (s - r) < d
    BY <1>3
  <2> QED
    BY <1>4, <1>5, <2>1, SmallMultiple
<1>7. q = p
  <2>1. CASE q - p >= 1
    <3>1. d * (q - p) = d + d * (q - p - 1) /\ d * (q - p - 1) >= 0
      BY <2>1
    <3> QED
      BY <3>1, <1>5, <1>6
  <2>2. CASE q - p <= -1
    <3>1. d * (p - q) = d + d * (p - q - 1) /\ d * (p - q - 1) >= 0
      BY <2>2
    <3>2. d * (p - q) = - (d * (q - p))
      OBVIOUS
    <3> QED
      BY <3>1, <3>2, <1>5, <1>6
  <2> QED
    BY <2>1, <2>2
<1> QED
  BY <1>2, <1>6, <1>7, <1>3

\* The turns in which the port i is tried at the distance k.
LEMMA TurnOfPort ==
  ASSUME NEW ports, Len(ports) \in Nat, NEW i \in 1 .. Len(ports), NEW k \in Nat
  PROVE  LET j == 2 * Len(ports) * k + 2 * (i - 1)
         IN  /\ j \in Nat /\ 2 * Len(ports) * k <= j /\ j + 1 < 2 * Len(ports) * (k + 1)
             /\ Guess(ports, j) = (ports[i] + k) % PortWord
             /\ Guess(ports, j + 1) = (ports[i] - k) % PortWord
<1> DEFINE n == Len(ports)
           j == 2 * n * k + 2 * (i - 1)
<1>1. n \in Nat \ {0} /\ 2 * n \in Nat \ {0} /\ n * k \in Nat
  <2>1. n \in Nat \ {0}
    OBVIOUS
  <2> HIDE DEF n
  <2> QED
    BY <2>1
<1>2. PICK m \in Nat : m = n * k
  BY <1>1
<1>3. 2 * n * k = 2 * m /\ 2 * n * (k + 1) = 2 * m + 2 * n /\ (2 * n) * k = 2 * m
  <2> HIDE DEF n
  <2> QED
    BY <1>1, <1>2
<1>4. i \in 1 .. n
  OBVIOUS
<1>5. /\ j = 2 * m + 2 * (i - 1) /\ j \in Nat
      /\ 2 * n * k <= j /\ j + 1 < 2 * n * (k + 1)
  <2>1. j = 2 * m + 2 * (i - 1)
    BY <1>3
  <2> HIDE DEF j, n
  <2> QED
    BY <1>1, <1>3, <1>4, <2>1
<1>6. m + (i - 1) \in Nat /\ i - 1 \in 0 .. n - 1
  BY <1>1, <1>4
<1>7. j \div 2 = m + (i - 1) /\ j % 2 = 0
  <2>1. j = 2 * (m + (i - 1)) + 0
    BY <1>5
  <2> HIDE DEF j
  <2> QED
    BY <1>5, <1>6, <2>1, QuotientAndRemainder
<1>8. (j + 1) \div 2 = m + (i - 1) /\ (j + 1) % 2 = 1
  <2>1. PICK x \in Nat, q \in Nat : x = j + 1 /\ q = m + (i - 1)
    BY <1>5, <1>6
  <2>2. x = 2 * q + 1
    BY <1>5, <2>1
  <2>3. x \div 2 = q /\ x % 2 = 1
    BY <2>2, QuotientAndRemainder
  <2> QED
    BY <2>1, <2>3
<1>9. (m + (i - 1)) % n = i - 1
  <2>1. PICK x \in Nat, r \in 0 .. n - 1 : x = m + (i - 1) /\ r = i - 1
    BY <1>6
  <2>2. x = n * k + r
    BY <1>2, <2>1
  <2> HIDE DEF n
  <2>3. x % n = r
    BY <1>1, <2>2, QuotientAndRemainder
  <2> QED
    BY <2>1, <2>3
<1>10. j \div (2 * n) = k
  <2>1. j = (2 * n) * k + 2 * (i - 1)
    BY <1>5, <1>3
  <2>2. 2 * (i - 1) \in 0 .. 2 * n - 1
    BY <1>1, <1>4
  <2> HIDE DEF j, n
  <2> QED
    BY <1>1, <1>5, <2>1, <2>2, QuotientAndRemainder
<1>11. (j + 1) \div (2 * n) = k
  <2>1. 2 * (i - 1) + 1 \in 0 .. 2 * n - 1 /\ j + 1 \in Nat
    BY <1>1, <1>4, <1>5
  <2>2. PICK x \in Nat, r \in 0 .. 2 * n - 1, w \in Nat \ {0} : x = j + 1 /\ r = 2 * (i - 1) + 1 /\ w = 2 * n
    BY <1>1, <2>1
  <2>3. x = w * k + r /\ r \in 0 .. w - 1
    BY <1>3, <1>5, <2>2
  <2>4. x \div w = k
    BY <2>3, QuotientAndRemainder
  <2> QED
    BY <2>2, <2>4
<1>12. (i - 1) + 1 = i
  OBVIOUS
<1>13. Guess(ports, j) = (ports[i] + k) % PortWord
  <2> HIDE DEF j
  <2>1. ((j \div 2) % Len(ports)) + 1 = i
    BY <1>7, <1>9, <1>12
  <2>2. j \div (2 * Len(ports)) = k
    BY <1>10
  <2> QED
    BY <1>7, <2>1, <2>2 DEF Guess
<1>14. Guess(ports, j + 1) = (ports[i] - k) % PortWord
  <2> HIDE DEF j
  <2>1. (((j + 1) \div 2) % Len(ports)) + 1 = i
    BY <1>8, <1>9, <1>12
  <2>2. (j + 1) \div (2 * Len(ports)) = k
    BY <1>11
  <2> QED
    BY <1>8, <2>1, <2>2 DEF Guess
<1> QED
  BY <1>5, <1>13, <1>14

\* The lists of addresses and of ports have a length.
LEMMA ListsHaveLengths ==
  /\ DOMAIN friend_iplist = 1 .. Len(friend_iplist) /\ Len(friend_iplist) \in Nat
  /\ \A ip : Len(NAT_getports(friend_iplist, ip)) \in Nat
<1>1. ASSUME NEW f
      PROVE  DOMAIN Reported(f) = 1 .. Len(Reported(f)) /\ Len(Reported(f)) \in Nat
  <2> DEFINE good == {c \in 1 .. NatClients : IsReported(c, f)}
  <2>1. IsFiniteSet(1 .. NatClients)
    BY NatAssumption, FS_Interval
  <2>2. Cardinality(good) \in Nat
    BY <2>1, FS_Subset, FS_CardinalityType
  <2>3. Reported(f) = [i \in 1 .. Cardinality(good) |-> reports[Nth(good, i)][f].addr]
    BY DEF Reported
  <2> HIDE DEF good
  <2> QED
    BY <2>2, <2>3
<1>2. DOMAIN friend_iplist = 1 .. Len(friend_iplist) /\ Len(friend_iplist) \in Nat
  <2>1. DOMAIN << >> = 1 .. Len(<< >>) /\ Len(<< >>) \in Nat
    OBVIOUS
  <2> QED
    BY <1>1, <2>1 DEF friend_iplist
<1>3. ASSUME NEW ip
      PROVE  Len(NAT_getports(friend_iplist, ip)) \in Nat
  <2> DEFINE list == friend_iplist
             same == {j \in DOMAIN list : list[j].ip = ip}
  <2>1. IsFiniteSet(DOMAIN list)
    <3>1. 1 \in Int /\ Len(list) \in Int
      BY <1>2
    <3>2. IsFiniteSet(1 .. Len(list))
      BY <3>1, FS_Interval
    <3> QED
      BY <1>2, <3>2
  <2>2. Cardinality(same) \in Nat
    <3> HIDE DEF list
    <3> QED
      BY <2>1, FS_Subset, FS_CardinalityType
  <2>3. NAT_getports(list, ip) = [i \in 1 .. Cardinality(same) |-> list[Nth(same, i)].port]
    BY DEF NAT_getports
  <2> HIDE DEF list, same
  <2>4. Len(NAT_getports(list, ip)) \in Nat
    BY <2>2, <2>3
  <2> QED
    BY <2>4 DEF list
<1> QED
  BY <1>2, <1>3

NatRecord ==
  [hole_punching : BOOLEAN, index : Nat, index2 : Nat, tries : Nat, id : Nat \ {0},
   sentAge : Nat, punchAge : Nat, recvAge : Nat]

\* Answers that were accepted are to ids of the past, and all but the one that
\* waits for do_NAT have punched at most once.
AnswersInv ==
  /\ natSeen \subseteq 1 .. nat.id - 1
  /\ punched \in Nat
  /\ nat.hole_punching => punched + 1 <= Cardinality(natSeen)
  /\ ~nat.hole_punching => punched <= Cardinality(natSeen)

\* All that was to be tried since the ports changed has been tried.
GuessesInv ==
  /\ basis.from \in Nat /\ basis.from <= nat.index /\ Len(basis.ports) \in Nat
  /\ ~AllSame(basis.ports) => \A i \in basis.from .. nat.index - 1 : Guess(basis.ports, i) \in guessed

PunchingInv == nat \in NatRecord /\ AnswersInv /\ GuessesInv

LEMMA PunchingIsSound == PunchingInv => HolePunchingIsSound
<1> SUFFICES ASSUME PunchingInv PROVE PunchesAreAnswered /\ PortsAreTriedInTurn
  BY DEF HolePunchingIsSound
<1>1. PunchesAreAnswered
  <2>1. 1 \in Int /\ nat.id - 1 \in Int
    BY DEF PunchingInv, NatRecord
  <2>2. IsFiniteSet(natSeen)
    BY <2>1, FS_Interval, FS_Subset DEF PunchingInv, AnswersInv
  <2>3. Cardinality(natSeen) \in Nat
    BY <2>2, FS_CardinalityType
  <2> QED
    BY <2>3 DEF PunchingInv, AnswersInv, PunchesAreAnswered
<1>2. PortsAreTriedInTurn
  <2> DEFINE n == Len(basis.ports)
  <2> SUFFICES ASSUME ~AllSame(basis.ports), NEW i \in 1 .. n, NEW k \in 0 .. nat.index,
                      basis.from <= 2 * n * k, 2 * n * (k + 1) <= nat.index
               PROVE  {(basis.ports[i] + k) % PortWord, (basis.ports[i] - k) % PortWord} \subseteq guessed
    BY DEF PortsAreTriedInTurn
  <2>1. n \in Nat /\ nat.index \in Nat /\ k \in Nat /\ basis.from \in Nat
    BY DEF PunchingInv, GuessesInv, NatRecord
  <2>2. PICK j \in Nat : /\ 2 * n * k <= j /\ j + 1 < 2 * n * (k + 1)
                         /\ Guess(basis.ports, j) = (basis.ports[i] + k) % PortWord
                         /\ Guess(basis.ports, j + 1) = (basis.ports[i] - k) % PortWord
    BY <2>1, TurnOfPort, ZenonT(60)
  <2>3. j \in basis.from .. nat.index - 1 /\ j + 1 \in basis.from .. nat.index - 1
    <3>1. PICK w \in Int, v \in Int : w = 2 * n * (k + 1) /\ v = 2 * n * k
      <4> HIDE DEF n
      <4> QED
        BY <2>1
    <3>2. j + 1 < w /\ w <= nat.index /\ basis.from <= v /\ v <= j
      BY <2>2, <3>1
    <3> QED
      BY <2>1, <3>2
  <2>4. \A x \in basis.from .. nat.index - 1 : Guess(basis.ports, x) \in guessed
    BY DEF PunchingInv, GuessesInv
  <2> QED
    BY <2>2, <2>3, <2>4
<1> QED
  BY <1>1, <1>2

LEMMA PunchingInitial == DhtNatInit => PunchingInv
<1> SUFFICES ASSUME DhtNatInit PROVE PunchingInv
  OBVIOUS
<1>1. nat \in NatRecord /\ nat.index = 0 /\ nat.hole_punching = FALSE /\ nat.id = 1
  BY NatAssumption DEF DhtNatInit, NatRecord
<1>2. AnswersInv
  BY <1>1, FS_EmptySet DEF DhtNatInit, AnswersInv
<1>3. basis.from = 0 /\ basis.ports = << >> /\ Len(basis.ports) \in Nat
  BY DEF DhtNatInit
<1>4. GuessesInv
  BY <1>1, <1>3 DEF GuessesInv
<1> QED
  BY <1>1, <1>2, <1>4 DEF PunchingInv

\* What does not touch the ids, the index and the histories keeps the invariant.
LEMMA RestKeepsPunching ==
  ASSUME PunchingInv, nat' \in NatRecord, nat'.id = nat.id, nat'.index = nat.index,
         nat'.hole_punching = nat.hole_punching, UNCHANGED <<natSeen, punched, basis, guessed>>
  PROVE  PunchingInv'
<1>1. AnswersInv'
  BY DEF PunchingInv, AnswersInv
<1>2. GuessesInv'
  BY DEF PunchingInv, GuessesInv, AllSame, Guess
<1> QED
  BY <1>1, <1>2 DEF PunchingInv, NatRecord

\* An answer that is accepted is the first to its id.
LEMMA AnswerKeepsPunching ==
  ASSUME PunchingInv, NEW id, handle_response(id)
  PROVE  PunchingInv'
<1>1. /\ nat \in NatRecord /\ id = nat.id /\ nat' = [nat EXCEPT !.id = @ + 1, !.hole_punching = TRUE]
      /\ natSeen' = natSeen \cup {id} /\ UNCHANGED <<punched, basis, guessed>>
  BY DEF PunchingInv, handle_response
<1>2. /\ nat' \in NatRecord /\ nat'.id = nat.id + 1 /\ nat'.hole_punching = TRUE /\ nat'.index = nat.index
      /\ nat.id \in Nat \ {0}
  <2>1. nat.id \in Nat \ {0}
    BY <1>1 DEF NatRecord
  <2>2. PICK next \in Nat \ {0} : next = nat.id + 1
    BY <2>1
  <2>3. nat' = [nat EXCEPT !.id = next, !.hole_punching = TRUE]
    BY <1>1, <2>2
  <2>4. nat' \in NatRecord /\ nat'.id = next /\ nat'.hole_punching = TRUE /\ nat'.index = nat.index
    BY <1>1, <2>3 DEF NatRecord
  <2> QED
    BY <2>1, <2>2, <2>4
<1>3. IsFiniteSet(natSeen) /\ natSeen \subseteq 1 .. nat.id - 1
  <2>1. 1 \in Int /\ nat.id - 1 \in Int
    BY <1>2
  <2> QED
    BY <2>1, FS_Interval, FS_Subset DEF PunchingInv, AnswersInv
<1>4. id \notin natSeen /\ natSeen' \subseteq 1 .. nat'.id - 1
  BY <1>1, <1>2, <1>3
<1>5. Cardinality(natSeen') = Cardinality(natSeen) + 1 /\ Cardinality(natSeen) \in Nat
  BY <1>1, <1>3, <1>4, FS_AddElement, FS_CardinalityType
<1>6. AnswersInv'
  <2>1. punched \in Nat /\ punched <= Cardinality(natSeen)
    BY <1>5 DEF PunchingInv, AnswersInv
  <2> QED
    BY <1>1, <1>2, <1>4, <1>5, <2>1 DEF AnswersInv
<1>7. GuessesInv'
  BY <1>1, <1>2 DEF PunchingInv, GuessesInv, AllSame, Guess
<1> QED
  BY <1>2, <1>6, <1>7 DEF PunchingInv, NatRecord

\* do_NAT uses up the answer, and tries the ports that are next.
LEMMA NATKeepsPunching ==
  ASSUME PunchingInv, do_NAT
  PROVE  PunchingInv'
<1> DEFINE list == friend_iplist
           asks == nat.sentAge > PunchInterval
           ip == NAT_commonip(list, NatClients \div 2)
           ports == NAT_getports(list, ip)
           punch == /\ nat.hole_punching /\ nat.punchAge > PunchInterval /\ nat.recvAge <= 2 * PunchInterval
                    /\ ip # 0
           asked == [nat EXCEPT !.sentAge = IF asks THEN 0 ELSE @]
           again == basis.ip = ip /\ basis.ports = ports
<1>1. /\ nat' = IF punch THEN [punch_holes(asked, ports) EXCEPT !.punchAge = 0, !.hole_punching = FALSE]
                ELSE asked
      /\ punched' = IF punch THEN punched + 1 ELSE punched
      /\ basis' = IF punch /\ ~again THEN [ip |-> ip, ports |-> ports, from |-> nat.index] ELSE basis
      /\ guessed' = IF ~punch THEN guessed ELSE IF again THEN guessed \cup Punches(ports) ELSE Punches(ports)
      /\ UNCHANGED natSeen
  BY DEF do_NAT
<1>2. Len(ports) \in Nat
  BY ListsHaveLengths
<1>3. nat \in NatRecord /\ PunchPorts \in Nat \ {0} /\ NormalTries \in Nat
  BY NatAssumption DEF PunchingInv
<1>4. /\ asked \in NatRecord /\ asked.id = nat.id /\ asked.index = nat.index
      /\ asked.hole_punching = nat.hole_punching
  BY <1>3 DEF NatRecord
<1> HIDE DEF asked, ports, ip, list
<1>5. CASE ~punch
  <2>1. nat' = asked /\ UNCHANGED <<natSeen, punched, basis, guessed>>
    BY <1>1, <1>5
  <2> QED
    BY <1>4, <2>1, RestKeepsPunching
<1>6. CASE punch
  <2> DEFINE n == punch_holes(asked, ports)
  <2>1. /\ n \in NatRecord /\ n.id = nat.id
        /\ n.index = IF AllSame(ports) THEN nat.index ELSE nat.index + PunchPorts
    <3>1. PunchPorts - PunchPorts \div 2 \in Nat
      BY <1>3, Z3
    <3>2. PICK half \in Nat : half = PunchPorts - PunchPorts \div 2
      BY <3>1
    <3>3. PICK same \in BOOLEAN : same = AllSame(ports)
      BY DEF AllSame
    <3>4. asked.index \in Nat /\ asked.index2 \in Nat /\ asked.tries \in Nat
      BY <1>4 DEF NatRecord
    <3>5. PICK x \in Nat, y \in Nat, z \in Nat :
            /\ x = IF same THEN asked.index ELSE asked.index + PunchPorts
            /\ y = IF asked.tries > NormalTries THEN asked.index2 + half ELSE asked.index2
            /\ z = asked.tries + 1
      BY <1>3, <3>4
    <3>6. n = [asked EXCEPT !.index = x, !.index2 = y, !.tries = z]
      <4>1. asked.index2 + half = asked.index2 + PunchPorts - PunchPorts \div 2
        <5>1. PunchPorts \div 2 \in Int
          BY <1>3, Z3
        <5> QED
          BY <1>3, <3>2, <3>4, <5>1
      <4> QED
        BY <3>3, <3>5, <4>1 DEF punch_holes
    <3> HIDE DEF n
    <3>7. n \in NatRecord /\ n.id = asked.id /\ n.index = x
      BY <1>4, <3>6 DEF NatRecord
    <3> QED
      BY <1>4, <3>3, <3>5, <3>7
  <2> HIDE DEF n
  <2>2. /\ nat' \in NatRecord /\ nat'.id = nat.id /\ nat'.hole_punching = FALSE
        /\ nat'.index = IF AllSame(ports) THEN nat.index ELSE nat.index + PunchPorts
    <3>1. nat' = [n EXCEPT !.punchAge = 0, !.hole_punching = FALSE]
      BY <1>1, <1>6 DEF n
    <3> QED
      BY <2>1, <3>1 DEF NatRecord
  <2>3. AnswersInv'
    <3>1. nat.hole_punching /\ punched' = punched + 1 /\ natSeen' = natSeen
      BY <1>1, <1>6
    <3> QED
      BY <2>2, <3>1 DEF PunchingInv, AnswersInv
  <2>4. nat.index \in Nat
    BY <1>3 DEF NatRecord
  <2>5. ~AllSame(ports) => \A i \in nat.index .. nat.index + PunchPorts - 1 : Guess(ports, i) \in Punches(ports)
    BY DEF Punches, Window
  <2>6. CASE again
    <3>1. basis' = basis /\ guessed' = guessed \cup Punches(ports) /\ basis.ports = ports
      BY <1>1, <1>6, <2>6
    <3>2. basis.from \in Nat /\ basis.from <= nat.index
      BY DEF PunchingInv, GuessesInv
    <3>3. basis'.from \in Nat /\ basis'.from <= nat'.index /\ Len(basis'.ports) \in Nat
      BY <1>2, <1>3, <2>2, <2>4, <3>1, <3>2
    <3>4. ASSUME ~AllSame(ports), NEW i \in basis.from .. nat.index + PunchPorts - 1
          PROVE  Guess(ports, i) \in guessed'
      <4>1. CASE i < nat.index
        <5>1. i \in basis.from .. nat.index - 1
          BY <2>4, <3>2, <4>1
        <5> QED
          BY <3>1, <3>4, <5>1 DEF PunchingInv, GuessesInv
      <4>2. CASE i >= nat.index
        <5>1. i \in nat.index .. nat.index + PunchPorts - 1
          BY <1>3, <2>4, <3>2, <4>2
        <5> QED
          BY <2>5, <3>1, <3>4, <5>1
      <4> QED
        BY <2>4, <3>2, <4>1, <4>2
    <3>5. ~AllSame(basis'.ports) =>
            \A i \in basis'.from .. nat'.index - 1 : Guess(basis'.ports, i) \in guessed'
      <4>1. ~AllSame(ports) => nat'.index = nat.index + PunchPorts
        BY <2>2, Zenon
      <4>2. basis'.ports = ports /\ basis'.from = basis.from
        BY <3>1
      <4>3. ASSUME ~AllSame(basis'.ports), NEW i \in basis'.from .. nat'.index - 1
            PROVE  Guess(basis'.ports, i) \in guessed'
        <5>1. ~AllSame(ports)
          BY <4>2, <4>3, Zenon
        <5>2. i \in basis.from .. nat.index + PunchPorts - 1
          <6>1. nat'.index = nat.index + PunchPorts /\ i \in basis'.from .. nat'.index - 1
            BY <4>1, <5>1, Zenon
          <6> QED
            BY <1>3, <2>4, <3>2, <4>2, <6>1
        <5>3. Guess(ports, i) \in guessed'
          BY <3>4, <5>1, <5>2
        <5> QED
          BY <4>2, <5>3, Zenon
      <4> QED
        BY <4>3
    <3>6. GuessesInv'
      BY <3>3, <3>5 DEF GuessesInv, AllSame, Guess
    <3> QED
      BY <2>2, <2>3, <3>6 DEF PunchingInv, NatRecord
  <2>7. CASE ~again
    <3>1. basis'.ports = ports /\ basis'.from = nat.index /\ guessed' = Punches(ports)
      BY <1>1, <1>6, <2>7
    <3>2. basis'.from \in Nat /\ basis'.from <= nat'.index /\ Len(basis'.ports) \in Nat
      BY <1>2, <1>3, <2>2, <2>4, <3>1
    <3>3. ~AllSame(basis'.ports) =>
            \A i \in basis'.from .. nat'.index - 1 : Guess(basis'.ports, i) \in guessed'
      <4>1. ~AllSame(ports) => nat'.index = nat.index + PunchPorts
        BY <2>2, Zenon
      <4>2. ASSUME ~AllSame(basis'.ports), NEW i \in basis'.from .. nat'.index - 1
            PROVE  Guess(basis'.ports, i) \in guessed'
        <5>1. ~AllSame(ports)
          BY <3>1, <4>2, Zenon
        <5>2. i \in nat.index .. nat.index + PunchPorts - 1
          <6>1. nat'.index = nat.index + PunchPorts /\ i \in basis'.from .. nat'.index - 1
            BY <4>1, <5>1, Zenon
          <6> QED
            BY <1>3, <2>4, <3>1, <6>1
        <5>3. Guess(ports, i) \in Punches(ports)
          BY <2>5, <5>1, <5>2
        <5> QED
          BY <3>1, <5>3, Zenon
      <4> QED
        BY <4>2
    <3>4. GuessesInv'
      BY <3>2, <3>3 DEF GuessesInv, AllSame, Guess
    <3> QED
      BY <2>2, <2>3, <3>4 DEF PunchingInv, NatRecord
  <2> QED
    BY <2>6, <2>7
<1> QED
  BY <1>5, <1>6

LEMMA StepKeepsPunching ==
  ASSUME PunchingInv, [DhtNatNext]_natVars
  PROVE  PunchingInv'
<1>0. nat \in NatRecord /\ OldNat \in Nat
  BY NatAssumption DEF PunchingInv
<1>1. CASE UNCHANGED natVars
  BY <1>0, <1>1, RestKeepsPunching DEF natVars, NatRecord
<1>2. ASSUME NEW c, NEW r, ClientReplaced(c) \/ returnedip_ports(c, r) \/ FriendAnswers PROVE PunchingInv'
  BY <1>0, <1>2, RestKeepsPunching DEF ClientReplaced, returnedip_ports, FriendAnswers
<1>3. CASE handle_request
  <2>1. nat' \in NatRecord /\ nat'.id = nat.id /\ nat'.index = nat.index /\ nat'.hole_punching = nat.hole_punching
    BY <1>0, <1>3 DEF handle_request, NatRecord
  <2> QED
    BY <1>3, <2>1, RestKeepsPunching DEF handle_request
<1>4. ASSUME NEW id, handle_response(id) PROVE PunchingInv'
  BY <1>4, AnswerKeepsPunching
<1>5. CASE do_NAT
  BY <1>5, NATKeepsPunching
<1>6. CASE NatTimePasses
  <2>1. \A age \in Nat : Aged(age) \in Nat
    BY <1>0 DEF Aged
  <2>2. nat' = [nat EXCEPT !.sentAge = Aged(@), !.punchAge = Aged(@), !.recvAge = Aged(@)]
    BY <1>6 DEF NatTimePasses
  <2>3. nat' \in NatRecord /\ nat'.id = nat.id /\ nat'.index = nat.index /\ nat'.hole_punching = nat.hole_punching
    BY <1>0, <2>1, <2>2 DEF NatRecord
  <2> QED
    BY <1>6, <2>3, RestKeepsPunching DEF NatTimePasses
<1> QED
  BY <1>1, <1>2, <1>3, <1>4, <1>5, <1>6 DEF DhtNatNext, handle_NATping

\* Hole punching does what it was asked to, and only then: for any number of
\* nodes that see the friend at any ports, and whenever these ports change.
THEOREM HolePunchingStaysSound == DhtNatSpec => []HolePunchingIsSound
<1>1. DhtNatInit => PunchingInv
  BY PunchingInitial
<1>2. PunchingInv /\ [DhtNatNext]_natVars => PunchingInv'
  BY StepKeepsPunching
<1>3. PunchingInv => HolePunchingIsSound
  BY PunchingIsSound
<1> QED
  BY <1>1, <1>2, <1>3, PTL DEF DhtNatSpec

-----------------------------------------------------------------------------
(* Friend requests that are shown.                                         *)

ShownKey == SavedKey \cup {NoPk}

\* The place of the request that was shown k requests before the last one.
PlaceOfShown(k) == IF requestNext - k >= 1 THEN requestNext - k ELSE requestNext - k + MaxStored

\* What the list of received requests holds: the last requests that were
\* shown, the last of them at the index, and nothing where none has been.
RequestsInv ==
  /\ requests \in [1 .. MaxStored -> ShownKey] /\ requestNext \in 0 .. MaxStored
  /\ displayed \in Seq(ShownKey)
  /\ Len(displayed) < MaxStored =>
       /\ requestNext = Len(displayed)
       /\ \A i \in 1 .. MaxStored : i > requestNext => requests[i] = NoPk
  /\ Len(displayed) > 0 => requestNext > 0
  /\ \A k \in 0 .. MaxStored - 1 :
       k < Len(displayed) => requests[PlaceOfShown(k)] = displayed[Len(displayed) - k]
  /\ RequestsAreShownOnce

LEMMA RequestsInitial == SavedataInit => RequestsInv
<1> SUFFICES ASSUME SavedataInit PROVE RequestsInv
  OBVIOUS
<1>1. displayed = << >> /\ Len(displayed) = 0 /\ displayed \in Seq(ShownKey) /\ DOMAIN displayed = {}
  BY DEF SavedataInit
<1>2. requests \in [1 .. MaxStored -> ShownKey] /\ requestNext = 0 /\ \A i \in 1 .. MaxStored : requests[i] = NoPk
  BY DEF SavedataInit, ShownKey
<1> QED
  BY <1>1, <1>2, SavedataAssumption DEF RequestsInv, RequestsAreShownOnce

\* A start forgets the requests.
LEMMA LoadKeepsRequests ==
  ASSUME NEW cut, NEW n, messenger_load(cut, n)
  PROVE  RequestsInv'
<1>1. displayed' = << >> /\ Len(displayed') = 0 /\ displayed' \in Seq(ShownKey) /\ DOMAIN displayed' = {}
  BY DEF messenger_load
<1>2. /\ requests' \in [1 .. MaxStored -> ShownKey] /\ requestNext' = 0
      /\ \A i \in 1 .. MaxStored : requests'[i] = NoPk
  BY DEF messenger_load, ShownKey
<1> QED
  BY <1>1, <1>2, SavedataAssumption DEF RequestsInv, RequestsAreShownOnce, ShownKey

\* A request that is shown takes the place after the last one, and none of the
\* others in the list is of the same sender.
LEMMA ShowingKeepsRequests ==
  ASSUME RequestsInv, NEW pk \in SavedKey, NEW n, friendreq_handlepacket(pk, n)
  PROVE  RequestsInv'
<1> DEFINE d == Len(displayed)
           i == IF requestNext >= MaxStored THEN 0 ELSE requestNext
<1>1. /\ requests \in [1 .. MaxStored -> ShownKey] /\ requestNext \in 0 .. MaxStored
      /\ displayed \in Seq(ShownKey) /\ d \in Nat /\ MaxStored \in Nat \ {0} /\ pk \in ShownKey
  BY SavedataAssumption DEF RequestsInv, ShownKey
<1>2. /\ requests' = [requests EXCEPT ![i + 1] = pk] /\ requestNext' = i + 1
      /\ displayed' = Append(displayed, pk)
  BY DEF friendreq_handlepacket, addto_receivedlist
<1>3. i + 1 \in 1 .. MaxStored
  BY <1>1
<1>4. /\ requests' \in [1 .. MaxStored -> ShownKey] /\ requestNext' \in 1 .. MaxStored
      /\ requests'[i + 1] = pk
      /\ \A p \in 1 .. MaxStored : p # i + 1 => requests'[p] = requests[p]
  BY <1>1, <1>2, <1>3
<1>5. /\ displayed' \in Seq(ShownKey) /\ Len(displayed') = d + 1
      /\ \A j \in 1 .. d : displayed'[j] = displayed[j]
      /\ displayed'[d + 1] = pk
  BY <1>1, <1>2
<1>6. \A p \in 1 .. MaxStored : requests[p] # pk
  BY <1>1 DEF friendreq_handlepacket, request_received
<1>7. \A k \in 0 .. MaxStored - 1 : k < d =>
        PlaceOfShown(k) \in 1 .. MaxStored /\ requests[PlaceOfShown(k)] = displayed[d - k]
  BY <1>1 DEF RequestsInv, PlaceOfShown
<1>8. Len(displayed') < MaxStored =>
       /\ requestNext' = Len(displayed')
       /\ \A p \in 1 .. MaxStored : p > requestNext' => requests'[p] = NoPk
  <2> SUFFICES ASSUME d + 1 < MaxStored
               PROVE  requestNext' = d + 1 /\ \A p \in 1 .. MaxStored : p > requestNext' => requests'[p] = NoPk
    BY <1>5
  <2>1. requestNext = d /\ \A p \in 1 .. MaxStored : p > requestNext => requests[p] = NoPk
    BY <1>1 DEF RequestsInv
  <2> QED
    BY <1>1, <1>2, <1>4, <2>1
<1>9. \A k \in 0 .. MaxStored - 1 :
       k < Len(displayed') => requests'[PlaceOfShown(k)'] = displayed'[Len(displayed') - k]
  <2> SUFFICES ASSUME NEW k \in 0 .. MaxStored - 1, k < d + 1
               PROVE  requests'[PlaceOfShown(k)'] = displayed'[d + 1 - k]
    BY <1>5
  <2>1. CASE k = 0
    <3>1. PlaceOfShown(k)' = i + 1
      BY <1>1, <1>2, <1>3, <2>1 DEF PlaceOfShown
    <3> QED
      BY <1>1, <1>4, <1>5, <2>1, <3>1
  <2>2. CASE k # 0
    <3>1. k - 1 \in 0 .. MaxStored - 1 /\ k - 1 < d
      BY <1>1, <2>2
    <3>2. PlaceOfShown(k)' = PlaceOfShown(k - 1) /\ PlaceOfShown(k)' # i + 1
      <4>1. requestNext >= 1
        BY <1>1, <3>1 DEF RequestsInv
      <4> QED
        BY <1>1, <1>2, <2>2, <4>1 DEF PlaceOfShown
    <3>3. PlaceOfShown(k - 1) \in 1 .. MaxStored /\ requests[PlaceOfShown(k - 1)] = displayed[d - (k - 1)]
      BY <1>7, <3>1
    <3>4. d - (k - 1) \in 1 .. d /\ d - (k - 1) = d + 1 - k
      BY <1>1, <3>1, <2>2
    <3> QED
      BY <1>4, <1>5, <3>2, <3>3, <3>4
  <2> QED
    BY <2>1, <2>2
<1>10. \A j \in 1 .. d : d + 1 - j <= MaxStored => displayed[j] # pk
  <2> SUFFICES ASSUME NEW j \in 1 .. d, d + 1 - j <= MaxStored
               PROVE  displayed[j] # pk
    OBVIOUS
  <2>1. d - j \in 0 .. MaxStored - 1 /\ d - j < d /\ d - (d - j) = j
    BY <1>1
  <2>2. PlaceOfShown(d - j) \in 1 .. MaxStored /\ requests[PlaceOfShown(d - j)] = displayed[d - (d - j)]
    BY <1>7, <2>1
  <2> QED
    BY <1>6, <2>1, <2>2
<1>11. RequestsAreShownOnce'
  <2> SUFFICES ASSUME NEW a \in 1 .. d + 1, NEW b \in 1 .. d + 1, a < b, b - a <= MaxStored,
                      displayed'[a] = displayed'[b]
               PROVE  displayed'[a] = NoPk
    <3>1. DOMAIN displayed' = 1 .. d + 1
      BY <1>1, <1>5
    <3> QED
      BY <3>1 DEF RequestsAreShownOnce
  <2>1. a \in 1 .. d
    BY <1>1
  <2>2. b # d + 1
    BY <1>5, <1>10, <2>1, <1>1
  <2>3. b \in 1 .. d /\ DOMAIN displayed = 1 .. d
    BY <1>1, <2>2
  <2>4. displayed[a] = displayed[b] => displayed[a] = NoPk
    BY <2>1, <2>3 DEF RequestsInv, RequestsAreShownOnce
  <2> QED
    BY <1>5, <2>1, <2>3, <2>4
<1>12. requestNext' > 0 /\ requestNext' \in 0 .. MaxStored
  BY <1>4, <1>1
<1> QED
  BY <1>4, <1>5, <1>8, <1>9, <1>11, <1>12 DEF RequestsInv, ShownKey

\* With the friend that is deleted his request goes, from the only place of
\* the list where it can be.
LEMMA DeletingKeepsRequests ==
  ASSUME RequestsInv, NEW f, m_delfriend(f)
  PROVE  RequestsInv'
<1> DEFINE d == Len(displayed)
           pk == friendlist[f].pk
           first == {p \in DOMAIN requests : requests[p] = pk /\ \A j \in 1 .. p - 1 : requests[j] # pk}
<1>1. /\ requests \in [1 .. MaxStored -> ShownKey] /\ requestNext \in 0 .. MaxStored
      /\ displayed \in Seq(ShownKey) /\ d \in Nat /\ MaxStored \in Nat \ {0}
  BY SavedataAssumption DEF RequestsInv
<1>0. DOMAIN displayed = 1 .. d
  BY <1>1
<1>2. /\ requests' = [p \in DOMAIN requests |-> IF p \in first THEN NoPk ELSE requests[p]]
      /\ requestNext' = requestNext
      /\ displayed' = [j \in DOMAIN displayed |-> IF displayed[j] = pk THEN NoPk ELSE displayed[j]]
  BY DEF m_delfriend, remove_request_received
<1>3. \A k \in 0 .. MaxStored - 1 : k < d =>
        PlaceOfShown(k) \in 1 .. MaxStored /\ requests[PlaceOfShown(k)] = displayed[d - k]
  <2>1. requestNext > 0 \/ d = 0
    BY <1>1 DEF RequestsInv
  <2>2. \A k \in 0 .. MaxStored - 1 : k < d => PlaceOfShown(k) \in 1 .. MaxStored
    BY <1>1, <2>1 DEF PlaceOfShown
  <2>3. \A k \in 0 .. MaxStored - 1 : k < d => requests[PlaceOfShown(k)] = displayed[d - k]
    BY DEF RequestsInv
  <2> QED
    BY <2>2, <2>3
<1>4. ASSUME NEW p \in 1 .. MaxStored, requests[p] # NoPk
      PROVE  \E k \in 0 .. MaxStored - 1 : k < d /\ PlaceOfShown(k) = p
  <2>1. d < MaxStored => requestNext = d /\ p <= requestNext
    BY <1>1, <1>4 DEF RequestsInv
  <2>2. CASE p <= requestNext
    <3>0. requestNext <= d
      BY <1>1, <2>1
    <3>1. requestNext - p \in 0 .. MaxStored - 1 /\ requestNext - p < d
      BY <1>1, <2>2, <3>0
    <3>2. requestNext - (requestNext - p) = p /\ p >= 1
      BY <1>1
    <3>3. PlaceOfShown(requestNext - p) = p
      BY <3>2 DEF PlaceOfShown
    <3> QED
      BY <3>1, <3>3
  <2>3. CASE p > requestNext
    <3>0. d >= MaxStored /\ requestNext > 0
      <4>1. d >= MaxStored
        BY <1>1, <2>1, <2>3
      <4>2. d > 0 => requestNext > 0
        BY DEF RequestsInv
      <4> QED
        BY <1>1, <4>1, <4>2
    <3>1. /\ requestNext - p + MaxStored \in 0 .. MaxStored - 1 /\ requestNext - p + MaxStored < d
          /\ PlaceOfShown(requestNext - p + MaxStored) = p
      BY <1>1, <3>0, <2>3 DEF PlaceOfShown
    <3> QED
      BY <3>1
  <2> QED
    BY <1>1, <2>2, <2>3
<1>5. ASSUME NEW p \in 1 .. MaxStored, NEW q \in 1 .. MaxStored, requests[p] = requests[q], requests[p] # NoPk
      PROVE  p = q
  <2>1. PICK k \in 0 .. MaxStored - 1 : k < d /\ PlaceOfShown(k) = p
    BY <1>4, <1>5
  <2>2. PICK l \in 0 .. MaxStored - 1 : l < d /\ PlaceOfShown(l) = q
    BY <1>4, <1>5
  <2>3. displayed[d - k] = displayed[d - l] /\ displayed[d - k] # NoPk
    BY <1>3, <1>5, <2>1, <2>2
  <2>4. d - k \in 1 .. d /\ d - l \in 1 .. d
    BY <1>1, <2>1, <2>2
  <2>5. ~ (d - k < d - l) /\ ~ (d - l < d - k)
    <3>1. \A a, b \in 1 .. d : a < b /\ b - a <= MaxStored /\ displayed[a] = displayed[b] => displayed[a] = NoPk
      BY <1>1, <1>0 DEF RequestsInv, RequestsAreShownOnce
    <3> HIDE DEF d
    <3>2. (d - l) - (d - k) <= MaxStored /\ (d - k) - (d - l) <= MaxStored
      BY <1>1
    <3> QED
      BY <3>1, <3>2, <2>3, <2>4
  <2>6. k = l
    BY <1>1, <2>5
  <2> QED
    BY <2>1, <2>2, <2>6
<1>6. /\ requests' \in [1 .. MaxStored -> ShownKey]
      /\ \A p \in 1 .. MaxStored : requests'[p] = IF requests[p] = pk THEN NoPk ELSE requests[p]
  <2>1. requests' \in [1 .. MaxStored -> ShownKey]
    BY <1>1, <1>0, <1>2 DEF ShownKey
  <2>2. ASSUME NEW p \in 1 .. MaxStored, requests[p] = pk
        PROVE  requests'[p] = NoPk
    <3>1. requests'[p] = IF p \in first THEN NoPk ELSE requests[p]
      BY <1>1, <1>0, <1>2
    <3>2. CASE requests[p] = NoPk
      BY <3>1, <3>2
    <3>3. CASE requests[p] # NoPk
      <4>1. \A j \in 1 .. p - 1 : requests[j] # pk
        BY <1>1, <1>0, <1>5, <2>2, <3>3
      <4>2. p \in first
        BY <1>1, <1>0, <2>2, <4>1
      <4> QED
        BY <3>1, <4>2
    <3> QED
      BY <3>2, <3>3
  <2>3. ASSUME NEW p \in 1 .. MaxStored, requests[p] # pk
        PROVE  requests'[p] = requests[p]
    BY <1>1, <1>0, <1>2, <2>3
  <2> QED
    BY <2>1, <2>2, <2>3
<1>7. /\ displayed' \in Seq(ShownKey) /\ Len(displayed') = d /\ DOMAIN displayed' = 1 .. d
      /\ \A j \in 1 .. d : displayed'[j] = IF displayed[j] = pk THEN NoPk ELSE displayed[j]
  <2>1. \A j \in 1 .. d : displayed[j] \in ShownKey
    BY <1>1, <1>0
  <2>2. displayed' \in [1 .. d -> ShownKey]
    BY <1>1, <1>0, <1>2, <2>1 DEF ShownKey
  <2>3. displayed' \in Seq(ShownKey) /\ Len(displayed') = d
    BY <1>1, <1>0, <2>2
  <2> QED
    BY <1>1, <1>0, <1>2, <2>3
<1>8. Len(displayed') < MaxStored =>
       /\ requestNext' = Len(displayed')
       /\ \A p \in 1 .. MaxStored : p > requestNext' => requests'[p] = NoPk
  BY <1>2, <1>6, <1>7 DEF RequestsInv
<1>9. Len(displayed') > 0 => requestNext' > 0
  BY <1>2, <1>7 DEF RequestsInv
<1>10. \A k \in 0 .. MaxStored - 1 :
         k < Len(displayed') => requests'[PlaceOfShown(k)'] = displayed'[Len(displayed') - k]
  <2> SUFFICES ASSUME NEW k \in 0 .. MaxStored - 1, k < d
               PROVE  requests'[PlaceOfShown(k)'] = displayed'[d - k]
    BY <1>7
  <2>1. PlaceOfShown(k)' = PlaceOfShown(k)
    BY <1>2 DEF PlaceOfShown
  <2>2. d - k \in 1 .. d
    BY <1>1, <1>0
  <2> QED
    BY <1>3, <1>6, <1>7, <2>1, <2>2
<1>11. RequestsAreShownOnce'
  <2> SUFFICES ASSUME NEW a \in 1 .. d, NEW b \in 1 .. d, a < b, b - a <= MaxStored,
                      displayed'[a] = displayed'[b], displayed'[a] # NoPk
               PROVE  FALSE
    BY <1>7 DEF RequestsAreShownOnce
  <2>1. displayed[a] = displayed[b] /\ displayed[a] # NoPk
    BY <1>7
  <2> QED
    BY <1>1, <1>0, <2>1 DEF RequestsInv, RequestsAreShownOnce
<1>12. requestNext' \in 0 .. MaxStored
  BY <1>1, <1>0, <1>2
<1> QED
  BY <1>6, <1>7, <1>8, <1>9, <1>10, <1>11, <1>12 DEF RequestsInv, ShownKey

\* The other calls leave the requests alone.
LEMMA RestKeepsRequests ==
  ASSUME RequestsInv, UNCHANGED <<requests, requestNext, displayed>>
  PROVE  RequestsInv'
BY DEF RequestsInv, RequestsAreShownOnce, PlaceOfShown, ShownKey

LEMMA StepKeepsRequests ==
  ASSUME RequestsInv, [SavedataNext]_savedataVars
  PROVE  RequestsInv'
<1> DEFINE Rest == UNCHANGED <<requests, requestNext, displayed>>
<1>1. CASE UNCHANGED savedataVars
  BY <1>1, RestKeepsRequests DEF savedataVars
<1>2. ASSUME NEW pk \in SavedKey, NEW n, friendreq_handlepacket(pk, n) PROVE RequestsInv'
  BY <1>2, ShowingKeepsRequests
<1>3. ASSUME NEW pk, NEW n, NEW info, AddFriend(pk, n, info) \/ AddFriendNorequest(pk) PROVE RequestsInv'
  BY <1>3, RestKeepsRequests DEF AddFriend, AddFriendNorequest
<1>4. ASSUME NEW i, m_delfriend(i) PROVE RequestsInv'
  BY <1>4, DeletingKeepsRequests
<1>5. ASSUME NEW i, do_friends(i) \/ ComesOnline(i) \/ GoesOffline(i) \/ Says(i, MaxText) PROVE RequestsInv'
  BY <1>5, RestKeepsRequests DEF do_friends, ComesOnline, GoesOffline, Says, SetFriend
<1>6. ASSUME NEW new, SetOwn(new) PROVE RequestsInv'
  BY <1>6, RestKeepsRequests DEF SetOwn
<1>7. ASSUME setname(MaxText) \/ (\E t \in MaxText - 1 .. MaxText : m_set_statusmessage(t))
             \/ m_set_userstatus(1) \/ (\E n \in Nospam : set_nospam(n))
      PROVE  RequestsInv'
  BY <1>6, <1>7 DEF setname, m_set_statusmessage, m_set_userstatus, set_nospam
<1>8. CASE messenger_save
  BY <1>8, RestKeepsRequests DEF messenger_save
<1>9. ASSUME NEW cut, NEW n, messenger_load(cut, n) PROVE RequestsInv'
  BY <1>9, LoadKeepsRequests
<1> QED
  BY <1>1, <1>2, <1>3, <1>4, <1>5, <1>7, <1>8, <1>9 DEF SavedataNext

\* A request is not shown again among the next MAX_RECEIVED_STORED ones that
\* are, unless its sender was made a friend and deleted in between.
THEOREM RequestsStayShownOnce == SavedataSpec => []RequestsAreShownOnce
<1>1. SavedataInit => RequestsInv
  BY RequestsInitial
<1>2. RequestsInv /\ [SavedataNext]_savedataVars => RequestsInv'
  BY StepKeepsRequests
<1>3. RequestsInv => RequestsAreShownOnce
  BY DEF RequestsInv
<1> QED
  BY <1>1, <1>2, <1>3, PTL DEF SavedataSpec

=============================================================================
