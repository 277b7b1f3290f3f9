------------------------------- MODULE Onion --------------------------------
(***************************************************************************)
(* onion.c: packets that travel over three nodes.  The sender wraps a      *)
(* request in three layers, one for each node of a path; every node takes  *)
(* off its layer and adds, encrypted with a key only it has, the address   *)
(* the packet came from.  The answer is sent back with this return data,   *)
(* and every node takes off its part again.  A node changes its key every  *)
(* two hours, and when it is restarted: older return data then leads       *)
(* nowhere.                                                                *)
(*                                                                         *)
(* A layer is the node that can open it and the address inside.  Packets   *)
(* are lost, overtake each other, and may arrive twice (copies).           *)
(***************************************************************************)
EXTENDS Naturals, Sequences, FiniteSets

CONSTANTS
  OnionNode,    \* nodes
  OnionUser,    \* those who send along a path
  OnionPath,    \* paths, sequences of three nodes
  TcpPath,      \* the paths whose first node is reached over TCP
  MaxOnWire,    \* bound on the packets on their way when one is sent
  MaxEvents     \* bound on the requests, the packets that arrive twice and the
                \* changes of keys together

ASSUME OnionAssumption ==
  /\ \A path \in OnionPath : path \in Seq(OnionNode) /\ Len(path) = 3
  /\ TcpPath \subseteq OnionPath
  /\ MaxOnWire \in Nat \ {0} /\ MaxEvents \in Nat

VARIABLES
  wire,    \* packets on their way
  onionKey,   \* per node, the number of its secret_symmetric_key
  due,     \* the nodes whose key is older than two hours
  events   \* requests, doubled packets and changes of keys so far

onionVars == <<wire, onionKey, due, events>>

\* An address: a node's, or a user's with UDP or over a TCP relay.
At(node) == [who |-> node, family |-> "udp"]

OnionInit ==
  /\ wire = {}
  /\ onionKey = [n \in OnionNode |-> 0]
  /\ due = {}
  /\ events = 0

-----------------------------------------------------------------------------

\* create_onion_path and create_onion_packet.
Layers(path, dest) ==
  <<[pk |-> path[1], to |-> At(path[2])], [pk |-> path[2], to |-> At(path[3])],
    [pk |-> path[3], to |-> At(dest)]>>

create_onion_packet(from, path, dest, data) ==
  [type |-> "initial", from |-> from, to |-> At(path[1]), layers |-> Layers(path, dest),
   ret |-> << >>, data |-> data]

\* create_onion_packet_tcp leaves out the first layer: the relay has the sender's
\* connection.
create_onion_packet_tcp(from, path, dest, data) ==
  [create_onion_packet(from, path, dest, data) EXCEPT !.type = "tcp", !.layers = Tail(@)]

Event == events < MaxEvents /\ events' = events + 1

\* send_onion_packet.
SendOnion(packet) ==
  /\ Cardinality(wire) < MaxOnWire
  /\ Event
  /\ wire' = wire \cup {packet}
  /\ UNCHANGED <<onionKey, due>>

LoseOnion(p) == wire' = wire \ {p} /\ UNCHANGED <<onionKey, due, events>>

\* send_onion_response.
send_onion_response(n, dest, data, ret) ==
  [type |-> "recv_3", from |-> At(n), to |-> dest, layers |-> << >>, ret |-> ret, data |-> data]

\* A packet is handled; out is what is sent.  It may arrive a second time.
Handles(p, out) ==
  \/ wire' = (wire \ {p}) \cup out /\ UNCHANGED events
  \/ wire' = wire \cup out /\ Event

change_symmetric_key(n) ==
  /\ onionKey' = [onionKey EXCEPT ![n] = IF n \in due THEN @ + 1 ELSE @]
  /\ due' = due \ {n}

\* KEY_REFRESH_INTERVAL has passed.
KeyTimesOut(n) ==
  /\ Event
  /\ due' = due \cup {n}
  /\ UNCHANGED <<wire, onionKey>>

\* The layer is taken off and the return data added.
Forward(n, p, type, layer, layers) ==
  {[type |-> type, from |-> At(n), to |-> layer.to, layers |-> layers,
    ret |-> Append(p.ret, [by |-> n, epoch |-> onionKey'[n], to |-> p.from]), data |-> p.data]}

Unwrap(n, p, type) ==
  IF Head(p.layers).pk = n THEN Forward(n, p, type, Head(p.layers), Tail(p.layers)) ELSE {}

handle_send_initial(n, p) ==
  /\ p.type = "initial"
  /\ change_symmetric_key(n)
  /\ Handles(p, Unwrap(n, p, "send_1"))

\* Mutant of handle_onion_request: the return data does not say whose connection
\* the packet came over.
handle_onion_request_Variant(n, p) ==
  /\ p.type = "tcp"
  /\ UNCHANGED <<onionKey, due>>
  /\ Handles(p, Forward(n, [p EXCEPT !.from = At(n)], "send_1", [to |-> At(Head(p.layers).pk)], p.layers))

\* The TCP server calls onion_send_1 itself; the key is not changed.
handle_onion_request(n, p) ==
  /\ p.type = "tcp"
  /\ UNCHANGED <<onionKey, due>>
  /\ Handles(p, Forward(n, p, "send_1", [to |-> At(Head(p.layers).pk)], p.layers))

handle_send_1(n, p) ==
  /\ p.type = "send_1"
  /\ change_symmetric_key(n)
  /\ Handles(p, Unwrap(n, p, "send_2"))

\* Only announce and data requests leave the path.
handle_send_2(n, p) ==
  /\ p.type = "send_2"
  /\ change_symmetric_key(n)
  /\ Handles(p, IF p.data.kind \in {"announce", "data"} THEN Unwrap(n, p, "request") ELSE {})

\* The node's own part of the return data is taken off, if it still has the key.
Return(n, p, type) ==
  LET part == p.ret[Len(p.ret)]
  IN  IF part.by = n /\ part.epoch = onionKey'[n]
      THEN {[type |-> type, from |-> At(n), to |-> part.to, layers |-> << >>,
             ret |-> SubSeq(p.ret, 1, Len(p.ret) - 1), data |-> p.data]}
      ELSE {}

HandleRecv(n, p, type, next) ==
  /\ p.type = type
  /\ IF p.data.kind \in {"announced", "delivered"}
     THEN change_symmetric_key(n) /\ Handles(p, Return(n, p, next))
     ELSE UNCHANGED <<onionKey, due>> /\ Handles(p, {})

handle_recv_3(n, p) == HandleRecv(n, p, "recv_3", "recv_2")

handle_recv_2(n, p) == HandleRecv(n, p, "recv_2", "recv_1")

\* What the TCP server does with an answer for one of its clients is in TcpRelay.
handle_recv_1(n, p) == HandleRecv(n, p, "recv_1", "response")

OnionStep(n, p) ==
  \/ handle_send_initial(n, p) \/ handle_onion_request(n, p)
  \/ handle_send_1(n, p) \/ handle_send_2(n, p)
  \/ handle_recv_3(n, p) \/ handle_recv_2(n, p) \/ handle_recv_1(n, p)

=============================================================================
