-------------------------- MODULE CryptoTransport --------------------------
(***************************************************************************)
(* The data phase of a crypto connection (toxcore/net_crypto.c): two ends  *)
(* that hold the same session key exchange lossless, lossy, request and    *)
(* kill packets over a network that loses, duplicates and reorders them.   *)
(* Each end has a send_array and a recv_array (module PacketsArray).       *)
(*                                                                         *)
(* Time is abstract: an interval timer may fire at any moment, and whether *)
(* a packet was sent more than a round trip ago is a free choice.          *)
(***************************************************************************)
EXTENDS PacketsArray, Sequences, FiniteSets

CONSTANTS
  Alice, Bob,    \* the two ends of the connection
  FirstNumbers,  \* numbers the next packet may have when the model starts
  WriteLimit,    \* bound: packets each end writes, for each of those numbers
  MaxInFlight    \* bound: packets the network holds at a time

End == {Alice, Bob}

Peer(e) == IF e = Alice THEN Bob ELSE Alice

ASSUME EndAssumption == Alice # Bob
ASSUME FirstAssumption == FirstNumbers \subseteq Words
\* No packet number is used twice while the model looks on.
ASSUME LimitAssumption ==
  /\ WriteLimit \in [FirstNumbers -> [End -> Nat]]
  /\ \A f \in FirstNumbers : \A e \in End :
       WriteLimit[f][e] + 2 * BufferSize + 2 < Word
ASSUME InFlightAssumption == MaxInFlight \in Nat
ASSUME NoPacketAssumption ==
  \A f \in FirstNumbers : \A e \in End :
    \A k \in 1 .. WriteLimit[f][e] : \A b \in BOOLEAN :
      NoPacket # [data |-> k, sent |-> b]

VARIABLES
  status,      \* conn->status: "NotConfirmed", "Established", or "Gone" once wiped
  send,        \* conn->send_array
  recv,        \* conn->recv_array
  speed,       \* conn->maximum_speed_reached
  net,         \* the packets on their way
  written,     \* history: packets write_cryptpacket put in the send queue
  delivered,   \* history: what connection_data_callback was given
  acked,       \* history: packets removed from send_array as received
  first        \* the number of the first packet of both directions; it never changes

vars == <<status, send, recv, speed, net, written, delivered, acked, first>>

-----------------------------------------------------------------------------
\* Packets.  Every packet carries the start of the sender's recv_array, which
\* acknowledges everything before it, and a packet number: its own for a data
\* packet, the end of the sender's send_array for the others.

Packet(e, kind, num) ==
  [to |-> Peer(e), kind |-> kind, start |-> recv[e].start, num |-> num,
   data |-> 0, upto |-> 0, missing |-> {}]

DataPacket(e, array, num) ==
  [Packet(e, "data", num) EXCEPT !.data = At(array, num).data]

RequestPacket(e, upto) ==
  [Packet(e, "request", send[e].end) EXCEPT
     !.upto = upto, !.missing = Holes(recv[e], upto)]

LossyPacket(e) == Packet(e, "lossy", send[e].end)

KillPacket(e) == Packet(e, "kill", send[e].end)

\* The network takes some of the packets given to it, and loses the others.
Transmit(packets) ==
  /\ net' \in {net \cup taken : taken \in SUBSET packets}
  /\ Cardinality(net') <= MaxInFlight

-----------------------------------------------------------------------------

\* A new connection starts with packet 0 and a key that is not confirmed; any
\* other number stands for a connection that has been used for a while.
Init ==
  /\ first \in FirstNumbers
  /\ status = [e \in End |-> IF first = 0 THEN "NotConfirmed" ELSE "Established"]
  /\ send = [e \in End |-> EmptyArray(first)]
  /\ recv = [e \in End |-> EmptyArray(first)]
  /\ speed = [e \in End |-> FALSE]
  /\ net = {}
  /\ written = [e \in End |-> 0]
  /\ delivered = [e \in End |-> <<>>]
  /\ acked = [e \in End |-> 0]

MarkSent(array, num) == [array EXCEPT !.buf[Slot(num)].sent = TRUE]

\* reset_max_speed_reached sends the last packet of the queue again if its
\* first send failed; retried says whether this send succeeds.
LastNumber(e) == Sub(send[e].end, 1)

RetryDue(e) ==
  /\ speed[e]
  /\ Holds(send[e], LastNumber(e))
  /\ ~ At(send[e], LastNumber(e)).sent

Retries(e) == IF RetryDue(e) THEN BOOLEAN ELSE {FALSE}

SendAfterReset(e, retried) ==
  IF RetryDue(e) /\ retried THEN MarkSent(send[e], LastNumber(e)) ELSE send[e]

SpeedAfterReset(e, retried) == RetryDue(e) /\ ~ retried

ResetPackets(e, retried) ==
  IF RetryDue(e) /\ retried THEN {DataPacket(e, send[e], LastNumber(e))} ELSE {}

\* max_speed_reached, which is reset_max_speed_reached on its own.
max_speed_reached(e, retried) ==
  /\ status[e] # "Gone"
  /\ send' = [send EXCEPT ![e] = SendAfterReset(e, retried)]
  /\ speed' = [speed EXCEPT ![e] = SpeedAfterReset(e, retried)]
  /\ Transmit(ResetPackets(e, retried))
  /\ UNCHANGED <<status, recv, written, delivered, acked>>

\* write_cryptpacket, with send_lossless_packet.  congestion is its
\* congestion_control argument, sent the outcome of sending the new packet.
\* The check that packets_left # 0 is in module SendQuota; a write it refuses
\* changes nothing here.
CanQueue(e, congestion, retried) ==
  /\ ~ (SpeedAfterReset(e, retried) /\ congestion)
  /\ CanAddDataEndOfBuffer(SendAfterReset(e, retried))

WriteRefused(e, congestion, retried) ==
  /\ status[e] = "Established"
  /\ ~ CanQueue(e, congestion, retried)
  /\ send' = [send EXCEPT ![e] = SendAfterReset(e, retried)]
  /\ speed' = [speed EXCEPT ![e] = SpeedAfterReset(e, retried)]
  /\ Transmit(ResetPackets(e, retried))
  /\ UNCHANGED <<status, recv, written, delivered, acked>>

write_cryptpacket(e, congestion, retried, sent) ==
  LET number == send[e].end
      stalled == SpeedAfterReset(e, retried)
      isSent == sent /\ ~ stalled
      queue == add_data_end_of_buffer(SendAfterReset(e, retried),
                                      [data |-> written[e] + 1, sent |-> isSent])
  IN  /\ status[e] = "Established"
      /\ written[e] < WriteLimit[first][e]
      /\ CanQueue(e, congestion, retried)
      /\ send' = [send EXCEPT ![e] = queue]
      /\ speed' = [speed EXCEPT ![e] = ~ isSent]
      /\ written' = [written EXCEPT ![e] = @ + 1]
      /\ Transmit(ResetPackets(e, retried)
                  \cup (IF isSent THEN {DataPacket(e, queue, number)} ELSE {}))
      /\ UNCHANGED <<status, recv, delivered, acked>>

\* send_request_packet.  The list of the holes is cut short when the packet
\* is full.
send_request_packet(e, upto) ==
  /\ status[e] # "Gone"
  /\ Transmit({RequestPacket(e, upto)})
  /\ UNCHANGED <<status, send, recv, speed, written, delivered, acked>>

\* The offsets of the packets send_requested_packets tries to send.
Unsent(array) ==
  {i \in 0 .. num_packets_array(array) - 1 :
     LET number == Add(array.start, i)
     IN  Holds(array, number) /\ ~ At(array, number).sent}

\* send_requested_packets.  chosen are the packets it sends before its quota
\* is used up; a send that fails is skipped.
send_requested_packets(e, chosen) ==
  /\ status[e] = "Established"
  /\ send' = [send EXCEPT ![e].buf =
       [s \in Slots |-> IF s \in SlotsOf(send[e], chosen)
                          THEN [send[e].buf[s] EXCEPT !.sent = TRUE]
                          ELSE send[e].buf[s]]]
  /\ Transmit({DataPacket(e, send[e], Add(send[e].start, i)) : i \in chosen})
  /\ UNCHANGED <<status, recv, speed, written, delivered, acked>>

send_lossy_cryptpacket(e) ==
  /\ status[e] # "Gone"
  /\ Transmit({LossyPacket(e)})
  /\ UNCHANGED <<status, send, recv, speed, written, delivered, acked>>

\* crypto_kill: an established connection says so to the peer; the connection
\* is wiped.
WipeArrays(e) ==
  /\ status' = [status EXCEPT ![e] = "Gone"]
  /\ send' = [send EXCEPT ![e] = EmptyArray(0)]
  /\ recv' = [recv EXCEPT ![e] = EmptyArray(0)]
  /\ speed' = [speed EXCEPT ![e] = FALSE]

crypto_kill(e) ==
  /\ status[e] # "Gone"
  /\ WipeArrays(e)
  /\ Transmit(IF status[e] = "Established" THEN {KillPacket(e)} ELSE {})
  /\ UNCHANGED <<written, delivered, acked>>

-----------------------------------------------------------------------------
\* handle_data_packet_helper: end m.to handles packet m.  The packet stays in
\* the network, from where it may arrive again until it is lost.

\* Mutant of AckAccepted: an old acknowledgement is taken.
AckAccepted_Always(e, m) == TRUE

\* Old acknowledgements, and impossible ones, stop the handler at once.
AckAccepted(e, m) ==
  m.start = send[e].start \/ CanClearBufferUntil(send[e], m.start)

SendAfterAck(e, m) ==
  IF m.start = send[e].start THEN send[e] ELSE clear_buffer_until(send[e], m.start)

\* What every accepted packet but a kill packet does.
Accept(e, m) ==
  /\ status[e] # "Gone"
  /\ AckAccepted(e, m)
  /\ status' = [status EXCEPT ![e] = "Established"]
  /\ acked' = [acked EXCEPT ![e] = @ + Sub(m.start, send[e].start)]

HandleDropped(m) ==
  /\ status[m.to] = "Gone" \/ ~ AckAccepted(m.to, m)
  /\ UNCHANGED <<status, send, recv, speed, net, written, delivered, acked>>

HandleKill(m) ==
  LET e == m.to
  IN  /\ m.kind = "kill"
      /\ status[e] # "Gone"
      /\ AckAccepted(e, m)
      /\ WipeArrays(e)
      /\ acked' = [acked EXCEPT ![e] = @ + Sub(m.start, send[e].start)]
      /\ Transmit(IF status[e] = "Established" THEN {KillPacket(e)} ELSE {})
      /\ UNCHANGED <<written, delivered>>

HandleRequest(m, late) ==
  LET e == m.to
  IN  /\ m.kind = "request"
      /\ Accept(e, m)
      /\ send' = [send EXCEPT ![e] =
                    handle_request_packet(SendAfterAck(e, m), m.upto, m.missing, late)]
      /\ recv' = [recv EXCEPT ![e] = set_buffer_end(@, m.num)]
      /\ UNCHANGED <<speed, net, written, delivered>>

HandleLossy(m) ==
  LET e == m.to
  IN  /\ m.kind = "lossy"
      /\ Accept(e, m)
      /\ send' = [send EXCEPT ![e] = SendAfterAck(e, m)]
      /\ recv' = [recv EXCEPT ![e] = set_buffer_end(@, m.num)]
      /\ UNCHANGED <<speed, net, written, delivered>>

\* A data packet is stored, and every packet that has no hole before it is
\* passed to the callback.  A packet that cannot be stored (one received
\* before) is dropped, after its acknowledgement was taken.
HandleData(m) ==
  LET e == m.to
      stored == add_data_to_buffer(recv[e], m.num, [data |-> m.data, sent |-> FALSE])
      k == Readable(stored)
  IN  /\ m.kind = "data"
      /\ Accept(e, m)
      /\ send' = [send EXCEPT ![e] = SendAfterAck(e, m)]
      /\ IF CanAddDataToBuffer(recv[e], m.num)
           THEN /\ recv' = [recv EXCEPT ![e] = DropFirst(stored, k)]
                /\ delivered' = [delivered EXCEPT ![e] =
                     @ \o [i \in 1 .. k |-> At(stored, Add(stored.start, i - 1)).data]]
           ELSE UNCHANGED <<recv, delivered>>
      /\ UNCHANGED <<speed, net, written>>

Lose(m) ==
  /\ net' = net \ {m}
  /\ UNCHANGED <<status, send, recv, speed, written, delivered, acked>>

Handle(m) ==
  \/ HandleDropped(m)
  \/ HandleKill(m)
  \/ \E late \in SUBSET m.missing : HandleRequest(m, late)
  \/ HandleLossy(m)
  \/ HandleData(m)

Step ==
  \/ \E e \in End :
       \/ \E retried \in Retries(e) :
            \/ max_speed_reached(e, retried)
            \/ \E congestion \in BOOLEAN :
                 \/ WriteRefused(e, congestion, retried)
                 \/ \E sent \in BOOLEAN : write_cryptpacket(e, congestion, retried, sent)
       \/ \E upto \in ListEnds(recv[e]) : send_request_packet(e, upto)
       \/ \E chosen \in SUBSET Unsent(send[e]) : send_requested_packets(e, chosen)
       \/ send_lossy_cryptpacket(e)
       \/ crypto_kill(e)
  \/ \E m \in net : Lose(m) \/ Handle(m)

Next == Step /\ UNCHANGED first

Spec == Init /\ [][Next]_vars

-----------------------------------------------------------------------------
\* Mutant of cryptpacket_received: a packet that a request packet did not list
\* counts as received.
cryptpacket_received_Selective(e, number) == ~ Holds(send[e], number)

\* cryptpacket_received: was packet number received by the other side?
cryptpacket_received(e, number) ==
  num_packets_array(send[e]) < Sub(number, send[e].start)

\* The number of the k-th packet of a direction.
Num(k) == Add(first, k - 1)

Packets == [data : Nat, sent : BOOLEAN]

Arrays == [buf : [Slots -> Packets \cup {NoPacket}], start : Words, end : Words]

Messages == [to : End, kind : {"data", "request", "lossy", "kill"}, start : Words,
             num : Words, data : Nat, upto : Nat, missing : SUBSET Nat]

\* The type invariant.
TypeOK ==
  /\ status \in [End -> {"NotConfirmed", "Established", "Gone"}]
  /\ send \in [End -> Arrays]
  /\ recv \in [End -> Arrays]
  /\ speed \in [End -> BOOLEAN]
  /\ net \subseteq Messages
  /\ written \in [End -> Nat]
  /\ delivered \in [End -> Seq(Nat)]
  /\ acked \in [End -> Nat]
  /\ first \in Words

\* A packet that left the send queue, because it was acknowledged
\* (clear_buffer_until) or because a request packet did not list it
\* (handle_request_packet), is in the hands of the peer: nothing has to be
\* sent again that is gone.
Received(e, k) ==
  \/ k <= Len(delivered[e])
  \/ Holds(recv[e], Num(k))

NothingFreedTooEarly ==
  \A e \in End :
    (status[e] # "Gone" /\ status[Peer(e)] # "Gone") =>
      \A k \in 1 .. written[e] : Holds(send[e], Num(k)) \/ Received(Peer(e), k)

\* cryptpacket_received never reports a packet the peer's application was not
\* given: Messenger turns its answer into a read receipt.
ReceiptsAreTruthful ==
  \A e \in End : status[e] # "Gone" =>
    \A k \in 1 .. written[e] :
      cryptpacket_received(e, Num(k)) => k <= Len(delivered[Peer(e)])

\* The window of recv_array never outgrows the ring, so two numbers in it
\* never share a slot; add_data_to_buffer's own bound does not ensure this.
RecvWindowFitsRing ==
  \A e \in End : num_packets_array(recv[e]) <= BufferSize

\* What an end lets go of, or reports as received, its peer has, and what it keeps
\* it has a place for.
EndsAreRight == TypeOK /\ NothingFreedTooEarly /\ ReceiptsAreTruthful /\ RecvWindowFitsRing

Chan == INSTANCE ReliableChannel WITH
          Alice <- Alice, Bob <- Bob,
          written <- written, delivered <- delivered, acked <- acked

\* The connection implements a pair of reliable channels: each end is given
\* what the peer wrote, in the order it was written, each packet once, whatever
\* the network loses, repeats or reorders (handle_data_packet_helper,
\* read_data_beg_buffer), and learns truly what the peer was given.
RefinesChannel == Chan!ChanSpec

=============================================================================
