----------------------------- MODULE TcpStream ------------------------------
(***************************************************************************)
(* How TCP_server.c and TCP_client.c, which have the same code for it, put *)
(* packets into a TCP stream and read them back.  A packet is encrypted    *)
(* with the next nonce when it is written, so packets must reach the       *)
(* stream whole and in the order of their nonces, although send() takes    *)
(* any part of them and packets with priority are queued while others are  *)
(* refused.                                                                *)
(*                                                                         *)
(* The stream is a sequence of units <<nonce, place, size>>; place 1 is    *)
(* the length in front of the packet.  room is what the socket takes in    *)
(* one call of the program.  Memory does not run out: were add_priority to *)
(* find none, the nonce of the packet would be used already and its rest   *)
(* lost, and the stream would be out of step from then on.                 *)
(***************************************************************************)
EXTENDS Integers, Sequences

CONSTANTS
  PacketSizes,   \* sizes of packets in units, with the length
  MaxRoom,       \* the most the socket takes in one call
  MaxWritten     \* bound on the packets written

ASSUME TcpStreamAssumption ==
  /\ PacketSizes \subseteq Nat \ {0, 1}
  /\ MaxRoom \in Nat /\ MaxWritten \in Nat

VARIABLES
  pending,    \* last_packet: its units not yet sent
  priority,   \* the priority queue: the units not yet sent of its packets, in turn
  sentNonce,  \* sent_nonce
  stream,     \* what the socket has taken and the reader has not read
  nextLength, \* next_packet_length of the reader, 0 when unknown
  recvNonce,  \* recv_nonce
  readFails   \* the reader has given up

tcpStreamVars == <<pending, priority, sentNonce, stream, nextLength, recvNonce, readFails>>

TcpStreamInit ==
  /\ pending = << >> /\ priority = << >> /\ sentNonce = 0
  /\ stream = << >> /\ nextLength = 0 /\ recvNonce = 0 /\ readFails = FALSE

UnitsOf(nonce, size) == [k \in 1 .. size |-> <<nonce, k, size>>]

\* send() takes the first units, as many as there is room for.
Taken(units, room) == SubSeq(units, 1, IF Len(units) < room THEN Len(units) ELSE room)
Kept(units, room) == SubSeq(units, room + 1, Len(units))

-----------------------------------------------------------------------------
(* Writing.                                                                *)

\* The result of what sends pending data: what is left of last_packet and of the
\* queue, what went out and the room left.
send_pending_data_nonpriority(room) ==
  LET out == Taken(pending, room)
  IN  [last |-> Kept(pending, room), queue |-> priority, out |-> out, room |-> room - Len(out)]

\* Packets of the queue follow until one does not go out whole.
send_pending_data(room) ==
  LET f == send_pending_data_nonpriority(room)
      out == Taken(priority, f.room)
  IN  [f EXCEPT !.queue = Kept(priority, f.room), !.out = @ \o out, !.room = @ - Len(out)]

Flushed(f) == f.last = << >> /\ f.queue = << >>

\* do_confirmed_TCP and do_TCP_confirmed go on with what is pending.
Flush(room) ==
  LET f == send_pending_data(room)
  IN  /\ pending' = f.last /\ priority' = f.queue /\ stream' = stream \o f.out
      /\ UNCHANGED <<sentNonce, nextLength, recvNonce, readFails>>

\* add_priority: what is left of the packet goes to the end of the queue.
add_priority(queue, units) == queue \o units

WritePriorityPacket(f, units) ==
  LET room == IF Flushed(f) THEN f.room ELSE 0
  IN  /\ pending' = f.last
      /\ priority' = add_priority(f.queue, Kept(units, room))
      /\ stream' = stream \o f.out \o Taken(units, room)
      /\ sentNonce' = sentNonce + 1

\* Mutant of WriteOtherPacket: what waits in the priority queue is overtaken.
WriteOtherPacket_Variant(f, units) ==
  LET accepted == f.last = << >>
  IN  /\ pending' = IF accepted THEN Kept(units, f.room) ELSE f.last
      /\ priority' = f.queue
      /\ stream' = stream \o f.out \o (IF accepted THEN Taken(units, f.room) ELSE << >>)
      /\ sentNonce' = IF accepted THEN sentNonce + 1 ELSE sentNonce

\* Without priority a packet is refused when something is still pending, or
\* when the socket takes nothing of it; the nonce is then not used.
WriteOtherPacket(f, units) ==
  LET accepted == Flushed(f) /\ f.room > 0
  IN  /\ pending' = IF accepted THEN Kept(units, f.room) ELSE f.last
      /\ priority' = f.queue
      /\ stream' = stream \o f.out \o (IF accepted THEN Taken(units, f.room) ELSE << >>)
      /\ sentNonce' = IF accepted THEN sentNonce + 1 ELSE sentNonce

write_packet_TCP_secure_connection(size, hasPriority, room) ==
  LET f == send_pending_data(room)
      units == UnitsOf(sentNonce, size)
  IN  /\ sentNonce < MaxWritten
      /\ IF hasPriority THEN WritePriorityPacket(f, units) ELSE WriteOtherPacket(f, units)
      /\ UNCHANGED <<nextLength, recvNonce, readFails>>

-----------------------------------------------------------------------------
(* Reading.  The length is taken as soon as it is there and remembered;    *)
(* the packet when all of it is there.                                     *)

read_TCP_length ==
  /\ ~readFails /\ nextLength = 0 /\ stream # << >>
  /\ nextLength' = Head(stream)[3]
  /\ stream' = Tail(stream)
  /\ readFails' = (Head(stream)[2] # 1)
  /\ UNCHANGED <<pending, priority, sentNonce, recvNonce>>

\* Decryption succeeds only for the packet that was encrypted with the nonce
\* that is expected.
read_TCP_packet ==
  LET body == SubSeq(stream, 1, nextLength - 1)
  IN  /\ ~readFails /\ nextLength # 0 /\ Len(stream) >= nextLength - 1
      /\ stream' = SubSeq(stream, nextLength, Len(stream))
      /\ nextLength' = 0
      /\ IF body = Tail(UnitsOf(recvNonce, nextLength))
         THEN recvNonce' = recvNonce + 1 /\ UNCHANGED readFails
         ELSE readFails' = TRUE /\ UNCHANGED recvNonce
      /\ UNCHANGED <<pending, priority, sentNonce>>

TcpStreamNext ==
  \/ \E room \in 0 .. MaxRoom : Flush(room)
  \/ \E size \in PacketSizes, hasPriority \in BOOLEAN, room \in 0 .. MaxRoom :
       write_packet_TCP_secure_connection(size, hasPriority, room)
  \/ read_TCP_length
  \/ read_TCP_packet

TcpStreamSpec == TcpStreamInit /\ [][TcpStreamNext]_tcpStreamVars

-----------------------------------------------------------------------------
(* Properties.                                                             *)

\* The reader never meets a packet it cannot decrypt, and what it has read,
\* what is in the stream and what is pending are all packets written, whole and
\* in the order of their nonces (write_packet_TCP_secure_connection with and
\* without priority, over partial sends).
StreamStaysInOrder ==
  LET ahead == stream \o (pending \o priority)
      n == Len(ahead)
      Follows(u, v) == IF u[2] = u[3] THEN v[1] = u[1] + 1 /\ v[2] = 1
                       ELSE v = <<u[1], u[2] + 1, u[3]>>
  IN  /\ ~readFails
      /\ \A k \in 1 .. n - 1 : Follows(ahead[k], ahead[k + 1])
      /\ n # 0 => ahead[1][1] = recvNonce /\ ahead[n][1] = sentNonce - 1 /\ ahead[n][2] = ahead[n][3]
      /\ n = 0 => recvNonce = sentNonce

=============================================================================
