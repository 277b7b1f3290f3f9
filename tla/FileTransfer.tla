---------------------------- MODULE FileTransfer ----------------------------
(***************************************************************************)
(* File transfers of toxcore/Messenger.c from one friend, the sender, to   *)
(* another, the receiver: offers, data, and the control packets by which   *)
(* either side accepts, pauses, resumes, seeks and kills.  A transfer is   *)
(* known on the wire by its number only, the number of a slot that is used *)
(* again by later transfers.                                               *)
(*                                                                         *)
(* Packets travel over a lossless crypto connection: in order, and lost    *)
(* only with the connection.  Sends fail when the queue is full.  How many *)
(* chunks the main loop asks for depends on free queue slots and on the    *)
(* congestion control; here it is any number.                              *)
(*                                                                         *)
(* Neither user removes the other from his friends.  m_delfriend clears    *)
(* the transfers of its own side and sends PACKET_ID_OFFLINE, with which   *)
(* the other side breaks its own; that packet, and a friend added again    *)
(* over a connection that a group chat has kept, are left out here (how    *)
(* friends are removed and added again is in MessengerFriend).             *)
(***************************************************************************)
EXTENDS Integers, Sequences, FiniteSets

CONSTANTS
  Numbers,      \* file numbers, 0 .. MAX_CONCURRENT_FILE_PIPES - 1
  Chunk,        \* MAX_FILE_DATA_SIZE
  Stream,       \* UINT64_MAX, the size of a file of unknown size
  Sizes,        \* sizes of the files that are offered
  QueueSize,    \* packets that fit in a send queue
  MaxFiles,     \* bound: files offered
  MaxStream,    \* bound: bytes asked for of a stream
  MaxControls,  \* bound: controls the two applications send
  MaxLinks      \* bound: connections

ASSUME NumbersAssumption ==
  Numbers # {} /\ IsFiniteSet(Numbers) /\ Numbers = 0 .. Cardinality(Numbers) - 1
ASSUME SizesAssumption ==
  /\ Chunk \in Nat \ {0}
  /\ MaxStream \in Nat
  /\ Stream \in Nat /\ Stream > MaxStream + Chunk
  /\ Sizes \subseteq 0 .. Stream
ASSUME FileBoundsAssumption ==
  /\ QueueSize \in Nat \ {0}
  /\ MaxFiles \in Nat /\ MaxControls \in Nat /\ MaxLinks \in Nat

Side == {"sender", "receiver"}

Other(e) == IF e = "sender" THEN "receiver" ELSE "sender"

VARIABLES
  ft,        \* [Side -> [Numbers -> File_Transfers]]: file_sending of the
             \* sender, file_receiving of the receiver
  num_sending_files,
  linked,    \* [Side -> BOOLEAN], is there a crypto connection?
  connectedTo,    \* [Side -> BOOLEAN], is the friend FRIEND_ONLINE?
  wire,      \* [Side -> packets on their way to it]
  offered,   \* files offered so far; a file is known by its count
  controls,  \* controls sent so far by the applications
  links,     \* connections so far
  arrived,   \* files whose last packet the receiver's net_crypto has received
  complete,  \* history: files the receiver was told are complete
  refused,   \* history: files the receiver's application has killed
  finished,  \* history: files the sender was told are finished
  crossed    \* history: has a control packet met another file than its own?

fileVars ==
  <<ft, num_sending_files, linked, connectedTo, wire, offered, controls, links,
    arrived, complete, refused, finished, crossed>>

NoFile == [status |-> "None", size |-> 0, transferred |-> 0, requested |-> 0,
           us |-> FALSE, other |-> FALSE, file |-> 0]

Offered(size, file) == [NoFile EXCEPT !.status = "NotAccepted", !.size = size, !.file = file]

\* A packet.  A packet names a number; the file it is about, and the position
\* of a chunk, are not on the wire and no handler uses them.
FilePacket(type, n, file) ==
  [type |-> type, number |-> n, file |-> file, size |-> 0, position |-> 0, last |-> FALSE]

OnlinePacket == FilePacket("online", 0, 0)

ControlTypes == {"accept", "pause", "kill", "seek"}

FileInit ==
  /\ ft = [e \in Side |-> [n \in Numbers |-> NoFile]]
  /\ num_sending_files = 0
  /\ linked = [e \in Side |-> FALSE]
  /\ connectedTo = [e \in Side |-> FALSE]
  /\ wire = [e \in Side |-> <<>>]
  /\ offered = 0 /\ controls = 0 /\ links = 0
  /\ arrived = {}
  /\ complete = {} /\ refused = {} /\ finished = {}
  /\ crossed = FALSE

InUse(e, n) == ft[e][n].status # "None"

-----------------------------------------------------------------------------
\* write_cryptpacket_id, of a side whose friend is online.

CanWrite(e) == connectedTo[e] /\ Len(wire[Other(e)]) < QueueSize

\* What the peer of a packet's sender will get: nothing if its connection is gone.
Write(e, packet) ==
  wire' = IF linked[Other(e)] THEN [wire EXCEPT ![Other(e)] = Append(@, packet)] ELSE wire

\* new_filesender, with file_sendrequest.
new_filesender(n, size) ==
  /\ offered < MaxFiles
  /\ ~ InUse("sender", n)
  /\ \A k \in Numbers : k < n => InUse("sender", k)
  /\ CanWrite("sender")
  /\ Write("sender", [FilePacket("offer", n, offered + 1) EXCEPT !.size = size])
  /\ ft' = [ft EXCEPT !["sender"][n] = Offered(size, offered + 1)]
  /\ num_sending_files' = num_sending_files + 1
  /\ offered' = offered + 1
  /\ UNCHANGED <<linked, connectedTo, controls, links, arrived, complete, refused,
                 finished, crossed>>

\* file_control and file_seek: the application of side e sends a control.
SendControl(e, n, type, position) ==
  /\ controls < MaxControls
  /\ controls' = controls + 1
  /\ InUse(e, n)
  /\ CanWrite(e)
  /\ Write(e, [FilePacket(type, n, ft[e][n].file) EXCEPT !.position = position])
  /\ UNCHANGED <<linked, connectedTo, offered, links, arrived, complete, finished, crossed>>

\* Mutant of KillFile: the count goes down whichever side kills.
KillFile_Both(e, n) ==
  /\ SendControl(e, n, "kill", 0)
  /\ ft' = [ft EXCEPT ![e][n] = NoFile]
  /\ num_sending_files' = num_sending_files - 1
  /\ refused' = IF e = "receiver" THEN refused \cup {ft[e][n].file} ELSE refused

KillFile(e, n) ==
  /\ SendControl(e, n, "kill", 0)
  /\ ft' = [ft EXCEPT ![e][n] = NoFile]
  /\ num_sending_files' = num_sending_files - (IF e = "sender" THEN 1 ELSE 0)
  /\ refused' = IF e = "receiver" THEN refused \cup {ft[e][n].file} ELSE refused

PauseFile(e, n) ==
  /\ ft[e][n].status = "Transferring"
  /\ ~ ft[e][n].us
  /\ SendControl(e, n, "pause", 0)
  /\ ft' = [ft EXCEPT ![e][n].us = TRUE]
  /\ UNCHANGED <<num_sending_files, refused>>

AcceptFile(e, n) ==
  /\ \/ ft[e][n].status = "Transferring" /\ ft[e][n].us
     \/ ft[e][n].status = "NotAccepted" /\ e = "receiver"
  /\ SendControl(e, n, "accept", 0)
  /\ ft' = [ft EXCEPT ![e][n].status = "Transferring", ![e][n].us = FALSE]
  /\ UNCHANGED <<num_sending_files, refused>>

file_control(e, n) == KillFile(e, n) \/ PauseFile(e, n) \/ AcceptFile(e, n)

file_seek(n, position) ==
  /\ ft["receiver"][n].status = "NotAccepted"
  /\ position < ft["receiver"][n].size
  /\ SendControl("receiver", n, "seek", position)
  /\ ft' = [ft EXCEPT !["receiver"][n].transferred = position]
  /\ UNCHANGED <<num_sending_files, refused>>

-----------------------------------------------------------------------------
\* The checks of the length in file_data.
LengthFits(t, length) ==
  /\ length <= Chunk
  /\ length <= t.size - t.transferred
  /\ t.size = Stream \/ length = Chunk \/ t.transferred + length = t.size

IsLastChunk(t, length) == length # Chunk \/ t.transferred + length = t.size

\* file_data with send_file_data_packet: the sender's application sends the
\* next chunk.  It is always at the position transferred; a pause does
\* not matter here.
file_data(n, length) ==
  LET t == ft["sender"][n]
  IN  /\ t.status = "Transferring"
      /\ LengthFits(t, length)
      /\ t.requested > t.transferred \/ t.size = 0
      /\ CanWrite("sender")
      /\ Write("sender", [FilePacket("data", n, t.file) EXCEPT
                            !.size = length, !.position = t.transferred,
                            !.last = IsLastChunk(t, length)])
      /\ ft' = [ft EXCEPT !["sender"][n].transferred = @ + length,
                          !["sender"][n].status =
                             IF IsLastChunk(t, length) THEN "Finished" ELSE @]
      /\ UNCHANGED <<num_sending_files, linked, connectedTo, offered, controls, links, arrived,
                     complete, refused, finished, crossed>>

\* The part of do_reqchunk_filecb that is about file number n.  The loop over
\* the numbers ends when it has met num_sending_files transfers.
Visited(n) ==
  Cardinality({k \in Numbers : k < n /\ InUse("sender", k)}) < num_sending_files

\* The last packet was received (friend_received_packet): the transfer ends.
FinishFile(n) ==
  LET t == ft["sender"][n]
  IN  /\ connectedTo["sender"]
      /\ Visited(n)
      /\ t.status = "Finished"
      /\ t.file \in arrived
      /\ finished' = finished \cup {t.file}
      /\ ft' = [ft EXCEPT !["sender"][n] = NoFile]
      /\ num_sending_files' = num_sending_files - 1
      /\ UNCHANGED <<linked, connectedTo, wire, offered, controls, links, arrived,
                     complete, refused, crossed>>

\* The callback asks the application for one more chunk.  (For an empty file
\* the loop calls file_data itself.)
RequestChunk(n) ==
  LET t == ft["sender"][n]
      left == t.size - t.requested
  IN  /\ connectedTo["sender"]
      /\ Visited(n)
      /\ t.status = "Transferring" /\ ~ t.us /\ ~ t.other
      /\ left # 0
      /\ t.size = Stream => t.requested < MaxStream
      /\ ft' = [ft EXCEPT !["sender"][n].requested = @ + (IF left < Chunk THEN left ELSE Chunk)]
      /\ UNCHANGED <<num_sending_files, linked, connectedTo, wire, offered, controls, links,
                     arrived, complete, refused, finished, crossed>>

do_reqchunk_filecb(n) == FinishFile(n) \/ RequestChunk(n)

-----------------------------------------------------------------------------
\* handle_packet: side e takes the next packet.

Take(e, reply) ==
  LET rest == [wire EXCEPT ![e] = Tail(@)]
      o == Other(e)
  IN  wire' = IF linked[o] /\ Len(wire[o]) < QueueSize
              THEN [rest EXCEPT ![o] = @ \o reply] ELSE rest

Received(m) == arrived' = IF m.last THEN arrived \cup {m.file} ELSE arrived

\* Of a friend that is not online only PACKET_ID_ONLINE counts, and it is
\* answered in kind.
handle_online(e, m) ==
  /\ m.type = "online" \/ ~ connectedTo[e]
  /\ connectedTo' = [connectedTo EXCEPT ![e] = @ \/ m.type = "online"]
  /\ Take(e, IF m.type = "online" /\ ~ connectedTo[e] THEN <<OnlinePacket>> ELSE <<>>)
  /\ Received(m)
  /\ UNCHANGED <<ft, num_sending_files, linked, offered, controls, links, complete, refused,
                 finished, crossed>>

handle_offer(e, m) ==
  /\ connectedTo[e] /\ m.type = "offer"
  /\ Take(e, <<>>)
  /\ ft' = IF InUse(e, m.number) THEN ft
           ELSE [ft EXCEPT ![e][m.number] = Offered(m.size, m.file)]
  /\ UNCHANGED <<num_sending_files, linked, connectedTo, offered, controls, links, arrived,
                 complete, refused, finished, crossed>>

\* Mutant of IsWholeFile: the receiver waits for the size alone.
IsWholeFile_Size(t, length) == t.transferred + length >= t.size

\* length is what is left of the chunk after the clamp to the size.
IsWholeFile(t, length) ==
  length = 0 \/ t.transferred + length >= t.size \/ length # Chunk

handle_file_data(e, m) ==
  LET t == ft[e][m.number]
      length == IF t.transferred + m.size > t.size THEN t.size - t.transferred ELSE m.size
      over == IsWholeFile(t, length)
  IN  /\ connectedTo[e] /\ m.type = "data"
      /\ Take(e, <<>>)
      /\ Received(m)
      /\ IF t.status = "Transferring"
         THEN /\ ft' = [ft EXCEPT ![e][m.number] =
                          IF over THEN NoFile ELSE [t EXCEPT !.transferred = @ + length]]
              /\ complete' = IF over THEN complete \cup {t.file} ELSE complete
         ELSE UNCHANGED <<ft, complete>>
      /\ UNCHANGED <<num_sending_files, linked, connectedTo, offered, controls, links, refused,
                     finished, crossed>>

\* Mutant of Controlled: a seek does not move what is transferred.
Controlled_Seek(e, t, m) ==
  CASE m.type = "accept" ->
         IF e = "sender" /\ t.status = "NotAccepted" THEN [t EXCEPT !.status = "Transferring"]
         ELSE [t EXCEPT !.other = FALSE]
    [] m.type = "pause" ->
         IF t.status = "Transferring" THEN [t EXCEPT !.other = TRUE] ELSE t
    [] m.type = "kill" -> NoFile
    [] m.type = "seek" ->
         IF e = "sender" /\ t.status = "NotAccepted" /\ m.position < t.size
         THEN [t EXCEPT !.requested = m.position] ELSE t

\* What handle_filecontrol makes of a transfer t of side e; t if it refuses.
Controlled(e, t, m) ==
  CASE m.type = "accept" ->
         IF e = "sender" /\ t.status = "NotAccepted" THEN [t EXCEPT !.status = "Transferring"]
         ELSE [t EXCEPT !.other = FALSE]
    [] m.type = "pause" ->
         IF t.status = "Transferring" THEN [t EXCEPT !.other = TRUE] ELSE t
    [] m.type = "kill" -> NoFile
    [] m.type = "seek" ->
         IF e = "sender" /\ t.status = "NotAccepted" /\ m.position < t.size
         THEN [t EXCEPT !.transferred = m.position, !.requested = m.position] ELSE t

handle_filecontrol(e, m) ==
  LET t == ft[e][m.number]
  IN  /\ connectedTo[e] /\ m.type \in ControlTypes
      /\ IF InUse(e, m.number)
         THEN /\ Take(e, <<>>)
              /\ ft' = [ft EXCEPT ![e][m.number] = Controlled(e, t, m)]
              /\ num_sending_files' =
                   num_sending_files - (IF m.type = "kill" /\ e = "sender" THEN 1 ELSE 0)
              /\ crossed' = (crossed \/ m.file # t.file)
         ELSE /\ Take(e, <<FilePacket("kill", m.number, m.file)>>)
              /\ UNCHANGED <<ft, num_sending_files, crossed>>
      /\ UNCHANGED <<linked, connectedTo, offered, controls, links, arrived, complete, refused,
                     finished>>

file_packet(e) ==
  /\ wire[e] # <<>>
  /\ LET m == Head(wire[e])
     IN  \/ handle_online(e, m)
         \/ handle_offer(e, m)
         \/ handle_file_data(e, m)
         \/ handle_filecontrol(e, m)

-----------------------------------------------------------------------------
\* handle_status: the friend connections of both sides come up, and each
\* sends PACKET_ID_ONLINE.
LinkUp ==
  /\ links < MaxLinks
  /\ \A e \in Side : ~ linked[e]
  /\ links' = links + 1
  /\ linked' = [e \in Side |-> TRUE]
  /\ wire' = [e \in Side |-> <<OnlinePacket>>]
  /\ UNCHANGED <<ft, num_sending_files, connectedTo, offered, controls, arrived, complete, refused,
                 finished, crossed>>

\* Mutant of break_files: the transfers survive.
break_files_Keep(e) == ft' = ft

\* num_sending_files keeps its value.
break_files(e) == ft' = [ft EXCEPT ![e] = [n \in Numbers |-> NoFile]]

\* handle_status: the friend connection of side e goes down, and what was on
\* its way to it is lost.
LinkDown(e) ==
  /\ linked[e]
  /\ linked' = [linked EXCEPT ![e] = FALSE]
  /\ connectedTo' = [connectedTo EXCEPT ![e] = FALSE]
  /\ wire' = [wire EXCEPT ![e] = <<>>]
  /\ IF connectedTo[e] THEN break_files(e) ELSE ft' = ft
  /\ UNCHANGED <<num_sending_files, offered, controls, links, arrived, complete, refused,
                 finished, crossed>>

FileNext ==
  \/ \E n \in Numbers :
       \/ \E size \in Sizes : new_filesender(n, size)
       \/ \E length \in 0 .. Chunk : file_data(n, length)
       \/ do_reqchunk_filecb(n)
       \/ \E position \in 1 .. Chunk : file_seek(n, position)
       \/ \E e \in Side : file_control(e, n)
  \/ \E e \in Side : file_packet(e) \/ LinkDown(e)
  \/ LinkUp

FileSpec == FileInit /\ [][FileNext]_fileVars

-----------------------------------------------------------------------------
\* Properties

FileTransfers ==
  [status : {"None", "NotAccepted", "Transferring", "Finished"},
   size : Sizes \cup {0}, transferred : Nat, requested : Nat,
   us : BOOLEAN, other : BOOLEAN, file : 0 .. MaxFiles]

\* The type of the two friends' file transfers and of the packets between
\* them; the unsigned differences size - transferred and size - requested of
\* file_data, do_reqchunk_filecb and handle_packet never wrap.
FileTypeOK ==
  /\ ft \in [Side -> [Numbers -> FileTransfers]]
  /\ \A e \in Side, n \in Numbers :
       ft[e][n].transferred <= ft[e][n].size /\ ft[e][n].requested <= ft[e][n].size
  /\ num_sending_files \in Nat
  /\ linked \in [Side -> BOOLEAN] /\ connectedTo \in [Side -> BOOLEAN]
  /\ \A e \in Side : \A i \in DOMAIN wire[e] :
       wire[e][i].type \in ControlTypes \cup {"online", "offer", "data"}

\* The position the receiver gives a chunk, which is not on the wire, is the
\* one it was sent from, and the transfer it puts it in is the transfer of
\* the sender's that it belongs to (PACKET_ID_FILE_DATA), through seeks,
\* kills and the reuse of the number, as long as no control packet has met a
\* later transfer of its number.
DataIsRight ==
  LET w == wire["receiver"]
      t == ft["receiver"][Head(w).number]
  IN  ~ crossed /\ w # <<>> /\ Head(w).type = "data" /\ t.status = "Transferring" =>
        /\ t.file = Head(w).file
        /\ t.transferred = Head(w).position

\* A file of which the sender's application was told that it is finished is
\* one of which the receiver's was told that it is complete, or that it
\* killed, as long as no control packet has met a later transfer.
FinishedIsTruthful == ~ crossed => finished \subseteq complete \cup refused

\* What tox.h says of the reuse of file numbers: with the callback of length
\* 0 the transfer is finished and its number is free for the next one.
FinishedMeansDelivered == finished \subseteq complete \cup refused

\* When nothing is on its way, each side knows which side has paused a
\* transfer (paused of file_control and handle_filecontrol), as long as no
\* control packet has met a later transfer.
PausesAgree ==
  \A n \in Numbers :
    LET s == ft["sender"][n]
        r == ft["receiver"][n]
    IN  /\ ~ crossed
        /\ \A e \in Side : wire[e] = <<>> /\ linked[e]
        /\ s.status = "Transferring" /\ r.status = "Transferring"
        => s.us = r.other /\ s.other = r.us

\* The loop of do_reqchunk_filecb reaches every transfer: num_sending_files,
\* at which it stops, is never behind the transfers in use.
EveryFileIsServed == \A n \in Numbers : InUse("sender", n) => Visited(n)

\* The two ends of a transfer agree on where data goes, on what is finished and
\* on pauses, and no transfer is left waiting.
TransfersAgree ==
  /\ FileTypeOK /\ DataIsRight /\ FinishedIsTruthful /\ PausesAgree /\ EveryFileIsServed

=============================================================================
