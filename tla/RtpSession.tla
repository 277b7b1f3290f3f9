----------------------------- MODULE RtpSession -----------------------------
(***************************************************************************)
(* rtp.c: the frames of one medium of a call.  A frame that is too long    *)
(* for a packet is sent in parts; the receiver has place for one frame in  *)
(* parts (mp) and hands it on when it is full, or as it is when a newer    *)
(* one comes.  The packets are lossy: they get lost, overtake each other,  *)
(* and may arrive twice, for net_crypto keeps no record of the nonces it   *)
(* has seen.                                                               *)
(*                                                                         *)
(* Lengths are in units of bytes.  A unit of a frame is known by the       *)
(* frame's number and its place, 0 is a byte of calloc.  The counts for    *)
(* bwcontroller.c are left out: they change bit rates only.                *)
(***************************************************************************)
EXTENDS Naturals, Sequences, FiniteSets

CONSTANTS
  FrameLength,   \* lengths of frames
  Piece,         \* MAX_CRYPTO_DATA_SIZE less the headers
  SeqWord,       \* 2^16, the numbers of sequnum
  MaxFrames,     \* bound on the frames
  MaxClock,      \* bound on the milliseconds
  MaxTwice       \* bound on the packets that arrive twice

ASSUME RtpAssumption ==
  /\ FrameLength \subseteq Nat \ {0} /\ Piece \in Nat \ {0}
  /\ SeqWord \in Nat \ {0, 1} /\ MaxFrames \in Nat /\ MaxClock \in Nat /\ MaxTwice \in Nat

VARIABLES
  sender,    \* sequnum of the sender, the number of frames so far, and of those
             \* made in this millisecond
  clock,     \* current_time_monotonic
  parts,     \* packets on their way; one that is lost stays among them
  session,   \* the receiver's RTPSession
  handed,    \* history: the messages given to mcb in this session
  twice      \* packets that arrived twice

rtpVars == <<sender, clock, parts, session, handed, twice>>

NoMessage == [seq |-> 0, ts |-> 0, tlen |-> 0, len |-> 0, data |-> << >>]

NewSession == [rseq |-> 0, rts |-> 0, mp |-> NoMessage, receiving |-> TRUE]

RtpInit ==
  /\ sender = [seq |-> 0, frames |-> 0, now |-> 0]
  /\ clock = 0
  /\ parts = {}
  /\ session = NewSession
  /\ handed = << >>
  /\ twice = 0

-----------------------------------------------------------------------------

\* The part that starts at cpart: all but the last are as long as can be.
Part(length, cpart) ==
  [frame |-> sender.frames + 1, seq |-> sender.seq, ts |-> clock, cpart |-> cpart, tlen |-> length,
   size |-> IF length - cpart > Piece THEN Piece ELSE length - cpart]

\* A part that cannot be sent is left out, and the rest sent.  No application makes
\* 2^16 frames in a millisecond.
rtp_send_data(length) ==
  /\ sender.frames < MaxFrames /\ sender.now < SeqWord - 1
  /\ LET all == {Part(length, cpart) : cpart \in {c \in 0 .. length - 1 : c % Piece = 0}}
     IN  parts' = parts \cup all
  /\ sender' = [seq |-> (sender.seq + 1) % SeqWord, frames |-> sender.frames + 1, now |-> sender.now + 1]
  /\ UNCHANGED <<clock, session, handed, twice>>

\* The packet is older than the newest one.
chloss(p) == p.ts < session.rts

Unit(p, i) == <<p.frame, p.cpart + i>>

\* memcpy of the part to its place.
Filled(data, p) ==
  [i \in DOMAIN data |-> IF i > p.cpart /\ i <= p.cpart + p.size THEN Unit(p, i - p.cpart) ELSE data[i]]

\* The part is copied to the beginning and from there to its place: what it
\* leaves at the beginning is not cleared.
new_message(p) ==
  [seq |-> p.seq, ts |-> p.ts, tlen |-> p.tlen, len |-> p.size,
   data |-> Filled([i \in 1 .. p.tlen |-> IF i <= p.size THEN Unit(p, i) ELSE <<0, 0>>], p)]

Push(mp) == IF mp = NoMessage THEN handed ELSE Append(handed, mp)

Newest(p, mp) == [session EXCEPT !.rseq = p.seq, !.rts = p.ts, !.mp = mp]

HandleSingle(p) ==
  IF chloss(p) THEN UNCHANGED <<session, handed>>
  ELSE /\ session' = Newest(p, NoMessage)
       /\ handed' = Append(Push(session.mp), new_message(p))

\* Mutant of IsActive: the number is not compared.
IsActive_Variant(p) == session.mp # NoMessage /\ session.mp.ts = p.ts

\* A part of the frame in mp.
IsActive(p) == session.mp # NoMessage /\ session.mp.seq = p.seq /\ session.mp.ts = p.ts

HandleNextPart(p) ==
  LET mp == session.mp
      next == [mp EXCEPT !.len = @ + p.size, !.data = Filled(@, p)]
  IN  IF mp.tlen - mp.len < p.size \/ mp.tlen <= p.cpart THEN UNCHANGED <<session, handed>>
      ELSE IF next.len = next.tlen
      THEN session' = [session EXCEPT !.mp = NoMessage] /\ handed' = Append(handed, next)
      ELSE session' = [session EXCEPT !.mp = next] /\ UNCHANGED handed

\* Mutant of HandleNewParts: an old part also ends the frame in mp.
HandleNewParts_Variant(p) ==
  /\ handed' = Push(session.mp)
  /\ session' = Newest(p, new_message(p))

\* A part of another frame: it is old, or it ends the frame in mp.  The old frame
\* is handed on before the part is looked at again.
HandleNewParts(p) ==
  IF session.mp # NoMessage /\ session.mp.ts > p.ts THEN UNCHANGED <<session, handed>>
  ELSE /\ handed' = Push(session.mp)
       /\ session' = IF chloss(p) THEN [session EXCEPT !.mp = NoMessage] ELSE Newest(p, new_message(p))

handle_rtp_packet(p) ==
  /\ \/ parts' = parts \ {p} /\ UNCHANGED twice
     \/ twice < MaxTwice /\ twice' = twice + 1 /\ UNCHANGED parts
  /\ IF ~session.receiving THEN UNCHANGED <<session, handed>>
     ELSE IF p.tlen = p.size THEN HandleSingle(p)
     ELSE IF IsActive(p) THEN HandleNextPart(p)
     ELSE HandleNewParts(p)
  /\ UNCHANGED <<sender, clock>>

\* The medium is muted and unmuted; mp stays as it is.
rtp_stop_receiving ==
  /\ session.receiving
  /\ session' = [session EXCEPT !.receiving = FALSE]
  /\ UNCHANGED <<sender, clock, parts, handed, twice>>

rtp_allow_receiving ==
  /\ ~session.receiving
  /\ session' = [session EXCEPT !.receiving = TRUE]
  /\ UNCHANGED <<sender, clock, parts, handed, twice>>

\* The call ends and another begins, with new sessions on both sides; packets of
\* the first one are still on their way.
rtp_new ==
  /\ clock < MaxClock /\ clock' = clock + 1
  /\ sender' = [sender EXCEPT !.seq = 0, !.now = 0]
  /\ session' = NewSession
  /\ handed' = << >>
  /\ UNCHANGED <<parts, twice>>

ClockTicks ==
  /\ clock < MaxClock /\ clock' = clock + 1
  /\ sender' = [sender EXCEPT !.now = 0]
  /\ UNCHANGED <<parts, session, handed, twice>>

RtpNext ==
  \/ \E length \in FrameLength : rtp_send_data(length)
  \/ \E p \in parts : handle_rtp_packet(p)
  \/ rtp_stop_receiving \/ rtp_allow_receiving \/ rtp_new \/ ClockTicks

RtpSpec == RtpInit /\ [][RtpNext]_rtpVars

-----------------------------------------------------------------------------
(* Properties.                                                             *)

\* A message that is as long as its frame is the frame, byte for byte, although
\* parts of several frames come in any order and frames of one millisecond have
\* the same time stamp, unless a packet arrived twice: its length is then counted
\* twice and hides a part that is missing (len of handle_rtp_packet).
FullMessagesAreWhole ==
  twice = 0 =>
    \A k \in DOMAIN handed :
      LET m == handed[k]
      IN  m.len = m.tlen => \A i \in DOMAIN m.data : m.data[i] = <<m.data[1][1], i>>

\* The decoder gets frames in the order in which they were made, from one
\* millisecond to the next (chloss and the test of timestamps before mp is
\* given up), also when packets arrive twice.
DecodesInOrder ==
  \A i, j \in DOMAIN handed : i < j => handed[i].ts <= handed[j].ts

\* Frames come out as they went in, in order, however packets travel
\* (handle_rtp_packet).
FramesAreSound == FullMessagesAreWhole /\ DecodesInOrder

=============================================================================
