---------------------------- MODULE RequestCodec ----------------------------
(***************************************************************************)
(* The bytes of a request packet (toxcore/net_crypto.c).                   *)
(* generate_request_packet writes, for every packet missing in recv_array, *)
(* its distance from the last one written; a byte 0 stands for MaxRun      *)
(* packets received in a row.  handle_request_packet reads the bytes       *)
(* against its own send_array, whose window starts at the same number and  *)
(* may be longer by now.  One action is one round of the loop.             *)
(*                                                                         *)
(* A packet is its offset in the window.                                   *)
(***************************************************************************)
EXTENDS Integers, Sequences

CONSTANTS
  MaxRun,      \* 255 in the code
  MaxWindow,   \* bound: numbers in the window
  MaxLength    \* bound: bytes that fit in a packet, without the packet id

ASSUME CodecAssumption ==
  /\ MaxRun \in Nat \ {0}
  /\ MaxWindow \in Nat
  /\ MaxLength \in Nat

VARIABLES
  holes,      \* packets missing at the receiver
  window,     \* numbers in the window of its recv_array
  sent,       \* numbers in the window of send_array at the sender
  limit,      \* bytes that fit
  phase,      \* "generate", "handle", "done" or "failed" (return -1)
  offset,     \* i of the two loops, from the start of the window
  count,      \* n of the two loops
  data,       \* the bytes written, then the bytes not yet read
  freed,      \* packets the sender has freed
  requested   \* packets the sender will send again

codecVars == <<holes, window, sent, limit, phase, offset, count, data, freed, requested>>

CodecInit ==
  /\ window \in 0 .. MaxWindow
  /\ sent \in window .. MaxWindow
  /\ holes \in SUBSET (0 .. window - 1)
  /\ limit \in 0 .. MaxLength
  /\ phase = "generate"
  /\ offset = 0 /\ count = 1
  /\ data = <<>>
  /\ freed = {} /\ requested = {}

IsFull == Len(data) >= limit

\* Mutant of Byte: a run looks like a missing packet.
Byte_RunIsNumber == count

\* The byte written in this round, if any.
ByteDue == offset \in holes \/ count = MaxRun

Byte == IF offset \in holes THEN count ELSE 0

generate_request_packet ==
  /\ phase = "generate"
  /\ offset < window /\ ~ IsFull
  /\ data' = IF ByteDue THEN Append(data, Byte) ELSE data
  /\ count' = IF ByteDue THEN 1 ELSE count + 1
  /\ offset' = offset + 1
  /\ UNCHANGED <<holes, window, sent, limit, phase, freed, requested>>

\* The packet reaches the sender.
Deliver ==
  /\ phase = "generate"
  /\ offset = window \/ IsFull
  /\ phase' = "handle"
  /\ offset' = 0 /\ count' = 1
  /\ UNCHANGED <<holes, window, sent, limit, data, freed, requested>>

Listed == count = Head(data)

handle_request_packet ==
  /\ phase = "handle"
  /\ offset < sent /\ data # <<>>
  /\ IF Listed
       THEN /\ requested' = requested \cup {offset}
            /\ count' = 1
            /\ data' = Tail(data)
            /\ UNCHANGED <<freed, phase>>
       ELSE /\ freed' = freed \cup {offset}
            /\ UNCHANGED requested
            /\ IF count # MaxRun
                 THEN count' = count + 1 /\ UNCHANGED <<data, phase>>
                 ELSE /\ count' = 1
                      /\ data' = IF Head(data) = 0 THEN Tail(data) ELSE data
                      /\ phase' = IF Head(data) = 0 THEN phase ELSE "failed"
  /\ offset' = offset + 1
  /\ UNCHANGED <<holes, window, sent, limit>>

Finish ==
  /\ phase = "handle"
  /\ offset = sent \/ data = <<>>
  /\ phase' = "done"
  /\ UNCHANGED <<holes, window, sent, limit, offset, count, data, freed, requested>>

CodecNext == generate_request_packet \/ Deliver \/ handle_request_packet \/ Finish

CodecSpec == CodecInit /\ [][CodecNext]_codecVars

-----------------------------------------------------------------------------
\* The type invariant.
CodecTypeOK ==
  /\ phase \in {"generate", "handle", "done", "failed"}
  /\ offset \in 0 .. MaxWindow
  /\ count \in 1 .. MaxRun
  /\ data \in Seq(0 .. MaxRun)
  /\ Len(data) <= limit
  /\ freed \subseteq 0 .. MaxWindow - 1
  /\ requested \subseteq 0 .. MaxWindow - 1

\* What the two loops do together, as module PacketsArray has it (Holes,
\* ListEnds, handle_request_packet): of the first upto packets the missing
\* ones are requested and the others freed, where the list ends with a missing
\* packet or with a full run, and all missing packets are listed if they fit.
\* handle_request_packet reads all that generate_request_packet wrote, and
\* never gives up on it; and at no point of the loop is a packet freed that the
\* receiver misses.
IsListEnd(upto) ==
  \/ upto = 0
  \/ upto - 1 \in holes
  \/ upto >= MaxRun /\ \A k \in upto - MaxRun .. upto - 1 : k \notin holes

AgreesWithReference ==
  /\ CodecTypeOK
  /\ phase # "failed"
  /\ freed \cap holes = {}
  /\ phase = "done" =>
       /\ data = <<>>
       /\ offset <= window
       /\ IsListEnd(offset)
       /\ requested = holes \cap 0 .. offset - 1
       /\ freed = (0 .. offset - 1) \ holes
       /\ window <= limit => requested = holes

=============================================================================
