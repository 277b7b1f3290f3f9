---------------------------- MODULE GroupNumbers ----------------------------
(***************************************************************************)
(* The numbers by which a group member tells a message it has had before   *)
(* from a new one (toxcore/group.c).  Members pass on what they get, so     *)
(* copies of one message arrive by several ways, late and out of order.     *)
(* Messages keep the last number; lossy packets a window of flags that      *)
(* moves with the highest number.  The machine is one member's view of one  *)
(* peer, on a stream of one kind, for as long as the peer is in its list:   *)
(* delpeer forgets the numbers and addpeer begins again with none, so that  *)
(* a copy from before is taken once more then.                              *)
(***************************************************************************)
EXTENDS Integers, Sequences

CONSTANTS NumberWord,   \* numbers are taken modulo this: 2^32, and 2^16 for lossy packets
          AheadOfLast,  \* how far a message may be ahead of the last one: 64
          LossyCount,   \* MAX_LOSSY_COUNT
          MaxLag,       \* how far a copy may lag behind the newest number taken
          MaxGap,       \* how many numbers in a row may be lost
          MaxSpoken

ASSUME GroupNumbersAssumption ==
    /\ NumberWord \in Nat \ {0, 1} /\ NumberWord % 2 = 0
    /\ LossyCount \in Nat \ {0, 1} /\ NumberWord % LossyCount = 0
    /\ 2 * LossyCount <= NumberWord
    /\ AheadOfLast \in Nat /\ MaxLag \in Nat /\ MaxGap \in Nat /\ MaxSpoken \in Nat
    \* A copy older than this would pass for a new message.
    /\ MaxLag + AheadOfLast + 2 <= NumberWord
    /\ MaxLag < NumberWord \div 2 + LossyCount - 1
    /\ MaxGap + LossyCount <= NumberWord

Word(n) == n % NumberWord

\* The number after n of a member's messages: 0 is left out.
next_message_number(n) == IF Word(n + 1) = 0 THEN 1 ELSE Word(n + 1)

\* Mutant of message_is_new: the number that was last taken passes again.
message_is_new_Variant(last, number) ==
    last = 0 \/ Word(number - last) <= AheadOfLast

\* handle_message_packet_group: last is last_message_number of the peer.
message_is_new(last, number) ==
    \/ last = 0
    \/ Word(number - last) <= AheadOfLast /\ number # last

\* The fields of a peer that lossy_packet_not_received keeps.
NoLossy == [bottom |-> 0, top |-> 0, recv |-> [i \in 0 .. (LossyCount - 1) |-> FALSE]]

Ends(w, number) == [w EXCEPT !.top = number, !.bottom = Word(number - LossyCount + 1)]

\* Mutant of Slide: the flags of the numbers that leave the window stay.
Slide_Variant(w, number) == Ends(w, number)

\* The window after it has moved up to number: all flags cleared when nothing
\* of the old window is left, else those of the numbers that drop out of it.
Slide(w, number) ==
    LET distance == Word(number - w.top)
        dropped == IF distance >= LossyCount THEN 0 .. (LossyCount - 1)
                   ELSE {(w.bottom + k) % LossyCount : k \in 0 .. (distance - 1)}
    IN Ends([w EXCEPT !.recv = [i \in DOMAIN @ |-> i \notin dropped /\ @[i]]], number)

\* What the window becomes, and whether the packet is taken.
lossy_packet_not_received(w, number) ==
    LET Marked(v) == [taken |-> TRUE, window |-> [v EXCEPT !.recv[number % LossyCount] = TRUE]]
        Refused == [taken |-> FALSE, window |-> w]
        ahead == Word(number - w.bottom)
    IN IF w.bottom = w.top THEN Marked(Ends(w, number))
       ELSE IF ahead < LossyCount
       THEN IF w.recv[number % LossyCount] THEN Refused ELSE Marked(w)
       ELSE IF ahead > NumberWord \div 2 THEN Refused
       ELSE Marked(Slide(w, number))
-----------------------------------------------------------------------------
VARIABLES stream,   \* "message" or "lossy"
          spoken,   \* the numbers the peer has used, in order
          numbersShown,    \* which of them have been shown, in order of showing
          last,     \* last_message_number
          window    \* recv_lossy with bottom_lossy_number and top_lossy_number

groupNumbersVars == <<stream, spoken, numbersShown, last, window>>

ShownNumbers == {numbersShown[i] : i \in DOMAIN numbersShown}

\* How many of the peer's numbers are known to have come.
Newest == IF numbersShown = <<>> THEN 0 ELSE CHOOSE t \in ShownNumbers : \A u \in ShownNumbers : u <= t

GroupNumbersInit == /\ stream \in {"message", "lossy"}
                    /\ spoken = <<>> /\ numbersShown = <<>> /\ last = 0 /\ window = NoLossy

\* send_message_group, send_group_lossy_packet: a lossy stream starts with 0.
Speak ==
    /\ Len(spoken) < MaxSpoken /\ Len(spoken) - Newest < MaxGap
    /\ LET prior == IF spoken = <<>> THEN 0 ELSE spoken[Len(spoken)]
       IN spoken' = Append(spoken, IF stream = "message" THEN next_message_number(prior)
                                   ELSE Word(Len(spoken)))
    /\ UNCHANGED <<stream, numbersShown, last, window>>

\* A copy of the t-th message arrives.
HearMessage(t) ==
    /\ stream = "message"
    /\ message_is_new(last, spoken[t])
    /\ last' = spoken[t]
    /\ numbersShown' = Append(numbersShown, t)
    /\ UNCHANGED <<stream, spoken, window>>

HearLossy(t) ==
    LET r == lossy_packet_not_received(window, spoken[t])
    IN /\ stream = "lossy"
       /\ r.taken
       /\ window' = r.window
       /\ numbersShown' = Append(numbersShown, t)
       /\ UNCHANGED <<stream, spoken, last>>

GroupNumbersNext ==
    \/ Speak
    \/ \E t \in DOMAIN spoken : t + MaxLag >= Newest /\ (HearMessage(t) \/ HearLossy(t))

GroupNumbersSpec == GroupNumbersInit /\ [][GroupNumbersNext]_groupNumbersVars
-----------------------------------------------------------------------------
(* A message is shown once and never after a later one of the same peer,   *)
(* and the window takes exactly the lossy packets that a list of all       *)
(* numbers ever taken would: new, no older than the window reaches and not *)
(* half the numbers ahead, through any number of wraps.                    *)
CopiesAreDropped ==
    /\ stream = "message" => \A i, j \in DOMAIN numbersShown : i < j => numbersShown[i] < numbersShown[j]
    /\ stream = "lossy" =>
          \A t \in DOMAIN spoken : t + MaxLag >= Newest =>
              (lossy_packet_not_received(window, spoken[t]).taken
                  <=> /\ t \notin ShownNumbers
                      /\ Newest # 0 => /\ t > Newest - LossyCount
                                       /\ t - Newest < NumberWord \div 2 - LossyCount + 2)
==============================================================================
