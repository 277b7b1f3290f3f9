---------------------------- MODULE RequestBook -----------------------------
(***************************************************************************)
(* What ping_array.h promises about the requests a node sends: an answer   *)
(* is accepted only for a request that is open, and once.  An open request *)
(* may be given up at any time; it is never opened again.                  *)
(***************************************************************************)
EXTENDS Naturals, Sequences

CONSTANT Request   \* requests, in the order they are made

VARIABLES
  status,   \* of every request: new, open, answered or lost
  answers   \* the requests whose answers were accepted, in that order

bookVars == <<status, answers>>

BookInit == status = [r \in Request |-> "new"] /\ answers = << >>

GiveUp(s, lost) == [r \in Request |-> IF r \in lost /\ s[r] = "open" THEN "lost" ELSE s[r]]

Issue(r) ==
  /\ status[r] = "new"
  /\ \E lost \in SUBSET Request : status' = [GiveUp(status, lost) EXCEPT ![r] = "open"]
  /\ UNCHANGED answers

Accept(r) ==
  /\ status[r] = "open"
  /\ status' = [status EXCEPT ![r] = "answered"]
  /\ answers' = Append(answers, r)

Expire ==
  /\ \E lost \in SUBSET Request : status' = GiveUp(status, lost)
  /\ UNCHANGED answers

BookNext == Expire \/ \E r \in Request : Issue(r) \/ Accept(r)

BookSpec == BookInit /\ [][BookNext]_bookVars

=============================================================================
