----------------------------- MODULE PingArray ------------------------------
(***************************************************************************)
(* ping_array.c: a ring of the requests a node has sent.  The number sent  *)
(* along is random but for its place in the ring, so that an answer finds  *)
(* its entry, and an entry is cleared by the first answer, when it has     *)
(* timed out, or when the ring comes round to it.  DHT.c, ping.c and       *)
(* onion_client.c each have one.                                           *)
(*                                                                         *)
(* The random part of a number is the serial number of the request: 64     *)
(* bits of it do not repeat.                                               *)
(***************************************************************************)
EXTENDS Integers, Sequences

CONSTANTS
  ArraySize,    \* total_size, a power of 2
  ArrayWord,    \* 2^32, the range of last_added and last_deleted
  ArrayTimeout, \* timeout
  MaxIssued,    \* bound on the requests
  MaxNow        \* bound on the clock

ASSUME PingArrayAssumption ==
  /\ ArraySize \in Nat \ {0} /\ ArrayTimeout \in Nat \ {0}
  /\ ArrayWord \in Nat \ {0} /\ ArrayWord % ArraySize = 0
  /\ MaxIssued \in Nat /\ MaxNow \in Nat

VARIABLES
  entries, last_deleted, last_added,
  arrayNow,   \* unix_time
  issuedAt,   \* the time of every request so far
  answered    \* the requests whose answers were accepted

pingArrayVars == <<entries, last_deleted, last_added, arrayNow, issuedAt, answered>>

NoEntry == [id |-> 0, time |-> 0, data |-> FALSE]

\* Before its first request a node has been running for longer than a timeout.
PingArrayInit ==
  /\ entries = [i \in 0 .. ArraySize - 1 |-> NoEntry]
  /\ last_deleted = 0 /\ last_added = 0
  /\ arrayNow = ArrayTimeout
  /\ issuedAt = << >>
  /\ answered = << >>

TimedOut(entry) == entry.time + ArrayTimeout <= arrayNow

PingId(serial, index) == serial * ArraySize + index

\* ping_array_clear_timedout: from last_deleted on, up to the first entry that
\* has not timed out.
Cleared ==
  LET index(k) == ((last_deleted + k) % ArrayWord) % ArraySize
      count == (last_added - last_deleted) % ArrayWord
      n == CHOOSE k \in 0 .. count : /\ \A j \in 0 .. k - 1 : TimedOut(entries[index(j)])
                                     /\ k < count => ~TimedOut(entries[index(k)])
  IN  [deleted |-> (last_deleted + n) % ArrayWord,
       entries |-> [i \in DOMAIN entries |-> IF \E j \in 0 .. n - 1 : index(j) = i THEN NoEntry ELSE entries[i]]]

ping_array_add ==
  LET c == Cleared
      index == last_added % ArraySize
      serial == Len(issuedAt) + 1
  IN  /\ serial <= MaxIssued
      /\ last_deleted' = IF c.entries[index].data THEN (last_added - ArraySize) % ArrayWord ELSE c.deleted
      /\ entries' = [c.entries EXCEPT ![index] = [id |-> PingId(serial, index), time |-> arrayNow, data |-> TRUE]]
      /\ last_added' = (last_added + 1) % ArrayWord
      /\ issuedAt' = Append(issuedAt, arrayNow)
      /\ UNCHANGED <<arrayNow, answered>>

\* Mutant of Used: the entry is kept.
Used_Variant(index) == entries

\* clear_entry
Used(index) == [entries EXCEPT ![index] = NoEntry]

Answerable(id) ==
  /\ id # 0
  /\ entries[id % ArraySize].id = id
  /\ ~TimedOut(entries[id % ArraySize])
  /\ entries[id % ArraySize].data

\* The answer to request r, which may come late and more than once.
SentId(r) == PingId(r, ((r - 1) % ArrayWord) % ArraySize)

ping_array_check(r) ==
  /\ Answerable(SentId(r))
  /\ entries' = Used(SentId(r) % ArraySize)
  /\ answered' = Append(answered, r)
  /\ UNCHANGED <<last_deleted, last_added, arrayNow, issuedAt>>

PingTimePasses ==
  /\ arrayNow < MaxNow
  /\ arrayNow' = arrayNow + 1
  /\ UNCHANGED <<entries, last_deleted, last_added, issuedAt, answered>>

PingArrayNext ==
  \/ ping_array_add
  \/ \E r \in 1 .. Len(issuedAt) : ping_array_check(r)
  \/ PingTimePasses

PingArraySpec == PingArrayInit /\ [][PingArrayNext]_pingArrayVars

-----------------------------------------------------------------------------
(* Properties.                                                             *)

Answered(r) == \E k \in DOMAIN answered : answered[k] = r
Expired(r) == issuedAt[r] + ArrayTimeout <= arrayNow

\* A request is given up early only for ArraySize later ones: every answer to
\* one of the last ArraySize requests that comes in time is accepted, also when
\* last_added has wrapped around and whatever last_deleted says (ping_array_add
\* sets it back when it overwrites an entry).
RecentIsAnswerable ==
  \A r \in 1 .. Len(issuedAt) :
    r > Len(issuedAt) - ArraySize /\ ~Expired(r) /\ ~Answered(r) => Answerable(SentId(r))

StatusOf(r) ==
  IF r > Len(issuedAt) THEN "new" ELSE IF Answered(r) THEN "answered"
  ELSE IF Answerable(SentId(r)) THEN "open" ELSE "lost"

Book == INSTANCE RequestBook WITH
  Request <- 1 .. MaxIssued,
  status <- [r \in 1 .. MaxIssued |-> StatusOf(r)],
  answers <- answered

\* The ring implements the book of requests: answers are accepted once, only
\* while the request is open, and a request that was given up is never open
\* again; and it is given up as RecentIsAnswerable says (ping_array_add,
\* ping_array_check).
RefinesBook == Book!BookSpec /\ []RecentIsAnswerable

=============================================================================
