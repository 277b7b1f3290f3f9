--------------------------- MODULE Requests_proofs ---------------------------
(***************************************************************************)
(* Requests and their answers: the ping_array of pings and onion requests, *)
(* the onion over which announcements travel, and the TCP relay whose      *)
(* clients ask for each other.                                             *)
(*                                                                         *)
(* A ping_array of any size implements the book of requests, and gives up  *)
(* a request in time only for ArraySize later ones: RingKeepsBook. RingInv *)
(* says what the ring holds: an entry in use is that of a request whose    *)
(* place it is and whose answer has not come (Occupied), and each of the   *)
(* last ArraySize requests that is not answered and has not timed out has  *)
(* its entry (Kept).  Of last_deleted it says nothing: the sweep of        *)
(* ping_array_clear_timedout clears timed out entries wherever it starts.  *)
(*                                                                         *)
(* Over the onion, for any nodes, users and paths, answers reach the user  *)
(* they are for, and entries are earned.  An answer that arrives has come  *)
(* over three nodes, each of which knew only the next one.  OnionInv says  *)
(* of every packet, wherever it is, how many parts its return data has and *)
(* that the first part names the user: the one who made the request, and   *)
(* the one the answer is for.  Entries keep such return data for as long   *)
(* as they live, so that data is delivered over it long after.  Of an      *)
(* announcement it says that the id it shows is one its user was told; an  *)
(* entry is made from such an id, and grows old together with the time.    *)
(*                                                                         *)
(* A relay's links are mutual, for any clients, slots and sockets.         *)
(* RelayInv says of the array of connections what its walks rely on: one   *)
(* connection of a key, one slot of a connection for a peer, links that    *)
(* name each other, and a size beyond the last connection that the number  *)
(* of clients bounds; of the sockets, that an open one has an owner and    *)
(* carries packets whose slots exist.                                      *)
(***************************************************************************)
EXTENDS PingArray, OnionAnnounce, TcpRelay, FunctionTheorems, SequenceTheorems, FiniteSetTheorems,
        WellFoundedInduction, TLAPS

-----------------------------------------------------------------------------
(* Places in the ring.                                                     *)

Places == 0 .. ArraySize - 1

\* A multiple of d that is smaller is 0.
LEMMA SmallMultiple ==
  ASSUME NEW d \in Nat \ {0}, NEW k \in Int, NEW x \in Int, x = d * k, x < d, - x < d
  PROVE  x = 0
<1>1. CASE k >= 1
  <2>1. d * k = d + d * (k - 1) /\ d * (k - 1) >= 0
    BY <1>1
  <2> QED
    BY <2>1
<1>2. CASE k <= -1
  <2>1. d * (- k) = d + d * (- k - 1) /\ d * (- k - 1) >= 0
    BY <1>2
  <2>2. d * (- k) = - (d * k)
    OBVIOUS
  <2> QED
    BY <2>1, <2>2
<1>3. CASE k = 0
  BY <1>3
<1> QED
  BY <1>1, <1>2, <1>3

LEMMA Division ==
  ASSUME NEW x \in Nat, NEW d \in Nat \ {0}
  PROVE  x % d \in 0 .. d - 1 /\ \E p \in Int : x = d * p + (x % d)
<1>1. /\ x = d * (x \div d) + (x % d) /\ (x % d) \in 0 .. d - 1
      /\ x \div d \in Int
  BY SMT
<1> QED
  BY <1>1

\* A multiple of d plus a remainder determines both.
LEMMA OneRemainder ==
  ASSUME NEW d \in Nat \ {0}, NEW p \in Int, NEW q \in Int,
         NEW i \in 0 .. d - 1, NEW j \in 0 .. d - 1, d * p + i = d * q + j
  PROVE  i = j /\ p = q
<1>1. i \in Int /\ j \in Int /\ i - j < d /\ -(i - j) < d
  OBVIOUS
<1>2. d * (q - p) = d * q - d * p
  OBVIOUS
<1>3. i - j = d * (q - p)
  <2>1. d * p \in Int /\ d * q \in Int
    OBVIOUS
  <2> QED
    BY <1>1, <1>2, <2>1
<1>4. i - j = 0
  BY <1>1, <1>3, SmallMultiple
<1>5. d * (q - p) = 0
  BY <1>3, <1>4
<1>6. q - p = 0
  BY <1>5
<1> QED
  BY <1>1, <1>4, <1>6

LEMMA OnePlace ==
  ASSUME NEW p \in Int, NEW q \in Int, NEW i \in Places, NEW j \in Places,
         ArraySize * p + i = ArraySize * q + j
  PROVE  i = j /\ p = q
<1>1. ArraySize \in Nat \ {0}
  BY PingArrayAssumption
<1> QED
  BY <1>1, OneRemainder DEF Places

\* Counting on from a remainder.
LEMMA NextRemainder ==
  ASSUME NEW x \in Nat, NEW d \in Nat \ {0}
  PROVE  ((x % d) + 1) % d = (x + 1) % d
<1>1. PICK y \in 0 .. d - 1 : y = x % d
  BY Division
<1>2. PICK p \in Int : x = d * p + y
  BY <1>1, Division
<1>3. PICK i \in 0 .. d - 1 : i = (y + 1) % d
  <2>1. y + 1 \in Nat
    OBVIOUS
  <2> QED
    BY <2>1, Division
<1>4. PICK q \in Int : y + 1 = d * q + i
  <2>1. y + 1 \in Nat
    OBVIOUS
  <2> QED
    BY <1>3, <2>1, Division
<1>5. PICK j \in 0 .. d - 1 : j = (x + 1) % d
  BY Division
<1>6. PICK r \in Int : x + 1 = d * r + j
  <2>1. x + 1 \in Nat
    OBVIOUS
  <2> QED
    BY <1>5, <2>1, Division
<1>7. d * (p + q) + i = d * r + j
  <2>1. d * (p + q) = d * p + d * q
    OBVIOUS
  <2>2. d * p \in Int /\ d * q \in Int /\ d * r \in Int /\ i \in Int /\ j \in Int /\ y \in Int
    OBVIOUS
  <2>3. d * p + (y + 1) = x + 1
    BY <1>2, <2>2
  <2>4. d * p + (d * q + i) = d * r + j
    BY <1>4, <1>6, <2>3
  <2> QED
    BY <2>1, <2>2, <2>4
<1>8. i = j
  BY <1>7, OneRemainder
<1> QED
  BY <1>1, <1>3, <1>5, <1>8

\* The ring fits the word: a number and its remainder have the same place.
LEMMA WrapKeepsPlace ==
  ASSUME NEW x \in Nat
  PROVE  (x % ArrayWord) % ArraySize = x % ArraySize /\ x % ArraySize \in Places
<1>1. ArraySize \in Nat \ {0} /\ ArrayWord \in Nat \ {0} /\ ArrayWord % ArraySize = 0
  BY PingArrayAssumption
<1>2. PICK q \in Int : ArrayWord = ArraySize * q
  <2>1. PICK q \in Int : ArrayWord = ArraySize * q + (ArrayWord % ArraySize)
    BY <1>1, Division
  <2> QED
    BY <1>1, <2>1
<1>3. PICK y \in Nat : y = x % ArrayWord
  BY <1>1, Division
<1>4. PICK p \in Int : x = ArrayWord * p + y
  BY <1>1, <1>3, Division
<1>5. PICK i \in Places : i = x % ArraySize
  BY <1>1, Division DEF Places
<1>6. PICK j \in Places : j = y % ArraySize
  BY <1>1, Division DEF Places
<1>7. PICK a \in Int : x = ArraySize * a + i
  BY <1>1, <1>5, Division
<1>8. PICK b \in Int : y = ArraySize * b + j
  BY <1>1, <1>6, Division
<1>9. x = ArraySize * (q * p + b) + j
  <2>1. ArrayWord * p = ArraySize * (q * p)
    BY <1>1, <1>2
  <2>2. ArraySize * (q * p + b) = ArraySize * (q * p) + ArraySize * b
    BY <1>1
  <2>3. /\ ArraySize * (q * p) \in Int /\ ArraySize * b \in Int /\ j \in Int
    BY <1>1 DEF Places
  <2> QED
    BY <1>4, <1>8, <2>1, <2>2, <2>3
<1>10. i = j
  <2>1. q * p + b \in Int
    OBVIOUS
  <2> QED
    BY <1>7, <1>9, <2>1, OnePlace
<1> QED
  BY <1>3, <1>5, <1>6, <1>10

PlaceInRing(r) == ((r - 1) % ArrayWord) % ArraySize

LEMMA PlaceOf ==
  ASSUME NEW r \in Nat \ {0}
  PROVE  /\ PlaceInRing(r) \in Places /\ PlaceInRing(r) = (r - 1) % ArraySize
         /\ SentId(r) = PingId(r, PlaceInRing(r)) /\ SentId(r) % ArraySize = PlaceInRing(r)
         /\ SentId(r) # 0
<1>1. PlaceInRing(r) \in Places /\ PlaceInRing(r) = (r - 1) % ArraySize
  BY WrapKeepsPlace DEF PlaceInRing
<1>2. SentId(r) = PingId(r, PlaceInRing(r))
  BY DEF SentId, PlaceInRing
<1>3. PICK i \in Places : i = PlaceInRing(r)
  BY <1>1
<1>4. PICK d \in Nat : d = SentId(r)
  <2>1. i \in Nat /\ ArraySize \in Nat
    BY PingArrayAssumption DEF Places
  <2> QED
    BY <1>2, <1>3, <2>1 DEF PingId
<1>5. d = ArraySize * r + i /\ i \in Nat /\ ArraySize \in Nat \ {0}
  BY <1>2, <1>3, <1>4, PingArrayAssumption DEF PingId, Places
<1>6. PICK p \in Int : d = ArraySize * p + (d % ArraySize)
  BY <1>5, Division
<1>7. PICK j \in Places : j = d % ArraySize
  BY <1>5, Division DEF Places
<1>8. d % ArraySize = i
  <2>1. ArraySize * p + j = ArraySize * r + i /\ r \in Int
    BY <1>5, <1>6, <1>7
  <2> QED
    BY <1>7, <2>1, OnePlace
<1>9. d # 0
  <2>1. ArraySize * r > 0
    BY <1>5
  <2> QED
    BY <1>5, <2>1
<1> QED
  BY <1>1, <1>2, <1>3, <1>4, <1>8, <1>9

LEMMA IdsDiffer ==
  ASSUME NEW r \in Nat \ {0}, NEW q \in Nat \ {0}, SentId(r) = SentId(q)
  PROVE  r = q
<1>1. PICK i \in Places : i = PlaceInRing(r)
  BY PlaceOf
<1>2. PICK j \in Places : j = PlaceInRing(q)
  BY PlaceOf
<1>3. r * ArraySize + i = q * ArraySize + j
  BY <1>1, <1>2, PlaceOf DEF PingId
<1>4. ArraySize * r + i = ArraySize * q + j
  <2>1. ArraySize \in Nat
    BY PingArrayAssumption
  <2> QED
    BY <1>3, <2>1
<1> QED
  BY <1>4, OnePlace

\* Requests less than ArraySize apart have different places.
LEMMA PlacesDiffer ==
  ASSUME NEW r \in Nat \ {0}, NEW q \in Nat \ {0}, r < q, q - r < ArraySize
  PROVE  PlaceInRing(r) # PlaceInRing(q)
<1> SUFFICES ASSUME PlaceInRing(r) = PlaceInRing(q) PROVE FALSE
  OBVIOUS
<1>1. ArraySize \in Nat \ {0}
  BY PingArrayAssumption
<1>2. PICK i \in Places : i = PlaceInRing(r)
  BY PlaceOf
<1>3. PICK a \in Int : r - 1 = ArraySize * a + i
  <2>1. i = (r - 1) % ArraySize /\ r - 1 \in Nat
    BY <1>2, PlaceOf
  <2> QED
    BY <1>1, <2>1, Division
<1>4. PICK b \in Int : q - 1 = ArraySize * b + i
  <2>1. i = (q - 1) % ArraySize /\ q - 1 \in Nat
    BY <1>2, PlaceOf
  <2> QED
    BY <1>1, <2>1, Division
<1>5. ArraySize * (b - a) = ArraySize * b - ArraySize * a
  BY <1>1
<1>6. q - r = ArraySize * (b - a)
  <2>1. i \in Int /\ ArraySize * a \in Int /\ ArraySize * b \in Int
    BY <1>1 DEF Places
  <2> QED
    BY <1>3, <1>4, <1>5, <2>1
<1>7. q - r = 0
  <2>1. - (q - r) < ArraySize
    BY <1>1
  <2> QED
    BY <1>1, <1>6, <2>1, SmallMultiple
<1> QED
  BY <1>7

-----------------------------------------------------------------------------
(* The inductive invariant.                                                *)

\* What ping_array_add stores for request r.
EntryOf(r) == [id |-> SentId(r), time |-> issuedAt[r], data |-> TRUE]

Issued == 1 .. Len(issuedAt)

RingType ==
  /\ DOMAIN entries = Places
  /\ last_deleted \in Nat /\ last_added = Len(issuedAt) % ArrayWord
  /\ arrayNow \in Nat
  /\ issuedAt \in Seq(Nat) /\ Len(issuedAt) <= MaxIssued
  /\ answered \in Seq(Nat)

\* Only requests that were made are answered.
AnsweredWereMade == \A r : Answered(r) => r \in Issued

\* What a place of the ring that is in use holds.
Occupied ==
  \A i \in Places :
    \/ entries[i] = NoEntry
    \/ \E r \in Issued : PlaceInRing(r) = i /\ entries[i] = EntryOf(r) /\ ~ Answered(r)

\* The requests that cannot have been given up.
Kept ==
  \A r \in Issued :
    r > Len(issuedAt) - ArraySize /\ ~ Expired(r) /\ ~ Answered(r) => entries[PlaceInRing(r)] = EntryOf(r)

RingInv == RingType /\ AnsweredWereMade /\ Occupied /\ Kept

LEMMA IssuedType == ASSUME RingInv, NEW r \in Issued
                    PROVE  r \in Nat \ {0} /\ r \in 1 .. MaxIssued /\ issuedAt[r] \in Nat
<1>1. issuedAt \in Seq(Nat) /\ Len(issuedAt) \in Nat /\ Len(issuedAt) <= MaxIssued /\ MaxIssued \in Nat
  BY PingArrayAssumption DEF RingInv, RingType
<1> QED
  BY <1>1 DEF Issued

\* ping_array_check accepts the answer to a request exactly while its entry is
\* in the ring and has not timed out.
LEMMA AnswerableIs ==
  ASSUME RingInv, NEW r \in Issued
  PROVE  /\ Answerable(SentId(r)) <=> entries[PlaceInRing(r)] = EntryOf(r) /\ ~ Expired(r)
         /\ Answerable(SentId(r)) => ~ Answered(r)
<1>1. /\ r \in Nat \ {0} /\ PlaceInRing(r) \in Places /\ SentId(r) % ArraySize = PlaceInRing(r)
      /\ SentId(r) # 0
  BY IssuedType, PlaceOf
<1>2. Answerable(SentId(r)) <=> /\ entries[PlaceInRing(r)].id = SentId(r)
                                /\ ~ TimedOut(entries[PlaceInRing(r)]) /\ entries[PlaceInRing(r)].data
  BY <1>1 DEF Answerable
<1>3. entries[PlaceInRing(r)] = EntryOf(r) => /\ entries[PlaceInRing(r)].id = SentId(r) /\ entries[PlaceInRing(r)].data
                                        /\ (TimedOut(entries[PlaceInRing(r)]) <=> Expired(r))
  BY DEF EntryOf, TimedOut, Expired
<1>4. ASSUME Answerable(SentId(r)) PROVE entries[PlaceInRing(r)] = EntryOf(r) /\ ~ Answered(r)
  <2>1. entries[PlaceInRing(r)].id = SentId(r) /\ entries[PlaceInRing(r)].data
    BY <1>2, <1>4
  <2>2. entries[PlaceInRing(r)] # NoEntry
    BY <2>1 DEF NoEntry
  <2>3. PICK q \in Issued : entries[PlaceInRing(r)] = EntryOf(q) /\ ~ Answered(q)
    BY <1>1, <2>2 DEF RingInv, Occupied
  <2>4. SentId(q) = SentId(r) /\ q \in Nat \ {0}
    BY <2>1, <2>3, IssuedType DEF EntryOf
  <2>5. q = r
    BY <1>1, <2>4, IdsDiffer
  <2> QED
    BY <2>3, <2>5
<1> QED
  BY <1>2, <1>3, <1>4

LEMMA InvariantIsRight == RingInv => RecentIsAnswerable
  BY AnswerableIs DEF RingInv, Kept, RecentIsAnswerable, Issued

LEMMA InitRing == PingArrayInit => RingInv
<1> SUFFICES ASSUME PingArrayInit PROVE RingInv
  OBVIOUS
<1>1. Len(issuedAt) = 0 /\ issuedAt \in Seq(Nat) /\ answered \in Seq(Nat) /\ DOMAIN answered = {}
  BY DEF PingArrayInit
<1>2. RingType
  <2>1. 0 % ArrayWord = 0
    BY PingArrayAssumption
  <2> QED
    BY <1>1, <2>1, PingArrayAssumption DEF PingArrayInit, RingType, Places
<1>3. AnsweredWereMade
  BY <1>1 DEF AnsweredWereMade, Answered
<1>4. Occupied /\ Kept
  BY <1>1 DEF Occupied, Kept, Issued, PingArrayInit, Places
<1> QED
  BY <1>2, <1>3, <1>4 DEF RingInv

-----------------------------------------------------------------------------
(* The sweep, and the actions.                                             *)

\* A set of numbers has a least element.
LEMMA LeastNumber ==
  ASSUME NEW S, S \subseteq Nat, S # {}
  PROVE  \E n \in S : \A m \in S : n <= m
<1>1. PICK x \in S : \A y \in S : ~ (<<y, x>> \in OpToRel(<, Nat))
  BY NatLessThanWellFounded, WFMin
<1>2. \A y \in S : ~ (y < x)
  BY <1>1 DEF OpToRel
<1> QED
  BY <1>2

\* ping_array_clear_timedout clears timed out entries and nothing else.
LEMMA SweepIsSound ==
  ASSUME RingInv
  PROVE  /\ DOMAIN Cleared.entries = Places /\ Cleared.deleted \in Nat
         /\ \A i \in Places :
              \/ Cleared.entries[i] = entries[i]
              \/ Cleared.entries[i] = NoEntry /\ TimedOut(entries[i])
<1> DEFINE index(k) == ((last_deleted + k) % ArrayWord) % ArraySize
           count == (last_added - last_deleted) % ArrayWord
           Stops(k) == /\ \A j \in 0 .. k - 1 : TimedOut(entries[index(j)])
                       /\ k < count => ~TimedOut(entries[index(k)])
           n == CHOOSE k \in 0 .. count : Stops(k)
<1>1. /\ last_deleted \in Nat /\ last_added \in Nat /\ ArrayWord \in Nat \ {0}
      /\ ArraySize \in Nat \ {0} /\ DOMAIN entries = Places
  <2>1. ArrayWord \in Nat \ {0} /\ ArraySize \in Nat \ {0} /\ Len(issuedAt) \in Nat
    BY PingArrayAssumption DEF RingInv, RingType
  <2>2. Len(issuedAt) % ArrayWord \in Nat
    BY <2>1, Division
  <2> QED
    BY <2>1, <2>2 DEF RingInv, RingType
<1>2. count \in Nat
  BY <1>1
<1>3. Cleared = [deleted |-> (last_deleted + n) % ArrayWord,
                 entries |-> [i \in DOMAIN entries |->
                   IF \E j \in 0 .. n - 1 : index(j) = i THEN NoEntry ELSE entries[i]]]
  BY DEF Cleared
<1> HIDE DEF index, count
<1>4. \E k \in 0 .. count : Stops(k)
  <2> DEFINE S == {k \in 0 .. count : k < count => ~ TimedOut(entries[index(k)])}
  <2>1. S \subseteq Nat /\ count \in S
    BY <1>2
  <2>2. PICK k \in S : \A m \in S : k <= m
    BY <2>1, LeastNumber
  <2>3. ASSUME NEW j \in 0 .. k - 1 PROVE TimedOut(entries[index(j)])
    <3>1. j \notin S
      BY <1>2, <2>1, <2>2
    <3> QED
      BY <1>2, <3>1
  <2> QED
    BY <2>2, <2>3
<1>5. n \in 0 .. count /\ Stops(n)
  BY <1>4
<1> HIDE DEF n
<1>6. ASSUME NEW j \in 0 .. n - 1 PROVE TimedOut(entries[index(j)])
  BY <1>5
<1>7. (last_deleted + n) % ArrayWord \in Nat
  <2>1. last_deleted + n \in Nat
    BY <1>1, <1>2, <1>5
  <2> QED
    BY <1>1, <2>1, Division
<1>8. /\ DOMAIN Cleared.entries = Places /\ Cleared.deleted \in Nat
      /\ \A i \in Places : Cleared.entries[i]
                          = IF \E j \in 0 .. n - 1 : index(j) = i THEN NoEntry ELSE entries[i]
  BY <1>1, <1>3, <1>7
<1> QED
  BY <1>6, <1>8

\* What ping_array_add, which makes request n, leaves of the ring, of the requests and of the answers.
LEMMA AfterAdd ==
  ASSUME RingInv, ping_array_add, NEW n, n = Len(issuedAt) + 1
  PROVE  /\ n \in Nat \ {0} /\ n \in 1 .. MaxIssued /\ n \notin Issued
         /\ Issued' = Issued \cup {n} /\ Len(issuedAt)' = n
         /\ \A r \in Issued : EntryOf(r)' = EntryOf(r) /\ (Expired(r)' <=> Expired(r))
         /\ \A r : Answered(r)' <=> Answered(r)
         /\ entries'[PlaceInRing(n)] = EntryOf(n)' /\ ~ Expired(n)'
         /\ \A i \in Places : i # PlaceInRing(n) =>
              \/ entries'[i] = entries[i]
              \/ entries'[i] = NoEntry /\ TimedOut(entries[i])
<1>1. /\ issuedAt \in Seq(Nat) /\ Len(issuedAt) \in Nat /\ arrayNow \in Nat
      /\ MaxIssued \in Nat /\ ArrayTimeout \in Nat \ {0}
  BY PingArrayAssumption DEF RingInv, RingType
<1>2. /\ n <= MaxIssued /\ issuedAt' = Append(issuedAt, arrayNow)
      /\ arrayNow' = arrayNow /\ answered' = answered
  BY DEF ping_array_add
<1>3. /\ Len(issuedAt') = n /\ issuedAt'[n] = arrayNow
      /\ \A r \in Issued : issuedAt'[r] = issuedAt[r]
  BY <1>1, <1>2 DEF Issued
<1>4. /\ n \in Nat \ {0} /\ n \in 1 .. MaxIssued /\ n \notin Issued
  BY <1>1, <1>2 DEF Issued
<1>5. Issued' = Issued \cup {n} /\ Len(issuedAt)' = n
  BY <1>1, <1>3 DEF Issued
<1>6. \A r \in Issued : EntryOf(r)' = EntryOf(r) /\ (Expired(r)' <=> Expired(r))
  BY <1>2, <1>3 DEF EntryOf, Expired, SentId, PingId
<1>7. (\A r : Answered(r)' <=> Answered(r)) /\ ~ Expired(n)'
  <2>1. ~ (arrayNow + ArrayTimeout <= arrayNow)
    BY <1>1
  <2> QED
    BY <1>2, <1>3, <2>1 DEF Answered, Expired
<1>8. PlaceInRing(n) \in Places /\ last_added % ArraySize = PlaceInRing(n)
  <2>1. n - 1 = Len(issuedAt)
    BY <1>1
  <2> QED
    BY <1>4, <2>1, PlaceOf DEF RingInv, RingType, PlaceInRing
<1>9. entries' = [Cleared.entries EXCEPT ![PlaceInRing(n)] =
                    [id |-> PingId(n, PlaceInRing(n)), time |-> arrayNow, data |-> TRUE]]
  BY <1>8 DEF ping_array_add
<1>10. entries'[PlaceInRing(n)] = EntryOf(n)'
  <2>1. EntryOf(n)' = [id |-> SentId(n), time |-> arrayNow, data |-> TRUE]
    <3>1. \A r : EntryOf(r)' = [id |-> SentId(r), time |-> issuedAt'[r], data |-> TRUE]
      BY DEF EntryOf, SentId, PingId
    <3> QED
      BY <1>3, <3>1
  <2> QED
    BY <1>4, <1>8, <1>9, <2>1, PlaceOf, SweepIsSound
<1>11. \A i \in Places : i # PlaceInRing(n) =>
         \/ entries'[i] = entries[i]
         \/ entries'[i] = NoEntry /\ TimedOut(entries[i])
  BY <1>9, SweepIsSound
<1> QED
  BY <1>4, <1>5, <1>6, <1>7, <1>10, <1>11

LEMMA AddKeepsRing ==
  ASSUME RingInv, ping_array_add
  PROVE  RingInv'
<1>1. PICK n : n = Len(issuedAt) + 1
  OBVIOUS
<1>2. /\ n \in Nat \ {0} /\ n \in 1 .. MaxIssued /\ n \notin Issued
      /\ Issued' = Issued \cup {n} /\ Len(issuedAt)' = n
      /\ \A r \in Issued : EntryOf(r)' = EntryOf(r) /\ (Expired(r)' <=> Expired(r))
      /\ \A r : Answered(r)' <=> Answered(r)
      /\ entries'[PlaceInRing(n)] = EntryOf(n)'
      /\ \A i \in Places : i # PlaceInRing(n) =>
           \/ entries'[i] = entries[i]
           \/ entries'[i] = NoEntry /\ TimedOut(entries[i])
  BY <1>1, AfterAdd
<1>3. RingType'
  <2>1. /\ ArrayWord \in Nat \ {0} /\ ArraySize \in Nat /\ MaxIssued \in Nat /\ Len(issuedAt) \in Nat
        /\ arrayNow \in Nat /\ issuedAt \in Seq(Nat) /\ answered \in Seq(Nat)
        /\ last_added = Len(issuedAt) % ArrayWord
    BY PingArrayAssumption DEF RingInv, RingType
  <2>2. DOMAIN entries' = Places
    BY SweepIsSound DEF ping_array_add
  <2>3. last_deleted' \in Nat
    <3>1. last_added \in Nat
      BY <2>1, Division
    <3>2. (last_added - ArraySize) % ArrayWord \in Nat
      BY <2>1, <3>1
    <3> QED
      BY <3>2, SweepIsSound DEF ping_array_add
  <2>4. last_added' = Len(issuedAt)' % ArrayWord
    <3>1. last_added' = ((Len(issuedAt) % ArrayWord) + 1) % ArrayWord
      BY <2>1 DEF ping_array_add
    <3>2. PICK x \in Nat : x = Len(issuedAt)
      BY <2>1
    <3>3. last_added' = (x + 1) % ArrayWord
      BY <2>1, <3>1, <3>2, NextRemainder
    <3> QED
      BY <1>1, <1>2, <3>2, <3>3
  <2>5. /\ arrayNow' \in Nat /\ issuedAt' \in Seq(Nat) /\ answered' \in Seq(Nat)
    BY <2>1 DEF ping_array_add
  <2>6. Len(issuedAt)' <= MaxIssued
    BY <1>2, <2>1
  <2> QED
    BY <2>2, <2>3, <2>4, <2>5, <2>6 DEF RingType, Places
<1>4. AnsweredWereMade'
  <2>1. ASSUME NEW r, Answered(r)' PROVE r \in Issued'
    BY <1>2, <2>1 DEF RingInv, AnsweredWereMade
  <2> QED
    BY <2>1 DEF AnsweredWereMade
<1>5. ASSUME NEW i \in Places
      PROVE  \/ entries'[i] = NoEntry
             \/ \E r \in Issued' : PlaceInRing(r) = i /\ entries'[i] = EntryOf(r)' /\ ~ Answered(r)'
  <2>1. CASE i = PlaceInRing(n)
    <3>1. ~ Answered(n)'
      BY <1>2 DEF RingInv, AnsweredWereMade
    <3> QED
      BY <1>2, <2>1, <3>1
  <2>2. CASE i # PlaceInRing(n) /\ entries'[i] = entries[i]
    <3>1. \/ entries[i] = NoEntry
          \/ \E r \in Issued : PlaceInRing(r) = i /\ entries[i] = EntryOf(r) /\ ~ Answered(r)
      BY DEF RingInv, Occupied
    <3> QED
      BY <1>2, <2>2, <3>1
  <2> QED
    BY <1>2, <2>1, <2>2
<1>6. Occupied'
  BY <1>5 DEF Occupied, Places, NoEntry, PlaceInRing
<1>7. ASSUME NEW r \in Issued', r > Len(issuedAt)' - ArraySize, ~ Expired(r)', ~ Answered(r)'
      PROVE  entries'[PlaceInRing(r)] = EntryOf(r)'
  <2>1. CASE r = n
    BY <1>2, <2>1
  <2>2. CASE r # n
    <3>1. r \in Issued /\ r \in Nat \ {0} /\ PlaceInRing(r) \in Places
      BY <1>2, <2>2, IssuedType, PlaceOf
    <3>2. ArraySize \in Nat /\ Len(issuedAt) \in Nat
      BY PingArrayAssumption DEF RingInv, RingType
    <3>3. r < n /\ n - r < ArraySize /\ r > Len(issuedAt) - ArraySize
      BY <1>1, <1>2, <1>7, <3>1, <3>2 DEF Issued
    <3>4. PlaceInRing(r) # PlaceInRing(n)
      BY <1>2, <3>1, <3>3, PlacesDiffer
    <3>5. entries[PlaceInRing(r)] = EntryOf(r) /\ ~ TimedOut(entries[PlaceInRing(r)])
      <4>1. entries[PlaceInRing(r)] = EntryOf(r) /\ ~ Expired(r)
        BY <1>2, <1>7, <3>1, <3>3 DEF RingInv, Kept
      <4> QED
        BY <4>1 DEF EntryOf, TimedOut, Expired
    <3> QED
      BY <1>2, <3>1, <3>4, <3>5
  <2> QED
    BY <2>1, <2>2
<1>8. Kept'
  BY <1>7 DEF Kept, PlaceInRing
<1> QED
  BY <1>3, <1>4, <1>6, <1>8 DEF RingInv

LEMMA CheckKeepsRing ==
  ASSUME RingInv, NEW r \in Issued, ping_array_check(r)
  PROVE  /\ RingInv'
         /\ entries' = [entries EXCEPT ![PlaceInRing(r)] = NoEntry]
         /\ \A q : Answered(q)' <=> (q = r \/ Answered(q))
<1>1. /\ r \in Nat \ {0} /\ PlaceInRing(r) \in Places /\ SentId(r) % ArraySize = PlaceInRing(r)
  BY IssuedType, PlaceOf
<1>2. /\ entries' = [entries EXCEPT ![PlaceInRing(r)] = NoEntry] /\ answered' = Append(answered, r)
      /\ UNCHANGED <<last_deleted, last_added, arrayNow, issuedAt>>
  BY <1>1 DEF ping_array_check, Used
<1>3. entries[PlaceInRing(r)] = EntryOf(r)
  BY AnswerableIs DEF ping_array_check
<1>4. \A q : Answered(q)' <=> (q = r \/ Answered(q))
  <2>1. answered \in Seq(Nat) /\ Len(answered) \in Nat
    BY DEF RingInv, RingType
  <2>2. /\ DOMAIN answered' = DOMAIN answered \cup {Len(answered) + 1}
        /\ answered'[Len(answered) + 1] = r
        /\ \A k \in DOMAIN answered : answered'[k] = answered[k]
    BY <1>1, <1>2, <2>1
  <2> QED
    BY <2>2 DEF Answered
<1>5. Issued' = Issued /\ \A q : EntryOf(q)' = EntryOf(q) /\ (Expired(q)' <=> Expired(q))
  BY <1>2 DEF Issued, EntryOf, Expired, SentId, PingId
<1>6. RingType'
  BY <1>1, <1>2 DEF RingInv, RingType, Places
<1>7. AnsweredWereMade'
  BY <1>4, <1>5 DEF RingInv, AnsweredWereMade
<1>8. ASSUME NEW i \in Places
      PROVE  \/ entries'[i] = NoEntry
             \/ \E q \in Issued : PlaceInRing(q) = i /\ entries'[i] = EntryOf(q) /\ ~ Answered(q)'
  <2>1. CASE i = PlaceInRing(r)
    BY <1>1, <1>2, <2>1 DEF RingInv, RingType
  <2>2. CASE i # PlaceInRing(r)
    <3>1. entries'[i] = entries[i]
      BY <1>2, <2>2 DEF RingInv, RingType
    <3>2. \/ entries[i] = NoEntry
          \/ \E q \in Issued : PlaceInRing(q) = i /\ entries[i] = EntryOf(q) /\ ~ Answered(q)
      BY DEF RingInv, Occupied
    <3> QED
      BY <1>4, <2>2, <3>1, <3>2
  <2> QED
    BY <2>1, <2>2
<1>9. Occupied'
  BY <1>5, <1>8 DEF Occupied, Places, NoEntry, PlaceInRing
<1>10. ASSUME NEW q \in Issued, q > Len(issuedAt) - ArraySize, ~ Expired(q), ~ Answered(q)'
       PROVE  entries'[PlaceInRing(q)] = EntryOf(q)
  <2>1. entries[PlaceInRing(q)] = EntryOf(q) /\ q # r
    BY <1>4, <1>10 DEF RingInv, Kept
  <2>2. PlaceInRing(q) # PlaceInRing(r)
    <3> SUFFICES ASSUME PlaceInRing(q) = PlaceInRing(r) PROVE FALSE
      OBVIOUS
    <3>1. SentId(q) = SentId(r)
      BY <1>3, <2>1 DEF EntryOf
    <3> QED
      BY <1>1, <2>1, <3>1, IssuedType, IdsDiffer
  <2> QED
    BY <1>2, <2>1, <2>2, IssuedType, PlaceOf DEF RingInv, RingType
<1>11. Kept'
  BY <1>2, <1>5, <1>10 DEF Kept, PlaceInRing
<1> QED
  BY <1>2, <1>4, <1>6, <1>7, <1>9, <1>11 DEF RingInv

LEMMA TimeKeepsRing ==
  ASSUME RingInv, PingTimePasses
  PROVE  RingInv'
<1>1. /\ arrayNow \in Nat /\ arrayNow' = arrayNow + 1 /\ ArrayTimeout \in Nat
      /\ UNCHANGED <<entries, last_deleted, last_added, issuedAt, answered>>
  BY PingArrayAssumption DEF RingInv, RingType, PingTimePasses
<1>2. \A r \in Issued : Expired(r) => Expired(r)'
  BY <1>1, IssuedType DEF Expired
<1>3. RingType' /\ AnsweredWereMade' /\ Occupied'
  BY <1>1 DEF RingInv, RingType, AnsweredWereMade, Occupied, Answered, Issued, EntryOf, Places,
     NoEntry, PlaceInRing, SentId, PingId
<1>4. Kept'
  BY <1>1, <1>2 DEF RingInv, Kept, Answered, Issued, EntryOf, PlaceInRing, SentId, PingId
<1> QED
  BY <1>3, <1>4 DEF RingInv

-----------------------------------------------------------------------------
(* The refinement.                                                         *)

Requests == 1 .. MaxIssued

\* A step that at most gives requests up, in the words of the book.
LEMMA BookExpires ==
  ASSUME \A r \in Requests : \/ StatusOf(r)' = StatusOf(r)
                             \/ StatusOf(r) = "open" /\ StatusOf(r)' = "lost",
         answered' = answered
  PROVE  Book!Expire
<1> DEFINE lost == {r \in Requests : StatusOf(r)' = "lost"}
<1>1. lost \in SUBSET Requests
  OBVIOUS
<1>2. [r \in Requests |-> StatusOf(r)']
        = [r \in Requests |-> IF r \in lost /\ [q \in Requests |-> StatusOf(q)][r] = "open"
                                THEN "lost" ELSE [q \in Requests |-> StatusOf(q)][r]]
  OBVIOUS
<1> QED
  BY <1>1, <1>2 DEF Book!Expire, Book!GiveUp, Requests

LEMMA BookIssues ==
  ASSUME NEW n \in Requests, StatusOf(n) = "new", StatusOf(n)' = "open",
         \A r \in Requests \ {n} : \/ StatusOf(r)' = StatusOf(r)
                                   \/ StatusOf(r) = "open" /\ StatusOf(r)' = "lost",
         answered' = answered
  PROVE  Book!Issue(n)
<1> DEFINE lost == {r \in Requests : StatusOf(r)' = "lost"}
           s == [q \in Requests |-> StatusOf(q)]
<1>1. lost \in SUBSET Requests
  OBVIOUS
<1>2. [r \in Requests |-> StatusOf(r)']
        = [[r \in Requests |-> IF r \in lost /\ s[r] = "open" THEN "lost" ELSE s[r]]
             EXCEPT ![n] = "open"]
  OBVIOUS
<1> QED
  BY <1>1, <1>2 DEF Book!Issue, Book!GiveUp, Requests

LEMMA BookAccepts ==
  ASSUME NEW r \in Requests, StatusOf(r) = "open", StatusOf(r)' = "answered",
         \A q \in Requests \ {r} : StatusOf(q)' = StatusOf(q),
         answered' = Append(answered, r)
  PROVE  Book!Accept(r)
<1>1. [q \in Requests |-> StatusOf(q)']
        = [[q \in Requests |-> StatusOf(q)] EXCEPT ![r] = "answered"]
  OBVIOUS
<1> QED
  BY <1>1 DEF Book!Accept, Requests

\* ping_array_add opens one request; others it may give up, none it opens again.
LEMMA AddRefines ==
  ASSUME RingInv, ping_array_add
  PROVE  Book!BookNext
<1>1. PICK n : n = Len(issuedAt) + 1
  OBVIOUS
<1>2. /\ n \in Nat \ {0} /\ n \in Requests /\ n \notin Issued
      /\ Issued' = Issued \cup {n} /\ Len(issuedAt)' = n
      /\ \A r : Answered(r)' <=> Answered(r)
      /\ entries'[PlaceInRing(n)] = EntryOf(n)' /\ ~ Expired(n)'
      /\ \A i \in Places : i # PlaceInRing(n) =>
           \/ entries'[i] = entries[i]
           \/ entries'[i] = NoEntry /\ TimedOut(entries[i])
  BY <1>1, AfterAdd DEF Requests
<1>3. arrayNow' = arrayNow /\ answered' = answered /\ Len(issuedAt) \in Nat /\ MaxIssued \in Nat
  <2>1. Len(issuedAt) \in Nat /\ MaxIssued \in Nat
    BY PingArrayAssumption DEF RingInv, RingType
  <2> QED
    BY <2>1 DEF ping_array_add
<1>4. /\ PlaceInRing(n) \in Places /\ SentId(n) % ArraySize = PlaceInRing(n) /\ SentId(n) # 0
  BY <1>2, PlaceOf
<1>5. entries'[PlaceInRing(n)].id = SentId(n)
  <2>1. EntryOf(n)'.id = SentId(n)
    BY DEF EntryOf, SentId, PingId
  <2> QED
    BY <1>2, <2>1
<1>6. Answerable(SentId(n))'
  <2>1. EntryOf(n)'.data /\ EntryOf(n)'.time = issuedAt'[n]
    BY DEF EntryOf, SentId, PingId
  <2>2. ~ (entries'[PlaceInRing(n)].time + ArrayTimeout <= arrayNow') /\ entries'[PlaceInRing(n)].data
    BY <1>2, <2>1 DEF Expired
  <2> QED
    BY <1>4, <1>5, <2>2 DEF Answerable, TimedOut, SentId, PingId
<1>7. StatusOf(n) = "new" /\ StatusOf(n)' = "open"
  <2>1. ~ Answered(n)'
    BY <1>2 DEF RingInv, AnsweredWereMade
  <2>2. n > Len(issuedAt) /\ ~ (n > Len(issuedAt)')
    BY <1>1, <1>2, <1>3
  <2> QED
    BY <1>6, <2>1, <2>2 DEF StatusOf, SentId, PingId
<1>8. ASSUME NEW r \in Issued, Answerable(SentId(r))' PROVE Answerable(SentId(r))
  <2>1. /\ r \in Nat \ {0} /\ PlaceInRing(r) \in Places /\ SentId(r) % ArraySize = PlaceInRing(r) /\ SentId(r) # 0
    BY IssuedType, PlaceOf
  <2>2. /\ entries'[PlaceInRing(r)].id = SentId(r) /\ entries'[PlaceInRing(r)].data
        /\ ~ (entries'[PlaceInRing(r)].time + ArrayTimeout <= arrayNow)
    BY <1>3, <1>8, <2>1 DEF Answerable, TimedOut, SentId, PingId
  <2>3. PlaceInRing(r) # PlaceInRing(n)
    <3> SUFFICES ASSUME PlaceInRing(r) = PlaceInRing(n) PROVE FALSE
      OBVIOUS
    <3>1. SentId(r) = SentId(n)
      BY <1>5, <2>2
    <3> QED
      BY <1>2, <2>1, <3>1, IdsDiffer
  <2>4. entries'[PlaceInRing(r)] # NoEntry
    BY <2>2 DEF NoEntry
  <2>5. entries'[PlaceInRing(r)] = entries[PlaceInRing(r)]
    BY <1>2, <2>1, <2>3, <2>4
  <2> QED
    BY <2>1, <2>2, <2>5 DEF Answerable, TimedOut
<1>9. ASSUME NEW r \in Requests \ {n}
      PROVE  \/ StatusOf(r)' = StatusOf(r)
             \/ StatusOf(r) = "open" /\ StatusOf(r)' = "lost"
  <2>1. CASE r > Len(issuedAt)
    <3>1. r > Len(issuedAt)'
      BY <1>1, <1>2, <1>3, <2>1 DEF Requests
    <3> QED
      BY <2>1, <3>1 DEF StatusOf
  <2>2. CASE ~ (r > Len(issuedAt))
    <3>1. ~ (r > Len(issuedAt)') /\ r \in Issued
      BY <1>1, <1>2, <1>3, <2>2 DEF Requests, Issued
    <3> QED
      BY <1>2, <1>8, <2>2, <3>1 DEF StatusOf, SentId, PingId
  <2> QED
    BY <2>1, <2>2
<1>10. Book!Issue(n)
  BY <1>2, <1>3, <1>7, <1>9, BookIssues
<1> QED
  BY <1>2, <1>10 DEF Book!BookNext, Requests

\* ping_array_check takes an answer to an open request, which it closes.
LEMMA CheckRefines ==
  ASSUME RingInv, NEW r \in Issued, ping_array_check(r)
  PROVE  Book!BookNext
<1>1. /\ entries' = [entries EXCEPT ![PlaceInRing(r)] = NoEntry]
      /\ \A q : Answered(q)' <=> (q = r \/ Answered(q))
  BY CheckKeepsRing
<1>2. answered' = Append(answered, r) /\ issuedAt' = issuedAt /\ arrayNow' = arrayNow
  BY DEF ping_array_check
<1>3. r \in Nat \ {0} /\ r \in Requests /\ PlaceInRing(r) \in Places
  BY IssuedType, PlaceOf DEF Requests
<1>4. Answerable(SentId(r)) /\ ~ Answered(r) /\ entries[PlaceInRing(r)] = EntryOf(r)
  BY AnswerableIs DEF ping_array_check
<1>5. StatusOf(r) = "open" /\ StatusOf(r)' = "answered"
  <2>1. ~ (r > Len(issuedAt)) /\ ~ (r > Len(issuedAt)')
    BY <1>2 DEF Issued
  <2> QED
    BY <1>1, <1>4, <2>1 DEF StatusOf
<1>6. ASSUME NEW q \in Issued, q # r PROVE Answerable(SentId(q))' <=> Answerable(SentId(q))
  <2>1. /\ q \in Nat \ {0} /\ PlaceInRing(q) \in Places /\ SentId(q) % ArraySize = PlaceInRing(q)
    BY IssuedType, PlaceOf
  <2>2. CASE PlaceInRing(q) = PlaceInRing(r)
    <3>1. entries'[PlaceInRing(q)] = NoEntry
      BY <1>1, <1>3, <2>2 DEF RingInv, RingType
    <3>2. ~ Answerable(SentId(q))'
      BY <2>1, <3>1 DEF Answerable, NoEntry, SentId, PingId
    <3>3. SentId(q) # SentId(r)
      BY <1>3, <1>6, <2>1, IdsDiffer
    <3>4. ~ Answerable(SentId(q))
      BY <1>4, <2>1, <2>2, <3>3 DEF Answerable, EntryOf
    <3> QED
      BY <3>2, <3>4
  <2>3. CASE PlaceInRing(q) # PlaceInRing(r)
    <3>1. entries'[PlaceInRing(q)] = entries[PlaceInRing(q)]
      BY <1>1, <2>1, <2>3 DEF RingInv, RingType
    <3> QED
      BY <1>2, <2>1, <3>1 DEF Answerable, TimedOut, SentId, PingId
  <2> QED
    BY <2>2, <2>3
<1>7. ASSUME NEW q \in Requests \ {r} PROVE StatusOf(q)' = StatusOf(q)
  <2>1. CASE q > Len(issuedAt)
    BY <1>2, <2>1 DEF StatusOf
  <2>2. CASE ~ (q > Len(issuedAt))
    <3>1. q \in Issued
      <4>1. Len(issuedAt) \in Nat /\ MaxIssued \in Nat
        BY PingArrayAssumption DEF RingInv, RingType
      <4> QED
        BY <2>2, <4>1 DEF Requests, Issued
    <3> QED
      BY <1>1, <1>2, <1>6, <2>2, <3>1 DEF StatusOf, SentId, PingId
  <2> QED
    BY <2>1, <2>2
<1>8. Book!Accept(r)
  BY <1>2, <1>3, <1>5, <1>7, BookAccepts
<1> QED
  BY <1>3, <1>8 DEF Book!BookNext, Requests

\* Time gives requests up.
LEMMA TimeRefines ==
  ASSUME RingInv, PingTimePasses
  PROVE  Book!BookNext
<1>1. /\ arrayNow \in Nat /\ arrayNow' = arrayNow + 1 /\ ArrayTimeout \in Nat
      /\ UNCHANGED <<entries, issuedAt, answered>>
  BY PingArrayAssumption DEF RingInv, RingType, PingTimePasses
<1>2. ASSUME NEW r \in Issued, Answerable(SentId(r))' PROVE Answerable(SentId(r))
  <2>1. /\ r \in Nat \ {0} /\ PlaceInRing(r) \in Places /\ SentId(r) % ArraySize = PlaceInRing(r)
        /\ SentId(r) # 0
    BY IssuedType, PlaceOf
  <2>2. entries[PlaceInRing(r)].id = SentId(r) /\ entries[PlaceInRing(r)].data
    BY <1>1, <1>2, <2>1 DEF Answerable, SentId, PingId
  <2>3. entries[PlaceInRing(r)].time \in Nat
    <3>1. entries[PlaceInRing(r)] # NoEntry
      BY <2>2 DEF NoEntry
    <3>2. PICK q \in Issued : entries[PlaceInRing(r)] = EntryOf(q)
      BY <2>1, <3>1 DEF RingInv, Occupied
    <3> QED
      BY <3>2, IssuedType DEF EntryOf
  <2>4. ~ (entries[PlaceInRing(r)].time + ArrayTimeout <= arrayNow + 1)
    BY <1>1, <1>2, <2>1 DEF Answerable, TimedOut, SentId, PingId
  <2>5. ~ (entries[PlaceInRing(r)].time + ArrayTimeout <= arrayNow)
    BY <1>1, <2>3, <2>4
  <2> QED
    BY <2>1, <2>2, <2>5 DEF Answerable, TimedOut
<1>3. ASSUME NEW r \in Requests
      PROVE  \/ StatusOf(r)' = StatusOf(r)
             \/ StatusOf(r) = "open" /\ StatusOf(r)' = "lost"
  <2>1. \A q : Answered(q)' <=> Answered(q)
    BY <1>1 DEF Answered
  <2>2. CASE r > Len(issuedAt)
    BY <1>1, <2>2 DEF StatusOf
  <2>3. CASE ~ (r > Len(issuedAt))
    <3>1. r \in Issued
      <4>1. Len(issuedAt) \in Nat /\ MaxIssued \in Nat
        BY PingArrayAssumption DEF RingInv, RingType
      <4> QED
        BY <2>3, <4>1 DEF Requests, Issued
    <3> QED
      BY <1>1, <1>2, <2>1, <2>3, <3>1 DEF StatusOf, SentId, PingId
  <2> QED
    BY <2>2, <2>3
<1>4. Book!Expire
  BY <1>1, <1>3, BookExpires
<1> QED
  BY <1>4 DEF Book!BookNext

LEMMA NextRing ==
  RingInv /\ [PingArrayNext]_pingArrayVars => RingInv' /\ [Book!BookNext]_(Book!bookVars)
<1> SUFFICES ASSUME RingInv, [PingArrayNext]_pingArrayVars
             PROVE  RingInv' /\ [Book!BookNext]_(Book!bookVars)
  OBVIOUS
<1>1. CASE ping_array_add
  BY <1>1, AddKeepsRing, AddRefines
<1>2. ASSUME NEW r \in 1 .. Len(issuedAt), ping_array_check(r)
      PROVE  RingInv' /\ [Book!BookNext]_(Book!bookVars)
  BY <1>2, CheckKeepsRing, CheckRefines DEF Issued
<1>3. CASE PingTimePasses
  BY <1>3, TimeKeepsRing, TimeRefines
<1>4. CASE UNCHANGED pingArrayVars
  <2>1. /\ entries' = entries /\ last_deleted' = last_deleted /\ last_added' = last_added
        /\ arrayNow' = arrayNow /\ issuedAt' = issuedAt /\ answered' = answered
    BY <1>4 DEF pingArrayVars
  <2>2. RingInv'
    BY <2>1 DEF RingInv, RingType, AnsweredWereMade, Occupied, Kept, Answered, Expired, Issued,
       EntryOf, Places, NoEntry, PlaceInRing, SentId, PingId
  <2>3. \A r : StatusOf(r)' = StatusOf(r)
    BY <2>1 DEF StatusOf, Answered, Answerable, TimedOut, SentId, PingId
  <2> QED
    BY <2>1, <2>2, <2>3 DEF Book!bookVars
<1> QED
  BY <1>1, <1>2, <1>3, <1>4 DEF PingArrayNext

\* For a ring of any size, any timeout and a counter that wraps: an answer is
\* accepted once and only while its request is open, what ping_array_add or time
\* has given up is never open again, and each of the last ArraySize requests can
\* be answered until it times out (ping_array_add, ping_array_check).
THEOREM RingKeepsBook == PingArraySpec => RefinesBook
<1>1. PingArrayInit => Book!BookInit
  <2> SUFFICES ASSUME PingArrayInit PROVE Book!BookInit
    OBVIOUS
  <2>1. \A r \in 1 .. MaxIssued : StatusOf(r) = "new"
    BY PingArrayAssumption DEF PingArrayInit, StatusOf
  <2> QED
    BY <2>1 DEF PingArrayInit, Book!BookInit
<1>2. RingInv /\ [PingArrayNext]_pingArrayVars => RingInv'
  BY NextRing
<1>3. RingInv /\ [PingArrayNext]_pingArrayVars => [Book!BookNext]_(Book!bookVars)
  BY NextRing
<1> QED
  BY <1>1, <1>2, <1>3, InitRing, InvariantIsRight, PTL DEF PingArraySpec, RefinesBook, Book!BookSpec

-----------------------------------------------------------------------------
(* The invariant.                                                          *)

Address == [who : OnionNode \cup OnionUser, family : {"udp", "tcp"}]
Part == [by : OnionNode, epoch : Nat, to : Address]

\* How many nodes have added their part to the return data of a packet.
Depth(type) ==
  IF type \in {"initial", "tcp", "response"} THEN 0
  ELSE IF type \in {"send_1", "recv_1"} THEN 1
  ELSE IF type \in {"send_2", "recv_2"} THEN 2
  ELSE 3

HasReturn(p) == p.from \in Address /\ p.ret \in Seq(Part) /\ Len(p.ret) = Depth(p.type)

\* Where the packet came from first, and where its answer will end.
Origin(p) == IF Len(p.ret) = 0 THEN p.from.who ELSE p.ret[1].to.who

\* A request leads back to the user who made it, and shows an id he was told.
IsRequest(p, l) ==
  /\ p.type \in {"initial", "tcp", "send_1", "send_2", "request"}
  /\ p.data.kind \in {"announce", "data"}
  /\ p.data.kind = "announce" =>
       /\ p.data.pk \in OnionUser /\ Origin(p) = p.data.pk
       /\ p.data.id = NoPingId \/ p.data.id \in l[p.data.pk].ids

\* An answer is on the way to the user it is for.
IsAnswer(p) ==
  /\ p.type \in {"recv_3", "recv_2", "recv_1"}
  /\ p.data.kind \in {"announced", "delivered"}
  /\ p.data.for = p.ret[1].to.who

IsArrived(p) == p.type = "response" /\ p.to.who = p.data.for

IsSound(p, l) == HasReturn(p) /\ (IsRequest(p, l) \/ IsAnswer(p) \/ IsArrived(p))

\* What onion_a->entries and its entries look like.
IsList(list) == list = [i \in 1 .. MaxEntries |-> list[i]]
IsEntry(e) == e = [pk |-> e.pk, via |-> e.via, ret |-> e.ret, dataKey |-> e.dataKey, age |-> e.age]

\* An entry that has not timed out leads back to its user, who was told the id.
EntryIsSound(e, l, time, key) ==
  /\ IsEntry(e) /\ e.age \in Nat
  /\ e.age < AnnounceTimeout =>
       /\ e.pk \in OnionUser /\ e.via \in Address
       /\ e.ret \in Seq(Part) /\ Len(e.ret) = 3 /\ e.ret[1].to.who = e.pk
       /\ \E id \in l[e.pk].ids :
            id.via = e.via /\ id.secret = key /\ id.period - (time - e.age) \in {0, 1}

\* What the users know.
Knows(l) == l = [u \in OnionUser |-> [ids |-> l[u].ids, keys |-> l[u].keys, dataKey |-> l[u].dataKey]]

OnionInv ==
  /\ onionKey \in [OnionNode -> Nat]
  /\ \A p \in wire : IsSound(p, learnt)
  /\ IsList(announces)
  /\ \A i \in 1 .. MaxEntries : EntryIsSound(announces[i], learnt, period, secret)
  /\ period \in Nat /\ secret \in Nat \ {0}
  /\ Knows(learnt)

-----------------------------------------------------------------------------
(* Packets.                                                                *)

\* A node's address is an address.
LEMMA AtIsAddress ==
  ASSUME NEW n \in OnionNode
  PROVE  At(n) \in Address
  BY DEF At, Address

\* Nothing but what is sent comes to those on their way.
LEMMA HandlesSound ==
  ASSUME NEW p, NEW out, Handles(p, out), NEW l,
         \A q \in wire : IsSound(q, l), \A q \in out : IsSound(q, l)
  PROVE  \A q \in wire' : IsSound(q, l)
<1>1. \A q \in wire' : q \in wire \/ q \in out
  BY DEF Handles
<1> QED
  BY <1>1, Zenon

\* A key is a number.
LEMMA KeyChangeType ==
  ASSUME onionKey \in [OnionNode -> Nat], NEW n \in OnionNode, change_symmetric_key(n)
  PROVE  onionKey' \in [OnionNode -> Nat]
  BY DEF change_symmetric_key

\* A node that passes a request on adds where it has it from.
LEMMA ForwardSound ==
  ASSUME NEW p, NEW l, HasReturn(p), IsRequest(p, l), NEW n \in OnionNode, onionKey'[n] \in Nat,
         NEW layer, NEW layers, NEW type \in {"send_1", "send_2", "request"},
         Depth(type) = Depth(p.type) + 1
  PROVE  \A q \in Forward(n, p, type, layer, layers) : IsSound(q, l)
<1>1. PICK part : part = [by |-> n, epoch |-> onionKey'[n], to |-> p.from]
  OBVIOUS
<1>2. part \in Part /\ part.to = p.from
  BY <1>1 DEF Part, HasReturn
<1>3. PICK q : q = [type |-> type, from |-> At(n), to |-> layer.to, layers |-> layers,
                    ret |-> Append(p.ret, part), data |-> p.data]
  OBVIOUS
<1>4. q.type = type /\ q.from = At(n) /\ q.ret = Append(p.ret, part) /\ q.data = p.data
  BY <1>3
<1>5. p.ret \in Seq(Part) /\ Len(p.ret) = Depth(p.type) /\ Len(p.ret) \in Nat
  BY DEF HasReturn
<1>6. q.ret \in Seq(Part) /\ Len(q.ret) = Len(p.ret) + 1
  BY <1>2, <1>4, <1>5
<1>7. HasReturn(q)
  BY <1>4, <1>5, <1>6, AtIsAddress DEF HasReturn
<1>8. Origin(q) = Origin(p)
  <2>1. CASE Len(p.ret) = 0
    <3>1. q.ret[1] = part
      BY <1>2, <1>4, <1>5, <2>1
    <3> QED
      BY <1>2, <1>5, <1>6, <2>1, <3>1 DEF Origin
  <2>2. CASE Len(p.ret) # 0
    <3>1. q.ret[1] = p.ret[1]
      BY <1>2, <1>4, <1>5, <2>2
    <3> QED
      BY <1>5, <1>6, <2>2, <3>1 DEF Origin
  <2> QED
    BY <2>1, <2>2
<1>9. IsRequest(q, l)
  BY <1>4, <1>8 DEF IsRequest
<1>10. Forward(n, p, type, layer, layers) = {q}
  BY <1>1, <1>3, Zenon DEF Forward
<1> QED
  BY <1>7, <1>9, <1>10 DEF IsSound

\* The same when a layer has to be opened first.
LEMMA UnwrapSound ==
  ASSUME NEW p, NEW l, HasReturn(p), IsRequest(p, l), NEW n \in OnionNode, onionKey'[n] \in Nat,
         NEW type \in {"send_1", "send_2", "request"}, Depth(type) = Depth(p.type) + 1
  PROVE  \A q \in Unwrap(n, p, type) : IsSound(q, l)
<1>1. \A q \in Forward(n, p, type, Head(p.layers), Tail(p.layers)) : IsSound(q, l)
  BY ForwardSound
<1> QED
  BY <1>1, Zenon DEF Unwrap

\* A node that passes an answer on takes off what it added; the first part, which
\* names the user, is the last one left.
LEMMA ReturnSound ==
  ASSUME NEW p, NEW l, HasReturn(p), IsAnswer(p), NEW n \in OnionNode,
         NEW type \in {"recv_2", "recv_1", "response"}, Depth(type) = Depth(p.type) - 1
  PROVE  \A q \in Return(n, p, type) : IsSound(q, l)
<1>1. p.ret \in Seq(Part) /\ Len(p.ret) = Depth(p.type) /\ Len(p.ret) \in 1 .. 3
  BY DEF HasReturn, IsAnswer, Depth
<1>2. PICK part : part = p.ret[Len(p.ret)]
  OBVIOUS
<1>3. PICK q : q = [type |-> type, from |-> At(n), to |-> part.to, layers |-> << >>,
                    ret |-> SubSeq(p.ret, 1, Len(p.ret) - 1), data |-> p.data]
  OBVIOUS
<1>4. q.type = type /\ q.from = At(n) /\ q.to = part.to /\ q.data = p.data
      /\ q.ret = SubSeq(p.ret, 1, Len(p.ret) - 1)
  BY <1>3
<1>5. q.ret \in Seq(Part) /\ Len(q.ret) = Len(p.ret) - 1
  BY <1>1, <1>4
<1>6. HasReturn(q)
  BY <1>1, <1>4, <1>5, AtIsAddress DEF HasReturn
<1>7. ASSUME type = "response" PROVE IsSound(q, l)
  <2>1. Len(p.ret) = 1
    BY <1>1, <1>7 DEF Depth
  <2>2. q.to.who = q.data.for
    BY <1>2, <1>4, <2>1 DEF IsAnswer
  <2> QED
    BY <1>4, <1>6, <1>7, <2>2 DEF IsArrived, IsSound
<1>8. ASSUME type # "response" PROVE IsSound(q, l)
  <2>1. Len(p.ret) > 1
    BY <1>1, <1>8 DEF Depth
  <2>2. q.ret[1] = p.ret[1]
    BY <1>1, <1>4, <2>1
  <2> QED
    BY <1>4, <1>6, <1>8, <2>2 DEF IsAnswer, IsSound
<1>9. IsSound(q, l)
  BY <1>7, <1>8
<1>10. \A x \in Return(n, p, type) : x = q
  BY <1>2, <1>3, Zenon DEF Return
<1> QED
  BY <1>9, <1>10

\* A step of a node on the path.
LEMMA OnionStepSound ==
  ASSUME onionKey \in [OnionNode -> Nat], NEW l, \A q \in wire : IsSound(q, l),
         NEW p \in wire, NEW n \in OnionNode, OnionStep(n, p)
  PROVE  onionKey' \in [OnionNode -> Nat] /\ \A q \in wire' : IsSound(q, l)
<1>1. HasReturn(p) /\ (IsRequest(p, l) \/ IsAnswer(p) \/ IsArrived(p))
  BY DEF IsSound
<1>2. ASSUME p.type \in {"initial", "tcp", "send_1", "send_2", "request"} PROVE IsRequest(p, l)
  BY <1>1, <1>2 DEF IsAnswer, IsArrived
<1>3. ASSUME p.type \in {"recv_3", "recv_2", "recv_1"} PROVE IsAnswer(p)
  BY <1>1, <1>3 DEF IsRequest, IsArrived
<1>4. CASE handle_send_initial(n, p)
  <2>1. p.type = "initial" /\ change_symmetric_key(n) /\ Handles(p, Unwrap(n, p, "send_1"))
    BY <1>4 DEF handle_send_initial
  <2>2. onionKey' \in [OnionNode -> Nat]
    BY <2>1, KeyChangeType
  <2>3. \A q \in Unwrap(n, p, "send_1") : IsSound(q, l)
    <3>1. onionKey'[n] \in Nat /\ Depth("send_1") = Depth(p.type) + 1 /\ IsRequest(p, l)
      BY <1>2, <2>1, <2>2 DEF Depth
    <3> QED
      BY <1>1, <3>1, UnwrapSound
  <2> QED
    BY <2>1, <2>2, <2>3, HandlesSound
<1>5. CASE handle_onion_request(n, p)
  <2>1. PICK layer : layer = [to |-> At(Head(p.layers).pk)]
    OBVIOUS
  <2>2. p.type = "tcp" /\ UNCHANGED onionKey /\ Handles(p, Forward(n, p, "send_1", layer, p.layers))
    BY <1>5, <2>1 DEF handle_onion_request
  <2>3. \A q \in Forward(n, p, "send_1", layer, p.layers) : IsSound(q, l)
    <3>1. onionKey'[n] \in Nat /\ Depth("send_1") = Depth(p.type) + 1 /\ IsRequest(p, l)
      BY <1>2, <2>2 DEF Depth
    <3> QED
      BY <1>1, <3>1, ForwardSound
  <2> QED
    BY <2>2, <2>3, HandlesSound
<1>6. CASE handle_send_1(n, p)
  <2>1. p.type = "send_1" /\ change_symmetric_key(n) /\ Handles(p, Unwrap(n, p, "send_2"))
    BY <1>6 DEF handle_send_1
  <2>2. onionKey' \in [OnionNode -> Nat]
    BY <2>1, KeyChangeType
  <2>3. \A q \in Unwrap(n, p, "send_2") : IsSound(q, l)
    <3>1. onionKey'[n] \in Nat /\ Depth("send_2") = Depth(p.type) + 1 /\ IsRequest(p, l)
      BY <1>2, <2>1, <2>2 DEF Depth
    <3> QED
      BY <1>1, <3>1, UnwrapSound
  <2> QED
    BY <2>1, <2>2, <2>3, HandlesSound
<1>7. CASE handle_send_2(n, p)
  <2>1. PICK out : out = IF p.data.kind \in {"announce", "data"} THEN Unwrap(n, p, "request") ELSE {}
    OBVIOUS
  <2>2. p.type = "send_2" /\ change_symmetric_key(n) /\ Handles(p, out)
    BY <1>7, <2>1, Zenon DEF handle_send_2
  <2>3. onionKey' \in [OnionNode -> Nat]
    BY <2>2, KeyChangeType
  <2>4. \A q \in Unwrap(n, p, "request") : IsSound(q, l)
    <3>1. onionKey'[n] \in Nat /\ Depth("request") = Depth(p.type) + 1 /\ IsRequest(p, l)
      BY <1>2, <2>2, <2>3 DEF Depth
    <3> QED
      BY <1>1, <3>1, UnwrapSound
  <2>5. \A q \in out : IsSound(q, l)
    BY <2>1, <2>4, Zenon
  <2> QED
    BY <2>2, <2>3, <2>5, HandlesSound
<1>8. ASSUME NEW type \in {"recv_3", "recv_2", "recv_1"}, NEW next \in {"recv_2", "recv_1", "response"},
             Depth(next) = Depth(type) - 1, HandleRecv(n, p, type, next)
      PROVE  onionKey' \in [OnionNode -> Nat] /\ \A q \in wire' : IsSound(q, l)
  <2>1. p.type = type
    BY <1>8 DEF HandleRecv
  <2>2. IsAnswer(p)
    BY <1>3, <2>1
  <2>3. change_symmetric_key(n) /\ Handles(p, Return(n, p, next))
    BY <1>8, <2>2 DEF HandleRecv, IsAnswer
  <2>4. \A q \in Return(n, p, next) : IsSound(q, l)
    BY <1>1, <1>8, <2>1, <2>2, ReturnSound
  <2> QED
    BY <2>3, <2>4, HandlesSound, KeyChangeType
<1>9. CASE handle_recv_3(n, p)
  BY <1>8, <1>9 DEF handle_recv_3, Depth
<1>10. CASE handle_recv_2(n, p)
  BY <1>8, <1>10 DEF handle_recv_2, Depth
<1>11. CASE handle_recv_1(n, p)
  BY <1>8, <1>11 DEF handle_recv_1, Depth
<1> QED
  BY <1>4, <1>5, <1>6, <1>7, <1>9, <1>10, <1>11 DEF OnionStep

-----------------------------------------------------------------------------
(* Entries.                                                                *)

\* Users forget nothing.
LEMMA SoundWithMore ==
  ASSUME NEW l, NEW m, \A u \in OnionUser : l[u].ids \subseteq m[u].ids
  PROVE  /\ \A p : IsSound(p, l) => IsSound(p, m)
         /\ \A e, time, key : EntryIsSound(e, l, time, key) => EntryIsSound(e, m, time, key)
<1>1. ASSUME NEW p, IsSound(p, l) PROVE IsSound(p, m)
  <2>1. IsRequest(p, l) => IsRequest(p, m)
    BY DEF IsRequest
  <2> QED
    BY <1>1, <2>1 DEF IsSound
<1>2. ASSUME NEW e, NEW time, NEW key, EntryIsSound(e, l, time, key)
      PROVE  EntryIsSound(e, m, time, key)
  BY <1>2, Zenon DEF EntryIsSound
<1> QED
  BY <1>1, <1>2

\* The entry that is found is one that has not timed out, of that user.
LEMMA FoundInEntries ==
  ASSUME NEW list, DOMAIN list \subseteq Nat, NEW pk, in_entries(list, pk) # 0
  PROVE  /\ in_entries(list, pk) \in DOMAIN list
         /\ ~ EntryTimedOut(list[in_entries(list, pk)]) /\ list[in_entries(list, pk)].pk = pk
<1>1. PICK found : found = {i \in DOMAIN list : ~EntryTimedOut(list[i]) /\ list[i].pk = pk}
  OBVIOUS
<1>2. found # {} /\ in_entries(list, pk) = CHOOSE i \in found : \A j \in found : i <= j
  BY <1>1, Zenon DEF in_entries
<1>3. \E i \in found : \A j \in found : i <= j
  BY <1>1, <1>2, LeastNumber
<1>4. in_entries(list, pk) \in found
  BY <1>2, <1>3, Zenon
<1> QED
  BY <1>1, <1>4

\* Sorting and adding make up no entries.
LEMMA AddedEntries ==
  ASSUME NEW list, IsList(list), NEW entry, NEW new,
         new \in add_to_entries(list, entry)
  PROVE  /\ IsList(new)
         /\ \A i \in 1 .. MaxEntries : new[i] = entry \/ \E j \in 1 .. MaxEntries : new[i] = list[j]
<1>1. CASE Place(list, entry.pk) = 0
  <2>1. new = list
    BY <1>1 DEF add_to_entries
  <2> QED
    BY <2>1
<1>2. CASE Place(list, entry.pk) # 0
  <2>1. PICK k : k = Place(list, entry.pk)
    OBVIOUS
  <2>2. PICK mid : mid = [list EXCEPT ![k] = entry]
    OBVIOUS
  <2>3. DOMAIN mid = 1 .. MaxEntries /\ \A i \in 1 .. MaxEntries : mid[i] = entry \/ mid[i] = list[i]
    BY <2>2 DEF IsList
  <2>4. new \in SortedEntries(mid)
    BY <1>2, <2>1, <2>2, Zenon DEF add_to_entries
  <2>5. PICK o \in [1 .. MaxEntries -> 1 .. MaxEntries] : new = [i \in 1 .. MaxEntries |-> mid[o[i]]]
    BY <2>3, <2>4 DEF SortedEntries
  <2> QED
    BY <2>3, <2>5 DEF IsList
<1> QED
  BY <1>1, <1>2

-----------------------------------------------------------------------------
(* The steps.                                                              *)

\* Entries that stay as they are are sound for users who know more.
LEMMA EntriesStaySound ==
  ASSUME OnionInv, UNCHANGED <<announces, period, secret>>,
         \A u \in OnionUser : learnt[u].ids \subseteq learnt'[u].ids
  PROVE  /\ IsList(announces')
         /\ \A i \in 1 .. MaxEntries : EntryIsSound(announces'[i], learnt', period', secret')
         /\ period' \in Nat /\ secret' \in Nat \ {0}
<1>1. \A e, time, key : EntryIsSound(e, learnt, time, key) => EntryIsSound(e, learnt', time, key)
  BY SoundWithMore
<1> QED
  BY <1>1 DEF OnionInv

\* A node on the path.
LEMMA PathStep ==
  ASSUME OnionInv, NEW p \in wire, p.to.who \in OnionNode, OnionStep(p.to.who, p), UNCHANGED announceVars
  PROVE  OnionInv'
<1>1. onionKey' \in [OnionNode -> Nat] /\ \A q \in wire' : IsSound(q, learnt)
  BY OnionStepSound DEF OnionInv
<1>2. UNCHANGED <<announces, period, secret, learnt>>
  BY DEF announceVars
<1>3. /\ IsList(announces')
      /\ \A i \in 1 .. MaxEntries : EntryIsSound(announces'[i], learnt', period', secret')
      /\ period' \in Nat /\ secret' \in Nat \ {0}
  BY <1>2, EntriesStaySound
<1> QED
  BY <1>1, <1>2, <1>3 DEF OnionInv, Knows

\* The storing node answers an announcement, and may store its user.
LEMMA AnnounceStep ==
  ASSUME OnionInv, NEW p \in wire, handle_announce_request(p)
  PROVE  OnionInv'
<1>1. PICK id : id = [t \in {0, 1} |-> generate_ping_id(period + t, p.data.pk, p.from)]
  OBVIOUS
<1>2. PICK proven \in BOOLEAN : proven <=> p.data.id \in {id[0], id[1]}
  OBVIOUS
<1>3. PICK entry : entry = [pk |-> p.data.pk, via |-> p.from, ret |-> p.ret,
                            dataKey |-> p.data.dataKey, age |-> 0]
  OBVIOUS
<1>4. PICK reply :
        /\ reply.kind = "announced" /\ reply.for = p.data.pk
        /\ Handles(p, {send_onion_response(Store, p.from, reply, p.ret)})
  <2>1. PICK is : Handles(p, {send_onion_response(Store, p.from,
          [kind |-> "announced", for |-> p.data.pk, search |-> p.data.search, is |-> is], p.ret)})
    BY Zenon DEF handle_announce_request
  <2>2. PICK reply : reply = [kind |-> "announced", for |-> p.data.pk, search |-> p.data.search, is |-> is]
    OBVIOUS
  <2> QED
    BY <2>1, <2>2
<1>5. /\ p.type = "request" /\ p.data.kind = "announce"
      /\ announces' \in IF proven THEN add_to_entries(announces, entry) ELSE {announces}
      /\ UNCHANGED <<onionKey, due, period, secret, learnt>>
  BY <1>1, <1>2, <1>3, Zenon DEF handle_announce_request
<1>6. /\ HasReturn(p) /\ IsRequest(p, learnt) /\ p.from \in Address /\ p.ret \in Seq(Part) /\ Len(p.ret) = 3
      /\ p.data.pk \in OnionUser /\ p.ret[1].to.who = p.data.pk
      /\ p.data.id = NoPingId \/ p.data.id \in learnt[p.data.pk].ids
  <2>1. IsSound(p, learnt)
    BY DEF OnionInv
  <2>2. HasReturn(p) /\ IsRequest(p, learnt)
    BY <1>5, <2>1 DEF IsSound, IsAnswer, IsArrived
  <2>3. Len(p.ret) = 3
    BY <1>5, <2>2 DEF HasReturn, Depth
  <2>4. Origin(p) = p.ret[1].to.who
    BY <2>3 DEF Origin
  <2>5. p.from \in Address /\ p.ret \in Seq(Part)
    BY <2>2 DEF HasReturn
  <2>6. /\ p.data.pk \in OnionUser /\ Origin(p) = p.data.pk
        /\ p.data.id = NoPingId \/ p.data.id \in learnt[p.data.pk].ids
    BY <1>5, <2>2 DEF IsRequest
  <2> QED
    BY <2>2, <2>3, <2>4, <2>5, <2>6
<1>7. \A q \in wire' : IsSound(q, learnt)
  <2>1. PICK q : q = [type |-> "recv_3", from |-> At(Store), to |-> p.from, layers |-> << >>,
                      ret |-> p.ret, data |-> reply]
    OBVIOUS
  <2>2. q.type = "recv_3" /\ q.from = At(Store) /\ q.ret = p.ret /\ q.data = reply
    BY <2>1
  <2>3. Store \in OnionNode
    BY OnionAnnounceAssumption
  <2>4. HasReturn(q)
    BY <1>6, <2>2, <2>3, AtIsAddress DEF HasReturn, Depth
  <2>5. IsAnswer(q)
    BY <1>4, <1>6, <2>2 DEF IsAnswer
  <2>6. {send_onion_response(Store, p.from, reply, p.ret)} = {q}
    BY <2>1 DEF send_onion_response
  <2>7. \A x \in {q} : IsSound(x, learnt)
    BY <2>4, <2>5 DEF IsSound
  <2> QED
    BY <1>4, <2>6, <2>7, HandlesSound DEF OnionInv
<1>8. proven => EntryIsSound(entry, learnt, period, secret)
  <2> SUFFICES ASSUME proven PROVE EntryIsSound(entry, learnt, period, secret)
    OBVIOUS
  <2>1. PICK t \in {0, 1} : p.data.id = generate_ping_id(period + t, p.data.pk, p.from)
    BY <1>1, <1>2
  <2>2. p.data.id.via = p.from /\ p.data.id.secret = secret /\ p.data.id.period = period + t
    BY <2>1 DEF generate_ping_id
  <2>3. period \in Nat /\ secret \in Nat \ {0}
    BY DEF OnionInv
  <2>4. p.data.id \in learnt[p.data.pk].ids
    <3>1. p.data.id.secret # 0 /\ NoPingId.secret = 0
      BY <2>2, <2>3 DEF NoPingId
    <3> QED
      BY <1>6, <3>1
  <2>5. /\ entry.pk = p.data.pk /\ entry.via = p.from /\ entry.ret = p.ret /\ entry.age = 0
    BY <1>3
  <2>6. p.data.id.period - (period - entry.age) \in {0, 1}
    BY <2>2, <2>3, <2>5
  <2> QED
    BY <1>3, <1>6, <2>2, <2>4, <2>5, <2>6 DEF EntryIsSound, IsEntry
<1>9. /\ IsList(announces')
      /\ \A i \in 1 .. MaxEntries : EntryIsSound(announces'[i], learnt, period, secret)
  <2>1. CASE proven
    <3>1. announces' \in add_to_entries(announces, entry)
      BY <1>5, <2>1
    <3>2. IsList(announces)
      BY DEF OnionInv
    <3>3. /\ IsList(announces')
          /\ \A i \in 1 .. MaxEntries :
               announces'[i] = entry \/ \E j \in 1 .. MaxEntries : announces'[i] = announces[j]
      <4>1. PICK list, new : list = announces /\ new = announces'
        OBVIOUS
      <4>2. IsList(list) /\ new \in add_to_entries(list, entry)
        BY <3>1, <3>2, <4>1
      <4>3. /\ IsList(new)
            /\ \A i \in 1 .. MaxEntries : new[i] = entry \/ \E j \in 1 .. MaxEntries : new[i] = list[j]
        BY <4>2, AddedEntries
      <4> QED
        BY <4>1, <4>3
    <3>4. \A i \in 1 .. MaxEntries : EntryIsSound(announces[i], learnt, period, secret)
      BY DEF OnionInv
    <3> QED
      BY <1>8, <2>1, <3>3, <3>4, Zenon
  <2>2. CASE ~ proven
    <3>1. announces' = announces
      BY <1>5, <2>2
    <3> QED
      BY <3>1 DEF OnionInv
  <2> QED
    BY <2>1, <2>2
<1> QED
  BY <1>5, <1>7, <1>9 DEF OnionInv, Knows

\* The storing node hands on data, over the path in the entry.
LEMMA DataStep ==
  ASSUME OnionInv, NEW p \in wire, handle_data_request(p)
  PROVE  OnionInv'
<1>1. PICK index : index = in_entries(announces, p.data.search)
  OBVIOUS
<1>2. PICK data : data = [kind |-> "delivered", for |-> p.data.search, dataKey |-> p.data.dataKey]
  OBVIOUS
<1>3. PICK out : out = IF index = 0 THEN {}
                       ELSE {send_onion_response(Store, announces[index].via, data, announces[index].ret)}
  OBVIOUS
<1>4. Handles(p, out) /\ UNCHANGED <<onionKey, due, announceVars>>
  BY <1>1, <1>2, <1>3, Zenon DEF handle_data_request
<1>5. UNCHANGED <<announces, period, secret, learnt>>
  BY <1>4 DEF announceVars
<1>6. \A q \in out : IsSound(q, learnt)
  <2>1. CASE index = 0
    BY <1>3, <2>1
  <2>2. CASE index # 0
    <3>1. DOMAIN announces = 1 .. MaxEntries /\ MaxEntries \in Nat
      BY OnionAnnounceAssumption DEF OnionInv, IsList
    <3>2. /\ index \in 1 .. MaxEntries
          /\ ~ EntryTimedOut(announces[index]) /\ announces[index].pk = p.data.search
      BY <1>1, <2>2, <3>1, FoundInEntries
    <3>3. EntryIsSound(announces[index], learnt, period, secret)
      BY <3>2 DEF OnionInv
    <3>4. announces[index].age < AnnounceTimeout
      BY <3>2, <3>3, OnionAnnounceAssumption DEF EntryTimedOut, EntryIsSound
    <3>5. /\ announces[index].ret \in Seq(Part) /\ Len(announces[index].ret) = 3
          /\ announces[index].ret[1].to.who = p.data.search
      BY <3>2, <3>3, <3>4 DEF EntryIsSound
    <3>6. PICK q : q = [type |-> "recv_3", from |-> At(Store), to |-> announces[index].via, layers |-> << >>,
                        ret |-> announces[index].ret, data |-> data]
      OBVIOUS
    <3>7. /\ q.type = "recv_3" /\ q.from = At(Store) /\ q.ret = announces[index].ret
          /\ q.data.kind = "delivered" /\ q.data.for = p.data.search
      BY <1>2, <3>6
    <3>8. HasReturn(q)
      BY <3>5, <3>7, AtIsAddress, OnionAnnounceAssumption DEF HasReturn, Depth
    <3>9. IsAnswer(q)
      BY <3>5, <3>7 DEF IsAnswer
    <3>10. out = {q}
      BY <1>3, <2>2, <3>6 DEF send_onion_response
    <3> QED
      BY <3>8, <3>9, <3>10 DEF IsSound
  <2> QED
    BY <2>1, <2>2
<1>7. \A q \in wire' : IsSound(q, learnt)
  BY <1>4, <1>6, HandlesSound DEF OnionInv
<1>8. /\ IsList(announces')
      /\ \A i \in 1 .. MaxEntries : EntryIsSound(announces'[i], learnt', period', secret')
      /\ period' \in Nat /\ secret' \in Nat \ {0}
  BY <1>5, EntriesStaySound
<1> QED
  BY <1>4, <1>5, <1>7, <1>8 DEF OnionInv, Knows

\* A restarted node has a new secret and no entries.
LEMMA RestartStep ==
  ASSUME OnionInv, new_onion_announce
  PROVE  OnionInv'
<1>1. /\ onionKey' = [onionKey EXCEPT ![Store] = @ + 1] /\ secret' = secret + 1
      /\ announces' = [i \in 1 .. MaxEntries |-> NoAnnounce] /\ UNCHANGED <<wire, period, learnt>>
  BY DEF new_onion_announce
<1>2. onionKey' \in [OnionNode -> Nat]
  BY <1>1, OnionAnnounceAssumption DEF OnionInv
<1>3. EntryIsSound(NoAnnounce, learnt, period, secret')
  <2>1. NoAnnounce.age = AnnounceTimeout
    BY DEF NoAnnounce
  <2> QED
    BY <2>1, OnionAnnounceAssumption DEF EntryIsSound, IsEntry, NoAnnounce
<1>4. secret' \in Nat \ {0}
  BY <1>1 DEF OnionInv
<1>5. /\ IsList(announces')
      /\ \A i \in 1 .. MaxEntries : EntryIsSound(announces'[i], learnt', period', secret')
  BY <1>1, <1>3 DEF IsList
<1> QED
  BY <1>1, <1>2, <1>4, <1>5 DEF OnionInv, Knows

\* f is e, and older unless e has timed out.
AgeIs(f, e) ==
  /\ f.age = IF e.age < AnnounceTimeout THEN e.age + 1 ELSE e.age
  /\ f.pk = e.pk /\ f.via = e.via /\ f.ret = e.ret /\ IsEntry(f)

\* An entry and the time grow older together.
LEMMA PeriodStep ==
  ASSUME OnionInv, PeriodPasses
  PROVE  OnionInv'
<1>1. /\ period' = period + 1 /\ UNCHANGED <<onionVars, secret, learnt>>
      /\ announces' = [i \in DOMAIN announces |->
                         [announces[i] EXCEPT !.age = IF @ < AnnounceTimeout THEN @ + 1 ELSE @]]
  BY DEF PeriodPasses
<1>2. period \in Nat /\ AnnounceTimeout \in Nat /\ DOMAIN announces = 1 .. MaxEntries
  BY OnionAnnounceAssumption DEF OnionInv, IsList
<1>3. ASSUME NEW i \in 1 .. MaxEntries PROVE EntryIsSound(announces'[i], learnt, period + 1, secret)
  <2>1. PICK e, f : e = announces[i] /\ f = announces'[i]
    OBVIOUS
  <2>2. EntryIsSound(e, learnt, period, secret)
    BY <2>1 DEF OnionInv
  <2>3. e.age \in Nat /\ IsEntry(e)
    BY <2>2 DEF EntryIsSound
  <2>4. f = [e EXCEPT !.age = IF e.age < AnnounceTimeout THEN e.age + 1 ELSE e.age]
    BY <1>1, <1>2, <2>1
  <2>5. CASE AgeIs(f, e)
    <3>1. f.age \in Nat /\ (f.age < AnnounceTimeout => e.age < AnnounceTimeout /\ f.age = e.age + 1)
      BY <1>2, <2>3, <2>5 DEF AgeIs
    <3>2. ASSUME f.age < AnnounceTimeout, NEW id, id.period - (period - e.age) \in {0, 1}
          PROVE  id.period - ((period + 1) - f.age) \in {0, 1}
      <4>1. (period + 1) - f.age = period - e.age
        BY <1>2, <2>3, <3>1, <3>2
      <4> QED
        BY <3>2, <4>1
    <3>3. f.pk = e.pk /\ f.via = e.via /\ f.ret = e.ret /\ IsEntry(f)
      BY <2>5 DEF AgeIs
    <3>4. EntryIsSound(f, learnt, period + 1, secret)
      <4>1. CASE f.age < AnnounceTimeout
        <5>1. /\ e.pk \in OnionUser /\ e.via \in Address
              /\ e.ret \in Seq(Part) /\ Len(e.ret) = 3 /\ e.ret[1].to.who = e.pk
          BY <2>2, <3>1, <4>1 DEF EntryIsSound
        <5>2. PICK id \in learnt[e.pk].ids :
                id.via = e.via /\ id.secret = secret /\ id.period - (period - e.age) \in {0, 1}
          BY <2>2, <3>1, <4>1 DEF EntryIsSound
        <5>3. id.period - ((period + 1) - f.age) \in {0, 1}
          BY <3>2, <4>1, <5>2
        <5> QED
          BY <3>1, <3>3, <5>1, <5>2, <5>3, Zenon DEF EntryIsSound
      <4>2. CASE ~ (f.age < AnnounceTimeout)
        BY <3>1, <3>3, <4>2 DEF EntryIsSound
      <4> QED
        BY <4>1, <4>2
    <3> QED
      BY <2>1, <3>4
  <2>6. AgeIs(f, e)
    BY <2>3, <2>4 DEF AgeIs, IsEntry
  <2> QED
    BY <2>5, <2>6
<1>4. IsList(announces')
  BY <1>1, <1>2 DEF IsList
<1>5. wire' = wire /\ onionKey' = onionKey
  BY <1>1 DEF onionVars
<1> QED
  BY <1>1, <1>2, <1>3, <1>4, <1>5 DEF OnionInv, Knows

\* A packet of a user.
LEMMA SendStep ==
  ASSUME OnionInv, NEW u \in OnionUser, NEW path, NEW data, SendOnion(Packet(u, path, data)),
         data.kind \in {"announce", "data"},
         data.kind = "announce" => data.pk = u /\ (data.id = NoPingId \/ data.id \in learnt[u].ids),
         UNCHANGED <<announces, period, secret, learnt>>
  PROVE  OnionInv'
<1>1. PICK p : p = Packet(u, path, data)
  OBVIOUS
<1>2. wire' = wire \cup {p} /\ UNCHANGED onionKey
  BY <1>1 DEF SendOnion
<1>3. /\ p.type \in {"initial", "tcp"} /\ p.from \in Address /\ p.from.who = u
      /\ p.ret = << >> /\ p.data = data
  <2>1. CASE path \in TcpPath
    <3>1. PICK from : from = [who |-> u, family |-> "tcp"]
      OBVIOUS
    <3>2. PICK q : q = create_onion_packet(from, path, Store, data)
      OBVIOUS
    <3>3. q = [type |-> "initial", from |-> from, to |-> At(path[1]), layers |-> Layers(path, Store),
               ret |-> << >>, data |-> data]
      BY <3>2 DEF create_onion_packet
    <3>4. p = [q EXCEPT !.type = "tcp", !.layers = Tail(@)]
      BY <1>1, <2>1, <3>1, <3>2, Zenon DEF Packet, create_onion_packet_tcp
    <3>5. p.type = "tcp" /\ p.from = from /\ p.ret = << >> /\ p.data = data
      BY <3>3, <3>4
    <3>6. from \in Address /\ from.who = u
      BY <3>1 DEF Address
    <3> QED
      BY <3>5, <3>6
  <2>2. CASE path \notin TcpPath
    <3>1. PICK from : from = [who |-> u, family |-> "udp"]
      OBVIOUS
    <3>2. p = create_onion_packet(from, path, Store, data)
      BY <1>1, <2>2, <3>1, Zenon DEF Packet
    <3>3. p = [type |-> "initial", from |-> from, to |-> At(path[1]), layers |-> Layers(path, Store),
               ret |-> << >>, data |-> data]
      BY <3>2 DEF create_onion_packet
    <3>4. p.type = "initial" /\ p.from = from /\ p.ret = << >> /\ p.data = data
      BY <3>3
    <3>5. from \in Address /\ from.who = u
      BY <3>1 DEF Address
    <3> QED
      BY <3>4, <3>5
  <2> QED
    BY <2>1, <2>2
<1>4. HasReturn(p)
  BY <1>3 DEF HasReturn, Depth
<1>5. Origin(p) = u
  BY <1>3 DEF Origin
<1>6. IsRequest(p, learnt)
  BY <1>3, <1>5 DEF IsRequest
<1>7. \A q \in wire' : IsSound(q, learnt)
  BY <1>2, <1>4, <1>6 DEF IsSound, OnionInv
<1>8. /\ IsList(announces')
      /\ \A i \in 1 .. MaxEntries : EntryIsSound(announces'[i], learnt', period', secret')
      /\ period' \in Nat /\ secret' \in Nat \ {0}
  BY EntriesStaySound
<1> QED
  BY <1>2, <1>7, <1>8 DEF OnionInv, Knows

\* A user is told an id or a data key.
LEMMA ResponseStep ==
  ASSUME OnionInv, NEW p \in wire, ResponseArrives(p)
  PROVE  OnionInv'
<1>1. Handles(p, {}) /\ UNCHANGED <<onionKey, due, announces, period, secret>>
  BY DEF ResponseArrives
<1>2. PICK u, is, new : u = p.to.who /\ is = p.data.is /\ new = learnt'
  OBVIOUS
<1>3. \/ new = learnt
      \/ \E k : new = [learnt EXCEPT ![u].keys = @ \cup {k}]
      \/ \E k : new = [learnt EXCEPT ![u].ids = @ \cup {k}]
  BY <1>2, Zenon DEF ResponseArrives
<1>4. Knows(learnt)
  BY DEF OnionInv
<1>5. Knows(new) /\ \A v \in OnionUser : learnt[v].ids \subseteq new[v].ids
  <2>1. CASE new = learnt
    BY <1>4, <2>1
  <2>2. ASSUME NEW k, new = [learnt EXCEPT ![u].keys = @ \cup {k}]
        PROVE  Knows(new) /\ \A v \in OnionUser : learnt[v].ids \subseteq new[v].ids
    <3>1. DOMAIN new = OnionUser
      BY <1>4, <2>2 DEF Knows
    <3>2. ASSUME NEW v \in OnionUser
          PROVE  /\ new[v] = [ids |-> new[v].ids, keys |-> new[v].keys, dataKey |-> new[v].dataKey]
                 /\ learnt[v].ids \subseteq new[v].ids
      <4>1. PICK r, s : r = learnt[v] /\ s = new[v]
        OBVIOUS
      <4>2. r = [ids |-> r.ids, keys |-> r.keys, dataKey |-> r.dataKey]
        BY <1>4, <4>1 DEF Knows
      <4>3. s = r \/ s = [r EXCEPT !.keys = @ \cup {k}]
        BY <1>4, <2>2, <4>1 DEF Knows
      <4>4. s = [ids |-> s.ids, keys |-> s.keys, dataKey |-> s.dataKey] /\ r.ids \subseteq s.ids
        BY <4>2, <4>3
      <4> QED
        BY <4>1, <4>4
    <3> QED
      BY <3>1, <3>2, <2>2 DEF Knows
  <2>3. ASSUME NEW k, new = [learnt EXCEPT ![u].ids = @ \cup {k}]
        PROVE  Knows(new) /\ \A v \in OnionUser : learnt[v].ids \subseteq new[v].ids
    <3>1. DOMAIN new = OnionUser
      BY <1>4, <2>3 DEF Knows
    <3>2. ASSUME NEW v \in OnionUser
          PROVE  /\ new[v] = [ids |-> new[v].ids, keys |-> new[v].keys, dataKey |-> new[v].dataKey]
                 /\ learnt[v].ids \subseteq new[v].ids
      <4>1. PICK r, s : r = learnt[v] /\ s = new[v]
        OBVIOUS
      <4>2. r = [ids |-> r.ids, keys |-> r.keys, dataKey |-> r.dataKey]
        BY <1>4, <4>1 DEF Knows
      <4>3. s = r \/ s = [r EXCEPT !.ids = @ \cup {k}]
        BY <1>4, <2>3, <4>1 DEF Knows
      <4>4. s = [ids |-> s.ids, keys |-> s.keys, dataKey |-> s.dataKey] /\ r.ids \subseteq s.ids
        BY <4>2, <4>3
      <4> QED
        BY <4>1, <4>4
    <3> QED
      BY <3>1, <3>2, <2>3 DEF Knows
  <2> QED
    BY <1>3, <2>1, <2>2, <2>3
<1>6. \A q \in wire' : IsSound(q, learnt')
  <2>1. \A q : IsSound(q, learnt) => IsSound(q, new)
    BY <1>5, SoundWithMore
  <2>2. \A q \in wire : IsSound(q, new)
    BY <2>1 DEF OnionInv
  <2>3. \A q \in wire' : IsSound(q, new)
    BY <1>1, <2>2, HandlesSound
  <2> QED
    BY <1>2, <2>3
<1>7. \A v \in OnionUser : learnt[v].ids \subseteq learnt'[v].ids
  BY <1>2, <1>5
<1>8. /\ IsList(announces')
      /\ \A i \in 1 .. MaxEntries : EntryIsSound(announces'[i], learnt', period', secret')
      /\ period' \in Nat /\ secret' \in Nat \ {0}
  BY <1>1, <1>7, EntriesStaySound
<1>9. Knows(learnt)'
  BY <1>2, <1>5 DEF Knows
<1> QED
  BY <1>1, <1>6, <1>8, <1>9 DEF OnionInv

\* Every step keeps the invariant,
LEMMA OnionInvNext ==
  ASSUME OnionInv, [OnionAnnounceNext]_onionAnnounceVars
  PROVE  OnionInv'
<1>1. ASSUME NEW p \in wire, LoseOnion(p), UNCHANGED announceVars PROVE OnionInv'
  <2>1. wire' \subseteq wire /\ onionKey' = onionKey /\ UNCHANGED <<announces, period, secret, learnt>>
    BY <1>1 DEF LoseOnion, announceVars
  <2> QED
    BY <2>1 DEF OnionInv, Knows, IsList
<1>2. ASSUME NEW n \in OnionNode, KeyTimesOut(n), UNCHANGED announceVars PROVE OnionInv'
  <2>1. wire' = wire /\ onionKey' = onionKey /\ UNCHANGED <<announces, period, secret, learnt>>
    BY <1>2 DEF KeyTimesOut, announceVars
  <2> QED
    BY <2>1 DEF OnionInv, Knows, IsList
<1>3. ASSUME NEW u \in OnionUser, NEW path, NEW id, NEW v, send_announce_request(u, path, id, v)
      PROVE  OnionInv'
  <2>1. PICK data : data = [kind |-> "announce", pk |-> u, id |-> id, search |-> v,
                            dataKey |-> learnt[u].dataKey]
    OBVIOUS
  <2>2. /\ id = NoPingId \/ id \in learnt[u].ids
        /\ SendOnion(Packet(u, path, data)) /\ UNCHANGED <<announces, period, secret, learnt>>
    BY <1>3, <2>1, Zenon DEF send_announce_request
  <2>3. data.kind = "announce" /\ data.pk = u /\ data.id = id
    BY <2>1
  <2> QED
    BY <2>2, <2>3, SendStep
<1>4. ASSUME NEW u \in OnionUser, NEW path, NEW known, send_data_request(u, path, known) PROVE OnionInv'
  <2>1. PICK data : data = [kind |-> "data", search |-> known.user, dataKey |-> known.key]
    OBVIOUS
  <2>2. SendOnion(Packet(u, path, data)) /\ UNCHANGED <<announces, period, secret, learnt>>
    BY <1>4, <2>1, Zenon DEF send_data_request
  <2>3. data.kind = "data"
    BY <2>1
  <2> QED
    BY <2>2, <2>3, SendStep
<1>5. CASE UNCHANGED onionAnnounceVars
  <2>1. UNCHANGED <<wire, onionKey, announces, period, secret, learnt>>
    BY <1>5 DEF onionAnnounceVars, onionVars, announceVars
  <2> QED
    BY <2>1 DEF OnionInv, Knows, IsList
<1>6. CASE OnionAnnounceNext
  BY <1>1, <1>2, <1>3, <1>4, <1>6, PathStep, AnnounceStep, DataStep, ResponseStep, RestartStep, PeriodStep,
     Zenon DEF OnionAnnounceNext
<1> QED
  BY <1>5, <1>6

\* which holds in the beginning.
LEMMA OnionInvInit ==
  ASSUME OnionAnnounceInit
  PROVE  OnionInv
<1>1. /\ wire = {} /\ onionKey = [n \in OnionNode |-> 0] /\ announces = [i \in 1 .. MaxEntries |-> NoAnnounce]
      /\ period = 0 /\ secret = 1 /\ learnt = [u \in OnionUser |-> [ids |-> {}, keys |-> {}, dataKey |-> 1]]
  BY DEF OnionAnnounceInit, OnionInit
<1>2. EntryIsSound(NoAnnounce, learnt, period, secret)
  <2>1. NoAnnounce.age = AnnounceTimeout
    BY DEF NoAnnounce
  <2> QED
    BY <2>1, OnionAnnounceAssumption DEF EntryIsSound, IsEntry, NoAnnounce
<1>3. Knows(learnt)
  BY <1>1 DEF Knows
<1>4. IsList(announces) /\ \A i \in 1 .. MaxEntries : EntryIsSound(announces[i], learnt, period, secret)
  BY <1>1, <1>2 DEF IsList
<1>5. onionKey \in [OnionNode -> Nat]
  BY <1>1
<1>6. period \in Nat /\ secret \in Nat \ {0} /\ \A p \in wire : IsSound(p, learnt)
  BY <1>1
<1> QED
  BY <1>3, <1>4, <1>5, <1>6 DEF OnionInv

\* The invariant at work.
LEMMA OnionInvHolds == OnionAnnounceSpec => []OnionInv
  BY OnionInvInit, OnionInvNext, PTL DEF OnionAnnounceSpec

(* Over any paths, for any number of nodes, users, entries and changes of  *)
(* keys, and with packets lost, repeated and overtaking each other, what    *)
(* reaches a user is an answer to his own request or data for his own key   *)
(* (onion.c with its return data, and the entries of onion_announce.c).     *)
THEOREM AnswersReachTheirUser == OnionAnnounceSpec => []AnswersFindTheirWay
<1>1. OnionInv => AnswersFindTheirWay
  <2> SUFFICES ASSUME OnionInv, NEW p \in wire, p.type = "response" PROVE p.to.who = p.data.for
    BY DEF AnswersFindTheirWay
  <2>1. IsSound(p, learnt)
    BY DEF OnionInv
  <2> QED
    BY <2>1 DEF IsSound, IsRequest, IsAnswer, IsArrived
<1> QED
  BY <1>1, OnionInvHolds, PTL

(* A user is stored by a node only for a path over which he was told a     *)
(* ping id, of the present secret and of the period in which the entry was  *)
(* made or the next one, whatever old or repeated requests arrive           *)
(* (handle_announce_request with generate_ping_id).                         *)
THEOREM EntriesStayEarned == OnionAnnounceSpec => []EntriesAreEarned
<1>1. OnionInv => EntriesAreEarned
  <2> SUFFICES ASSUME OnionInv, NEW i \in DOMAIN announces, ~ EntryTimedOut(announces[i])
               PROVE  \E id \in learnt[announces[i].pk].ids :
                        /\ id.via = announces[i].via /\ id.secret = secret
                        /\ id.period - (period - announces[i].age) \in {0, 1}
    BY DEF EntriesAreEarned
  <2>1. i \in 1 .. MaxEntries
    BY DEF OnionInv, IsList
  <2>2. EntryIsSound(announces[i], learnt, period, secret)
    BY <2>1 DEF OnionInv
  <2>3. announces[i].age < AnnounceTimeout
    BY <2>2, OnionAnnounceAssumption DEF EntryIsSound, EntryTimedOut
  <2> QED
    BY <2>2, <2>3, Zenon DEF EntryIsSound
<1> QED
  BY <1>1, OnionInvHolds, PTL

-----------------------------------------------------------------------------
(* The tables of a relay.                                                  *)

Links == [status : 0 .. 2, pk : RelayClient \cup {NoClient}, index : AccIndex, other : LinkId]

AcceptedEntries ==
  [sock : 0 .. MaxSockets, pk : RelayClient \cup {NoClient}, ident : Nat, links : [LinkId -> Links]]

UpPackets ==
  [type : {"ping", "onion"}] \cup [type : {"request", "oob"}, pk : RelayClient]
  \cup [type : {"disconnect", "data"}, id : LinkId]

DownPackets ==
  [type : {"response"}, id : LinkId, pk : RelayClient] \cup [type : {"connect", "disconnect"}, id : LinkId]
  \cup [type : {"oob"}, from : RelayClient] \cup [type : {"data"}, id : LinkId, from : RelayClient]
  \cup [type : {"onion"}, origin : 0 .. MaxSockets]

Sockets ==
  [open : BOOLEAN, owner : RelayClient \cup {NoClient}, ready : BOOLEAN,
   up : Seq(UpPackets), down : Seq(DownPackets)]

Servers ==
  [acc : [AccIndex -> AcceptedEntries], size : Nat, counter : Nat, sock : [Socket -> Sockets]]

Live(acc) == {i \in AccIndex : acc[i].sock # 0}

Keyed(acc) == \A i \in Live(acc) : acc[i].pk \in RelayClient

OneEach(acc) == \A i, j \in Live(acc) : acc[i].pk = acc[j].pk => i = j

\* A connection has at most one slot for a peer.
OneSlot(acc) ==
  \A i \in Live(acc), id, other \in LinkId :
    /\ acc[i].links[id].status # 0 /\ acc[i].links[other].status # 0
    /\ acc[i].links[id].pk = acc[i].links[other].pk
    => id = other

\* The slot id of i is linked to the slot other of j, and that one to it.
Joined(acc, i, id, j, other) ==
  /\ j \in Live(acc) /\ acc[j].pk = acc[i].links[id].pk
  /\ acc[j].links[other].status = 2 /\ acc[j].links[other].pk = acc[i].pk
  /\ acc[j].links[other].index = i /\ acc[j].links[other].other = id

Mutual(acc) ==
  \A i \in Live(acc), id \in LinkId :
    acc[i].links[id].status = 2 => Joined(acc, i, id, acc[i].links[id].index, acc[i].links[id].other)

Tables(acc) == Keyed(acc) /\ OneEach(acc) /\ OneSlot(acc) /\ Mutual(acc)

Placed(acc, size) ==
  /\ Live(acc) \subseteq 0 .. size - 1
  /\ size <= Cardinality(RelayClient) + GrowBy

\* A socket somebody has opened, or from which there is still something to read.
Attached(v) == v.open \/ v.up # << >>

Owned(sock) == \A k \in Socket : Attached(sock[k]) => sock[k].owner \in RelayClient

ServerSound(s) == s \in Servers /\ Tables(s.acc) /\ Placed(s.acc, s.size) /\ Owned(s.sock)

OnionWays == [index : AccIndex, ident : Nat, origin : 0 .. MaxSockets]

RelayInv ==
  /\ ServerSound(srv)
  /\ incoming \in [QueueIndex -> 0 .. MaxSockets] /\ unconfirmed \in [QueueIndex -> 0 .. MaxSockets]
  /\ onionWay \subseteq OnionWays

LEMMA RelayConstants ==
  /\ NumLinks \in Nat /\ NumLinks >= 1 /\ MaxSockets \in Nat /\ MaxSockets >= 1 /\ GrowBy \in Nat /\ GrowBy >= 1
  /\ Cardinality(RelayClient) \in Nat /\ IsFiniteSet(RelayClient) /\ NoClient \notin RelayClient
  /\ 0 \in LinkId /\ 0 \in AccIndex
<1>1. Cardinality(RelayClient) \in Nat
  BY TcpRelayAssumption, FS_CardinalityType
<1> QED
  BY <1>1, TcpRelayAssumption DEF LinkId, AccIndex

LEMMA MutualLinks ==
  ASSUME ServerSound(srv)
  PROVE  LinksAreMutual
<1>1. InUse(srv) = Live(srv.acc)
  BY DEF InUse, Live
<1>2. \A i, j \in InUse(srv) : srv.acc[i].pk = srv.acc[j].pk => i = j
  BY <1>1 DEF ServerSound, Tables, OneEach
<1>3. ASSUME NEW i \in InUse(srv), NEW id \in LinkId
      PROVE  LET link == srv.acc[i].links[id]
                 back == srv.acc[link.index].links[link.other]
             IN  link.status = 2 =>
                   /\ link.index \in InUse(srv) /\ srv.acc[link.index].pk = link.pk
                   /\ back.status = 2 /\ back.pk = srv.acc[i].pk
                   /\ back.index = i /\ back.other = id
  <2>1. srv.acc[i].links[id].status = 2
          => Joined(srv.acc, i, id, srv.acc[i].links[id].index, srv.acc[i].links[id].other)
    BY <1>1, <1>3 DEF ServerSound, Tables, Mutual
  <2> QED
    BY <1>1, <2>1 DEF Joined
<1> QED
  BY <1>2, <1>3, Zenon DEF LinksAreMutual

LEMMA EmptyEntries == NoLink \in Links /\ NoAccepted \in AcceptedEntries /\ NoSocket \in Sockets
<1>1. NoLink \in Links
  BY RelayConstants DEF NoLink, Links
<1>2. NoAccepted \in AcceptedEntries
  BY <1>1, RelayConstants DEF NoAccepted, AcceptedEntries
<1>3. << >> \in Seq(UpPackets) /\ << >> \in Seq(DownPackets)
  OBVIOUS
<1> QED
  BY <1>1, <1>2, <1>3 DEF NoSocket, Sockets

LEMMA RelayInitial == TcpRelayInit => RelayInv
<1> SUFFICES ASSUME TcpRelayInit PROVE RelayInv
  OBVIOUS
<1>1. /\ srv = [acc |-> [i \in AccIndex |-> NoAccepted], size |-> 0, counter |-> 0,
                sock |-> [k \in Socket |-> NoSocket]]
      /\ incoming = [q \in QueueIndex |-> 0] /\ unconfirmed = [q \in QueueIndex |-> 0] /\ onionWay = {}
  BY DEF TcpRelayInit
<1>2. srv \in Servers
  BY <1>1, EmptyEntries DEF Servers
<1>3. Live(srv.acc) = {}
  BY <1>1 DEF Live, NoAccepted
<1>4. Tables(srv.acc)
  BY <1>3 DEF Tables, Keyed, OneEach, OneSlot, Mutual
<1>5. Placed(srv.acc, srv.size)
  <2>1. srv.size = 0
    BY <1>1
  <2> QED
    BY <1>3, <2>1, RelayConstants DEF Placed
<1>6. Owned(srv.sock)
  BY <1>1 DEF Owned, Attached, NoSocket
<1> QED
  BY <1>1, <1>2, <1>4, <1>5, <1>6, RelayConstants DEF RelayInv, ServerSound

-----------------------------------------------------------------------------
(* Sockets.                                                                *)

\* t differs from s in what the sockets carry, and may have closed some.
SocketsOnly(s, t) ==
  /\ t \in Servers /\ t.acc = s.acc /\ t.size = s.size /\ t.counter = s.counter
  /\ \A k \in Socket : (Attached(t.sock[k]) => Attached(s.sock[k])) /\ t.sock[k].owner = s.sock[k].owner

LEMMA SocketsOnlySound ==
  ASSUME NEW s, NEW t, ServerSound(s), SocketsOnly(s, t)
  PROVE  ServerSound(t)
BY DEF ServerSound, SocketsOnly, Owned

LEMMA SocketsOnlyTwice ==
  ASSUME NEW s, NEW t, NEW u, SocketsOnly(s, t), SocketsOnly(t, u)
  PROVE  SocketsOnly(s, u)
BY DEF SocketsOnly

\* One socket changes.
LEMMA OneSocket ==
  ASSUME NEW s \in Servers, NEW t, NEW k, NEW v, t = [s EXCEPT !.sock[k] = v],
         k \in Socket => v \in Sockets /\ (Attached(v) => Attached(s.sock[k])) /\ v.owner = s.sock[k].owner
  PROVE  SocketsOnly(s, t)
<1>1. t.acc = s.acc /\ t.size = s.size /\ t.counter = s.counter /\ t.sock = [s.sock EXCEPT ![k] = v]
  BY DEF Servers
<1>2. t.sock \in [Socket -> Sockets]
  BY <1>1 DEF Servers
<1>3. t \in Servers
  BY <1>2 DEF Servers
<1>4. \A x \in Socket : (Attached(t.sock[x]) => Attached(s.sock[x])) /\ t.sock[x].owner = s.sock[x].owner
  BY <1>1 DEF Servers
<1> QED
  BY <1>1, <1>3, <1>4 DEF SocketsOnly

LEMMA PriorityWritten ==
  ASSUME NEW s \in Servers, NEW i, NEW p \in DownPackets
  PROVE  SocketsOnly(s, WritePriority(s, i, p))
<1>1. PICK k : k = s.acc[i].sock
  OBVIOUS
<1>2. PICK v : v = [s.sock[k] EXCEPT !.down = Append(@, p)]
  OBVIOUS
<1>3. ASSUME k \in Socket
      PROVE  v \in Sockets /\ (Attached(v) => Attached(s.sock[k])) /\ v.owner = s.sock[k].owner
  <2>1. s.sock[k] \in Sockets
    BY <1>3 DEF Servers
  <2>2. s.sock[k].down \in Seq(DownPackets)
    BY <2>1 DEF Sockets
  <2>3. Append(s.sock[k].down, p) \in Seq(DownPackets)
    BY <2>2, AppendProperties
  <2> QED
    BY <1>2, <2>1, <2>3 DEF Sockets, Attached
<1>4. WritePriority(s, i, p) = [s EXCEPT !.sock[k] = v]
  BY <1>1, <1>2 DEF WritePriority
<1> QED
  BY <1>3, <1>4, OneSocket

LEMMA DataWritten ==
  ASSUME NEW s \in Servers, NEW i, NEW p \in DownPackets
  PROVE  SocketsOnly(s, WriteData(s, i, p))
<1>1. SocketsOnly(s, s)
  BY DEF SocketsOnly
<1> QED
  BY <1>1, PriorityWritten DEF WriteData

LEMMA SocketKilled ==
  ASSUME NEW s \in Servers, NEW k
  PROVE  SocketsOnly(s, kill_sock(s, k))
<1>1. PICK v : v = [s.sock[k] EXCEPT !.open = FALSE, !.up = << >>, !.down = << >>]
  OBVIOUS
<1>2. ASSUME k \in Socket
      PROVE  v \in Sockets /\ (Attached(v) => Attached(s.sock[k])) /\ v.owner = s.sock[k].owner
  <2>1. s.sock[k] \in Sockets
    BY <1>2 DEF Servers
  <2>2. << >> \in Seq(UpPackets) /\ << >> \in Seq(DownPackets)
    OBVIOUS
  <2> QED
    BY <1>1, <2>1, <2>2 DEF Sockets, Attached
<1>3. kill_sock(s, k) = [s EXCEPT !.sock[k] = v]
  BY <1>1 DEF kill_sock
<1> QED
  BY <1>2, <1>3, OneSocket

-----------------------------------------------------------------------------
(* Slots are freed, and connections killed.                                *)

\* The slot other of j is linked to one of the slots ids of i.
Partner(acc, i, ids, j, other) ==
  \E id \in LinkId : /\ id \in ids /\ acc[i].links[id].status = 2
                     /\ acc[i].links[id].index = j /\ acc[i].links[id].other = other

\* What FreeLinks makes of the table a.
LinksFreed(a, b, i, ids) ==
  /\ \A j \in AccIndex : b[j].sock = a[j].sock /\ b[j].pk = a[j].pk
  /\ \A j \in AccIndex, other \in LinkId :
       /\ b[j].links[other].pk = a[j].links[other].pk
       /\ j = i /\ other \in ids => b[j].links[other].status = 0
       /\ ~(j = i /\ other \in ids) /\ Partner(a, i, ids, j, other) => b[j].links[other].status = 1
       /\ ~(j = i /\ other \in ids) /\ ~Partner(a, i, ids, j, other) => b[j].links[other] = a[j].links[other]

LEMMA FreeLinksIs ==
  ASSUME NEW s \in Servers, NEW i \in AccIndex, NEW ids, NEW t, t = FreeLinks(s, i, ids)
  PROVE  /\ t \in Servers /\ t.size = s.size /\ t.counter = s.counter
         /\ \A k \in Socket : Attached(t.sock[k]) = Attached(s.sock[k]) /\ t.sock[k].owner = s.sock[k].owner
         /\ LinksFreed(s.acc, t.acc, i, ids)
<1> DEFINE links == s.acc[i].links
           linked == {id \in LinkId : id \in ids /\ links[id].status = 2}
           Freed(link, status) == [link EXCEPT !.status = status, !.index = 0, !.other = 0]
           Link(j, other) ==
             IF j = i /\ other \in ids THEN Freed(links[other], 0)
             ELSE IF \E id \in linked : links[id].index = j /\ links[id].other = other
             THEN Freed(s.acc[j].links[other], 1) ELSE s.acc[j].links[other]
           told == [k \in Socket |-> {id \in linked : s.acc[links[id].index].sock = k}]
           Notice(k) == [type |-> "disconnect", id |-> links[CHOOSE id \in told[k] : TRUE].other]
           a == [j \in AccIndex |-> [s.acc[j] EXCEPT !.links = [id \in LinkId |-> Link(j, id)]]]
           f == [k \in Socket |-> IF told[k] = {} THEN s.sock[k]
                                  ELSE [s.sock[k] EXCEPT !.down = Append(@, Notice(k))]]
<1>1. t = [s EXCEPT !.acc = a, !.sock = f]
  BY DEF FreeLinks
<1>2. s.acc \in [AccIndex -> AcceptedEntries] /\ s.sock \in [Socket -> Sockets] /\ s.size \in Nat /\ s.counter \in Nat
  BY DEF Servers
<1>3. \A j \in AccIndex : s.acc[j].links \in [LinkId -> Links]
  BY <1>2 DEF AcceptedEntries
<1>4. \A j \in AccIndex, other \in LinkId : Link(j, other) \in Links
  <2> TAKE j \in AccIndex, other \in LinkId
  <2>1. links[other] \in Links /\ s.acc[j].links[other] \in Links
    BY <1>3
  <2>2. ASSUME NEW l \in Links, NEW st \in 0 .. 2 PROVE Freed(l, st) \in Links
    BY RelayConstants DEF Links
  <2> HIDE DEF Freed, links
  <2> QED
    BY <2>1, <2>2
<1>5. a \in [AccIndex -> AcceptedEntries]
  <2> HIDE DEF Link
  <2>1. ASSUME NEW j \in AccIndex
        PROVE  [s.acc[j] EXCEPT !.links = [id \in LinkId |-> Link(j, id)]] \in AcceptedEntries
    <3>1. [id \in LinkId |-> Link(j, id)] \in [LinkId -> Links]
      BY <1>4, <2>1
    <3>2. s.acc[j] \in AcceptedEntries
      BY <1>2, <2>1
    <3> QED
      BY <3>1, <3>2 DEF AcceptedEntries
  <2> QED
    BY <2>1
<1>6. \A k \in Socket : f[k] \in Sockets /\ Attached(f[k]) = Attached(s.sock[k]) /\ f[k].owner = s.sock[k].owner
  <2> TAKE k \in Socket
  <2>1. s.sock[k] \in Sockets
    BY <1>2
  <2>2. CASE told[k] = {}
    BY <2>1, <2>2
  <2>3. CASE told[k] # {}
    <3>1. PICK id : id = CHOOSE x \in told[k] : TRUE
      OBVIOUS
    <3>2. id \in told[k]
      BY <2>3, <3>1
    <3>3. id \in LinkId
      BY <3>2
    <3>4. links[id].other \in LinkId
      BY <1>3, <3>3 DEF Links
    <3>5. PICK p : p = Notice(k)
      OBVIOUS
    <3>6. p = [type |-> "disconnect", id |-> links[id].other]
      BY <3>1, <3>5
    <3>7. p \in DownPackets
      BY <3>4, <3>6 DEF DownPackets
    <3>8. Append(s.sock[k].down, p) \in Seq(DownPackets)
      <4>1. s.sock[k].down \in Seq(DownPackets)
        BY <2>1 DEF Sockets
      <4> QED
        BY <3>7, <4>1, AppendProperties
    <3>9. f[k] = [s.sock[k] EXCEPT !.down = Append(@, p)]
      BY <2>3, <3>5
    <3> QED
      BY <2>1, <3>8, <3>9 DEF Sockets, Attached
  <2> QED
    BY <2>2, <2>3
<1>7. DOMAIN f = Socket
  OBVIOUS
<1> HIDE DEF a, f
<1>8. f \in [Socket -> Sockets]
  <2>1. f = [k \in Socket |-> f[k]]
    BY DEF f
  <2> QED
    BY <1>6, <2>1
<1>9. t.acc = a /\ t.sock = f /\ t.size = s.size /\ t.counter = s.counter
  BY <1>1 DEF Servers
<1>10. t \in Servers
  BY <1>1, <1>2, <1>5, <1>8 DEF Servers
<1>11. ASSUME NEW j \in AccIndex
       PROVE  a[j].sock = s.acc[j].sock /\ a[j].pk = s.acc[j].pk
  BY <1>2 DEF a, AcceptedEntries
<1>12. ASSUME NEW j \in AccIndex, NEW other \in LinkId
       PROVE  /\ a[j].links[other].pk = s.acc[j].links[other].pk
              /\ j = i /\ other \in ids => a[j].links[other].status = 0
              /\ ~(j = i /\ other \in ids) /\ Partner(s.acc, i, ids, j, other) => a[j].links[other].status = 1
              /\ ~(j = i /\ other \in ids) /\ ~Partner(s.acc, i, ids, j, other)
                   => a[j].links[other] = s.acc[j].links[other]
  <2>1. a[j].links[other] = Link(j, other)
    <3> HIDE DEF Link
    <3> QED
      BY <1>2 DEF a, AcceptedEntries
  <2>2. links[other] \in Links /\ s.acc[j].links[other] \in Links
    BY <1>3
  <2>3. ASSUME NEW l \in Links, NEW st \in 0 .. 2 PROVE Freed(l, st).pk = l.pk /\ Freed(l, st).status = st
    BY DEF Links
  <2>4. (\E id \in linked : links[id].index = j /\ links[id].other = other) <=> Partner(s.acc, i, ids, j, other)
    BY DEF Partner
  <2>5. PICK l : l = Link(j, other)
    OBVIOUS
  <2> HIDE DEF Freed, linked
  <2>6. CASE j = i /\ other \in ids
    <3>1. l = Freed(links[other], 0) /\ links[other] = s.acc[j].links[other]
      BY <2>5, <2>6
    <3> HIDE DEF Link, links
    <3> QED
      BY <2>1, <2>2, <2>3, <2>5, <2>6, <3>1
  <2>7. CASE ~(j = i /\ other \in ids) /\ Partner(s.acc, i, ids, j, other)
    <3>1. l = Freed(s.acc[j].links[other], 1)
      BY <2>4, <2>5, <2>7
    <3> HIDE DEF Link, links
    <3> QED
      BY <2>1, <2>2, <2>3, <2>5, <2>7, <3>1
  <2>8. CASE ~(j = i /\ other \in ids) /\ ~Partner(s.acc, i, ids, j, other)
    <3>1. l = s.acc[j].links[other]
      BY <2>4, <2>5, <2>8
    <3> HIDE DEF Link, links
    <3> QED
      BY <2>1, <2>5, <2>8, <3>1
  <2> QED
    BY <2>6, <2>7, <2>8
<1>13. LinksFreed(s.acc, a, i, ids)
  BY <1>11, <1>12 DEF LinksFreed
<1> QED
  BY <1>6, <1>9, <1>10, <1>13

LEMMA FreedTables ==
  ASSUME NEW a \in [AccIndex -> AcceptedEntries], NEW b \in [AccIndex -> AcceptedEntries],
         NEW i \in Live(a), NEW ids, Tables(a), LinksFreed(a, b, i, ids)
  PROVE  Tables(b) /\ Live(b) = Live(a)
<1>1. /\ \A j \in AccIndex : b[j].sock = a[j].sock /\ b[j].pk = a[j].pk
      /\ \A j \in AccIndex, other \in LinkId :
           /\ b[j].links[other].pk = a[j].links[other].pk
           /\ j = i /\ other \in ids => b[j].links[other].status = 0
           /\ ~(j = i /\ other \in ids) /\ Partner(a, i, ids, j, other) => b[j].links[other].status = 1
           /\ ~(j = i /\ other \in ids) /\ ~Partner(a, i, ids, j, other) => b[j].links[other] = a[j].links[other]
  BY DEF LinksFreed
<1>2. Live(b) = Live(a) /\ Live(a) \subseteq AccIndex
  BY <1>1 DEF Live
<1>3. Keyed(b) /\ OneEach(b)
  BY <1>1, <1>2 DEF Tables, Keyed, OneEach
<1>4. \A j \in Live(a), other \in LinkId : b[j].links[other].status # 0 => a[j].links[other].status # 0
  <2> SUFFICES ASSUME NEW j \in Live(a), NEW other \in LinkId, b[j].links[other].status # 0
               PROVE  a[j].links[other].status # 0
    OBVIOUS
  <2>1. CASE Partner(a, i, ids, j, other)
    <3>1. PICK id \in LinkId : /\ a[i].links[id].status = 2
                               /\ a[i].links[id].index = j /\ a[i].links[id].other = other
      BY <2>1 DEF Partner
    <3>2. Joined(a, i, id, j, other)
      BY <3>1 DEF Tables, Mutual
    <3> QED
      BY <3>2 DEF Joined
  <2>2. CASE ~Partner(a, i, ids, j, other)
    BY <1>1, <1>2, <2>2
  <2> QED
    BY <2>1, <2>2
<1>5. OneSlot(b)
  BY <1>1, <1>2, <1>4 DEF Tables, OneSlot
<1>6. Mutual(b)
  <2> SUFFICES ASSUME NEW x \in Live(a), NEW id \in LinkId, b[x].links[id].status = 2
               PROVE  Joined(b, x, id, b[x].links[id].index, b[x].links[id].other)
    BY <1>2 DEF Mutual
  <2>1. ~(x = i /\ id \in ids) /\ ~Partner(a, i, ids, x, id) /\ b[x].links[id] = a[x].links[id]
    BY <1>1, <1>2
  <2>2. PICK j, other : j = a[x].links[id].index /\ other = a[x].links[id].other
    OBVIOUS
  <2>3. Joined(a, x, id, j, other)
    BY <2>1, <2>2 DEF Tables, Mutual
  <2>4. other \in LinkId
    <3>1. a[x].links[id] \in Links
      BY <1>2 DEF AcceptedEntries
    <3> QED
      BY <2>2, <3>1 DEF Links
  <2>5. j \in Live(a) /\ a[j].links[other].status = 2 /\ a[j].links[other].index = x /\ a[j].links[other].other = id
    BY <2>3 DEF Joined
  <2>6. ~(j = i /\ other \in ids)
    BY <2>1, <2>4, <2>5 DEF Partner
  <2>7. ~Partner(a, i, ids, j, other)
    <3> SUFFICES ASSUME Partner(a, i, ids, j, other) PROVE FALSE
      OBVIOUS
    <3>1. PICK y \in LinkId : /\ y \in ids /\ a[i].links[y].status = 2
                              /\ a[i].links[y].index = j /\ a[i].links[y].other = other
      BY DEF Partner
    <3>2. Joined(a, i, y, j, other)
      BY <3>1 DEF Tables, Mutual
    <3>3. x = i /\ id = y
      BY <2>5, <3>2 DEF Joined
    <3> QED
      BY <2>1, <3>1, <3>3
  <2>8. b[j].links[other] = a[j].links[other]
    BY <1>1, <1>2, <2>4, <2>5, <2>6, <2>7
  <2>9. j \in Live(b) /\ b[j].pk = a[j].pk /\ b[x].pk = a[x].pk /\ b[x].links[id].pk = a[x].links[id].pk
    BY <1>1, <1>2, <2>5
  <2>10. Joined(b, x, id, j, other)
    BY <2>3, <2>8, <2>9 DEF Joined
  <2> QED
    BY <2>1, <2>2, <2>10
<1> QED
  BY <1>2, <1>3, <1>5, <1>6 DEF Tables

LEMMA LinksFreedSound ==
  ASSUME NEW s, ServerSound(s), NEW i \in InUse(s), NEW ids, NEW t, t = FreeLinks(s, i, ids)
  PROVE  /\ ServerSound(t) /\ Live(t.acc) = Live(s.acc)
         /\ LinksFreed(s.acc, t.acc, i, ids)
         /\ \A k \in Socket : Attached(t.sock[k]) = Attached(s.sock[k]) /\ t.sock[k].owner = s.sock[k].owner
<1>1. s \in Servers /\ i \in AccIndex /\ i \in Live(s.acc)
  BY DEF ServerSound, InUse, Live
<1>2. /\ t \in Servers /\ t.size = s.size
      /\ \A k \in Socket : Attached(t.sock[k]) = Attached(s.sock[k]) /\ t.sock[k].owner = s.sock[k].owner
      /\ LinksFreed(s.acc, t.acc, i, ids)
  BY <1>1, FreeLinksIs
<1>3. s.acc \in [AccIndex -> AcceptedEntries] /\ t.acc \in [AccIndex -> AcceptedEntries]
  BY <1>1, <1>2 DEF Servers
<1>4. Tables(t.acc) /\ Live(t.acc) = Live(s.acc)
  BY <1>1, <1>2, <1>3, FreedTables DEF ServerSound
<1> QED
  BY <1>2, <1>4 DEF ServerSound, Placed, Owned

\* Connection i has no slot in use.
SlotsFree(acc, i) == \A id \in LinkId : acc[i].links[id].status = 0

LEMMA DeletedSound ==
  ASSUME NEW s, ServerSound(s), NEW i, i \in InUse(s), SlotsFree(s.acc, i),
         NEW t, t = del_accepted(s, i)
  PROVE  /\ ServerSound(t) /\ Live(t.acc) = Live(s.acc) \ {i} /\ t.sock = s.sock
         /\ \A j \in Live(t.acc) : t.acc[j] = s.acc[j]
<1>1. s \in Servers /\ i \in AccIndex /\ s.acc \in [AccIndex -> AcceptedEntries] /\ s.size \in Nat
  BY DEF ServerSound, InUse, Servers
<1>2. PICK d : d = [s EXCEPT !.acc[i] = NoAccepted]
  OBVIOUS
<1>3. d \in Servers /\ d.acc = [s.acc EXCEPT ![i] = NoAccepted] /\ d.size = s.size /\ d.sock = s.sock
  BY <1>1, <1>2, EmptyEntries DEF Servers
<1>4. PICK a : a = d.acc
  OBVIOUS
<1>5. a \in [AccIndex -> AcceptedEntries] /\ Live(a) = Live(s.acc) \ {i} /\ \A j \in Live(a) : a[j] = s.acc[j]
  BY <1>1, <1>3, <1>4, EmptyEntries DEF Live, NoAccepted
<1>6. t = (IF Live(a) = {} THEN [d EXCEPT !.size = 0] ELSE d)
  BY <1>2, <1>4 DEF del_accepted, InUse, Live
<1>7. t \in Servers /\ t.acc = a /\ t.sock = s.sock /\ t.size = IF Live(a) = {} THEN 0 ELSE s.size
  BY <1>3, <1>4, <1>6 DEF Servers
<1>8. Tables(a)
  <2>1. Keyed(a) /\ OneEach(a) /\ OneSlot(a)
    BY <1>5 DEF ServerSound, Tables, Keyed, OneEach, OneSlot
  <2>2. Mutual(a)
    <3> SUFFICES ASSUME NEW x \in Live(a), NEW id \in LinkId, a[x].links[id].status = 2
                 PROVE  Joined(a, x, id, a[x].links[id].index, a[x].links[id].other)
      BY DEF Mutual
    <3>1. PICK j, other : j = a[x].links[id].index /\ other = a[x].links[id].other
      OBVIOUS
    <3>2. Joined(s.acc, x, id, j, other)
      BY <1>5, <3>1 DEF ServerSound, Tables, Mutual
    <3>3. other \in LinkId
      <4>1. a[x].links[id] \in Links
        BY <1>5 DEF AcceptedEntries, Live
      <4> QED
        BY <3>1, <4>1 DEF Links
    <3>4. j # i
      BY <3>2, <3>3 DEF Joined, SlotsFree
    <3> QED
      BY <1>5, <3>1, <3>2, <3>4 DEF Joined
  <2> QED
    BY <2>1, <2>2 DEF Tables
<1>9. Placed(a, t.size)
  BY <1>1, <1>5, <1>7, RelayConstants DEF ServerSound, Placed
<1> QED
  BY <1>5, <1>7, <1>8, <1>9 DEF ServerSound

LEMMA KilledSound ==
  ASSUME NEW s, ServerSound(s), NEW i \in InUse(s), NEW t, t = kill_accepted(s, i)
  PROVE  /\ ServerSound(t) /\ Live(t.acc) = Live(s.acc) \ {i}
         /\ \A j \in Live(t.acc) : t.acc[j].pk = s.acc[j].pk
<1>1. PICK u : u = FreeLinks(s, i, LinkId)
  OBVIOUS
<1>2. ServerSound(u) /\ Live(u.acc) = Live(s.acc) /\ LinksFreed(s.acc, u.acc, i, LinkId)
  BY <1>1, LinksFreedSound
<1>3. i \in AccIndex /\ i \in InUse(u)
  BY <1>2 DEF InUse, Live
<1>4. SlotsFree(u.acc, i)
  BY <1>2, <1>3 DEF LinksFreed, SlotsFree
<1>5. PICK v : v = del_accepted(u, i)
  OBVIOUS
<1>6. /\ ServerSound(v) /\ Live(v.acc) = Live(u.acc) \ {i}
      /\ \A j \in Live(v.acc) : v.acc[j] = u.acc[j]
  BY <1>2, <1>3, <1>4, <1>5, DeletedSound
<1>7. t = kill_sock(v, s.acc[i].sock)
  BY <1>1, <1>5 DEF kill_accepted
<1>8. SocketsOnly(v, t)
  BY <1>6, <1>7, SocketKilled DEF ServerSound
<1>9. ServerSound(t) /\ t.acc = v.acc
  BY <1>6, <1>8, SocketsOnlySound DEF SocketsOnly
<1>10. \A j \in AccIndex : u.acc[j].pk = s.acc[j].pk
  BY <1>2 DEF LinksFreed
<1> QED
  BY <1>2, <1>6, <1>9, <1>10 DEF Live

-----------------------------------------------------------------------------
(* A connection is added.                                                  *)

LEMMA FirstOne ==
  ASSUME NEW S, S \subseteq Nat, S # {}
  PROVE  Min(S) \in S
BY LeastNumber DEF Min

LEMMA LastOne ==
  ASSUME NEW n \in Nat, NEW S, S \subseteq 0 .. n, S # {}
  PROVE  Max(S) \in S
<1>1. PICK T : T = {n - x : x \in S}
  OBVIOUS
<1>2. T \subseteq Nat /\ T # {}
  <2>1. \A x \in S : n - x \in Nat
    OBVIOUS
  <2> QED
    BY <1>1, <2>1
<1>3. PICK y \in T : \A z \in T : y <= z
  BY <1>2, LeastNumber
<1>4. PICK x \in S : y = n - x
  BY <1>1
<1>5. \A z \in S : x >= z
  <2> TAKE z \in S
  <2>1. n - z \in T
    BY <1>1
  <2> QED
    BY <1>3, <1>4, <2>1
<1> QED
  BY <1>5 DEF Max

LEMMA LiveBound ==
  ASSUME NEW acc, Keyed(acc), OneEach(acc)
  PROVE  IsFiniteSet(Live(acc)) /\ Cardinality(Live(acc)) \in Nat
         /\ Cardinality(Live(acc)) <= Cardinality(RelayClient)
<1> DEFINE f == [i \in Live(acc) |-> acc[i].pk]
<1>1. f \in [Live(acc) -> RelayClient]
  BY DEF Keyed
<1>2. \A i, j \in Live(acc) : f[i] = f[j] => i = j
  BY DEF OneEach
<1>3. f \in Injection(Live(acc), RelayClient)
  BY <1>1, <1>2, Fun_IsInj
<1> HIDE DEF f
<1>4. IsFiniteSet(Live(acc)) /\ Cardinality(Live(acc)) <= Cardinality(RelayClient)
  BY <1>3, RelayConstants, FS_Injection
<1> QED
  BY <1>4, FS_CardinalityType

\* The place add_accepted gives is free, and within the array once that has grown.
LEMMA FreePlace ==
  ASSUME NEW t, ServerSound(t), NEW index,
         index = IF t.size = Cardinality(InUse(t)) THEN t.size
                 ELSE Max({i \in 0 .. t.size - 1 : t.acc[i].sock = 0})
  PROVE  /\ index \in AccIndex /\ index \notin Live(t.acc)
         /\ t.size = Cardinality(InUse(t)) => index = t.size /\ t.size <= Cardinality(RelayClient)
         /\ t.size # Cardinality(InUse(t)) => index \in 0 .. t.size - 1
<1>1. /\ t.size \in Nat /\ Live(t.acc) \subseteq 0 .. t.size - 1 /\ InUse(t) = Live(t.acc)
      /\ t.size <= Cardinality(RelayClient) + GrowBy
  BY DEF ServerSound, Servers, Placed, InUse, Live
<1>2. Cardinality(Live(t.acc)) \in Nat /\ Cardinality(Live(t.acc)) <= Cardinality(RelayClient)
  BY LiveBound DEF ServerSound, Tables
<1>3. CASE t.size = Cardinality(InUse(t))
  BY <1>1, <1>2, <1>3, RelayConstants DEF AccIndex
<1>4. CASE t.size # Cardinality(InUse(t))
  <2>1. PICK S : S = {i \in 0 .. t.size - 1 : t.acc[i].sock = 0}
    OBVIOUS
  <2>2. 0 .. t.size - 1 \subseteq AccIndex
    BY <1>1, RelayConstants DEF AccIndex
  <2>3. S # {}
    <3> SUFFICES ASSUME S = {} PROVE FALSE
      OBVIOUS
    <3>1. Live(t.acc) = 0 .. t.size - 1
      BY <1>1, <2>1, <2>2 DEF Live
    <3>2. Cardinality(0 .. t.size - 1) = IF 0 > t.size - 1 THEN 0 ELSE t.size - 1 - 0 + 1
      BY <1>1, FS_Interval
    <3> QED
      BY <1>1, <1>4, <3>1, <3>2
  <2>4. t.size # 0
    BY <1>1, <2>1, <2>3
  <2>5. t.size - 1 \in Nat
    BY <1>1, <2>4
  <2>6. Max(S) \in S
    BY <2>1, <2>3, <2>5, LastOne
  <2>7. index = Max(S)
    BY <1>4, <2>1
  <2> QED
    BY <1>4, <2>1, <2>2, <2>6, <2>7 DEF Live
<1> QED
  BY <1>3, <1>4

\* The connection over socket k in place index of the array.
Entered(t, index, k, pk) ==
  [t EXCEPT !.size = IF t.size = Cardinality(InUse(t)) THEN @ + GrowBy ELSE @,
            !.counter = @ + 1,
            !.acc[index] = [NoAccepted EXCEPT !.sock = k, !.pk = pk, !.ident = t.counter + 1]]

LEMMA ServerRecord ==
  ASSUME NEW a \in [AccIndex -> AcceptedEntries], NEW size \in Nat, NEW c \in Nat, NEW f \in [Socket -> Sockets]
  PROVE  [acc |-> a, size |-> size, counter |-> c, sock |-> f] \in Servers
BY DEF Servers

LEMMA EnteredSound ==
  ASSUME NEW t, ServerSound(t), NEW index, NEW k \in Socket, NEW pk \in RelayClient,
         index = IF t.size = Cardinality(InUse(t)) THEN t.size
                 ELSE Max({i \in 0 .. t.size - 1 : t.acc[i].sock = 0}),
         \A j \in Live(t.acc) : t.acc[j].pk # pk,
         NEW u, u = Entered(t, index, k, pk)
  PROVE  ServerSound(u) /\ index \in InUse(u)
<1>1. /\ index \in AccIndex /\ index \notin Live(t.acc)
      /\ t.size = Cardinality(InUse(t)) => index = t.size /\ t.size <= Cardinality(RelayClient)
      /\ t.size # Cardinality(InUse(t)) => index \in 0 .. t.size - 1
  BY FreePlace
<1>2. /\ t \in Servers /\ t.acc \in [AccIndex -> AcceptedEntries] /\ t.size \in Nat /\ t.counter \in Nat
  BY DEF ServerSound, Servers
<1>3. PICK e : e = [NoAccepted EXCEPT !.sock = k, !.pk = pk, !.ident = t.counter + 1]
  OBVIOUS
<1>4. /\ e \in AcceptedEntries /\ e.sock # 0 /\ e.pk = pk
      /\ \A id \in LinkId : e.links[id].status = 0
  <2>1. e = [sock |-> k, pk |-> pk, ident |-> t.counter + 1, links |-> [id \in LinkId |-> NoLink]]
    BY <1>3 DEF NoAccepted
  <2>2. k \in 0 .. MaxSockets /\ k # 0 /\ t.counter + 1 \in Nat
    BY <1>2, RelayConstants DEF Socket
  <2>3. [id \in LinkId |-> NoLink] \in [LinkId -> Links] /\ NoLink.status = 0
    BY EmptyEntries DEF NoLink
  <2> QED
    BY <2>1, <2>2, <2>3 DEF AcceptedEntries
<1>5. PICK size : size = IF t.size = Cardinality(InUse(t)) THEN t.size + GrowBy ELSE t.size
  OBVIOUS
<1>6. size \in Nat /\ size >= t.size /\ size <= Cardinality(RelayClient) + GrowBy /\ index \in 0 .. size - 1
  <2>1. t.size <= Cardinality(RelayClient) + GrowBy
    BY DEF ServerSound, Placed
  <2> QED
    BY <1>1, <1>2, <1>5, <2>1, RelayConstants
<1>7. PICK a : a = [t.acc EXCEPT ![index] = e]
  OBVIOUS
<1>8. /\ a \in [AccIndex -> AcceptedEntries] /\ a[index] = e
      /\ \A j \in AccIndex \ {index} : a[j] = t.acc[j]
  BY <1>1, <1>2, <1>4, <1>7
<1>9. u = [t EXCEPT !.size = size, !.counter = @ + 1, !.acc = a]
  BY <1>2, <1>3, <1>5, <1>7 DEF Servers, Entered
<1>10. u \in Servers /\ u.acc = a /\ u.size = size /\ u.sock = t.sock
  <2>1. PICK c, f : c = t.counter + 1 /\ f = t.sock
    OBVIOUS
  <2>2. u = [acc |-> a, size |-> size, counter |-> c, sock |-> f]
    BY <1>2, <1>9, <2>1 DEF Servers
  <2>3. c \in Nat /\ f \in [Socket -> Sockets]
    BY <1>2, <2>1 DEF Servers
  <2>4. a \in [AccIndex -> AcceptedEntries] /\ size \in Nat
    BY <1>6, <1>8
  <2>5. u \in Servers
    BY <2>2, <2>3, <2>4, ServerRecord
  <2>6. u.acc = a /\ u.size = size /\ u.sock = f
    BY <2>2
  <2> QED
    BY <2>1, <2>5, <2>6
<1>11. Live(a) = Live(t.acc) \cup {index} /\ Live(t.acc) \subseteq AccIndex
  <2>1. \A j \in AccIndex : j \in Live(a) <=> j \in Live(t.acc) \/ j = index
    BY <1>1, <1>4, <1>8 DEF Live
  <2>2. Live(a) \subseteq AccIndex /\ Live(t.acc) \subseteq AccIndex
    BY DEF Live
  <2> QED
    BY <1>1, <2>1, <2>2
<1>12. Keyed(a) /\ OneEach(a) /\ OneSlot(a)
  <2>1. \A j \in Live(a) : j = index \/ (j \in Live(t.acc) /\ a[j] = t.acc[j])
    BY <1>8, <1>11
  <2>2. Keyed(a)
    BY <1>4, <1>8, <2>1 DEF ServerSound, Tables, Keyed
  <2>3. OneEach(a)
    BY <1>4, <1>8, <2>1 DEF ServerSound, Tables, OneEach
  <2>4. OneSlot(a)
    <3>1. SlotsFree(a, index)
      BY <1>4, <1>8 DEF SlotsFree
    <3>2. OneSlot(t.acc)
      BY DEF ServerSound, Tables
    <3>3. ASSUME NEW i \in Live(a), NEW id \in LinkId, NEW other \in LinkId,
                 a[i].links[id].status # 0, a[i].links[other].status # 0, a[i].links[id].pk = a[i].links[other].pk
          PROVE  id = other
      <4>1. i \in Live(t.acc) /\ a[i] = t.acc[i]
        BY <2>1, <3>1, <3>3 DEF SlotsFree
      <4> QED
        BY <3>2, <3>3, <4>1 DEF OneSlot
    <3> QED
      BY <3>3 DEF OneSlot
  <2> QED
    BY <2>2, <2>3, <2>4
<1>13. Mutual(a)
  <2> SUFFICES ASSUME NEW x \in Live(a), NEW id \in LinkId, a[x].links[id].status = 2
               PROVE  Joined(a, x, id, a[x].links[id].index, a[x].links[id].other)
    BY DEF Mutual
  <2>1. x \in Live(t.acc) /\ a[x] = t.acc[x]
    <3>1. x # index
      BY <1>4, <1>8
    <3> QED
      BY <1>8, <1>11, <3>1
  <2>2. PICK j, other : j = a[x].links[id].index /\ other = a[x].links[id].other
    OBVIOUS
  <2>3. Joined(t.acc, x, id, j, other)
    BY <2>1, <2>2 DEF ServerSound, Tables, Mutual
  <2>4. j \in Live(t.acc) /\ a[j] = t.acc[j] /\ j \in Live(a)
    BY <1>1, <1>8, <1>11, <2>3 DEF Joined
  <2>5. Joined(a, x, id, j, other)
    BY <2>1, <2>3, <2>4 DEF Joined
  <2> QED
    BY <2>2, <2>5
<1>14. Placed(a, size)
  <2>1. Live(t.acc) \subseteq 0 .. t.size - 1
    BY DEF ServerSound, Placed
  <2>2. 0 .. t.size - 1 \subseteq 0 .. size - 1
    BY <1>2, <1>6
  <2> QED
    BY <1>6, <1>11, <2>1, <2>2 DEF Placed
<1>15. index \in InUse(u)
  BY <1>1, <1>4, <1>8, <1>10 DEF InUse
<1> QED
  BY <1>10, <1>12, <1>13, <1>14, <1>15 DEF ServerSound, Tables

LEMMA AddedSound ==
  ASSUME NEW s, ServerSound(s), NEW k \in Socket, s.sock[k].owner \in RelayClient,
         NEW r, r = add_accepted(s, k)
  PROVE  ServerSound(r.s) /\ r.index \in InUse(r.s)
<1>1. PICK pk \in RelayClient : pk = s.sock[k].owner
  OBVIOUS
<1>2. PICK old : old = get_TCP_connection_index(s, pk)
  OBVIOUS
<1>3. old = {i \in Live(s.acc) : s.acc[i].pk = pk} /\ InUse(s) = Live(s.acc)
  BY <1>2 DEF get_TCP_connection_index, InUse, Live
<1>4. PICK t : t = IF old = {} THEN s ELSE kill_accepted(s, Min(old))
  OBVIOUS
<1>5. ServerSound(t) /\ \A j \in Live(t.acc) : t.acc[j].pk # pk
  <2>1. CASE old = {}
    BY <1>3, <1>4, <2>1
  <2>2. CASE old # {}
    <3>1. old \subseteq Nat
      BY <1>3, RelayConstants DEF Live, AccIndex
    <3>2. PICK i : i = Min(old)
      OBVIOUS
    <3>3. i \in old
      BY <2>2, <3>1, <3>2, FirstOne
    <3>4. i \in InUse(s) /\ s.acc[i].pk = pk
      BY <1>3, <3>3
    <3>5. t = kill_accepted(s, i)
      BY <1>4, <2>2, <3>2
    <3>6. /\ ServerSound(t) /\ Live(t.acc) = Live(s.acc) \ {i}
          /\ \A j \in Live(t.acc) : t.acc[j].pk = s.acc[j].pk
      BY <3>4, <3>5, KilledSound
    <3>7. \A j \in Live(s.acc) : s.acc[j].pk = pk => j = i
      BY <1>3, <3>4 DEF ServerSound, Tables, OneEach
    <3> QED
      BY <3>6, <3>7
  <2> QED
    BY <2>1, <2>2
<1>6. PICK index : index = IF t.size = Cardinality(InUse(t)) THEN t.size
                           ELSE Max({i \in 0 .. t.size - 1 : t.acc[i].sock = 0})
  OBVIOUS
<1>7. PICK u : u = Entered(t, index, k, pk)
  OBVIOUS
<1>8. r = [s |-> u, index |-> index]
  BY <1>1, <1>2, <1>4, <1>6, <1>7 DEF add_accepted, Entered
<1>9. ServerSound(u) /\ index \in InUse(u)
  BY <1>5, <1>6, <1>7, EnteredSound
<1> QED
  BY <1>8, <1>9

-----------------------------------------------------------------------------
(* Routing requests.                                                       *)

\* In b the slot id of i is l, and all else is as in a.
SlotIs(a, b, i, id, l) ==
  /\ b \in [AccIndex -> AcceptedEntries] /\ b[i].links[id] = l
  /\ \A j \in AccIndex : b[j].sock = a[j].sock /\ b[j].pk = a[j].pk
  /\ \A j \in AccIndex, other \in LinkId : ~(j = i /\ other = id) => b[j].links[other] = a[j].links[other]

LEMMA SlotSet ==
  ASSUME NEW a \in [AccIndex -> AcceptedEntries], NEW i \in AccIndex, NEW id \in LinkId, NEW l \in Links
  PROVE  SlotIs(a, [a EXCEPT ![i].links[id] = l], i, id, l)
<1>1. PICK ls : ls = [a[i].links EXCEPT ![id] = l]
  OBVIOUS
<1>2. a[i] \in AcceptedEntries /\ a[i].links \in [LinkId -> Links]
  BY DEF AcceptedEntries
<1>3. ls \in [LinkId -> Links] /\ ls[id] = l /\ \A other \in LinkId : other # id => ls[other] = a[i].links[other]
  BY <1>1, <1>2
<1>4. PICK e : e = [a[i] EXCEPT !.links = ls]
  OBVIOUS
<1>5. e \in AcceptedEntries /\ e.links = ls /\ e.sock = a[i].sock /\ e.pk = a[i].pk
  BY <1>2, <1>3, <1>4 DEF AcceptedEntries
<1>6. PICK b : b = [a EXCEPT ![i] = e]
  OBVIOUS
<1>7. b = [a EXCEPT ![i].links[id] = l]
  BY <1>1, <1>4, <1>6
<1>8. b \in [AccIndex -> AcceptedEntries] /\ b[i] = e /\ \A j \in AccIndex : j # i => b[j] = a[j]
  BY <1>5, <1>6
<1>9. SlotIs(a, b, i, id, l)
  BY <1>3, <1>5, <1>8 DEF SlotIs
<1> QED
  BY <1>7, <1>9

LEMMA SlotLive ==
  ASSUME NEW a, NEW b, NEW i, NEW id, NEW l, SlotIs(a, b, i, id, l)
  PROVE  Live(b) = Live(a)
BY DEF SlotIs, Live

\* A free slot is given to a peer that has none.
LEMMA SlotTaken ==
  ASSUME NEW a \in [AccIndex -> AcceptedEntries], NEW b, NEW i \in Live(a), NEW id \in LinkId, NEW l,
         SlotIs(a, b, i, id, l), Tables(a), a[i].links[id].status = 0, l.status = 1,
         \A other \in LinkId : a[i].links[other].status # 0 => a[i].links[other].pk # l.pk
  PROVE  Tables(b)
<1>1. /\ b \in [AccIndex -> AcceptedEntries] /\ b[i].links[id] = l
      /\ \A j \in AccIndex : b[j].sock = a[j].sock /\ b[j].pk = a[j].pk
      /\ \A j \in AccIndex, other \in LinkId : ~(j = i /\ other = id) => b[j].links[other] = a[j].links[other]
  BY DEF SlotIs
<1>2. Live(b) = Live(a) /\ Live(a) \subseteq AccIndex
  BY SlotLive DEF Live
<1>3. Keyed(b) /\ OneEach(b)
  BY <1>1, <1>2 DEF Tables, Keyed, OneEach
<1>4. OneSlot(b)
  <2> SUFFICES ASSUME NEW x \in Live(a), NEW y \in LinkId, NEW z \in LinkId, y # z,
                      b[x].links[y].status # 0, b[x].links[z].status # 0, b[x].links[y].pk = b[x].links[z].pk
               PROVE  FALSE
    BY <1>2 DEF OneSlot
  <2>1. CASE x = i /\ y = id
    <3>1. b[x].links[z] = a[i].links[z] /\ b[x].links[y] = l
      BY <1>1, <1>2, <2>1
    <3> QED
      BY <2>1, <3>1
  <2>2. CASE x = i /\ z = id
    <3>1. b[x].links[y] = a[i].links[y] /\ b[x].links[z] = l
      BY <1>1, <1>2, <2>2
    <3> QED
      BY <2>2, <3>1
  <2>3. CASE ~(x = i /\ y = id) /\ ~(x = i /\ z = id)
    <3>1. b[x].links[y] = a[x].links[y] /\ b[x].links[z] = a[x].links[z]
      BY <1>1, <1>2, <2>3
    <3> QED
      BY <3>1 DEF Tables, OneSlot
  <2> QED
    BY <2>1, <2>2, <2>3
<1>5. Mutual(b)
  <2> SUFFICES ASSUME NEW x \in Live(a), NEW y \in LinkId, b[x].links[y].status = 2
               PROVE  Joined(b, x, y, b[x].links[y].index, b[x].links[y].other)
    BY <1>2 DEF Mutual
  <2>1. b[x].links[y] = a[x].links[y]
    BY <1>1, <1>2
  <2>2. PICK j, other : j = a[x].links[y].index /\ other = a[x].links[y].other
    OBVIOUS
  <2>3. Joined(a, x, y, j, other)
    BY <2>1, <2>2 DEF Tables, Mutual
  <2>4. other \in LinkId
    <3>1. a[x].links[y] \in Links
      BY <1>2 DEF AcceptedEntries
    <3> QED
      BY <2>2, <3>1 DEF Links
  <2>5. j \in Live(a) /\ a[j].links[other].status = 2
    BY <2>3 DEF Joined
  <2>6. b[j].links[other] = a[j].links[other]
    BY <1>1, <1>2, <2>4, <2>5
  <2>7. j \in Live(b) /\ b[j].pk = a[j].pk /\ b[x].pk = a[x].pk
    BY <1>1, <1>2, <2>5
  <2>8. Joined(b, x, y, j, other)
    BY <2>1, <2>3, <2>6, <2>7 DEF Joined
  <2> QED
    BY <2>1, <2>2, <2>8
<1> QED
  BY <1>3, <1>4, <1>5 DEF Tables

\* Two slots that wait for each other are linked.
LEMMA SlotsLinked ==
  ASSUME NEW a \in [AccIndex -> AcceptedEntries], NEW b, NEW c, Tables(a),
         NEW i \in Live(a), NEW id \in LinkId, NEW j \in Live(a), NEW other \in LinkId, i # j,
         a[i].links[id].status = 1, a[i].links[id].pk = a[j].pk,
         a[j].links[other].status = 1, a[j].links[other].pk = a[i].pk,
         NEW l, NEW m,
         SlotIs(a, b, i, id, l), l.status = 2, l.pk = a[i].links[id].pk, l.index = j, l.other = other,
         SlotIs(b, c, j, other, m), m.status = 2, m.pk = a[j].links[other].pk, m.index = i, m.other = id
  PROVE  Tables(c)
<1>1. Live(c) = Live(a) /\ Live(a) \subseteq AccIndex
  <2>1. Live(b) = Live(a)
    BY SlotLive
  <2>2. Live(c) = Live(b)
    BY SlotLive
  <2> QED
    BY <2>1, <2>2 DEF Live
<1>2. \A x \in AccIndex : c[x].pk = a[x].pk
  BY DEF SlotIs
<1>3. c[i].links[id] = l /\ c[j].links[other] = m
  BY <1>1 DEF SlotIs
<1>4. \A x \in AccIndex, y \in LinkId :
        ~(x = i /\ y = id) /\ ~(x = j /\ y = other) => c[x].links[y] = a[x].links[y]
  BY DEF SlotIs
<1>5. Keyed(c) /\ OneEach(c)
  BY <1>1, <1>2 DEF Tables, Keyed, OneEach
<1>6. \A x \in AccIndex, y \in LinkId :
        c[x].links[y].pk = a[x].links[y].pk /\ (c[x].links[y].status # 0 => a[x].links[y].status # 0)
  BY <1>3, <1>4
<1>7. OneSlot(c)
  BY <1>1, <1>6 DEF Tables, OneSlot
<1>8. Mutual(c)
  <2> SUFFICES ASSUME NEW x \in Live(a), NEW y \in LinkId, c[x].links[y].status = 2
               PROVE  Joined(c, x, y, c[x].links[y].index, c[x].links[y].other)
    BY <1>1 DEF Mutual
  <2>1. Joined(c, i, id, j, other) /\ Joined(c, j, other, i, id)
    BY <1>1, <1>2, <1>3 DEF Joined
  <2>2. CASE x = i /\ y = id
    BY <1>3, <2>1, <2>2
  <2>3. CASE x = j /\ y = other
    BY <1>3, <2>1, <2>3
  <2>4. CASE ~(x = i /\ y = id) /\ ~(x = j /\ y = other)
    <3>1. c[x].links[y] = a[x].links[y]
      BY <1>1, <1>4, <2>4
    <3>2. PICK u, v : u = a[x].links[y].index /\ v = a[x].links[y].other
      OBVIOUS
    <3>3. Joined(a, x, y, u, v)
      BY <3>1, <3>2 DEF Tables, Mutual
    <3>4. v \in LinkId
      <4>1. a[x].links[y] \in Links
        BY <1>1 DEF AcceptedEntries
      <4> QED
        BY <3>2, <4>1 DEF Links
    <3>5. u \in Live(a) /\ a[u].links[v].status = 2
      BY <3>3 DEF Joined
    <3>6. c[u].links[v] = a[u].links[v]
      BY <1>1, <1>4, <3>4, <3>5
    <3>7. Joined(c, x, y, u, v)
      BY <1>1, <1>2, <3>1, <3>3, <3>5, <3>6 DEF Joined
    <3> QED
      BY <3>1, <3>2, <3>7
  <2> QED
    BY <2>2, <2>3, <2>4
<1> QED
  BY <1>5, <1>7, <1>8 DEF Tables

LEMMA TableReplaced ==
  ASSUME NEW s, ServerSound(s), NEW b \in [AccIndex -> AcceptedEntries], Tables(b), Live(b) = Live(s.acc),
         NEW t, t = [s EXCEPT !.acc = b]
  PROVE  ServerSound(t) /\ t.acc = b
<1>1. s \in Servers
  BY DEF ServerSound
<1>2. t \in Servers /\ t.acc = b /\ t.size = s.size /\ t.sock = s.sock
  BY <1>1 DEF Servers
<1> QED
  BY <1>2 DEF ServerSound, Placed

\* The slot l linked to the slot other of connection j.
LinkedTo(l, j, other) == [l EXCEPT !.status = 2, !.index = j, !.other = other]

LEMMA LinkedRecord ==
  ASSUME NEW l \in Links, NEW j \in AccIndex, NEW other \in LinkId,
         NEW m, m = LinkedTo(l, j, other)
  PROVE  m \in Links /\ m.status = 2 /\ m.pk = l.pk /\ m.index = j /\ m.other = other
<1>1. m = [status |-> 2, pk |-> l.pk, index |-> j, other |-> other] /\ l.pk \in RelayClient \cup {NoClient}
  BY DEF Links, LinkedTo
<1>2. 2 \in 0 .. 2
  OBVIOUS
<1> QED
  BY <1>1, <1>2 DEF Links

LEMMA WaitingRecord ==
  ASSUME NEW pk \in RelayClient, NEW m, m = [NoLink EXCEPT !.status = 1, !.pk = pk]
  PROVE  m \in Links /\ m.status = 1 /\ m.pk = pk
<1>1. m = [status |-> 1, pk |-> pk, index |-> 0, other |-> 0]
  BY DEF NoLink
<1> QED
  BY <1>1, RelayConstants DEF Links

LEMMA TakenSound ==
  ASSUME NEW s, ServerSound(s), NEW i \in Live(s.acc), NEW id \in LinkId, NEW pk \in RelayClient,
         s.acc[i].links[id].status = 0,
         \A other \in LinkId : s.acc[i].links[other].status # 0 => s.acc[i].links[other].pk # pk,
         NEW t, t = [s EXCEPT !.acc[i].links[id] = [NoLink EXCEPT !.status = 1, !.pk = pk]]
  PROVE  /\ ServerSound(t)
         /\ \E l : l.status = 1 /\ l.pk = pk /\ SlotIs(s.acc, t.acc, i, id, l)
<1>1. PICK l : l = [NoLink EXCEPT !.status = 1, !.pk = pk]
  OBVIOUS
<1>2. l \in Links /\ l.status = 1 /\ l.pk = pk
  BY <1>1, WaitingRecord
<1>3. s.acc \in [AccIndex -> AcceptedEntries] /\ Tables(s.acc) /\ i \in AccIndex /\ s \in Servers
  BY DEF ServerSound, Servers, Live
<1>4. PICK b : b = [s.acc EXCEPT ![i].links[id] = l]
  OBVIOUS
<1>5. SlotIs(s.acc, b, i, id, l)
  BY <1>2, <1>3, <1>4, SlotSet
<1>6. Tables(b) /\ Live(b) = Live(s.acc)
  <2>1. \A other \in LinkId : s.acc[i].links[other].status # 0 => s.acc[i].links[other].pk # l.pk
    BY <1>2
  <2>2. Live(b) = Live(s.acc)
    BY <1>5, SlotLive
  <2>3. Tables(b)
    BY <1>2, <1>3, <1>5, <2>1, SlotTaken
  <2> QED
    BY <2>2, <2>3
<1>7. t = [s EXCEPT !.acc = b]
  BY <1>1, <1>3, <1>4 DEF Servers
<1>8. ServerSound(t) /\ t.acc = b
  <2>1. b \in [AccIndex -> AcceptedEntries]
    BY <1>5 DEF SlotIs
  <2> QED
    BY <1>6, <1>7, <2>1, TableReplaced
<1> QED
  BY <1>2, <1>5, <1>8

LEMMA BothLinkedSound ==
  ASSUME NEW s, ServerSound(s), NEW i \in Live(s.acc), NEW id \in LinkId, NEW j \in Live(s.acc),
         NEW other \in LinkId, i # j,
         s.acc[i].links[id].status = 1, s.acc[i].links[id].pk = s.acc[j].pk,
         s.acc[j].links[other].status = 1, s.acc[j].links[other].pk = s.acc[i].pk,
         NEW t, t = LinkBoth(s, i, id, j, other)
  PROVE  ServerSound(t)
<1>1. s.acc \in [AccIndex -> AcceptedEntries] /\ Tables(s.acc) /\ i \in AccIndex /\ j \in AccIndex /\ s \in Servers
  BY DEF ServerSound, Servers, Live
<1>2. PICK l : l = [s.acc[i].links[id] EXCEPT !.status = 2, !.index = j, !.other = other]
  OBVIOUS
<1>3. s.acc[i].links[id] \in Links /\ s.acc[j].links[other] \in Links
  BY <1>1 DEF AcceptedEntries
<1>4. l \in Links /\ l.status = 2 /\ l.pk = s.acc[i].links[id].pk /\ l.index = j /\ l.other = other
  <2>1. PICK w \in Links : w = s.acc[i].links[id]
    BY <1>3
  <2>2. l = LinkedTo(w, j, other)
    BY <1>2, <2>1 DEF LinkedTo
  <2>3. l \in Links /\ l.status = 2 /\ l.pk = w.pk /\ l.index = j /\ l.other = other
    BY <1>1, <2>2, LinkedRecord
  <2> QED
    BY <2>1, <2>3
<1>5. PICK m : m = [s.acc[j].links[other] EXCEPT !.status = 2, !.index = i, !.other = id]
  OBVIOUS
<1>6. m \in Links /\ m.status = 2 /\ m.pk = s.acc[j].links[other].pk /\ m.index = i /\ m.other = id
  <2>1. PICK w \in Links : w = s.acc[j].links[other]
    BY <1>3
  <2>2. m = LinkedTo(w, i, id)
    BY <1>5, <2>1 DEF LinkedTo
  <2>3. m \in Links /\ m.status = 2 /\ m.pk = w.pk /\ m.index = i /\ m.other = id
    BY <1>1, <2>2, LinkedRecord
  <2> QED
    BY <2>1, <2>3
<1>7. PICK b : b = [s.acc EXCEPT ![i].links[id] = l]
  OBVIOUS
<1>8. SlotIs(s.acc, b, i, id, l)
  BY <1>1, <1>4, <1>7, SlotSet
<1>9. b \in [AccIndex -> AcceptedEntries] /\ b[j].links[other] = s.acc[j].links[other]
  BY <1>1, <1>8 DEF SlotIs
<1>10. PICK c : c = [b EXCEPT ![j].links[other] = m]
  OBVIOUS
<1>11. SlotIs(b, c, j, other, m)
  BY <1>1, <1>6, <1>9, <1>10, SlotSet
<1>12. Tables(c)
  BY <1>1, <1>4, <1>6, <1>8, <1>11, SlotsLinked
<1>13. Live(c) = Live(s.acc) /\ c \in [AccIndex -> AcceptedEntries]
  <2>1. Live(b) = Live(s.acc)
    BY <1>8, SlotLive
  <2>2. Live(c) = Live(b)
    BY <1>11, SlotLive
  <2> QED
    BY <1>11, <2>1, <2>2 DEF SlotIs
<1>14. PICK u : u = [s EXCEPT !.acc = c]
  OBVIOUS
<1>15. ServerSound(u)
  BY <1>12, <1>13, <1>14, TableReplaced
<1>16. u = [s EXCEPT !.acc[i].links[id] = [@ EXCEPT !.status = 2, !.index = j, !.other = other],
                     !.acc[j].links[other] = [@ EXCEPT !.status = 2, !.index = i, !.other = id]]
  <2>1. b = [s.acc EXCEPT ![i].links[id] = [@ EXCEPT !.status = 2, !.index = j, !.other = other]]
    BY <1>1, <1>2, <1>7
  <2>2. c = [b EXCEPT ![j].links[other] = [@ EXCEPT !.status = 2, !.index = i, !.other = id]]
    BY <1>5, <1>9, <1>10
  <2> QED
    BY <1>1, <1>14, <2>1, <2>2 DEF Servers
<1>17. PICK p, q : p = Connected(id) /\ q = Connected(other)
  OBVIOUS
<1>18. p \in DownPackets /\ q \in DownPackets
  BY <1>17 DEF Connected, DownPackets
<1>19. PICK v : v = WritePriority(u, i, p)
  OBVIOUS
<1>20. SocketsOnly(u, v)
  BY <1>15, <1>18, <1>19, PriorityWritten DEF ServerSound
<1>21. ServerSound(v)
  BY <1>15, <1>20, SocketsOnlySound
<1>22. t = WritePriority(v, j, q)
  BY <1>16, <1>17, <1>19 DEF LinkBoth
<1>23. SocketsOnly(v, t)
  BY <1>18, <1>21, <1>22, PriorityWritten DEF ServerSound
<1> QED
  BY <1>21, <1>23, SocketsOnlySound

LEMMA RoutingSound ==
  ASSUME NEW s, ServerSound(s), NEW i \in InUse(s), NEW pk \in RelayClient,
         NEW t, t = handle_TCP_routing_req(s, i, pk)
  PROVE  ServerSound(t)
<1>1. s \in Servers /\ Tables(s.acc) /\ InUse(s) = Live(s.acc) /\ i \in AccIndex /\ i \in Live(s.acc)
  BY DEF ServerSound, InUse, Live
<1>2. PICK known : known = {id \in LinkId : s.acc[i].links[id].status # 0 /\ s.acc[i].links[id].pk = pk}
  OBVIOUS
<1>3. PICK free : free = {id \in LinkId : s.acc[i].links[id].status = 0}
  OBVIOUS
<1>4. PICK id : id = Min(free)
  OBVIOUS
<1>5. PICK there : there = get_TCP_connection_index(s, pk)
  OBVIOUS
<1>6. PICK j : j = Min(there)
  OBVIOUS
<1>7. PICK waiting : waiting = {other \in LinkId : /\ there # {} /\ s.acc[j].links[other].status = 1
                                                   /\ s.acc[j].links[other].pk = s.acc[i].pk}
  OBVIOUS
<1>8. PICK w : w = WritePriority(s, i, Response(id, pk))
  OBVIOUS
<1>9. PICK taken : taken = [w EXCEPT !.acc[i].links[id] = [NoLink EXCEPT !.status = 1, !.pk = pk]]
  OBVIOUS
<1>10. t = IF pk = s.acc[i].pk THEN s
           ELSE IF known # {} THEN WritePriority(s, i, Response(Min(known), pk))
           ELSE IF free = {} THEN s
           ELSE IF waiting = {} THEN taken ELSE LinkBoth(taken, i, id, j, Min(waiting))
  BY <1>2, <1>3, <1>4, <1>5, <1>6, <1>7, <1>8, <1>9 DEF handle_TCP_routing_req
<1>11. \A x \in LinkId : Response(x, pk) \in DownPackets
  BY DEF Response, DownPackets
<1>12. LinkId \subseteq Nat
  BY RelayConstants DEF LinkId
<1>13. CASE pk = s.acc[i].pk
  BY <1>10, <1>13
<1>14. CASE pk # s.acc[i].pk /\ known # {}
  <2>1. known \subseteq LinkId /\ known \subseteq Nat
    BY <1>2, <1>12
  <2>2. Min(known) \in LinkId
    BY <1>14, <2>1, FirstOne
  <2>3. PICK p \in DownPackets : p = Response(Min(known), pk)
    BY <1>11, <2>2
  <2>4. t = WritePriority(s, i, p)
    BY <1>10, <1>14, <2>3
  <2>5. SocketsOnly(s, t)
    BY <1>1, <2>4, PriorityWritten
  <2> QED
    BY <2>5, SocketsOnlySound
<1>15. CASE pk # s.acc[i].pk /\ known = {} /\ free = {}
  BY <1>10, <1>15
<1>16. CASE pk # s.acc[i].pk /\ known = {} /\ free # {}
  <2>1. free \subseteq LinkId /\ free \subseteq Nat
    BY <1>3, <1>12
  <2>2. id \in free /\ id \in LinkId
    BY <1>4, <1>16, <2>1, FirstOne
  <2>3. PICK p \in DownPackets : p = Response(id, pk)
    BY <1>11, <2>2
  <2>4. SocketsOnly(s, w)
    BY <1>1, <1>8, <2>3, PriorityWritten
  <2>5. ServerSound(w) /\ w.acc = s.acc
    BY <2>4, SocketsOnlySound DEF SocketsOnly
  <2>6. /\ w.acc[i].links[id].status = 0 /\ i \in Live(w.acc)
        /\ \A other \in LinkId : w.acc[i].links[other].status # 0 => w.acc[i].links[other].pk # pk
    BY <1>1, <1>2, <1>3, <1>16, <2>2, <2>5
  <2>7. /\ ServerSound(taken)
        /\ \E l : l.status = 1 /\ l.pk = pk /\ SlotIs(w.acc, taken.acc, i, id, l)
    BY <1>9, <2>2, <2>5, <2>6, TakenSound, ZenonT(90)
  <2>8. CASE waiting = {}
    BY <1>10, <1>16, <2>7, <2>8
  <2>9. CASE waiting # {}
    <3>1. there = {x \in Live(s.acc) : s.acc[x].pk = pk} /\ there # {}
      BY <1>1, <1>5, <1>7, <2>9 DEF get_TCP_connection_index
    <3>2. there \subseteq Nat
      BY <3>1, RelayConstants DEF Live, AccIndex
    <3>3. j \in there
      BY <1>6, <3>1, <3>2, FirstOne
    <3>4. j \in Live(s.acc) /\ s.acc[j].pk = pk /\ j # i /\ j \in AccIndex
      BY <1>16, <3>1, <3>3 DEF Live
    <3>5. PICK other : other = Min(waiting)
      OBVIOUS
    <3>6. waiting \subseteq Nat
      BY <1>7, <1>12
    <3>7. other \in waiting
      BY <2>9, <3>5, <3>6, FirstOne
    <3>8. other \in LinkId /\ s.acc[j].links[other].status = 1 /\ s.acc[j].links[other].pk = s.acc[i].pk
      BY <1>7, <3>7
    <3>9. PICK l : l.status = 1 /\ l.pk = pk /\ SlotIs(s.acc, taken.acc, i, id, l)
      BY <2>5, <2>7
    <3>10. taken.acc[i].links[id].status = 1 /\ taken.acc[i].links[id].pk = pk
      BY <3>9 DEF SlotIs
    <3>11. Live(taken.acc) = Live(s.acc)
      BY <3>9, SlotLive
    <3>12. taken.acc[j].pk = pk /\ taken.acc[i].pk = s.acc[i].pk /\ taken.acc[j].links[other] = s.acc[j].links[other]
      BY <1>1, <3>4, <3>8, <3>9 DEF SlotIs
    <3>13. t = LinkBoth(taken, i, id, j, other)
      BY <1>10, <1>16, <2>9, <3>5
    <3> QED
      BY <1>1, <2>2, <2>7, <3>4, <3>8, <3>10, <3>11, <3>12, <3>13, BothLinkedSound
  <2> QED
    BY <2>8, <2>9
<1> QED
  BY <1>13, <1>14, <1>15, <1>16

LEMMA HandledSound ==
  ASSUME NEW s, ServerSound(s), NEW i \in InUse(s), NEW p \in UpPackets
  PROVE  ServerSound(HandleOrKill(s, i, p))
<1>1. PICK done : done = handle_TCP_packet(s, i, p)
  OBVIOUS
<1>2. InUse(s) = Live(s.acc) /\ s \in Servers /\ s.acc[i].pk \in RelayClient /\ i \in AccIndex
  BY DEF InUse, Live, ServerSound, Tables, Keyed
<1>3. \A id \in LinkId : s.acc[i].links[id] \in Links
  BY <1>2 DEF Servers, AcceptedEntries
<1>4. ServerSound(done.s) /\ (i \in InUse(done.s) \/ done.ok)
  <2>1. CASE p.type = "request"
    <3>1. p.pk \in RelayClient
      BY <2>1 DEF UpPackets
    <3>2. done = Alive(handle_TCP_routing_req(s, i, p.pk))
      BY <1>1, <2>1 DEF handle_TCP_packet
    <3>3. PICK t : t = handle_TCP_routing_req(s, i, p.pk)
      OBVIOUS
    <3>4. ServerSound(t)
      BY <3>1, <3>3, RoutingSound
    <3> QED
      BY <3>2, <3>3, <3>4 DEF Alive
  <2>2. CASE p.type = "disconnect"
    <3>1. p.id \in LinkId
      BY <2>2 DEF UpPackets
    <3>2. done = IF s.acc[i].links[p.id].status = 0 THEN MustKill(s) ELSE Alive(rm_connection_index(s, i, p.id))
      BY <1>1, <2>2 DEF handle_TCP_packet
    <3>3. PICK t : t = FreeLinks(s, i, {p.id})
      OBVIOUS
    <3>4. ServerSound(t)
      BY <3>3, LinksFreedSound
    <3>5. done = MustKill(s) \/ done = Alive(t)
      BY <3>2, <3>3 DEF rm_connection_index
    <3>6. CASE done = MustKill(s)
      <4>1. done.s = s
        BY <3>6 DEF MustKill
      <4> QED
        BY <4>1
    <3>7. CASE done = Alive(t)
      BY <3>4, <3>7 DEF Alive
    <3> QED
      BY <3>5, <3>6, <3>7
  <2>3. CASE p.type = "oob"
    <3>1. done = Alive(handle_TCP_oob_send(s, i, p.pk))
      BY <1>1, <2>3 DEF handle_TCP_packet
    <3>2. PICK q : q = [type |-> "oob", from |-> s.acc[i].pk]
      OBVIOUS
    <3>3. q \in DownPackets
      BY <1>2, <3>2 DEF DownPackets
    <3>4. PICK t : t = handle_TCP_oob_send(s, i, p.pk)
      OBVIOUS
    <3>5. t = s \/ \E j : t = WriteData(s, j, q)
      BY <3>2, <3>4 DEF handle_TCP_oob_send
    <3>6. ServerSound(t)
      BY <1>2, <3>3, <3>5, DataWritten, SocketsOnlySound
    <3> QED
      BY <3>1, <3>4, <3>6 DEF Alive
  <2>4. CASE p.type = "data"
    <3>1. p.id \in LinkId
      BY <2>4 DEF UpPackets
    <3>2. done = RouteData(s, i, p.id)
      BY <1>1, <2>4 DEF handle_TCP_packet
    <3>3. PICK link \in Links : link = s.acc[i].links[p.id]
      BY <1>3, <3>1
    <3>4. PICK q : q = [type |-> "data", id |-> link.other, from |-> s.acc[i].pk]
      OBVIOUS
    <3>5. q \in DownPackets
      BY <1>2, <3>4 DEF DownPackets, Links
    <3>6. done = MustKill(s) \/ done = Alive(s) \/ done = Alive(WriteData(s, link.index, q))
      BY <3>2, <3>3, <3>4 DEF RouteData
    <3>7. PICK t : t = WriteData(s, link.index, q)
      OBVIOUS
    <3>8. ServerSound(t)
      BY <1>2, <3>5, <3>7, DataWritten, SocketsOnlySound
    <3>9. CASE done = MustKill(s)
      <4>1. done.s = s
        BY <3>9 DEF MustKill
      <4> QED
        BY <4>1
    <3>10. CASE done = Alive(s)
      BY <3>10 DEF Alive
    <3>11. CASE done = Alive(t)
      BY <3>8, <3>11 DEF Alive
    <3> QED
      BY <3>6, <3>7, <3>9, <3>10, <3>11
  <2>5. CASE p.type \notin {"request", "disconnect", "oob", "data"}
    <3>1. done = Alive(s)
      BY <1>1, <2>5 DEF handle_TCP_packet
    <3> QED
      BY <3>1 DEF Alive
  <2> QED
    BY <2>1, <2>2, <2>3, <2>4, <2>5
<1>5. HandleOrKill(s, i, p) = IF done.ok THEN done.s ELSE kill_accepted(done.s, i)
  BY <1>1 DEF HandleOrKill
<1>6. PICK t : t = kill_accepted(done.s, i)
  OBVIOUS
<1>7. ServerSound(done.s) /\ i \in InUse(done.s) => ServerSound(t)
  BY <1>6, KilledSound
<1> QED
  BY <1>4, <1>5, <1>6, <1>7

LEMMA WayFound ==
  ASSUME NEW s \in Servers, NEW i \in AccIndex, NEW p
  PROVE  OnionSource(s, i, p) \subseteq OnionWays
<1>1. s.acc[i].ident \in Nat /\ s.acc[i].sock \in 0 .. MaxSockets
  BY DEF Servers, AcceptedEntries
<1> QED
  BY <1>1 DEF OnionSource, OnionWays

\* What is read from a socket is one of the packets a client sends.
LEMMA PacketTaken ==
  ASSUME NEW s \in Servers, NEW k \in Socket, s.sock[k].up # << >>, NEW t, t = [s EXCEPT !.sock[k].up = Tail(@)]
  PROVE  Head(s.sock[k].up) \in UpPackets /\ SocketsOnly(s, t)
<1>1. s.sock[k] \in Sockets /\ s.sock[k].up \in Seq(UpPackets)
  BY DEF Servers, Sockets
<1>2. Head(s.sock[k].up) \in UpPackets /\ Tail(s.sock[k].up) \in Seq(UpPackets)
  BY <1>1, HeadTailProperties
<1>3. PICK v : v = [s.sock[k] EXCEPT !.up = Tail(@)]
  OBVIOUS
<1>4. v \in Sockets /\ Attached(s.sock[k]) /\ v.owner = s.sock[k].owner
  BY <1>1, <1>2, <1>3 DEF Sockets, Attached
<1>5. t = [s EXCEPT !.sock[k] = v]
  BY <1>3
<1> QED
  BY <1>2, <1>4, <1>5, OneSocket

LEMMA PacketSent ==
  ASSUME NEW s \in Servers, NEW k, NEW p \in UpPackets, NEW t, t = [s EXCEPT !.sock[k].up = Append(@, p)],
         s.sock[k].open
  PROVE  SocketsOnly(s, t)
<1>1. PICK v : v = [s.sock[k] EXCEPT !.up = Append(@, p)]
  OBVIOUS
<1>2. ASSUME k \in Socket
      PROVE  v \in Sockets /\ (Attached(v) => Attached(s.sock[k])) /\ v.owner = s.sock[k].owner
  <2>1. s.sock[k] \in Sockets /\ s.sock[k].up \in Seq(UpPackets)
    BY <1>2 DEF Servers, Sockets
  <2>2. Append(s.sock[k].up, p) \in Seq(UpPackets)
    BY <2>1, AppendProperties
  <2> QED
    BY <1>1, <2>1, <2>2 DEF Sockets, Attached
<1>3. t = [s EXCEPT !.sock[k] = v]
  BY <1>1
<1> QED
  BY <1>2, <1>3, OneSocket

-----------------------------------------------------------------------------
(* The steps of the relay and of its clients.                              *)

\* Every step leaves the queues with sockets in them, and what they hold is no
\* more than that.
Queues == incoming \in [QueueIndex -> 0 .. MaxSockets] /\ unconfirmed \in [QueueIndex -> 0 .. MaxSockets]

LEMMA SocketsStep ==
  ASSUME RelayInv, SocketsOnly(srv, srv'), Queues', onionWay' \subseteq onionWay
  PROVE  RelayInv'
<1>1. ServerSound(srv')
  BY SocketsOnlySound DEF RelayInv
<1> QED
  BY <1>1 DEF RelayInv, Queues

LEMMA AcceptStep ==
  ASSUME RelayInv, NEW k \in Socket, do_TCP_accept_new(k)
  PROVE  RelayInv'
<1>1. srv \in Servers /\ Queues
  BY DEF RelayInv, ServerSound, Queues
<1>2. PICK q : q = arrivals.in % MaxIncoming
  OBVIOUS
<1>3. /\ incoming' = [incoming EXCEPT ![q] = k] /\ unconfirmed' = unconfirmed /\ onionWay' = onionWay
      /\ (srv' = srv \/ srv' = kill_sock(srv, incoming[q]))
  BY <1>2 DEF do_TCP_accept_new, Serve
<1>4. Queues'
  <2>1. k \in 0 .. MaxSockets
    BY RelayConstants DEF Socket
  <2>2. incoming' \in [QueueIndex -> 0 .. MaxSockets]
    BY <1>1, <1>3, <2>1 DEF Queues
  <2> QED
    BY <1>1, <1>3, <2>2 DEF Queues
<1>5. SocketsOnly(srv, srv')
  BY <1>1, <1>3, SocketKilled DEF SocketsOnly
<1> QED
  BY <1>3, <1>4, <1>5, SocketsStep

LEMMA IncomingStep ==
  ASSUME RelayInv, NEW q \in QueueIndex, do_incoming(q)
  PROVE  RelayInv'
<1>1. srv \in Servers /\ Queues
  BY DEF RelayInv, ServerSound, Queues
<1>2. PICK k : k = incoming[q]
  OBVIOUS
<1>3. k \in Socket
  BY <1>1, <1>2, RelayConstants DEF do_incoming, Queues, Socket
<1>4. PICK u : u = arrivals.un % MaxIncoming
  OBVIOUS
<1>5. PICK freed : freed = IF unconfirmed[u] = 0 THEN srv ELSE kill_sock(srv, unconfirmed[u])
  OBVIOUS
<1>6. /\ incoming' = [incoming EXCEPT ![q] = 0] /\ onionWay' = onionWay
      /\ \/ srv' = [freed EXCEPT !.sock[k].ready = TRUE] /\ unconfirmed' = [unconfirmed EXCEPT ![u] = k]
         \/ srv' = srv /\ unconfirmed' = unconfirmed
  BY <1>2, <1>4, <1>5 DEF do_incoming, Serve
<1>7. Queues'
  <2>1. k \in 0 .. MaxSockets /\ 0 \in 0 .. MaxSockets
    BY <1>3, RelayConstants DEF Socket
  <2>2. incoming' \in [QueueIndex -> 0 .. MaxSockets]
    BY <1>1, <1>6, <2>1 DEF Queues
  <2>3. unconfirmed' \in [QueueIndex -> 0 .. MaxSockets]
    BY <1>1, <1>6, <2>1 DEF Queues
  <2> QED
    BY <2>2, <2>3 DEF Queues
<1>8. SocketsOnly(srv, freed)
  BY <1>1, <1>5, SocketKilled DEF SocketsOnly
<1>9. PICK t : t = [freed EXCEPT !.sock[k].ready = TRUE]
  OBVIOUS
<1>10. SocketsOnly(freed, t)
  <2>1. freed \in Servers
    BY <1>8 DEF SocketsOnly
  <2>2. PICK v : v = [freed.sock[k] EXCEPT !.ready = TRUE]
    OBVIOUS
  <2>3. v \in Sockets /\ Attached(v) = Attached(freed.sock[k]) /\ v.owner = freed.sock[k].owner
    BY <1>3, <2>1, <2>2 DEF Servers, Sockets, Attached
  <2>4. t = [freed EXCEPT !.sock[k] = v]
    BY <1>9, <2>2
  <2> QED
    BY <2>1, <2>3, <2>4, OneSocket
<1>11. SocketsOnly(srv, t) /\ SocketsOnly(srv, srv)
  BY <1>1, <1>8, <1>10, SocketsOnlyTwice DEF SocketsOnly
<1>12. SocketsOnly(srv, srv')
  BY <1>6, <1>9, <1>11
<1> QED
  BY <1>6, <1>7, <1>12, SocketsStep

LEMMA UnconfirmedStep ==
  ASSUME RelayInv, NEW q \in QueueIndex, do_unconfirmed(q)
  PROVE  RelayInv'
<1>1. srv \in Servers /\ Queues /\ ServerSound(srv)
  BY DEF RelayInv, ServerSound, Queues
<1>2. PICK k : k = unconfirmed[q]
  OBVIOUS
<1>3. k \in Socket
  BY <1>1, <1>2, RelayConstants DEF do_unconfirmed, Queues, Socket
<1>4. incoming' = incoming /\ unconfirmed' = [unconfirmed EXCEPT ![q] = 0]
  BY DEF do_unconfirmed
<1>5. Queues'
  BY <1>1, <1>4, RelayConstants DEF Queues
<1>6. ASSUME srv.sock[k].up # << >>,
             Serve(HandleOrKill(add_accepted([srv EXCEPT !.sock[k].up = Tail(@)], k).s,
                                add_accepted([srv EXCEPT !.sock[k].up = Tail(@)], k).index, Head(srv.sock[k].up))),
             onionWay' = onionWay \cup OnionSource(add_accepted([srv EXCEPT !.sock[k].up = Tail(@)], k).s,
                                                  add_accepted([srv EXCEPT !.sock[k].up = Tail(@)], k).index,
                                                  Head(srv.sock[k].up))
      PROVE  RelayInv'
  <2>1. PICK s : s = [srv EXCEPT !.sock[k].up = Tail(@)]
    OBVIOUS
  <2>2. PICK p : p = Head(srv.sock[k].up)
    OBVIOUS
  <2>3. PICK added : added = add_accepted(s, k)
    OBVIOUS
  <2>4. /\ srv.sock[k].up # << >> /\ srv' = HandleOrKill(added.s, added.index, p)
        /\ onionWay' = onionWay \cup OnionSource(added.s, added.index, p)
    BY <1>6, <2>1, <2>2, <2>3 DEF Serve
  <2>5. p \in UpPackets /\ SocketsOnly(srv, s)
    BY <1>1, <1>3, <2>1, <2>2, <2>4, PacketTaken
  <2>6. ServerSound(s)
    BY <1>1, <2>5, SocketsOnlySound
  <2>7. s.sock[k].owner \in RelayClient
    BY <1>1, <1>3, <1>6, <2>5 DEF SocketsOnly, ServerSound, Owned, Attached
  <2>8. ServerSound(added.s) /\ added.index \in InUse(added.s)
    BY <1>3, <2>3, <2>6, <2>7, AddedSound
  <2>9. PICK t : t = added.s
    OBVIOUS
  <2>10. PICK i : i = added.index
    OBVIOUS
  <2>11. ServerSound(t) /\ i \in InUse(t) /\ t \in Servers /\ i \in AccIndex
    BY <2>8, <2>9, <2>10 DEF ServerSound, InUse
  <2>12. ServerSound(HandleOrKill(t, i, p))
    BY <2>5, <2>11, HandledSound
  <2>13. OnionSource(t, i, p) \subseteq OnionWays
    BY <2>11, WayFound
  <2>14. ServerSound(srv') /\ onionWay' \subseteq OnionWays
    BY <2>4, <2>9, <2>10, <2>12, <2>13 DEF RelayInv
  <2> QED
    BY <1>5, <2>14 DEF RelayInv, Queues
<1>7. ASSUME Serve(srv), UNCHANGED onionWay PROVE RelayInv'
  <2>1. srv' = srv /\ onionWay' = onionWay
    BY <1>7 DEF Serve
  <2>2. SocketsOnly(srv, srv')
    BY <1>1, <2>1 DEF SocketsOnly
  <2> QED
    BY <1>5, <2>1, <2>2, SocketsStep
<1> QED
  BY <1>2, <1>6, <1>7 DEF do_unconfirmed

LEMMA ConfirmedStep ==
  ASSUME RelayInv, NEW i \in AccIndex, do_confirmed_recv(i)
  PROVE  RelayInv'
<1>1. srv \in Servers /\ ServerSound(srv)
  BY DEF RelayInv, ServerSound
<1>2. PICK k : k = srv.acc[i].sock
  OBVIOUS
<1>3. PICK p : p = Head(srv.sock[k].up)
  OBVIOUS
<1>4. PICK s : s = [srv EXCEPT !.sock[k].up = Tail(@)]
  OBVIOUS
<1>5. /\ i \in InUse(srv) /\ srv.sock[k].up # << >> /\ srv' = HandleOrKill(s, i, p)
      /\ onionWay' = onionWay \cup OnionSource(srv, i, p)
      /\ incoming' = incoming /\ unconfirmed' = unconfirmed
  BY <1>2, <1>3, <1>4 DEF do_confirmed_recv, Serve
<1>6. k \in Socket
  BY <1>1, <1>2, <1>5, RelayConstants DEF InUse, Servers, AcceptedEntries, Socket
<1>7. p \in UpPackets /\ SocketsOnly(srv, s)
  BY <1>1, <1>3, <1>4, <1>5, <1>6, PacketTaken
<1>8. ServerSound(s) /\ i \in InUse(s)
  BY <1>1, <1>5, <1>7, SocketsOnlySound DEF SocketsOnly, InUse
<1>9. ServerSound(srv')
  BY <1>5, <1>7, <1>8, HandledSound
<1>10. onionWay' \subseteq OnionWays
  BY <1>1, <1>5, WayFound DEF RelayInv
<1> QED
  BY <1>5, <1>9, <1>10 DEF RelayInv

LEMMA OnionAnswerStep ==
  ASSUME RelayInv, NEW w \in onionWay, handle_onion_recv_1(w)
  PROVE  RelayInv'
<1>1. srv \in Servers /\ Queues /\ w \in OnionWays
  BY DEF RelayInv, ServerSound, Queues
<1>2. PICK p : p = [type |-> "onion", origin |-> w.origin]
  OBVIOUS
<1>3. p \in DownPackets
  BY <1>1, <1>2 DEF OnionWays, DownPackets
<1>4. /\ (srv' = srv \/ srv' = WriteData(srv, w.index, p))
      /\ incoming' = incoming /\ unconfirmed' = unconfirmed /\ onionWay' = onionWay \ {w}
  BY <1>2 DEF handle_onion_recv_1, Serve
<1>5. SocketsOnly(srv, srv')
  BY <1>1, <1>3, <1>4, DataWritten DEF SocketsOnly
<1> QED
  BY <1>1, <1>4, <1>5, SocketsStep DEF Queues

LEMMA NewConnectionStep ==
  ASSUME RelayInv, NEW c \in RelayClient, new_TCP_connection(c)
  PROVE  RelayInv'
<1>1. srv \in Servers /\ Queues /\ ServerSound(srv)
  BY DEF RelayInv, ServerSound, Queues
<1>2. PICK k : k = Min({x \in Socket : srv.sock[x].owner = NoClient})
  OBVIOUS
<1>3. PICK left : left = IF cli[c].sock = 0 THEN srv ELSE [srv EXCEPT !.sock[cli[c].sock].open = FALSE]
  OBVIOUS
<1>4. PICK new : new = [NoSocket EXCEPT !.open = TRUE, !.owner = c, !.up = <<[type |-> "ping"]>>]
  OBVIOUS
<1>5. /\ srv' = [left EXCEPT !.sock[k] = new]
      /\ incoming' = incoming /\ unconfirmed' = unconfirmed /\ onionWay' = onionWay
  <2>1. srv' = [left EXCEPT !.sock[k] =
                  [NoSocket EXCEPT !.open = TRUE, !.owner = c, !.up = <<[type |-> "ping"]>>]]
    BY <1>2, <1>3, Zenon DEF new_TCP_connection
  <2>2. srv' = [left EXCEPT !.sock[k] = new]
    BY <1>4, <2>1, Zenon
  <2> QED
    BY <2>2 DEF new_TCP_connection, RelayCall
<1>6. SocketsOnly(srv, left)
  <2>1. PICK x : x = cli[c].sock
    OBVIOUS
  <2>2. PICK v : v = [srv.sock[x] EXCEPT !.open = FALSE]
    OBVIOUS
  <2>3. x \in Socket => v \in Sockets /\ (Attached(v) => Attached(srv.sock[x])) /\ v.owner = srv.sock[x].owner
    BY <1>1, <2>2 DEF Servers, Sockets, Attached
  <2>4. PICK t : t = [srv EXCEPT !.sock[x] = v]
    OBVIOUS
  <2>5. SocketsOnly(srv, t)
    BY <1>1, <2>3, <2>4, OneSocket
  <2>6. SocketsOnly(srv, srv)
    BY <1>1 DEF SocketsOnly
  <2>7. left = srv \/ left = t
    BY <1>3, <2>1, <2>2, <2>4
  <2> QED
    BY <2>5, <2>6, <2>7
<1>7. ServerSound(left) /\ left \in Servers
  BY <1>1, <1>6, SocketsOnlySound DEF SocketsOnly
<1>8. new \in Sockets /\ new.owner = c
  <2>1. PICK ping : ping = [type |-> "ping"]
    OBVIOUS
  <2>2. ping \in UpPackets
    BY <2>1 DEF UpPackets
  <2>3. <<ping>> \in Seq(UpPackets)
    BY <2>2
  <2>4. PICK up : up = <<ping>>
    OBVIOUS
  <2>5. new = [NoSocket EXCEPT !.open = TRUE, !.owner = c, !.up = up]
    BY <1>4, <2>1, <2>4, Zenon
  <2> QED
    BY <2>3, <2>4, <2>5, EmptyEntries DEF Sockets
<1>9. /\ srv'.acc = left.acc /\ srv'.size = left.size /\ srv'.counter = left.counter
      /\ srv'.sock = [left.sock EXCEPT ![k] = new]
  BY <1>5, <1>7 DEF Servers
<1>10. srv' \in Servers
  BY <1>5, <1>7, <1>8 DEF Servers
<1>11. Owned(srv'.sock)
  <2>1. left.sock \in [Socket -> Sockets] /\ Owned(left.sock)
    BY <1>7 DEF ServerSound, Servers
  <2> QED
    BY <1>8, <1>9, <2>1 DEF Owned
<1>12. ServerSound(srv')
  BY <1>7, <1>9, <1>10, <1>11 DEF ServerSound
<1> QED
  BY <1>5, <1>12 DEF RelayInv

\* Every other call of a client puts one packet on his connection.
LEMMA CallStep ==
  ASSUME RelayInv, NEW c, NEW p \in UpPackets, Client(c), RelayCall, ClientSends(c, p)
  PROVE  RelayInv'
<1>1. srv \in Servers /\ Queues
  BY DEF RelayInv, ServerSound, Queues
<1>2. PICK k : k = cli[c].sock
  OBVIOUS
<1>3. srv' = [srv EXCEPT !.sock[k].up = Append(@, p)]
  BY <1>2 DEF ClientSends
<1>4. SocketsOnly(srv, srv')
  BY <1>1, <1>2, <1>3, PacketSent DEF Client
<1>5. incoming' = incoming /\ unconfirmed' = unconfirmed /\ onionWay' = onionWay
  BY DEF RelayCall
<1> QED
  BY <1>1, <1>4, <1>5, SocketsStep DEF Queues

LEMMA ClientReadStep ==
  ASSUME RelayInv, NEW c \in RelayClient, do_confirmed_TCP(c)
  PROVE  RelayInv'
<1>1. srv \in Servers /\ Queues
  BY DEF RelayInv, ServerSound, Queues
<1>2. PICK k : k = cli[c].sock
  OBVIOUS
<1>3. /\ srv.sock[k].down # << >> /\ srv' = [srv EXCEPT !.sock[k].down = Tail(@)]
      /\ incoming' = incoming /\ unconfirmed' = unconfirmed /\ onionWay' = onionWay
  BY <1>2 DEF do_confirmed_TCP
<1>4. PICK v : v = [srv.sock[k] EXCEPT !.down = Tail(@)]
  OBVIOUS
<1>5. ASSUME k \in Socket
      PROVE  v \in Sockets /\ (Attached(v) => Attached(srv.sock[k])) /\ v.owner = srv.sock[k].owner
  <2>1. srv.sock[k] \in Sockets /\ srv.sock[k].down \in Seq(DownPackets)
    BY <1>1, <1>5 DEF Servers, Sockets
  <2>2. Tail(srv.sock[k].down) \in Seq(DownPackets)
    BY <1>3, <2>1, HeadTailProperties
  <2> QED
    BY <1>4, <2>1, <2>2 DEF Sockets, Attached
<1>6. srv' = [srv EXCEPT !.sock[k] = v]
  BY <1>3, <1>4
<1>7. SocketsOnly(srv, srv')
  BY <1>1, <1>5, <1>6, OneSocket
<1> QED
  BY <1>1, <1>3, <1>7, SocketsStep DEF Queues

LEMMA RelayStep == RelayInv /\ [TcpRelayNext]_tcpRelayVars => RelayInv'
<1> SUFFICES ASSUME RelayInv, [TcpRelayNext]_tcpRelayVars PROVE RelayInv'
  OBVIOUS
<1>1. ASSUME NEW k \in Socket, do_TCP_accept_new(k) PROVE RelayInv'
  BY <1>1, AcceptStep
<1>2. ASSUME NEW q \in QueueIndex, do_incoming(q) PROVE RelayInv'
  BY <1>2, IncomingStep
<1>3. ASSUME NEW q \in QueueIndex, do_unconfirmed(q) PROVE RelayInv'
  BY <1>3, UnconfirmedStep
<1>4. ASSUME NEW i \in AccIndex, do_confirmed_recv(i) PROVE RelayInv'
  BY <1>4, ConfirmedStep
<1>5. ASSUME NEW i \in AccIndex, do_TCP_confirmed(i) PROVE RelayInv'
  <2>1. /\ i \in InUse(srv) /\ srv' = kill_accepted(srv, i)
        /\ incoming' = incoming /\ unconfirmed' = unconfirmed /\ onionWay' = onionWay
    BY <1>5 DEF do_TCP_confirmed, Serve
  <2>2. ServerSound(srv)
    BY DEF RelayInv
  <2>3. ServerSound(srv')
    BY <2>1, <2>2, KilledSound
  <2> QED
    BY <2>1, <2>3 DEF RelayInv
<1>6. ASSUME NEW w \in onionWay, handle_onion_recv_1(w) PROVE RelayInv'
  BY <1>6, OnionAnswerStep
<1>7. ASSUME NEW c \in RelayClient, new_TCP_connection(c) PROVE RelayInv'
  BY <1>7, NewConnectionStep
<1>8. ASSUME NEW c \in RelayClient, do_confirmed_TCP(c) PROVE RelayInv'
  BY <1>8, ClientReadStep
<1>9. ASSUME NEW c \in RelayClient, NEW p \in UpPackets, Client(c), RelayCall, ClientSends(c, p) PROVE RelayInv'
  BY <1>9, CallStep
<1>10. ASSUME NEW c \in RelayClient, send_onion_request(c) PROVE RelayInv'
  <2>1. [type |-> "onion"] \in UpPackets
    BY DEF UpPackets
  <2> QED
    BY <1>9, <1>10, <2>1 DEF send_onion_request
<1>11. ASSUME NEW c \in RelayClient, NEW pk \in RelayClient, send_routing_request(c, pk) \/ send_oob_packet(c, pk)
       PROVE  RelayInv'
  <2>1. [type |-> "request", pk |-> pk] \in UpPackets /\ [type |-> "oob", pk |-> pk] \in UpPackets
    BY DEF UpPackets
  <2> QED
    BY <1>9, <1>11, <2>1 DEF send_routing_request, send_oob_packet
<1>12. ASSUME NEW c \in RelayClient, NEW id \in LinkId, Disconnect(c, id) \/ send_data(c, id)
       PROVE  RelayInv'
  <2>1. [type |-> "disconnect", id |-> id] \in UpPackets /\ [type |-> "data", id |-> id] \in UpPackets
    BY DEF UpPackets
  <2> QED
    BY <1>9, <1>12, <2>1 DEF Disconnect, send_data
<1>13. ASSUME UNCHANGED tcpRelayVars PROVE RelayInv'
  <2>1. srv' = srv /\ incoming' = incoming /\ unconfirmed' = unconfirmed /\ onionWay' = onionWay
    BY <1>13 DEF tcpRelayVars
  <2> QED
    BY <2>1 DEF RelayInv
<1> QED
  BY <1>1, <1>2, <1>3, <1>4, <1>5, <1>6, <1>7, <1>8, <1>10, <1>11, <1>12, <1>13 DEF TcpRelayNext

\* However connections are accepted, replaced, killed and their places in the
\* array reused, and whatever the clients ask for, the relay has one connection
\* of a key, and a slot that is online names a slot of a live connection of the
\* right peer that names it back (add_accepted, rm_connection_index,
\* kill_accepted, handle_TCP_routing_req).
THEOREM RelayLinksStayMutual == TcpRelaySpec => []LinksAreMutual
<1>1. RelayInv => LinksAreMutual
  BY MutualLinks DEF RelayInv
<1> QED
  BY RelayInitial, RelayStep, <1>1, PTL DEF TcpRelaySpec

==============================================================================
