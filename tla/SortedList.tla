---------------------------- MODULE SortedList ----------------------------
(***************************************************************************)
(* list.c: a sorted array of data with an id for each, which holds the     *)
(* addresses of crypto connections (ip_port_list) and the keys of a        *)
(* relay's clients (accepted_key_list).  find is a binary search of its    *)
(* own kind: it starts in the middle and moves by half the last distance,  *)
(* then by one until it turns round.                                       *)
(*                                                                         *)
(* Every call begins with find, whose loop takes a step for each round;    *)
(* nothing else is done to the list until the call returns.  Data are      *)
(* numbers, which memcmp compares.  Memory may run out when an array is to *)
(* grow, and also when it is to shrink, for the first of the two arrays    *)
(* (were it to fail for the second only, data would have less room than    *)
(* capacity says).                                                         *)
(***************************************************************************)
EXTENDS Integers, Sequences

CONSTANTS
  Datum,       \* data, natural numbers
  IdOf,        \* datum -> the id it is added with
  Capacity     \* initial_capacity

ASSUME SortedListAssumption == Datum \subseteq Nat /\ IdOf \in [Datum -> Nat] /\ Capacity \in Nat

VARIABLES
  sorted,      \* the pairs of list->data and list->ids; its length is n
  capacity,    \* list->capacity
  search,      \* the call that is being served, and where its find is
  stored       \* history: the data added and not removed since, with their ids

listVars == <<sorted, capacity, search, stored>>

NotStored == -1

\* open: the loop has not returned; r is what it has returned; rounds counts
\* its rounds.
NoSearch == [call |-> "none", data |-> 0, id |-> 0, open |-> FALSE,
             i |-> 0, delta |-> 1, d |-> -1, r |-> 0, rounds |-> 0]

SortedListInit ==
  /\ sorted = << >>
  /\ capacity = Capacity
  /\ search = NoSearch
  /\ stored = [x \in Datum |-> NotStored]

-----------------------------------------------------------------------------
(* The search.                                                             *)

\* ~i, which stands for the place where data belongs.
INDEX(i) == -i - 1

\* Mutant of Half: the distance comes down to 0.
Half_Variant(delta) == delta \div 2

Half(delta) == IF delta \div 2 = 0 THEN 1 ELSE delta \div 2

\* d is the way the search goes once the distance is 1.
Turned(delta, d, way) == IF delta \div 2 = 0 THEN way ELSE d

\* A call, which begins with find.
Calls(call, x, id) ==
  LET middle == Len(sorted) \div 2
  IN  /\ search.call = "none"
      /\ search' = [call |-> call, data |-> x, id |-> id, open |-> sorted # << >>,
                    i |-> middle, delta |-> Half(middle), d |-> -1,
                    r |-> INDEX(0), rounds |-> 0]
      /\ UNCHANGED <<sorted, capacity, stored>>

Returned(s, r) == [s EXCEPT !.open = FALSE, !.r = r]

Moved(s, i, way) == [s EXCEPT !.i = i, !.delta = Half(s.delta), !.d = Turned(s.delta, s.d, way)]

\* A round of the loop of find: i is the place in the array (from 0), delta the
\* distance.
Round(s) ==
  LET at == sorted[s.i + 1].data
  IN  IF s.data = at THEN Returned(s, s.i)
      ELSE IF s.data > at
      THEN IF s.d = 0 \/ s.i + s.delta = Len(sorted) THEN Returned(s, INDEX(s.i + s.delta))
           ELSE Moved(s, s.i + s.delta, 1)
      ELSE IF s.d = 1 \/ s.i = 0 THEN Returned(s, INDEX(s.i)) ELSE Moved(s, s.i - s.delta, 0)

find ==
  /\ search.open
  /\ search' = Round([search EXCEPT !.rounds = @ + 1])
  /\ UNCHANGED <<sorted, capacity, stored>>

-----------------------------------------------------------------------------
(* What the calls do with what find has returned.                          *)

Found(call) == search.call = call /\ ~search.open /\ search' = NoSearch

Id == IF search.r < 0 THEN NotStored ELSE sorted[search.r + 1].id

bs_list_find == Found("find") /\ UNCHANGED <<sorted, capacity, stored>>

\* The two arrays grow to one and a half times their length.
bs_list_add ==
  LET place == INDEX(search.r)
      n == Len(sorted)
      new == [data |-> search.data, id |-> search.id]
  IN  /\ Found("add") /\ search.r < 0
      /\ capacity' = IF n = capacity THEN n + n \div 2 + 1 ELSE capacity
      /\ sorted' = [k \in 1 .. n + 1 |-> IF k <= place THEN sorted[k]
                                         ELSE IF k = place + 1 THEN new ELSE sorted[k - 1]]
      /\ stored' = [stored EXCEPT ![search.data] = search.id]

\* The data is there, or memory has run out.
AddRefused ==
  /\ Found("add") /\ (search.r >= 0 \/ Len(sorted) = capacity)
  /\ UNCHANGED <<sorted, capacity, stored>>

\* The arrays shrink to a half when less of them is used, unless resize fails.
bs_list_remove ==
  LET n == Len(sorted)
  IN  /\ Found("remove")
      /\ IF search.r < 0 \/ Id # search.id THEN UNCHANGED <<sorted, capacity, stored>>
         ELSE /\ \/ capacity' = capacity
                 \/ n < capacity \div 2 /\ capacity' = capacity \div 2
              /\ sorted' = [k \in 1 .. n - 1 |-> IF k <= search.r THEN sorted[k] ELSE sorted[k + 1]]
              /\ stored' = [stored EXCEPT ![search.data] = NotStored]

SortedListNext ==
  \/ \E x \in Datum :
       \/ Calls("find", x, 0) \/ Calls("add", x, IdOf[x])
       \/ \E id \in {IdOf[y] : y \in Datum} : Calls("remove", x, id)
  \/ find
  \/ bs_list_find \/ bs_list_add \/ AddRefused \/ bs_list_remove

SortedListSpec == SortedListInit /\ [][SortedListNext]_listVars

-----------------------------------------------------------------------------
(* Properties.                                                             *)

\* Whatever was added and removed, in whatever order, a search gives the id a
\* datum was added with as long as it is in the list, and none otherwise; it
\* looks at no place outside of the array and ends; and the arrays have room
\* for the n elements (find, bs_list_add, bs_list_remove).
FindsWhatWasAdded ==
  /\ search.call # "none" /\ ~search.open => Id = stored[search.data]
  /\ search.open => search.i \in 0 .. Len(sorted) - 1
  /\ search.rounds <= 2 * Len(sorted)
  /\ Len(sorted) <= capacity

=============================================================================
