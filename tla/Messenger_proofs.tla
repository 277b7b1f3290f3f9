-------------------------- MODULE Messenger_proofs --------------------------
(***************************************************************************)
(* What two friends agree on, over the lossless and ordered channel of     *)
(* their crypto connection: FriendsStayTrue and TransfersStayAgreed.       *)
(*                                                                         *)
(* Friends, for any number of events and any size of the send queues.      *)
(* FriendsAgree speaks of moments at which nothing is on its way.  The     *)
(* invariant MessengerInv says the same of every moment, by looking ahead: *)
(* what a user will see of the other once it has handled the packets that  *)
(* are on their way to it, unless one of the packets on their way to the   *)
(* other will be answered by another ONLINE.  The order within a queue is  *)
(* what counts: a name, and a message, finds its addressee online because  *)
(* the last ONLINE or OFFLINE before it is an ONLINE.                      *)
(*                                                                         *)
(* Files, for any number of transfers, sizes, chunks and connections, and  *)
(* any size of the send queues.                                            *)
(* A number says nothing of the file it stands for, and TransfersAgree     *)
(* speaks of the head of a queue or of empty queues.  The invariant,       *)
(* Agreed, speaks of one number and of all that is on its way about it.    *)
(* Offers come in the order of their files, after everything about earlier *)
(* files (Ordered, Newer).  Whatever answers an offer, or follows the      *)
(* answer, finds the offer taken (GotFirst), and data finds the receiver's *)
(* transfer accepted and still there unless it is done with the file       *)
(* (Accepted, OfFile).  The chunks on their way lead from what the         *)
(* receiver has to what the sender has sent (Chained); before the sender   *)
(* knows that it is accepted, the last seek does (Sought).  The last pause *)
(* or accept on its way tells what the other side will think (PausedS,     *)
(* PausedR).  All of it holds as long as no control packet has met a later *)
(* file of its number.                                                     *)
(*                                                                         *)
(* First come the clauses, packet by packet, for one number; then the      *)
(* steps.                                                                  *)
(***************************************************************************)
EXTENDS MessengerFriend, FileTransfer, FiniteSetTheorems, TLAPS

-----------------------------------------------------------------------------
(* Packets.  s is what is on its way to an entry, on tells whether the     *)
(* entry is online now.                                                    *)

Types == {"online", "offline", "nick", "message", "request"}

Packets == [type : Types, value : 0 .. MaxEvents]

\* Is the entry online after the first k packets?
OnAfter(on, s, k) ==
  \/ \E i \in 1 .. k : s[i].type = "online" /\ \A j \in i + 1 .. k : s[j].type # "offline"
  \/ on /\ \A j \in 1 .. k : s[j].type # "offline"

\* One of the packets finds the entry offline and is answered by ONLINE.
Answers(on, s) ==
  \E i \in 1 .. Len(s) :
    s[i].type = "online" /\ (~ on \/ \E j \in 1 .. i - 1 : s[j].type = "offline")

No(type, s) == \A i \in 1 .. Len(s) : s[i].type # type

\* After these packets the entry knows name n: it does now and is told of no
\* other, or the last name is n and finds the entry online.
Learns(on, known, s, n) ==
  \/ known = n /\ No("nick", s)
  \/ \E k \in 1 .. Len(s) :
       /\ s[k].type = "nick" /\ s[k].value = n
       /\ OnAfter(on, s, k - 1)
       /\ \A i \in k + 1 .. Len(s) : s[i].type # "nick"

-----------------------------------------------------------------------------
(* The invariant.                                                          *)

IsOn(u) == friend[u].status = "Online"

EndsOn(u) == OnAfter(IsOn(u), packets[u], Len(packets[u]))

Entries ==
  [status : {"None", "Added", "Requested", "Confirmed", "Online"}, name_sent : BOOLEAN,
   known : -1 .. MaxEvents, receipts : Seq([number : Nat, message : 0 .. MaxEvents])]

FriendsTyped ==
  /\ friend \in [User -> Entries]
  /\ name \in [User -> 0 .. MaxEvents]
  /\ connected \in [User -> BOOLEAN]
  /\ packets \in [User -> Seq(Packets)]
  /\ sent \in [User -> Nat] /\ got \in [User -> Nat]
  /\ events \in 0 .. MaxEvents
  /\ lost \in BOOLEAN

\* u's side of the connection; v is the other user.
Streams(u, v) ==
  /\ Len(packets[u]) <= MaxQueued
  /\ got[u] <= sent[v]
  /\ connected[u] => got[u] + Len(packets[u]) = sent[v]
  /\ ~ connected[u] => ~ IsOn(u)
  /\ ~ IsOn(u) => friend[u].receipts = <<>>
  /\ v \notin removed => No("offline", packets[u])
  /\ \A i \in 1 .. Len(friend[u].receipts) : friend[u].receipts[i].number < sent[u]

\* What u sees, or will see, of v over a connection that is up.
Agrees(u, v) ==
  /\ friend[v].status = "None" => ~ EndsOn(u)
  /\ friend[u].status # "None" /\ friend[v].status # "None" => EndsOn(u) \/ Answers(IsOn(v), packets[v])
  /\ IsOn(u) /\ friend[u].name_sent /\ No("offline", packets[u]) =>
       Learns(IsOn(v), friend[v].known, packets[v], name[u])

\* The message that receipt r of a user waits for was shown, or finds v online.
Delivered(r, v) ==
  IF r.number < got[v] THEN r.message \in shown
  ELSE connected[v] =>
    LET k == r.number - got[v] + 1
    IN  /\ friend[v].status # "None"
        /\ k \in 1 .. Len(packets[v])
        /\ packets[v][k] = Packet("message", r.message)
        /\ OnAfter(IsOn(v), packets[v], k - 1)

Receipts(u, v) ==
  /\ v \notin removed =>
       \A i \in 1 .. Len(friend[u].receipts) : Delivered(friend[u].receipts[i], v)
  /\ \A r \in receipted : r.from \in {u, v} /\ (r.from = u => r.message \in shown \/ v \in removed)

MessengerInv ==
  /\ FriendsTyped
  /\ \A u \in User : Streams(u, OtherUser(u))
  /\ ~ lost => \A u \in User : Receipts(u, OtherUser(u))
  /\ ~ lost /\ (\A u \in User : connected[u]) => \A u \in User : Agrees(u, OtherUser(u))

-----------------------------------------------------------------------------
(* Lemmas about the packets on their way.                                  *)

LEMMA TwoUsers ==
  ASSUME NEW u \in User
  PROVE  /\ OtherUser(u) \in User /\ OtherUser(u) # u /\ OtherUser(OtherUser(u)) = u
         /\ \A w \in User : w = u \/ w = OtherUser(u)
<1>1. PICK a, b \in User : a # b /\ User = {a, b}
  BY UserAssumption
<1>2. OtherUser(a) = b /\ OtherUser(b) = a
  BY <1>1 DEF OtherUser
<1> QED
  BY <1>1, <1>2

LEMMA AppendIs ==
  ASSUME NEW s \in Seq(Packets), NEW p \in Packets
  PROVE  /\ Append(s, p) \in Seq(Packets) /\ Len(Append(s, p)) = Len(s) + 1 /\ Len(s) \in Nat
         /\ \A i \in 1 .. Len(s) : Append(s, p)[i] = s[i]
         /\ Append(s, p)[Len(s) + 1] = p
  OBVIOUS

LEMMA TailIs ==
  ASSUME NEW s \in Seq(Packets), s # <<>>
  PROVE  /\ Tail(s) \in Seq(Packets) /\ Len(s) \in Nat \ {0} /\ Len(Tail(s)) = Len(s) - 1
         /\ Head(s) = s[1] /\ Head(s) \in Packets
         /\ \A i \in 1 .. Len(s) - 1 : Tail(s)[i] = s[i + 1]
  OBVIOUS

\* What an entry becomes by a packet, if it is not None.
Turned(on, p) == p.type = "online" \/ (on /\ p.type # "offline")

LEMMA OnAppend ==
  ASSUME NEW s \in Seq(Packets), NEW p \in Packets, NEW on \in BOOLEAN, NEW k \in 0 .. Len(s)
  PROVE  OnAfter(on, Append(s, p), k) <=> OnAfter(on, s, k)
<1>1. PICK t : t = Append(s, p)
  OBVIOUS
<1>2. \A i \in 1 .. k : t[i] = s[i]
  BY <1>1, AppendIs
<1>3. \A i \in 1 .. k : \A j \in i + 1 .. k : j \in 1 .. k
  OBVIOUS
<1> QED
  BY <1>1, <1>2, <1>3 DEF OnAfter

LEMMA OnLast ==
  ASSUME NEW s \in Seq(Packets), NEW p \in Packets, NEW on \in BOOLEAN
  PROVE  OnAfter(on, Append(s, p), Len(s) + 1) <=> Turned(OnAfter(on, s, Len(s)), p)
<1>1. PICK t : t = Append(s, p)
  OBVIOUS
<1>2. PICK n \in Nat : n = Len(s)
  OBVIOUS
<1>3. (\A i \in 1 .. n : t[i] = s[i]) /\ t[n + 1] = p
  BY <1>1, <1>2, AppendIs
<1>4. ASSUME OnAfter(on, t, n + 1) PROVE Turned(OnAfter(on, s, n), p)
  <2>1. CASE on /\ \A j \in 1 .. n + 1 : t[j].type # "offline"
    BY <1>3, <2>1 DEF OnAfter, Turned
  <2>2. ASSUME NEW i \in 1 .. n + 1, t[i].type = "online",
               \A j \in i + 1 .. n + 1 : t[j].type # "offline"
        PROVE  Turned(OnAfter(on, s, n), p)
    <3>1. CASE i = n + 1
      BY <1>3, <2>2, <3>1 DEF Turned
    <3>2. CASE i \in 1 .. n
      <4>1. p.type # "offline"
        BY <1>3, <2>2, <3>2
      <4>2. s[i].type = "online" /\ \A j \in i + 1 .. n : s[j].type # "offline"
        BY <1>3, <2>2, <3>2
      <4> QED
        BY <3>2, <4>1, <4>2 DEF OnAfter, Turned
    <3> QED
      BY <3>1, <3>2
  <2> QED
    BY <1>4, <2>1, <2>2 DEF OnAfter
<1>5. ASSUME Turned(OnAfter(on, s, n), p) PROVE OnAfter(on, t, n + 1)
  <2>1. CASE p.type = "online"
    <3>1. n + 1 \in 1 .. n + 1 /\ \A j \in (n + 1) + 1 .. n + 1 : FALSE
      OBVIOUS
    <3> QED
      BY <1>3, <2>1, <3>1 DEF OnAfter
  <2>2. CASE OnAfter(on, s, n) /\ p.type # "offline"
    <3>1. ASSUME NEW i \in 1 .. n, s[i].type = "online",
                 \A j \in i + 1 .. n : s[j].type # "offline"
          PROVE  OnAfter(on, t, n + 1)
      <4>1. i \in 1 .. n + 1 /\ t[i].type = "online"
        BY <1>3, <3>1
      <4>2. \A j \in i + 1 .. n + 1 : t[j].type # "offline"
        <5> TAKE j \in i + 1 .. n + 1
        <5>1. j = n + 1 \/ (j \in i + 1 .. n /\ j \in 1 .. n)
          OBVIOUS
        <5> QED
          BY <1>3, <2>2, <3>1, <5>1
      <4> QED
        BY <4>1, <4>2 DEF OnAfter
    <3>2. ASSUME on, \A j \in 1 .. n : s[j].type # "offline" PROVE OnAfter(on, t, n + 1)
      <4>1. \A j \in 1 .. n + 1 : j = n + 1 \/ j \in 1 .. n
        OBVIOUS
      <4> QED
        BY <1>3, <2>2, <3>2, <4>1 DEF OnAfter
    <3> QED
      BY <2>2, <3>1, <3>2 DEF OnAfter
  <2> QED
    BY <1>5, <2>1, <2>2 DEF Turned
<1> QED
  BY <1>1, <1>2, <1>4, <1>5 DEF Turned, OnAfter

LEMMA OnTail ==
  ASSUME NEW s \in Seq(Packets), s # <<>>, NEW on \in BOOLEAN, NEW k \in 1 .. Len(s)
  PROVE  OnAfter(on, s, k) <=> OnAfter(Turned(on, Head(s)), Tail(s), k - 1)
<1>1. PICK t : t = Tail(s)
  OBVIOUS
<1>2. PICK h : h = Head(s) /\ h = s[1]
  BY TailIs
<1>3. \A i \in 1 .. k - 1 : t[i] = s[i + 1]
  BY <1>1, TailIs
<1>4. ASSUME OnAfter(on, s, k) PROVE OnAfter(Turned(on, h), t, k - 1)
  <2>1. ASSUME NEW i \in 1 .. k, s[i].type = "online", \A j \in i + 1 .. k : s[j].type # "offline"
        PROVE  OnAfter(Turned(on, h), t, k - 1)
    <3>1. CASE i = 1
      <4>1. Turned(on, h)
        BY <1>2, <2>1, <3>1 DEF Turned
      <4>2. \A j \in 1 .. k - 1 : j + 1 \in i + 1 .. k
        BY <3>1
      <4> QED
        BY <1>3, <2>1, <4>1, <4>2 DEF OnAfter
    <3>2. CASE i # 1
      <4>1. i - 1 \in 1 .. k - 1 /\ t[i - 1] = s[(i - 1) + 1] /\ (i - 1) + 1 = i
        BY <1>3, <3>2
      <4>2. \A j \in (i - 1) + 1 .. k - 1 : j \in 1 .. k - 1 /\ j + 1 \in i + 1 .. k
        BY <3>2
      <4> QED
        BY <1>3, <2>1, <4>1, <4>2 DEF OnAfter
    <3> QED
      BY <3>1, <3>2
  <2>2. ASSUME on, \A j \in 1 .. k : s[j].type # "offline" PROVE OnAfter(Turned(on, h), t, k - 1)
    <3>1. Turned(on, h)
      BY <1>2, <2>2 DEF Turned
    <3>2. \A j \in 1 .. k - 1 : j + 1 \in 1 .. k
      OBVIOUS
    <3> QED
      BY <1>3, <2>2, <3>1, <3>2 DEF OnAfter
  <2> QED
    BY <1>4, <2>1, <2>2 DEF OnAfter
<1>5. ASSUME OnAfter(Turned(on, h), t, k - 1) PROVE OnAfter(on, s, k)
  <2>1. ASSUME NEW i \in 1 .. k - 1, t[i].type = "online",
               \A j \in i + 1 .. k - 1 : t[j].type # "offline"
        PROVE  OnAfter(on, s, k)
    <3>1. i + 1 \in 1 .. k /\ s[i + 1].type = "online"
      BY <1>3, <2>1
    <3>2. \A j \in (i + 1) + 1 .. k : s[j].type # "offline"
      <4> TAKE j \in (i + 1) + 1 .. k
      <4>1. j - 1 \in i + 1 .. k - 1 /\ j - 1 \in 1 .. k - 1 /\ (j - 1) + 1 = j
        OBVIOUS
      <4> QED
        BY <1>3, <2>1, <4>1
    <3> QED
      BY <3>1, <3>2 DEF OnAfter
  <2>2. ASSUME Turned(on, h), \A j \in 1 .. k - 1 : t[j].type # "offline" PROVE OnAfter(on, s, k)
    <3>1. \A j \in 1 + 1 .. k : s[j].type # "offline"
      <4> TAKE j \in 1 + 1 .. k
      <4>1. j - 1 \in 1 .. k - 1 /\ (j - 1) + 1 = j
        OBVIOUS
      <4> QED
        BY <1>3, <2>2, <4>1
    <3>2. CASE h.type = "online"
      <4>1. 1 \in 1 .. k
        OBVIOUS
      <4> QED
        BY <1>2, <3>1, <3>2, <4>1 DEF OnAfter
    <3>3. CASE on /\ h.type # "offline"
      <4>1. \A j \in 1 .. k : j = 1 \/ j \in 1 + 1 .. k
        OBVIOUS
      <4> QED
        BY <1>2, <3>1, <3>3, <4>1 DEF OnAfter
    <3> QED
      BY <2>2, <3>2, <3>3 DEF Turned
  <2> QED
    BY <1>5, <2>1, <2>2 DEF OnAfter
<1> QED
  BY <1>1, <1>2, <1>4, <1>5

\* With fewer entries online, fewer end online.
LEMMA OnMonotone ==
  ASSUME NEW s, NEW k, NEW on, OnAfter(FALSE, s, k)
  PROVE  OnAfter(on, s, k)
  BY DEF OnAfter

LEMMA AnswersAppend ==
  ASSUME NEW s \in Seq(Packets), NEW p \in Packets, NEW on \in BOOLEAN
  PROVE  /\ Answers(on, s) => Answers(on, Append(s, p))
         /\ p.type = "online" /\ ~ OnAfter(on, s, Len(s)) => Answers(on, Append(s, p))
<1>1. PICK t : t = Append(s, p)
  OBVIOUS
<1>2. PICK n \in Nat : n = Len(s)
  OBVIOUS
<1>3. (\A i \in 1 .. n : t[i] = s[i]) /\ t[n + 1] = p /\ Len(t) = n + 1
  BY <1>1, <1>2, AppendIs
<1>4. ASSUME Answers(on, s) PROVE Answers(on, t)
  <2>1. PICK i \in 1 .. n :
          s[i].type = "online" /\ (~ on \/ \E j \in 1 .. i - 1 : s[j].type = "offline")
    BY <1>2, <1>4 DEF Answers
  <2>2. i \in 1 .. n + 1 /\ \A j \in 1 .. i - 1 : j \in 1 .. n
    OBVIOUS
  <2> QED
    BY <1>3, <2>1, <2>2 DEF Answers
<1>5. ASSUME p.type = "online", ~ OnAfter(on, s, n) PROVE Answers(on, t)
  <2>1. ~ on \/ \E j \in 1 .. n : s[j].type = "offline"
    BY <1>5 DEF OnAfter
  <2>2. n + 1 \in 1 .. n + 1 /\ (n + 1) - 1 = n
    OBVIOUS
  <2>3. ~ on \/ \E j \in 1 .. n : t[j].type = "offline"
    BY <1>3, <2>1
  <2> QED
    BY <1>3, <1>5, <2>2, <2>3 DEF Answers
<1> QED
  BY <1>1, <1>2, <1>4, <1>5

LEMMA AnswersTail ==
  ASSUME NEW s \in Seq(Packets), s # <<>>, NEW on \in BOOLEAN, Answers(on, s)
  PROVE  \/ ~ on /\ Head(s).type = "online"
         \/ Answers(Turned(on, Head(s)), Tail(s))
<1>1. PICK t : t = Tail(s)
  OBVIOUS
<1>2. PICK h : h = Head(s) /\ h = s[1]
  BY TailIs
<1>3. PICK n \in Nat : n = Len(s) /\ Len(t) = n - 1
  BY <1>1, TailIs
<1>4. \A i \in 1 .. n - 1 : t[i] = s[i + 1]
  BY <1>1, <1>3, TailIs
<1> SUFFICES ASSUME on \/ h.type # "online"
             PROVE  Answers(Turned(on, h), t)
  BY <1>1, <1>2
<1>5. PICK i \in 1 .. n :
        s[i].type = "online" /\ (~ on \/ \E j \in 1 .. i - 1 : s[j].type = "offline")
  BY <1>3 DEF Answers
<1>6. i # 1
  BY <1>2, <1>5
<1>7. i - 1 \in 1 .. n - 1 /\ t[i - 1].type = "online"
  <2>1. i - 1 \in 1 .. n - 1 /\ (i - 1) + 1 = i
    BY <1>6
  <2> QED
    BY <1>4, <1>5, <2>1
<1>8. CASE ~ on
  BY <1>3, <1>7, <1>8 DEF Answers, Turned
<1>9. ASSUME NEW j \in 1 .. i - 1, s[j].type = "offline" PROVE Answers(Turned(on, h), t)
  <2>1. CASE j = 1
    <3>1. ~ Turned(on, h)
      BY <1>2, <1>9, <2>1 DEF Turned
    <3> QED
      BY <1>3, <1>7, <3>1 DEF Answers
  <2>2. CASE j # 1
    <3>1. j - 1 \in 1 .. (i - 1) - 1 /\ j - 1 \in 1 .. n - 1 /\ (j - 1) + 1 = j
      BY <2>2
    <3>2. t[j - 1].type = "offline"
      BY <1>4, <1>9, <3>1
    <3> QED
      BY <1>3, <1>7, <3>1, <3>2 DEF Answers
  <2> QED
    BY <2>1, <2>2
<1> QED
  BY <1>5, <1>8, <1>9

LEMMA LearnsAppend ==
  ASSUME NEW s \in Seq(Packets), NEW p \in Packets, NEW on \in BOOLEAN, NEW known, NEW n
  PROVE  /\ p.type # "nick" /\ Learns(on, known, s, n) => Learns(on, known, Append(s, p), n)
         /\ p.type = "nick" /\ p.value = n /\ OnAfter(on, s, Len(s)) =>
              Learns(on, known, Append(s, p), n)
<1>1. PICK t : t = Append(s, p)
  OBVIOUS
<1>2. PICK l \in Nat : l = Len(s)
  OBVIOUS
<1>3. (\A i \in 1 .. l : t[i] = s[i]) /\ t[l + 1] = p /\ Len(t) = l + 1
  BY <1>1, <1>2, AppendIs
<1>4. \A i \in 1 .. l + 1 : i = l + 1 \/ i \in 1 .. l
  OBVIOUS
<1>5. ASSUME p.type # "nick", known = n, No("nick", s) PROVE Learns(on, known, t, n)
  BY <1>2, <1>3, <1>4, <1>5 DEF Learns, No
<1>6. ASSUME p.type # "nick", NEW k \in 1 .. l, s[k].type = "nick", s[k].value = n,
             OnAfter(on, s, k - 1), \A i \in k + 1 .. l : s[i].type # "nick"
      PROVE  Learns(on, known, t, n)
  <2>1. k \in 1 .. l + 1 /\ k - 1 \in 0 .. l
    OBVIOUS
  <2>2. OnAfter(on, t, k - 1)
    BY <1>1, <1>2, <1>6, <2>1, OnAppend
  <2>3. \A i \in k + 1 .. l + 1 : t[i].type # "nick"
    <3> TAKE i \in k + 1 .. l + 1
    <3>1. i = l + 1 \/ (i \in k + 1 .. l /\ i \in 1 .. l)
      OBVIOUS
    <3> QED
      BY <1>3, <1>6, <3>1
  <2> QED
    BY <1>3, <1>6, <2>1, <2>2, <2>3 DEF Learns
<1>7. ASSUME p.type = "nick", p.value = n, OnAfter(on, s, l) PROVE Learns(on, known, t, n)
  <2>1. l + 1 \in 1 .. l + 1 /\ (l + 1) - 1 = l /\ \A i \in (l + 1) + 1 .. l + 1 : FALSE
    OBVIOUS
  <2>2. OnAfter(on, t, l)
    BY <1>1, <1>2, <1>7, OnAppend
  <2> QED
    BY <1>3, <1>7, <2>1, <2>2 DEF Learns
<1> QED
  BY <1>1, <1>2, <1>5, <1>6, <1>7 DEF Learns

LEMMA LearnsTail ==
  ASSUME NEW s \in Seq(Packets), s # <<>>, NEW on \in BOOLEAN, NEW known, NEW n,
         Learns(on, known, s, n)
  PROVE  Learns(Turned(on, Head(s)),
                IF on /\ Head(s).type = "nick" THEN Head(s).value ELSE known, Tail(s), n)
<1>1. PICK t : t = Tail(s)
  OBVIOUS
<1>2. PICK h : h = Head(s) /\ h = s[1]
  BY TailIs
<1>3. PICK l \in Nat : l = Len(s) /\ Len(t) = l - 1 /\ l # 0
  BY <1>1, TailIs
<1>4. \A i \in 1 .. l - 1 : t[i] = s[i + 1] /\ i + 1 \in 1 .. l
  BY <1>1, <1>3, TailIs
<1>5. 1 \in 1 .. l
  BY <1>3
<1> DEFINE new == IF on /\ h.type = "nick" THEN h.value ELSE known
<1>6. CASE known = n /\ No("nick", s)
  BY <1>2, <1>3, <1>4, <1>5, <1>6 DEF Learns, No
<1>7. ASSUME NEW k \in 1 .. l, s[k].type = "nick", s[k].value = n,
             OnAfter(on, s, k - 1), \A i \in k + 1 .. l : s[i].type # "nick"
      PROVE  Learns(Turned(on, h), new, t, n)
  <2>1. CASE k = 1
    <3>1. on
      BY <1>7, <2>1 DEF OnAfter
    <3>2. new = n
      BY <1>2, <1>7, <2>1, <3>1
    <3>3. \A i \in 1 .. l - 1 : i + 1 \in k + 1 .. l
      BY <2>1
    <3> QED
      BY <1>3, <1>4, <1>7, <3>2, <3>3 DEF Learns, No
  <2>2. CASE k # 1
    <3>1. k - 1 \in 1 .. l - 1 /\ (k - 1) + 1 = k /\ k - 1 \in 1 .. Len(s)
      BY <1>3, <2>2
    <3>2. OnAfter(Turned(on, h), t, (k - 1) - 1)
      BY <1>1, <1>2, <1>7, <3>1, OnTail
    <3>3. t[k - 1] = s[k]
      BY <1>4, <3>1
    <3>4. \A i \in (k - 1) + 1 .. l - 1 : i \in 1 .. l - 1 /\ i + 1 \in k + 1 .. l
      BY <2>2
    <3> QED
      BY <1>3, <1>4, <1>7, <3>1, <3>2, <3>3, <3>4 DEF Learns
  <2> QED
    BY <2>1, <2>2
<1> QED
  BY <1>1, <1>2, <1>3, <1>6, <1>7 DEF Learns

LEMMA NoAppend ==
  ASSUME NEW s \in Seq(Packets), NEW p \in Packets, NEW type
  PROVE  No(type, Append(s, p)) <=> No(type, s) /\ p.type # type
<1>1. PICK t : t = Append(s, p)
  OBVIOUS
<1>2. PICK l \in Nat : l = Len(s)
  OBVIOUS
<1>3. (\A i \in 1 .. l : t[i] = s[i]) /\ t[l + 1] = p /\ Len(t) = l + 1
  BY <1>1, <1>2, AppendIs
<1>4. (\A i \in 1 .. l + 1 : i = l + 1 \/ i \in 1 .. l) /\ l + 1 \in 1 .. l + 1
      /\ \A i \in 1 .. l : i \in 1 .. l + 1
  OBVIOUS
<1> QED
  BY <1>1, <1>2, <1>3, <1>4 DEF No

LEMMA NoTail ==
  ASSUME NEW s \in Seq(Packets), s # <<>>, NEW type
  PROVE  No(type, s) <=> No(type, Tail(s)) /\ Head(s).type # type
<1>1. PICK t : t = Tail(s)
  OBVIOUS
<1>2. PICK h : h = Head(s) /\ h = s[1]
  BY TailIs
<1>3. PICK l \in Nat : l = Len(s) /\ Len(t) = l - 1 /\ l # 0
  BY <1>1, TailIs
<1>4. \A i \in 1 .. l - 1 : t[i] = s[i + 1] /\ i + 1 \in 1 .. l
  BY <1>1, <1>3, TailIs
<1>5. 1 \in 1 .. l /\ \A i \in 1 .. l : i = 1 \/ (i - 1 \in 1 .. l - 1 /\ (i - 1) + 1 = i)
  BY <1>3
<1> QED
  BY <1>1, <1>2, <1>3, <1>4, <1>5 DEF No

\* An entry that is online and hears of no OFFLINE stays so.
LEMMA NoOffline ==
  ASSUME NEW s, NEW on, on, No("offline", s)
  PROVE  OnAfter(on, s, Len(s)) /\ ~ Answers(on, s)
<1>1. OnAfter(on, s, Len(s))
  BY DEF OnAfter, No
<1>2. ~ Answers(on, s)
  <2> SUFFICES ASSUME NEW i \in 1 .. Len(s), NEW j \in 1 .. i - 1, s[j].type = "offline" PROVE FALSE
    BY DEF Answers
  <2>1. j \in 1 .. Len(s)
    OBVIOUS
  <2> QED
    BY <2>1 DEF No
<1> QED
  BY <1>1, <1>2

-----------------------------------------------------------------------------
(* Steps of one user.                                                      *)

\* u and v are the two users.
Pair(u, v) == u \in User /\ v \in User /\ u # v /\ OtherUser(u) = v /\ OtherUser(v) = u
              /\ \A w \in User : w = u \/ w = v

LEMMA PairOf ==
  ASSUME NEW u \in User
  PROVE  Pair(u, OtherUser(u))
  BY TwoUsers DEF Pair

\* What the invariant says of a pair.
LEMMA InvOfPair ==
  ASSUME NEW u, NEW v, Pair(u, v)
  PROVE  MessengerInv <=>
           /\ FriendsTyped
           /\ Streams(u, v) /\ Streams(v, u)
           /\ ~ lost => Receipts(u, v) /\ Receipts(v, u)
           /\ ~ lost /\ connected[u] /\ connected[v] => Agrees(u, v) /\ Agrees(v, u)
  BY DEF MessengerInv, Pair

LEMMA InvOfPairPrimed ==
  ASSUME NEW u, NEW v, Pair(u, v), FriendsTyped', Streams(u, v)', Streams(v, u)',
         ~ lost' => Receipts(u, v)' /\ Receipts(v, u)',
         ~ lost' /\ connected'[u] /\ connected'[v] => Agrees(u, v)' /\ Agrees(v, u)'
  PROVE  MessengerInv'
<1>1. \A w \in User : w = u \/ w = v
  BY DEF Pair
<1>2. OtherUser(u) = v /\ OtherUser(v) = u /\ u \in User /\ v \in User
  BY DEF Pair
<1> QED
  BY <1>1, <1>2 DEF MessengerInv

\* What u has written: nothing, or p if there was room.
Wrote(u, v, p) ==
  /\ packets'[v] = IF connected[v] THEN Append(packets[v], p) ELSE packets[v]
  /\ sent'[u] = sent[u] + 1
  /\ Room(u)

WroteNothing(u, v) == packets'[v] = packets[v] /\ sent'[u] = sent[u]

LEMMA ExchangeIs ==
  ASSUME FriendsTyped, NEW u, NEW v, Pair(u, v), NEW n \in {0, 1}, n = 1 => packets[u] # <<>>,
         NEW p \in Packets, NEW ps \in {<<>>, <<p>>}, Exchange(u, n, ps)
  PROVE  /\ packets' \in [User -> Seq(Packets)] /\ sent' \in [User -> Nat] /\ got' \in [User -> Nat]
         /\ packets'[u] = IF n = 0 THEN packets[u] ELSE Tail(packets[u])
         /\ got'[u] = got[u] + n /\ got'[v] = got[v] /\ sent'[v] = sent[v]
         /\ IF ps = <<p>> /\ Room(u) THEN Wrote(u, v, p) ELSE WroteNothing(u, v)
<1>1. /\ packets \in [User -> Seq(Packets)] /\ sent \in [User -> Nat] /\ got \in [User -> Nat]
      /\ u \in User /\ v \in User /\ u # v /\ OtherUser(u) = v
  BY DEF FriendsTyped, Pair
<1>2. PICK s \in Seq(Packets) : s = SubSeq(packets[u], n + 1, Len(packets[u]))
                                /\ s = IF n = 0 THEN packets[u] ELSE Tail(packets[u])
  <2>1. packets[u] \in Seq(Packets)
    BY <1>1
  <2>2. SubSeq(packets[u], 1, Len(packets[u])) = packets[u]
    BY <2>1
  <2>3. packets[u] # <<>> => Tail(packets[u]) = SubSeq(packets[u], 2, Len(packets[u]))
    BY <2>1
  <2>4. packets[u] # <<>> => Tail(packets[u]) \in Seq(Packets)
    BY <2>1
  <2>5. 0 + 1 = 1 /\ 1 + 1 = 2
    OBVIOUS
  <2> QED
    BY <2>1, <2>2, <2>3, <2>4, <2>5
<1>3. PICK out \in {<<>>, <<p>>} : out = IF Room(u) THEN ps ELSE <<>>
  OBVIOUS
<1>4. /\ packets' = IF connected[v] THEN [[packets EXCEPT ![u] = s] EXCEPT ![v] = @ \o out]
                    ELSE [packets EXCEPT ![u] = s]
      /\ sent' = [sent EXCEPT ![u] = @ + Len(out)]
      /\ got' = [got EXCEPT ![u] = @ + n]
  BY <1>1, <1>2, <1>3 DEF Exchange
<1>5. packets[v] \o <<>> = packets[v] /\ packets[v] \o <<p>> = Append(packets[v], p)
      /\ Append(packets[v], p) \in Seq(Packets)
  <2>1. packets[v] \in Seq(Packets)
    BY <1>1
  <2> QED
    BY <2>1
<1>6. Len(<<>>) = 0 /\ Len(<<p>>) = 1 /\ <<>> # <<p>>
  OBVIOUS
<1>7. packets'[u] = s /\ packets'[v] = IF connected[v] THEN packets[v] \o out ELSE packets[v]
  BY <1>1, <1>4
<1>8. packets' \in [User -> Seq(Packets)]
  BY <1>1, <1>3, <1>4, <1>5
<1>9. /\ sent' \in [User -> Nat] /\ got' \in [User -> Nat]
      /\ got'[u] = got[u] + n /\ got'[v] = got[v] /\ sent'[v] = sent[v]
      /\ sent'[u] = sent[u] + Len(out)
  BY <1>1, <1>3, <1>4, <1>6
<1>10. CASE ps = <<p>> /\ Room(u)
  BY <1>2, <1>3, <1>5, <1>6, <1>7, <1>8, <1>9, <1>10 DEF Wrote
<1>11. CASE ~ (ps = <<p>> /\ Room(u))
  <2>1. out = <<>>
    BY <1>3, <1>11
  <2>2. sent'[u] = sent[u]
    BY <1>1, <1>6, <1>9, <2>1
  <2> QED
    BY <1>2, <1>5, <1>7, <1>8, <1>9, <1>11, <2>1, <2>2 DEF WroteNothing
<1> QED
  BY <1>10, <1>11

\* The lengths and counts after a step of u.
LEMMA CountsKept ==
  ASSUME FriendsTyped, NEW u, NEW v, Pair(u, v), Streams(u, v), Streams(v, u), NEW n \in {0, 1},
         n = 1 => packets[u] # <<>> /\ connected[u],
         packets'[u] = IF n = 0 THEN packets[u] ELSE Tail(packets[u]),
         got'[u] = got[u] + n, got'[v] = got[v], sent'[v] = sent[v],
         NEW p \in Packets, Wrote(u, v, p) \/ WroteNothing(u, v)
  PROVE  /\ Len(packets'[u]) <= MaxQueued /\ Len(packets'[v]) <= MaxQueued
         /\ got'[u] <= sent'[v] /\ got'[v] <= sent'[u]
         /\ connected[u] => got'[u] + Len(packets'[u]) = sent'[v]
         /\ connected[v] => got'[v] + Len(packets'[v]) = sent'[u]
         /\ sent'[u] >= sent[u]
<1>1. /\ packets[u] \in Seq(Packets) /\ packets[v] \in Seq(Packets)
      /\ sent[u] \in Nat /\ sent[v] \in Nat /\ got[u] \in Nat /\ got[v] \in Nat
      /\ MaxQueued \in Nat
  BY MessengerAssumption DEF FriendsTyped, Pair
<1>2. Len(packets[u]) \in Nat /\ Len(packets[v]) \in Nat
  BY <1>1
<1>3. Len(packets'[u]) = Len(packets[u]) - n
  <2>1. CASE n = 0
    BY <1>2, <2>1
  <2>2. CASE n = 1
    <3>1. packets'[u] = Tail(packets[u]) /\ packets[u] # <<>>
      BY <2>2
    <3> QED
      BY <1>1, <2>2, <3>1, TailIs
  <2> QED
    BY <2>1, <2>2
<1>4. n = 1 => Len(packets[u]) >= 1
  BY <1>1, TailIs
<1>5. Len(packets'[u]) <= MaxQueued /\ got'[u] <= sent'[v]
      /\ (connected[u] => got'[u] + Len(packets'[u]) = sent'[v])
  BY <1>1, <1>2, <1>3, <1>4 DEF Streams
<1>6. CASE WroteNothing(u, v)
  BY <1>1, <1>2, <1>5, <1>6 DEF WroteNothing, Streams
<1>7. CASE Wrote(u, v, p)
  <2>1. Len(Append(packets[v], p)) = Len(packets[v]) + 1
    BY <1>1
  <2>2. Len(packets[v]) < MaxQueued
    BY <1>7 DEF Wrote, Room, Pair
  <2> QED
    BY <1>1, <1>2, <1>5, <1>7, <2>1, <2>2, SMTT(60) DEF Wrote, Streams
<1> QED
  BY <1>6, <1>7

\* A receipt of u stays good while u writes to v.
LEMMA DeliveredKept ==
  ASSUME FriendsTyped, NEW u, NEW v, Pair(u, v), NEW p \in Packets, Wrote(u, v, p) \/ WroteNothing(u, v),
         friend'[v] = friend[v], got'[v] = got[v], connected'[v] = connected[v],
         shown \subseteq shown',
         NEW r \in [number : Nat, message : 0 .. MaxEvents], Delivered(r, v)
  PROVE  Delivered(r, v)'
<1>1. packets[v] \in Seq(Packets) /\ got[v] \in Nat /\ r.number \in Nat
  BY DEF FriendsTyped, Pair
<1>2. CASE r.number < got[v] \/ ~ connected[v]
  BY <1>2 DEF Delivered
<1>3. CASE ~ (r.number < got[v]) /\ connected[v]
  <2>1. PICK k : k = r.number - got[v] + 1
    OBVIOUS
  <2>2. /\ friend[v].status # "None"
        /\ k \in 1 .. Len(packets[v])
        /\ packets[v][k] = Packet("message", r.message)
        /\ OnAfter(IsOn(v), packets[v], k - 1)
    BY <1>3, <2>1 DEF Delivered
  <2>3. CASE WroteNothing(u, v)
    BY <1>3, <2>1, <2>2, <2>3 DEF Delivered, WroteNothing, IsOn
  <2>4. CASE packets'[v] = Append(packets[v], p)
    <3>1. k \in 1 .. Len(packets'[v]) /\ packets'[v][k] = packets[v][k] /\ k - 1 \in 0 .. Len(packets[v])
      BY <1>1, <2>2, <2>4, AppendIs
    <3>2. OnAfter(IsOn(v), packets'[v], k - 1)
      <4>1. IsOn(v) \in BOOLEAN
        BY DEF IsOn
      <4> QED
        BY <1>1, <2>2, <2>4, <3>1, <4>1, OnAppend
    <3> QED
      BY <1>3, <2>1, <2>2, <3>1, <3>2 DEF Delivered, IsOn
  <2> QED
    BY <1>3, <2>3, <2>4 DEF Wrote
<1> QED
  BY <1>2, <1>3

\* A step of u that changes neither whether it has its friend nor whether it
\* sees the friend online, and writes neither ONLINE nor OFFLINE.
LEMMA PlainStep ==
  ASSUME MessengerInv, NEW u, NEW v, Pair(u, v), NEW f \in Entries,
         friend' = [friend EXCEPT ![u] = f],
         (f.status = "None") <=> (friend[u].status = "None"), (f.status = "Online") <=> IsOn(u),
         f.known = friend[u].known,
         events' \in 0 .. MaxEvents, name' \in [User -> 0 .. MaxEvents], name'[v] = name[v],
         UNCHANGED <<connected, shown, removed, lost>>,
         packets' \in [User -> Seq(Packets)], sent' \in [User -> Nat], got' \in [User -> Nat],
         packets'[u] = packets[u], got'[u] = got[u], got'[v] = got[v], sent'[v] = sent[v],
         NEW p \in Packets, p.type \notin {"online", "offline"},
         Wrote(u, v, p) \/ WroteNothing(u, v),
         ~ IsOn(u) => f.receipts = <<>>,
         \A i \in 1 .. Len(f.receipts) : f.receipts[i].number < sent'[u],
         ~ lost /\ v \notin removed =>
           \A i \in 1 .. Len(f.receipts) : Delivered(f.receipts[i], v)',
         ~ lost =>
           \A r \in receipted' : r \in receipted \/ (r.from = u /\ (r.message \in shown \/ v \in removed)),
         ~ lost /\ connected[u] /\ connected[v] /\ IsOn(u) /\ f.name_sent /\ No("offline", packets[u]) =>
           Learns(IsOn(v), friend[v].known, packets'[v], name'[u])
  PROVE  MessengerInv'
<1>1. /\ FriendsTyped /\ Streams(u, v) /\ Streams(v, u)
      /\ ~ lost => Receipts(u, v) /\ Receipts(v, u)
      /\ ~ lost /\ connected[u] /\ connected[v] => Agrees(u, v) /\ Agrees(v, u)
  BY InvOfPair
<1>2. u \in User /\ v \in User /\ u # v
  BY DEF Pair
<1>3. friend'[u] = f /\ friend'[v] = friend[v] /\ friend' \in [User -> Entries]
  BY <1>1, <1>2 DEF FriendsTyped
<1>4. FriendsTyped'
  BY <1>1, <1>3 DEF FriendsTyped
<1>5. /\ Len(packets'[u]) <= MaxQueued /\ Len(packets'[v]) <= MaxQueued
      /\ got'[u] <= sent'[v] /\ got'[v] <= sent'[u]
      /\ connected[u] => got'[u] + Len(packets'[u]) = sent'[v]
      /\ connected[v] => got'[v] + Len(packets'[v]) = sent'[u]
      /\ sent'[u] >= sent[u]
  <2>1. got[u] \in Nat
    BY <1>1, <1>2 DEF FriendsTyped
  <2>2. got'[u] = got[u] + 0 /\ packets'[u] = IF 0 = 0 THEN packets[u] ELSE Tail(packets[u])
    BY <2>1
  <2> QED
    BY <1>1, <2>2, CountsKept
<1>6. packets[v] \in Seq(Packets) /\ IsOn(u) \in BOOLEAN /\ IsOn(v) \in BOOLEAN
  BY <1>1, <1>2 DEF FriendsTyped, IsOn
<1>7. packets'[v] = packets[v] \/ packets'[v] = Append(packets[v], p)
  BY DEF Wrote, WroteNothing
<1>8. IsOn(u)' = IsOn(u) /\ IsOn(v)' = IsOn(v)
  BY <1>3 DEF IsOn
<1>9. No("offline", packets'[v]) <=> No("offline", packets[v])
  <2>1. No("offline", Append(packets[v], p)) <=> No("offline", packets[v]) /\ p.type # "offline"
    BY <1>6, NoAppend
  <2> QED
    BY <1>7, <2>1
<1>10. Streams(u, v)'
  BY <1>1, <1>3, <1>5, <1>8 DEF Streams
<1>11. Streams(v, u)'
  BY <1>1, <1>3, <1>5, <1>8, <1>9 DEF Streams
<1>12. ~ lost' => Receipts(u, v)'
  BY <1>1, <1>3 DEF Receipts
<1>13. ~ lost' => Receipts(v, u)'
  <2> SUFFICES ASSUME ~ lost PROVE Receipts(v, u)'
    OBVIOUS
  <2>1. ASSUME NEW r, Delivered(r, u) PROVE Delivered(r, u)'
    BY <1>3, <1>8, <2>1 DEF Delivered
  <2>2. \A r \in receipted' : r.from = v => r \in receipted
    BY <1>2
  <2> QED
    BY <1>1, <1>3, <2>1, <2>2 DEF Receipts
<1>14. EndsOn(v)' <=> EndsOn(v)
  <2>1. CASE packets'[v] = packets[v]
    BY <1>8, <2>1 DEF EndsOn
  <2>2. CASE packets'[v] = Append(packets[v], p)
    <3>1. Len(packets'[v]) = Len(packets[v]) + 1
      BY <1>6, <2>2, AppendIs
    <3>2. OnAfter(IsOn(v), Append(packets[v], p), Len(packets[v]) + 1)
            <=> Turned(OnAfter(IsOn(v), packets[v], Len(packets[v])), p)
      BY <1>6, OnLast
    <3> QED
      BY <1>8, <2>2, <3>1, <3>2 DEF EndsOn, Turned
  <2> QED
    BY <1>7, <2>1, <2>2
<1>15. EndsOn(u)' <=> EndsOn(u)
  BY <1>8 DEF EndsOn
<1>16. Answers(IsOn(v), packets[v]) => Answers(IsOn(v), packets'[v])
  BY <1>6, <1>7, AnswersAppend
<1>17. ASSUME ~ lost, connected[u], connected[v] PROVE Agrees(u, v)' /\ Agrees(v, u)'
  <2>1. Agrees(u, v) /\ Agrees(v, u)
    BY <1>1, <1>17
  <2>2. Agrees(u, v)'
    BY <1>3, <1>8, <1>15, <1>16, <1>17, <2>1 DEF Agrees
  <2>3. Agrees(v, u)'
    BY <1>3, <1>8, <1>9, <1>14, <2>1 DEF Agrees
  <2> QED
    BY <2>2, <2>3
<1> QED
  BY <1>4, <1>10, <1>11, <1>12, <1>13, <1>17, InvOfPairPrimed

\* The packets that are written.
LEMMA PacketTypes ==
  ASSUME NEW type \in Types, NEW value \in 0 .. MaxEvents
  PROVE  /\ Packet(type, value) \in Packets /\ Packet(type, value).type = type
         /\ Packet(type, value).value = value
  BY DEF Packet, Packets

LEMMA ZeroEvents == 0 \in 0 .. MaxEvents
  BY MessengerAssumption

LEMMA EventType ==
  ASSUME FriendsTyped, Event
  PROVE  events' \in 0 .. MaxEvents
  BY MessengerAssumption DEF FriendsTyped, Event

\* A user that is online and hears of no OFFLINE has a friend who will be online.
LEMMA FriendEndsOn ==
  ASSUME MessengerInv, ~ lost, NEW u, NEW v, Pair(u, v), connected[u], connected[v],
         IsOn(u), No("offline", packets[u])
  PROVE  EndsOn(v) /\ friend[v].status # "None"
<1>1. Agrees(u, v) /\ Agrees(v, u)
  BY InvOfPair
<1>2. EndsOn(u) /\ ~ Answers(IsOn(u), packets[u])
  BY NoOffline DEF EndsOn
<1>3. friend[u].status # "None"
  BY DEF IsOn
<1> QED
  BY <1>1, <1>2, <1>3 DEF Agrees

\* The receipts u has had stay good.
LEMMA OldReceipts ==
  ASSUME MessengerInv, NEW u, NEW v, Pair(u, v), NEW p \in Packets,
         Wrote(u, v, p) \/ WroteNothing(u, v),
         friend'[v] = friend[v], got'[v] = got[v], connected'[v] = connected[v],
         shown \subseteq shown', ~ lost, v \notin removed,
         NEW rs, rs = friend[u].receipts
  PROVE  \A i \in 1 .. Len(rs) : Delivered(rs[i], v)'
<1>1. FriendsTyped /\ Receipts(u, v)
  BY InvOfPair
<1>2. PICK S : S = [number : Nat, message : 0 .. MaxEvents]
  OBVIOUS
<1>3. rs \in Seq(S)
  BY <1>1, <1>2 DEF FriendsTyped, Entries, Pair
<1> TAKE i \in 1 .. Len(rs)
<1>4. rs[i] \in S
  BY <1>3
<1>5. Delivered(rs[i], v)
  BY <1>1 DEF Receipts
<1> QED
  BY <1>1, <1>2, <1>4, <1>5, DeliveredKept

-----------------------------------------------------------------------------
(* The steps that change little.                                           *)

RecordsOfReceipts == [number : Nat, message : 0 .. MaxEvents]

LEMMA EntryTypes ==
  ASSUME FriendsTyped, NEW u \in User, NEW f, f = friend[u]
  PROVE  /\ f \in Entries
         /\ f.status \in {"None", "Added", "Requested", "Confirmed", "Online"}
         /\ f.name_sent \in BOOLEAN /\ f.known \in -1 .. MaxEvents
         /\ f.receipts \in Seq(RecordsOfReceipts)
         /\ f = [status |-> f.status, name_sent |-> f.name_sent, known |-> f.known,
                 receipts |-> f.receipts]
  BY DEF FriendsTyped, Entries, RecordsOfReceipts

LEMMA EntryChanged ==
  ASSUME FriendsTyped, NEW u \in User, NEW g, g = friend[u], NEW x
  PROVE  /\ [g EXCEPT !.status = x] =
              [status |-> x, name_sent |-> g.name_sent, known |-> g.known, receipts |-> g.receipts]
         /\ [g EXCEPT !.name_sent = x] =
              [status |-> g.status, name_sent |-> x, known |-> g.known, receipts |-> g.receipts]
         /\ [g EXCEPT !.receipts = x] =
              [status |-> g.status, name_sent |-> g.name_sent, known |-> g.known, receipts |-> x]
         /\ [g EXCEPT !.known = x] =
              [status |-> g.status, name_sent |-> g.name_sent, known |-> x, receipts |-> g.receipts]
<1>1. g = [status |-> g.status, name_sent |-> g.name_sent, known |-> g.known, receipts |-> g.receipts]
  BY EntryTypes
<1>2. ASSUME NEW a, NEW b, NEW c, NEW d,
             g = [status |-> a, name_sent |-> b, known |-> c, receipts |-> d]
      PROVE  /\ [g EXCEPT !.status = x] = [status |-> x, name_sent |-> b, known |-> c, receipts |-> d]
             /\ [g EXCEPT !.name_sent = x] = [status |-> a, name_sent |-> x, known |-> c, receipts |-> d]
             /\ [g EXCEPT !.receipts = x] = [status |-> a, name_sent |-> b, known |-> c, receipts |-> x]
             /\ [g EXCEPT !.known = x] = [status |-> a, name_sent |-> b, known |-> x, receipts |-> d]
  BY <1>2
<1> QED
  BY <1>1, <1>2

LEMMA EntryOf ==
  ASSUME NEW status \in {"None", "Added", "Requested", "Confirmed", "Online"},
         NEW name_sent \in BOOLEAN, NEW known \in -1 .. MaxEvents,
         NEW receipts \in Seq(RecordsOfReceipts)
  PROVE  [status |-> status, name_sent |-> name_sent, known |-> known, receipts |-> receipts]
           \in Entries
  BY DEF Entries, RecordsOfReceipts

\* A step that writes nothing.
LEMMA SilentStep ==
  ASSUME MessengerInv, NEW u, NEW v, Pair(u, v), NEW f \in Entries,
         friend' = [friend EXCEPT ![u] = f],
         (f.status = "None") <=> (friend[u].status = "None"), (f.status = "Online") <=> IsOn(u),
         f.known = friend[u].known, f.receipts = friend[u].receipts,
         f.name_sent => friend[u].name_sent /\ name' = name,
         events' \in 0 .. MaxEvents, name' \in [User -> 0 .. MaxEvents], name'[v] = name[v],
         UNCHANGED <<connected, shown, removed, lost, packets, sent, got, receipted>>
  PROVE  MessengerInv'
<1>1. /\ FriendsTyped /\ Streams(u, v)
      /\ ~ lost /\ connected[u] /\ connected[v] => Agrees(u, v)
  BY InvOfPair
<1>2. u \in User /\ v \in User /\ u # v
  BY DEF Pair
<1>3. PICK p \in Packets : p = Packet("nick", 0) /\ p.type = "nick"
  BY PacketTypes, ZeroEvents DEF Types
<1>4. WroteNothing(u, v) /\ friend'[v] = friend[v]
  BY <1>1, <1>2 DEF WroteNothing, FriendsTyped
<1>5. packets' \in [User -> Seq(Packets)] /\ sent' \in [User -> Nat] /\ got' \in [User -> Nat]
  BY <1>1 DEF FriendsTyped
<1>6. PICK rs : rs = friend[u].receipts
  OBVIOUS
<1>7. ~ lost /\ v \notin removed => \A i \in 1 .. Len(rs) : Delivered(rs[i], v)'
  BY <1>3, <1>4, <1>6, OldReceipts
<1>8. ~ IsOn(u) => f.receipts = <<>>
  BY <1>1 DEF Streams
<1>9. \A i \in 1 .. Len(f.receipts) : f.receipts[i].number < sent'[u]
  BY <1>1 DEF Streams
<1>10. ~ lost /\ connected[u] /\ connected[v] /\ IsOn(u) /\ f.name_sent /\ No("offline", packets[u]) =>
         Learns(IsOn(v), friend[v].known, packets'[v], name'[u])
  BY <1>1 DEF Agrees
<1>11. ~ lost /\ v \notin removed => \A i \in 1 .. Len(f.receipts) : Delivered(f.receipts[i], v)'
  <2>1. rs = f.receipts
    BY <1>6
  <2> QED
    BY <1>7, <2>1
<1> QED
  BY <1>3, <1>4, <1>5, <1>8, <1>9, <1>10, <1>11, PlainStep

LEMMA SetnameStep ==
  ASSUME MessengerInv, NEW u \in User, setname(u)
  PROVE  MessengerInv'
<1>1. PICK v : Pair(u, v)
  BY PairOf
<1>2. FriendsTyped
  BY DEF MessengerInv
<1>3. PICK g : g = friend[u]
  OBVIOUS
<1>4. PICK f : f = [g EXCEPT !.name_sent = FALSE]
  OBVIOUS
<1>5. /\ f = [status |-> g.status, name_sent |-> FALSE, known |-> g.known, receipts |-> g.receipts]
      /\ f \in Entries
  <2>1. f = [status |-> g.status, name_sent |-> FALSE, known |-> g.known, receipts |-> g.receipts]
    BY <1>2, <1>3, <1>4, EntryChanged
  <2> QED
    BY <1>2, <1>3, <2>1, EntryTypes, EntryOf
<1>6. friend' = [friend EXCEPT ![u] = f]
  BY <1>3, <1>4 DEF setname
<1>7. events' \in 0 .. MaxEvents
  BY <1>2, EventType DEF setname
<1>8. name' \in [User -> 0 .. MaxEvents] /\ name'[v] = name[v]
  BY <1>1, <1>2, <1>7 DEF setname, FriendsTyped, Pair
<1>9. UNCHANGED <<connected, shown, removed, lost, packets, sent, got, receipted>>
  BY DEF setname
<1>10. /\ (f.status = "None") <=> (friend[u].status = "None")
       /\ (f.status = "Online") <=> IsOn(u)
       /\ f.known = friend[u].known /\ f.receipts = friend[u].receipts /\ ~ f.name_sent
  BY <1>3, <1>5 DEF IsOn
<1> QED
  BY <1>1, <1>5, <1>6, <1>7, <1>8, <1>9, <1>10, SilentStep

LEMMA TimedOutStep ==
  ASSUME MessengerInv, NEW u \in User, check_friend_request_timed_out(u)
  PROVE  MessengerInv'
<1>1. PICK v : Pair(u, v)
  BY PairOf
<1>2. FriendsTyped
  BY DEF MessengerInv
<1>3. PICK g : g = friend[u] /\ g.status = "Requested"
  BY DEF check_friend_request_timed_out
<1>4. PICK f : f = [g EXCEPT !.status = "Added"]
  OBVIOUS
<1>5. /\ f = [status |-> "Added", name_sent |-> g.name_sent, known |-> g.known, receipts |-> g.receipts]
      /\ f \in Entries
  <2>1. f = [status |-> "Added", name_sent |-> g.name_sent, known |-> g.known, receipts |-> g.receipts]
    BY <1>2, <1>3, <1>4, EntryChanged
  <2> QED
    BY <1>2, <1>3, <2>1, EntryTypes, EntryOf
<1>6. friend' = [friend EXCEPT ![u] = f]
  BY <1>3, <1>4 DEF check_friend_request_timed_out, SetStatus
<1>7. events' \in 0 .. MaxEvents /\ name' \in [User -> 0 .. MaxEvents] /\ name' = name
  BY <1>2 DEF check_friend_request_timed_out, FriendsTyped
<1>8. UNCHANGED <<connected, shown, removed, lost, packets, sent, got, receipted>>
  BY DEF check_friend_request_timed_out
<1>9. /\ f.status # "None" /\ friend[u].status # "None" /\ f.status # "Online" /\ ~ IsOn(u)
      /\ f.known = friend[u].known /\ f.receipts = friend[u].receipts
      /\ f.name_sent => friend[u].name_sent /\ name' = name
      /\ name'[v] = name[v]
  BY <1>3, <1>5, <1>7 DEF IsOn
<1> QED
  BY <1>1, <1>5, <1>6, <1>7, <1>8, <1>9, SilentStep

LEMMA SendRequestStep ==
  ASSUME MessengerInv, NEW u \in User, SendRequest(u)
  PROVE  MessengerInv'
<1>1. PICK v : Pair(u, v)
  BY PairOf
<1>2. FriendsTyped /\ Streams(u, v)
  BY <1>1, InvOfPair
<1>3. PICK g : g = friend[u] /\ g.status = "Added"
  BY DEF SendRequest
<1>4. PICK f : f = [g EXCEPT !.status = "Requested"]
  OBVIOUS
<1>5. /\ f = [status |-> "Requested", name_sent |-> g.name_sent, known |-> g.known, receipts |-> g.receipts]
      /\ f \in Entries
  <2>1. f = [status |-> "Requested", name_sent |-> g.name_sent, known |-> g.known, receipts |-> g.receipts]
    BY <1>2, <1>3, <1>4, EntryChanged, ZenonT(60)
  <2> QED
    BY <1>2, <1>3, <2>1, EntryTypes, EntryOf
<1>6. friend' = [friend EXCEPT ![u] = f]
  BY <1>3, <1>4 DEF SendRequest, SetStatus
<1>7. events' \in 0 .. MaxEvents /\ name' \in [User -> 0 .. MaxEvents] /\ name' = name
  BY <1>2, EventType DEF SendRequest, FriendsTyped
<1>8. PICK p \in Packets : p = Packet("request", 0) /\ p.type = "request"
  BY PacketTypes, ZeroEvents DEF Types
<1>9. PICK ps \in {<<>>, <<p>>} : Exchange(u, 0, ps)
  BY <1>8 DEF SendRequest
<1>10. /\ packets' \in [User -> Seq(Packets)] /\ sent' \in [User -> Nat] /\ got' \in [User -> Nat]
       /\ packets'[u] = packets[u] /\ got'[u] = got[u] + 0 /\ got'[v] = got[v] /\ sent'[v] = sent[v]
       /\ Wrote(u, v, p) \/ WroteNothing(u, v)
  <2>1. /\ packets' \in [User -> Seq(Packets)] /\ sent' \in [User -> Nat] /\ got' \in [User -> Nat]
        /\ packets'[u] = IF 0 = 0 THEN packets[u] ELSE Tail(packets[u])
        /\ got'[u] = got[u] + 0 /\ got'[v] = got[v] /\ sent'[v] = sent[v]
        /\ IF ps = <<p>> /\ Room(u) THEN Wrote(u, v, p) ELSE WroteNothing(u, v)
    <3>1. 0 \in {0, 1} /\ (0 = 1 => packets[u] # <<>>)
      OBVIOUS
    <3> QED
      BY <1>1, <1>2, <1>8, <1>9, <3>1, ExchangeIs, Zenon
  <2> QED
    BY <2>1
<1>11. got'[u] = got[u]
  BY <1>2, <1>10 DEF FriendsTyped
<1>12. f.receipts = <<>> /\ ~ IsOn(u) /\ f.status # "Online" /\ f.status # "None"
  BY <1>2, <1>3, <1>5 DEF Streams, IsOn
<1>13. UNCHANGED <<connected, shown, removed, lost, receipted>>
  BY DEF SendRequest
<1>14. f.known = friend[u].known /\ friend[u].status # "None" /\ name'[v] = name[v]
  BY <1>3, <1>5, <1>7
<1>15. (\A i \in 1 .. Len(f.receipts) : FALSE) /\ \A r \in receipted' : r \in receipted
  BY <1>12, <1>13
<1>16. p.type \notin {"online", "offline"}
  BY <1>8
<1> QED
  BY <1>1, <1>5, <1>6, <1>7, <1>10, <1>11, <1>12, <1>13, <1>14, <1>15, <1>16, PlainStep

LEMMA SendMessageStep ==
  ASSUME MessengerInv, NEW u \in User, m_send_message_generic(u)
  PROVE  MessengerInv'
<1>1. PICK v : Pair(u, v)
  BY PairOf
<1>2. /\ FriendsTyped /\ Streams(u, v) /\ Streams(v, u)
      /\ ~ lost /\ connected[u] /\ connected[v] => Agrees(u, v)
  BY <1>1, InvOfPair
<1>3. PICK g : g = friend[u] /\ g.status = "Online" /\ IsOn(u)
  BY DEF m_send_message_generic, IsOn
<1>4. PICK e \in 0 .. MaxEvents : e = events'
  BY <1>2, EventType DEF m_send_message_generic
<1>5. PICK r \in RecordsOfReceipts : r = [number |-> sent[u], message |-> e]
  BY <1>2 DEF FriendsTyped, RecordsOfReceipts
<1>6. PICK rs \in Seq(RecordsOfReceipts) : rs = g.receipts
  BY <1>2, <1>3, EntryTypes
<1>7. PICK f : f = [g EXCEPT !.receipts = Append(rs, r)]
  OBVIOUS
<1>8. /\ f = [status |-> g.status, name_sent |-> g.name_sent, known |-> g.known, receipts |-> Append(rs, r)]
      /\ f \in Entries
  <2>1. f = [status |-> g.status, name_sent |-> g.name_sent, known |-> g.known, receipts |-> Append(rs, r)]
    BY <1>2, <1>3, <1>7, EntryChanged
  <2>2. Append(rs, r) \in Seq(RecordsOfReceipts)
    OBVIOUS
  <2> QED
    BY <1>2, <1>3, <2>1, <2>2, EntryTypes, EntryOf
<1>9. friend' = [friend EXCEPT ![u] = f]
  BY <1>3, <1>4, <1>5, <1>6, <1>7 DEF m_send_message_generic
<1>10. PICK p \in Packets : p = Packet("message", e) /\ p.type = "message"
  BY PacketTypes DEF Types
<1>11. Exchange(u, 0, <<p>>)
  BY <1>4, <1>10 DEF m_send_message_generic
<1>12. /\ packets' \in [User -> Seq(Packets)] /\ sent' \in [User -> Nat] /\ got' \in [User -> Nat]
       /\ packets'[u] = packets[u] /\ got'[u] = got[u] + 0 /\ got'[v] = got[v] /\ sent'[v] = sent[v]
       /\ Wrote(u, v, p)
  BY <1>1, <1>2, <1>11, ExchangeIs DEF m_send_message_generic
<1>13. got'[u] = got[u] /\ sent'[u] = sent[u] + 1 /\ sent[u] \in Nat /\ got[v] \in Nat
       /\ packets[v] \in Seq(Packets) /\ v \in User /\ u # v
  BY <1>1, <1>2, <1>12 DEF FriendsTyped, Wrote, Pair
<1>14. friend'[v] = friend[v]
  BY <1>2, <1>9, <1>13 DEF FriendsTyped
<1>15. \A i \in 1 .. Len(f.receipts) : f.receipts[i] = r \/ (i \in 1 .. Len(rs) /\ f.receipts[i] = rs[i])
  <2>1. f.receipts = Append(rs, r)
    BY <1>8
  <2> QED
    BY <2>1
<1>16. \A i \in 1 .. Len(f.receipts) : f.receipts[i].number < sent'[u]
  <2>1. r.number < sent'[u]
    BY <1>5, <1>13
  <2>2. ASSUME NEW i \in 1 .. Len(rs) PROVE rs[i].number < sent'[u]
    <3>1. rs[i].number < sent[u]
      BY <1>2, <1>3, <1>6 DEF Streams
    <3>2. rs[i] \in RecordsOfReceipts
      OBVIOUS
    <3>3. rs[i].number \in Nat
      BY <3>2 DEF RecordsOfReceipts
    <3> QED
      BY <1>13, <3>1, <3>3
  <2> QED
    BY <1>15, <2>1, <2>2
<1>17. ASSUME ~ lost, v \notin removed PROVE Delivered(r, v)'
  <2>1. CASE ~ connected[v]
    <3>1. ~ (r.number < got[v])
      BY <1>2, <1>5, <1>13 DEF Streams
    <3> QED
      BY <1>12, <2>1, <3>1 DEF Delivered, m_send_message_generic
  <2>2. CASE connected[v]
    <3>1. connected[u] /\ No("offline", packets[u])
      BY <1>2, <1>3, <1>17 DEF Streams
    <3>2. EndsOn(v) /\ friend[v].status # "None"
      BY <1>1, <1>3, <1>17, <2>2, <3>1, FriendEndsOn
    <3>3. packets'[v] = Append(packets[v], p)
      BY <1>12, <2>2 DEF Wrote
    <3>4. sent[u] = got[v] + Len(packets[v]) /\ Len(packets[v]) \in Nat
      BY <1>2, <1>13, <2>2 DEF Streams
    <3>5. PICK k \in Nat : k = Len(packets[v]) + 1 /\ k = r.number - got[v] + 1 /\ k - 1 = Len(packets[v])
      <4>1. r.number = sent[u]
        BY <1>5
      <4> QED
        BY <1>13, <3>4, <4>1
    <3>6. k \in 1 .. Len(packets'[v]) /\ packets'[v][k] = p /\ ~ (r.number < got[v])
      BY <1>5, <1>13, <3>3, <3>4, <3>5, AppendIs
    <3>7. OnAfter(IsOn(v), packets'[v], k - 1)
      <4>1. IsOn(v) \in BOOLEAN
        BY DEF IsOn
      <4>2. OnAfter(IsOn(v), packets[v], Len(packets[v]))
        BY <3>2 DEF EndsOn
      <4>3. Len(packets[v]) \in 0 .. Len(packets[v])
        BY <3>4
      <4> QED
        BY <1>13, <3>3, <3>5, <4>1, <4>2, <4>3, OnAppend
    <3>8. p = Packet("message", r.message)
      BY <1>5, <1>10
    <3> QED
      BY <1>12, <1>14, <3>2, <3>5, <3>6, <3>7, <3>8 DEF Delivered, IsOn
  <2> QED
    BY <2>1, <2>2
<1>18. ~ lost /\ v \notin removed => \A i \in 1 .. Len(rs) : Delivered(rs[i], v)'
  BY <1>1, <1>3, <1>6, <1>12, <1>14, OldReceipts DEF m_send_message_generic
<1>19. ~ lost /\ v \notin removed => \A i \in 1 .. Len(f.receipts) : Delivered(f.receipts[i], v)'
  BY <1>15, <1>17, <1>18
<1>20. ~ lost /\ connected[u] /\ connected[v] /\ IsOn(u) /\ f.name_sent /\ No("offline", packets[u]) =>
         Learns(IsOn(v), friend[v].known, packets'[v], name'[u])
  <2> SUFFICES ASSUME ~ lost, connected[u], connected[v], f.name_sent, No("offline", packets[u])
               PROVE  Learns(IsOn(v), friend[v].known, packets'[v], name[u])
    BY DEF m_send_message_generic
  <2>1. Learns(IsOn(v), friend[v].known, packets[v], name[u])
    BY <1>2, <1>3, <1>8 DEF Agrees
  <2>2. packets'[v] = Append(packets[v], p)
    BY <1>12 DEF Wrote
  <2>3. IsOn(v) \in BOOLEAN /\ p.type # "nick"
    BY <1>10 DEF IsOn
  <2> QED
    BY <1>13, <2>1, <2>2, <2>3, LearnsAppend
<1>21. name' \in [User -> 0 .. MaxEvents] /\ name' = name
  BY <1>2 DEF m_send_message_generic, FriendsTyped
<1> QED
  BY <1>1, <1>3, <1>4, <1>8, <1>9, <1>10, <1>12, <1>13, <1>16, <1>19, <1>20, <1>21, PlainStep
    DEF m_send_message_generic

-----------------------------------------------------------------------------
(* do_friends for a friend that is online.                                 *)

\* do_receipts takes a first part of the receipts, all of it received.
LEMMA NumReceivedIs ==
  ASSUME FriendsTyped, NEW u \in User, NEW rs, rs = friend[u].receipts, NEW n, n = NumReceived(u)
  PROVE  n \in 0 .. Len(rs) /\ \A i \in 1 .. n : IsReceived(u, rs[i].number)
<1>1. rs \in Seq(RecordsOfReceipts)
  BY EntryTypes
<1>2. PICK l \in Nat : l = Len(rs) /\ DOMAIN rs = 1 .. l
  BY <1>1
<1>3. PICK S : S = {i \in 1 .. l : \A j \in 1 .. i : IsReceived(u, rs[j].number)}
  OBVIOUS
<1>4. n = Cardinality(S)
  BY <1>2, <1>3 DEF NumReceived
<1>5. IsFiniteSet(1 .. l) /\ Cardinality(1 .. l) = l
  BY FS_Interval, 1 \in Int, l \in Int
<1>6. n \in Nat /\ n <= l
  <2>1. S \subseteq 1 .. l
    BY <1>3
  <2>2. IsFiniteSet(S) /\ Cardinality(S) <= Cardinality(1 .. l)
    BY <1>5, <2>1, FS_Subset
  <2>3. Cardinality(S) \in Nat
    BY <2>2, FS_CardinalityType
  <2> QED
    BY <1>4, <1>5, <2>2, <2>3
<1>7. ASSUME n # 0 PROVE n \in S
  <2> SUFFICES ASSUME n \notin S PROVE FALSE
    OBVIOUS
  <2>1. S \subseteq 1 .. n - 1
    <3> SUFFICES ASSUME NEW i \in S, ~ (i \in 1 .. n - 1) PROVE FALSE
      OBVIOUS
    <3>1. i \in 1 .. l /\ n \in 1 .. i /\ n \in 1 .. l
      BY <1>3, <1>6, <1>7
    <3>2. \A j \in 1 .. n : j \in 1 .. i
      BY <1>6, <3>1
    <3> QED
      BY <1>3, <3>1, <3>2
  <2>2. IsFiniteSet(1 .. n - 1) /\ Cardinality(1 .. n - 1) = n - 1
    <3>1. n - 1 \in Int /\ 1 \in Int /\ n - 1 \in Nat
      BY <1>6, <1>7
    <3>2. Cardinality(1 .. n - 1) = IF 1 > n - 1 THEN 0 ELSE n - 1 - 1 + 1
      BY <3>1, FS_Interval
    <3> QED
      BY <3>1, <3>2, FS_Interval
  <2>3. Cardinality(S) <= Cardinality(1 .. n - 1)
    BY <2>1, <2>2, FS_Subset
  <2> QED
    BY <1>4, <1>6, <2>2, <2>3
<1>8. \A i \in 1 .. n : IsReceived(u, rs[i].number)
  BY <1>3, <1>6, <1>7
<1> QED
  BY <1>2, <1>6, <1>8

LEMMA RestOf ==
  ASSUME NEW rs \in Seq(RecordsOfReceipts), NEW n \in 0 .. Len(rs), NEW t,
         t = SubSeq(rs, n + 1, Len(rs))
  PROVE  /\ t \in Seq(RecordsOfReceipts)
         /\ \A i \in 1 .. Len(t) : n + i \in 1 .. Len(rs) /\ t[i] = rs[n + i]
<1>1. n + 1 \in Nat /\ Len(rs) \in Nat /\ n \in Nat /\ n <= Len(rs)
  OBVIOUS
<1>2. Len(t) = Len(rs) - n /\ t \in Seq(RecordsOfReceipts)
  BY <1>1
<1>3. \A i \in 1 .. Len(rs) - n : t[i] = rs[n + i] /\ n + i \in 1 .. Len(rs)
  BY <1>1
<1> QED
  BY <1>2, <1>3

LEMMA ServeOnlineStep ==
  ASSUME MessengerInv, NEW u \in User, ServeOnline(u)
  PROVE  MessengerInv'
<1>1. PICK v : Pair(u, v)
  BY PairOf
<1>2. /\ FriendsTyped /\ Streams(u, v)
      /\ ~ lost => Receipts(u, v)
      /\ ~ lost /\ connected[u] /\ connected[v] => Agrees(u, v)
  BY <1>1, InvOfPair
<1>3. PICK g : g = friend[u] /\ g.status = "Online" /\ IsOn(u)
  BY DEF ServeOnline, IsOn
<1>4. PICK n : n = NumReceived(u)
  OBVIOUS
<1>5. PICK rs \in Seq(RecordsOfReceipts) : rs = g.receipts /\ rs = friend[u].receipts
  BY <1>2, <1>3, EntryTypes
<1>6. n \in 0 .. Len(rs) /\ \A i \in 1 .. n : IsReceived(u, rs[i].number)
  BY <1>2, <1>4, <1>5, NumReceivedIs
<1>7. PICK t : t = SubSeq(rs, n + 1, Len(rs))
  OBVIOUS
<1>8. t \in Seq(RecordsOfReceipts) /\ \A i \in 1 .. Len(t) : n + i \in 1 .. Len(rs) /\ t[i] = rs[n + i]
  BY <1>6, <1>7, RestOf
<1>9. PICK b \in BOOLEAN : b = (g.name_sent \/ Room(u))
  BY <1>2, <1>3, EntryTypes DEF Room
<1>10. PICK f : f = [g EXCEPT !.name_sent = @ \/ Room(u), !.receipts = SubSeq(@, n + 1, Len(@))]
  OBVIOUS
<1>11. f = [status |-> g.status, name_sent |-> b, known |-> g.known, receipts |-> t]
  <2>1. g = [status |-> g.status, name_sent |-> g.name_sent, known |-> g.known, receipts |-> g.receipts]
    BY <1>2, <1>3, EntryTypes
  <2>2. f = [g EXCEPT !.name_sent = b, !.receipts = t]
    BY <1>5, <1>7, <1>9, <1>10, Zenon
  <2>3. ASSUME NEW c, NEW d, NEW e, NEW h, g = [status |-> c, name_sent |-> e, known |-> d, receipts |-> h]
        PROVE  f = [status |-> c, name_sent |-> b, known |-> d, receipts |-> t]
    BY <2>2, <2>3
  <2> QED
    BY <2>1, <2>3
<1>12. f \in Entries
  BY <1>2, <1>3, <1>8, <1>11, EntryTypes, EntryOf
<1>13. friend' = [friend EXCEPT ![u] = f]
  BY <1>3, <1>4, <1>10 DEF ServeOnline
<1>14. PICK p \in Packets : p = Packet("nick", name[u]) /\ p.type = "nick" /\ p.value = name[u]
  <2>1. name[u] \in 0 .. MaxEvents
    BY <1>2 DEF FriendsTyped
  <2> QED
    BY <2>1, PacketTypes DEF Types
<1>15. PICK ps \in {<<>>, <<p>>} : Exchange(u, 0, ps) /\ ps = IF ~ g.name_sent THEN <<p>> ELSE <<>>
  BY <1>3, <1>14 DEF ServeOnline
<1>16. /\ packets' \in [User -> Seq(Packets)] /\ sent' \in [User -> Nat] /\ got' \in [User -> Nat]
       /\ packets'[u] = IF 0 = 0 THEN packets[u] ELSE Tail(packets[u])
       /\ got'[u] = got[u] + 0 /\ got'[v] = got[v] /\ sent'[v] = sent[v]
       /\ IF ps = <<p>> /\ Room(u) THEN Wrote(u, v, p) ELSE WroteNothing(u, v)
  <2>1. 0 \in {0, 1} /\ (0 = 1 => packets[u] # <<>>)
    OBVIOUS
  <2> QED
    BY <1>1, <1>2, <1>14, <1>15, <2>1, ExchangeIs, Zenon
<1>17. /\ packets'[u] = packets[u] /\ got'[u] = got[u] /\ v \in User /\ u # v
       /\ sent[u] \in Nat /\ got[v] \in Nat /\ OtherUser(u) = v
       /\ packets[v] \in Seq(Packets) /\ friend'[v] = friend[v]
  BY <1>1, <1>2, <1>13, <1>16 DEF FriendsTyped, Pair
<1>18. UNCHANGED <<connected, shown, removed, lost, name, events>>
  BY DEF ServeOnline
<1>19. Wrote(u, v, p) \/ WroteNothing(u, v)
  BY <1>16
<1>20. sent'[u] \in Nat /\ sent'[u] >= sent[u]
  BY <1>16, <1>17, <1>19 DEF Wrote, WroteNothing
<1>21. \A i \in 1 .. Len(rs) : rs[i] \in RecordsOfReceipts /\ rs[i].number \in Nat /\ rs[i].number < sent[u]
  <2> TAKE i \in 1 .. Len(rs)
  <2>1. rs[i] \in RecordsOfReceipts
    BY <1>5
  <2>2. rs[i].number < sent[u]
    BY <1>2, <1>5 DEF Streams
  <2> QED
    BY <2>1, <2>2 DEF RecordsOfReceipts
<1>22. f.receipts = t /\ f.known = friend[u].known /\ f.status = "Online" /\ friend[u].status = "Online"
       /\ f.name_sent = b
  BY <1>3, <1>11
<1>23. \A i \in 1 .. Len(t) : t[i].number < sent'[u]
  BY <1>8, <1>17, <1>20, <1>21
<1>24. ASSUME ~ lost, v \notin removed PROVE \A i \in 1 .. Len(t) : Delivered(t[i], v)'
  <2>1. \A i \in 1 .. Len(rs) : Delivered(rs[i], v)'
    BY <1>1, <1>5, <1>14, <1>16, <1>17, <1>18, <1>19, <1>24, OldReceipts
  <2> QED
    BY <1>8, <2>1
<1>25. ASSUME ~ lost, NEW r \in receipted'
       PROVE  r \in receipted \/ (r.from = u /\ (r.message \in shown \/ v \in removed))
  <2>1. receipted' = receipted \cup {[from |-> u, message |-> rs[i].message] : i \in 1 .. n}
    BY <1>3, <1>4, <1>5 DEF ServeOnline
  <2>2. ASSUME NEW i \in 1 .. n, r = [from |-> u, message |-> rs[i].message], v \notin removed
        PROVE  rs[i].message \in shown
    <3>1. i \in 1 .. Len(rs)
      BY <1>6
    <3>2. IsReceived(u, rs[i].number) /\ rs[i].number < sent[u] /\ rs[i].number \in Nat
      BY <1>6, <1>21, <3>1
    <3>3. rs[i].number < got[v]
      BY <1>17, <3>2 DEF IsReceived
    <3>4. Delivered(rs[i], v)
      BY <1>2, <1>5, <1>25, <2>2, <3>1 DEF Receipts
    <3> QED
      BY <3>3, <3>4 DEF Delivered
  <2> QED
    BY <2>1, <2>2
<1>26. ASSUME ~ lost, connected[u], connected[v], b, No("offline", packets[u])
       PROVE  Learns(IsOn(v), friend[v].known, packets'[v], name[u])
  <2>1. CASE g.name_sent
    <3>1. ps = <<>>
      BY <1>15, <2>1
    <3>2. packets'[v] = packets[v]
      BY <1>16, <3>1 DEF WroteNothing
    <3> QED
      BY <1>2, <1>3, <1>26, <2>1, <3>2 DEF Agrees
  <2>2. CASE ~ g.name_sent
    <3>1. ps = <<p>> /\ Room(u)
      BY <1>9, <1>15, <1>26, <2>2
    <3>2. packets'[v] = Append(packets[v], p)
      BY <1>16, <1>26, <3>1 DEF Wrote
    <3>3. EndsOn(v)
      BY <1>1, <1>3, <1>26, FriendEndsOn
    <3>4. IsOn(v) \in BOOLEAN /\ OnAfter(IsOn(v), packets[v], Len(packets[v]))
      BY <3>3 DEF IsOn, EndsOn
    <3> QED
      BY <1>14, <1>17, <3>2, <3>4, LearnsAppend
  <2> QED
    BY <2>1, <2>2
<1>27. events' \in 0 .. MaxEvents /\ name' \in [User -> 0 .. MaxEvents] /\ name'[v] = name[v] /\ name'[u] = name[u]
  BY <1>2, <1>18 DEF FriendsTyped
<1>28. p.type \notin {"online", "offline"}
  BY <1>14
<1>29. /\ (f.status = "None") <=> (friend[u].status = "None")
       /\ (f.status = "Online") <=> IsOn(u)
       /\ ~ IsOn(u) => f.receipts = <<>>
       /\ \A i \in 1 .. Len(f.receipts) : f.receipts[i].number < sent'[u]
  BY <1>3, <1>22, <1>23
<1>30. ~ lost /\ v \notin removed => \A i \in 1 .. Len(f.receipts) : Delivered(f.receipts[i], v)'
  BY <1>22, <1>24
<1>31. ~ lost => \A r \in receipted' : r \in receipted \/ (r.from = u /\ (r.message \in shown \/ v \in removed))
  BY <1>25
<1>32. ~ lost /\ connected[u] /\ connected[v] /\ IsOn(u) /\ f.name_sent /\ No("offline", packets[u]) =>
         Learns(IsOn(v), friend[v].known, packets'[v], name'[u])
  BY <1>22, <1>26, <1>27
<1>33. /\ packets' \in [User -> Seq(Packets)] /\ sent' \in [User -> Nat] /\ got' \in [User -> Nat]
       /\ got'[v] = got[v] /\ sent'[v] = sent[v] /\ packets'[u] = packets[u] /\ got'[u] = got[u]
       /\ UNCHANGED <<connected, shown, removed, lost>>
       /\ f.known = friend[u].known
  BY <1>16, <1>17, <1>18, <1>22
<1> QED
  BY <1>1, <1>12, <1>13, <1>14, <1>19, <1>27, <1>28, <1>29, <1>30, <1>31, <1>32, <1>33, PlainStep

-----------------------------------------------------------------------------
(* The steps that announce that a user is online or offline.               *)

LEMMA AnnounceIs ==
  ASSUME FriendsTyped, NEW u, NEW v, Pair(u, v), NEW n \in {0, 1}, n = 1 => packets[u] # <<>>,
         NEW p \in Packets, NEW ps \in {<<>>, <<p>>}, Announce(u, n, ps)
  PROVE  /\ packets' \in [User -> Seq(Packets)] /\ sent' \in [User -> Nat] /\ got' \in [User -> Nat]
         /\ packets'[u] = IF n = 0 THEN packets[u] ELSE Tail(packets[u])
         /\ got'[u] = got[u] + n /\ got'[v] = got[v] /\ sent'[v] = sent[v]
         /\ Wrote(u, v, p) \/ WroteNothing(u, v)
         /\ lost' \in BOOLEAN /\ (~ lost' => ~ lost)
         /\ ps = <<>> => WroteNothing(u, v)
         /\ ~ lost' /\ ps = <<p>> => Wrote(u, v, p)
<1>1. Exchange(u, n, ps) /\ lost' = (lost \/ (ps # <<>> /\ ~ Room(u)))
  BY DEF Announce
<1>2. /\ packets' \in [User -> Seq(Packets)] /\ sent' \in [User -> Nat] /\ got' \in [User -> Nat]
      /\ packets'[u] = IF n = 0 THEN packets[u] ELSE Tail(packets[u])
      /\ got'[u] = got[u] + n /\ got'[v] = got[v] /\ sent'[v] = sent[v]
      /\ IF ps = <<p>> /\ Room(u) THEN Wrote(u, v, p) ELSE WroteNothing(u, v)
  BY <1>1, ExchangeIs, ZenonT(60)
<1>3. <<>> # <<p>>
  OBVIOUS
<1>4. lost \in BOOLEAN
  BY DEF FriendsTyped
<1> QED
  BY <1>1, <1>2, <1>3, <1>4

LEMMA AddFriendStep ==
  ASSUME MessengerInv, NEW u \in User, NEW status \in {"Added", "Confirmed"}, init_new_friend(u, status)
  PROVE  MessengerInv'
<1>1. PICK v : Pair(u, v)
  BY PairOf
<1>2. /\ FriendsTyped /\ Streams(u, v) /\ Streams(v, u)
      /\ ~ lost => Receipts(u, v) /\ Receipts(v, u)
      /\ ~ lost /\ connected[u] /\ connected[v] => Agrees(u, v) /\ Agrees(v, u)
  BY <1>1, InvOfPair
<1>3. v \in User /\ u # v /\ friend[u].status = "None" /\ ~ IsOn(u)
  BY <1>1 DEF Pair, init_new_friend, IsOn
<1>4. PICK f : f = [status |-> status, name_sent |-> FALSE, known |-> -1, receipts |-> <<>>]
  OBVIOUS
<1>5. f \in Entries
  <2>1. <<>> \in Seq(RecordsOfReceipts) /\ -1 \in -1 .. MaxEvents
    BY MessengerAssumption
  <2> QED
    BY <1>4, <2>1, EntryOf
<1>6. friend' = [friend EXCEPT ![u] = f]
  <2>1. ASSUME NEW a, NEW b, NEW c, NEW d,
               NoFriend = [status |-> a, name_sent |-> b, known |-> c, receipts |-> d]
        PROVE  [NoFriend EXCEPT !.status = status] =
                 [status |-> status, name_sent |-> b, known |-> c, receipts |-> d]
    BY <2>1
  <2>2. f = [NoFriend EXCEPT !.status = status]
    BY <1>4, <2>1 DEF NoFriend
  <2> QED
    BY <2>2 DEF init_new_friend
<1>7. /\ friend'[u] = f /\ friend'[v] = friend[v] /\ friend' \in [User -> Entries]
      /\ f.status # "None" /\ f.status # "Online" /\ f.receipts = <<>>
  BY <1>2, <1>3, <1>4, <1>5, <1>6 DEF FriendsTyped
<1>8. PICK p \in Packets : p = ONLINE /\ p.type = "online"
  BY PacketTypes, ZeroEvents DEF Types, ONLINE
<1>9. PICK ps \in {<<>>, <<p>>} : Announce(u, 0, ps) /\ ps = IF connected[u] THEN <<p>> ELSE <<>>
  BY <1>8 DEF init_new_friend
<1>10. /\ packets' \in [User -> Seq(Packets)] /\ sent' \in [User -> Nat] /\ got' \in [User -> Nat]
       /\ packets'[u] = IF 0 = 0 THEN packets[u] ELSE Tail(packets[u])
       /\ got'[u] = got[u] + 0 /\ got'[v] = got[v] /\ sent'[v] = sent[v]
       /\ Wrote(u, v, p) \/ WroteNothing(u, v)
       /\ lost' \in BOOLEAN /\ (~ lost' => ~ lost)
       /\ ~ lost' /\ ps = <<p>> => Wrote(u, v, p)
  <2>1. 0 \in {0, 1} /\ (0 = 1 => packets[u] # <<>>)
    OBVIOUS
  <2> QED
    BY <1>1, <1>2, <1>8, <1>9, <2>1, AnnounceIs, Zenon
<1>11. UNCHANGED <<name, connected, shown, receipted, removed>> /\ events' \in 0 .. MaxEvents
  BY <1>2, EventType DEF init_new_friend
<1>12. FriendsTyped'
  BY <1>2, <1>7, <1>10, <1>11 DEF FriendsTyped
<1>13. packets'[u] = packets[u] /\ got'[u] = got[u] /\ packets[v] \in Seq(Packets)
  BY <1>2, <1>3, <1>10 DEF FriendsTyped
<1>14. ~ IsOn(u)' /\ IsOn(v)' = IsOn(v) /\ IsOn(v) \in BOOLEAN
  BY <1>7 DEF IsOn
<1>15. /\ Len(packets'[u]) <= MaxQueued /\ Len(packets'[v]) <= MaxQueued
       /\ got'[u] <= sent'[v] /\ got'[v] <= sent'[u]
       /\ connected[u] => got'[u] + Len(packets'[u]) = sent'[v]
       /\ connected[v] => got'[v] + Len(packets'[v]) = sent'[u]
  <2>1. 0 \in {0, 1} /\ (0 = 1 => packets[u] # <<>> /\ connected[u])
    OBVIOUS
  <2> QED
    BY <1>1, <1>2, <1>8, <1>10, <2>1, CountsKept, Zenon
<1>16. Streams(u, v)'
  <2>1. \A i \in 1 .. Len(<<>>) : FALSE
    OBVIOUS
  <2> QED
    BY <1>2, <1>7, <1>11, <1>13, <1>14, <1>15, <2>1 DEF Streams
<1>17. No("offline", packets'[v]) <=> No("offline", packets[v])
  <2>1. No("offline", Append(packets[v], p)) <=> No("offline", packets[v]) /\ p.type # "offline"
    BY <1>8, <1>13, NoAppend
  <2> QED
    BY <1>8, <1>10, <2>1 DEF Wrote, WroteNothing
<1>18. Streams(v, u)'
  BY <1>2, <1>7, <1>10, <1>11, <1>14, <1>15, <1>17 DEF Streams
<1>19. ~ lost' => Receipts(u, v)'
  <2>1. \A i \in 1 .. Len(<<>>) : FALSE
    OBVIOUS
  <2> QED
    BY <1>2, <1>7, <1>10, <1>11, <2>1 DEF Receipts
<1>20. ~ lost' => Receipts(v, u)'
  <2>1. ASSUME NEW r, Delivered(r, u) PROVE Delivered(r, u)'
    BY <1>3, <1>11, <1>13, <2>1 DEF Delivered
  <2> QED
    BY <1>2, <1>7, <1>10, <1>11, <2>1 DEF Receipts
<1>21. ASSUME ~ lost', connected'[u], connected'[v] PROVE Agrees(u, v)' /\ Agrees(v, u)'
  <2>1. ~ lost /\ connected[u] /\ connected[v] /\ Agrees(u, v) /\ Agrees(v, u)
    BY <1>2, <1>10, <1>11, <1>21
  <2>2. packets'[v] = Append(packets[v], p)
    BY <1>9, <1>10, <1>21, <2>1 DEF Wrote
  <2>3. ~ EndsOn(v)
    BY <1>3, <2>1 DEF Agrees
  <2>4. Answers(IsOn(v), packets'[v])
    BY <1>8, <1>13, <1>14, <2>2, <2>3, AnswersAppend DEF EndsOn
  <2>5. EndsOn(u)' <=> EndsOn(u)
    <3>1. IsOn(u)' = IsOn(u)
      BY <1>3, <1>7 DEF IsOn
    <3> QED
      BY <1>13, <3>1 DEF EndsOn
  <2>6. EndsOn(v)'
    <3>1. Len(packets'[v]) = Len(packets[v]) + 1
      BY <1>8, <1>13, <2>2, AppendIs
    <3>2. OnAfter(IsOn(v), Append(packets[v], p), Len(packets[v]) + 1)
            <=> Turned(OnAfter(IsOn(v), packets[v], Len(packets[v])), p)
      BY <1>8, <1>13, <1>14, OnLast
    <3> QED
      BY <1>8, <1>14, <2>2, <3>1, <3>2 DEF EndsOn, Turned
  <2>7. Agrees(u, v)'
    BY <1>7, <1>14, <2>1, <2>4, <2>5 DEF Agrees
  <2>8. ~ (IsOn(v) /\ No("offline", packets[v]))
    BY <2>3, NoOffline DEF EndsOn
  <2>9. Agrees(v, u)'
    BY <1>7, <1>14, <1>17, <2>6, <2>8 DEF Agrees
  <2> QED
    BY <2>7, <2>9
<1> QED
  BY <1>1, <1>12, <1>16, <1>18, <1>19, <1>20, <1>21, InvOfPairPrimed

LEMMA DeleteFriendStep ==
  ASSUME MessengerInv, NEW u \in User, NEW kept \in BOOLEAN, m_delfriend(u, kept)
  PROVE  MessengerInv'
<1>1. PICK v : Pair(u, v)
  BY PairOf
<1>2. /\ FriendsTyped /\ Streams(u, v) /\ Streams(v, u)
      /\ ~ lost => Receipts(u, v) /\ Receipts(v, u)
      /\ ~ lost /\ connected[u] /\ connected[v] => Agrees(u, v) /\ Agrees(v, u)
  BY <1>1, InvOfPair
<1>3. v \in User /\ u # v
  BY <1>1 DEF Pair
<1>4. PICK f : f = NoFriend /\ f = [status |-> "None", name_sent |-> FALSE, known |-> -1, receipts |-> <<>>]
  BY DEF NoFriend
<1>5. f \in Entries
  <2>1. <<>> \in Seq(RecordsOfReceipts) /\ -1 \in -1 .. MaxEvents
    BY MessengerAssumption
  <2> QED
    BY <1>4, <2>1, EntryOf
<1>6. friend' = [friend EXCEPT ![u] = f]
  BY <1>4 DEF m_delfriend
<1>7. /\ friend'[u] = f /\ friend'[v] = friend[v] /\ friend' \in [User -> Entries]
      /\ f.status = "None" /\ f.receipts = <<>>
  BY <1>2, <1>3, <1>4, <1>5, <1>6 DEF FriendsTyped
<1>8. PICK p \in Packets : p = Packet("offline", 0) /\ p.type = "offline"
  BY PacketTypes, ZeroEvents DEF Types
<1>9. PICK ps \in {<<>>, <<p>>} : Announce(u, 0, ps) /\ ps = IF connected[u] THEN <<p>> ELSE <<>>
  BY <1>8 DEF m_delfriend
<1>10. /\ packets' \in [User -> Seq(Packets)] /\ sent' \in [User -> Nat] /\ got' \in [User -> Nat]
       /\ packets'[u] = IF 0 = 0 THEN packets[u] ELSE Tail(packets[u])
       /\ got'[u] = got[u] + 0 /\ got'[v] = got[v] /\ sent'[v] = sent[v]
       /\ Wrote(u, v, p) \/ WroteNothing(u, v)
       /\ lost' \in BOOLEAN /\ (~ lost' => ~ lost)
       /\ ~ lost' /\ ps = <<p>> => Wrote(u, v, p)
  <2>1. 0 \in {0, 1} /\ (0 = 1 => packets[u] # <<>>)
    OBVIOUS
  <2> QED
    BY <1>1, <1>2, <1>8, <1>9, <2>1, AnnounceIs, Zenon
<1>11. UNCHANGED <<name, events, shown, receipted>> /\ removed' = removed \cup {u}
  BY DEF m_delfriend
<1>12. /\ connected' \in [User -> BOOLEAN] /\ connected'[v] = connected[v]
       /\ connected'[u] => connected[u]
  BY <1>2, <1>3 DEF m_delfriend, FriendsTyped
<1>13. FriendsTyped'
  BY <1>2, <1>7, <1>10, <1>11, <1>12 DEF FriendsTyped
<1>14. packets'[u] = packets[u] /\ got'[u] = got[u] /\ packets[v] \in Seq(Packets)
  BY <1>2, <1>3, <1>10 DEF FriendsTyped
<1>15. ~ IsOn(u)' /\ IsOn(v)' = IsOn(v) /\ IsOn(v) \in BOOLEAN /\ IsOn(u) \in BOOLEAN
  BY <1>7 DEF IsOn
<1>16. /\ Len(packets'[u]) <= MaxQueued /\ Len(packets'[v]) <= MaxQueued
       /\ got'[u] <= sent'[v] /\ got'[v] <= sent'[u]
       /\ connected[u] => got'[u] + Len(packets'[u]) = sent'[v]
       /\ connected[v] => got'[v] + Len(packets'[v]) = sent'[u]
  <2>1. 0 \in {0, 1} /\ (0 = 1 => packets[u] # <<>> /\ connected[u])
    OBVIOUS
  <2> QED
    BY <1>1, <1>2, <1>8, <1>10, <2>1, CountsKept, Zenon
<1>17. \A i \in 1 .. Len(<<>>) : FALSE
  OBVIOUS
<1>18. Streams(u, v)'
  BY <1>2, <1>3, <1>7, <1>11, <1>12, <1>14, <1>15, <1>16, <1>17 DEF Streams
<1>19. Streams(v, u)'
  BY <1>2, <1>7, <1>10, <1>11, <1>12, <1>15, <1>16 DEF Streams
<1>20. ~ lost' => Receipts(u, v)' /\ Receipts(v, u)'
  BY <1>2, <1>3, <1>7, <1>10, <1>11, <1>17 DEF Receipts
<1>21. ASSUME ~ lost', connected'[u], connected'[v] PROVE Agrees(u, v)' /\ Agrees(v, u)'
  <2>1. ~ lost /\ connected[u] /\ connected[v] /\ Agrees(u, v) /\ Agrees(v, u)
    BY <1>2, <1>10, <1>12, <1>21
  <2>2. packets'[v] = Append(packets[v], p)
    BY <1>9, <1>10, <1>21, <2>1 DEF Wrote
  <2>3. EndsOn(u)' => EndsOn(u)
    <3>1. EndsOn(u)' => OnAfter(FALSE, packets[u], Len(packets[u]))
      <4>1. IsOn(u)' = FALSE
        BY <1>15
      <4> QED
        BY <1>14, <4>1 DEF EndsOn
    <3> QED
      BY <3>1, OnMonotone DEF EndsOn
  <2>4. ~ EndsOn(v)'
    <3>1. Len(packets'[v]) = Len(packets[v]) + 1
      BY <1>8, <1>14, <2>2, AppendIs
    <3>2. OnAfter(IsOn(v), Append(packets[v], p), Len(packets[v]) + 1)
            <=> Turned(OnAfter(IsOn(v), packets[v], Len(packets[v])), p)
      BY <1>8, <1>14, <1>15, OnLast
    <3> QED
      BY <1>8, <1>15, <2>2, <3>1, <3>2 DEF EndsOn, Turned
  <2>5. ~ No("offline", packets'[v])
    BY <1>8, <1>14, <2>2, NoAppend
  <2>6. Agrees(u, v)'
    BY <1>7, <1>15, <2>1, <2>3 DEF Agrees
  <2>7. Agrees(v, u)'
    BY <1>7, <2>4, <2>5 DEF Agrees
  <2> QED
    BY <2>6, <2>7
<1> QED
  BY <1>1, <1>13, <1>18, <1>19, <1>20, <1>21, InvOfPairPrimed

-----------------------------------------------------------------------------
(* A packet is handled.                                                    *)

\* What handle_packet makes of an entry.
LEMMA HandledIs ==
  ASSUME FriendsTyped, NEW u \in User, NEW g, g = friend[u], NEW m \in Packets, NEW f, f = Handled(g, m),
         g.status # "Online" => g.receipts = <<>>
  PROVE  /\ f \in Entries
         /\ (f.status = "None") <=> (g.status = "None")
         /\ g.status # "None" => ((f.status = "Online") <=> Turned(g.status = "Online", m))
         /\ f.known = IF g.status = "Online" /\ m.type = "nick" THEN m.value ELSE g.known
         /\ f.status # "Online" => f.receipts = <<>>
         /\ f.receipts = <<>> \/ f.receipts = g.receipts
         /\ f.status = "Online" /\ f.name_sent => g.status = "Online" /\ g.name_sent /\ m.type # "offline"
<1>1. /\ g \in Entries
      /\ g.status \in {"None", "Added", "Requested", "Confirmed", "Online"}
      /\ g.name_sent \in BOOLEAN /\ g.known \in -1 .. MaxEvents
      /\ g.receipts \in Seq(RecordsOfReceipts)
  BY EntryTypes
<1>2. m.type \in Types /\ m.value \in 0 .. MaxEvents /\ m.value \in -1 .. MaxEvents
  BY DEF Packets
<1>3. CASE g.status = "None"
  <2>1. f = g
    BY <1>3 DEF Handled
  <2> QED
    BY <1>1, <1>3, <2>1
<1>4. CASE g.status # "None" /\ g.status # "Online" /\ m.type = "online"
  <2>1. f = [[g EXCEPT !.status = "Online"] EXCEPT !.name_sent = FALSE]
    BY <1>4 DEF Handled, SetStatus
  <2>2. f = [status |-> "Online", name_sent |-> FALSE, known |-> g.known, receipts |-> g.receipts]
    <3>1. [g EXCEPT !.status = "Online"] =
            [status |-> "Online", name_sent |-> g.name_sent, known |-> g.known, receipts |-> g.receipts]
      BY EntryChanged, ZenonT(60)
    <3> QED
      BY <2>1, <3>1
  <2>3. f \in Entries
    BY <1>1, <2>2, EntryOf
  <2> QED
    BY <1>1, <1>4, <2>2, <2>3 DEF Turned
<1>5. CASE g.status = "Online" /\ m.type = "offline"
  <2>1. f = [[g EXCEPT !.status = "Confirmed"] EXCEPT !.receipts = <<>>]
    BY <1>5 DEF Handled, SetStatus
  <2>2. f = [status |-> "Confirmed", name_sent |-> g.name_sent, known |-> g.known, receipts |-> <<>>]
    <3>1. [g EXCEPT !.status = "Confirmed"] =
            [status |-> "Confirmed", name_sent |-> g.name_sent, known |-> g.known, receipts |-> g.receipts]
      BY EntryChanged, ZenonT(60)
    <3> QED
      BY <2>1, <3>1
  <2>3. f \in Entries
    <3>1. <<>> \in Seq(RecordsOfReceipts)
      OBVIOUS
    <3> QED
      BY <1>1, <2>2, <3>1, EntryOf, ZenonT(60)
  <2> QED
    BY <1>1, <1>5, <2>2, <2>3 DEF Turned
<1>6. CASE g.status = "Online" /\ m.type = "nick"
  <2>1. f = [g EXCEPT !.known = m.value]
    BY <1>6 DEF Handled
  <2>2. f = [status |-> g.status, name_sent |-> g.name_sent, known |-> m.value, receipts |-> g.receipts]
    BY <2>1, EntryChanged
  <2>3. f \in Entries
    BY <1>1, <1>2, <2>2, EntryOf
  <2> QED
    BY <1>1, <1>6, <2>2, <2>3 DEF Turned
<1>7. CASE g.status # "None" /\ g.status # "Online" /\ m.type # "online"
  <2>1. f = g
    BY <1>7 DEF Handled
  <2> QED
    BY <1>1, <1>7, <2>1 DEF Turned
<1>8. CASE g.status = "Online" /\ m.type # "offline" /\ m.type # "nick"
  <2>1. f = g
    BY <1>8 DEF Handled
  <2> QED
    BY <1>1, <1>8, <2>1 DEF Turned
<1> QED
  BY <1>3, <1>4, <1>5, <1>6, <1>7, <1>8

\* A receipt of v, whose message is on its way to u or was shown to it.
LEMMA DeliveredHandled ==
  ASSUME FriendsTyped, NEW u, NEW v, Pair(u, v), handle_packet(u), NEW s, s = packets[u],
         packets'[u] = Tail(s), got'[u] = got[u] + 1,
         friend'[u].status # "None" <=> friend[u].status # "None",
         friend[u].status # "None" => IsOn(u)' = Turned(IsOn(u), Head(s)),
         NEW r \in RecordsOfReceipts, Delivered(r, u)
  PROVE  Delivered(r, u)'
<1>1. s \in Seq(Packets) /\ s # <<>> /\ got[u] \in Nat /\ r.number \in Nat /\ connected[u]
      /\ connected'[u] = connected[u]
  BY DEF FriendsTyped, Pair, handle_packet, RecordsOfReceipts
<1>2. /\ Tail(s) \in Seq(Packets) /\ Len(s) \in Nat \ {0} /\ Len(Tail(s)) = Len(s) - 1
      /\ Head(s) = s[1] /\ Head(s) \in Packets
      /\ \A i \in 1 .. Len(s) - 1 : Tail(s)[i] = s[i + 1]
  BY <1>1, TailIs
<1>3. shown \subseteq shown' /\ (friend[u].status = "Online" /\ Head(s).type = "message" => Head(s).value \in shown')
  BY DEF handle_packet
<1>4. CASE r.number < got[u]
  <2>1. r.message \in shown'
    BY <1>3, <1>4 DEF Delivered
  <2>2. r.number < got'[u]
    BY <1>1, <1>4
  <2> QED
    BY <2>1, <2>2 DEF Delivered
<1>5. CASE ~ (r.number < got[u])
  <2>1. PICK k : k = r.number - got[u] + 1
    OBVIOUS
  <2>2. /\ friend[u].status # "None"
        /\ k \in 1 .. Len(s)
        /\ s[k] = Packet("message", r.message)
        /\ OnAfter(IsOn(u), s, k - 1)
    BY <1>1, <1>5, <2>1 DEF Delivered
  <2>3. CASE k = 1
    <3>1. IsOn(u)
      <4>1. OnAfter(IsOn(u), s, 0)
        BY <2>2, <2>3
      <4> QED
        BY <4>1 DEF OnAfter
    <3>2. Head(s).type = "message" /\ Head(s).value = r.message
      BY <1>2, <2>2, <2>3 DEF Packet
    <3>3. r.message \in shown'
      BY <1>3, <3>1, <3>2 DEF IsOn
    <3>4. r.number < got'[u]
      BY <1>1, <2>1, <2>3
    <3> QED
      BY <3>3, <3>4 DEF Delivered
  <2>4. CASE k # 1
    <3>1. k - 1 \in 1 .. Len(s) - 1 /\ k - 1 \in 1 .. Len(s) /\ (k - 1) + 1 = k
      BY <1>2, <2>2, <2>4
    <3>2. k - 1 = r.number - got'[u] + 1 /\ ~ (r.number < got'[u])
      <4>1. k \in Int /\ k > 1
        BY <2>2, <2>4
      <4>2. PICK a \in Nat, b \in Nat : a = r.number /\ b = got[u]
        BY <1>1
      <4>3. k = a - b + 1 /\ got'[u] = b + 1
        BY <2>1, <4>2
      <4>4. k - 1 = a - (b + 1) + 1 /\ ~ (a < b + 1)
        BY <4>1, <4>3
      <4> QED
        BY <4>2, <4>3, <4>4
    <3>3. Tail(s)[k - 1] = Packet("message", r.message)
      BY <1>2, <2>2, <3>1
    <3>4. OnAfter(Turned(IsOn(u), Head(s)), Tail(s), (k - 1) - 1)
      <4>1. IsOn(u) \in BOOLEAN
        BY DEF IsOn
      <4> QED
        BY <1>1, <2>2, <3>1, <4>1, OnTail
    <3>5. OnAfter(IsOn(u)', packets'[u], (k - 1) - 1)
      BY <2>2, <3>4
    <3>6. PICK j : j = k - 1
      OBVIOUS
    <3>7. /\ j = r.number - got'[u] + 1 /\ j \in 1 .. Len(packets'[u])
          /\ packets'[u][j] = Packet("message", r.message)
          /\ OnAfter(IsOn(u)', packets'[u], j - 1)
          /\ friend'[u].status # "None"
      BY <1>2, <2>2, <3>1, <3>2, <3>3, <3>5, <3>6
    <3> QED
      BY <3>2, <3>7 DEF Delivered
  <2> QED
    BY <2>3, <2>4
<1> QED
  BY <1>4, <1>5

LEMMA HandlePacketStep ==
  ASSUME MessengerInv, NEW u \in User, handle_packet(u)
  PROVE  MessengerInv'
<1>1. PICK v : Pair(u, v)
  BY PairOf
<1>2. /\ FriendsTyped /\ Streams(u, v) /\ Streams(v, u)
      /\ ~ lost => Receipts(u, v) /\ Receipts(v, u)
      /\ ~ lost /\ connected[u] /\ connected[v] => Agrees(u, v) /\ Agrees(v, u)
  BY <1>1, InvOfPair
<1>3. v \in User /\ u # v /\ connected[u]
  BY <1>1 DEF Pair, handle_packet
<1>4. PICK s \in Seq(Packets) : s = packets[u] /\ s # <<>>
  BY <1>2 DEF FriendsTyped, handle_packet
<1>5. /\ Tail(s) \in Seq(Packets) /\ Len(s) \in Nat \ {0} /\ Len(Tail(s)) = Len(s) - 1
      /\ Head(s) = s[1] /\ Head(s) \in Packets
  BY <1>4, TailIs
<1>6. PICK m \in Packets : m = Head(s)
  BY <1>5
<1>7. PICK g : g = friend[u]
  OBVIOUS
<1>8. PICK f : f = Handled(g, m)
  OBVIOUS
<1>9. /\ f \in Entries
      /\ (f.status = "None") <=> (g.status = "None")
      /\ g.status # "None" => ((f.status = "Online") <=> Turned(g.status = "Online", m))
      /\ f.known = IF g.status = "Online" /\ m.type = "nick" THEN m.value ELSE g.known
      /\ f.status # "Online" => f.receipts = <<>>
      /\ f.receipts = <<>> \/ f.receipts = g.receipts
      /\ f.status = "Online" /\ f.name_sent => g.status = "Online" /\ g.name_sent /\ m.type # "offline"
  <2>1. g.status # "Online" => g.receipts = <<>>
    BY <1>2, <1>7 DEF Streams, IsOn
  <2> QED
    BY <1>2, <1>6, <1>7, <1>8, <2>1, HandledIs
<1>10. friend' = [friend EXCEPT ![u] = f]
  BY <1>4, <1>6, <1>7, <1>8 DEF handle_packet
<1>11. friend'[u] = f /\ friend'[v] = friend[v] /\ friend' \in [User -> Entries]
  BY <1>2, <1>3, <1>9, <1>10 DEF FriendsTyped
<1>12. PICK p \in Packets : p = ONLINE /\ p.type = "online"
  BY PacketTypes, ZeroEvents DEF Types, ONLINE
<1>13. PICK ps \in {<<>>, <<p>>} :
         /\ Announce(u, 1, ps)
         /\ ps = IF g.status \in {"Added", "Requested", "Confirmed"} /\ m.type = "online" THEN <<p>> ELSE <<>>
  BY <1>4, <1>6, <1>7, <1>12 DEF handle_packet, Answer
<1>14. /\ packets' \in [User -> Seq(Packets)] /\ sent' \in [User -> Nat] /\ got' \in [User -> Nat]
       /\ packets'[u] = IF 1 = 0 THEN packets[u] ELSE Tail(packets[u])
       /\ got'[u] = got[u] + 1 /\ got'[v] = got[v] /\ sent'[v] = sent[v]
       /\ Wrote(u, v, p) \/ WroteNothing(u, v)
       /\ lost' \in BOOLEAN /\ (~ lost' => ~ lost)
       /\ ps = <<>> => WroteNothing(u, v)
       /\ ~ lost' /\ ps = <<p>> => Wrote(u, v, p)
  <2>1. 1 \in {0, 1} /\ (1 = 1 => packets[u] # <<>>)
    BY <1>4
  <2> QED
    BY <1>1, <1>2, <1>12, <1>13, <2>1, AnnounceIs, Zenon
<1>15. /\ UNCHANGED <<name, connected, events, receipted, removed>>
       /\ shown \subseteq shown'
  BY DEF handle_packet
<1>16. packets'[u] = Tail(s) /\ packets[v] \in Seq(Packets) /\ sent[u] \in Nat
  BY <1>2, <1>3, <1>4, <1>14 DEF FriendsTyped
<1>17. FriendsTyped'
  BY <1>2, <1>11, <1>14, <1>15 DEF FriendsTyped
<1>18. IsOn(u) \in BOOLEAN /\ IsOn(v) \in BOOLEAN /\ IsOn(v)' = IsOn(v)
  BY <1>11 DEF IsOn
<1>19. g.status # "None" => IsOn(u)' = Turned(IsOn(u), m)
  BY <1>7, <1>9, <1>11 DEF IsOn, Turned
<1>20. g.status = "None" => IsOn(u)' = FALSE /\ IsOn(u) = FALSE
  BY <1>7, <1>9, <1>11 DEF IsOn
<1>21. /\ Len(packets'[u]) <= MaxQueued /\ Len(packets'[v]) <= MaxQueued
       /\ got'[u] <= sent'[v] /\ got'[v] <= sent'[u]
       /\ connected[u] => got'[u] + Len(packets'[u]) = sent'[v]
       /\ connected[v] => got'[v] + Len(packets'[v]) = sent'[u]
       /\ sent'[u] >= sent[u]
  <2>1. 1 \in {0, 1} /\ (1 = 1 => packets[u] # <<>> /\ connected[u])
    BY <1>3, <1>4
  <2> QED
    BY <1>1, <1>2, <1>12, <1>14, <2>1, CountsKept, Zenon
<1>22. No("offline", packets[u]) <=> No("offline", packets'[u]) /\ m.type # "offline"
  BY <1>4, <1>6, <1>16, NoTail
<1>23. No("offline", packets'[v]) <=> No("offline", packets[v])
  <2>1. No("offline", Append(packets[v], p)) <=> No("offline", packets[v]) /\ p.type # "offline"
    BY <1>12, <1>16, NoAppend
  <2> QED
    BY <1>12, <1>14, <2>1 DEF Wrote, WroteNothing
<1>24. PICK rs : rs = f.receipts
  OBVIOUS
<1>25. rs \in Seq(RecordsOfReceipts) /\ \A i \in 1 .. Len(rs) : rs[i] \in RecordsOfReceipts /\ rs[i].number \in Nat
  <2>1. rs \in Seq(RecordsOfReceipts)
    BY <1>9, <1>24 DEF Entries, RecordsOfReceipts
  <2>2. \A i \in 1 .. Len(rs) : rs[i] \in RecordsOfReceipts
    BY <2>1
  <2> QED
    BY <2>1, <2>2 DEF RecordsOfReceipts
<1>26. \A i \in 1 .. Len(rs) : rs = friend[u].receipts
  <2>1. rs = <<>> => \A i \in 1 .. Len(rs) : FALSE
    OBVIOUS
  <2> QED
    BY <1>7, <1>9, <1>24, <2>1
<1>27. Streams(u, v)'
  <2>1. \A i \in 1 .. Len(rs) : rs[i].number < sent'[u]
    <3> TAKE i \in 1 .. Len(rs)
    <3>1. rs[i].number < sent[u] /\ rs[i].number \in Nat /\ sent'[u] \in Nat
      BY <1>2, <1>3, <1>14, <1>25, <1>26 DEF Streams
    <3> QED
      BY <1>16, <1>21, <3>1
  <2>2. ~ IsOn(u)' => rs = <<>>
    BY <1>9, <1>11, <1>24 DEF IsOn
  <2> QED
    BY <1>2, <1>3, <1>11, <1>15, <1>21, <1>22, <1>24, <2>1, <2>2 DEF Streams
<1>28. Streams(v, u)'
  BY <1>2, <1>11, <1>14, <1>15, <1>18, <1>21, <1>23 DEF Streams
<1>29. ~ lost' => Receipts(u, v)'
  <2> SUFFICES ASSUME ~ lost' PROVE Receipts(u, v)'
    OBVIOUS
  <2>1. ASSUME v \notin removed, NEW i \in 1 .. Len(rs) PROVE Delivered(rs[i], v)'
    <3>1. rs = friend[u].receipts
      BY <1>26, <2>1
    <3>2. \A j \in 1 .. Len(rs) : Delivered(rs[j], v)'
      BY <1>1, <1>11, <1>12, <1>14, <1>15, <2>1, <3>1, OldReceipts
    <3> QED
      BY <3>2
  <2> QED
    BY <1>2, <1>11, <1>14, <1>15, <1>24, <2>1 DEF Receipts
<1>30. ~ lost' => Receipts(v, u)'
  <2> SUFFICES ASSUME ~ lost' PROVE Receipts(v, u)'
    OBVIOUS
  <2>1. PICK vs \in Seq(RecordsOfReceipts) : vs = friend[v].receipts /\ vs = friend'[v].receipts
    BY <1>2, <1>3, <1>11, EntryTypes
  <2>2. ASSUME u \notin removed, NEW i \in 1 .. Len(vs) PROVE Delivered(vs[i], u)'
    <3>1. vs[i] \in RecordsOfReceipts
      OBVIOUS
    <3>2. Delivered(vs[i], u)
      BY <1>2, <1>14, <2>1, <2>2 DEF Receipts
    <3>3. friend'[u].status # "None" <=> friend[u].status # "None"
      BY <1>7, <1>9, <1>11
    <3>4. friend[u].status # "None" => IsOn(u)' = Turned(IsOn(u), Head(s))
      BY <1>6, <1>7, <1>19
    <3> QED
      BY <1>1, <1>2, <1>4, <1>14, <1>16, <3>1, <3>2, <3>3, <3>4, DeliveredHandled
  <2> QED
    BY <1>2, <1>14, <1>15, <2>1, <2>2 DEF Receipts
<1>31. OnAfter(Turned(IsOn(u), m), Tail(s), Len(Tail(s))) <=> EndsOn(u)
  <2>1. Len(s) \in 1 .. Len(s)
    BY <1>5
  <2>2. OnAfter(IsOn(u), s, Len(s)) <=> OnAfter(Turned(IsOn(u), Head(s)), Tail(s), Len(s) - 1)
    BY <1>4, <1>18, <2>1, OnTail
  <2> QED
    BY <1>4, <1>5, <1>6, <2>2 DEF EndsOn
<1>32. g.status # "None" => (EndsOn(u)' <=> EndsOn(u))
  BY <1>16, <1>19, <1>31 DEF EndsOn
<1>33. EndsOn(u)' => EndsOn(u)
  <2>1. CASE g.status = "None"
    <3>1. EndsOn(u)' => OnAfter(FALSE, Tail(s), Len(Tail(s)))
      BY <1>16, <1>20, <2>1 DEF EndsOn
    <3>2. OnAfter(FALSE, Tail(s), Len(Tail(s))) => OnAfter(Turned(IsOn(u), m), Tail(s), Len(Tail(s)))
      BY OnMonotone
    <3> QED
      BY <1>31, <3>1, <3>2
  <2> QED
    BY <1>32, <2>1
<1>34. EndsOn(v) => EndsOn(v)'
  <2>1. CASE packets'[v] = packets[v]
    BY <1>18, <2>1 DEF EndsOn
  <2>2. CASE packets'[v] = Append(packets[v], p)
    <3>1. Len(packets'[v]) = Len(packets[v]) + 1
      BY <1>12, <1>16, <2>2, AppendIs
    <3>2. OnAfter(IsOn(v), Append(packets[v], p), Len(packets[v]) + 1)
            <=> Turned(OnAfter(IsOn(v), packets[v], Len(packets[v])), p)
      BY <1>12, <1>16, <1>18, OnLast
    <3> QED
      BY <1>12, <1>18, <2>2, <3>1, <3>2 DEF EndsOn, Turned
  <2> QED
    BY <1>14, <2>1, <2>2 DEF Wrote, WroteNothing
<1>35. Answers(IsOn(v), packets[v]) => Answers(IsOn(v), packets'[v])
  BY <1>12, <1>14, <1>16, <1>18, AnswersAppend DEF Wrote, WroteNothing
<1>36. ASSUME ~ lost', connected'[u], connected'[v] PROVE Agrees(u, v)' /\ Agrees(v, u)'
  <2>1. ~ lost /\ connected[u] /\ connected[v] /\ Agrees(u, v) /\ Agrees(v, u)
    BY <1>2, <1>14, <1>15, <1>36
  <2>2. ASSUME IsOn(u)', f.name_sent, No("offline", packets'[u])
        PROVE  Learns(IsOn(v), friend[v].known, packets'[v], name[u])
    <3>1. IsOn(u) /\ g.name_sent /\ No("offline", packets[u])
      BY <1>7, <1>9, <1>11, <1>22, <2>2 DEF IsOn
    <3>2. ps = <<>>
      BY <1>7, <1>13, <3>1 DEF IsOn
    <3>3. packets'[v] = packets[v]
      BY <1>14, <3>2 DEF WroteNothing
    <3> QED
      BY <1>7, <2>1, <3>1, <3>3 DEF Agrees
  <2>3. Agrees(u, v)'
    BY <1>7, <1>9, <1>11, <1>15, <1>18, <1>32, <1>33, <1>35, <2>1, <2>2 DEF Agrees
  <2>4. ASSUME f.status = "None" PROVE ~ EndsOn(v)'
    <3>1. ps = <<>> /\ g.status = "None"
      BY <1>9, <1>13, <2>4
    <3>2. packets'[v] = packets[v]
      BY <1>14, <3>1 DEF WroteNothing
    <3>3. ~ EndsOn(v)
      BY <1>7, <2>1, <3>1 DEF Agrees
    <3> QED
      BY <1>18, <3>2, <3>3 DEF EndsOn
  <2>5. ASSUME f.status # "None", friend[v].status # "None"
        PROVE  EndsOn(v)' \/ Answers(IsOn(u)', packets'[u])
    <3>1. g.status # "None" /\ (EndsOn(v) \/ Answers(IsOn(u), s))
      BY <1>4, <1>7, <1>9, <2>1, <2>5 DEF Agrees
    <3>2. CASE EndsOn(v)
      BY <1>34, <3>2
    <3>3. CASE Answers(IsOn(u), s)
      <4>1. (~ IsOn(u) /\ m.type = "online") \/ Answers(Turned(IsOn(u), m), Tail(s))
        BY <1>4, <1>6, <1>18, <3>3, AnswersTail
      <4>2. CASE Answers(Turned(IsOn(u), m), Tail(s))
        BY <1>16, <1>19, <3>1, <4>2
      <4>3. CASE ~ IsOn(u) /\ m.type = "online"
        <5>1. g.status \in {"Added", "Requested", "Confirmed"}
          BY <1>2, <1>7, <3>1, <4>3, EntryTypes DEF IsOn
        <5>2. packets'[v] = Append(packets[v], p)
          BY <1>13, <1>14, <1>36, <2>1, <4>3, <5>1 DEF Wrote
        <5>3. Len(packets'[v]) = Len(packets[v]) + 1
          BY <1>12, <1>16, <5>2, AppendIs
        <5>4. OnAfter(IsOn(v), Append(packets[v], p), Len(packets[v]) + 1)
                <=> Turned(OnAfter(IsOn(v), packets[v], Len(packets[v])), p)
          BY <1>12, <1>16, <1>18, OnLast
        <5> QED
          BY <1>12, <1>18, <5>2, <5>3, <5>4 DEF EndsOn, Turned
      <4> QED
        BY <4>1, <4>2, <4>3
    <3> QED
      BY <3>1, <3>2, <3>3
  <2>6. ASSUME IsOn(v), friend[v].name_sent, No("offline", packets'[v])
        PROVE  Learns(IsOn(u)', f.known, packets'[u], name[v])
    <3>1. No("offline", packets[v])
      BY <1>23, <2>6
    <3>2. Learns(IsOn(u), g.known, s, name[v])
      BY <1>4, <1>7, <2>1, <2>6, <3>1 DEF Agrees
    <3>3. Pair(v, u)
      BY <1>1 DEF Pair
    <3>4. g.status # "None"
      BY <1>7, <2>1, <2>6, <3>1, <3>3, FriendEndsOn
    <3>5. Learns(Turned(IsOn(u), Head(s)),
                 IF IsOn(u) /\ Head(s).type = "nick" THEN Head(s).value ELSE g.known, Tail(s), name[v])
      BY <1>4, <1>18, <3>2, LearnsTail
    <3>6. f.known = IF IsOn(u) /\ m.type = "nick" THEN m.value ELSE g.known
      BY <1>7, <1>9 DEF IsOn
    <3> QED
      BY <1>6, <1>16, <1>19, <3>4, <3>5, <3>6
  <2>7. Agrees(v, u)'
    BY <1>11, <1>15, <1>18, <2>4, <2>5, <2>6 DEF Agrees
  <2> QED
    BY <2>3, <2>7
<1> QED
  BY <1>1, <1>17, <1>27, <1>28, <1>29, <1>30, <1>36, InvOfPairPrimed

-----------------------------------------------------------------------------
(* The connection comes up and goes down.                                  *)

LEMMA ConnectStep ==
  ASSUME MessengerInv, Connect
  PROVE  MessengerInv'
<1>1. PICK u \in User, v \in User : Pair(u, v) /\ Pair(v, u)
  BY UserAssumption, PairOf DEF Pair
<1>2. FriendsTyped /\ Streams(u, v) /\ Streams(v, u) /\ (~ lost => Receipts(u, v) /\ Receipts(v, u))
  BY <1>1, InvOfPair
<1>3. UNCHANGED <<friend, name, shown, receipted, removed, lost>> /\ events' \in 0 .. MaxEvents
  BY <1>2, EventType DEF Connect
<1>4. /\ connected' = [w \in User |-> TRUE]
      /\ packets' = [w \in User |-> IF friend[OtherUser(w)].status # "None" THEN <<ONLINE>> ELSE <<>>]
      /\ sent' = [w \in User |-> IF friend[w].status # "None" THEN 1 ELSE 0]
      /\ got' = [w \in User |-> 0]
      /\ \A w \in User : ~ connected[w]
  BY DEF Connect
<1>5. ONLINE \in Packets /\ ONLINE.type = "online"
  BY PacketTypes, ZeroEvents DEF Types, ONLINE
<1>6. <<ONLINE>> \in Seq(Packets) /\ <<>> \in Seq(Packets)
  BY <1>5
<1>7. FriendsTyped'
  BY <1>2, <1>3, <1>4, <1>6 DEF FriendsTyped
<1>8. ASSUME NEW a \in User, NEW b \in User, Pair(a, b), Streams(a, b), ~ lost => Receipts(a, b)
      PROVE  Streams(a, b)' /\ (~ lost' => Receipts(a, b)') /\ Agrees(a, b)'
  <2>1. ~ IsOn(a) /\ ~ IsOn(a)' /\ friend[a].receipts = <<>> /\ friend'[a].receipts = <<>>
    BY <1>3, <1>4, <1>8 DEF Streams, IsOn
  <2>2. /\ packets'[a] = IF friend[b].status # "None" THEN <<ONLINE>> ELSE <<>>
        /\ sent'[b] = IF friend[b].status # "None" THEN 1 ELSE 0
        /\ got'[a] = 0 /\ connected'[a]
    BY <1>4, <1>8 DEF Pair
  <2>3. Len(<<ONLINE>>) = 1 /\ Len(<<>>) = 0 /\ MaxQueued \in Nat /\ MaxQueued >= 1
        /\ <<ONLINE>>[1] = ONLINE /\ \A i \in 1 .. 0 : FALSE
    BY MessengerAssumption
  <2>4. No("offline", packets'[a])
    <3>1. \A i \in 1 .. 1 : i = 1
      OBVIOUS
    <3> QED
      BY <1>5, <2>2, <2>3, <3>1 DEF No
  <2>5. Len(packets'[a]) = sent'[b] /\ sent'[b] \in Nat /\ sent'[b] <= 1
    BY <2>2, <2>3
  <2>6. Streams(a, b)'
    BY <2>1, <2>2, <2>3, <2>4, <2>5 DEF Streams
  <2>7. ~ lost' => Receipts(a, b)'
    BY <1>3, <1>8, <2>1, <2>3 DEF Receipts
  <2>8. IsOn(a)' = FALSE
    BY <2>1
  <2>9. friend[b].status = "None" => ~ EndsOn(a)'
    BY <2>2, <2>3, <2>8 DEF EndsOn, OnAfter
  <2>10. friend[b].status # "None" => EndsOn(a)'
    <3>1. OnAfter(FALSE, <<ONLINE>>, 1)
      <4>1. 1 \in 1 .. 1 /\ \A j \in 1 + 1 .. 1 : FALSE
        OBVIOUS
      <4> QED
        BY <1>5, <2>3, <4>1 DEF OnAfter
    <3> QED
      BY <2>2, <2>3, <2>8, <3>1 DEF EndsOn
  <2>11. Agrees(a, b)'
    BY <1>3, <2>1, <2>9, <2>10 DEF Agrees
  <2> QED
    BY <2>6, <2>7, <2>11
<1> QED
  BY <1>1, <1>2, <1>7, <1>8, InvOfPairPrimed

LEMMA DisconnectStep ==
  ASSUME MessengerInv, NEW u \in User, Disconnect(u)
  PROVE  MessengerInv'
<1>1. PICK v : Pair(u, v)
  BY PairOf
<1>2. /\ FriendsTyped /\ Streams(u, v) /\ Streams(v, u)
      /\ ~ lost => Receipts(u, v) /\ Receipts(v, u)
  BY <1>1, InvOfPair
<1>3. v \in User /\ u # v
  BY <1>1 DEF Pair
<1>4. PICK g : g = friend[u]
  OBVIOUS
<1>5. PICK f : f = IF g.status = "Online" THEN SetStatus(g, "Confirmed") ELSE g
  OBVIOUS
<1>6. /\ f \in Entries /\ f.status # "Online" /\ f.receipts = <<>>
  <2>1. CASE g.status = "Online"
    <3>1. f = [[g EXCEPT !.status = "Confirmed"] EXCEPT !.receipts = <<>>]
      BY <1>5, <2>1 DEF SetStatus
    <3>2. f = [status |-> "Confirmed", name_sent |-> g.name_sent, known |-> g.known, receipts |-> <<>>]
      <4>1. [g EXCEPT !.status = "Confirmed"] =
              [status |-> "Confirmed", name_sent |-> g.name_sent, known |-> g.known, receipts |-> g.receipts]
        BY <1>2, <1>4, EntryChanged, ZenonT(60)
      <4> QED
        BY <3>1, <4>1
    <3>3. <<>> \in Seq(RecordsOfReceipts)
      OBVIOUS
    <3>4. f \in Entries
      BY <1>2, <1>4, <3>2, <3>3, EntryTypes, EntryOf
    <3> QED
      BY <3>2, <3>4
  <2>2. CASE g.status # "Online"
    BY <1>2, <1>4, <1>5, <2>2, EntryTypes DEF Streams, IsOn
  <2> QED
    BY <2>1, <2>2
<1>7. friend' = [friend EXCEPT ![u] = f]
  <2>1. CASE g.status = "Online"
    BY <1>4, <1>5, <2>1 DEF Disconnect
  <2>2. CASE g.status # "Online"
    <3>1. friend' = friend /\ f = friend[u]
      BY <1>4, <1>5, <2>2 DEF Disconnect
    <3> QED
      BY <1>2, <3>1 DEF FriendsTyped
  <2> QED
    BY <2>1, <2>2
<1>8. friend'[u] = f /\ friend'[v] = friend[v] /\ friend' \in [User -> Entries]
  BY <1>2, <1>3, <1>6, <1>7 DEF FriendsTyped
<1>9. UNCHANGED <<name, sent, got, events, shown, receipted, removed, lost>>
  BY DEF Disconnect
<1>10. /\ connected' \in [User -> BOOLEAN] /\ ~ connected'[u] /\ connected'[v] = connected[v]
       /\ packets' \in [User -> Seq(Packets)] /\ packets'[u] = <<>> /\ packets'[v] = packets[v]
  <2>1. connected' = [connected EXCEPT ![u] = FALSE] /\ packets' = [packets EXCEPT ![u] = <<>>]
    BY DEF Disconnect
  <2>2. connected \in [User -> BOOLEAN] /\ packets \in [User -> Seq(Packets)] /\ <<>> \in Seq(Packets)
    BY <1>2 DEF FriendsTyped
  <2>3. connected' \in [User -> BOOLEAN] /\ ~ connected'[u] /\ connected'[v] = connected[v]
    BY <1>3, <2>1, <2>2
  <2>4. packets' \in [User -> Seq(Packets)] /\ packets'[u] = <<>> /\ packets'[v] = packets[v]
    BY <1>3, <2>1, <2>2
  <2> QED
    BY <2>3, <2>4
<1>11. FriendsTyped'
  BY <1>2, <1>8, <1>9, <1>10 DEF FriendsTyped
<1>12. ~ IsOn(u)' /\ IsOn(v)' = IsOn(v)
  BY <1>6, <1>8 DEF IsOn
<1>13. Len(<<>>) = 0 /\ MaxQueued \in Nat /\ \A i \in 1 .. 0 : FALSE
  BY MessengerAssumption
<1>14. Streams(u, v)'
  BY <1>2, <1>6, <1>8, <1>9, <1>10, <1>12, <1>13 DEF Streams, No
<1>15. Streams(v, u)'
  BY <1>2, <1>8, <1>9, <1>10, <1>12 DEF Streams
<1>16. ~ lost' => Receipts(u, v)'
  BY <1>2, <1>6, <1>8, <1>9, <1>13 DEF Receipts
<1>17. ~ lost' => Receipts(v, u)'
  <2>1. ASSUME NEW r, Delivered(r, u) PROVE Delivered(r, u)'
    BY <1>9, <1>10, <2>1 DEF Delivered
  <2> QED
    BY <1>2, <1>8, <1>9, <2>1 DEF Receipts
<1> QED
  BY <1>1, <1>10, <1>11, <1>14, <1>15, <1>16, <1>17, InvOfPairPrimed

-----------------------------------------------------------------------------
(* The theorem.                                                            *)

LEMMA MessengerInvInit == MessengerInit => MessengerInv
<1> SUFFICES ASSUME MessengerInit PROVE MessengerInv
  OBVIOUS
<1>1. NoFriend \in Entries /\ NoFriend.status = "None" /\ NoFriend.receipts = <<>>
  <2>1. <<>> \in Seq(RecordsOfReceipts) /\ -1 \in -1 .. MaxEvents
    BY MessengerAssumption
  <2> QED
    BY <2>1, EntryOf DEF NoFriend
<1>2. FriendsTyped
  <2>1. /\ friend \in [User -> Entries] /\ name \in [User -> 0 .. MaxEvents]
        /\ sent \in [User -> Nat] /\ got \in [User -> Nat] /\ events \in 0 .. MaxEvents
    BY <1>1, ZeroEvents DEF MessengerInit
  <2>2. packets \in [User -> Seq(Packets)]
    BY DEF MessengerInit
  <2>3. connected \in [User -> BOOLEAN] /\ lost \in BOOLEAN
    BY DEF MessengerInit
  <2> QED
    BY <2>1, <2>2, <2>3 DEF FriendsTyped
<1>3. Len(<<>>) = 0 /\ MaxQueued \in Nat /\ \A i \in 1 .. 0 : FALSE
  BY MessengerAssumption
<1>4. ASSUME NEW u \in User PROVE Streams(u, OtherUser(u)) /\ Receipts(u, OtherUser(u))
  <2>1. OtherUser(u) \in User
    BY TwoUsers
  <2>2. /\ friend[u] = NoFriend /\ ~ connected[u] /\ packets[u] = <<>> /\ got[u] = 0
        /\ sent[OtherUser(u)] = 0 /\ receipted = {}
    BY <2>1 DEF MessengerInit
  <2>3. ~ IsOn(u)
    BY <1>1, <2>2 DEF IsOn
  <2>4. Streams(u, OtherUser(u))
    BY <1>1, <1>3, <2>2, <2>3 DEF Streams, No
  <2>5. Receipts(u, OtherUser(u))
    BY <1>1, <1>3, <2>2 DEF Receipts
  <2> QED
    BY <2>4, <2>5
<1>5. ~ \A u \in User : connected[u]
  BY UserAssumption DEF MessengerInit
<1> QED
  BY <1>2, <1>4, <1>5 DEF MessengerInv

LEMMA MessengerInvKept ==
  ASSUME MessengerInv, [MessengerNext]_messengerVars
  PROVE  MessengerInv'
<1>1. CASE UNCHANGED messengerVars
  BY <1>1 DEF messengerVars, MessengerInv, FriendsTyped, Streams, Receipts, Agrees, Delivered, EndsOn, IsOn
<1>2. ASSUME NEW u \in User, m_addfriend(u) \/ m_addfriend_norequest(u) PROVE MessengerInv'
  BY <1>2, AddFriendStep DEF m_addfriend, m_addfriend_norequest
<1>3. ASSUME NEW u \in User, NEW kept \in BOOLEAN, m_delfriend(u, kept) PROVE MessengerInv'
  BY <1>3, DeleteFriendStep
<1>4. ASSUME NEW u \in User, setname(u) PROVE MessengerInv'
  BY <1>4, SetnameStep
<1>5. ASSUME NEW u \in User, m_send_message_generic(u) PROVE MessengerInv'
  BY <1>5, SendMessageStep
<1>6. ASSUME NEW u \in User, Disconnect(u) PROVE MessengerInv'
  BY <1>6, DisconnectStep
<1>7. ASSUME NEW u \in User, handle_packet(u) PROVE MessengerInv'
  BY <1>7, HandlePacketStep
<1>8. ASSUME NEW u \in User, do_friends(u) PROVE MessengerInv'
  BY <1>8, SendRequestStep, TimedOutStep, ServeOnlineStep DEF do_friends
<1>9. CASE Connect
  BY <1>9, ConnectStep
<1> QED
  BY <1>1, <1>2, <1>3, <1>4, <1>5, <1>6, <1>7, <1>8, <1>9 DEF MessengerNext

\* When nothing is on its way, what will be seen is what is seen.
LEMMA MessengerInvSuffices == MessengerInv => FriendsAgree
<1> SUFFICES ASSUME MessengerInv PROVE FriendsAgree
  OBVIOUS
<1>1. FriendsTyped /\ \A u \in User : Streams(u, OtherUser(u))
  BY DEF MessengerInv
<1>2. MessengerTypeOK
  <2>1. ASSUME NEW u \in User
        PROVE  /\ friend[u].status \in {"None", "Added", "Requested", "Confirmed", "Online"}
               /\ friend[u].name_sent \in BOOLEAN /\ friend[u].known \in -1 .. MaxEvents
    BY <1>1, EntryTypes
  <2> QED
    BY <1>1, <2>1 DEF MessengerTypeOK, FriendsTyped, Streams
<1>3. ASSUME Quiet, ~ lost, NEW u \in User
      PROVE  /\ Agrees(u, OtherUser(u)) /\ OtherUser(u) \in User /\ Agrees(OtherUser(u), u)
             /\ packets[u] = <<>> /\ packets[OtherUser(u)] = <<>>
             /\ EndsOn(u) <=> IsOn(u)
             /\ EndsOn(OtherUser(u)) <=> IsOn(OtherUser(u))
             /\ \A on, known, n : ~ Answers(on, <<>>) /\ No("offline", <<>>)
                                  /\ (Learns(on, known, <<>>, n) => known = n)
  <2>1. OtherUser(u) \in User /\ OtherUser(OtherUser(u)) = u
    BY TwoUsers
  <2>2. Agrees(u, OtherUser(u)) /\ Agrees(OtherUser(u), u)
    <3>1. \A w \in User : Agrees(w, OtherUser(w))
      BY <1>3 DEF MessengerInv, Quiet
    <3>2. Agrees(OtherUser(u), OtherUser(OtherUser(u)))
      BY <2>1, <3>1
    <3> QED
      BY <2>1, <3>1, <3>2
  <2>3. packets[u] = <<>> /\ packets[OtherUser(u)] = <<>>
    BY <1>3, <2>1 DEF Quiet
  <2>4. Len(<<>>) = 0 /\ \A i \in 1 .. 0 : FALSE
    OBVIOUS
  <2> QED
    BY <2>1, <2>2, <2>3, <2>4 DEF EndsOn, OnAfter, Answers, No, Learns
<1>4. OnlineIsMutual
  BY <1>3 DEF OnlineIsMutual, Agrees, IsOn
<1>5. NamesAgree
  BY <1>3 DEF NamesAgree, Agrees, IsOn
<1>6. ReadReceiptsAreTruthful
  <2> SUFFICES ASSUME ~ lost, NEW r \in receipted
               PROVE  r.message \in shown \/ OtherUser(r.from) \in removed
    BY DEF ReadReceiptsAreTruthful
  <2>1. PICK u \in User : TRUE
    BY UserAssumption
  <2>2. OtherUser(u) \in User /\ \A w \in User : Receipts(w, OtherUser(w))
    BY <2>1, TwoUsers DEF MessengerInv
  <2>3. r.from \in User
    BY <2>1, <2>2 DEF Receipts
  <2> QED
    BY <2>2, <2>3 DEF Receipts
<1> QED
  BY <1>2, <1>4, <1>5, <1>6 DEF FriendsAgree

\* Two friends agree on who is online, on their names and on what was read,
\* in every state in which nothing is on its way and no ONLINE or OFFLINE was
\* refused by a full queue: however friends are added and deleted, names set,
\* messages sent and connections made and lost (set_friend_status,
\* handle_packet, init_new_friend, m_delfriend, do_friends, do_receipts).
THEOREM FriendsStayTrue == MessengerSpec => []FriendsAgree
<1>1. MessengerInit => MessengerInv
  BY MessengerInvInit
<1>2. MessengerInv /\ [MessengerNext]_messengerVars => MessengerInv'
  BY MessengerInvKept
<1>3. MessengerInv => FriendsAgree
  BY MessengerInvSuffices
<1> QED
  BY <1>1, <1>2, <1>3, PTL DEF MessengerSpec

-----------------------------------------------------------------------------
(* What is on its way about one number.  n is the number, s and r are the  *)
(* transfers with that number of the sender and of the receiver, wr and ws *)
(* the packets on their way to the receiver and to the sender, up tells    *)
(* whether the receiver has a connection, and done are the files the       *)
(* receiver's application knows to be complete or has killed.              *)

Is(m, n, types) == m.number = n /\ m.type \in types

\* A packet about a transfer.
FileTypes == ControlTypes \cup {"offer", "data"}

Used(t) == t.status # "None"

\* The sender knows that its transfer is accepted.
Going(s) == s.status \in {"Transferring", "Finished"}

\* Both ends have the same file.
Same(s, r) == Used(s) /\ Used(r) /\ s.file = r.file

\* An offer comes after all that is about earlier files and before the data of
\* later ones; after a kill there is no data.
Ordered(n, wr) ==
  \A i, j \in 1 .. Len(wr) : i < j =>
    /\ Is(wr[i], n, FileTypes) /\ Is(wr[j], n, {"offer"}) => wr[i].file < wr[j].file
    /\ Is(wr[j], n, {"data"}) => ~ Is(wr[i], n, {"offer"})
    /\ Is(wr[i], n, {"kill"}) /\ Is(wr[j], n, {"data"}) => wr[i].file # wr[j].file

\* The receiver's file is not newer than the sender's; an offer on its way is
\* newer than the one and not newer than the other; a killed file is gone.
Newer(n, s, r, wr) ==
  /\ Used(s) /\ Used(r) => r.file <= s.file
  /\ \A i \in 1 .. Len(wr) :
       /\ Is(wr[i], n, {"offer"}) =>
            /\ Used(s) => wr[i].file <= s.file
            /\ Used(r) => r.file < wr[i].file
            /\ Used(s) /\ s.file = wr[i].file =>
                 s.status = "NotAccepted" /\ s.size = wr[i].size /\ s.transferred = 0
       /\ Is(wr[i], n, {"kill"}) /\ Used(s) => wr[i].file # s.file

\* The offer of file g, and of all before it, is no longer on its way.
Got(n, r, wr, g) ==
  /\ Used(r) => g <= r.file
  /\ \A i \in 1 .. Len(wr) : Is(wr[i], n, {"offer"}) => g < wr[i].file

GotFirst(n, s, r, wr, ws) ==
  /\ \A i \in 1 .. Len(wr) :
       Is(wr[i], n, {"data", "pause", "accept"}) => Got(n, r, wr, wr[i].file)
  /\ \A i \in 1 .. Len(ws) :
       Is(ws[i], n, {"accept", "pause", "seek"}) => Got(n, r, wr, ws[i].file)
  /\ Going(s) => Got(n, r, wr, s.file)

\* The receiver, if it still has file g, has accepted it.
Started(r, g) == Used(r) /\ r.file = g => r.status = "Transferring"

\* It still has it unless it is done with it or has lost its connection.
Kept(r, g, up, done) == up => (Used(r) /\ r.file = g) \/ g \in done

Accepted(n, s, r, wr, ws, up, done) ==
  /\ \A i \in 1 .. Len(wr) :
       /\ Is(wr[i], n, {"data", "pause", "accept"}) => Started(r, wr[i].file)
       /\ Is(wr[i], n, {"data"}) => Kept(r, wr[i].file, up, done)
  /\ \A i \in 1 .. Len(ws) : Is(ws[i], n, {"accept"}) =>
       /\ Started(r, ws[i].file)
       /\ Used(s) /\ s.file = ws[i].file => Kept(r, s.file, up, done)
  /\ Going(s) => Started(r, s.file) /\ Kept(r, s.file, up, done)

\* Data on its way is of the file the receiver has, and within it.
OfFile(n, s, r, wr) ==
  /\ Same(s, r) => s.size = r.size
  /\ \A i \in 1 .. Len(wr) : Is(wr[i], n, {"data"}) =>
       /\ Used(r) =>
            /\ wr[i].file = r.file
            /\ wr[i].position + wr[i].size <= r.size
            /\ wr[i].size <= Chunk
            /\ wr[i].last <=> wr[i].size # Chunk \/ wr[i].position + wr[i].size = r.size
       /\ Used(s) /\ s.file = wr[i].file => Going(s)

\* No data of number n between the places a and b of the wire w.
NoData(w, n, a, b) == \A k \in 1 .. Len(w) : a < k /\ k < b => ~ Is(w[k], n, {"data"})

\* The chunks follow one another, from what the receiver has to what the
\* sender has sent.
Chained(n, s, r, wr) ==
  Used(r) =>
    /\ \A i \in 1 .. Len(wr) : Is(wr[i], n, {"data"}) =>
         /\ NoData(wr, n, 0, i) => wr[i].position = r.transferred
         /\ NoData(wr, n, i, Len(wr) + 1) /\ Used(s) /\ s.file = r.file =>
              s.transferred = wr[i].position + wr[i].size
         /\ \A j \in 1 .. Len(wr) : i < j /\ Is(wr[j], n, {"data"}) /\ NoData(wr, n, i, j) =>
              wr[j].position = wr[i].position + wr[i].size
    /\ Going(s) /\ s.file = r.file /\ NoData(wr, n, 0, Len(wr) + 1) =>
         s.transferred = r.transferred

\* Packet i is the last one on wire w of these types about the file g of n.
IsNewest(w, i, n, g, types) ==
  /\ Is(w[i], n, types) /\ w[i].file = g
  /\ \A k \in 1 .. Len(w) : i < k => ~ (Is(w[k], n, types) /\ w[k].file = g)

NoneOf(w, n, g, types) == \A k \in 1 .. Len(w) : ~ (Is(w[k], n, types) /\ w[k].file = g)

\* Until the sender knows that it is accepted, the last seek on its way to it
\* tells where the receiver will go on.
Sought(n, s, r, ws) ==
  /\ \A i, j \in 1 .. Len(ws) :
       i < j /\ Is(ws[i], n, {"accept"}) /\ Is(ws[j], n, {"seek"}) => ws[i].file # ws[j].file
  /\ Same(s, r) =>
       /\ \A i \in 1 .. Len(ws) :
            /\ Is(ws[i], n, {"seek"}) /\ ws[i].file = s.file => ws[i].position < s.size
            /\ s.status = "NotAccepted" /\ IsNewest(ws, i, n, s.file, {"seek"}) =>
                 r.transferred = ws[i].position
       /\ s.status = "NotAccepted" /\ NoneOf(ws, n, s.file, {"seek"}) =>
            r.transferred = s.transferred

\* The last pause or accept on its way to the receiver tells of the pauses of
\* the sender.
PausedS(n, s, r, wr) ==
  Same(s, r) =>
    /\ \A i \in 1 .. Len(wr) :
         IsNewest(wr, i, n, s.file, {"pause", "accept"}) => (s.us <=> wr[i].type = "pause")
    /\ NoneOf(wr, n, s.file, {"pause", "accept"}) => (r.other <=> s.us)

\* The same the other way; the first accept, which is no end of a pause, is the
\* first of them.
PausedR(n, s, r, ws) ==
  Same(s, r) =>
    /\ \A i \in 1 .. Len(ws) :
         IsNewest(ws, i, n, s.file, {"pause", "accept"}) => (r.us <=> ws[i].type = "pause")
    /\ s.status = "Transferring" /\ NoneOf(ws, n, s.file, {"pause", "accept"}) => (s.other <=> r.us)
    /\ s.status = "NotAccepted" /\ r.status = "Transferring" => ~ NoneOf(ws, n, s.file, {"accept"})
    /\ s.status = "NotAccepted" => \A j \in 1 .. Len(ws) :
         Is(ws[j], n, {"pause"}) /\ ws[j].file = s.file =>
           \E i \in 1 .. Len(ws) : i < j /\ Is(ws[i], n, {"accept"}) /\ ws[i].file = s.file

Agreed(n, s, r, wr, ws, up, done) ==
  /\ Ordered(n, wr) /\ Newer(n, s, r, wr) /\ GotFirst(n, s, r, wr, ws)
  /\ Accepted(n, s, r, wr, ws, up, done)
  /\ OfFile(n, s, r, wr) /\ Chained(n, s, r, wr)
  /\ Sought(n, s, r, ws) /\ PausedS(n, s, r, wr) /\ PausedR(n, s, r, ws)

-----------------------------------------------------------------------------
(* Packets come to the end of a wire and are taken from its beginning.      *)

FilePackets ==
  [type : ControlTypes \cup {"online", "offer", "data"}, number : Int, file : Nat,
   size : Nat, position : Nat, last : BOOLEAN]

\* v is w with the packet m after it.
Longer(w, v, m) ==
  /\ v \in Seq(FilePackets) /\ m \in FilePackets
  /\ Len(v) = Len(w) + 1 /\ v[Len(v)] = m
  /\ \A i \in 1 .. Len(w) : v[i] = w[i]

\* v is w without its first packet.
Shorter(w, v) ==
  /\ v \in Seq(FilePackets)
  /\ Len(w) = Len(v) + 1
  /\ \A i \in 1 .. Len(v) : v[i] = w[i + 1]

LEMMA AppendIsLonger ==
  ASSUME NEW w \in Seq(FilePackets), NEW m \in FilePackets
  PROVE  Longer(w, Append(w, m), m)
  BY DEF Longer

LEMMA TailIsShorter ==
  ASSUME NEW w \in Seq(FilePackets), w # <<>>
  PROVE  Shorter(w, Tail(w)) /\ Head(w) = w[1] /\ w[1] \in FilePackets /\ Len(w) >= 1
  BY DEF Shorter

-----------------------------------------------------------------------------
(* The receiver takes a packet: what is left of each clause.               *)

LEMMA OrderedTail ==
  ASSUME NEW n, NEW w \in Seq(FilePackets), NEW v, Shorter(w, v), Ordered(n, w)
  PROVE  Ordered(n, v)
  BY DEF Ordered, Shorter, Is

LEMMA NewerTail ==
  ASSUME NEW n, NEW s, NEW r, NEW w \in Seq(FilePackets), NEW v, Shorter(w, v), Newer(n, s, r, w)
  PROVE  Newer(n, s, r, v)
  BY DEF Newer, Shorter, Is

LEMMA GotTail ==
  ASSUME NEW n, NEW r, NEW w \in Seq(FilePackets), NEW v, Shorter(w, v), NEW g, Got(n, r, w, g)
  PROVE  Got(n, r, v, g)
  BY DEF Got, Shorter

LEMMA GotFirstTail ==
  ASSUME NEW n, NEW s, NEW r, NEW w \in Seq(FilePackets), NEW v, Shorter(w, v), NEW ws,
         GotFirst(n, s, r, w, ws)
  PROVE  GotFirst(n, s, r, v, ws)
  BY GotTail DEF GotFirst, Shorter

LEMMA AcceptedTail ==
  ASSUME NEW n, NEW s, NEW r, NEW w \in Seq(FilePackets), NEW v, Shorter(w, v), NEW ws, NEW up,
         NEW done,
         Accepted(n, s, r, w, ws, up, done)
  PROVE  Accepted(n, s, r, v, ws, up, done)
  BY DEF Accepted, Shorter

LEMMA OfFileTail ==
  ASSUME NEW n, NEW s, NEW r, NEW w \in Seq(FilePackets), NEW v, Shorter(w, v), OfFile(n, s, r, w)
  PROVE  OfFile(n, s, r, v)
  BY DEF OfFile, Shorter

LEMMA NoDataTail ==
  ASSUME NEW n, NEW w \in Seq(FilePackets), NEW v, Shorter(w, v)
  PROVE  \A a, b \in Nat : NoData(v, n, a, b) =>
           /\ NoData(w, n, a + 1, b + 1)
           /\ a = 0 /\ ~ Is(w[1], n, {"data"}) => NoData(w, n, 0, b + 1)
<1> SUFFICES ASSUME NEW a \in Nat, NEW b \in Nat, NoData(v, n, a, b)
             PROVE  /\ NoData(w, n, a + 1, b + 1)
                    /\ a = 0 /\ ~ Is(w[1], n, {"data"}) => NoData(w, n, 0, b + 1)
  OBVIOUS
<1>1. ASSUME NEW k \in 1 .. Len(w), k > 1, a + 1 < k, k < b + 1 PROVE ~ Is(w[k], n, {"data"})
  <2>1. k - 1 \in 1 .. Len(v) /\ v[k - 1] = w[k] /\ a < k - 1 /\ k - 1 < b
    BY <1>1 DEF Shorter
  <2> QED  BY <2>1 DEF NoData
<1> QED  BY <1>1 DEF NoData

LEMMA ChainedTail ==
  ASSUME NEW n, NEW s, NEW r, NEW w \in Seq(FilePackets), NEW v, Shorter(w, v), Chained(n, s, r, w),
         ~ Is(w[1], n, {"data"})
  PROVE  Chained(n, s, r, v)
<1> SUFFICES ASSUME Used(r) PROVE Chained(n, s, r, v)  BY DEF Chained
<1>0. Len(v) \in Nat /\ Len(w) = Len(v) + 1  BY DEF Shorter
<1>3. \A b \in Nat : NoData(v, n, 0, b) => NoData(w, n, 0, b + 1)
  BY NoDataTail
<1>1. ASSUME NEW i \in 1 .. Len(v), Is(v[i], n, {"data"})
      PROVE  /\ NoData(v, n, 0, i) => v[i].position = r.transferred
             /\ NoData(v, n, i, Len(v) + 1) /\ Used(s) /\ s.file = r.file =>
                  s.transferred = v[i].position + v[i].size
             /\ \A j \in 1 .. Len(v) : i < j /\ Is(v[j], n, {"data"}) /\ NoData(v, n, i, j) =>
                  v[j].position = v[i].position + v[i].size
  <2>1. i + 1 \in 1 .. Len(w) /\ v[i] = w[i + 1] /\ Is(w[i + 1], n, {"data"})
    BY <1>0, <1>1 DEF Shorter
  <2>2. NoData(v, n, 0, i) => v[i].position = r.transferred
    <3>1. ASSUME NoData(v, n, 0, i) PROVE NoData(w, n, 0, i + 1)
      <4>1. i \in Nat  BY <1>0
      <4> QED  BY <1>3, <3>1, <4>1
    <3> QED  BY <2>1, <3>1 DEF Chained
  <2>3. NoData(v, n, i, Len(v) + 1) /\ Used(s) /\ s.file = r.file => s.transferred = v[i].position + v[i].size
    <3>1. ASSUME NoData(v, n, i, Len(v) + 1) PROVE NoData(w, n, i + 1, Len(w) + 1)
      <4>1. i \in Nat /\ i + 1 \in Nat /\ Len(v) + 1 \in Nat /\ Len(w) + 1 = (Len(v) + 1) + 1 /\ Len(w) + 1 \in Nat
        BY <1>0
      <4>2. NoData(w, n, i + 1, (Len(v) + 1) + 1)  BY NoDataTail, <3>1, <4>1
      <4> QED  BY <4>1, <4>2
    <3> QED  BY <2>1, <3>1 DEF Chained
  <2>4. ASSUME NEW j \in 1 .. Len(v), i < j, Is(v[j], n, {"data"}), NoData(v, n, i, j)
        PROVE  v[j].position = v[i].position + v[i].size
    <3>1. j + 1 \in 1 .. Len(w) /\ v[j] = w[j + 1] /\ Is(w[j + 1], n, {"data"}) /\ i + 1 < j + 1
      BY <1>0, <2>4 DEF Shorter
    <3>2. NoData(w, n, i + 1, j + 1)
      <4>1. i \in Nat /\ i + 1 \in Nat /\ j \in Nat /\ j + 1 \in Nat  BY <1>0
      <4> QED  BY NoDataTail, <2>4, <4>1
    <3> QED  BY <2>1, <3>1, <3>2 DEF Chained
  <2> QED  BY <2>2, <2>3, <2>4
<1>2. Going(s) /\ s.file = r.file /\ NoData(v, n, 0, Len(v) + 1) => s.transferred = r.transferred
  <2>1. NoData(v, n, 0, Len(v) + 1) => NoData(w, n, 0, (Len(v) + 1) + 1)  BY <1>0, <1>3
  <2> QED  BY <1>0, <2>1 DEF Chained
<1> QED  BY <1>1, <1>2 DEF Chained

LEMMA NewestTail ==
  ASSUME NEW n, NEW w \in Seq(FilePackets), NEW v, Shorter(w, v), NEW g, NEW types
  PROVE  /\ \A i \in 1 .. Len(v) : IsNewest(v, i, n, g, types) =>
              i + 1 \in 1 .. Len(w) /\ v[i] = w[i + 1] /\ IsNewest(w, i + 1, n, g, types)
         /\ NoneOf(v, n, g, types) /\ ~ (Is(w[1], n, types) /\ w[1].file = g) => NoneOf(w, n, g, types)
<1>1. ASSUME NEW i \in 1 .. Len(v), IsNewest(v, i, n, g, types)
      PROVE  i + 1 \in 1 .. Len(w) /\ v[i] = w[i + 1] /\ IsNewest(w, i + 1, n, g, types)
  <2>1. i + 1 \in 1 .. Len(w) /\ v[i] = w[i + 1]  BY DEF Shorter
  <2>2. ASSUME NEW k \in 1 .. Len(w), i + 1 < k PROVE ~ (Is(w[k], n, types) /\ w[k].file = g)
    <3>1. k - 1 \in 1 .. Len(v) /\ v[k - 1] = w[k] /\ i < k - 1  BY <2>2 DEF Shorter
    <3> QED  BY <1>1, <3>1 DEF IsNewest
  <2> QED  BY <1>1, <2>1, <2>2 DEF IsNewest
<1>2. ASSUME NoneOf(v, n, g, types), ~ (Is(w[1], n, types) /\ w[1].file = g), NEW k \in 1 .. Len(w)
      PROVE  ~ (Is(w[k], n, types) /\ w[k].file = g)
  <2>1. CASE k = 1  BY <1>2, <2>1
  <2>2. CASE k # 1
    <3>1. k - 1 \in 1 .. Len(v) /\ v[k - 1] = w[k]  BY <2>2 DEF Shorter
    <3> QED  BY <1>2, <3>1 DEF NoneOf
  <2> QED  BY <2>1, <2>2
<1> QED  BY <1>1, <1>2 DEF NoneOf

LEMMA PausedSTail ==
  ASSUME NEW n, NEW s, NEW r, NEW w \in Seq(FilePackets), NEW v, Shorter(w, v), PausedS(n, s, r, w),
         Same(s, r) => ~ (Is(w[1], n, {"pause", "accept"}) /\ w[1].file = s.file)
  PROVE  PausedS(n, s, r, v)
<1> SUFFICES ASSUME Same(s, r) PROVE PausedS(n, s, r, v)  BY DEF PausedS
<1>1. ASSUME NEW i \in 1 .. Len(v), IsNewest(v, i, n, s.file, {"pause", "accept"})
      PROVE  s.us <=> v[i].type = "pause"
  <2>1. i + 1 \in 1 .. Len(w) /\ v[i] = w[i + 1] /\ IsNewest(w, i + 1, n, s.file, {"pause", "accept"})
    BY <1>1, NewestTail
  <2> QED  BY <2>1 DEF PausedS
<1>2. NoneOf(v, n, s.file, {"pause", "accept"}) => (r.other <=> s.us)
  BY NewestTail DEF PausedS
<1> QED  BY <1>1, <1>2 DEF PausedS

LEMMA PausedRTail ==
  ASSUME NEW n, NEW s, NEW r, NEW w \in Seq(FilePackets), NEW v, Shorter(w, v), PausedR(n, s, r, w),
         Same(s, r) => ~ (Is(w[1], n, {"pause", "accept"}) /\ w[1].file = s.file)
  PROVE  PausedR(n, s, r, v)
<1> SUFFICES ASSUME Same(s, r) PROVE PausedR(n, s, r, v)  BY DEF PausedR
<1>1. ASSUME NEW i \in 1 .. Len(v), IsNewest(v, i, n, s.file, {"pause", "accept"})
      PROVE  r.us <=> v[i].type = "pause"
  BY <1>1, NewestTail DEF PausedR
<1>2. s.status = "Transferring" /\ NoneOf(v, n, s.file, {"pause", "accept"}) => (s.other <=> r.us)
  BY NewestTail DEF PausedR
<1>3. ~ (Is(w[1], n, {"accept"}) /\ w[1].file = s.file)  BY DEF Is
<1>4. s.status = "NotAccepted" /\ r.status = "Transferring" => ~ NoneOf(v, n, s.file, {"accept"})
  BY <1>3, NewestTail DEF PausedR
<1>5. ASSUME s.status = "NotAccepted", NEW j \in 1 .. Len(v), Is(v[j], n, {"pause"}), v[j].file = s.file
      PROVE  \E i \in 1 .. Len(v) : i < j /\ Is(v[i], n, {"accept"}) /\ v[i].file = s.file
  <2>1. j + 1 \in 1 .. Len(w) /\ v[j] = w[j + 1]  BY DEF Shorter
  <2>2. PICK i \in 1 .. Len(w) : i < j + 1 /\ Is(w[i], n, {"accept"}) /\ w[i].file = s.file
    BY <1>5, <2>1 DEF PausedR
  <2>3. i # 1  BY <1>3, <2>2
  <2>4. i - 1 \in 1 .. Len(v) /\ v[i - 1] = w[i] /\ i - 1 < j  BY <2>2, <2>3 DEF Shorter
  <2> QED  BY <2>2, <2>4
<1> QED  BY <1>1, <1>2, <1>4, <1>5 DEF PausedR

LEMMA SoughtOrder ==
  ASSUME NEW n, NEW s, NEW r, NEW w \in Seq(FilePackets), NEW v, Shorter(w, v), Sought(n, s, r, w)
  PROVE  \A i, j \in 1 .. Len(v) :
           i < j /\ Is(v[i], n, {"accept"}) /\ Is(v[j], n, {"seek"}) => v[i].file # v[j].file
  BY SMTT(60) DEF Sought, Shorter

LEMMA SoughtTail ==
  ASSUME NEW n, NEW s, NEW r, NEW w \in Seq(FilePackets), NEW v, Shorter(w, v), Sought(n, s, r, w),
         Same(s, r) /\ s.status = "NotAccepted" => ~ (Is(w[1], n, {"seek"}) /\ w[1].file = s.file)
  PROVE  Sought(n, s, r, v)
<1>1. \A i, j \in 1 .. Len(v) :
        i < j /\ Is(v[i], n, {"accept"}) /\ Is(v[j], n, {"seek"}) => v[i].file # v[j].file
  BY SoughtOrder
<1>2. ASSUME Same(s, r), NEW i \in 1 .. Len(v)
      PROVE  /\ Is(v[i], n, {"seek"}) /\ v[i].file = s.file => v[i].position < s.size
             /\ s.status = "NotAccepted" /\ IsNewest(v, i, n, s.file, {"seek"}) =>
                  r.transferred = v[i].position
  <2>1. i + 1 \in 1 .. Len(w) /\ v[i] = w[i + 1]  BY DEF Shorter
  <2> QED  BY <1>2, <2>1, NewestTail DEF Sought
<1>3. Same(s, r) /\ s.status = "NotAccepted" /\ NoneOf(v, n, s.file, {"seek"}) =>
        r.transferred = s.transferred
  BY NewestTail DEF Sought
<1> QED  BY <1>1, <1>2, <1>3 DEF Sought

LEMMA GotFirstTailS ==
  ASSUME NEW n, NEW s, NEW r, NEW w \in Seq(FilePackets), NEW v, Shorter(w, v), NEW wr,
         GotFirst(n, s, r, wr, w)
  PROVE  GotFirst(n, s, r, wr, v)
  BY DEF GotFirst, Shorter

LEMMA AcceptedTailS ==
  ASSUME NEW n, NEW s, NEW r, NEW w \in Seq(FilePackets), NEW v, Shorter(w, v), NEW wr, NEW up,
         NEW done,
         Accepted(n, s, r, wr, w, up, done)
  PROVE  Accepted(n, s, r, wr, v, up, done)
  BY DEF Accepted, Shorter

-----------------------------------------------------------------------------
(* A packet is sent that is not about this number.                         *)

LEMMA NewestLonger ==
  ASSUME NEW n, NEW w \in Seq(FilePackets), NEW v, NEW m, Longer(w, v, m), NEW g, NEW types,
         ~ (Is(m, n, types) /\ m.file = g)
  PROVE  /\ \A i \in 1 .. Len(v) : IsNewest(v, i, n, g, types) =>
              i \in 1 .. Len(w) /\ v[i] = w[i] /\ IsNewest(w, i, n, g, types)
         /\ NoneOf(v, n, g, types) <=> NoneOf(w, n, g, types)
  BY DEF Longer, IsNewest, NoneOf

LEMMA SoughtLonger ==
  ASSUME NEW n, NEW s, NEW r, NEW w \in Seq(FilePackets), NEW v, NEW m, Longer(w, v, m),
         Sought(n, s, r, w), ~ Is(m, n, {"accept", "pause", "seek"})
  PROVE  Sought(n, s, r, v)
<1>0. ~ Is(m, n, {"accept"}) /\ ~ Is(m, n, {"seek"})  BY DEF Is
<1>1. \A i, j \in 1 .. Len(v) :
        i < j /\ Is(v[i], n, {"accept"}) /\ Is(v[j], n, {"seek"}) => v[i].file # v[j].file
  BY <1>0 DEF Sought, Longer
<1>2. ASSUME Same(s, r), NEW i \in 1 .. Len(v)
      PROVE  /\ Is(v[i], n, {"seek"}) /\ v[i].file = s.file => v[i].position < s.size
             /\ s.status = "NotAccepted" /\ IsNewest(v, i, n, s.file, {"seek"}) =>
                  r.transferred = v[i].position
  <2>1. Is(v[i], n, {"seek"}) => i \in 1 .. Len(w) /\ v[i] = w[i]  BY <1>0 DEF Longer
  <2>2. Is(v[i], n, {"seek"}) /\ v[i].file = s.file => v[i].position < s.size
    BY <1>2, <2>1 DEF Sought
  <2>3. IsNewest(v, i, n, s.file, {"seek"}) => IsNewest(w, i, n, s.file, {"seek"})
    BY <1>0, NewestLonger
  <2>4. s.status = "NotAccepted" /\ IsNewest(v, i, n, s.file, {"seek"}) => r.transferred = v[i].position
    BY <1>2, <2>1, <2>3 DEF Sought, IsNewest
  <2> QED  BY <2>2, <2>4
<1>3. Same(s, r) /\ s.status = "NotAccepted" /\ NoneOf(v, n, s.file, {"seek"}) =>
        r.transferred = s.transferred
  BY <1>0, NewestLonger DEF Sought
<1> QED  BY <1>1, <1>2, <1>3 DEF Sought

LEMMA PausedRLonger ==
  ASSUME NEW n, NEW s, NEW r, NEW w \in Seq(FilePackets), NEW v, NEW m, Longer(w, v, m),
         PausedR(n, s, r, w), ~ Is(m, n, {"accept", "pause"})
  PROVE  PausedR(n, s, r, v)
<1> SUFFICES ASSUME Same(s, r) PROVE PausedR(n, s, r, v)  BY DEF PausedR
<1>0. ~ Is(m, n, {"accept"}) /\ ~ Is(m, n, {"pause"}) /\ ~ Is(m, n, {"pause", "accept"})  BY DEF Is
<1>1. ASSUME NEW i \in 1 .. Len(v), IsNewest(v, i, n, s.file, {"pause", "accept"})
      PROVE  r.us <=> v[i].type = "pause"
  BY <1>0, <1>1, NewestLonger DEF PausedR
<1>2. s.status = "Transferring" /\ NoneOf(v, n, s.file, {"pause", "accept"}) => (s.other <=> r.us)
  BY <1>0, NewestLonger DEF PausedR
<1>4. s.status = "NotAccepted" /\ r.status = "Transferring" => ~ NoneOf(v, n, s.file, {"accept"})
  BY <1>0, NewestLonger DEF PausedR
<1>5. ASSUME s.status = "NotAccepted", NEW j \in 1 .. Len(v), Is(v[j], n, {"pause"}), v[j].file = s.file
      PROVE  \E i \in 1 .. Len(v) : i < j /\ Is(v[i], n, {"accept"}) /\ v[i].file = s.file
  <2>1. j \in 1 .. Len(w) /\ v[j] = w[j]  BY <1>0, <1>5 DEF Longer
  <2>2. PICK i \in 1 .. Len(w) : i < j /\ Is(w[i], n, {"accept"}) /\ w[i].file = s.file
    BY <1>5, <2>1 DEF PausedR
  <2>4. i \in 1 .. Len(v) /\ v[i] = w[i]  BY <2>2 DEF Longer
  <2> QED  BY <2>2, <2>4
<1> QED  BY <1>1, <1>2, <1>4, <1>5 DEF PausedR

LEMMA PausedSLonger ==
  ASSUME NEW n, NEW s, NEW r, NEW w \in Seq(FilePackets), NEW v, NEW m, Longer(w, v, m),
         PausedS(n, s, r, w), ~ Is(m, n, {"pause", "accept"})
  PROVE  PausedS(n, s, r, v)
<1> SUFFICES ASSUME Same(s, r) PROVE PausedS(n, s, r, v)  BY DEF PausedS
<1>1. ASSUME NEW i \in 1 .. Len(v), IsNewest(v, i, n, s.file, {"pause", "accept"})
      PROVE  s.us <=> v[i].type = "pause"
  BY <1>1, NewestLonger DEF PausedS
<1>2. NoneOf(v, n, s.file, {"pause", "accept"}) => (r.other <=> s.us)
  BY NewestLonger DEF PausedS
<1> QED  BY <1>1, <1>2 DEF PausedS

-----------------------------------------------------------------------------
(* The sender sends a packet: what it has to be for each clause.           *)

LEMMA OrderedLonger ==
  ASSUME NEW n, NEW w \in Seq(FilePackets), NEW v, NEW m, Longer(w, v, m), Ordered(n, w),
         Is(m, n, {"offer"}) => \A i \in 1 .. Len(w) : Is(w[i], n, FileTypes) => w[i].file < m.file,
         Is(m, n, {"data"}) => \A i \in 1 .. Len(w) :
           ~ Is(w[i], n, {"offer"}) /\ (Is(w[i], n, {"kill"}) => w[i].file # m.file)
  PROVE  Ordered(n, v)
  BY DEF Ordered, Longer

LEMMA NewerLonger ==
  ASSUME NEW n, NEW s, NEW r, NEW w \in Seq(FilePackets), NEW v, NEW m, Longer(w, v, m),
         Newer(n, s, r, w),
         Is(m, n, {"offer"}) => /\ Used(s) /\ s.file = m.file
                                /\ s.status = "NotAccepted" /\ s.size = m.size /\ s.transferred = 0
                                /\ Used(r) => r.file < m.file,
         Is(m, n, {"kill"}) => ~ Used(s),
         s.file \in Nat
  PROVE  Newer(n, s, r, v)
  BY DEF Newer, Longer

LEMMA GotLonger ==
  ASSUME NEW n, NEW r, NEW w \in Seq(FilePackets), NEW v, NEW m, Longer(w, v, m), NEW g,
         Got(n, r, w, g),
         Is(m, n, {"offer"}) => g < m.file
  PROVE  Got(n, r, v, g)
  BY DEF Got, Longer

LEMMA GotFirstLonger ==
  ASSUME NEW n, NEW s, NEW r, NEW w \in Seq(FilePackets), NEW v, NEW m, Longer(w, v, m),
         NEW ws \in Seq(FilePackets), GotFirst(n, s, r, w, ws),
         Is(m, n, {"data", "pause", "accept"}) => Got(n, r, w, m.file),
         Is(m, n, {"offer"}) =>
           /\ \A i \in 1 .. Len(w) : Is(w[i], n, {"data", "pause", "accept"}) => w[i].file < m.file
           /\ \A i \in 1 .. Len(ws) : Is(ws[i], n, {"accept", "pause", "seek"}) => ws[i].file < m.file
           /\ ~ Going(s)
  PROVE  GotFirst(n, s, r, v, ws)
<1>1. ASSUME NEW i \in 1 .. Len(v), Is(v[i], n, {"data", "pause", "accept"}) PROVE Got(n, r, v, v[i].file)
  <2>1. CASE i \in 1 .. Len(w)
    <3>1. v[i] = w[i]  BY <2>1 DEF Longer
    <3>2. Is(m, n, {"offer"}) => w[i].file < m.file  BY <1>1, <2>1, <3>1
    <3>3. Got(n, r, w, w[i].file)  BY <1>1, <2>1, <3>1 DEF GotFirst
    <3> QED  BY <3>1, <3>2, <3>3, GotLonger
  <2>2. CASE i \notin 1 .. Len(w)
    <3>1. v[i] = m  BY <2>2 DEF Longer
    <3>2. ~ Is(m, n, {"offer"}) /\ Got(n, r, w, m.file)  BY <1>1, <3>1 DEF Is
    <3> QED  BY <3>1, <3>2, GotLonger
  <2> QED  BY <2>1, <2>2
<1>2. ASSUME NEW i \in 1 .. Len(ws), Is(ws[i], n, {"accept", "pause", "seek"}) PROVE Got(n, r, v, ws[i].file)
  <2>1. Got(n, r, w, ws[i].file) /\ (Is(m, n, {"offer"}) => ws[i].file < m.file)
    BY <1>2 DEF GotFirst
  <2> QED  BY <2>1, GotLonger
<1>3. ASSUME Going(s) PROVE Got(n, r, v, s.file)
  BY <1>3, GotLonger DEF GotFirst
<1> QED  BY <1>1, <1>2, <1>3 DEF GotFirst

LEMMA AcceptedLonger ==
  ASSUME NEW n, NEW s, NEW r, NEW w \in Seq(FilePackets), NEW v, NEW m, Longer(w, v, m), NEW ws,
         NEW up, NEW done, Accepted(n, s, r, w, ws, up, done),
         Is(m, n, {"data", "pause", "accept"}) => Started(r, m.file),
         Is(m, n, {"data"}) => Kept(r, m.file, up, done)
  PROVE  Accepted(n, s, r, v, ws, up, done)
  BY DEF Accepted, Longer

LEMMA OfFileLonger ==
  ASSUME NEW n, NEW s, NEW r, NEW w \in Seq(FilePackets), NEW v, NEW m, Longer(w, v, m),
         OfFile(n, s, r, w),
         Is(m, n, {"data"}) =>
           /\ Used(r) =>
                /\ m.file = r.file
                /\ m.position + m.size <= r.size
                /\ m.size <= Chunk
                /\ m.last <=> m.size # Chunk \/ m.position + m.size = r.size
           /\ Used(s) /\ s.file = m.file => Going(s)
  PROVE  OfFile(n, s, r, v)
  BY DEF OfFile, Longer

LEMMA NoDataLonger ==
  ASSUME NEW n, NEW w \in Seq(FilePackets), NEW v, NEW m, Longer(w, v, m), ~ Is(m, n, {"data"}),
         NEW a \in Nat
  PROVE  /\ \A b \in Nat : NoData(v, n, a, b) => NoData(w, n, a, b)
         /\ NoData(v, n, a, Len(v) + 1) => NoData(w, n, a, Len(w) + 1)
  BY DEF NoData, Longer

LEMMA ChainedLonger ==
  ASSUME NEW n, NEW s, NEW r, NEW w \in Seq(FilePackets), NEW v, NEW m, Longer(w, v, m),
         Chained(n, s, r, w), ~ Is(m, n, {"data"})
  PROVE  Chained(n, s, r, v)
<1> SUFFICES ASSUME Used(r) PROVE Chained(n, s, r, v)  BY DEF Chained
<1>0. Len(w) \in Nat /\ Len(v) = Len(w) + 1  BY DEF Longer
<1>1. ASSUME NEW i \in 1 .. Len(v), Is(v[i], n, {"data"})
      PROVE  /\ NoData(v, n, 0, i) => v[i].position = r.transferred
             /\ NoData(v, n, i, Len(v) + 1) /\ Used(s) /\ s.file = r.file =>
                  s.transferred = v[i].position + v[i].size
             /\ \A j \in 1 .. Len(v) : i < j /\ Is(v[j], n, {"data"}) /\ NoData(v, n, i, j) =>
                  v[j].position = v[i].position + v[i].size
  <2>1. i \in 1 .. Len(w) /\ v[i] = w[i] /\ Is(w[i], n, {"data"}) /\ i \in Nat
    BY <1>0, <1>1 DEF Longer
  <2>2. NoData(v, n, 0, i) => v[i].position = r.transferred
    BY <2>1, NoDataLonger DEF Chained
  <2>3. NoData(v, n, i, Len(v) + 1) /\ Used(s) /\ s.file = r.file => s.transferred = v[i].position + v[i].size
    BY <2>1, NoDataLonger DEF Chained
  <2>4. ASSUME NEW j \in 1 .. Len(v), i < j, Is(v[j], n, {"data"}), NoData(v, n, i, j)
        PROVE  v[j].position = v[i].position + v[i].size
    <3>1. j \in 1 .. Len(w) /\ v[j] = w[j] /\ j \in Nat  BY <1>0, <2>4 DEF Longer
    <3>2. NoData(w, n, i, j)  BY <2>1, <2>4, <3>1, NoDataLonger
    <3> QED  BY <2>1, <2>4, <3>1, <3>2 DEF Chained
  <2> QED  BY <2>2, <2>3, <2>4
<1>2. Going(s) /\ s.file = r.file /\ NoData(v, n, 0, Len(v) + 1) => s.transferred = r.transferred
  BY NoDataLonger DEF Chained
<1> QED  BY <1>1, <1>2 DEF Chained

\* A chunk is sent.
LEMMA ChainedData ==
  ASSUME NEW n, NEW s, NEW r, NEW w \in Seq(FilePackets), NEW v, NEW m, Longer(w, v, m),
         Chained(n, s, r, w), Is(m, n, {"data"}), Going(s),
         Used(r) => s.file = r.file, m.position = s.transferred, NEW t, t.transferred = m.position + m.size
  PROVE  Chained(n, t, r, v)
<1> SUFFICES ASSUME Used(r) PROVE Chained(n, t, r, v)  BY DEF Chained
<1>0. Len(w) \in Nat /\ Len(v) = Len(w) + 1  BY DEF Longer
<1>3. \A i \in 1 .. Len(w) : v[i] = w[i]  BY DEF Longer
<1>4. v[Len(w) + 1] = m  BY <1>0 DEF Longer
<1>5. \A a \in Nat : \A b \in 1 .. Len(w) : NoData(v, n, a, b) => NoData(w, n, a, b)
  BY <1>0, <1>3 DEF NoData
<1>6. \A a \in Nat : NoData(v, n, a, Len(w) + 1) => NoData(w, n, a, Len(w) + 1)
  BY <1>0, <1>3 DEF NoData
<1>7. \A a \in 0 .. Len(w) : ~ NoData(v, n, a, Len(v) + 1)
  BY <1>0, <1>4 DEF NoData
<1>1. ASSUME NEW i \in 1 .. Len(v), Is(v[i], n, {"data"})
      PROVE  /\ NoData(v, n, 0, i) => v[i].position = r.transferred
             /\ NoData(v, n, i, Len(v) + 1) /\ Used(t) /\ t.file = r.file =>
                  t.transferred = v[i].position + v[i].size
             /\ \A j \in 1 .. Len(v) : i < j /\ Is(v[j], n, {"data"}) /\ NoData(v, n, i, j) =>
                  v[j].position = v[i].position + v[i].size
  <2>1. CASE i \in 1 .. Len(w)
    <3>1. i \in Nat /\ v[i] = w[i] /\ Is(w[i], n, {"data"})  BY <1>1, <1>3, <2>1
    <3>2. NoData(v, n, 0, i) => v[i].position = r.transferred  BY <1>5, <2>1, <3>1 DEF Chained
    <3>3. ~ NoData(v, n, i, Len(v) + 1)  BY <1>0, <1>7, <2>1
    <3>4. ASSUME NEW j \in 1 .. Len(v), i < j, Is(v[j], n, {"data"}), NoData(v, n, i, j)
          PROVE  v[j].position = v[i].position + v[i].size
      <4>1. CASE j \in 1 .. Len(w)
        BY <1>3, <1>5, <2>1, <3>1, <3>4, <4>1 DEF Chained
      <4>2. CASE j = Len(w) + 1
        <5>1. NoData(w, n, i, Len(w) + 1)  BY <1>6, <3>1, <3>4, <4>2
        <5>2. s.transferred = w[i].position + w[i].size
          BY <2>1, <3>1, <5>1 DEF Chained, Going, Used
        <5> QED  BY <1>4, <3>1, <4>2, <5>2
      <4> QED  BY <1>0, <4>1, <4>2
    <3> QED  BY <3>2, <3>3, <3>4
  <2>2. CASE i = Len(w) + 1
    <3>1. v[i] = m  BY <1>4, <2>2
    <3>2. ASSUME NoData(v, n, 0, i) PROVE v[i].position = r.transferred
      <4>1. NoData(w, n, 0, Len(w) + 1)  BY <1>6, <2>2, <3>2
      <4> QED  BY <3>1, <4>1 DEF Chained
    <3>3. t.transferred = v[i].position + v[i].size  BY <3>1
    <3> QED  BY <1>0, <2>2, <3>2, <3>3
  <2> QED  BY <1>0, <2>1, <2>2
<1>2. ~ NoData(v, n, 0, Len(v) + 1)  BY <1>0, <1>7
<1> QED  BY <1>1, <1>2 DEF Chained

\* A pause or its end is sent.
LEMMA PausedSControl ==
  ASSUME NEW n, NEW r, NEW w \in Seq(FilePackets), NEW v, NEW m, Longer(w, v, m),
         Is(m, n, {"pause", "accept"}), NEW t, m.file = t.file, t.us <=> m.type = "pause"
  PROVE  PausedS(n, t, r, v)
  BY DEF PausedS, Longer, IsNewest, NoneOf

-----------------------------------------------------------------------------
(* Steps that are not about this number, or that end a transfer.           *)

LEMMA FileTypesOK ==
  ASSUME NEW t \in FileTransfers
  PROVE  /\ t.status \in {"None", "NotAccepted", "Transferring", "Finished"}
         /\ t.size \in Nat /\ t.transferred \in Nat /\ t.requested \in Nat /\ t.file \in Nat
         /\ t.us \in BOOLEAN /\ t.other \in BOOLEAN
<1>1. t.size \in Sizes \cup {0} /\ t.file \in 0 .. MaxFiles  BY DEF FileTransfers
<1>2. (\A x \in Sizes : x \in Nat) /\ MaxFiles \in Nat  BY SizesAssumption, FileBoundsAssumption
<1>7. t.size \in Nat  BY <1>1, <1>2
<1>3. t.size \in Nat /\ t.file \in Nat  BY <1>1, <1>2, <1>7
<1>4. t.us \in BOOLEAN /\ t.other \in BOOLEAN  BY DEF FileTransfers
<1>5. t.status \in {"None", "NotAccepted", "Transferring", "Finished"}  BY DEF FileTransfers
<1>6. t.transferred \in Nat /\ t.requested \in Nat  BY DEF FileTransfers
<1> QED  BY <1>3, <1>4, <1>5, <1>6

LEMMA ToReceiverOther ==
  ASSUME NEW n, NEW s \in FileTransfers, NEW r \in FileTransfers, NEW wr \in Seq(FilePackets),
         NEW ws \in Seq(FilePackets), NEW up \in BOOLEAN, NEW done,
         Agreed(n, s, r, wr, ws, up, done),
         NEW v, NEW m, Longer(wr, v, m), ~ Is(m, n, FileTypes)
  PROVE  Agreed(n, s, r, v, ws, up, done)
<1>1. /\ ~ Is(m, n, {"offer"}) /\ ~ Is(m, n, {"data"}) /\ ~ Is(m, n, {"kill"})
      /\ ~ Is(m, n, {"data", "pause", "accept"}) /\ ~ Is(m, n, {"pause", "accept"})
  BY DEF Is, FileTypes, ControlTypes
<1>2. s.file \in Nat  BY FileTypesOK
<1>3. Ordered(n, v)  BY <1>1, OrderedLonger DEF Agreed
<1>4. Newer(n, s, r, v)  BY <1>1, <1>2, NewerLonger DEF Agreed
<1>5. GotFirst(n, s, r, v, ws)  BY <1>1, GotFirstLonger DEF Agreed
<1>6. Accepted(n, s, r, v, ws, up, done)  BY <1>1, AcceptedLonger DEF Agreed
<1>7. OfFile(n, s, r, v)  BY <1>1, OfFileLonger DEF Agreed
<1>8. Chained(n, s, r, v)  BY <1>1, ChainedLonger DEF Agreed
<1>9. PausedS(n, s, r, v)  BY <1>1, PausedSLonger DEF Agreed
<1> QED  BY <1>3, <1>4, <1>5, <1>6, <1>7, <1>8, <1>9 DEF Agreed

LEMMA ToSenderOther ==
  ASSUME NEW n, NEW s \in FileTransfers, NEW r \in FileTransfers, NEW wr \in Seq(FilePackets),
         NEW ws \in Seq(FilePackets), NEW up \in BOOLEAN, NEW done,
         Agreed(n, s, r, wr, ws, up, done),
         NEW v, NEW m, Longer(ws, v, m), ~ Is(m, n, {"accept", "pause", "seek"})
  PROVE  Agreed(n, s, r, wr, v, up, done)
<1>1. ~ Is(m, n, {"accept"}) /\ ~ Is(m, n, {"accept", "pause"})  BY DEF Is
<1>2. GotFirst(n, s, r, wr, v)
  <2>1. \A i \in 1 .. Len(v) : Is(v[i], n, {"accept", "pause", "seek"}) => i \in 1 .. Len(ws) /\ v[i] = ws[i]
    BY DEF Longer
  <2> QED  BY <2>1 DEF Agreed, GotFirst
<1>3. Accepted(n, s, r, wr, v, up, done)
  <2>1. \A i \in 1 .. Len(v) : Is(v[i], n, {"accept"}) => i \in 1 .. Len(ws) /\ v[i] = ws[i]
    BY <1>1 DEF Longer
  <2> QED  BY <2>1 DEF Agreed, Accepted
<1>4. Sought(n, s, r, v)  BY SoughtLonger DEF Agreed
<1>5. PausedR(n, s, r, v)  BY <1>1, PausedRLonger DEF Agreed
<1> QED  BY <1>2, <1>3, <1>4, <1>5 DEF Agreed

LEMMA TakenByReceiver ==
  ASSUME NEW n, NEW s \in FileTransfers, NEW r \in FileTransfers, NEW wr \in Seq(FilePackets),
         NEW ws \in Seq(FilePackets), NEW up \in BOOLEAN, NEW done,
         Agreed(n, s, r, wr, ws, up, done),
         NEW v, Shorter(wr, v), Used(r) => ~ Is(wr[1], n, {"data", "pause", "accept"})
  PROVE  Agreed(n, s, r, v, ws, up, done)
<1>1. Used(r) => ~ Is(wr[1], n, {"data"}) /\ ~ Is(wr[1], n, {"pause", "accept"})  BY DEF Is
<1>2. Ordered(n, v) /\ Newer(n, s, r, v)  BY OrderedTail, NewerTail DEF Agreed
<1>3. GotFirst(n, s, r, v, ws)  BY GotFirstTail DEF Agreed
<1>4. Accepted(n, s, r, v, ws, up, done)  BY AcceptedTail DEF Agreed
<1>5. OfFile(n, s, r, v)  BY OfFileTail DEF Agreed
<1>6. Chained(n, s, r, v)
  <2>1. CASE Used(r)  BY <1>1, <2>1, ChainedTail DEF Agreed
  <2>2. CASE ~ Used(r)  BY <2>2 DEF Chained
  <2> QED  BY <2>1, <2>2
<1>7. PausedS(n, s, r, v)
  <2>1. Same(s, r) => ~ Is(wr[1], n, {"pause", "accept"})  BY <1>1 DEF Same
  <2> QED  BY <2>1, PausedSTail DEF Agreed
<1> QED  BY <1>2, <1>3, <1>4, <1>5, <1>6, <1>7 DEF Agreed

LEMMA TakenBySender ==
  ASSUME NEW n, NEW s \in FileTransfers, NEW r \in FileTransfers, NEW wr \in Seq(FilePackets),
         NEW ws \in Seq(FilePackets), NEW up \in BOOLEAN, NEW done,
         Agreed(n, s, r, wr, ws, up, done),
         NEW v, Shorter(ws, v), Used(s) => ~ Is(ws[1], n, {"accept", "pause", "seek"})
  PROVE  Agreed(n, s, r, wr, v, up, done)
<1>1. Same(s, r) => ~ Is(ws[1], n, {"seek"}) /\ ~ Is(ws[1], n, {"pause", "accept"})  BY DEF Is, Same
<1>2. GotFirst(n, s, r, wr, v)  BY GotFirstTailS DEF Agreed
<1>3. Accepted(n, s, r, wr, v, up, done)  BY AcceptedTailS DEF Agreed
<1>4. Sought(n, s, r, v)  BY <1>1, SoughtTail DEF Agreed
<1>5. PausedR(n, s, r, v)  BY <1>1, PausedRTail DEF Agreed
<1> QED  BY <1>2, <1>3, <1>4, <1>5 DEF Agreed

LEMMA DoneGrows ==
  ASSUME NEW n, NEW s \in FileTransfers, NEW r \in FileTransfers, NEW wr \in Seq(FilePackets),
         NEW ws \in Seq(FilePackets), NEW up \in BOOLEAN, NEW done,
         Agreed(n, s, r, wr, ws, up, done),
         NEW more, done \subseteq more
  PROVE  Agreed(n, s, r, wr, ws, up, more)
  BY DEF Agreed, Accepted, Kept

\* The sender's transfer ends.
LEMMA SenderDrops ==
  ASSUME NEW n, NEW s \in FileTransfers, NEW r \in FileTransfers, NEW wr \in Seq(FilePackets),
         NEW ws \in Seq(FilePackets), NEW up \in BOOLEAN, NEW done, Agreed(n, s, r, wr, ws, up, done)
  PROVE  Agreed(n, NoFile, r, wr, ws, up, done)
<1>1. ~ Used(NoFile) /\ ~ Going(NoFile) /\ ~ Same(NoFile, r)  BY DEF NoFile, Used, Going, Same
<1>2. Newer(n, NoFile, r, wr)  BY <1>1 DEF Agreed, Newer
<1>3. GotFirst(n, NoFile, r, wr, ws)  BY <1>1 DEF Agreed, GotFirst
<1>4. Accepted(n, NoFile, r, wr, ws, up, done)  BY <1>1 DEF Agreed, Accepted
<1>5. OfFile(n, NoFile, r, wr)  BY <1>1 DEF Agreed, OfFile
<1>6. Chained(n, NoFile, r, wr)  BY <1>1 DEF Agreed, Chained
<1>7. Sought(n, NoFile, r, ws)  BY <1>1 DEF Agreed, Sought
<1> QED  BY <1>1, <1>2, <1>3, <1>4, <1>5, <1>6, <1>7 DEF Agreed, PausedS, PausedR

\* The receiver's ends: it is done with the file, has lost its connection, or
\* nobody counts on it any more.
LEMMA ReceiverDrops ==
  ASSUME NEW n, NEW s \in FileTransfers, NEW r \in FileTransfers, NEW wr \in Seq(FilePackets),
         NEW ws \in Seq(FilePackets), NEW up \in BOOLEAN, NEW done,
         Agreed(n, s, r, wr, ws, up, done),
         NEW more, done \subseteq more,
         \/ r.file \in more
         \/ /\ \A i \in 1 .. Len(wr) : Is(wr[i], n, {"data"}) => wr[i].file # r.file
            /\ Used(s) => s.file # r.file
  PROVE  Agreed(n, s, NoFile, wr, ws, up, more)
<1>1. ~ Used(NoFile) /\ ~ Same(s, NoFile)  BY DEF NoFile, Used, Same
<1>2. Newer(n, s, NoFile, wr)  BY <1>1 DEF Agreed, Newer
<1>3. \A g : Got(n, r, wr, g) => Got(n, NoFile, wr, g)  BY <1>1 DEF Got
<1>4. GotFirst(n, s, NoFile, wr, ws)  BY <1>3 DEF Agreed, GotFirst
<1>5. Accepted(n, s, NoFile, wr, ws, up, more)
  <2>1. \A g : Started(NoFile, g)  BY <1>1 DEF Started
  <2>2. \A g : Kept(r, g, up, done) /\ (r.file \in more \/ g # r.file) => Kept(NoFile, g, up, more)
    BY <1>1 DEF Kept
  <2>3. ASSUME NEW i \in 1 .. Len(wr), Is(wr[i], n, {"data"}) PROVE Kept(NoFile, wr[i].file, up, more)
    BY <2>2, <2>3 DEF Agreed, Accepted
  <2>4. ASSUME NEW i \in 1 .. Len(ws), Is(ws[i], n, {"accept"}), Used(s), s.file = ws[i].file
        PROVE Kept(NoFile, s.file, up, more)
    BY <2>2, <2>4 DEF Agreed, Accepted
  <2>5. Going(s) => Kept(NoFile, s.file, up, more)
    BY <2>2 DEF Agreed, Accepted, Going, Used
  <2> QED  BY <2>1, <2>3, <2>4, <2>5 DEF Accepted
<1>6. OfFile(n, s, NoFile, wr)  BY <1>1 DEF Agreed, OfFile
<1>7. Chained(n, s, NoFile, wr)  BY <1>1 DEF Agreed, Chained
<1>8. Sought(n, s, NoFile, ws)  BY <1>1 DEF Agreed, Sought
<1> QED  BY <1>1, <1>2, <1>4, <1>5, <1>6, <1>7, <1>8 DEF Agreed, PausedS, PausedR

\* Without a connection of the receiver.
LEMMA NoReceiver ==
  ASSUME NEW n, NEW s \in FileTransfers, NEW wr, Len(wr) = 0, NEW ws, NEW r, NEW done,
         Sought(n, s, r, ws), NEW t
  PROVE  Agreed(n, t, NoFile, wr, ws, FALSE, done)
<1>1. ~ Used(NoFile) /\ ~ Same(t, NoFile)  BY DEF NoFile, Used, Same
<1>2. \A i \in 1 .. Len(wr) : FALSE  OBVIOUS
<1>3. Ordered(n, wr) /\ Newer(n, t, NoFile, wr)  BY <1>1, <1>2 DEF Ordered, Newer
<1>4. \A g : Got(n, NoFile, wr, g)  BY <1>1, <1>2 DEF Got
<1>5. GotFirst(n, t, NoFile, wr, ws)  BY <1>4 DEF GotFirst
<1>6. Accepted(n, t, NoFile, wr, ws, FALSE, done)  BY <1>1, <1>2 DEF Accepted, Started, Kept
<1>7. OfFile(n, t, NoFile, wr) /\ Chained(n, t, NoFile, wr)  BY <1>1, <1>2 DEF OfFile, Chained
<1>8. Sought(n, t, NoFile, ws)  BY <1>1 DEF Sought
<1> QED  BY <1>1, <1>3, <1>5, <1>6, <1>7, <1>8 DEF Agreed, PausedS, PausedR

-----------------------------------------------------------------------------
(* What the sender does.                                                   *)

\* new_filesender: a file that is newer than all there are.
LEMMA SenderOffers ==
  ASSUME NEW n, NEW s \in FileTransfers, NEW r \in FileTransfers, NEW wr \in Seq(FilePackets),
         NEW ws \in Seq(FilePackets), NEW up \in BOOLEAN, NEW done,
         Agreed(n, s, r, wr, ws, up, done),
         ~ Used(s), NEW m, NEW v, Longer(wr, v, m), NEW t,
         m.type = "offer", m.number = n, m.file \in Nat, t = Offered(m.size, m.file),
         \A i \in 1 .. Len(wr) : wr[i].file < m.file,
         \A i \in 1 .. Len(ws) : ws[i].file < m.file,
         r.file < m.file
  PROVE  Agreed(n, t, r, v, ws, up, done)
<1>0. r.file \in Nat  BY FileTypesOK
<1>1. t.status = "NotAccepted" /\ t.size = m.size /\ t.transferred = 0 /\ t.file = m.file /\ ~ t.us /\ ~ t.other
  BY DEF Offered, NoFile
<1>2. Used(t) /\ ~ Going(t) /\ ~ Same(t, r)  BY <1>0, <1>1 DEF Used, Going, Same
<1>3. /\ Is(m, n, {"offer"}) /\ ~ Is(m, n, {"data"}) /\ ~ Is(m, n, {"kill"})
      /\ ~ Is(m, n, {"data", "pause", "accept"}) /\ ~ Is(m, n, {"pause", "accept"})
  BY DEF Is
<1>a. /\ \A i \in 1 .. Len(wr) : wr[i].file \in Nat /\ wr[i].file < t.file
      /\ \A i \in 1 .. Len(ws) : ws[i].file \in Nat /\ ws[i].file < t.file
      /\ r.file < t.file
  <2>1. \A i \in 1 .. Len(wr) : wr[i] \in FilePackets  OBVIOUS
  <2>2. \A i \in 1 .. Len(ws) : ws[i] \in FilePackets  OBVIOUS
  <2> QED  BY <1>1, <2>1, <2>2 DEF FilePackets
<1>4. Newer(n, t, r, wr)  BY <1>0, <1>1, <1>2, <1>a DEF Agreed, Newer
<1>5. GotFirst(n, t, r, wr, ws)  BY <1>2 DEF Agreed, GotFirst
<1>6. Accepted(n, t, r, wr, ws, up, done)
  <2>1. \A i \in 1 .. Len(ws) : t.file # ws[i].file  BY <1>1, <1>a
  <2> QED  BY <1>2, <2>1 DEF Agreed, Accepted
<1>7. OfFile(n, t, r, wr)
  <2>1. \A i \in 1 .. Len(wr) : t.file # wr[i].file  BY <1>1, <1>a
  <2> QED  BY <1>2, <2>1 DEF Agreed, OfFile
<1>8. Chained(n, t, r, wr)  BY <1>2 DEF Agreed, Chained, Same
<1>9. Sought(n, t, r, ws)  BY <1>2 DEF Agreed, Sought
<1>10. Ordered(n, v)  BY <1>3, OrderedLonger DEF Agreed
<1>11. Newer(n, t, r, v)  BY <1>1, <1>2, <1>3, <1>4, NewerLonger
<1>12. GotFirst(n, t, r, v, ws)  BY <1>2, <1>3, <1>5, GotFirstLonger
<1>13. Accepted(n, t, r, v, ws, up, done)  BY <1>3, <1>6, AcceptedLonger
<1>14. OfFile(n, t, r, v)  BY <1>3, <1>7, OfFileLonger
<1>15. Chained(n, t, r, v)  BY <1>3, <1>8, ChainedLonger
<1> QED  BY <1>2, <1>9, <1>10, <1>11, <1>12, <1>13, <1>14, <1>15 DEF Agreed, PausedS, PausedR

\* A kill goes out: the application's own, or the answer to a control packet.
LEMMA SenderKills ==
  ASSUME NEW n, NEW s \in FileTransfers, NEW r \in FileTransfers, NEW wr \in Seq(FilePackets),
         NEW ws \in Seq(FilePackets), NEW up \in BOOLEAN, NEW done,
         Agreed(n, s, r, wr, ws, up, done),
         ~ Used(s), NEW m, NEW v, Longer(wr, v, m), m.type = "kill"
  PROVE  Agreed(n, s, r, v, ws, up, done)
<1>1. /\ ~ Is(m, n, {"offer"}) /\ ~ Is(m, n, {"data"})
      /\ ~ Is(m, n, {"data", "pause", "accept"}) /\ ~ Is(m, n, {"pause", "accept"})
  BY DEF Is
<1>2. s.file \in Nat  BY FileTypesOK
<1>3. Ordered(n, v)  BY <1>1, OrderedLonger DEF Agreed
<1>4. Newer(n, s, r, v)  BY <1>1, <1>2, NewerLonger DEF Agreed
<1>5. GotFirst(n, s, r, v, ws)  BY <1>1, GotFirstLonger DEF Agreed
<1>6. Accepted(n, s, r, v, ws, up, done)  BY <1>1, AcceptedLonger DEF Agreed
<1>7. OfFile(n, s, r, v)  BY <1>1, OfFileLonger DEF Agreed
<1>8. Chained(n, s, r, v)  BY <1>1, ChainedLonger DEF Agreed
<1>9. PausedS(n, s, r, v)  BY <1>1, PausedSLonger DEF Agreed
<1> QED  BY <1>3, <1>4, <1>5, <1>6, <1>7, <1>8, <1>9 DEF Agreed

\* file_control: a pause or its end.
LEMMA SenderPauses ==
  ASSUME NEW n, NEW s \in FileTransfers, NEW r \in FileTransfers, NEW wr \in Seq(FilePackets),
         NEW ws \in Seq(FilePackets), NEW up \in BOOLEAN, NEW done,
         Agreed(n, s, r, wr, ws, up, done),
         s.status = "Transferring", NEW us \in BOOLEAN, NEW t, t = [s EXCEPT !.us = us],
         NEW m, NEW v, Longer(wr, v, m), m.number = n, m.file = s.file,
         m.type \in {"pause", "accept"}, us <=> m.type = "pause"
  PROVE  Agreed(n, t, r, v, ws, up, done)
<1>0. s.file \in Nat  BY FileTypesOK
<1>1. /\ t.status = s.status /\ t.file = s.file /\ t.size = s.size /\ t.transferred = s.transferred
      /\ t.other = s.other /\ t.us = us
  BY DEF FileTransfers
<1>2. /\ Used(t) <=> Used(s)
      /\ Going(t) <=> Going(s)
      /\ Same(t, r) <=> Same(s, r)
      /\ Going(s) /\ Used(s)
  BY <1>1 DEF Used, Going, Same
<1>3. /\ ~ Is(m, n, {"offer"}) /\ ~ Is(m, n, {"data"}) /\ ~ Is(m, n, {"kill"})
      /\ Is(m, n, {"data", "pause", "accept"}) /\ Is(m, n, {"pause", "accept"})
  BY DEF Is
<1>4. Newer(n, t, r, wr)  BY <1>1, <1>2 DEF Agreed, Newer
<1>5. GotFirst(n, t, r, wr, ws)  BY <1>1, <1>2 DEF Agreed, GotFirst
<1>6. Accepted(n, t, r, wr, ws, up, done)  BY <1>1, <1>2 DEF Agreed, Accepted
<1>7. OfFile(n, t, r, wr)  BY <1>1, <1>2 DEF Agreed, OfFile
<1>8. Chained(n, t, r, wr)  BY <1>1, <1>2 DEF Agreed, Chained
<1>9. Sought(n, t, r, ws)  BY <1>1, <1>2 DEF Agreed, Sought
<1>10. PausedR(n, t, r, ws)  BY <1>1, <1>2 DEF Agreed, PausedR
<1>11. Ordered(n, v)  BY <1>3, OrderedLonger DEF Agreed
<1>12. Newer(n, t, r, v)  BY <1>0, <1>1, <1>3, <1>4, NewerLonger
<1>13. Got(n, r, wr, m.file) /\ Started(r, m.file)  BY <1>2 DEF Agreed, GotFirst, Accepted
<1>14. GotFirst(n, t, r, v, ws)  BY <1>3, <1>5, <1>13, GotFirstLonger
<1>15. Accepted(n, t, r, v, ws, up, done)  BY <1>3, <1>6, <1>13, AcceptedLonger
<1>16. OfFile(n, t, r, v)  BY <1>3, <1>7, OfFileLonger
<1>17. Chained(n, t, r, v)  BY <1>3, <1>8, ChainedLonger
<1>18. PausedS(n, t, r, v)
  <2>1. m.file = t.file /\ (t.us <=> m.type = "pause")  BY <1>1
  <2> QED  BY <1>3, <2>1 DEF PausedS, Longer, IsNewest, NoneOf
<1> QED  BY <1>9, <1>10, <1>11, <1>12, <1>14, <1>15, <1>16, <1>17, <1>18 DEF Agreed

\* file_data.
LEMMA SenderSends ==
  ASSUME NEW n, NEW s \in FileTransfers, NEW r \in FileTransfers, NEW wr \in Seq(FilePackets),
         NEW ws \in Seq(FilePackets), NEW up \in BOOLEAN, NEW done,
         Agreed(n, s, r, wr, ws, up, done),
         s.status = "Transferring", NEW t \in FileTransfers,
         NEW m, NEW v, Longer(wr, v, m), m.number = n, m.file = s.file, m.type = "data",
         m.position = s.transferred, m.size \in Nat, m.size <= Chunk, m.position + m.size <= s.size,
         m.last <=> m.size # Chunk \/ m.position + m.size = s.size,
         t.transferred = m.position + m.size, t.status \in {"Transferring", "Finished"},
         t.file = s.file, t.size = s.size, t.us = s.us, t.other = s.other
  PROVE  Agreed(n, t, r, v, ws, up, done)
<1>0. s.file \in Nat /\ r.file \in Nat  BY FileTypesOK
<1>2. /\ Used(t) /\ Used(s) /\ Going(t) /\ Going(s)
      /\ Same(t, r) <=> Same(s, r)
      /\ t.status # "NotAccepted"
  BY DEF Used, Going, Same
<1>3. /\ ~ Is(m, n, {"offer"}) /\ Is(m, n, {"data"}) /\ ~ Is(m, n, {"kill"})
      /\ Is(m, n, {"data", "pause", "accept"}) /\ ~ Is(m, n, {"pause", "accept"})
  BY DEF Is
<1>20. Got(n, r, wr, m.file) /\ Started(r, m.file) /\ Kept(r, m.file, up, done)
  BY <1>2 DEF Agreed, GotFirst, Accepted
<1>21. Used(r) => r.file = s.file /\ s.size = r.size
  <2>1. Used(r) => r.file <= s.file /\ s.file <= r.file  BY <1>2, <1>20 DEF Agreed, Newer, Got
  <2> QED  BY <1>0, <1>2, <2>1 DEF Agreed, OfFile, Same
<1>22. ASSUME NEW i \in 1 .. Len(wr)
       PROVE  ~ Is(wr[i], n, {"offer"}) /\ (Is(wr[i], n, {"kill"}) => wr[i].file # m.file)
  <2>1. wr[i] \in FilePackets  OBVIOUS
  <2>2. wr[i].file \in Nat  BY <2>1 DEF FilePackets
  <2>3. Is(wr[i], n, {"offer"}) => wr[i].file <= s.file /\ s.file < wr[i].file
    BY <1>2, <1>20 DEF Agreed, Newer, Got
  <2>4. Is(wr[i], n, {"kill"}) => wr[i].file # s.file  BY <1>2 DEF Agreed, Newer
  <2> QED  BY <1>0, <2>2, <2>3, <2>4
<1>4. Newer(n, t, r, wr)  BY <1>2, <1>22 DEF Agreed, Newer
<1>5. GotFirst(n, t, r, wr, ws)  BY <1>2 DEF Agreed, GotFirst
<1>6. Accepted(n, t, r, wr, ws, up, done)  BY <1>2 DEF Agreed, Accepted
<1>7. OfFile(n, t, r, wr)  BY <1>2 DEF Agreed, OfFile
<1>9. Sought(n, t, r, ws)  BY <1>2 DEF Agreed, Sought
<1>10. PausedR(n, t, r, ws)  BY <1>2 DEF Agreed, PausedR
<1>11. Ordered(n, v)  BY <1>3, <1>22, OrderedLonger DEF Agreed
<1>12. Newer(n, t, r, v)  BY <1>0, <1>3, <1>4, NewerLonger
<1>14. GotFirst(n, t, r, v, ws)  BY <1>3, <1>5, <1>20, GotFirstLonger
<1>15. Accepted(n, t, r, v, ws, up, done)  BY <1>3, <1>6, <1>20, AcceptedLonger
<1>16. OfFile(n, t, r, v)
  <2>1. Used(r) => /\ m.file = r.file /\ m.position + m.size <= r.size /\ m.size <= Chunk
                   /\ m.last <=> m.size # Chunk \/ m.position + m.size = r.size
    BY <1>21
  <2> QED  BY <1>2, <1>3, <1>7, <2>1, OfFileLonger
<1>17. Chained(n, t, r, v)  BY <1>2, <1>3, <1>21, ChainedData DEF Agreed
<1>18. PausedS(n, t, r, v)
  <2>1. PausedS(n, t, r, wr)  BY <1>2 DEF Agreed, PausedS
  <2>2. \A x, y : PausedS(n, x, y, wr) => PausedS(n, x, y, v)  BY <1>3, PausedSLonger
  <2> QED  BY <2>1, <2>2
<1> QED  BY <1>9, <1>10, <1>11, <1>12, <1>14, <1>15, <1>16, <1>17, <1>18 DEF Agreed

-----------------------------------------------------------------------------
(* The sender takes a control packet about its own file.                   *)

\* The first packet is the newest of its kind if there is none after it.
LEMMA FirstIsNewest ==
  ASSUME NEW n, NEW w \in Seq(FilePackets), NEW v, Shorter(w, v), NEW g, NEW types,
         Is(w[1], n, types), w[1].file = g, NoneOf(v, n, g, types)
  PROVE  1 \in 1 .. Len(w) /\ IsNewest(w, 1, n, g, types)
<1>1. ASSUME NEW k \in 1 .. Len(w), 1 < k PROVE ~ (Is(w[k], n, types) /\ w[k].file = g)
  <2>1. k - 1 \in 1 .. Len(v) /\ v[k - 1] = w[k]  BY <1>1 DEF Shorter
  <2> QED  BY <2>1 DEF NoneOf
<1> QED  BY <1>1 DEF IsNewest, Shorter

LEMMA SenderAccepted ==
  ASSUME NEW n, NEW s \in FileTransfers, NEW r \in FileTransfers, NEW wr \in Seq(FilePackets),
         NEW ws \in Seq(FilePackets), NEW up \in BOOLEAN, NEW done,
         Agreed(n, s, r, wr, ws, up, done),
         NEW v, Shorter(ws, v), Is(ws[1], n, {"accept"}), ws[1].file = s.file, Used(s),
         s.status = "NotAccepted" => ~ s.other, NEW t,
         \/ s.status = "NotAccepted" /\ t = [s EXCEPT !.status = "Transferring"]
         \/ s.status # "NotAccepted" /\ t = [s EXCEPT !.other = FALSE]
  PROVE  Agreed(n, t, r, wr, v, up, done)
<1>0. /\ s.file \in Nat /\ r.file \in Nat /\ 1 \in 1 .. Len(ws)
      /\ s.status \in {"None", "NotAccepted", "Transferring", "Finished"}
  BY FileTypesOK DEF Shorter
<1>1. /\ t.file = s.file /\ t.size = s.size /\ t.transferred = s.transferred /\ t.us = s.us
      /\ t.status \in {"Transferring", "Finished"} /\ t.other = FALSE
      /\ s.status # "NotAccepted" => t.status = s.status
  BY <1>0 DEF FileTransfers, Used
<1>2. Used(t) /\ Going(t) /\ t.status # "NotAccepted" /\ (Same(t, r) <=> Same(s, r))
  BY <1>1 DEF Used, Going, Same
<1>3. /\ Is(ws[1], n, {"accept", "pause", "seek"}) /\ Is(ws[1], n, {"pause", "accept"})
      /\ ~ Is(ws[1], n, {"seek"})
  BY DEF Is
<1>4. Got(n, r, wr, s.file)  BY <1>0, <1>3 DEF Agreed, GotFirst
<1>5. Started(r, s.file) /\ Kept(r, s.file, up, done)  BY <1>0 DEF Agreed, Accepted
<1>6. Newer(n, t, r, wr)
  <2>1. ASSUME NEW i \in 1 .. Len(wr), Is(wr[i], n, {"offer"}) PROVE wr[i].file # s.file
    <3>1. wr[i] \in FilePackets  OBVIOUS
    <3>2. wr[i].file \in Nat  BY <3>1 DEF FilePackets
    <3>3. s.file < wr[i].file  BY <1>4, <2>1 DEF Got
    <3> QED  BY <1>0, <3>2, <3>3
  <2> QED  BY <1>1, <1>2, <2>1 DEF Agreed, Newer
<1>7. GotFirst(n, t, r, wr, v)
  <2>1. GotFirst(n, t, r, wr, ws)  BY <1>1, <1>4 DEF Agreed, GotFirst
  <2> QED  BY <2>1, GotFirstTailS
<1>8. Accepted(n, t, r, wr, v, up, done)
  <2>1. Accepted(n, t, r, wr, ws, up, done)  BY <1>1, <1>2, <1>5 DEF Agreed, Accepted
  <2> QED  BY <2>1, AcceptedTailS
<1>9. OfFile(n, t, r, wr)  BY <1>1, <1>2 DEF Agreed, OfFile
<1>10. Chained(n, t, r, wr)
  <2>1. CASE Going(s)  BY <1>1, <1>2, <2>1 DEF Agreed, Chained, Going, Used
  <2>2. CASE ~ Going(s)
    <3>1. s.status = "NotAccepted"  BY <1>0, <2>2 DEF Going, Used
    <3>2. ASSUME Used(r), r.file = s.file PROVE \A i \in 1 .. Len(wr) : ~ Is(wr[i], n, {"data"})
      BY <2>2, <3>2 DEF Agreed, OfFile
    <3>3. NoneOf(ws, n, s.file, {"seek"})
      <4>1. ASSUME NEW k \in 1 .. Len(ws), Is(ws[k], n, {"seek"}) PROVE ws[k].file # s.file
        <5>1. 1 < k  BY <1>3, <4>1
        <5> QED  BY <1>0, <4>1, <5>1 DEF Agreed, Sought
      <4> QED  BY <4>1 DEF NoneOf
    <3>4. Same(s, r) => s.transferred = r.transferred  BY <3>1, <3>3 DEF Agreed, Sought
    <3> QED  BY <1>1, <3>2, <3>4 DEF Agreed, Chained, Same
  <2> QED  BY <2>1, <2>2
<1>11. Sought(n, t, r, v)
  <2>1. Sought(n, t, r, ws)  BY <1>1, <1>2 DEF Agreed, Sought
  <2> QED  BY <1>3, <2>1, SoughtTail
<1>12. PausedS(n, t, r, wr)  BY <1>1, <1>2 DEF Agreed, PausedS
<1>13. PausedR(n, t, r, v)
  <2> SUFFICES ASSUME Same(s, r) PROVE PausedR(n, t, r, v)  BY <1>2 DEF PausedR
  <2>1. ASSUME NEW i \in 1 .. Len(v), IsNewest(v, i, n, s.file, {"pause", "accept"})
        PROVE  r.us <=> v[i].type = "pause"
    <3>1. i + 1 \in 1 .. Len(ws) /\ v[i] = ws[i + 1] /\ IsNewest(ws, i + 1, n, s.file, {"pause", "accept"})
      BY <2>1, NewestTail
    <3> QED  BY <3>1 DEF Agreed, PausedR
  <2>2. NoneOf(v, n, s.file, {"pause", "accept"}) => ~ r.us
    <3>1. NoneOf(v, n, s.file, {"pause", "accept"}) => IsNewest(ws, 1, n, s.file, {"pause", "accept"})
      BY <1>3, FirstIsNewest
    <3>2. ws[1].type # "pause"  BY DEF Is
    <3> QED  BY <1>0, <3>1, <3>2 DEF Agreed, PausedR
  <2> QED  BY <1>1, <1>2, <2>1, <2>2 DEF PausedR
<1> QED  BY <1>6, <1>7, <1>8, <1>9, <1>10, <1>11, <1>12, <1>13 DEF Agreed

LEMMA SenderIsPaused ==
  ASSUME NEW n, NEW s \in FileTransfers, NEW r \in FileTransfers, NEW wr \in Seq(FilePackets),
         NEW ws \in Seq(FilePackets), NEW up \in BOOLEAN, NEW done,
         Agreed(n, s, r, wr, ws, up, done),
         NEW v, Shorter(ws, v), Is(ws[1], n, {"pause"}), ws[1].file = s.file, Used(s), NEW t,
         t = IF s.status = "Transferring" THEN [s EXCEPT !.other = TRUE] ELSE s
  PROVE  Agreed(n, t, r, wr, v, up, done)
<1>0. 1 \in 1 .. Len(ws) /\ s.status \in {"None", "NotAccepted", "Transferring", "Finished"}
  BY FileTypesOK DEF Shorter
<1>1. /\ t.file = s.file /\ t.size = s.size /\ t.transferred = s.transferred /\ t.us = s.us
      /\ t.status = s.status /\ (s.status = "Transferring" => t.other = TRUE)
  BY DEF FileTransfers
<1>2. Used(t) /\ (Going(t) <=> Going(s)) /\ (Same(t, r) <=> Same(s, r))
  BY <1>1 DEF Used, Going, Same
<1>3. /\ Is(ws[1], n, {"pause", "accept"}) /\ ~ Is(ws[1], n, {"seek"})  BY DEF Is
<1>6. Newer(n, t, r, wr)  BY <1>1, <1>2 DEF Agreed, Newer
<1>7. GotFirst(n, t, r, wr, v)
  <2>1. GotFirst(n, t, r, wr, ws)  BY <1>1, <1>2 DEF Agreed, GotFirst
  <2> QED  BY <2>1, GotFirstTailS
<1>8. Accepted(n, t, r, wr, v, up, done)
  <2>1. Accepted(n, t, r, wr, ws, up, done)  BY <1>1, <1>2 DEF Agreed, Accepted
  <2> QED  BY <2>1, AcceptedTailS
<1>9. OfFile(n, t, r, wr)  BY <1>1, <1>2 DEF Agreed, OfFile
<1>10. Chained(n, t, r, wr)  BY <1>1, <1>2 DEF Agreed, Chained, Used
<1>11. Sought(n, t, r, v)
  <2>1. Sought(n, t, r, ws)  BY <1>1, <1>2 DEF Agreed, Sought
  <2> QED  BY <1>3, <2>1, SoughtTail
<1>12. PausedS(n, t, r, wr)  BY <1>1, <1>2 DEF Agreed, PausedS
<1>13. PausedR(n, t, r, v)
  <2> SUFFICES ASSUME Same(s, r) PROVE PausedR(n, t, r, v)  BY <1>2 DEF PausedR
  <2>0. s.status # "NotAccepted"
    <3>1. ~ \E i \in 1 .. Len(ws) : i < 1  BY <1>0
    <3> QED  BY <1>0, <3>1 DEF Agreed, PausedR
  <2>1. ASSUME NEW i \in 1 .. Len(v), IsNewest(v, i, n, s.file, {"pause", "accept"})
        PROVE  r.us <=> v[i].type = "pause"
    <3>1. i + 1 \in 1 .. Len(ws) /\ v[i] = ws[i + 1] /\ IsNewest(ws, i + 1, n, s.file, {"pause", "accept"})
      BY <2>1, NewestTail
    <3> QED  BY <3>1 DEF Agreed, PausedR
  <2>2. NoneOf(v, n, s.file, {"pause", "accept"}) => r.us
    <3>1. NoneOf(v, n, s.file, {"pause", "accept"}) => IsNewest(ws, 1, n, s.file, {"pause", "accept"})
      BY <1>3, FirstIsNewest
    <3>2. ws[1].type = "pause"  BY DEF Is
    <3> QED  BY <1>0, <3>1, <3>2 DEF Agreed, PausedR
  <2> QED  BY <1>1, <1>2, <2>0, <2>1, <2>2 DEF PausedR
<1> QED  BY <1>6, <1>7, <1>8, <1>9, <1>10, <1>11, <1>12, <1>13 DEF Agreed

LEMMA SenderSeeks ==
  ASSUME NEW n, NEW s \in FileTransfers, NEW r \in FileTransfers, NEW wr \in Seq(FilePackets),
         NEW ws \in Seq(FilePackets), NEW up \in BOOLEAN, NEW done,
         Agreed(n, s, r, wr, ws, up, done),
         NEW v, Shorter(ws, v), Is(ws[1], n, {"seek"}), ws[1].file = s.file, Used(s), NEW t,
         t = IF s.status = "NotAccepted" /\ ws[1].position < s.size
             THEN [s EXCEPT !.transferred = ws[1].position, !.requested = ws[1].position] ELSE s
  PROVE  Agreed(n, t, r, wr, v, up, done)
<1>0. /\ s.file \in Nat /\ r.file \in Nat /\ 1 \in 1 .. Len(ws)
      /\ s.status \in {"None", "NotAccepted", "Transferring", "Finished"}
  BY FileTypesOK DEF Shorter
<1>1. /\ t.file = s.file /\ t.size = s.size /\ t.us = s.us /\ t.other = s.other /\ t.status = s.status
      /\ s.status # "NotAccepted" => t.transferred = s.transferred
      /\ s.status = "NotAccepted" /\ ws[1].position < s.size => t.transferred = ws[1].position
  BY DEF FileTransfers
<1>2. Used(t) /\ (Going(t) <=> Going(s)) /\ (Same(t, r) <=> Same(s, r))
  BY <1>1 DEF Used, Going, Same
<1>3. Is(ws[1], n, {"accept", "pause", "seek"}) /\ ~ Is(ws[1], n, {"pause", "accept"})  BY DEF Is
<1>4. Got(n, r, wr, s.file)  BY <1>0, <1>3 DEF Agreed, GotFirst
<1>6. Newer(n, t, r, wr)
  <2>1. ASSUME NEW i \in 1 .. Len(wr), Is(wr[i], n, {"offer"}) PROVE wr[i].file # s.file
    <3>1. wr[i] \in FilePackets  OBVIOUS
    <3>2. wr[i].file \in Nat  BY <3>1 DEF FilePackets
    <3>3. s.file < wr[i].file  BY <1>4, <2>1 DEF Got
    <3> QED  BY <1>0, <3>2, <3>3
  <2> QED  BY <1>1, <1>2, <2>1 DEF Agreed, Newer
<1>7. GotFirst(n, t, r, wr, v)
  <2>1. GotFirst(n, t, r, wr, ws)  BY <1>1, <1>2 DEF Agreed, GotFirst
  <2> QED  BY <2>1, GotFirstTailS
<1>8. Accepted(n, t, r, wr, v, up, done)
  <2>1. Accepted(n, t, r, wr, ws, up, done)  BY <1>1, <1>2 DEF Agreed, Accepted
  <2> QED  BY <2>1, AcceptedTailS
<1>9. OfFile(n, t, r, wr)  BY <1>1, <1>2 DEF Agreed, OfFile
<1>10. Chained(n, t, r, wr)
  <2>1. CASE s.status # "NotAccepted"  BY <1>1, <1>2, <2>1 DEF Agreed, Chained, Used
  <2>2. CASE s.status = "NotAccepted"
    <3>1. ~ Going(s)  BY <2>2 DEF Going
    <3>2. ASSUME Used(r), r.file = s.file PROVE \A i \in 1 .. Len(wr) : ~ Is(wr[i], n, {"data"})
      BY <3>1, <3>2 DEF Agreed, OfFile
    <3> QED  BY <1>1, <1>2, <3>1, <3>2 DEF Agreed, Chained
  <2> QED  BY <2>1, <2>2
<1>11. Sought(n, t, r, v)
  <2>1. \A i, j \in 1 .. Len(v) :
          i < j /\ Is(v[i], n, {"accept"}) /\ Is(v[j], n, {"seek"}) => v[i].file # v[j].file
    <3>1. Sought(n, s, r, ws)  BY DEF Agreed
    <3> QED  BY <3>1, SoughtOrder
  <2>2. ASSUME Same(s, r), NEW i \in 1 .. Len(v)
        PROVE  /\ Is(v[i], n, {"seek"}) /\ v[i].file = s.file => v[i].position < s.size
               /\ s.status = "NotAccepted" /\ IsNewest(v, i, n, s.file, {"seek"}) =>
                    r.transferred = v[i].position
    <3>1. i + 1 \in 1 .. Len(ws) /\ v[i] = ws[i + 1]  BY DEF Shorter
    <3> QED  BY <2>2, <3>1, NewestTail DEF Agreed, Sought
  <2>3. ASSUME Same(s, r), s.status = "NotAccepted", NoneOf(v, n, s.file, {"seek"})
        PROVE  r.transferred = t.transferred
    <3>1. IsNewest(ws, 1, n, s.file, {"seek"})  BY <2>3, FirstIsNewest
    <3>2. r.transferred = ws[1].position /\ ws[1].position < s.size
      BY <1>0, <2>3, <3>1 DEF Agreed, Sought
    <3> QED  BY <1>1, <2>3, <3>2
  <2> QED  BY <1>1, <1>2, <2>1, <2>2, <2>3 DEF Sought
<1>12. PausedS(n, t, r, wr)  BY <1>1, <1>2 DEF Agreed, PausedS
<1>13. PausedR(n, t, r, v)
  <2>1. PausedR(n, t, r, ws)  BY <1>1, <1>2 DEF Agreed, PausedR
  <2> QED  BY <1>3, <2>1, PausedRTail
<1> QED  BY <1>6, <1>7, <1>8, <1>9, <1>10, <1>11, <1>12, <1>13 DEF Agreed

-----------------------------------------------------------------------------
(* The receiver takes an offer, a chunk or a control packet.               *)

LEMMA ReceiverOffered ==
  ASSUME NEW n, NEW s \in FileTransfers, NEW r \in FileTransfers, NEW wr \in Seq(FilePackets),
         NEW ws \in Seq(FilePackets), NEW up \in BOOLEAN, NEW done,
         Agreed(n, s, r, wr, ws, up, done),
         NEW v, Shorter(wr, v), Is(wr[1], n, {"offer"}), ~ Used(r),
         s.status = "NotAccepted" => ~ s.us, NEW t, t = Offered(wr[1].size, wr[1].file)
  PROVE  Agreed(n, s, t, v, ws, up, done)
<1>0. PICK g \in Nat : g = wr[1].file
  <2>1. wr[1] \in FilePackets  BY DEF Shorter
  <2> QED  BY <2>1 DEF FilePackets
<1>1. /\ s.file \in Nat /\ 1 \in 1 .. Len(wr)
      /\ s.status \in {"None", "NotAccepted", "Transferring", "Finished"}
  BY FileTypesOK DEF Shorter
<1>2. /\ t.status = "NotAccepted" /\ t.size = wr[1].size /\ t.transferred = 0 /\ t.file = g
      /\ ~ t.us /\ ~ t.other
  BY <1>0 DEF Offered, NoFile
<1>3. Used(t)  BY <1>2 DEF Used
<1>4. Agreed(n, s, r, v, ws, up, done)
  <2>1. Used(r) => ~ Is(wr[1], n, {"data", "pause", "accept"})  BY DEF Is
  <2> QED  BY <2>1, TakenByReceiver
<1>5. \A h : Got(n, r, wr, h) => h < g  BY <1>0, <1>1 DEF Got
<1>6. \A i \in 1 .. Len(v) : i + 1 \in 1 .. Len(wr) /\ v[i] = wr[i + 1] /\ v[i].file \in Nat
  <2>1. \A i \in 1 .. Len(v) : i + 1 \in 1 .. Len(wr) /\ v[i] = wr[i + 1] /\ v[i] \in FilePackets
    BY DEF Shorter
  <2> QED  BY <2>1 DEF FilePackets
<1>7. \A i \in 1 .. Len(v) : Is(v[i], n, {"data", "pause", "accept"}) => v[i].file < g
  BY <1>5, <1>6 DEF Agreed, GotFirst
<1>8. \A i \in 1 .. Len(ws) : Is(ws[i], n, {"accept", "pause", "seek"}) => ws[i].file < g
  BY <1>5 DEF Agreed, GotFirst
<1>9. Going(s) => s.file < g  BY <1>5 DEF Agreed, GotFirst
<1>10. \A i \in 1 .. Len(v) : Is(v[i], n, {"offer"}) => g < v[i].file
  <2>1. Is(wr[1], n, FileTypes)  BY DEF Is, FileTypes
  <2>2. \A i \in 1 .. Len(v) : 1 < i + 1  BY DEF Shorter
  <2> QED  BY <1>0, <1>1, <1>6, <2>1, <2>2 DEF Agreed, Ordered
<1>11. \A i \in 1 .. Len(v) : ~ Is(v[i], n, {"data"})
  <2>2. \A i \in 1 .. Len(v) : 1 < i + 1  BY DEF Shorter
  <2> QED  BY <1>1, <1>6, <2>2 DEF Agreed, Ordered
<1>12. Used(s) => g <= s.file  BY <1>0, <1>1 DEF Agreed, Newer
<1>13. Used(s) /\ s.file = g => s.status = "NotAccepted" /\ s.size = t.size /\ s.transferred = 0 /\ ~ s.us
  BY <1>0, <1>1, <1>2 DEF Agreed, Newer
<1>14. Newer(n, s, t, v)
  BY <1>2, <1>4, <1>10, <1>12 DEF Agreed, Newer
<1>15. \A h \in Nat : h < g => Got(n, t, v, h)
  <2>1. ASSUME NEW h \in Nat, h < g PROVE Got(n, t, v, h)
    BY <1>2, <1>6, <1>10, <2>1 DEF Got
  <2> QED  BY <2>1
<1>16. \A i \in 1 .. Len(ws) : ws[i].file \in Nat
  <2>1. \A i \in 1 .. Len(ws) : ws[i] \in FilePackets  OBVIOUS
  <2> QED  BY <2>1 DEF FilePackets
<1>17. GotFirst(n, s, t, v, ws)
  BY <1>1, <1>6, <1>7, <1>8, <1>9, <1>15, <1>16 DEF GotFirst
<1>18. \A h \in Nat : h < g => Started(t, h)  BY <1>2 DEF Started
<1>19. \A h : Kept(r, h, up, done) => Kept(t, h, up, done)  BY DEF Kept
<1>20. Accepted(n, s, t, v, ws, up, done)
  <2>1. \A i \in 1 .. Len(v) : Is(v[i], n, {"data", "pause", "accept"}) => Started(t, v[i].file)
    BY <1>6, <1>7, <1>18
  <2>2. \A i \in 1 .. Len(ws) : Is(ws[i], n, {"accept"}) => Started(t, ws[i].file)
    <3>1. \A i \in 1 .. Len(ws) : Is(ws[i], n, {"accept"}) => Is(ws[i], n, {"accept", "pause", "seek"})
      BY DEF Is
    <3> QED  BY <1>8, <1>16, <1>18, <3>1
  <2>3. Going(s) => Started(t, s.file)  BY <1>1, <1>9, <1>18
  <2> QED  BY <1>4, <1>19, <2>1, <2>2, <2>3 DEF Agreed, Accepted
<1>21. OfFile(n, s, t, v)
  BY <1>2, <1>11, <1>13 DEF OfFile, Same
<1>22. Chained(n, s, t, v)
  BY <1>0, <1>1, <1>2, <1>9, <1>11 DEF Chained
<1>23. Sought(n, s, t, ws)
  <2>1. \A i \in 1 .. Len(ws) : ~ (Is(ws[i], n, {"seek"}) /\ ws[i].file = g)
    <3>1. \A i \in 1 .. Len(ws) : Is(ws[i], n, {"seek"}) => Is(ws[i], n, {"accept", "pause", "seek"})
      BY DEF Is
    <3> QED  BY <1>8, <1>16, <3>1
  <2>2. Sought(n, s, r, ws)  BY DEF Agreed
  <2>3. \A i, j \in 1 .. Len(ws) :
          i < j /\ Is(ws[i], n, {"accept"}) /\ Is(ws[j], n, {"seek"}) => ws[i].file # ws[j].file
    BY <2>2 DEF Sought
  <2> QED  BY <1>2, <1>13, <2>1, <2>3 DEF Sought, Same, IsNewest
<1>24. PausedS(n, s, t, v)
  <2>1. \A i \in 1 .. Len(v) : ~ (Is(v[i], n, {"pause", "accept"}) /\ v[i].file = g)
    <3>1. \A i \in 1 .. Len(v) : Is(v[i], n, {"pause", "accept"}) => Is(v[i], n, {"data", "pause", "accept"})
      BY DEF Is
    <3> QED  BY <1>6, <1>7, <3>1
  <2> QED  BY <1>2, <1>13, <2>1 DEF PausedS, Same, IsNewest
<1>25. PausedR(n, s, t, ws)
  <2>1. \A i \in 1 .. Len(ws) : ~ (Is(ws[i], n, {"pause", "accept"}) /\ ws[i].file = g)
    <3>1. \A i \in 1 .. Len(ws) : Is(ws[i], n, {"pause", "accept"}) => Is(ws[i], n, {"accept", "pause", "seek"})
      BY DEF Is
    <3> QED  BY <1>8, <1>16, <3>1
  <2>2. \A i \in 1 .. Len(ws) : ~ (Is(ws[i], n, {"pause"}) /\ ws[i].file = g)  BY <2>1 DEF Is
  <2> QED  BY <1>2, <1>13, <2>1, <2>2 DEF PausedR, Same, IsNewest
<1> QED  BY <1>4, <1>14, <1>17, <1>20, <1>21, <1>22, <1>23, <1>24, <1>25 DEF Agreed

\* A chunk finds its transfer, and its place in it.
LEMMA ChunkFits ==
  ASSUME NEW n, NEW s \in FileTransfers, NEW r \in FileTransfers, NEW wr \in Seq(FilePackets),
         NEW ws \in Seq(FilePackets), NEW up \in BOOLEAN, NEW done,
         Agreed(n, s, r, wr, ws, up, done),
         1 <= Len(wr), Is(wr[1], n, {"data"}), Used(r)
  PROVE  /\ wr[1].file = r.file /\ wr[1].position = r.transferred /\ r.status = "Transferring"
         /\ wr[1].position + wr[1].size <= r.size
         /\ wr[1].last <=> wr[1].size # Chunk \/ wr[1].position + wr[1].size = r.size
<1>1. 1 \in 1 .. Len(wr) /\ Is(wr[1], n, {"data", "pause", "accept"})  BY DEF Is
<1>2. NoData(wr, n, 0, 1)  BY DEF NoData
<1>3. wr[1].file = r.file /\ wr[1].position + wr[1].size <= r.size
  BY <1>1 DEF Agreed, OfFile
<1>4. wr[1].last <=> wr[1].size # Chunk \/ wr[1].position + wr[1].size = r.size
  BY <1>1 DEF Agreed, OfFile
<1>5. wr[1].position = r.transferred  BY <1>1, <1>2 DEF Agreed, Chained
<1>6. r.status = "Transferring"  BY <1>1, <1>3 DEF Agreed, Accepted, Started
<1> QED  BY <1>3, <1>4, <1>5, <1>6

LEMMA ReceiverGets ==
  ASSUME NEW n, NEW s \in FileTransfers, NEW r \in FileTransfers, NEW wr \in Seq(FilePackets),
         NEW ws \in Seq(FilePackets), NEW up \in BOOLEAN, NEW done,
         Agreed(n, s, r, wr, ws, up, done),
         NEW v, Shorter(wr, v), Is(wr[1], n, {"data"}), Used(r),
         NEW t, t = [r EXCEPT !.transferred = wr[1].position + wr[1].size]
  PROVE  Agreed(n, s, t, v, ws, up, done)
<1>0. 1 \in 1 .. Len(wr) /\ Len(v) \in Nat /\ Len(wr) = Len(v) + 1  BY DEF Shorter
<1>1. /\ t.file = r.file /\ t.size = r.size /\ t.status = r.status /\ t.us = r.us /\ t.other = r.other
      /\ t.transferred = wr[1].position + wr[1].size
  BY DEF FileTransfers
<1>2. Used(t) /\ (Same(s, t) <=> Same(s, r))  BY <1>1 DEF Used, Same
<1>3. wr[1].file = r.file /\ r.status = "Transferring"  BY <1>0, ChunkFits
<1>4. ~ Is(wr[1], n, {"pause", "accept"})  BY DEF Is
<1>5. Ordered(n, v)  BY OrderedTail DEF Agreed
<1>6. Newer(n, s, t, v)
  <2>1. Newer(n, s, t, wr)  BY <1>1, <1>2 DEF Agreed, Newer
  <2> QED  BY <2>1, NewerTail
<1>7. GotFirst(n, s, t, v, ws)
  <2>1. \A h : Got(n, r, wr, h) => Got(n, t, wr, h)  BY <1>1, <1>2 DEF Got
  <2>2. GotFirst(n, s, t, wr, ws)  BY <2>1 DEF Agreed, GotFirst
  <2> QED  BY <2>2, GotFirstTail
<1>8. Accepted(n, s, t, v, ws, up, done)
  <2>1. \A h : /\ Started(r, h) => Started(t, h)
               /\ Kept(r, h, up, done) => Kept(t, h, up, done)
    BY <1>1, <1>2 DEF Started, Kept
  <2>2. Accepted(n, s, t, wr, ws, up, done)  BY <2>1 DEF Agreed, Accepted
  <2> QED  BY <2>2, AcceptedTail
<1>9. OfFile(n, s, t, v)
  <2>1. OfFile(n, s, t, wr)  BY <1>1, <1>2 DEF Agreed, OfFile
  <2> QED  BY <2>1, OfFileTail
<1>10. Chained(n, s, t, v)
  <2>0. \A a, b \in Nat : NoData(v, n, a, b) => NoData(wr, n, a + 1, b + 1)  BY NoDataTail
  <2>1. ASSUME NEW i \in 1 .. Len(v), Is(v[i], n, {"data"})
        PROVE  /\ NoData(v, n, 0, i) => v[i].position = t.transferred
               /\ NoData(v, n, i, Len(v) + 1) /\ Used(s) /\ s.file = t.file =>
                    s.transferred = v[i].position + v[i].size
               /\ \A j \in 1 .. Len(v) : i < j /\ Is(v[j], n, {"data"}) /\ NoData(v, n, i, j) =>
                    v[j].position = v[i].position + v[i].size
    <3>1. /\ i + 1 \in 1 .. Len(wr) /\ v[i] = wr[i + 1] /\ Is(wr[i + 1], n, {"data"})
          /\ i \in Nat /\ 1 < i + 1
      BY <1>0, <2>1 DEF Shorter
    <3>2. ASSUME NoData(v, n, 0, i) PROVE v[i].position = t.transferred
      <4>1. NoData(wr, n, 0 + 1, i + 1)  BY <2>0, <3>1, <3>2
      <4>2. NoData(wr, n, 1, i + 1)  BY <4>1
      <4> QED  BY <1>0, <1>1, <3>1, <4>2 DEF Agreed, Chained
    <3>3. ASSUME NoData(v, n, i, Len(v) + 1) PROVE NoData(wr, n, i + 1, Len(wr) + 1)
      <4>1. NoData(wr, n, i + 1, (Len(v) + 1) + 1)  BY <1>0, <2>0, <3>1, <3>3
      <4> QED  BY <1>0, <4>1
    <3>4. NoData(v, n, i, Len(v) + 1) /\ Used(s) /\ s.file = t.file => s.transferred = v[i].position + v[i].size
      BY <1>1, <3>1, <3>3 DEF Agreed, Chained
    <3>5. ASSUME NEW j \in 1 .. Len(v), i < j, Is(v[j], n, {"data"}), NoData(v, n, i, j)
          PROVE  v[j].position = v[i].position + v[i].size
      <4>1. /\ j + 1 \in 1 .. Len(wr) /\ v[j] = wr[j + 1] /\ Is(wr[j + 1], n, {"data"})
            /\ j \in Nat /\ i + 1 < j + 1
        BY <1>0, <3>1, <3>5 DEF Shorter
      <4>2. NoData(wr, n, i + 1, j + 1)  BY <2>0, <3>1, <3>5, <4>1
      <4> QED  BY <3>1, <4>1, <4>2 DEF Agreed, Chained
    <3> QED  BY <3>2, <3>4, <3>5
  <2>2. ASSUME Going(s), s.file = t.file, NoData(v, n, 0, Len(v) + 1) PROVE s.transferred = t.transferred
    <3>1. NoData(wr, n, 0 + 1, (Len(v) + 1) + 1)  BY <1>0, <2>0, <2>2
    <3>2. NoData(wr, n, 1, Len(wr) + 1)  BY <1>0, <3>1
    <3> QED  BY <1>0, <1>1, <2>2, <3>2 DEF Agreed, Chained, Going, Used
  <2> QED  BY <2>1, <2>2 DEF Chained
<1>11. Sought(n, s, t, ws)
  <2>1. ~ (Same(s, r) /\ s.status = "NotAccepted")
    BY <1>0, <1>3 DEF Agreed, OfFile, Same, Going
  <2> QED  BY <1>2, <2>1 DEF Agreed, Sought
<1>12. PausedS(n, s, t, v)
  <2>1. PausedS(n, s, t, wr)  BY <1>1, <1>2 DEF Agreed, PausedS
  <2> QED  BY <1>4, <2>1, PausedSTail
<1>13. PausedR(n, s, t, ws)  BY <1>1, <1>2 DEF Agreed, PausedR
<1> QED  BY <1>5, <1>6, <1>7, <1>8, <1>9, <1>10, <1>11, <1>12, <1>13 DEF Agreed

LEMMA ReceiverIsPaused ==
  ASSUME NEW n, NEW s \in FileTransfers, NEW r \in FileTransfers, NEW wr \in Seq(FilePackets),
         NEW ws \in Seq(FilePackets), NEW up \in BOOLEAN, NEW done,
         Agreed(n, s, r, wr, ws, up, done),
         NEW v, Shorter(wr, v), Is(wr[1], n, {"pause", "accept"}), wr[1].file = r.file, Used(r),
         NEW t, t = IF wr[1].type = "accept" THEN [r EXCEPT !.other = FALSE]
                    ELSE IF r.status = "Transferring" THEN [r EXCEPT !.other = TRUE] ELSE r
  PROVE  Agreed(n, s, t, v, ws, up, done)
<1>0. 1 \in 1 .. Len(wr)  BY DEF Shorter
<1>3. /\ wr[1].type \in {"pause", "accept"} /\ Is(wr[1], n, {"data", "pause", "accept"})
      /\ ~ Is(wr[1], n, {"data"})
  BY DEF Is
<1>4. r.status = "Transferring"  BY <1>0, <1>3 DEF Agreed, Accepted, Started
<1>1. /\ t.file = r.file /\ t.size = r.size /\ t.status = r.status /\ t.us = r.us
      /\ t.transferred = r.transferred /\ t.other = (wr[1].type = "pause")
  BY <1>3, <1>4 DEF FileTransfers
<1>2. Used(t) /\ (Same(s, t) <=> Same(s, r))  BY <1>1 DEF Used, Same
<1>5. Ordered(n, v)  BY OrderedTail DEF Agreed
<1>6. Newer(n, s, t, v)
  <2>1. Newer(n, s, t, wr)  BY <1>1, <1>2 DEF Agreed, Newer
  <2> QED  BY <2>1, NewerTail
<1>7. GotFirst(n, s, t, v, ws)
  <2>1. \A h : Got(n, r, wr, h) => Got(n, t, wr, h)  BY <1>1, <1>2 DEF Got
  <2>2. GotFirst(n, s, t, wr, ws)  BY <2>1 DEF Agreed, GotFirst
  <2> QED  BY <2>2, GotFirstTail
<1>8. Accepted(n, s, t, v, ws, up, done)
  <2>1. \A h : /\ Started(r, h) => Started(t, h)
               /\ Kept(r, h, up, done) => Kept(t, h, up, done)
    BY <1>1, <1>2 DEF Started, Kept
  <2>2. Accepted(n, s, t, wr, ws, up, done)  BY <2>1 DEF Agreed, Accepted
  <2> QED  BY <2>2, AcceptedTail
<1>9. OfFile(n, s, t, v)
  <2>1. OfFile(n, s, t, wr)  BY <1>1, <1>2 DEF Agreed, OfFile
  <2> QED  BY <2>1, OfFileTail
<1>10. Chained(n, s, t, v)
  <2>1. Chained(n, s, t, wr)  BY <1>1, <1>2 DEF Agreed, Chained
  <2> QED  BY <1>3, <2>1, ChainedTail
<1>11. Sought(n, s, t, ws)  BY <1>1, <1>2 DEF Agreed, Sought
<1>12. PausedS(n, s, t, v)
  <2> SUFFICES ASSUME Same(s, r) PROVE PausedS(n, s, t, v)  BY <1>2 DEF PausedS
  <2>1. ASSUME NEW i \in 1 .. Len(v), IsNewest(v, i, n, s.file, {"pause", "accept"})
        PROVE  s.us <=> v[i].type = "pause"
    <3>1. i + 1 \in 1 .. Len(wr) /\ v[i] = wr[i + 1] /\ IsNewest(wr, i + 1, n, s.file, {"pause", "accept"})
      BY <2>1, NewestTail
    <3> QED  BY <3>1 DEF Agreed, PausedS
  <2>2. NoneOf(v, n, s.file, {"pause", "accept"}) => (s.us <=> wr[1].type = "pause")
    <3>1. wr[1].file = s.file  BY DEF Same
    <3>2. NoneOf(v, n, s.file, {"pause", "accept"}) => IsNewest(wr, 1, n, s.file, {"pause", "accept"})
      BY <3>1, FirstIsNewest
    <3> QED  BY <1>0, <3>2 DEF Agreed, PausedS
  <2> QED  BY <1>1, <2>1, <2>2 DEF PausedS
<1>13. PausedR(n, s, t, ws)  BY <1>1, <1>2 DEF Agreed, PausedR
<1> QED  BY <1>5, <1>6, <1>7, <1>8, <1>9, <1>10, <1>11, <1>12, <1>13 DEF Agreed

\* A kill of its file: no data comes after it, and the sender has given it up.
LEMMA ReceiverIsKilled ==
  ASSUME NEW n, NEW s \in FileTransfers, NEW r \in FileTransfers, NEW wr \in Seq(FilePackets),
         NEW ws \in Seq(FilePackets), NEW up \in BOOLEAN, NEW done,
         Agreed(n, s, r, wr, ws, up, done),
         NEW v, Shorter(wr, v), Is(wr[1], n, {"kill"}), wr[1].file = r.file
  PROVE  Agreed(n, s, NoFile, v, ws, up, done)
<1>0. 1 \in 1 .. Len(wr)  BY DEF Shorter
<1>1. ~ Is(wr[1], n, {"data", "pause", "accept"})  BY DEF Is
<1>2. Agreed(n, s, r, v, ws, up, done)  BY <1>1, TakenByReceiver
<1>3. Used(s) => s.file # r.file  BY <1>0 DEF Agreed, Newer
<1>4. ASSUME NEW i \in 1 .. Len(v), Is(v[i], n, {"data"}) PROVE v[i].file # r.file
  <2>1. i + 1 \in 1 .. Len(wr) /\ v[i] = wr[i + 1] /\ 1 < i + 1  BY DEF Shorter
  <2> QED  BY <1>0, <1>4, <2>1 DEF Agreed, Ordered
<1>5. v \in Seq(FilePackets)  BY DEF Shorter
<1> QED  BY <1>2, <1>3, <1>4, <1>5, ReceiverDrops

-----------------------------------------------------------------------------
(* What the receiver's application does; the packet gets lost when the     *)
(* sender has no connection, and then it has no transfer either.           *)

LEMMA ReceiverControls ==
  ASSUME NEW n, NEW s \in FileTransfers, NEW r \in FileTransfers, NEW wr \in Seq(FilePackets),
         NEW ws \in Seq(FilePackets), NEW up \in BOOLEAN, NEW done,
         Agreed(n, s, r, wr, ws, up, done),
         r.status \in {"NotAccepted", "Transferring"}, NEW t, NEW us \in BOOLEAN,
         t.file = r.file, t.size = r.size, t.transferred = r.transferred, t.other = r.other,
         t.status = "Transferring", t.us = us,
         NEW m \in FilePackets, NEW v \in Seq(FilePackets),
         Longer(ws, v, m) \/ (v = ws /\ ~ Used(s)),
         m.number = n, m.file = r.file, m.type \in {"accept", "pause"}, us <=> m.type = "pause",
         m.type = "pause" => r.status = "Transferring"
  PROVE  Agreed(n, s, t, wr, v, up, done)
<1>0. r.file \in Nat  BY FileTypesOK
<1>1. /\ t.file = r.file /\ t.size = r.size /\ t.transferred = r.transferred /\ t.other = r.other
      /\ t.status = "Transferring" /\ t.us = us
  BY DEF FileTransfers
<1>2. Used(t) /\ Used(r) /\ (Same(s, t) <=> Same(s, r))  BY <1>1 DEF Used, Same
<1>3. \A h : /\ Got(n, r, wr, h) => Got(n, t, wr, h)
             /\ Started(t, h)
             /\ Kept(r, h, up, done) => Kept(t, h, up, done)
  BY <1>1, <1>2 DEF Got, Started, Kept
<1>4. Newer(n, s, t, wr)  BY <1>1, <1>2 DEF Agreed, Newer
<1>5. Got(n, t, wr, m.file)
  BY <1>0, <1>1, <1>2 DEF Agreed, Newer, Got
<1>6. Kept(t, m.file, up, done)  BY <1>1, <1>2 DEF Kept
<1>7. \A i \in 1 .. Len(v) : v[i] = m \/ (i \in 1 .. Len(ws) /\ v[i] = ws[i])
  BY DEF Longer
<1>8. GotFirst(n, s, t, wr, v)  BY <1>3, <1>5, <1>7 DEF Agreed, GotFirst
<1>9. Accepted(n, s, t, wr, v, up, done)  BY <1>3, <1>6, <1>7 DEF Agreed, Accepted
<1>10. OfFile(n, s, t, wr)  BY <1>1, <1>2 DEF Agreed, OfFile
<1>11. Chained(n, s, t, wr)  BY <1>1, <1>2 DEF Agreed, Chained
<1>12. PausedS(n, s, t, wr)  BY <1>1, <1>2 DEF Agreed, PausedS
<1>13. Is(m, n, {"pause", "accept"}) /\ ~ Is(m, n, {"seek"})  BY DEF Is
<1>14. Sought(n, s, t, v)
  <2>1. Sought(n, s, t, ws)  BY <1>1, <1>2 DEF Agreed, Sought
  <2>2. CASE v = ws  BY <2>1, <2>2
  <2>3. CASE Longer(ws, v, m)
    <3>1. \A i \in 1 .. Len(v) : Is(v[i], n, {"seek"}) => i \in 1 .. Len(ws) /\ v[i] = ws[i]
      BY <1>7, <1>13
    <3>2. \A i, j \in 1 .. Len(v) :
            i < j /\ Is(v[i], n, {"accept"}) /\ Is(v[j], n, {"seek"}) => v[i].file # v[j].file
      <4>1. ASSUME NEW i \in 1 .. Len(v), NEW j \in 1 .. Len(v), i < j, Is(v[j], n, {"seek"})
            PROVE  i \in 1 .. Len(ws) /\ v[i] = ws[i] /\ j \in 1 .. Len(ws) /\ v[j] = ws[j]
        BY <2>3, <3>1, <4>1 DEF Longer
      <4> QED  BY <2>1, <4>1 DEF Sought
    <3>3. ASSUME Same(s, t), NEW i \in 1 .. Len(v)
          PROVE  /\ Is(v[i], n, {"seek"}) /\ v[i].file = s.file => v[i].position < s.size
                 /\ s.status = "NotAccepted" /\ IsNewest(v, i, n, s.file, {"seek"}) =>
                      t.transferred = v[i].position
      <4>1. IsNewest(v, i, n, s.file, {"seek"}) => IsNewest(ws, i, n, s.file, {"seek"})
        BY <1>13, <2>3, NewestLonger
      <4>2. IsNewest(v, i, n, s.file, {"seek"}) => Is(v[i], n, {"seek"})  BY DEF IsNewest
      <4> QED  BY <2>1, <3>1, <3>3, <4>1, <4>2 DEF Sought
    <3>4. NoneOf(v, n, s.file, {"seek"}) => NoneOf(ws, n, s.file, {"seek"})
      BY <1>13, <2>3, NewestLonger
    <3>5. Same(s, t) /\ s.status = "NotAccepted" /\ NoneOf(v, n, s.file, {"seek"}) =>
            t.transferred = s.transferred
      BY <2>1, <3>4 DEF Sought
    <3> QED  BY <3>2, <3>3, <3>5 DEF Sought
  <2> QED  BY <2>2, <2>3
<1>15. PausedR(n, s, t, v)
  <2> SUFFICES ASSUME Same(s, r) PROVE PausedR(n, s, t, v)  BY <1>2 DEF PausedR
  <2>0. Longer(ws, v, m) /\ m.file = s.file  BY DEF Same
  <2>1. Len(v) \in 1 .. Len(v) /\ v[Len(v)] = m /\ Len(ws) < Len(v)  BY <2>0 DEF Longer
  <2>2. ASSUME NEW i \in 1 .. Len(v), IsNewest(v, i, n, s.file, {"pause", "accept"})
        PROVE  t.us <=> v[i].type = "pause"
    <3>1. i = Len(v)  BY <1>13, <2>0, <2>1, <2>2 DEF IsNewest
    <3> QED  BY <1>1, <2>1, <3>1
  <2>3. ~ NoneOf(v, n, s.file, {"pause", "accept"})  BY <1>13, <2>0, <2>1 DEF NoneOf
  <2>4. ASSUME s.status = "NotAccepted", r.status = "Transferring"
        PROVE  \E i \in 1 .. Len(ws) : Is(v[i], n, {"accept"}) /\ v[i].file = s.file
    <3>1. ~ NoneOf(ws, n, s.file, {"accept"})  BY <2>4 DEF Agreed, PausedR
    <3> QED  BY <2>0, <3>1 DEF NoneOf, Longer
  <2>5. ASSUME s.status = "NotAccepted" PROVE ~ NoneOf(v, n, s.file, {"accept"})
    <3>1. CASE r.status = "Transferring"
      <4>1. \A i \in 1 .. Len(ws) : i \in 1 .. Len(v)  BY <2>0 DEF Longer
      <4> QED  BY <2>4, <2>5, <3>1, <4>1 DEF NoneOf
    <3>2. CASE r.status # "Transferring"
      <4>1. Is(m, n, {"accept"})  BY <3>2 DEF Is
      <4> QED  BY <2>0, <2>1, <4>1 DEF NoneOf
    <3> QED  BY <3>1, <3>2
  <2>6. ASSUME s.status = "NotAccepted", NEW j \in 1 .. Len(v), Is(v[j], n, {"pause"}), v[j].file = s.file
        PROVE  \E i \in 1 .. Len(v) : i < j /\ Is(v[i], n, {"accept"}) /\ v[i].file = s.file
    <3>1. CASE j \in 1 .. Len(ws)
      <4>1. v[j] = ws[j]  BY <2>0, <3>1 DEF Longer
      <4>2. PICK i \in 1 .. Len(ws) : i < j /\ Is(ws[i], n, {"accept"}) /\ ws[i].file = s.file
        BY <2>6, <3>1, <4>1 DEF Agreed, PausedR
      <4>3. i \in 1 .. Len(v) /\ v[i] = ws[i]  BY <2>0 DEF Longer
      <4> QED  BY <4>2, <4>3
    <3>2. CASE j \notin 1 .. Len(ws)
      <4>1. v[j] = m /\ j = Len(v)  BY <2>0, <3>2 DEF Longer
      <4>2. r.status = "Transferring"  BY <2>6, <4>1 DEF Is
      <4>3. PICK i \in 1 .. Len(ws) : Is(v[i], n, {"accept"}) /\ v[i].file = s.file
        BY <2>4, <2>6, <4>2
      <4>4. i \in 1 .. Len(v) /\ i < j  BY <2>0, <4>1 DEF Longer
      <4> QED  BY <4>3, <4>4
    <3> QED  BY <3>1, <3>2
  <2> QED  BY <1>1, <2>2, <2>3, <2>5, <2>6 DEF PausedR
<1> QED  BY <1>4, <1>8, <1>9, <1>10, <1>11, <1>12, <1>14, <1>15 DEF Agreed

\* The receiver, with its transfer r of number n, asks by m for the position it
\* comes to stand at.
SeeksTo(n, r, t, m) ==
  /\ r.status = "NotAccepted" /\ m.position < r.size
  /\ t.file = r.file /\ t.size = r.size /\ t.transferred = m.position
  /\ t.other = r.other /\ t.us = r.us /\ t.status = r.status
  /\ m.number = n /\ m.file = r.file /\ m.type = "seek"

LEMMA ReceiverSeeks ==
  ASSUME NEW n, NEW s \in FileTransfers, NEW r \in FileTransfers, NEW wr \in Seq(FilePackets),
         NEW ws \in Seq(FilePackets), NEW up \in BOOLEAN, NEW done,
         Agreed(n, s, r, wr, ws, up, done), NEW t, NEW m \in FilePackets, NEW v \in Seq(FilePackets),
         SeeksTo(n, r, t, m), Longer(ws, v, m) \/ (v = ws /\ ~ Used(s))
  PROVE  Agreed(n, s, t, wr, v, up, done)
<1> /\ r.status = "NotAccepted" /\ m.position < r.size
    /\ t.file = r.file /\ t.size = r.size /\ t.transferred = m.position
    /\ t.other = r.other /\ t.us = r.us /\ t.status = r.status
    /\ m.number = n /\ m.file = r.file /\ m.type = "seek"
  BY DEF SeeksTo
<1>0. r.file \in Nat  BY FileTypesOK
<1>1. /\ t.file = r.file /\ t.size = r.size /\ t.transferred = m.position /\ t.other = r.other
      /\ t.status = r.status /\ t.us = r.us
  BY DEF FileTransfers
<1>2. Used(t) /\ Used(r) /\ (Same(s, t) <=> Same(s, r))  BY <1>1 DEF Used, Same
<1>3. \A h : /\ Got(n, r, wr, h) => Got(n, t, wr, h)
             /\ Started(r, h) => Started(t, h)
             /\ Kept(r, h, up, done) => Kept(t, h, up, done)
  BY <1>1, <1>2 DEF Got, Started, Kept
<1>4. Newer(n, s, t, wr)  BY <1>1, <1>2 DEF Agreed, Newer
<1>5. Got(n, t, wr, m.file)
  BY <1>0, <1>1, <1>2 DEF Agreed, Newer, Got
<1>6. ~ Started(r, r.file)  BY <1>2 DEF Started
<1>7. \A i \in 1 .. Len(v) : v[i] = m \/ (i \in 1 .. Len(ws) /\ v[i] = ws[i])
  BY DEF Longer
<1>13. ~ Is(m, n, {"accept"}) /\ Is(m, n, {"seek"}) /\ ~ Is(m, n, {"accept", "pause"})  BY DEF Is
<1>8. GotFirst(n, s, t, wr, v)  BY <1>3, <1>5, <1>7 DEF Agreed, GotFirst
<1>9. Accepted(n, s, t, wr, v, up, done)  BY <1>3, <1>7, <1>13 DEF Agreed, Accepted
<1>10. OfFile(n, s, t, wr)  BY <1>1, <1>2 DEF Agreed, OfFile
<1>11. Chained(n, s, t, wr)
  <2>1. \A i \in 1 .. Len(wr) : ~ Is(wr[i], n, {"data"})
    <3>1. ASSUME NEW i \in 1 .. Len(wr), Is(wr[i], n, {"data"}) PROVE FALSE
      <4>1. Is(wr[i], n, {"data", "pause", "accept"})  BY <3>1 DEF Is
      <4>2. Started(r, wr[i].file)  BY <4>1 DEF Agreed, Accepted
      <4>3. wr[i].file = r.file  BY <1>2, <3>1 DEF Agreed, OfFile
      <4> QED  BY <1>6, <4>2, <4>3
    <3> QED  BY <3>1
  <2>2. ~ (Going(s) /\ s.file = r.file)  BY <1>6 DEF Agreed, Accepted
  <2> QED  BY <1>1, <2>1, <2>2 DEF Chained
<1>12. PausedS(n, s, t, wr)  BY <1>1, <1>2 DEF Agreed, PausedS
<1>14. Sought(n, s, t, v)
  <2>2. CASE v = ws /\ ~ Used(s)
    <3>1. ~ Same(s, t)  BY <2>2 DEF Same
    <3> QED  BY <2>2, <3>1 DEF Agreed, Sought
  <2>3. CASE Longer(ws, v, m)
    <3>0. Len(v) \in 1 .. Len(v) /\ v[Len(v)] = m /\ Len(ws) < Len(v)  BY <2>3 DEF Longer
    <3>1. ASSUME NEW i \in 1 .. Len(v), NEW j \in 1 .. Len(v), i < j, Is(v[i], n, {"accept"}), Is(v[j], n, {"seek"})
          PROVE  v[i].file # v[j].file
      <4>1. i \in 1 .. Len(ws) /\ v[i] = ws[i]  BY <1>7, <1>13, <3>1
      <4>2. CASE v[j] = m
        <5>1. Started(r, ws[i].file)  BY <3>1, <4>1 DEF Agreed, Accepted
        <5> QED  BY <1>6, <4>1, <4>2, <5>1
      <4>3. CASE j \in 1 .. Len(ws) /\ v[j] = ws[j]  BY <3>1, <4>1, <4>3 DEF Agreed, Sought
      <4> QED  BY <1>7, <4>2, <4>3
    <3>2. ASSUME Same(s, r), NEW i \in 1 .. Len(v)
          PROVE  /\ Is(v[i], n, {"seek"}) /\ v[i].file = s.file => v[i].position < s.size
                 /\ IsNewest(v, i, n, s.file, {"seek"}) => t.transferred = v[i].position
      <4>1. s.size = r.size /\ m.file = s.file  BY <3>2 DEF Agreed, OfFile, Same
      <4>2. Is(v[i], n, {"seek"}) /\ v[i].file = s.file => v[i].position < s.size
        <5>1. CASE v[i] = m  BY <4>1, <5>1
        <5>2. CASE i \in 1 .. Len(ws) /\ v[i] = ws[i]  BY <3>2, <5>2 DEF Agreed, Sought
        <5> QED  BY <1>7, <5>1, <5>2
      <4>3. IsNewest(v, i, n, s.file, {"seek"}) => i = Len(v)
        BY <1>13, <3>0, <4>1 DEF IsNewest
      <4> QED  BY <1>1, <3>0, <4>2, <4>3
    <3>3. Same(s, r) => ~ NoneOf(v, n, s.file, {"seek"})
      BY <1>13, <3>0 DEF NoneOf, Same
    <3> QED  BY <1>2, <3>1, <3>2, <3>3 DEF Sought
  <2> QED  BY <2>2, <2>3
<1>15. PausedR(n, s, t, v)
  <2>1. PausedR(n, s, t, ws)  BY <1>1, <1>2 DEF Agreed, PausedR
  <2> QED  BY <1>13, <2>1, PausedRLonger
<1> QED  BY <1>4, <1>8, <1>9, <1>10, <1>11, <1>12, <1>14, <1>15 DEF Agreed

-----------------------------------------------------------------------------
(* Connections begin and end.                                              *)

LEMMA SenderIsCut ==
  ASSUME NEW n, NEW s \in FileTransfers, NEW r \in FileTransfers, NEW wr \in Seq(FilePackets),
         NEW ws \in Seq(FilePackets), NEW up \in BOOLEAN, NEW done,
         Agreed(n, s, r, wr, ws, up, done),
         ~ Used(s), NEW v, Len(v) = 0
  PROVE  Agreed(n, s, r, wr, v, up, done)
<1>1. ~ Going(s) /\ ~ Same(s, r)  BY DEF Used, Going, Same
<1>2. \A i \in 1 .. Len(v) : FALSE  OBVIOUS
<1>3. GotFirst(n, s, r, wr, v)  BY <1>2 DEF Agreed, GotFirst
<1>4. Accepted(n, s, r, wr, v, up, done)  BY <1>2 DEF Agreed, Accepted
<1>5. Sought(n, s, r, v) /\ PausedR(n, s, r, v)  BY <1>1, <1>2 DEF Sought, PausedR
<1> QED  BY <1>3, <1>4, <1>5 DEF Agreed

LEMMA AgreedAtFirst ==
  ASSUME NEW n, NEW wr, NEW ws, NEW up, NEW done,
         \A i \in 1 .. Len(wr) : ~ Is(wr[i], n, FileTypes),
         \A i \in 1 .. Len(ws) : ~ Is(ws[i], n, FileTypes)
  PROVE  Agreed(n, NoFile, NoFile, wr, ws, up, done)
<1>1. ~ Used(NoFile) /\ ~ Going(NoFile) /\ ~ Same(NoFile, NoFile)  BY DEF NoFile, Used, Going, Same
<1>2. \A i \in 1 .. Len(wr) : /\ ~ Is(wr[i], n, {"offer"}) /\ ~ Is(wr[i], n, {"data"}) /\ ~ Is(wr[i], n, {"kill"})
                              /\ ~ Is(wr[i], n, {"data", "pause", "accept"})
  BY DEF Is, FileTypes, ControlTypes
<1>3. \A i \in 1 .. Len(ws) : /\ ~ Is(ws[i], n, {"accept"}) /\ ~ Is(ws[i], n, {"seek"})
                              /\ ~ Is(ws[i], n, {"accept", "pause", "seek"})
  BY DEF Is, FileTypes, ControlTypes
<1>4. Ordered(n, wr) /\ Newer(n, NoFile, NoFile, wr)  BY <1>1, <1>2 DEF Ordered, Newer
<1>5. GotFirst(n, NoFile, NoFile, wr, ws)  BY <1>1, <1>2, <1>3 DEF GotFirst
<1>6. Accepted(n, NoFile, NoFile, wr, ws, up, done)  BY <1>1, <1>2, <1>3 DEF Accepted
<1>7. OfFile(n, NoFile, NoFile, wr) /\ Chained(n, NoFile, NoFile, wr)
  BY <1>1, <1>2 DEF OfFile, Chained
<1>8. Sought(n, NoFile, NoFile, ws)  BY <1>1, <1>3 DEF Sought
<1> QED  BY <1>1, <1>4, <1>5, <1>6, <1>7, <1>8 DEF Agreed, PausedS, PausedR

-----------------------------------------------------------------------------
(* The invariant.                                                          *)

ToReceiver == {"online", "offer", "data", "accept", "pause", "kill"}
ToSender == {"online", "accept", "pause", "kill", "seek"}

\* A packet on its way to side e; max is the newest file.
PacketFor(e, m, max) ==
  /\ m \in FilePackets
  /\ m.type \in (IF e = "receiver" THEN ToReceiver ELSE ToSender)
  /\ m.file <= max
  /\ m.type # "online" => m.number \in Numbers
  /\ m.type = "online" => ~ m.last
  /\ m.type = "offer" => m.size \in Sizes

\* A transfer of side e; only one that goes on is paused, and only the
\* sender's finishes.
TransferOf(e, t, max) ==
  /\ t \in FileTransfers
  /\ t.file <= max /\ t.transferred <= t.size /\ t.requested <= t.size
  /\ t.status = "None" => t = NoFile
  /\ t.status = "NotAccepted" => ~ t.us /\ ~ t.other
  /\ t.status = "Finished" => e = "sender"

Transfers ==
  /\ ft \in [Side -> [Numbers -> FileTransfers]]
  /\ \A e \in Side, n \in Numbers : TransferOf(e, ft[e][n], offered)

Wires ==
  /\ wire \in [Side -> Seq(FilePackets)]
  /\ \A e \in Side : \A i \in 1 .. Len(wire[e]) : PacketFor(e, wire[e][i], offered)

Typed ==
  /\ Transfers /\ Wires
  /\ offered \in 0 .. MaxFiles
  /\ linked \in [Side -> BOOLEAN] /\ connectedTo \in [Side -> BOOLEAN]
  /\ crossed \in BOOLEAN

\* Without a connection nothing is on its way, and without an online friend
\* there are no transfers; the packet that makes him online comes first.
Connected ==
  \A e \in Side :
    /\ ~ linked[e] => ~ connectedTo[e] /\ wire[e] = <<>>
    /\ ~ connectedTo[e] =>
         /\ \A n \in Numbers : ft[e][n].status = "None"
         /\ linked[e] => wire[e] # <<>> /\ wire[e][1].type = "online"

\* The sender's transfers that are in use.
Sending == {n \in Numbers : ft["sender"][n].status # "None"}

Served == num_sending_files \in Nat /\ Cardinality(Sending) <= num_sending_files

Done == complete \cup refused

AllAgreed ==
  \A n \in Numbers :
    Agreed(n, ft["sender"][n], ft["receiver"][n], wire["receiver"], wire["sender"],
           linked["receiver"], Done)

Agreement == ~ crossed => arrived \subseteq Done /\ finished \subseteq Done /\ AllAgreed

FileInv == Typed /\ Connected /\ Served /\ Agreement

-----------------------------------------------------------------------------
(* The parts of a step.                                                    *)

LEMMA NoFileOK ==
  ASSUME NEW e, NEW max \in Nat
  PROVE  NoFile \in FileTransfers /\ TransferOf(e, NoFile, max)
<1>1. NoFile \in FileTransfers  BY FileBoundsAssumption DEF NoFile, FileTransfers
<1> QED  BY <1>1 DEF TransferOf, NoFile

LEMMA NumbersAreInt ==
  \A n \in Numbers : n \in Int
<1>1. Cardinality(Numbers) \in Nat  BY NumbersAssumption, FS_CardinalityType
<1> QED  BY <1>1, NumbersAssumption

LEMMA PacketsOK ==
  ASSUME NEW n \in Numbers, NEW type \in ControlTypes \cup {"offer", "data"}, NEW f \in Nat, NEW p,
         p = FilePacket(type, n, f)
  PROVE  p \in FilePackets /\ p.type = type /\ p.number = n /\ p.file = f
  BY NumbersAreInt DEF FilePackets, FilePacket, ControlTypes

\* What an invariant state is, for one side or number.
LEMMA StateFacts ==
  ASSUME FileInv
  PROVE  /\ wire["receiver"] \in Seq(FilePackets) /\ wire["sender"] \in Seq(FilePackets)
         /\ linked["receiver"] \in BOOLEAN /\ linked["sender"] \in BOOLEAN
         /\ offered \in Nat /\ offered <= MaxFiles /\ MaxFiles \in Nat
         /\ \A n \in Numbers : ft["sender"][n] \in FileTransfers /\ ft["receiver"][n] \in FileTransfers
         /\ ~ linked["receiver"] =>
              Len(wire["receiver"]) = 0 /\ \A n \in Numbers : ft["receiver"][n] = NoFile
         /\ ~ linked["sender"] =>
              Len(wire["sender"]) = 0 /\ \A n \in Numbers : ft["sender"][n] = NoFile
<1> USE DEF FileInv, Typed, Transfers, Wires, Side
<1>1. offered \in Nat /\ offered <= MaxFiles /\ MaxFiles \in Nat  BY FileBoundsAssumption
<1>2. wire["receiver"] \in Seq(FilePackets) /\ wire["sender"] \in Seq(FilePackets)  OBVIOUS
<1>3. linked["receiver"] \in BOOLEAN /\ linked["sender"] \in BOOLEAN  OBVIOUS
<1>4. \A n \in Numbers : ft["sender"][n] \in FileTransfers /\ ft["receiver"][n] \in FileTransfers
  OBVIOUS
<1>5. ASSUME NEW e \in Side, ~ linked[e]
      PROVE  Len(wire[e]) = 0 /\ \A n \in Numbers : ft[e][n] = NoFile
  BY <1>5 DEF Connected, TransferOf
<1> QED  BY <1>1, <1>2, <1>3, <1>4, <1>5

\* One transfer changes.
LEMMA OneTransfer ==
  ASSUME Transfers, NEW e \in Side, NEW n \in Numbers, NEW t,
         offered \in Nat, offered' \in Nat, offered <= offered', TransferOf(e, t, offered'),
         ft' = [ft EXCEPT ![e][n] = t]
  PROVE  /\ Transfers' /\ ft'[e][n] = t
         /\ \A k \in Numbers : k # n => ft'[e][k] = ft[e][k]
         /\ \A d \in Side : d # e => ft'[d] = ft[d]
<1>1. t \in FileTransfers  BY DEF TransferOf
<1>2. ft' \in [Side -> [Numbers -> FileTransfers]] /\ ft'[e][n] = t  BY <1>1 DEF Transfers
<1>3. /\ \A k \in Numbers : k # n => ft'[e][k] = ft[e][k]
      /\ \A d \in Side : d # e => ft'[d] = ft[d]
  BY DEF Transfers
<1>4. ASSUME NEW d \in Side, NEW k \in Numbers PROVE TransferOf(d, ft'[d][k], offered')
  <2>1. CASE d = e /\ k = n  BY <1>2, <2>1
  <2>2. CASE ~ (d = e /\ k = n)
    <3>1. ft'[d][k] = ft[d][k]  BY <1>3, <2>2
    <3>2. TransferOf(d, ft[d][k], offered) /\ ft[d][k] \in FileTransfers  BY DEF Transfers
    <3>3. ft[d][k].file \in Nat  BY <3>2, FileTypesOK
    <3> QED  BY <3>1, <3>2, <3>3 DEF TransferOf
  <2> QED  BY <2>1, <2>2
<1> QED  BY <1>2, <1>3, <1>4 DEF Transfers

\* A packet is written.
LEMMA OneWrite ==
  ASSUME Wires, NEW e \in Side, NEW m, offered \in Nat, offered' \in Nat, offered <= offered',
         linked \in [Side -> BOOLEAN], PacketFor(Other(e), m, offered'), Write(e, m)
  PROVE  /\ Wires' /\ wire'[e] = wire[e]
         /\ linked[Other(e)] => Longer(wire[Other(e)], wire'[Other(e)], m)
         /\ ~ linked[Other(e)] => wire' = wire
<1>1. Other(e) \in Side /\ Other(e) # e  BY DEF Other, Side
<1>2. m \in FilePackets  BY DEF PacketFor
<1>3. ASSUME NEW d \in Side, NEW i \in 1 .. Len(wire[d]) PROVE PacketFor(d, wire[d][i], offered')
  <2>1. PacketFor(d, wire[d][i], offered)  BY DEF Wires
  <2>2. wire[d][i].file \in Nat  BY <2>1 DEF PacketFor, FilePackets
  <2> QED  BY <2>1, <2>2 DEF PacketFor
<1>4. CASE ~ linked[Other(e)]
  <2>1. wire' = wire  BY <1>4 DEF Write
  <2> QED  BY <1>3, <1>4, <2>1 DEF Wires
<1>5. CASE linked[Other(e)]
  <2>1. wire' = [wire EXCEPT ![Other(e)] = Append(wire[Other(e)], m)]  BY <1>5 DEF Write
  <2>2. /\ wire'[Other(e)] = Append(wire[Other(e)], m)
        /\ \A d \in Side : d # Other(e) => wire'[d] = wire[d]
        /\ wire' \in [Side -> Seq(FilePackets)]
    BY <1>1, <1>2, <2>1 DEF Wires
  <2>3. Longer(wire[Other(e)], wire'[Other(e)], m)  BY <1>1, <1>2, <2>2, AppendIsLonger DEF Wires
  <2>4. ASSUME NEW d \in Side, NEW i \in 1 .. Len(wire'[d]) PROVE PacketFor(d, wire'[d][i], offered')
    <3>1. CASE d # Other(e)  BY <1>3, <2>2, <3>1
    <3>2. CASE d = Other(e)
      <4>1. wire'[d][i] = m \/ (i \in 1 .. Len(wire[d]) /\ wire'[d][i] = wire[d][i])
        BY <1>1, <2>3, <3>2 DEF Longer, Wires
      <4> QED  BY <1>3, <3>2, <4>1
    <3> QED  BY <3>1, <3>2
  <2> QED  BY <1>1, <1>5, <2>2, <2>3, <2>4 DEF Wires
<1> QED  BY <1>4, <1>5 DEF Wires

\* A packet is taken and nothing is answered.
LEMMA OneTaken ==
  ASSUME Wires, NEW e \in Side, wire[e] # <<>>, UNCHANGED offered, Take(e, <<>>)
  PROVE  /\ Wires' /\ Shorter(wire[e], wire'[e]) /\ wire'[Other(e)] = wire[Other(e)]
         /\ Head(wire[e]) = wire[e][1] /\ PacketFor(e, wire[e][1], offered)
         /\ Len(wire[e]) >= 1
<1>1. Other(e) \in Side /\ Other(e) # e  BY DEF Other, Side
<1>2. wire[e] \in Seq(FilePackets) /\ wire[Other(e)] \in Seq(FilePackets)  BY <1>1 DEF Wires
<1>3. wire[Other(e)] \o <<>> = wire[Other(e)]  BY <1>2
<1>4. wire' = [wire EXCEPT ![e] = Tail(wire[e])]
  <2>1. [[wire EXCEPT ![e] = Tail(wire[e])] EXCEPT ![Other(e)] = wire[Other(e)]] = [wire EXCEPT ![e] = Tail(wire[e])]
    BY <1>1 DEF Wires
  <2> QED  BY <1>1, <1>3, <2>1 DEF Take, Wires
<1>5. /\ wire'[e] = Tail(wire[e]) /\ wire'[Other(e)] = wire[Other(e)]
      /\ wire' \in [Side -> Seq(FilePackets)]
      /\ \A d \in Side : d # e => wire'[d] = wire[d]
  BY <1>1, <1>2, <1>4 DEF Wires
<1>6. /\ Shorter(wire[e], wire'[e]) /\ Head(wire[e]) = wire[e][1] /\ Len(wire[e]) >= 1
  BY <1>2, <1>5, TailIsShorter
<1>7. ASSUME NEW d \in Side, NEW i \in 1 .. Len(wire'[d]) PROVE PacketFor(d, wire'[d][i], offered')
  <2>1. CASE d # e  BY <1>5, <2>1 DEF Wires
  <2>2. CASE d = e
    <3>1. i + 1 \in 1 .. Len(wire[e]) /\ wire'[d][i] = wire[e][i + 1]  BY <1>6, <2>2 DEF Shorter
    <3> QED  BY <2>2, <3>1 DEF Wires
  <2> QED  BY <2>1, <2>2
<1>8. PacketFor(e, wire[e][1], offered)  BY <1>2, <1>6 DEF Wires
<1> QED  BY <1>5, <1>6, <1>7, <1>8 DEF Wires

\* A packet is taken and m is the answer, if it can be sent.
LEMMA OneAnswered ==
  ASSUME Wires, NEW e \in Side, wire[e] # <<>>, UNCHANGED offered, NEW m, Take(e, <<m>>),
         PacketFor(Other(e), m, offered)
  PROVE  /\ Wires' /\ Shorter(wire[e], wire'[e])
         /\ \/ wire'[Other(e)] = wire[Other(e)]
            \/ linked[Other(e)] /\ Longer(wire[Other(e)], wire'[Other(e)], m)
         /\ Head(wire[e]) = wire[e][1] /\ PacketFor(e, wire[e][1], offered)
         /\ Len(wire[e]) >= 1
<1>1. Other(e) \in Side /\ Other(e) # e  BY DEF Other, Side
<1>2. /\ wire[e] \in Seq(FilePackets) /\ wire[Other(e)] \in Seq(FilePackets) /\ m \in FilePackets
  BY <1>1 DEF Wires, PacketFor
<1>3. wire[Other(e)] \o <<m>> = Append(wire[Other(e)], m)  BY <1>2
<1>4. PICK v : /\ wire' = [[wire EXCEPT ![e] = Tail(wire[e])] EXCEPT ![Other(e)] = v]
               /\ v = wire[Other(e)] \/ (linked[Other(e)] /\ v = Append(wire[Other(e)], m))
  <2>1. CASE linked[Other(e)] /\ Len(wire[Other(e)]) < QueueSize
    BY <1>1, <1>3, <2>1 DEF Take, Wires
  <2>2. CASE ~ (linked[Other(e)] /\ Len(wire[Other(e)]) < QueueSize)
    <3>1. [[wire EXCEPT ![e] = Tail(wire[e])] EXCEPT ![Other(e)] = wire[Other(e)]] = [wire EXCEPT ![e] = Tail(wire[e])]
      BY <1>1 DEF Wires
    <3> QED  BY <2>2, <3>1 DEF Take
  <2> QED  BY <2>1, <2>2
<1>5. v \in Seq(FilePackets) /\ Tail(wire[e]) \in Seq(FilePackets)
  <2>1. Append(wire[Other(e)], m) \in Seq(FilePackets)  BY <1>2
  <2>2. v \in Seq(FilePackets)  BY <1>2, <1>4, <2>1
  <2> QED  BY <1>2, <2>2
<1>11. /\ wire'[e] = Tail(wire[e]) /\ wire'[Other(e)] = v
       /\ wire' \in [Side -> Seq(FilePackets)]
  BY <1>1, <1>4, <1>5 DEF Wires
<1>12. \A d \in Side : d = e \/ d = Other(e)  BY DEF Side, Other
<1>6. /\ wire'[e] = Tail(wire[e]) /\ wire'[Other(e)] = v
      /\ wire' \in [Side -> Seq(FilePackets)]
      /\ \A d \in Side : d = e \/ d = Other(e)
  BY <1>11, <1>12
<1>7. /\ Shorter(wire[e], wire'[e]) /\ Head(wire[e]) = wire[e][1] /\ Len(wire[e]) >= 1
  BY <1>2, <1>6, TailIsShorter
<1>8. \/ wire'[Other(e)] = wire[Other(e)]
      \/ linked[Other(e)] /\ Longer(wire[Other(e)], wire'[Other(e)], m)
  BY <1>2, <1>4, <1>6, AppendIsLonger
<1>9. ASSUME NEW d \in Side, NEW i \in 1 .. Len(wire'[d]) PROVE PacketFor(d, wire'[d][i], offered')
  <2>1. CASE d = Other(e)
    <3>1. wire'[d][i] = m \/ (i \in 1 .. Len(wire[d]) /\ wire'[d][i] = wire[d][i])
      BY <1>2, <1>8, <2>1 DEF Longer
    <3> QED  BY <2>1, <3>1 DEF Wires
  <2>2. CASE d = e
    <3>1. i + 1 \in 1 .. Len(wire[e]) /\ wire'[d][i] = wire[e][i + 1]  BY <1>7, <2>2 DEF Shorter
    <3> QED  BY <2>2, <3>1 DEF Wires
  <2> QED  BY <1>6, <2>1, <2>2
<1>10. PacketFor(e, wire[e][1], offered)  BY <1>2, <1>7 DEF Wires
<1> QED  BY <1>6, <1>7, <1>8, <1>9, <1>10 DEF Wires

\* The count of the sender's transfers.
LEMMA ServedSame ==
  ASSUME Served, UNCHANGED num_sending_files,
         \A n \in Numbers : ft'["sender"][n].status # "None" => ft["sender"][n].status # "None"
  PROVE  Served'
<1>1. Sending' \subseteq Sending  BY DEF Sending
<1>2. IsFiniteSet(Sending)  BY NumbersAssumption, FS_Subset DEF Sending
<1>3. Cardinality(Sending') <= Cardinality(Sending)  BY <1>1, <1>2, FS_Subset
<1>4. Cardinality(Sending') \in Nat /\ Cardinality(Sending) \in Nat
  BY <1>1, <1>2, FS_Subset, FS_CardinalityType
<1> QED  BY <1>3, <1>4 DEF Served

LEMMA ServedLess ==
  ASSUME Served, NEW n \in Numbers, num_sending_files' = num_sending_files - 1,
         ft["sender"][n].status # "None", ft'["sender"][n].status = "None",
         \A k \in Numbers : k # n => ft'["sender"][k] = ft["sender"][k]
  PROVE  Served'
<1>1. n \in Sending /\ Sending' = Sending \ {n}  BY DEF Sending
<1>2. IsFiniteSet(Sending)  BY NumbersAssumption, FS_Subset DEF Sending
<1>3. Cardinality(Sending \ {n}) = Cardinality(Sending) - 1  BY <1>1, <1>2, FS_RemoveElement
<1>4. Cardinality(Sending) \in Nat /\ Cardinality(Sending \ {n}) \in Nat
  <2>1. IsFiniteSet(Sending \ {n})  BY <1>2, FS_RemoveElement
  <2> QED  BY <1>2, <2>1, FS_CardinalityType
<1>5. Cardinality(Sending') = Cardinality(Sending) - 1  BY <1>1, <1>3
<1> QED  BY <1>4, <1>5, <1>3 DEF Served

LEMMA ServedMore ==
  ASSUME Served, NEW n \in Numbers, num_sending_files' = num_sending_files + 1,
         ft["sender"][n].status = "None", ft'["sender"][n].status # "None",
         \A k \in Numbers : k # n => ft'["sender"][k] = ft["sender"][k]
  PROVE  Served'
<1>1. n \notin Sending /\ Sending' = Sending \cup {n}  BY DEF Sending
<1>2. IsFiniteSet(Sending)  BY NumbersAssumption, FS_Subset DEF Sending
<1>3. Cardinality(Sending \cup {n}) = Cardinality(Sending) + 1  BY <1>1, <1>2, FS_AddElement
<1>4. Cardinality(Sending) \in Nat  BY <1>2, FS_CardinalityType
<1>5. Cardinality(Sending') = Cardinality(Sending) + 1  BY <1>1, <1>3
<1> QED  BY <1>4, <1>5 DEF Served

-----------------------------------------------------------------------------
(* The agreement on the other numbers.                                     *)

LEMMA SenderWrote ==
  ASSUME FileInv, AllAgreed, NEW n \in Numbers, NEW m, m.number = n,
         linked' = linked, Done' = Done,
         linked["receiver"] => Longer(wire["receiver"], wire'["receiver"], m),
         ~ linked["receiver"] => wire' = wire,
         wire'["sender"] = wire["sender"], ft'["receiver"] = ft["receiver"],
         \A k \in Numbers : k # n => ft'["sender"][k] = ft["sender"][k],
         linked["receiver"] =>
           Agreed(n, ft'["sender"][n], ft["receiver"][n], wire'["receiver"], wire["sender"],
                  linked["receiver"], Done)
  PROVE  AllAgreed'
<1> SUFFICES ASSUME NEW k \in Numbers
             PROVE  Agreed(k, ft'["sender"][k], ft["receiver"][k], wire'["receiver"], wire["sender"],
                           linked["receiver"], Done)
  BY DEF AllAgreed
<1>1. /\ Agreed(k, ft["sender"][k], ft["receiver"][k], wire["receiver"], wire["sender"],
                linked["receiver"], Done)
      /\ ft["sender"][k] \in FileTransfers /\ ft["receiver"][k] \in FileTransfers
      /\ wire["receiver"] \in Seq(FilePackets) /\ wire["sender"] \in Seq(FilePackets)
      /\ linked["receiver"] \in BOOLEAN
  BY StateFacts DEF AllAgreed
<1>2. CASE ~ linked["receiver"]
  <2>1. /\ Len(wire["receiver"]) = 0 /\ ft["receiver"][k] = NoFile /\ wire' = wire
        /\ linked["receiver"] = FALSE
    BY <1>2, StateFacts
  <2>2. Sought(k, ft["sender"][k], ft["receiver"][k], wire["sender"])  BY <1>1 DEF Agreed
  <2>3. Agreed(k, ft'["sender"][k], NoFile, wire["receiver"], wire["sender"], FALSE, Done)
    BY <1>1, <2>1, <2>2, NoReceiver
  <2> QED  BY <2>1, <2>3
<1>3. CASE linked["receiver"] /\ k = n  BY <1>3
<1>4. CASE linked["receiver"] /\ k # n
  <2>1. ~ Is(m, k, FileTypes)  BY <1>4 DEF Is
  <2>2. ft'["sender"][k] = ft["sender"][k]  BY <1>4
  <2> QED  BY <1>1, <1>4, <2>1, <2>2, ToReceiverOther
<1> QED  BY <1>2, <1>3, <1>4

LEMMA ReceiverWrote ==
  ASSUME FileInv, AllAgreed, NEW n \in Numbers, NEW m, m.number = n,
         linked' = linked, Done \subseteq Done',
         linked["sender"] => Longer(wire["sender"], wire'["sender"], m),
         ~ linked["sender"] => wire' = wire,
         wire'["receiver"] = wire["receiver"], ft'["sender"] = ft["sender"],
         \A k \in Numbers : k # n => ft'["receiver"][k] = ft["receiver"][k],
         Agreed(n, ft["sender"][n], ft'["receiver"][n], wire["receiver"], wire'["sender"],
                linked["receiver"], Done')
  PROVE  AllAgreed'
<1> SUFFICES ASSUME NEW k \in Numbers
             PROVE  Agreed(k, ft["sender"][k], ft'["receiver"][k], wire["receiver"], wire'["sender"],
                           linked["receiver"], Done')
  BY DEF AllAgreed
<1>1. /\ Agreed(k, ft["sender"][k], ft["receiver"][k], wire["receiver"], wire["sender"],
                linked["receiver"], Done)
      /\ ft["sender"][k] \in FileTransfers /\ ft["receiver"][k] \in FileTransfers
      /\ wire["receiver"] \in Seq(FilePackets) /\ wire["sender"] \in Seq(FilePackets)
      /\ linked["receiver"] \in BOOLEAN
  BY StateFacts DEF AllAgreed
<1>2. Agreed(k, ft["sender"][k], ft["receiver"][k], wire["receiver"], wire["sender"],
             linked["receiver"], Done')
  BY <1>1, DoneGrows
<1>3. CASE k = n  BY <1>3
<1>4. CASE k # n
  <2>1. ~ Is(m, k, {"accept", "pause", "seek"})  BY <1>4 DEF Is
  <2>2. ft'["receiver"][k] = ft["receiver"][k]  BY <1>4
  <2>3. CASE ~ linked["sender"]  BY <1>2, <2>2, <2>3
  <2>4. CASE linked["sender"]  BY <1>1, <1>2, <2>1, <2>2, <2>4, ToSenderOther
  <2> QED  BY <2>3, <2>4
<1> QED  BY <1>3, <1>4

LEMMA SenderTook ==
  ASSUME FileInv, AllAgreed, NEW n \in Int,
         linked' = linked, Done' = Done,
         Shorter(wire["sender"], wire'["sender"]),
         \A k \in Numbers : k # n => ~ Is(wire["sender"][1], k, FileTypes),
         \/ wire'["receiver"] = wire["receiver"]
         \/ \E m : /\ Longer(wire["receiver"], wire'["receiver"], m)
                   /\ \A k \in Numbers : k # n => ~ Is(m, k, FileTypes),
         ft'["receiver"] = ft["receiver"],
         \A k \in Numbers : k # n => ft'["sender"][k] = ft["sender"][k],
         n \in Numbers =>
           Agreed(n, ft'["sender"][n], ft["receiver"][n], wire'["receiver"], wire'["sender"],
                  linked["receiver"], Done)
  PROVE  AllAgreed'
<1> SUFFICES ASSUME NEW k \in Numbers
             PROVE  Agreed(k, ft'["sender"][k], ft["receiver"][k], wire'["receiver"], wire'["sender"],
                           linked["receiver"], Done)
  BY DEF AllAgreed
<1>1. /\ Agreed(k, ft["sender"][k], ft["receiver"][k], wire["receiver"], wire["sender"],
                linked["receiver"], Done)
      /\ ft["sender"][k] \in FileTransfers /\ ft["receiver"][k] \in FileTransfers
      /\ wire["receiver"] \in Seq(FilePackets) /\ wire["sender"] \in Seq(FilePackets)
      /\ linked["receiver"] \in BOOLEAN
  BY StateFacts DEF AllAgreed
<1>3. CASE k = n  BY <1>3
<1>4. CASE k # n
  <2>1. ~ Is(wire["sender"][1], k, {"accept", "pause", "seek"})
    BY <1>4 DEF Is, FileTypes, ControlTypes
  <2>2. ft'["sender"][k] = ft["sender"][k] /\ wire'["sender"] \in Seq(FilePackets)
    BY <1>4 DEF Shorter
  <2>3. Agreed(k, ft["sender"][k], ft["receiver"][k], wire["receiver"], wire'["sender"],
               linked["receiver"], Done)
    BY <1>1, <2>1, TakenBySender
  <2>4. CASE wire'["receiver"] = wire["receiver"]  BY <2>2, <2>3, <2>4
  <2>5. CASE wire'["receiver"] # wire["receiver"]
    <3>1. PICK m : Longer(wire["receiver"], wire'["receiver"], m) /\ ~ Is(m, k, FileTypes)
      BY <1>4, <2>5
    <3> QED  BY <1>1, <2>2, <2>3, <3>1, ToReceiverOther
  <2> QED  BY <2>4, <2>5
<1> QED  BY <1>3, <1>4

LEMMA ReceiverTook ==
  ASSUME FileInv, AllAgreed, NEW n \in Int,
         linked' = linked, Done \subseteq Done',
         Shorter(wire["receiver"], wire'["receiver"]),
         \A k \in Numbers : k # n => ~ Is(wire["receiver"][1], k, FileTypes),
         \/ wire'["sender"] = wire["sender"]
         \/ \E m : /\ Longer(wire["sender"], wire'["sender"], m)
                   /\ \A k \in Numbers : k # n => ~ Is(m, k, FileTypes),
         ft'["sender"] = ft["sender"],
         \A k \in Numbers : k # n => ft'["receiver"][k] = ft["receiver"][k],
         n \in Numbers =>
           Agreed(n, ft["sender"][n], ft'["receiver"][n], wire'["receiver"], wire'["sender"],
                  linked["receiver"], Done')
  PROVE  AllAgreed'
<1> SUFFICES ASSUME NEW k \in Numbers
             PROVE  Agreed(k, ft["sender"][k], ft'["receiver"][k], wire'["receiver"], wire'["sender"],
                           linked["receiver"], Done')
  BY DEF AllAgreed
<1>1. /\ Agreed(k, ft["sender"][k], ft["receiver"][k], wire["receiver"], wire["sender"],
                linked["receiver"], Done)
      /\ ft["sender"][k] \in FileTransfers /\ ft["receiver"][k] \in FileTransfers
      /\ wire["receiver"] \in Seq(FilePackets) /\ wire["sender"] \in Seq(FilePackets)
      /\ linked["receiver"] \in BOOLEAN
  BY StateFacts DEF AllAgreed
<1>2. Agreed(k, ft["sender"][k], ft["receiver"][k], wire["receiver"], wire["sender"],
             linked["receiver"], Done')
  BY <1>1, DoneGrows
<1>3. CASE k = n  BY <1>3
<1>4. CASE k # n
  <2>1. ~ Is(wire["receiver"][1], k, {"data", "pause", "accept"})
    BY <1>4 DEF Is, FileTypes, ControlTypes
  <2>2. ft'["receiver"][k] = ft["receiver"][k] /\ wire'["receiver"] \in Seq(FilePackets)
    BY <1>4 DEF Shorter
  <2>3. Agreed(k, ft["sender"][k], ft["receiver"][k], wire'["receiver"], wire["sender"],
               linked["receiver"], Done')
    BY <1>1, <1>2, <2>1, TakenByReceiver
  <2>4. CASE wire'["sender"] = wire["sender"]  BY <2>2, <2>3, <2>4
  <2>5. CASE wire'["sender"] # wire["sender"]
    <3>1. PICK m : Longer(wire["sender"], wire'["sender"], m) /\ ~ Is(m, k, FileTypes)
      BY <1>4, <2>5
    <3>2. ~ Is(m, k, {"accept", "pause", "seek"})  BY <3>1 DEF Is, FileTypes, ControlTypes
    <3> QED  BY <1>1, <2>2, <2>3, <3>1, <3>2, ToSenderOther
  <2> QED  BY <2>4, <2>5
<1> QED  BY <1>3, <1>4

\* Connections neither begin nor end.
LEMMA ConnectedStep ==
  ASSUME Connected, Wires, linked' = linked,
         \A e \in Side : /\ connectedTo[e] => connectedTo'[e]
                         /\ connectedTo'[e] => linked[e]
                         /\ ~ linked[e] => wire'[e] = wire[e]
                         /\ ~ connectedTo'[e] =>
                              /\ ft'[e] = ft[e]
                              /\ wire'[e] = wire[e] \/ \E m : Longer(wire[e], wire'[e], m)
  PROVE  Connected'
<1> SUFFICES ASSUME NEW e \in Side
             PROVE  /\ ~ linked[e] => ~ connectedTo'[e] /\ wire'[e] = <<>>
                    /\ ~ connectedTo'[e] =>
                         /\ \A n \in Numbers : ft'[e][n].status = "None"
                         /\ linked[e] => wire'[e] # <<>> /\ wire'[e][1].type = "online"
  BY DEF Connected
<1>1. ~ linked[e] => ~ connectedTo'[e] /\ wire'[e] = <<>>  BY DEF Connected
<1>2. ASSUME ~ connectedTo'[e] PROVE \A n \in Numbers : ft'[e][n].status = "None"
  BY <1>2 DEF Connected
<1>3. ASSUME ~ connectedTo'[e], linked[e] PROVE wire'[e] # <<>> /\ wire'[e][1].type = "online"
  <2>1. wire[e] # <<>> /\ wire[e][1].type = "online" /\ wire[e] \in Seq(FilePackets)
    BY <1>3 DEF Connected, Wires
  <2>2. CASE wire'[e] = wire[e]  BY <2>1, <2>2
  <2>3. CASE wire'[e] # wire[e]
    <3>1. PICK m : Longer(wire[e], wire'[e], m)  BY <1>3, <2>3
    <3>2. 1 \in 1 .. Len(wire[e])  BY <2>1
    <3>3. wire'[e][1] = wire[e][1] /\ Len(wire'[e]) > 0 /\ wire'[e] \in Seq(FilePackets)
      BY <2>1, <3>1, <3>2 DEF Longer
    <3> QED  BY <2>1, <3>3
  <2> QED  BY <2>2, <2>3
<1> QED  BY <1>1, <1>2, <1>3

-----------------------------------------------------------------------------
(* The steps of the sender.                                                *)

LEMMA OffersStep ==
  ASSUME FileInv, NEW n \in Numbers, NEW size \in Sizes, new_filesender(n, size)
  PROVE  FileInv'
<1>0. /\ offered \in Nat /\ offered' = offered + 1 /\ offered' \in 0 .. MaxFiles /\ offered' \in Nat
      /\ size \in Nat /\ connectedTo["sender"] /\ Other("sender") = "receiver"
      /\ "sender" \in Side /\ "receiver" \in Side
  BY StateFacts, SizesAssumption DEF new_filesender, CanWrite, Other, Side
<1>1. PICK m : m = [FilePacket("offer", n, offered + 1) EXCEPT !.size = size]  OBVIOUS
<1>2. /\ m \in FilePackets /\ m.type = "offer" /\ m.number = n /\ m.file = offered + 1
      /\ m.size = size
  <2>1. PICK f \in Nat : f = offered + 1  BY <1>0
  <2>2. PICK p : p = FilePacket("offer", n, f)  OBVIOUS
  <2>3. p \in FilePackets /\ p.type = "offer" /\ p.number = n /\ p.file = f
    BY <2>2, PacketsOK
  <2>4. m = [p EXCEPT !.size = size]  BY <1>1, <2>1, <2>2
  <2> QED  BY <1>0, <2>1, <2>3, <2>4 DEF FilePackets
<1>3. PacketFor("receiver", m, offered')  BY <1>0, <1>2 DEF PacketFor, ToReceiver
<1>4. Write("sender", m)
  BY <1>1 DEF new_filesender
<1>5. /\ Wires' /\ wire'["sender"] = wire["sender"]
      /\ linked["receiver"] => Longer(wire["receiver"], wire'["receiver"], m)
      /\ ~ linked["receiver"] => wire' = wire
  BY <1>0, <1>3, <1>4, OneWrite DEF FileInv, Typed
<1>6. PICK t : t = Offered(size, offered + 1)  OBVIOUS
<1>7. /\ t = [status |-> "NotAccepted", size |-> size, transferred |-> 0, requested |-> 0,
              us |-> FALSE, other |-> FALSE, file |-> offered + 1]
      /\ t.status = "NotAccepted"
  BY <1>6 DEF Offered, NoFile
<1>8. TransferOf("sender", t, offered')
  <2>1. t \in FileTransfers  BY <1>0, <1>7 DEF FileTransfers
  <2> QED  BY <1>0, <1>7, <2>1 DEF TransferOf
<1>9. ft' = [ft EXCEPT !["sender"][n] = t]  BY <1>6 DEF new_filesender
<1>10. /\ Transfers' /\ ft'["sender"][n] = t
       /\ \A k \in Numbers : k # n => ft'["sender"][k] = ft["sender"][k]
       /\ ft'["receiver"] = ft["receiver"]
  <2>1. offered <= offered' /\ "receiver" # "sender" /\ Transfers  BY <1>0 DEF FileInv, Typed
  <2>2. /\ Transfers' /\ ft'["sender"][n] = t
        /\ \A k \in Numbers : k # n => ft'["sender"][k] = ft["sender"][k]
        /\ \A d \in Side : d # "sender" => ft'[d] = ft[d]
    BY <1>0, <1>8, <1>9, <2>1, OneTransfer
  <2> QED  BY <1>0, <2>1, <2>2
<1>11. Typed'
  BY <1>0, <1>5, <1>10 DEF FileInv, Typed, new_filesender
<1>12. Connected'
  BY <1>0, <1>5, <1>10, ConnectedStep DEF FileInv, Typed, new_filesender, Side, Connected
<1>13. Served'
  <2>1. ft["sender"][n].status = "None" /\ ft'["sender"][n].status # "None"
    BY <1>7, <1>10 DEF new_filesender, InUse
  <2> QED  BY <1>10, <2>1, ServedMore DEF FileInv, new_filesender
<1>14. ASSUME ~ crossed' PROVE arrived' \subseteq Done' /\ finished' \subseteq Done' /\ AllAgreed'
  <2>1. AllAgreed /\ arrived \subseteq Done /\ finished \subseteq Done
    BY <1>14 DEF FileInv, Agreement, new_filesender
  <2>2. Done' = Done /\ linked' = linked  BY DEF Done, new_filesender
  <2>3. ASSUME linked["receiver"]
        PROVE  Agreed(n, ft'["sender"][n], ft["receiver"][n], wire'["receiver"], wire["sender"],
                      linked["receiver"], Done)
    <3>1. /\ Agreed(n, ft["sender"][n], ft["receiver"][n], wire["receiver"], wire["sender"],
                    linked["receiver"], Done)
          /\ ft["sender"][n] \in FileTransfers /\ ft["receiver"][n] \in FileTransfers
          /\ wire["receiver"] \in Seq(FilePackets) /\ wire["sender"] \in Seq(FilePackets)
          /\ linked["receiver"] \in BOOLEAN
      BY <2>1, StateFacts DEF AllAgreed
    <3>2. ~ Used(ft["sender"][n])  BY DEF new_filesender, InUse, Used
    <3>3. ASSUME NEW e \in Side, NEW i \in 1 .. Len(wire[e]) PROVE wire[e][i].file < m.file
      <4>1. PacketFor(e, wire[e][i], offered)  BY DEF FileInv, Typed, Wires
      <4>2. wire[e][i].file \in Nat /\ wire[e][i].file <= offered
        BY <4>1 DEF PacketFor, FilePackets
      <4> QED  BY <1>0, <1>2, <4>2
    <3>4. ft["receiver"][n].file < m.file
      <4>1. TransferOf("receiver", ft["receiver"][n], offered)
        BY <1>0 DEF FileInv, Typed, Transfers
      <4>2. ft["receiver"][n].file \in Nat  BY <3>1, FileTypesOK
      <4> QED  BY <1>0, <1>2, <4>1, <4>2 DEF TransferOf
    <3>5. t = Offered(m.size, m.file) /\ m.file \in Nat  BY <1>0, <1>2, <1>6
    <3>6. Longer(wire["receiver"], wire'["receiver"], m)  BY <1>5, <2>3
    <3>7. Agreed(n, t, ft["receiver"][n], wire'["receiver"], wire["sender"], linked["receiver"], Done)
      BY <1>0, <1>2, <3>1, <3>2, <3>3, <3>4, <3>5, <3>6, SenderOffers
    <3> QED  BY <1>10, <3>7
  <2>4. AllAgreed'  BY <1>2, <1>5, <1>10, <2>1, <2>2, <2>3, SenderWrote
  <2> QED  BY <2>1, <2>2, <2>4 DEF new_filesender
<1> QED  BY <1>11, <1>12, <1>13, <1>14 DEF FileInv, Agreement

\* What is known of one number.
LEMMA AgreedFacts ==
  ASSUME FileInv, NEW n \in Numbers
  PROVE  /\ ~ crossed => Agreed(n, ft["sender"][n], ft["receiver"][n], wire["receiver"], wire["sender"],
                                linked["receiver"], Done)
         /\ ft["sender"][n] \in FileTransfers /\ ft["receiver"][n] \in FileTransfers
         /\ wire["receiver"] \in Seq(FilePackets) /\ wire["sender"] \in Seq(FilePackets)
         /\ linked["receiver"] \in BOOLEAN
         /\ TransferOf("sender", ft["sender"][n], offered)
         /\ TransferOf("receiver", ft["receiver"][n], offered)
<1>1. "sender" \in Side /\ "receiver" \in Side  BY DEF Side
<1>2. TransferOf("sender", ft["sender"][n], offered) /\ TransferOf("receiver", ft["receiver"][n], offered)
  BY <1>1 DEF FileInv, Typed, Transfers
<1> QED  BY <1>2, StateFacts DEF FileInv, Agreement, AllAgreed

\* The sender changes a transfer that it has, and writes a packet about it.
LEMMA SenderWrites ==
  ASSUME FileInv, NEW n \in Numbers, NEW m, PacketFor("receiver", m, offered), m.number = n,
         Write("sender", m), connectedTo["sender"],
         NEW t, TransferOf("sender", t, offered), ft' = [ft EXCEPT !["sender"][n] = t],
         ft["sender"][n].status # "None",
         num_sending_files' = num_sending_files - (IF t.status = "None" THEN 1 ELSE 0),
         UNCHANGED <<offered, linked, connectedTo, crossed, arrived, finished, complete, refused>>,
         ~ crossed => \A v : Longer(wire["receiver"], v, m) =>
           Agreed(n, t, ft["receiver"][n], v, wire["sender"], linked["receiver"], Done)
  PROVE  FileInv'
<1>0. /\ offered \in Nat /\ offered' = offered /\ Other("sender") = "receiver"
      /\ "sender" \in Side /\ "receiver" \in Side
  BY StateFacts DEF Other, Side
<1>1. /\ Wires' /\ wire'["sender"] = wire["sender"]
      /\ linked["receiver"] => Longer(wire["receiver"], wire'["receiver"], m)
      /\ ~ linked["receiver"] => wire' = wire
  BY <1>0, OneWrite DEF FileInv, Typed
<1>2. /\ Transfers' /\ ft'["sender"][n] = t
      /\ \A k \in Numbers : k # n => ft'["sender"][k] = ft["sender"][k]
      /\ ft'["receiver"] = ft["receiver"]
  <2>1. /\ offered <= offered' /\ "receiver" # "sender" /\ Transfers /\ offered' \in Nat
        /\ TransferOf("sender", t, offered')
    BY <1>0 DEF FileInv, Typed
  <2>2. /\ Transfers' /\ ft'["sender"][n] = t
        /\ \A k \in Numbers : k # n => ft'["sender"][k] = ft["sender"][k]
        /\ \A d \in Side : d # "sender" => ft'[d] = ft[d]
    BY <1>0, <2>1, OneTransfer, ZenonT(60)
  <2> QED  BY <1>0, <2>1, <2>2
<1>3. Typed'  BY <1>0, <1>1, <1>2 DEF FileInv, Typed
<1>4. Connected'
  BY <1>0, <1>1, <1>2, ConnectedStep DEF FileInv, Typed, Side, Connected
<1>5. Served'
  <2>1. CASE t.status = "None"  BY <1>2, <2>1, ServedLess DEF FileInv
  <2>2. CASE t.status # "None"
    <3>1. num_sending_files' = num_sending_files  BY <2>2 DEF FileInv, Served
    <3>2. \A k \in Numbers : ft'["sender"][k].status # "None" => ft["sender"][k].status # "None"
      BY <1>2
    <3> QED  BY <3>1, <3>2, ServedSame DEF FileInv
  <2> QED  BY <2>1, <2>2
<1>6. ASSUME ~ crossed' PROVE arrived' \subseteq Done' /\ finished' \subseteq Done' /\ AllAgreed'
  <2>1. AllAgreed /\ arrived \subseteq Done /\ finished \subseteq Done /\ ~ crossed
    BY <1>6 DEF FileInv, Agreement
  <2>2. Done' = Done  BY DEF Done
  <2>3. ASSUME linked["receiver"]
        PROVE  Agreed(n, ft'["sender"][n], ft["receiver"][n], wire'["receiver"], wire["sender"],
                      linked["receiver"], Done)
    <3>1. Agreed(n, t, ft["receiver"][n], wire'["receiver"], wire["sender"], linked["receiver"], Done)
      BY <1>1, <2>1, <2>3
    <3> QED  BY <1>2, <3>1
  <2>4. AllAgreed'  BY <1>1, <1>2, <2>1, <2>2, <2>3, SenderWrote
  <2> QED  BY <2>1, <2>2, <2>4
<1> QED  BY <1>3, <1>4, <1>5, <1>6 DEF FileInv, Agreement

\* The receiver changes a transfer, and writes a packet about it.
LEMMA ReceiverWrites ==
  ASSUME FileInv, NEW n \in Numbers, NEW m, PacketFor("sender", m, offered), m.number = n,
         Write("receiver", m), connectedTo["receiver"],
         NEW t, TransferOf("receiver", t, offered), ft' = [ft EXCEPT !["receiver"][n] = t],
         UNCHANGED <<offered, linked, connectedTo, crossed, arrived, finished, num_sending_files>>,
         Done \subseteq Done',
         ~ crossed => \A v \in Seq(FilePackets) :
           Longer(wire["sender"], v, m) \/ (v = wire["sender"] /\ ~ Used(ft["sender"][n])) =>
             Agreed(n, ft["sender"][n], t, wire["receiver"], v, linked["receiver"], Done')
  PROVE  FileInv'
<1>0. /\ offered \in Nat /\ offered' = offered /\ Other("receiver") = "sender"
      /\ "sender" \in Side /\ "receiver" \in Side
  BY StateFacts DEF Other, Side
<1>1. /\ Wires' /\ wire'["receiver"] = wire["receiver"]
      /\ linked["sender"] => Longer(wire["sender"], wire'["sender"], m)
      /\ ~ linked["sender"] => wire' = wire
  BY <1>0, OneWrite DEF FileInv, Typed
<1>2. /\ Transfers' /\ ft'["receiver"][n] = t
      /\ \A k \in Numbers : k # n => ft'["receiver"][k] = ft["receiver"][k]
      /\ ft'["sender"] = ft["sender"]
  <2>1. /\ offered <= offered' /\ "receiver" # "sender" /\ Transfers /\ offered' \in Nat
        /\ TransferOf("receiver", t, offered')
    BY <1>0 DEF FileInv, Typed
  <2>2. /\ Transfers' /\ ft'["receiver"][n] = t
        /\ \A k \in Numbers : k # n => ft'["receiver"][k] = ft["receiver"][k]
        /\ \A d \in Side : d # "receiver" => ft'[d] = ft[d]
    BY <1>0, <2>1, OneTransfer, ZenonT(60)
  <2> QED  BY <1>0, <2>1, <2>2
<1>3. Typed'  BY <1>0, <1>1, <1>2 DEF FileInv, Typed
<1>4. Connected'
  BY <1>0, <1>1, <1>2, ConnectedStep DEF FileInv, Typed, Side, Connected
<1>5. Served'  BY <1>2, ServedSame DEF FileInv
<1>6. ASSUME ~ crossed' PROVE arrived' \subseteq Done' /\ finished' \subseteq Done' /\ AllAgreed'
  <2>1. AllAgreed /\ arrived \subseteq Done /\ finished \subseteq Done /\ ~ crossed
    BY <1>6 DEF FileInv, Agreement
  <2>2. wire'["sender"] \in Seq(FilePackets)  BY <1>0, <1>1 DEF Wires
  <2>3. \/ Longer(wire["sender"], wire'["sender"], m)
        \/ wire'["sender"] = wire["sender"] /\ ~ Used(ft["sender"][n])
    <3>1. ~ linked["sender"] => ft["sender"][n] = NoFile  BY StateFacts
    <3>2. ~ Used(NoFile)  BY DEF Used, NoFile
    <3> QED  BY <1>1, <3>1, <3>2
  <2>4. Agreed(n, ft["sender"][n], t, wire["receiver"], wire'["sender"], linked["receiver"], Done')
    BY <2>1, <2>2, <2>3
  <2>5. Agreed(n, ft["sender"][n], ft'["receiver"][n], wire["receiver"], wire'["sender"],
               linked["receiver"], Done')
    BY <1>2, <2>4
  <2>6. AllAgreed'  BY <1>1, <1>2, <2>1, <2>5, ReceiverWrote
  <2> QED  BY <2>1, <2>6
<1> QED  BY <1>3, <1>4, <1>5, <1>6 DEF FileInv, Agreement

\* The transfer and the packet of SendControl.
LEMMA ControlSent ==
  ASSUME FileInv, NEW e \in Side, NEW n \in Numbers, NEW type \in ControlTypes, NEW p \in Nat,
         SendControl(e, n, type, p)
  PROVE  /\ connectedTo[e] /\ ft[e][n] \in FileTransfers /\ TransferOf(e, ft[e][n], offered)
         /\ ft[e][n].status # "None"
         /\ UNCHANGED <<offered, linked, connectedTo, crossed, arrived, finished, complete>>
         /\ \E m \in FilePackets :
              /\ m.type = type /\ m.number = n /\ m.file = ft[e][n].file /\ m.position = p
              /\ PacketFor("sender", m, offered)
              /\ type # "seek" => PacketFor("receiver", m, offered)
              /\ Write(e, m)
<1>1. ft[e][n] \in FileTransfers /\ TransferOf(e, ft[e][n], offered)
  <2>1. ft[e] \in [Numbers -> FileTransfers]  BY DEF FileInv, Typed, Transfers
  <2> QED  BY <2>1 DEF FileInv, Typed, Transfers
<1>2. PICK f \in Nat : f = ft[e][n].file  BY <1>1, FileTypesOK
<1>3. f <= offered  BY <1>1, <1>2 DEF TransferOf
<1>4. PICK m : m = [FilePacket(type, n, f) EXCEPT !.position = p]  OBVIOUS
<1>5. /\ m \in FilePackets /\ m.type = type /\ m.number = n /\ m.file = f /\ m.position = p
      /\ PacketFor("sender", m, offered)
      /\ type # "seek" => PacketFor("receiver", m, offered)
  <2>1. PICK q : q = FilePacket(type, n, f)  OBVIOUS
  <2>2. q \in FilePackets /\ q.type = type /\ q.number = n /\ q.file = f  BY <2>1, PacketsOK
  <2>3. m = [q EXCEPT !.position = p]  BY <1>4, <2>1
  <2>4. m \in FilePackets /\ m.type = type /\ m.number = n /\ m.file = f /\ m.position = p
    BY <2>2, <2>3 DEF FilePackets
  <2>5. type # "online" /\ type # "offer" /\ type \in ToSender /\ (type # "seek" => type \in ToReceiver)
    BY DEF ToSender, ToReceiver, ControlTypes
  <2>6. PacketFor("sender", m, offered)  BY <1>3, <2>4, <2>5 DEF PacketFor
  <2>7. type # "seek" => PacketFor("receiver", m, offered)  BY <1>3, <2>4, <2>5 DEF PacketFor
  <2> QED  BY <2>4, <2>6, <2>7
<1>6. Write(e, m)  BY <1>2, <1>4 DEF SendControl
<1> QED  BY <1>1, <1>2, <1>5, <1>6 DEF SendControl, CanWrite, InUse

LEMMA SenderKillsStep ==
  ASSUME FileInv, NEW n \in Numbers, KillFile("sender", n)
  PROVE  FileInv'
<1>0. "sender" \in Side /\ "kill" \in ControlTypes /\ 0 \in Nat  BY DEF Side, ControlTypes
<1>1. SendControl("sender", n, "kill", 0)  BY DEF KillFile
<1>2. /\ connectedTo["sender"] /\ ft["sender"][n].status # "None"
      /\ UNCHANGED <<offered, linked, connectedTo, crossed, arrived, finished, complete>>
      /\ \E m \in FilePackets :
           /\ m.type = "kill" /\ m.number = n /\ PacketFor("receiver", m, offered)
           /\ Write("sender", m)
  BY <1>0, <1>1, ControlSent
<1>3. PICK m \in FilePackets : /\ m.type = "kill" /\ m.number = n /\ PacketFor("receiver", m, offered)
                               /\ Write("sender", m)
  BY <1>2
<1>4. TransferOf("sender", NoFile, offered) /\ NoFile.status = "None" /\ NoFile \in FileTransfers
  BY StateFacts, NoFileOK DEF NoFile
<1>5. ASSUME ~ crossed, NEW v, Longer(wire["receiver"], v, m)
      PROVE  Agreed(n, NoFile, ft["receiver"][n], v, wire["sender"], linked["receiver"], Done)
  <2>1. ~ Used(NoFile)  BY <1>4 DEF Used
  <2>2. Agreed(n, NoFile, ft["receiver"][n], wire["receiver"], wire["sender"], linked["receiver"], Done)
    BY <1>5, AgreedFacts, SenderDrops
  <2> QED  BY <1>3, <1>4, <1>5, <2>1, <2>2, AgreedFacts, SenderKills
<1>6. /\ ft' = [ft EXCEPT !["sender"][n] = NoFile] /\ UNCHANGED refused
      /\ num_sending_files' = num_sending_files - (IF NoFile.status = "None" THEN 1 ELSE 0)
  BY <1>4 DEF KillFile
<1> QED  BY <1>2, <1>3, <1>4, <1>5, <1>6, SenderWrites

LEMMA ReceiverKillsStep ==
  ASSUME FileInv, NEW n \in Numbers, KillFile("receiver", n)
  PROVE  FileInv'
<1>0. "receiver" \in Side /\ "kill" \in ControlTypes /\ 0 \in Nat  BY DEF Side, ControlTypes
<1>1. SendControl("receiver", n, "kill", 0)  BY DEF KillFile
<1>2. /\ connectedTo["receiver"] /\ ft["receiver"][n].status # "None"
      /\ UNCHANGED <<offered, linked, connectedTo, crossed, arrived, finished, complete>>
      /\ \E m \in FilePackets :
           /\ m.type = "kill" /\ m.number = n /\ PacketFor("sender", m, offered)
           /\ Write("receiver", m)
  BY <1>0, <1>1, ControlSent
<1>3. PICK m \in FilePackets : /\ m.type = "kill" /\ m.number = n /\ PacketFor("sender", m, offered)
                               /\ Write("receiver", m)
  BY <1>2
<1>4. TransferOf("receiver", NoFile, offered) /\ NoFile \in FileTransfers
  BY StateFacts, NoFileOK
<1>6. /\ ft' = [ft EXCEPT !["receiver"][n] = NoFile] /\ refused' = refused \cup {ft["receiver"][n].file}
      /\ UNCHANGED num_sending_files
  BY DEF KillFile, FileInv, Served
<1>7. Done \subseteq Done' /\ ft["receiver"][n].file \in Done'  BY <1>2, <1>6 DEF Done
<1>5. ASSUME ~ crossed, NEW v \in Seq(FilePackets),
             Longer(wire["sender"], v, m) \/ (v = wire["sender"] /\ ~ Used(ft["sender"][n]))
      PROVE  Agreed(n, ft["sender"][n], NoFile, wire["receiver"], v, linked["receiver"], Done')
  <2>1. Agreed(n, ft["sender"][n], NoFile, wire["receiver"], wire["sender"], linked["receiver"], Done')
    BY <1>5, <1>7, AgreedFacts, ReceiverDrops
  <2>2. ~ Is(m, n, {"accept", "pause", "seek"})  BY <1>3 DEF Is
  <2>3. CASE v = wire["sender"]  BY <2>1, <2>3
  <2>4. CASE Longer(wire["sender"], v, m)  BY <1>4, <2>1, <2>2, <2>4, AgreedFacts, ToSenderOther
  <2> QED  BY <1>5, <2>3, <2>4
<1> QED  BY <1>2, <1>3, <1>4, <1>5, <1>6, <1>7, ReceiverWrites

LEMMA SenderPausesStep ==
  ASSUME FileInv, NEW n \in Numbers, PauseFile("sender", n) \/ AcceptFile("sender", n)
  PROVE  FileInv'
<1>0. "sender" \in Side /\ {"pause", "accept"} \subseteq ControlTypes /\ 0 \in Nat
  BY DEF Side, ControlTypes
<1>1. PICK type \in {"pause", "accept"}, us \in BOOLEAN :
        /\ us <=> type = "pause"
        /\ SendControl("sender", n, type, 0)
        /\ ft["sender"][n].status = "Transferring"
        /\ ft' = [ft EXCEPT !["sender"][n] = [ft["sender"][n] EXCEPT !.us = us]]
        /\ UNCHANGED <<num_sending_files, refused>>
  <2>1. /\ ft \in [Side -> [Numbers -> FileTransfers]] /\ "sender" \in Side
        /\ ft["sender"] \in [Numbers -> FileTransfers] /\ ft["sender"][n] \in FileTransfers
    BY <1>0 DEF FileInv, Typed, Transfers
  <2>2. CASE PauseFile("sender", n)
    <3>1. /\ "pause" = "pause" /\ SendControl("sender", n, "pause", 0)
          /\ ft["sender"][n].status = "Transferring"
          /\ ft' = [ft EXCEPT !["sender"][n] = [ft["sender"][n] EXCEPT !.us = TRUE]]
          /\ UNCHANGED <<num_sending_files, refused>>
      BY <2>1, <2>2 DEF PauseFile
    <3> QED  BY <3>1
  <2>3. CASE AcceptFile("sender", n)
    <3>1. ft["sender"][n].status = "Transferring" /\ SendControl("sender", n, "accept", 0)
          /\ UNCHANGED <<num_sending_files, refused>>
      BY <2>3 DEF AcceptFile
    <3>2. ft' = [ft EXCEPT !["sender"][n] = [[ft["sender"][n] EXCEPT !.status = "Transferring"] EXCEPT !.us = FALSE]]
      BY <2>1, <2>3 DEF AcceptFile
    <3>3. [ft["sender"][n] EXCEPT !.status = "Transferring"] = ft["sender"][n]
      BY <2>1, <3>1 DEF FileTransfers
    <3>4. ft' = [ft EXCEPT !["sender"][n] = [ft["sender"][n] EXCEPT !.us = FALSE]]  BY <3>2, <3>3
    <3> QED  BY <3>1, <3>4
  <2> QED  BY <2>2, <2>3
<1>2. type \in ControlTypes /\ type # "seek"  BY <1>0
<1>3. /\ connectedTo["sender"] /\ ft["sender"][n].status # "None"
      /\ ft["sender"][n] \in FileTransfers /\ TransferOf("sender", ft["sender"][n], offered)
      /\ UNCHANGED <<offered, linked, connectedTo, crossed, arrived, finished, complete>>
      /\ \E m \in FilePackets :
           /\ m.type = type /\ m.number = n /\ m.file = ft["sender"][n].file
           /\ PacketFor("receiver", m, offered) /\ Write("sender", m)
  BY <1>0, <1>1, <1>2, ControlSent
<1>4. PICK m \in FilePackets : /\ m.type = type /\ m.number = n /\ m.file = ft["sender"][n].file
                               /\ PacketFor("receiver", m, offered) /\ Write("sender", m)
  BY <1>3
<1>5. PICK t : t = [ft["sender"][n] EXCEPT !.us = us]  OBVIOUS
<1>6. /\ t \in FileTransfers /\ t.status = "Transferring" /\ t.file = ft["sender"][n].file
      /\ t.size = ft["sender"][n].size /\ t.transferred = ft["sender"][n].transferred
      /\ t.requested = ft["sender"][n].requested
  BY <1>1, <1>3, <1>5 DEF FileTransfers
<1>7. TransferOf("sender", t, offered)  BY <1>3, <1>6 DEF TransferOf
<1>8. ASSUME ~ crossed, NEW v, Longer(wire["receiver"], v, m)
      PROVE  Agreed(n, t, ft["receiver"][n], v, wire["sender"], linked["receiver"], Done)
  <2>1. m.type \in {"pause", "accept"} /\ (us <=> m.type = "pause")  BY <1>1, <1>4
  <2> QED  BY <1>1, <1>4, <1>5, <1>8, <2>1, AgreedFacts, SenderPauses
<1>9. num_sending_files' = num_sending_files - (IF t.status = "None" THEN 1 ELSE 0)
  BY <1>1, <1>6 DEF FileInv, Served
<1>10. ft' = [ft EXCEPT !["sender"][n] = t]  BY <1>1, <1>5
<1> QED  BY <1>1, <1>3, <1>4, <1>7, <1>8, <1>9, <1>10, SenderWrites

LEMMA ReceiverControlsStep ==
  ASSUME FileInv, NEW n \in Numbers, PauseFile("receiver", n) \/ AcceptFile("receiver", n)
  PROVE  FileInv'
<1>0. "receiver" \in Side /\ {"pause", "accept"} \subseteq ControlTypes /\ 0 \in Nat
  BY DEF Side, ControlTypes
<1>1. PICK type \in {"pause", "accept"}, us \in BOOLEAN :
        /\ us <=> type = "pause"
        /\ SendControl("receiver", n, type, 0)
        /\ ft["receiver"][n].status \in {"NotAccepted", "Transferring"}
        /\ type = "pause" => ft["receiver"][n].status = "Transferring"
        /\ ft' = [ft EXCEPT !["receiver"][n] =
                    [ft["receiver"][n] EXCEPT !.status = "Transferring", !.us = us]]
        /\ UNCHANGED <<num_sending_files, refused>>
  <2>1. /\ ft \in [Side -> [Numbers -> FileTransfers]] /\ "receiver" \in Side
        /\ ft["receiver"] \in [Numbers -> FileTransfers] /\ ft["receiver"][n] \in FileTransfers
    BY <1>0 DEF FileInv, Typed, Transfers
  <2>2. CASE PauseFile("receiver", n)
    <3>1. /\ SendControl("receiver", n, "pause", 0)
          /\ ft["receiver"][n].status = "Transferring"
          /\ ft' = [ft EXCEPT !["receiver"][n] = [ft["receiver"][n] EXCEPT !.us = TRUE]]
          /\ UNCHANGED <<num_sending_files, refused>>
      BY <2>1, <2>2 DEF PauseFile
    <3>2. [ft["receiver"][n] EXCEPT !.status = "Transferring"] = ft["receiver"][n]
      BY <2>1, <3>1 DEF FileTransfers
    <3>3. ft' = [ft EXCEPT !["receiver"][n] =
                   [ft["receiver"][n] EXCEPT !.status = "Transferring", !.us = TRUE]]
      BY <3>1, <3>2
    <3> QED  BY <3>1, <3>3
  <2>3. CASE AcceptFile("receiver", n)
    <3>1. /\ ft["receiver"][n].status \in {"NotAccepted", "Transferring"}
          /\ SendControl("receiver", n, "accept", 0)
          /\ UNCHANGED <<num_sending_files, refused>>
      BY <2>3 DEF AcceptFile
    <3>2. ft' = [ft EXCEPT !["receiver"][n] =
                   [ft["receiver"][n] EXCEPT !.status = "Transferring", !.us = FALSE]]
      BY <2>1, <2>3 DEF AcceptFile
    <3> QED  BY <3>1, <3>2
  <2> QED  BY <2>2, <2>3
<1>2. type \in ControlTypes  BY <1>0
<1>3. /\ connectedTo["receiver"]
      /\ ft["receiver"][n] \in FileTransfers /\ TransferOf("receiver", ft["receiver"][n], offered)
      /\ UNCHANGED <<offered, linked, connectedTo, crossed, arrived, finished, complete>>
      /\ \E m \in FilePackets :
           /\ m.type = type /\ m.number = n /\ m.file = ft["receiver"][n].file
           /\ PacketFor("sender", m, offered) /\ Write("receiver", m)
  BY <1>0, <1>1, <1>2, ControlSent
<1>4. PICK m \in FilePackets : /\ m.type = type /\ m.number = n /\ m.file = ft["receiver"][n].file
                               /\ PacketFor("sender", m, offered) /\ Write("receiver", m)
  BY <1>3
<1>5. PICK t : t = [ft["receiver"][n] EXCEPT !.status = "Transferring", !.us = us]  OBVIOUS
<1>6. /\ t \in FileTransfers /\ t.status = "Transferring" /\ t.file = ft["receiver"][n].file
      /\ t.size = ft["receiver"][n].size /\ t.transferred = ft["receiver"][n].transferred
      /\ t.requested = ft["receiver"][n].requested
      /\ t.us = us /\ t.other = ft["receiver"][n].other
  BY <1>1, <1>3, <1>5 DEF FileTransfers
<1>7. TransferOf("receiver", t, offered)  BY <1>3, <1>6 DEF TransferOf
<1>9. Done' = Done  BY <1>1, <1>3 DEF Done
<1>8. ASSUME ~ crossed, NEW v \in Seq(FilePackets),
             Longer(wire["sender"], v, m) \/ (v = wire["sender"] /\ ~ Used(ft["sender"][n]))
      PROVE  Agreed(n, ft["sender"][n], t, wire["receiver"], v, linked["receiver"], Done')
  <2>1. /\ m.type \in {"accept", "pause"} /\ (us <=> m.type = "pause")
        /\ m.type = "pause" => ft["receiver"][n].status = "Transferring"
    BY <1>1, <1>4
  <2>2. Agreed(n, ft["sender"][n], t, wire["receiver"], v, linked["receiver"], Done)
    BY <1>1, <1>4, <1>6, <1>8, <2>1, AgreedFacts, ReceiverControls
  <2> QED  BY <1>9, <2>2
<1>10. ft' = [ft EXCEPT !["receiver"][n] = t]  BY <1>1, <1>5
<1> QED  BY <1>1, <1>3, <1>4, <1>7, <1>8, <1>9, <1>10, ReceiverWrites

LEMMA ReceiverSeeksStep ==
  ASSUME FileInv, NEW n \in Numbers, NEW p \in 1 .. Chunk, file_seek(n, p)
  PROVE  FileInv'
<1>0. /\ "receiver" \in Side /\ "seek" \in ControlTypes /\ p \in Nat
  BY SizesAssumption DEF Side, ControlTypes
<1>1. /\ SendControl("receiver", n, "seek", p)
      /\ ft["receiver"][n].status = "NotAccepted" /\ p < ft["receiver"][n].size
      /\ UNCHANGED <<num_sending_files, refused>>
  BY DEF file_seek
<1>2. /\ connectedTo["receiver"]
      /\ ft["receiver"][n] \in FileTransfers /\ TransferOf("receiver", ft["receiver"][n], offered)
      /\ UNCHANGED <<offered, linked, connectedTo, crossed, arrived, finished, complete>>
      /\ \E m \in FilePackets :
           /\ m.type = "seek" /\ m.number = n /\ m.file = ft["receiver"][n].file /\ m.position = p
           /\ PacketFor("sender", m, offered) /\ Write("receiver", m)
  BY <1>0, <1>1, ControlSent
<1>4. PICK m \in FilePackets :
        /\ m.type = "seek" /\ m.number = n /\ m.file = ft["receiver"][n].file /\ m.position = p
        /\ PacketFor("sender", m, offered) /\ Write("receiver", m)
  BY <1>2
<1>5. PICK t : t = [ft["receiver"][n] EXCEPT !.transferred = p]  OBVIOUS
<1>6. /\ t \in FileTransfers /\ t.status = "NotAccepted" /\ t.file = ft["receiver"][n].file
      /\ t.size = ft["receiver"][n].size /\ t.transferred = p
      /\ t.requested = ft["receiver"][n].requested
      /\ t.us = ft["receiver"][n].us /\ t.other = ft["receiver"][n].other
  BY <1>0, <1>1, <1>2, <1>5 DEF FileTransfers
<1>11. t.size \in Nat  BY <1>6, FileTypesOK
<1>7. TransferOf("receiver", t, offered)  BY <1>0, <1>1, <1>2, <1>6, <1>11 DEF TransferOf
<1>9. Done' = Done  BY <1>1, <1>2 DEF Done
<1>8. ASSUME ~ crossed, NEW v \in Seq(FilePackets),
             Longer(wire["sender"], v, m) \/ (v = wire["sender"] /\ ~ Used(ft["sender"][n]))
      PROVE  Agreed(n, ft["sender"][n], t, wire["receiver"], v, linked["receiver"], Done')
  <2>1. /\ Agreed(n, ft["sender"][n], ft["receiver"][n], wire["receiver"], wire["sender"],
                  linked["receiver"], Done)
        /\ ft["sender"][n] \in FileTransfers /\ ft["receiver"][n] \in FileTransfers
        /\ wire["receiver"] \in Seq(FilePackets) /\ wire["sender"] \in Seq(FilePackets)
        /\ linked["receiver"] \in BOOLEAN
    BY <1>8, AgreedFacts
  <2>2. Agreed(n, ft["sender"][n], t, wire["receiver"], v, linked["receiver"], Done)
    <3>1. PICK s \in FileTransfers : s = ft["sender"][n]
      BY <2>1
    <3>2. PICK r \in FileTransfers : r = ft["receiver"][n]
      BY <2>1
    <3>3. PICK wr \in Seq(FilePackets) : wr = wire["receiver"]
      BY <2>1
    <3>4. PICK ws \in Seq(FilePackets) : ws = wire["sender"]
      BY <2>1
    <3>5. PICK up \in BOOLEAN : up = linked["receiver"]
      BY <2>1
    <3>6. Agreed(n, s, r, wr, ws, up, Done)
      BY <2>1, <3>1, <3>2, <3>3, <3>4, <3>5
    <3>7. Longer(ws, v, m) \/ (v = ws /\ ~ Used(s))
      BY <1>8, <3>1, <3>4
    <3>8. SeeksTo(n, r, t, m)
      BY <1>1, <1>4, <1>6, <3>2 DEF SeeksTo
    <3>9. Agreed(n, s, t, wr, v, up, Done)
      BY <3>6, <3>7, <3>8, ReceiverSeeks
    <3> QED
      BY <3>1, <3>3, <3>5, <3>9
  <2> QED  BY <1>9, <2>2
<1>10. ft' = [ft EXCEPT !["receiver"][n] = t]
  <2>1. /\ ft \in [Side -> [Numbers -> FileTransfers]]
        /\ ft["receiver"] \in [Numbers -> FileTransfers]
    BY <1>0 DEF FileInv, Typed, Transfers
  <2> QED  BY <1>0, <1>5, <2>1 DEF file_seek
<1> QED  BY <1>1, <1>2, <1>4, <1>7, <1>8, <1>9, <1>10, ReceiverWrites

LEMMA SendsStep ==
  ASSUME FileInv, NEW n \in Numbers, NEW length \in 0 .. Chunk, file_data(n, length)
  PROVE  FileInv'
<1> DEFINE s == ft["sender"][n]
<1>0. /\ offered \in Nat /\ length \in Nat /\ length <= Chunk /\ Chunk \in Nat
      /\ "sender" \in Side /\ connectedTo["sender"]
  BY StateFacts, SizesAssumption DEF file_data, CanWrite, Side
<1>1. /\ s \in FileTransfers /\ TransferOf("sender", s, offered) /\ s.status = "Transferring"
      /\ s.size \in Nat /\ s.transferred \in Nat /\ s.file \in Nat /\ s.requested \in Nat
      /\ s.file <= offered
  BY AgreedFacts, FileTypesOK DEF file_data, TransferOf
<1>2. s.transferred + length <= s.size  BY <1>0, <1>1 DEF file_data, LengthFits
<1>3. PICK f \in Nat, over \in BOOLEAN : f = s.file /\ over = IsLastChunk(s, length)
  BY <1>1 DEF IsLastChunk
<1>4. PICK m : m = [FilePacket("data", n, f) EXCEPT
                      !.size = length, !.position = s.transferred, !.last = over]
  OBVIOUS
<1>5. over \in BOOLEAN /\ (over <=> length # Chunk \/ s.transferred + length = s.size)
  BY <1>3 DEF IsLastChunk
<1>6. /\ m \in FilePackets /\ m.type = "data" /\ m.number = n /\ m.file = s.file
      /\ m.size = length /\ m.position = s.transferred /\ m.last = over
  <2>1. PICK q : q = FilePacket("data", n, f)  OBVIOUS
  <2>2. q \in FilePackets /\ q.type = "data" /\ q.number = n /\ q.file = f
    <3>1. "data" \in ControlTypes \cup {"offer", "data"}  OBVIOUS
    <3> QED  BY <2>1, <3>1, PacketsOK
  <2>3. m = [q EXCEPT !.size = length, !.position = s.transferred, !.last = over]  BY <1>4, <2>1
  <2> QED  BY <1>0, <1>1, <1>3, <1>5, <2>2, <2>3 DEF FilePackets
<1>7. PacketFor("receiver", m, offered)  BY <1>1, <1>6 DEF PacketFor, ToReceiver
<1>8. Write("sender", m)  BY <1>3, <1>4 DEF file_data
<1>9. PICK q : q = [s EXCEPT !.transferred = s.transferred + length]  OBVIOUS
<1>10. /\ q \in FileTransfers /\ q.status = "Transferring" /\ q.transferred = s.transferred + length
       /\ q.file = s.file /\ q.size = s.size /\ q.us = s.us /\ q.other = s.other
       /\ q.requested = s.requested
  BY <1>0, <1>1, <1>9 DEF FileTransfers
<1>11. PICK t : t = [q EXCEPT !.status = IF over THEN "Finished" ELSE "Transferring"]  OBVIOUS
<1>12. /\ t \in FileTransfers /\ t.status \in {"Transferring", "Finished"}
       /\ t.transferred = s.transferred + length
       /\ t.file = s.file /\ t.size = s.size /\ t.us = s.us /\ t.other = s.other
       /\ t.requested = s.requested
  BY <1>10, <1>11 DEF FileTransfers
<1>13. TransferOf("sender", t, offered)
  BY <1>0, <1>1, <1>2, <1>12 DEF TransferOf
<1>14. ft' = [ft EXCEPT !["sender"][n] = t]
  <2>1. ft \in [Side -> [Numbers -> FileTransfers]] /\ ft["sender"] \in [Numbers -> FileTransfers]
    BY <1>0 DEF FileInv, Typed, Transfers
  <2>2. ft' = [ft EXCEPT !["sender"][n].transferred = @ + length,
                         !["sender"][n].status = IF over THEN "Finished" ELSE @]
    BY <1>3 DEF file_data
  <2>3. PICK g : g = [ft EXCEPT !["sender"][n].transferred = @ + length]  OBVIOUS
  <2>4. /\ g = [ft EXCEPT !["sender"][n] = q] /\ g["sender"][n] = q
        /\ g \in [Side -> [Numbers -> FileTransfers]]
    BY <1>0, <1>9, <1>10, <2>1, <2>3
  <2>5. ft' = [g EXCEPT !["sender"][n].status = IF over THEN "Finished" ELSE @]  BY <2>2, <2>3
  <2>6. ft' = [g EXCEPT !["sender"][n] = t]
    BY <1>0, <1>10, <1>11, <2>4, <2>5
  <2> QED  BY <1>0, <2>1, <2>4, <2>6
<1>15. ASSUME ~ crossed, NEW v, Longer(wire["receiver"], v, m)
      PROVE  Agreed(n, t, ft["receiver"][n], v, wire["sender"], linked["receiver"], Done)
  <2>1. /\ Agreed(n, s, ft["receiver"][n], wire["receiver"], wire["sender"], linked["receiver"], Done)
        /\ ft["receiver"][n] \in FileTransfers
        /\ wire["receiver"] \in Seq(FilePackets) /\ wire["sender"] \in Seq(FilePackets)
        /\ linked["receiver"] \in BOOLEAN
    BY <1>15, AgreedFacts
  <2>2. /\ m.size \in Nat /\ m.size <= Chunk /\ m.position + m.size <= s.size
        /\ m.last <=> m.size # Chunk \/ m.position + m.size = s.size
        /\ t.transferred = m.position + m.size
    BY <1>0, <1>2, <1>5, <1>6, <1>12
  <2> QED  BY <1>1, <1>6, <1>12, <1>15, <2>1, <2>2, SenderSends, SMTT(60)
<1>16. num_sending_files' = num_sending_files - (IF t.status = "None" THEN 1 ELSE 0)
  BY <1>12 DEF FileInv, Served, file_data
<1>17. /\ ft["sender"][n].status # "None"
       /\ UNCHANGED <<offered, linked, connectedTo, crossed, arrived, finished, complete, refused>>
  BY <1>1 DEF file_data
<1> QED  BY <1>0, <1>6, <1>7, <1>8, <1>13, <1>14, <1>15, <1>16, <1>17, SenderWrites

\* The sender changes a transfer that it has, and nothing else.
LEMMA SenderChanges ==
  ASSUME FileInv, NEW n \in Numbers, connectedTo["sender"],
         NEW t, TransferOf("sender", t, offered), ft' = [ft EXCEPT !["sender"][n] = t],
         ft["sender"][n].status # "None",
         num_sending_files' = num_sending_files - (IF t.status = "None" THEN 1 ELSE 0),
         UNCHANGED <<offered, linked, connectedTo, crossed, arrived, complete, refused, wire>>,
         finished' \subseteq finished \cup arrived,
         ~ crossed =>
           Agreed(n, t, ft["receiver"][n], wire["receiver"], wire["sender"], linked["receiver"], Done)
  PROVE  FileInv'
<1>0. /\ offered \in Nat /\ offered' = offered
      /\ "sender" \in Side /\ "receiver" \in Side
  BY StateFacts DEF Side
<1>2. /\ Transfers' /\ ft'["sender"][n] = t
      /\ \A k \in Numbers : k # n => ft'["sender"][k] = ft["sender"][k]
      /\ ft'["receiver"] = ft["receiver"]
  <2>1. /\ offered <= offered' /\ "receiver" # "sender" /\ Transfers /\ offered' \in Nat
        /\ TransferOf("sender", t, offered')
    BY <1>0 DEF FileInv, Typed
  <2>2. /\ Transfers' /\ ft'["sender"][n] = t
        /\ \A k \in Numbers : k # n => ft'["sender"][k] = ft["sender"][k]
        /\ \A d \in Side : d # "sender" => ft'[d] = ft[d]
    BY <1>0, <2>1, OneTransfer
  <2> QED  BY <1>0, <2>1, <2>2
<1>3. Typed'  BY <1>0, <1>2 DEF FileInv, Typed, Wires
<1>4. Connected'
  BY <1>0, <1>2, ConnectedStep DEF FileInv, Typed, Side, Connected
<1>5. Served'
  <2>1. CASE t.status = "None"  BY <1>2, <2>1, ServedLess DEF FileInv
  <2>2. CASE t.status # "None"
    <3>1. num_sending_files' = num_sending_files  BY <2>2 DEF FileInv, Served
    <3>2. \A k \in Numbers : ft'["sender"][k].status # "None" => ft["sender"][k].status # "None"
      BY <1>2
    <3> QED  BY <3>1, <3>2, ServedSame DEF FileInv
  <2> QED  BY <2>1, <2>2
<1>6. ASSUME ~ crossed' PROVE arrived' \subseteq Done' /\ finished' \subseteq Done' /\ AllAgreed'
  <2>1. AllAgreed /\ arrived \subseteq Done /\ finished \subseteq Done /\ ~ crossed
    BY <1>6 DEF FileInv, Agreement
  <2>2. Done' = Done  BY DEF Done
  <2>3. ASSUME NEW k \in Numbers
        PROVE  Agreed(k, ft'["sender"][k], ft'["receiver"][k], wire'["receiver"], wire'["sender"],
                      linked'["receiver"], Done')
    <3>1. CASE k = n  BY <1>2, <2>1, <2>2, <3>1
    <3>2. CASE k # n  BY <1>2, <2>1, <2>2, <3>2 DEF AllAgreed
    <3> QED  BY <3>1, <3>2
  <2> QED  BY <2>1, <2>2, <2>3 DEF AllAgreed
<1> QED  BY <1>3, <1>4, <1>5, <1>6 DEF FileInv, Agreement

LEMMA FinishesStep ==
  ASSUME FileInv, NEW n \in Numbers, FinishFile(n)
  PROVE  FileInv'
<1>1. TransferOf("sender", NoFile, offered) /\ NoFile.status = "None" /\ NoFile \in FileTransfers
  BY StateFacts, NoFileOK DEF NoFile
<1>2. ~ crossed =>
        Agreed(n, NoFile, ft["receiver"][n], wire["receiver"], wire["sender"], linked["receiver"], Done)
  BY AgreedFacts, SenderDrops
<1>3. /\ connectedTo["sender"] /\ ft' = [ft EXCEPT !["sender"][n] = NoFile]
      /\ ft["sender"][n].status # "None"
      /\ num_sending_files' = num_sending_files - (IF NoFile.status = "None" THEN 1 ELSE 0)
      /\ finished' \subseteq finished \cup arrived
      /\ UNCHANGED <<offered, linked, connectedTo, crossed, arrived, complete, refused, wire>>
  BY <1>1 DEF FinishFile
<1> QED  BY <1>1, <1>2, <1>3, SenderChanges

\* What was asked for of the application is no concern of the receiver's.
LEMMA RequestedIsOwn ==
  ASSUME NEW n, NEW s, NEW r, NEW wr, NEW ws, NEW up, NEW done, Agreed(n, s, r, wr, ws, up, done),
         NEW t, t.status = s.status, t.size = s.size, t.transferred = s.transferred,
         t.us = s.us, t.other = s.other, t.file = s.file
  PROVE  Agreed(n, t, r, wr, ws, up, done)
<1>1. /\ Used(t) <=> Used(s)
      /\ Going(t) <=> Going(s)
      /\ Same(t, r) <=> Same(s, r)
  BY DEF Used, Going, Same
<1>2. Ordered(n, wr) /\ Newer(n, t, r, wr)  BY <1>1 DEF Agreed, Newer
<1>3. GotFirst(n, t, r, wr, ws)  BY <1>1 DEF Agreed, GotFirst
<1>4. Accepted(n, t, r, wr, ws, up, done)  BY <1>1 DEF Agreed, Accepted
<1>5. OfFile(n, t, r, wr)  BY <1>1 DEF Agreed, OfFile
<1>6. Chained(n, t, r, wr)  BY <1>1 DEF Agreed, Chained
<1>7. Sought(n, t, r, ws)  BY <1>1 DEF Agreed, Sought
<1>8. PausedS(n, t, r, wr)  BY <1>1 DEF Agreed, PausedS
<1>9. PausedR(n, t, r, ws)  BY <1>1 DEF Agreed, PausedR
<1> QED  BY <1>2, <1>3, <1>4, <1>5, <1>6, <1>7, <1>8, <1>9 DEF Agreed

LEMMA RequestsStep ==
  ASSUME FileInv, NEW n \in Numbers, RequestChunk(n)
  PROVE  FileInv'
<1> DEFINE s == ft["sender"][n]
           more == s.requested + (IF s.size - s.requested < Chunk THEN s.size - s.requested ELSE Chunk)
<1>0. offered \in Nat /\ "sender" \in Side /\ Chunk \in Nat  BY StateFacts, SizesAssumption DEF Side
<1>1. /\ s \in FileTransfers /\ TransferOf("sender", s, offered) /\ s.status = "Transferring"
      /\ s.size \in Nat /\ s.requested \in Nat /\ s.requested <= s.size
  BY AgreedFacts, FileTypesOK DEF RequestChunk, TransferOf
<1>2. more \in Nat /\ more <= s.size  BY <1>0, <1>1
<1>3. PICK t : t = [s EXCEPT !.requested = more]  OBVIOUS
<1>4. /\ t \in FileTransfers /\ t.status = s.status /\ t.size = s.size /\ t.transferred = s.transferred
      /\ t.us = s.us /\ t.other = s.other /\ t.file = s.file /\ t.requested = more
  BY <1>1, <1>2, <1>3 DEF FileTransfers
<1>5. TransferOf("sender", t, offered)  BY <1>1, <1>2, <1>4 DEF TransferOf
<1>6. ~ crossed =>
        Agreed(n, t, ft["receiver"][n], wire["receiver"], wire["sender"], linked["receiver"], Done)
  BY <1>4, AgreedFacts, RequestedIsOwn
<1>7. ft' = [ft EXCEPT !["sender"][n] = t]
  <2>1. ft \in [Side -> [Numbers -> FileTransfers]] /\ ft["sender"] \in [Numbers -> FileTransfers]
    BY <1>0 DEF FileInv, Typed, Transfers
  <2> QED  BY <1>0, <1>3, <2>1 DEF RequestChunk
<1>8. num_sending_files' = num_sending_files - (IF t.status = "None" THEN 1 ELSE 0)
  BY <1>1, <1>4 DEF RequestChunk, FileInv, Served
<1>9. /\ connectedTo["sender"] /\ ft["sender"][n].status # "None" /\ finished' \subseteq finished \cup arrived
      /\ UNCHANGED <<offered, linked, connectedTo, crossed, arrived, complete, refused, wire>>
  BY <1>1 DEF RequestChunk
<1> QED  BY <1>5, <1>6, <1>7, <1>8, <1>9, SenderChanges

-----------------------------------------------------------------------------
(* Packets are taken.                                                      *)

\* The sender takes a packet about number n.
LEMMA SenderTakes ==
  ASSUME FileInv, NEW n \in Numbers, connectedTo["sender"],
         wire["sender"][1].number = n, Wires', Shorter(wire["sender"], wire'["sender"]),
         \/ wire'["receiver"] = wire["receiver"]
         \/ linked["receiver"] /\ \E a : a.number = n /\ Longer(wire["receiver"], wire'["receiver"], a),
         NEW t, TransferOf("sender", t, offered), ft' = [ft EXCEPT !["sender"][n] = t],
         t.status # "None" => ft["sender"][n].status # "None",
         num_sending_files' = num_sending_files -
            (IF t.status = "None" /\ ft["sender"][n].status # "None" THEN 1 ELSE 0),
         UNCHANGED <<offered, linked, connectedTo, arrived, finished, complete, refused>>,
         crossed' \in BOOLEAN, crossed => crossed',
         ~ crossed' => Agreed(n, t, ft["receiver"][n], wire'["receiver"], wire'["sender"],
                              linked["receiver"], Done)
  PROVE  FileInv'
<1>0. /\ offered \in Nat /\ offered' = offered /\ "sender" \in Side /\ "receiver" \in Side
      /\ n \in Int /\ linked["sender"]
  BY StateFacts, NumbersAreInt DEF Side, FileInv, Connected
<1>2. /\ Transfers' /\ ft'["sender"][n] = t
      /\ \A k \in Numbers : k # n => ft'["sender"][k] = ft["sender"][k]
      /\ ft'["receiver"] = ft["receiver"]
  <2>1. /\ offered <= offered' /\ "receiver" # "sender" /\ Transfers /\ offered' \in Nat
        /\ TransferOf("sender", t, offered')
    BY <1>0 DEF FileInv, Typed
  <2>2. /\ Transfers' /\ ft'["sender"][n] = t
        /\ \A k \in Numbers : k # n => ft'["sender"][k] = ft["sender"][k]
        /\ \A d \in Side : d # "sender" => ft'[d] = ft[d]
    BY <1>0, <2>1, OneTransfer, ZenonT(60)
  <2> QED  BY <1>0, <2>1, <2>2
<1>3. Typed'  BY <1>0, <1>2 DEF FileInv, Typed
<1>4. Connected'
  <2>1. \A e \in Side : e = "sender" \/ e = "receiver"  BY DEF Side
  <2> QED  BY <1>0, <1>2, <2>1, ConnectedStep DEF FileInv, Typed, Connected
<1>5. Served'
  <2>1. CASE t.status = "None" /\ ft["sender"][n].status # "None"
    BY <1>2, <2>1, ServedLess DEF FileInv
  <2>2. CASE ~ (t.status = "None" /\ ft["sender"][n].status # "None")
    <3>1. num_sending_files' = num_sending_files  BY <2>2 DEF FileInv, Served
    <3>2. \A k \in Numbers : ft'["sender"][k].status # "None" => ft["sender"][k].status # "None"
      BY <1>2
    <3> QED  BY <3>1, <3>2, ServedSame DEF FileInv
  <2> QED  BY <2>1, <2>2
<1>6. ASSUME ~ crossed' PROVE arrived' \subseteq Done' /\ finished' \subseteq Done' /\ AllAgreed'
  <2>1. AllAgreed /\ arrived \subseteq Done /\ finished \subseteq Done /\ ~ crossed
    BY <1>6 DEF FileInv, Agreement
  <2>2. Done' = Done  BY DEF Done
  <2>3. Agreed(n, ft'["sender"][n], ft["receiver"][n], wire'["receiver"], wire'["sender"],
               linked["receiver"], Done)
    BY <1>2, <1>6
  <2>4. \A k \in Numbers : k # n => ~ Is(wire["sender"][1], k, FileTypes)  BY DEF Is
  <2>5. \/ wire'["receiver"] = wire["receiver"]
        \/ \E a : /\ Longer(wire["receiver"], wire'["receiver"], a)
                  /\ \A k \in Numbers : k # n => ~ Is(a, k, FileTypes)
    BY DEF Is
  <2>6. AllAgreed'  BY <1>0, <1>2, <2>1, <2>2, <2>3, <2>4, <2>5, SenderTook
  <2> QED  BY <2>1, <2>2, <2>6
<1> QED  BY <1>3, <1>4, <1>5, <1>6 DEF FileInv, Agreement

\* The receiver takes a packet about number n.
LEMMA ReceiverTakes ==
  ASSUME FileInv, NEW n \in Numbers, connectedTo["receiver"],
         wire["receiver"][1].number = n, Wires', Shorter(wire["receiver"], wire'["receiver"]),
         \/ wire'["sender"] = wire["sender"]
         \/ linked["sender"] /\ \E a : a.number = n /\ Longer(wire["sender"], wire'["sender"], a),
         NEW t, TransferOf("receiver", t, offered), ft' = [ft EXCEPT !["receiver"][n] = t],
         UNCHANGED <<offered, linked, connectedTo, num_sending_files, finished>>,
         Done \subseteq Done', crossed' \in BOOLEAN, crossed => crossed',
         ~ crossed' =>
           /\ arrived' \subseteq Done'
           /\ Agreed(n, ft["sender"][n], t, wire'["receiver"], wire'["sender"],
                     linked["receiver"], Done')
  PROVE  FileInv'
<1>0. /\ offered \in Nat /\ offered' = offered /\ "sender" \in Side /\ "receiver" \in Side
      /\ n \in Int /\ linked["receiver"]
  BY StateFacts, NumbersAreInt DEF Side, FileInv, Connected
<1>2. /\ Transfers' /\ ft'["receiver"][n] = t
      /\ \A k \in Numbers : k # n => ft'["receiver"][k] = ft["receiver"][k]
      /\ ft'["sender"] = ft["sender"]
  <2>1. /\ offered <= offered' /\ "receiver" # "sender" /\ Transfers /\ offered' \in Nat
        /\ TransferOf("receiver", t, offered')
    BY <1>0 DEF FileInv, Typed
  <2>2. /\ Transfers' /\ ft'["receiver"][n] = t
        /\ \A k \in Numbers : k # n => ft'["receiver"][k] = ft["receiver"][k]
        /\ \A d \in Side : d # "receiver" => ft'[d] = ft[d]
    BY <1>0, <2>1, OneTransfer
  <2> QED  BY <1>0, <2>1, <2>2
<1>3. Typed'  BY <1>0, <1>2 DEF FileInv, Typed
<1>4. Connected'
  <2>1. \A e \in Side : e = "sender" \/ e = "receiver"  BY DEF Side
  <2> QED  BY <1>0, <1>2, <2>1, ConnectedStep DEF FileInv, Typed, Connected
<1>5. Served'  BY <1>2, ServedSame DEF FileInv
<1>6. ASSUME ~ crossed' PROVE arrived' \subseteq Done' /\ finished' \subseteq Done' /\ AllAgreed'
  <2>1. AllAgreed /\ arrived \subseteq Done /\ finished \subseteq Done /\ ~ crossed
    BY <1>6 DEF FileInv, Agreement
  <2>3. Agreed(n, ft["sender"][n], ft'["receiver"][n], wire'["receiver"], wire'["sender"],
               linked["receiver"], Done')
    BY <1>2, <1>6
  <2>4. \A k \in Numbers : k # n => ~ Is(wire["receiver"][1], k, FileTypes)  BY DEF Is
  <2>5. \/ wire'["sender"] = wire["sender"]
        \/ \E a : /\ Longer(wire["sender"], wire'["sender"], a)
                  /\ \A k \in Numbers : k # n => ~ Is(a, k, FileTypes)
    BY DEF Is
  <2>6. AllAgreed'  BY <1>0, <1>2, <2>1, <2>3, <2>4, <2>5, ReceiverTook
  <2> QED  BY <1>6, <2>1, <2>6
<1> QED  BY <1>3, <1>4, <1>5, <1>6 DEF FileInv, Agreement

LEMMA OnlineStep ==
  ASSUME FileInv, NEW e \in Side, wire[e] # <<>>, handle_online(e, Head(wire[e]))
  PROVE  FileInv'
<1>0. /\ "sender" \in Side /\ "receiver" \in Side /\ Other(e) \in Side /\ Other(e) # e
      /\ \A d \in Side : d = e \/ d = Other(e)
      /\ (e = "sender" /\ Other(e) = "receiver") \/ (e = "receiver" /\ Other(e) = "sender")
  BY DEF Side, Other
<1>1. /\ wire[e] \in Seq(FilePackets) /\ Head(wire[e]) = wire[e][1] /\ Len(wire[e]) >= 1
      /\ PacketFor(e, wire[e][1], offered)
  <2>1. wire[e] \in Seq(FilePackets)  BY DEF FileInv, Typed, Wires
  <2>2. Head(wire[e]) = wire[e][1] /\ Len(wire[e]) >= 1  BY <2>1, TailIsShorter
  <2> QED  BY <2>1, <2>2 DEF FileInv, Typed, Wires
<1>2. linked[e]  BY DEF FileInv, Connected
<1>3. wire[e][1].type = "online" /\ ~ wire[e][1].last
  BY <1>1, <1>2 DEF FileInv, Connected, handle_online, PacketFor
<1>4. UNCHANGED <<ft, num_sending_files, linked, offered, complete, refused, finished, crossed, arrived>>
  BY <1>1, <1>3 DEF handle_online, Received
<1>5. PacketFor(Other(e), OnlinePacket, offered)
  <2>1. OnlinePacket = [type |-> "online", number |-> 0, file |-> 0, size |-> 0, position |-> 0, last |-> FALSE]
    BY DEF OnlinePacket, FilePacket
  <2>2. OnlinePacket \in FilePackets  BY <2>1 DEF FilePackets
  <2>3. offered \in Nat  BY StateFacts
  <2> QED  BY <2>1, <2>2, <2>3 DEF PacketFor, ToReceiver, ToSender
<1>6. /\ Wires' /\ Shorter(wire[e], wire'[e])
      /\ \/ wire'[Other(e)] = wire[Other(e)]
         \/ linked[Other(e)] /\ Longer(wire[Other(e)], wire'[Other(e)], OnlinePacket)
  <2>1. CASE ~ connectedTo[e]
    <3>1. Take(e, <<OnlinePacket>>)  BY <1>1, <1>3, <2>1 DEF handle_online
    <3> QED  BY <1>4, <1>5, <3>1, OneAnswered DEF FileInv, Typed
  <2>2. CASE connectedTo[e]
    <3>1. Take(e, <<>>)  BY <2>2 DEF handle_online
    <3> QED  BY <1>4, <3>1, OneTaken DEF FileInv, Typed
  <2> QED  BY <2>1, <2>2
<1>7. /\ connectedTo' \in [Side -> BOOLEAN] /\ connectedTo'[e]
      /\ connectedTo'[Other(e)] = connectedTo[Other(e)]
  <2>1. connectedTo' = [connectedTo EXCEPT ![e] = TRUE]
    BY <1>1, <1>3 DEF handle_online, FileInv, Typed
  <2> QED  BY <1>0, <2>1 DEF FileInv, Typed
<1>8. Typed'  BY <1>4, <1>6, <1>7 DEF FileInv, Typed, Transfers
<1>9. Connected'
  <2>1. \A d \in Side : /\ connectedTo[d] => connectedTo'[d]
                        /\ connectedTo'[d] => linked[d]
                        /\ ~ linked[d] => wire'[d] = wire[d]
                        /\ ~ connectedTo'[d] =>
                             /\ ft'[d] = ft[d]
                             /\ wire'[d] = wire[d] \/ \E m : Longer(wire[d], wire'[d], m)
    BY <1>0, <1>2, <1>4, <1>6, <1>7 DEF FileInv, Connected
  <2> QED  BY <1>4, <2>1, ConnectedStep DEF FileInv, Typed
<1>10. Served'  BY <1>4 DEF FileInv, Served, Sending
<1>11. ASSUME ~ crossed' PROVE arrived' \subseteq Done' /\ finished' \subseteq Done' /\ AllAgreed'
  <2>1. AllAgreed /\ arrived \subseteq Done /\ finished \subseteq Done
    BY <1>4, <1>11 DEF FileInv, Agreement
  <2>2. Done' = Done /\ linked' = linked  BY <1>4 DEF Done
  <2>3. PICK n \in Int : n \notin Numbers
    <3>1. Cardinality(Numbers) \in Nat  BY NumbersAssumption, FS_CardinalityType
    <3>2. -1 \in Int /\ -1 \notin Numbers  BY <3>1, NumbersAssumption
    <3> QED  BY <3>2
  <2>4. \A k \in Numbers : ~ Is(wire[e][1], k, FileTypes) /\ ~ Is(OnlinePacket, k, FileTypes)
    BY <1>3 DEF Is, FileTypes, ControlTypes, OnlinePacket, FilePacket
  <2>5. CASE e = "sender"
    <3>1. \/ wire'["receiver"] = wire["receiver"]
          \/ \E m : /\ Longer(wire["receiver"], wire'["receiver"], m)
                    /\ \A k \in Numbers : k # n => ~ Is(m, k, FileTypes)
      BY <1>0, <1>6, <2>4, <2>5
    <3>2. AllAgreed'  BY <1>4, <1>6, <2>1, <2>2, <2>3, <2>4, <2>5, <3>1, SenderTook
    <3> QED  BY <1>4, <2>1, <2>2, <3>2
  <2>6. CASE e = "receiver"
    <3>1. \/ wire'["sender"] = wire["sender"]
          \/ \E m : /\ Longer(wire["sender"], wire'["sender"], m)
                    /\ \A k \in Numbers : k # n => ~ Is(m, k, FileTypes)
      BY <1>0, <1>6, <2>4, <2>6
    <3>2. AllAgreed'  BY <1>4, <1>6, <2>1, <2>2, <2>3, <2>4, <2>6, <3>1, ReceiverTook
    <3> QED  BY <1>4, <2>1, <2>2, <3>2
  <2> QED  BY <1>0, <2>5, <2>6
<1> QED  BY <1>8, <1>9, <1>10, <1>11 DEF FileInv, Agreement

LEMMA OfferStep ==
  ASSUME FileInv, NEW e \in Side, wire[e] # <<>>, handle_offer(e, Head(wire[e]))
  PROVE  FileInv'
<1>1. /\ Wires' /\ Shorter(wire[e], wire'[e]) /\ wire'[Other(e)] = wire[Other(e)]
      /\ Head(wire[e]) = wire[e][1] /\ PacketFor(e, wire[e][1], offered) /\ Len(wire[e]) >= 1
  BY OneTaken DEF FileInv, Typed, handle_offer
<1>2. wire[e][1].type = "offer" /\ connectedTo[e]  BY <1>1 DEF handle_offer
<1>3. e = "receiver" /\ Other(e) = "sender"
  BY <1>1, <1>2 DEF PacketFor, ToSender, Side, Other
<1>4. PICK n \in Numbers : n = wire["receiver"][1].number  BY <1>1, <1>2, <1>3 DEF PacketFor
<1>5. PICK m : m = wire["receiver"][1]  OBVIOUS
<1>6. /\ m \in FilePackets /\ m.size \in Sizes /\ m.file \in Nat /\ m.file <= offered
      /\ m.size \in Nat /\ offered \in Nat /\ offered <= MaxFiles /\ MaxFiles \in Nat
  BY <1>1, <1>2, <1>3, <1>5, StateFacts DEF PacketFor, FilePackets
<1>7. PICK t : t = IF InUse("receiver", n) THEN ft["receiver"][n] ELSE Offered(m.size, m.file)  OBVIOUS
<1>8. TransferOf("receiver", t, offered)
  <2>1. CASE InUse("receiver", n)  BY <1>7, <2>1, AgreedFacts
  <2>2. CASE ~ InUse("receiver", n)
    <3>1. t = [status |-> "NotAccepted", size |-> m.size, transferred |-> 0, requested |-> 0,
               us |-> FALSE, other |-> FALSE, file |-> m.file]
      BY <1>7, <2>2 DEF Offered, NoFile
    <3>2. t \in FileTransfers  BY <1>6, <3>1 DEF FileTransfers
    <3> QED  BY <1>6, <3>1, <3>2 DEF TransferOf
  <2> QED  BY <2>1, <2>2
<1>9. ft' = [ft EXCEPT !["receiver"][n] = t]
  <2>1. ft \in [Side -> [Numbers -> FileTransfers]] /\ "receiver" \in Side
    BY DEF FileInv, Typed, Transfers, Side
  <2>2. CASE InUse("receiver", n)
    <3>1. ft' = ft  BY <1>1, <1>3, <1>4, <2>2 DEF handle_offer
    <3> QED  BY <1>7, <2>1, <2>2, <3>1
  <2>3. CASE ~ InUse("receiver", n)
    BY <1>1, <1>3, <1>4, <1>5, <1>7, <2>3 DEF handle_offer
  <2> QED  BY <2>2, <2>3
<1>10. UNCHANGED <<offered, linked, connectedTo, num_sending_files, finished, crossed, arrived, complete, refused>>
  BY DEF handle_offer
<1>11. Done' = Done /\ crossed' \in BOOLEAN  BY <1>10 DEF Done, FileInv, Typed
<1>12. ASSUME ~ crossed
       PROVE  /\ arrived \subseteq Done
              /\ Agreed(n, ft["sender"][n], t, wire'["receiver"], wire["sender"], linked["receiver"], Done)
  <2>1. arrived \subseteq Done  BY <1>12 DEF FileInv, Agreement
  <2>2. /\ Agreed(n, ft["sender"][n], ft["receiver"][n], wire["receiver"], wire["sender"],
                  linked["receiver"], Done)
        /\ ft["sender"][n] \in FileTransfers /\ ft["receiver"][n] \in FileTransfers
        /\ wire["receiver"] \in Seq(FilePackets) /\ wire["sender"] \in Seq(FilePackets)
        /\ linked["receiver"] \in BOOLEAN
        /\ ft["sender"][n].status = "NotAccepted" => ~ ft["sender"][n].us
    BY <1>12, AgreedFacts DEF TransferOf
  <2>3. /\ Is(wire["receiver"][1], n, {"offer"})
        /\ ~ Is(wire["receiver"][1], n, {"data", "pause", "accept"})
    BY <1>2, <1>3, <1>4 DEF Is
  <2>4. CASE InUse("receiver", n)
    BY <1>1, <1>3, <1>7, <2>1, <2>2, <2>3, <2>4, TakenByReceiver
  <2>5. CASE ~ InUse("receiver", n)
    <3>1. ~ Used(ft["receiver"][n]) /\ t = Offered(wire["receiver"][1].size, wire["receiver"][1].file)
      BY <1>5, <1>7, <2>5 DEF InUse, Used
    <3>2. Agreed(n, ft["sender"][n], t, wire'["receiver"], wire["sender"], linked["receiver"], Done)
      BY <1>1, <1>3, <2>2, <2>3, <3>1, ReceiverOffered
    <3> QED  BY <2>1, <3>2
  <2> QED  BY <2>4, <2>5
<1>13. ~ crossed' =>
         /\ arrived' \subseteq Done'
         /\ Agreed(n, ft["sender"][n], t, wire'["receiver"], wire'["sender"], linked["receiver"], Done')
  BY <1>1, <1>3, <1>10, <1>11, <1>12
<1> QED  BY <1>1, <1>2, <1>3, <1>4, <1>8, <1>9, <1>10, <1>11, <1>13, ReceiverTakes

LEMMA DataStep ==
  ASSUME FileInv, NEW e \in Side, wire[e] # <<>>, handle_file_data(e, Head(wire[e]))
  PROVE  FileInv'
<1>1. /\ Wires' /\ Shorter(wire[e], wire'[e]) /\ wire'[Other(e)] = wire[Other(e)]
      /\ Head(wire[e]) = wire[e][1] /\ PacketFor(e, wire[e][1], offered) /\ Len(wire[e]) >= 1
  BY OneTaken DEF FileInv, Typed, handle_file_data
<1>2. wire[e][1].type = "data" /\ connectedTo[e]  BY <1>1 DEF handle_file_data
<1>3. e = "receiver" /\ Other(e) = "sender"
  BY <1>1, <1>2 DEF PacketFor, ToSender, Side, Other
<1>4. PICK n \in Numbers : n = wire["receiver"][1].number  BY <1>1, <1>2, <1>3 DEF PacketFor
<1>5. PICK m \in FilePackets : m = wire["receiver"][1] /\ m.number = n
  BY <1>1, <1>3, <1>4 DEF PacketFor
<1>6. m.size \in Nat /\ m.file \in Nat /\ m.position \in Nat /\ m.last \in BOOLEAN
  BY DEF FilePackets
<1>7. PICK r \in FileTransfers : /\ r = ft["receiver"][n] /\ TransferOf("receiver", r, offered)
                                 /\ r.size \in Nat /\ r.transferred \in Nat /\ r.file \in Nat
                                 /\ r.transferred <= r.size
  BY AgreedFacts, FileTypesOK DEF TransferOf
<1>8. PICK length \in Nat : length = IF r.transferred + m.size > r.size THEN r.size - r.transferred ELSE m.size
  BY <1>6, <1>7
<1>9. /\ connectedTo["receiver"]
      /\ UNCHANGED <<offered, linked, connectedTo, num_sending_files, finished, crossed, refused>>
      /\ arrived' = IF m.last THEN arrived \cup {m.file} ELSE arrived
      /\ r.status = "Transferring" =>
           /\ ft' = [ft EXCEPT !["receiver"][n] =
                       IF IsWholeFile(r, length) THEN NoFile
                       ELSE [r EXCEPT !.transferred = r.transferred + length]]
           /\ complete' = IF IsWholeFile(r, length) THEN complete \cup {r.file} ELSE complete
      /\ r.status # "Transferring" => ft' = ft /\ complete' = complete
  <2>1. handle_file_data("receiver", m)
    BY <1>1, <1>3, <1>5
  <2>2. /\ connectedTo["receiver"] /\ arrived' = IF m.last THEN arrived \cup {m.file} ELSE arrived
        /\ UNCHANGED <<offered, linked, connectedTo, num_sending_files, finished, crossed, refused>>
    BY <2>1, Zenon DEF handle_file_data, Received
  <2>3. LET k == IF r.transferred + m.size > r.size THEN r.size - r.transferred ELSE m.size
        IN  IF r.status = "Transferring"
            THEN /\ ft' = [ft EXCEPT !["receiver"][n] =
                             IF IsWholeFile(r, k) THEN NoFile
                             ELSE [r EXCEPT !.transferred = r.transferred + k]]
                 /\ complete' = IF IsWholeFile(r, k) THEN complete \cup {r.file} ELSE complete
            ELSE ft' = ft /\ complete' = complete
    BY <1>5, <1>7, <2>1, Zenon DEF handle_file_data
  <2> QED
    BY <1>8, <2>2, <2>3, Zenon
<1>10. Done \subseteq Done' /\ crossed' = crossed /\ crossed' \in BOOLEAN
  <2>1. complete \subseteq complete'  BY <1>9
  <2> QED  BY <1>9, <2>1 DEF Done, FileInv, Typed
<1>11. /\ Is(wire["receiver"][1], n, {"data"}) /\ 1 <= Len(wire["receiver"])
       /\ wire'["sender"] = wire["sender"] /\ Shorter(wire["receiver"], wire'["receiver"])
       /\ wire["receiver"][1].number = n
  BY <1>1, <1>2, <1>3, <1>5 DEF Is
<1>12. /\ ~ crossed => Agreed(n, ft["sender"][n], r, wire["receiver"], wire["sender"],
                              linked["receiver"], Done)
       /\ ft["sender"][n] \in FileTransfers
       /\ wire["receiver"] \in Seq(FilePackets) /\ wire["sender"] \in Seq(FilePackets)
       /\ wire'["receiver"] \in Seq(FilePackets)
       /\ linked["receiver"] \in BOOLEAN
  BY <1>7, <1>11, AgreedFacts DEF Shorter
<1>13. ~ crossed => arrived \subseteq Done  BY DEF FileInv, Agreement
<1>14. linked["receiver"]  BY <1>9 DEF FileInv, Connected, Side
<1>15. ft \in [Side -> [Numbers -> FileTransfers]] /\ "receiver" \in Side
  BY DEF FileInv, Typed, Transfers, Side
<1>20. /\ UNCHANGED <<offered, linked, connectedTo, num_sending_files, finished>>
       /\ connectedTo["receiver"] /\ Wires' /\ (crossed => crossed')
  BY <1>1, <1>9, <1>10
\* The chunk is the next of the receiver's file.
<1>16. ASSUME ~ crossed, Used(r)
       PROVE  /\ m.file = r.file /\ r.status = "Transferring" /\ length = m.size
              /\ r.transferred + length = m.position + m.size
              /\ IsWholeFile(r, length) <=> m.last
  <2>1. /\ m.file = r.file /\ m.position = r.transferred /\ r.status = "Transferring"
        /\ m.position + m.size <= r.size
        /\ m.last <=> m.size # Chunk \/ m.position + m.size = r.size
    BY <1>5, <1>11, <1>12, <1>16, ChunkFits
  <2>2. length = m.size  BY <1>6, <1>7, <1>8, <2>1
  <2>3. Chunk \in Nat \ {0}  BY SizesAssumption
  <2> QED  BY <1>6, <1>7, <2>1, <2>2, <2>3 DEF IsWholeFile
<1>17. CASE r.status # "Transferring"
  <2>1. ft' = [ft EXCEPT !["receiver"][n] = r] /\ Done' = Done
    BY <1>7, <1>9, <1>15, <1>17 DEF Done
  <2>2. ASSUME ~ crossed
        PROVE  /\ arrived' \subseteq Done
               /\ Agreed(n, ft["sender"][n], r, wire'["receiver"], wire["sender"], linked["receiver"], Done)
    <3>1. ~ Used(r)  BY <1>16, <1>17, <2>2
    <3>2. m.file \in Done
      BY <1>5, <1>11, <1>12, <1>14, <2>2, <3>1 DEF Agreed, Accepted, Kept
    <3>3. Agreed(n, ft["sender"][n], r, wire'["receiver"], wire["sender"], linked["receiver"], Done)
      BY <1>11, <1>12, <2>2, <3>1, TakenByReceiver
    <3> QED  BY <1>9, <1>13, <2>2, <3>2, <3>3
  <2>3. ~ crossed' =>
          /\ arrived' \subseteq Done'
          /\ Agreed(n, ft["sender"][n], r, wire'["receiver"], wire'["sender"], linked["receiver"], Done')
    BY <1>10, <1>11, <2>1, <2>2
  <2> QED  BY <1>7, <1>10, <1>11, <1>20, <2>1, <2>3, ReceiverTakes
<1>18. CASE r.status = "Transferring" /\ IsWholeFile(r, length)
  <2>1. /\ ft' = [ft EXCEPT !["receiver"][n] = NoFile] /\ r.file \in Done'
    BY <1>9, <1>18 DEF Done
  <2>2. NoFile \in FileTransfers /\ TransferOf("receiver", NoFile, offered)  BY StateFacts, NoFileOK
  <2>3. ASSUME ~ crossed
        PROVE  /\ arrived' \subseteq Done'
               /\ Agreed(n, ft["sender"][n], NoFile, wire'["receiver"], wire["sender"],
                         linked["receiver"], Done')
    <3>1. Used(r) /\ ~ Used(NoFile)  BY <1>18 DEF Used, NoFile
    <3>2. arrived' \subseteq Done'  BY <1>9, <1>10, <1>13, <1>16, <2>1, <2>3, <3>1
    <3>3. Agreed(n, ft["sender"][n], NoFile, wire["receiver"], wire["sender"], linked["receiver"], Done')
      BY <1>10, <1>12, <2>1, <2>3, ReceiverDrops
    <3>4. Agreed(n, ft["sender"][n], NoFile, wire'["receiver"], wire["sender"], linked["receiver"], Done')
      BY <1>11, <1>12, <2>2, <3>1, <3>3, TakenByReceiver
    <3> QED  BY <3>2, <3>4
  <2>4. ~ crossed' =>
          /\ arrived' \subseteq Done'
          /\ Agreed(n, ft["sender"][n], NoFile, wire'["receiver"], wire'["sender"], linked["receiver"], Done')
    BY <1>10, <1>11, <2>3
  <2> QED  BY <1>10, <1>11, <1>20, <2>1, <2>2, <2>4, ReceiverTakes
<1>19. CASE r.status = "Transferring" /\ ~ IsWholeFile(r, length)
  <2>1. PICK t : t = [r EXCEPT !.transferred = r.transferred + length]  OBVIOUS
  <2>2. ft' = [ft EXCEPT !["receiver"][n] = t] /\ Done' = Done
    BY <1>9, <1>19, <2>1 DEF Done
  <2>3. /\ t \in FileTransfers /\ t.transferred = r.transferred + length /\ t.status = "Transferring"
        /\ t.size = r.size /\ t.file = r.file /\ t.requested = r.requested
    BY <1>7, <1>8, <1>19, <2>1 DEF FileTransfers
  <2>4. r.transferred + length <= r.size  BY <1>6, <1>7, <1>8
  <2>5. TransferOf("receiver", t, offered)  BY <1>7, <2>3, <2>4 DEF TransferOf
  <2>6. ASSUME ~ crossed
        PROVE  /\ arrived' \subseteq Done
               /\ Agreed(n, ft["sender"][n], t, wire'["receiver"], wire["sender"], linked["receiver"], Done)
    <3>1. Used(r)  BY <1>19 DEF Used
    <3>2. ~ m.last /\ r.transferred + length = wire["receiver"][1].position + wire["receiver"][1].size
      BY <1>5, <1>16, <1>19, <2>6, <3>1
    <3>3. t = [r EXCEPT !.transferred = wire["receiver"][1].position + wire["receiver"][1].size]
      BY <2>1, <3>2
    <3>4. Agreed(n, ft["sender"][n], t, wire'["receiver"], wire["sender"], linked["receiver"], Done)
      BY <1>11, <1>12, <2>6, <3>1, <3>3, ReceiverGets
    <3> QED  BY <1>9, <1>13, <2>6, <3>2, <3>4
  <2>7. ~ crossed' =>
          /\ arrived' \subseteq Done'
          /\ Agreed(n, ft["sender"][n], t, wire'["receiver"], wire'["sender"], linked["receiver"], Done')
    BY <1>10, <1>11, <2>2, <2>6
  <2> QED  BY <1>10, <1>11, <1>20, <2>2, <2>5, <2>7, ReceiverTakes
<1> QED  BY <1>17, <1>18, <1>19

\* The sender takes a control of a transfer that it has.
LEMMA SenderControlledStep ==
  ASSUME FileInv, wire["sender"] # <<>>, handle_filecontrol("sender", Head(wire["sender"])),
         InUse("sender", Head(wire["sender"]).number)
  PROVE  FileInv'
<1>0. "sender" \in Side /\ Other("sender") = "receiver"  BY DEF Side, Other
<1>1. /\ Wires' /\ Shorter(wire["sender"], wire'["sender"]) /\ wire'["receiver"] = wire["receiver"]
      /\ Head(wire["sender"]) = wire["sender"][1] /\ PacketFor("sender", wire["sender"][1], offered)
  BY <1>0, OneTaken DEF FileInv, Typed, handle_filecontrol
<1>2. PICK m \in FilePackets : m = wire["sender"][1] /\ m = Head(wire["sender"])
  BY <1>1 DEF PacketFor
<1>3. m.type \in ControlTypes /\ connectedTo["sender"]  BY <1>2 DEF handle_filecontrol
<1>4. PICK n \in Numbers : n = m.number
  BY <1>1, <1>2, <1>3 DEF PacketFor, ControlTypes
<1>5. m.position \in Nat /\ m.file \in Nat  BY DEF FilePackets
<1>6. PICK s \in FileTransfers :
        /\ s = ft["sender"][n] /\ TransferOf("sender", s, offered) /\ s.status # "None"
        /\ s.size \in Nat /\ s.transferred \in Nat /\ s.file \in Nat /\ s.requested \in Nat
        /\ s.status = "NotAccepted" => ~ s.us /\ ~ s.other
  BY <1>2, <1>4, AgreedFacts, FileTypesOK DEF TransferOf, InUse
<1>7. PICK t : t = Controlled("sender", s, m)  OBVIOUS
<1>8. /\ ft' = [ft EXCEPT !["sender"][n] = t]
      /\ num_sending_files' = num_sending_files - (IF m.type = "kill" THEN 1 ELSE 0)
      /\ crossed' = (crossed \/ m.file # s.file)
      /\ UNCHANGED <<offered, linked, connectedTo, arrived, finished, complete, refused>>
  BY <1>2, <1>4, <1>6, <1>7 DEF handle_filecontrol
<1>9. crossed' \in BOOLEAN /\ (crossed => crossed') /\ (~ crossed' => ~ crossed /\ m.file = s.file)
  BY <1>8 DEF FileInv, Typed
<1>10. wire["sender"][1].number = n /\ Used(s)  BY <1>2, <1>4, <1>6 DEF Used
<1>11. /\ ~ crossed => Agreed(n, s, ft["receiver"][n], wire["receiver"], wire["sender"],
                              linked["receiver"], Done)
       /\ ft["receiver"][n] \in FileTransfers
       /\ wire["receiver"] \in Seq(FilePackets) /\ wire["sender"] \in Seq(FilePackets)
       /\ linked["receiver"] \in BOOLEAN
  BY <1>6, AgreedFacts
<1>12. UNCHANGED <<offered, linked, connectedTo, arrived, finished, complete, refused>>  BY <1>8
\* It is enough to say what t is and that the two ends still agree.
<1>13. ASSUME TransferOf("sender", t, offered), t.status = "None" <=> m.type = "kill",
              ~ crossed' => Agreed(n, t, ft["receiver"][n], wire["receiver"], wire'["sender"],
                                   linked["receiver"], Done)
       PROVE  FileInv'
  <2>1. /\ num_sending_files' = num_sending_files -
             (IF t.status = "None" /\ ft["sender"][n].status # "None" THEN 1 ELSE 0)
        /\ t.status # "None" => ft["sender"][n].status # "None"
    BY <1>6, <1>8, <1>13
  <2>2. ~ crossed' => Agreed(n, t, ft["receiver"][n], wire'["receiver"], wire'["sender"],
                             linked["receiver"], Done)
    BY <1>1, <1>13
  <2>3. ft' = [ft EXCEPT !["sender"][n] = t]  BY <1>8
  <2> QED  BY <1>1, <1>3, <1>9, <1>10, <1>12, <1>13, <2>1, <2>2, <2>3, SenderTakes
<1>14. CASE m.type = "accept"
  <2>1. \/ s.status = "NotAccepted" /\ t = [s EXCEPT !.status = "Transferring"]
        \/ s.status # "NotAccepted" /\ t = [s EXCEPT !.other = FALSE]
    BY <1>7, <1>14 DEF Controlled
  <2>2. /\ t \in FileTransfers /\ t.status # "None" /\ t.file = s.file /\ t.size = s.size
        /\ t.transferred = s.transferred /\ t.requested = s.requested
        /\ s.status # "NotAccepted" => t.status = s.status
        /\ s.status = "NotAccepted" => t.status = "Transferring"
    BY <1>6, <2>1 DEF FileTransfers
  <2>3. TransferOf("sender", t, offered)  BY <1>6, <2>2 DEF TransferOf
  <2>4. ASSUME ~ crossed'
        PROVE  Agreed(n, t, ft["receiver"][n], wire["receiver"], wire'["sender"], linked["receiver"], Done)
    <3>1. /\ Is(wire["sender"][1], n, {"accept"}) /\ wire["sender"][1].file = s.file
          /\ s.status = "NotAccepted" => ~ s.other
      BY <1>2, <1>4, <1>6, <1>9, <1>14, <2>4 DEF Is
    <3> QED  BY <1>1, <1>9, <1>10, <1>11, <2>1, <2>4, <3>1, SenderAccepted
  <2> QED  BY <1>13, <1>14, <2>2, <2>3, <2>4
<1>15. CASE m.type = "pause"
  <2>1. t = IF s.status = "Transferring" THEN [s EXCEPT !.other = TRUE] ELSE s
    BY <1>7, <1>15 DEF Controlled
  <2>2. /\ t \in FileTransfers /\ t.status = s.status /\ t.file = s.file /\ t.size = s.size
        /\ t.transferred = s.transferred /\ t.requested = s.requested
        /\ t.status = "NotAccepted" => t = s
    BY <2>1 DEF FileTransfers
  <2>3. TransferOf("sender", t, offered)  BY <1>6, <2>2 DEF TransferOf
  <2>4. ASSUME ~ crossed'
        PROVE  Agreed(n, t, ft["receiver"][n], wire["receiver"], wire'["sender"], linked["receiver"], Done)
    <3>1. Is(wire["sender"][1], n, {"pause"}) /\ wire["sender"][1].file = s.file
      BY <1>2, <1>4, <1>9, <1>15, <2>4 DEF Is
    <3> QED  BY <1>1, <1>9, <1>10, <1>11, <2>1, <2>4, <3>1, SenderIsPaused
  <2> QED  BY <1>6, <1>13, <1>15, <2>2, <2>3, <2>4
<1>16. CASE m.type = "kill"
  <2>1. t = NoFile  BY <1>7, <1>16 DEF Controlled
  <2>2. t \in FileTransfers /\ TransferOf("sender", t, offered) /\ t.status = "None" /\ ~ Used(t)
    BY <2>1, StateFacts, NoFileOK DEF NoFile, Used
  <2>3. ASSUME ~ crossed'
        PROVE  Agreed(n, t, ft["receiver"][n], wire["receiver"], wire'["sender"], linked["receiver"], Done)
    <3>1. Agreed(n, t, ft["receiver"][n], wire["receiver"], wire["sender"], linked["receiver"], Done)
      BY <1>9, <1>11, <2>1, <2>3, SenderDrops
    <3> QED  BY <1>1, <1>11, <2>2, <3>1, TakenBySender
  <2> QED  BY <1>13, <1>16, <2>2, <2>3
<1>17. CASE m.type = "seek"
  <2>1. t = IF s.status = "NotAccepted" /\ m.position < s.size
            THEN [s EXCEPT !.transferred = m.position, !.requested = m.position] ELSE s
    BY <1>7, <1>17 DEF Controlled
  <2>4. TransferOf("sender", t, offered) /\ t.status = s.status
    <3>1. t.status = s.status  BY <2>1 DEF FileTransfers
    <3>2. CASE s.status = "NotAccepted" /\ m.position < s.size
      <4>1. /\ t \in FileTransfers /\ t.file = s.file /\ t.size = s.size
            /\ t.transferred = m.position /\ t.requested = m.position /\ t.us = s.us /\ t.other = s.other
        BY <1>5, <2>1, <3>2 DEF FileTransfers
      <4> QED  BY <1>5, <1>6, <3>1, <3>2, <4>1 DEF TransferOf
    <3>3. CASE ~ (s.status = "NotAccepted" /\ m.position < s.size)  BY <1>6, <2>1, <3>3
    <3> QED  BY <3>2, <3>3
  <2>5. ASSUME ~ crossed'
        PROVE  Agreed(n, t, ft["receiver"][n], wire["receiver"], wire'["sender"], linked["receiver"], Done)
    <3>1. Is(wire["sender"][1], n, {"seek"}) /\ wire["sender"][1].file = s.file
      BY <1>2, <1>4, <1>9, <1>17, <2>5 DEF Is
    <3>2. t = IF s.status = "NotAccepted" /\ wire["sender"][1].position < s.size
              THEN [s EXCEPT !.transferred = wire["sender"][1].position,
                             !.requested = wire["sender"][1].position] ELSE s
      BY <1>2, <2>1
    <3> QED  BY <1>1, <1>9, <1>10, <1>11, <2>5, <3>1, <3>2, SenderSeeks, ZenonT(60)
  <2> QED  BY <1>6, <1>13, <1>17, <2>4, <2>5
<1> QED  BY <1>3, <1>14, <1>15, <1>16, <1>17 DEF ControlTypes

\* The receiver takes a control of a transfer that it has.
LEMMA ReceiverControlledStep ==
  ASSUME FileInv, wire["receiver"] # <<>>, handle_filecontrol("receiver", Head(wire["receiver"])),
         InUse("receiver", Head(wire["receiver"]).number)
  PROVE  FileInv'
<1>0. "receiver" \in Side /\ Other("receiver") = "sender"  BY DEF Side, Other
<1>1. /\ Wires' /\ Shorter(wire["receiver"], wire'["receiver"]) /\ wire'["sender"] = wire["sender"]
      /\ Head(wire["receiver"]) = wire["receiver"][1] /\ PacketFor("receiver", wire["receiver"][1], offered)
  BY <1>0, OneTaken DEF FileInv, Typed, handle_filecontrol
<1>2. PICK m \in FilePackets : m = wire["receiver"][1] /\ m = Head(wire["receiver"])
  BY <1>1 DEF PacketFor
<1>3. m.type \in {"accept", "pause", "kill"} /\ connectedTo["receiver"]
  BY <1>1, <1>2 DEF handle_filecontrol, PacketFor, ToReceiver, ControlTypes
<1>4. PICK n \in Numbers : n = m.number
  BY <1>1, <1>2, <1>3 DEF PacketFor
<1>6. PICK r \in FileTransfers :
        r = ft["receiver"][n] /\ TransferOf("receiver", r, offered) /\ r.status # "None"
  BY <1>2, <1>4, AgreedFacts DEF InUse
<1>7. PICK t : t = Controlled("receiver", r, m)  OBVIOUS
<1>8. /\ ft' = [ft EXCEPT !["receiver"][n] = t]
      /\ num_sending_files' = num_sending_files - 0
      /\ crossed' = (crossed \/ m.file # r.file)
      /\ UNCHANGED <<offered, linked, connectedTo, arrived, finished, complete, refused>>
  BY <1>2, <1>4, <1>6, <1>7 DEF handle_filecontrol
<1>9. /\ crossed' \in BOOLEAN /\ (crossed => crossed') /\ (~ crossed' => ~ crossed /\ m.file = r.file)
      /\ Done' = Done /\ num_sending_files' = num_sending_files
  <2>1. num_sending_files' = num_sending_files  BY <1>8 DEF FileInv, Served
  <2>2. Done' = Done  BY <1>8 DEF Done
  <2>3. crossed' \in BOOLEAN /\ (crossed => crossed') /\ (~ crossed' => ~ crossed /\ m.file = r.file)
    BY <1>8 DEF FileInv, Typed
  <2> QED  BY <2>1, <2>2, <2>3
<1>10. wire["receiver"][1].number = n /\ Used(r)  BY <1>2, <1>4, <1>6 DEF Used
<1>11. /\ ~ crossed => Agreed(n, ft["sender"][n], r, wire["receiver"], wire["sender"],
                              linked["receiver"], Done)
       /\ ft["sender"][n] \in FileTransfers
       /\ wire["receiver"] \in Seq(FilePackets) /\ wire["sender"] \in Seq(FilePackets)
       /\ linked["receiver"] \in BOOLEAN
  BY <1>6, AgreedFacts
<1>12. UNCHANGED <<offered, linked, connectedTo, num_sending_files, finished>> /\ arrived' = arrived
  BY <1>8, <1>9
<1>13. ASSUME TransferOf("receiver", t, offered),
              ~ crossed' => Agreed(n, ft["sender"][n], t, wire'["receiver"], wire["sender"],
                                   linked["receiver"], Done)
       PROVE  FileInv'
  <2>1. ~ crossed' =>
          /\ arrived' \subseteq Done'
          /\ Agreed(n, ft["sender"][n], t, wire'["receiver"], wire'["sender"], linked["receiver"], Done')
    BY <1>1, <1>9, <1>12, <1>13 DEF FileInv, Agreement
  <2>2. ft' = [ft EXCEPT !["receiver"][n] = t] /\ Done \subseteq Done'  BY <1>8, <1>9
  <2> QED  BY <1>1, <1>3, <1>9, <1>10, <1>12, <1>13, <2>1, <2>2, ReceiverTakes
<1>14. CASE m.type \in {"accept", "pause"}
  <2>1. t = IF m.type = "accept" THEN [r EXCEPT !.other = FALSE]
            ELSE IF r.status = "Transferring" THEN [r EXCEPT !.other = TRUE] ELSE r
    BY <1>7, <1>14 DEF Controlled
  <2>2. /\ t \in FileTransfers /\ t.status = r.status /\ t.file = r.file /\ t.size = r.size
        /\ t.transferred = r.transferred /\ t.requested = r.requested /\ t.us = r.us
        /\ t.status = "NotAccepted" => ~ t.other \/ t = r
    BY <1>14, <2>1 DEF FileTransfers
  <2>3. TransferOf("receiver", t, offered)  BY <1>6, <2>2 DEF TransferOf
  <2>4. ASSUME ~ crossed'
        PROVE  Agreed(n, ft["sender"][n], t, wire'["receiver"], wire["sender"], linked["receiver"], Done)
    <3>1. Is(wire["receiver"][1], n, {"pause", "accept"}) /\ wire["receiver"][1].file = r.file
      BY <1>2, <1>4, <1>9, <1>14, <2>4 DEF Is
    <3>2. t = IF wire["receiver"][1].type = "accept" THEN [r EXCEPT !.other = FALSE]
              ELSE IF r.status = "Transferring" THEN [r EXCEPT !.other = TRUE] ELSE r
      BY <1>2, <2>1
    <3> QED  BY <1>1, <1>9, <1>10, <1>11, <2>4, <3>1, <3>2, ReceiverIsPaused
  <2> QED  BY <1>13, <2>3, <2>4
<1>15. CASE m.type = "kill"
  <2>1. t = NoFile  BY <1>7, <1>15 DEF Controlled
  <2>2. TransferOf("receiver", t, offered)  BY <2>1, StateFacts, NoFileOK
  <2>3. ASSUME ~ crossed'
        PROVE  Agreed(n, ft["sender"][n], t, wire'["receiver"], wire["sender"], linked["receiver"], Done)
    <3>1. Is(wire["receiver"][1], n, {"kill"}) /\ wire["receiver"][1].file = r.file
      BY <1>2, <1>4, <1>9, <1>15, <2>3 DEF Is
    <3> QED  BY <1>1, <1>9, <1>11, <2>1, <2>3, <3>1, ReceiverIsKilled
  <2> QED  BY <1>13, <2>2, <2>3
<1> QED  BY <1>3, <1>14, <1>15

\* A control about no transfer is answered with a kill.
LEMMA RefusedStep ==
  ASSUME FileInv, NEW e \in Side, wire[e] # <<>>, handle_filecontrol(e, Head(wire[e])),
         ~ InUse(e, Head(wire[e]).number)
  PROVE  FileInv'
<1>1. /\ wire[e] \in Seq(FilePackets) /\ Head(wire[e]) = wire[e][1]
      /\ PacketFor(e, wire[e][1], offered)
  <2>1. wire[e] \in Seq(FilePackets)  BY DEF FileInv, Typed, Wires
  <2>2. Head(wire[e]) = wire[e][1] /\ Len(wire[e]) >= 1  BY <2>1, TailIsShorter
  <2> QED  BY <2>1, <2>2 DEF FileInv, Typed, Wires
<1>2. PICK m \in FilePackets : m = wire[e][1] /\ m = Head(wire[e])  BY <1>1 DEF PacketFor
<1>3. m.type \in ControlTypes /\ connectedTo[e]  BY <1>2 DEF handle_filecontrol
<1>4. PICK n \in Numbers : n = m.number  BY <1>1, <1>2, <1>3 DEF PacketFor, ControlTypes
<1>5. PICK f \in Nat : f = m.file /\ f <= offered  BY <1>1, <1>2 DEF FilePackets, PacketFor
<1>6. PICK a : a = FilePacket("kill", n, f)  OBVIOUS
<1>7. a \in FilePackets /\ a.type = "kill" /\ a.number = n /\ PacketFor(Other(e), a, offered)
  <2>1. "kill" \in ControlTypes \cup {"offer", "data"}  BY DEF ControlTypes
  <2>2. a \in FilePackets /\ a.type = "kill" /\ a.number = n /\ a.file = f  BY <1>6, <2>1, PacketsOK
  <2> QED  BY <1>5, <2>2 DEF PacketFor, ToSender, ToReceiver
<1>8. /\ Take(e, <<a>>) /\ UNCHANGED <<ft, num_sending_files, crossed>>
      /\ UNCHANGED <<offered, linked, connectedTo, arrived, finished, complete, refused>>
  BY <1>2, <1>4, <1>5, <1>6 DEF handle_filecontrol
<1>9. /\ Wires' /\ Shorter(wire[e], wire'[e])
      /\ \/ wire'[Other(e)] = wire[Other(e)]
         \/ linked[Other(e)] /\ Longer(wire[Other(e)], wire'[Other(e)], a)
  BY <1>7, <1>8, OneAnswered DEF FileInv, Typed
<1>10. /\ ft \in [Side -> [Numbers -> FileTransfers]] /\ "receiver" \in Side /\ "sender" \in Side
       /\ ft' = ft /\ Done' = Done /\ crossed' = crossed /\ crossed' \in BOOLEAN
       /\ num_sending_files \in Nat
  BY <1>8 DEF FileInv, Typed, Transfers, Side, Done, Served
<1>11. PICK s \in FileTransfers, r \in FileTransfers, wr \in Seq(FilePackets), ws \in Seq(FilePackets) :
         /\ s = ft["sender"][n] /\ r = ft["receiver"][n] /\ wr = wire["receiver"] /\ ws = wire["sender"]
         /\ ~ crossed => Agreed(n, s, r, wr, ws, linked["receiver"], Done)
         /\ linked["receiver"] \in BOOLEAN
         /\ TransferOf("sender", s, offered) /\ TransferOf("receiver", r, offered)
  BY AgreedFacts
<1>12. CASE e = "sender"
  <2>1. /\ Other(e) = "receiver" /\ ~ Used(s) /\ s.status = "None" /\ wire["sender"][1].number = n
    BY <1>2, <1>4, <1>11, <1>12 DEF Other, Used, InUse
  <2>2. PICK v, w : v = wire'["sender"] /\ w = wire'["receiver"]  OBVIOUS
  <2>3. Shorter(ws, v) /\ (w = wr \/ Longer(wr, w, a)) /\ v \in Seq(FilePackets)
    BY <1>9, <1>11, <1>12, <2>1, <2>2 DEF Shorter
  <2>4. ASSUME ~ crossed
        PROVE  Agreed(n, s, r, w, v, linked["receiver"], Done)
    <3>1. Agreed(n, s, r, wr, v, linked["receiver"], Done)
      BY <1>11, <2>1, <2>3, <2>4, TakenBySender
    <3>2. CASE w = wr  BY <3>1, <3>2
    <3>3. CASE Longer(wr, w, a)  BY <1>7, <1>11, <2>1, <2>3, <3>1, <3>3, SenderKills
    <3> QED  BY <2>3, <3>2, <3>3
  <2>5. ft' = [ft EXCEPT !["sender"][n] = s]  BY <1>10, <1>11
  <2>6. num_sending_files' = num_sending_files -
          (IF s.status = "None" /\ ft["sender"][n].status # "None" THEN 1 ELSE 0)
    BY <1>8, <1>10, <1>11, <2>1
  <2>7. ~ crossed' => Agreed(n, s, ft["receiver"][n], wire'["receiver"], wire'["sender"],
                             linked["receiver"], Done)
    BY <1>10, <1>11, <2>2, <2>4
  <2>8. \/ wire'["receiver"] = wire["receiver"]
        \/ linked["receiver"] /\ \E b : b.number = n /\ Longer(wire["receiver"], wire'["receiver"], b)
    BY <1>7, <1>9, <2>1
  <2>9. /\ Shorter(wire["sender"], wire'["sender"]) /\ connectedTo["sender"]
        /\ UNCHANGED <<offered, linked, connectedTo, arrived, finished, complete, refused>>
        /\ (crossed => crossed') /\ (s.status # "None" => ft["sender"][n].status # "None")
    BY <1>3, <1>8, <1>9, <1>12, <2>1
  <2> QED  BY <1>9, <1>10, <1>11, <2>1, <2>5, <2>6, <2>7, <2>8, <2>9, SenderTakes
<1>13. CASE e = "receiver"
  <2>1. /\ Other(e) = "sender" /\ ~ Used(r) /\ wire["receiver"][1].number = n
        /\ ~ Is(a, n, {"accept", "pause", "seek"})
    BY <1>2, <1>4, <1>7, <1>11, <1>13 DEF Other, Used, InUse, Is
  <2>2. PICK v, w : v = wire'["receiver"] /\ w = wire'["sender"]  OBVIOUS
  <2>3. Shorter(wr, v) /\ (w = ws \/ Longer(ws, w, a)) /\ v \in Seq(FilePackets)
    BY <1>9, <1>11, <1>13, <2>1, <2>2 DEF Shorter
  <2>4. ASSUME ~ crossed
        PROVE  Agreed(n, s, r, v, w, linked["receiver"], Done)
    <3>1. Agreed(n, s, r, v, ws, linked["receiver"], Done)
      BY <1>11, <2>1, <2>3, <2>4, TakenByReceiver
    <3>2. CASE w = ws  BY <3>1, <3>2
    <3>3. CASE Longer(ws, w, a)  BY <1>11, <2>1, <2>3, <3>1, <3>3, ToSenderOther
    <3> QED  BY <2>3, <3>2, <3>3
  <2>5. ft' = [ft EXCEPT !["receiver"][n] = r]  BY <1>10, <1>11
  <2>7. ~ crossed' =>
          /\ arrived' \subseteq Done'
          /\ Agreed(n, ft["sender"][n], r, wire'["receiver"], wire'["sender"], linked["receiver"], Done')
    BY <1>8, <1>10, <1>11, <2>2, <2>4 DEF FileInv, Agreement
  <2>8. \/ wire'["sender"] = wire["sender"]
        \/ linked["sender"] /\ \E b : b.number = n /\ Longer(wire["sender"], wire'["sender"], b)
    BY <1>7, <1>9, <2>1
  <2>9. /\ Shorter(wire["receiver"], wire'["receiver"]) /\ connectedTo["receiver"]
        /\ UNCHANGED <<offered, linked, connectedTo, num_sending_files, finished>>
        /\ (crossed => crossed') /\ Done \subseteq Done'
    BY <1>3, <1>8, <1>9, <1>10, <1>13
  <2> QED  BY <1>9, <1>10, <1>11, <2>1, <2>5, <2>7, <2>8, <2>9, ReceiverTakes
<1> QED  BY <1>12, <1>13 DEF Side

-----------------------------------------------------------------------------
(* The connections come and go.                                            *)

LEMMA LinkUpStep ==
  ASSUME FileInv, LinkUp
  PROVE  FileInv'
<1>1. /\ linked' = [e \in Side |-> TRUE] /\ wire' = [e \in Side |-> <<OnlinePacket>>]
      /\ \A e \in Side : ~ linked[e]
      /\ UNCHANGED <<ft, num_sending_files, connectedTo, offered, arrived, complete, refused, finished, crossed>>
  BY DEF LinkUp
<1>2. OnlinePacket \in FilePackets /\ \A e \in Side : PacketFor(e, OnlinePacket, offered)
  <2>1. OnlinePacket = [type |-> "online", number |-> 0, file |-> 0, size |-> 0, position |-> 0, last |-> FALSE]
    BY DEF OnlinePacket, FilePacket
  <2>2. OnlinePacket \in FilePackets  BY <2>1 DEF FilePackets
  <2>3. offered \in Nat  BY StateFacts
  <2> QED  BY <2>1, <2>2, <2>3 DEF PacketFor, ToReceiver, ToSender
<1>3. PICK w \in Seq(FilePackets) : w = <<OnlinePacket>> /\ Len(w) = 1 /\ w[1] = OnlinePacket /\ w # <<>>
  <2>1. <<OnlinePacket>> \in Seq(FilePackets)  BY <1>2
  <2>2. Len(<<OnlinePacket>>) = 1 /\ <<OnlinePacket>>[1] = OnlinePacket /\ <<OnlinePacket>> # <<>>
    OBVIOUS
  <2> QED  BY <2>1, <2>2
<1>4. wire' = [e \in Side |-> w]  BY <1>1, <1>3
<1>5. Wires'  BY <1>1, <1>2, <1>3, <1>4 DEF Wires
<1>6. Typed'  BY <1>1, <1>5 DEF FileInv, Typed, Transfers
<1>7. Connected'
  <2>1. OnlinePacket.type = "online"  BY DEF OnlinePacket, FilePacket
  <2> QED  BY <1>1, <1>3, <1>4, <2>1 DEF FileInv, Connected
<1>8. Served'  BY <1>1 DEF FileInv, Served, Sending
<1>9. ASSUME ~ crossed' PROVE arrived' \subseteq Done' /\ finished' \subseteq Done' /\ AllAgreed'
  <2>1. arrived \subseteq Done /\ finished \subseteq Done /\ Done' = Done
    BY <1>1, <1>9 DEF FileInv, Agreement, Done
  <2>2. \A n \in Numbers : ft["sender"][n] = NoFile /\ ft["receiver"][n] = NoFile
    BY <1>1, StateFacts DEF Side
  <2>3. \A k \in Numbers : \A i \in 1 .. Len(w) : ~ Is(w[i], k, FileTypes)
    BY <1>3 DEF Is, FileTypes, ControlTypes, OnlinePacket, FilePacket
  <2>4. wire'["sender"] = w /\ wire'["receiver"] = w  BY <1>4 DEF Side
  <2>5. \A n \in Numbers : Agreed(n, NoFile, NoFile, w, w, linked'["receiver"], Done')
    BY <2>3, AgreedAtFirst
  <2>6. AllAgreed'  BY <1>1, <2>2, <2>4, <2>5 DEF AllAgreed
  <2> QED  BY <1>1, <2>1, <2>6
<1> QED  BY <1>6, <1>7, <1>8, <1>9 DEF FileInv, Agreement

LEMMA LinkDownStep ==
  ASSUME FileInv, NEW e \in Side, LinkDown(e)
  PROVE  FileInv'
<1>1. /\ linked' = [linked EXCEPT ![e] = FALSE] /\ connectedTo' = [connectedTo EXCEPT ![e] = FALSE]
      /\ wire' = [wire EXCEPT ![e] = <<>>]
      /\ UNCHANGED <<num_sending_files, offered, arrived, complete, refused, finished, crossed>>
  BY DEF LinkDown
<1>2. /\ linked \in [Side -> BOOLEAN] /\ connectedTo \in [Side -> BOOLEAN]
      /\ wire \in [Side -> Seq(FilePackets)] /\ ft \in [Side -> [Numbers -> FileTransfers]]
      /\ "sender" \in Side /\ "receiver" \in Side /\ \A d \in Side : d = "sender" \/ d = "receiver"
  BY DEF FileInv, Typed, Transfers, Wires, Side
<1>3. PICK v \in Seq(FilePackets) : v = <<>> /\ Len(v) = 0
  <2>1. <<>> \in Seq(FilePackets) /\ Len(<<>>) = 0  OBVIOUS
  <2> QED  BY <2>1
<1>4. /\ linked' \in [Side -> BOOLEAN] /\ connectedTo' \in [Side -> BOOLEAN]
      /\ wire' \in [Side -> Seq(FilePackets)] /\ wire'[e] = v /\ ~ linked'[e] /\ ~ connectedTo'[e]
      /\ \A d \in Side : d # e =>
           wire'[d] = wire[d] /\ linked'[d] = linked[d] /\ connectedTo'[d] = connectedTo[d]
  BY <1>1, <1>2, <1>3
<1>5. /\ ft' \in [Side -> [Numbers -> FileTransfers]]
      /\ \A n \in Numbers : ft'[e][n] = NoFile
      /\ \A d \in Side : d # e => ft'[d] = ft[d]
  <2>1. NoFile \in FileTransfers  BY NoFileOK
  <2>2. CASE connectedTo[e]
    <3>1. PICK none : none = [n \in Numbers |-> NoFile]  OBVIOUS
    <3>2. none \in [Numbers -> FileTransfers] /\ \A n \in Numbers : none[n] = NoFile  BY <2>1, <3>1
    <3>3. ft' = [ft EXCEPT ![e] = none]  BY <2>2, <3>1 DEF LinkDown, break_files
    <3> QED  BY <1>2, <3>2, <3>3
  <2>3. CASE ~ connectedTo[e]
    <3>1. ft' = ft  BY <2>3 DEF LinkDown
    <3>2. ASSUME NEW n \in Numbers PROVE ft[e][n] = NoFile
      <4>1. ft[e][n].status = "None"  BY <2>3 DEF FileInv, Connected
      <4>2. TransferOf(e, ft[e][n], offered)  BY DEF FileInv, Typed, Transfers
      <4> QED  BY <4>1, <4>2 DEF TransferOf
    <3> QED  BY <1>2, <3>1, <3>2
  <2> QED  BY <2>2, <2>3
<1>6. Transfers'
  <2>1. ASSUME NEW d \in Side, NEW n \in Numbers PROVE TransferOf(d, ft'[d][n], offered')
    <3>1. CASE d = e
      <4>1. offered \in Nat /\ offered' = offered  BY <1>1, StateFacts
      <4>2. TransferOf(d, NoFile, offered)  BY <4>1, NoFileOK
      <4> QED  BY <1>5, <3>1, <4>1, <4>2
    <3>2. CASE d # e  BY <1>1, <1>5, <3>2 DEF FileInv, Typed, Transfers
    <3> QED  BY <3>1, <3>2
  <2> QED  BY <1>5, <2>1 DEF Transfers
<1>7. Wires'
  <2>1. ASSUME NEW d \in Side, NEW i \in 1 .. Len(wire'[d]) PROVE PacketFor(d, wire'[d][i], offered')
    <3>1. CASE d = e  BY <1>3, <1>4, <2>1, <3>1
    <3>2. CASE d # e  BY <1>1, <1>4, <3>2 DEF FileInv, Typed, Wires
    <3> QED  BY <3>1, <3>2
  <2> QED  BY <1>4, <2>1 DEF Wires
<1>8. Typed'  BY <1>1, <1>4, <1>6, <1>7 DEF FileInv, Typed
<1>9. Connected'
  <2>1. ASSUME NEW d \in Side
        PROVE  /\ ~ linked'[d] => ~ connectedTo'[d] /\ wire'[d] = <<>>
               /\ ~ connectedTo'[d] =>
                    /\ \A n \in Numbers : ft'[d][n].status = "None"
                    /\ linked'[d] => wire'[d] # <<>> /\ wire'[d][1].type = "online"
    <3>1. CASE d = e  BY <1>3, <1>4, <1>5, <3>1 DEF NoFile
    <3>2. CASE d # e  BY <1>4, <1>5, <3>2, ZenonT(60) DEF FileInv, Connected
    <3> QED  BY <3>1, <3>2
  <2> QED  BY <2>1 DEF Connected
<1>10. Served'
  <2>1. \A n \in Numbers : ft'["sender"][n].status # "None" => ft["sender"][n].status # "None"
    <3>1. CASE e = "sender"  BY <1>5, <3>1 DEF NoFile
    <3>2. CASE e # "sender"
      <4>1. ft'["sender"] = ft["sender"]  BY <1>2, <1>5, <3>2
      <4> QED  BY <4>1
    <3> QED  BY <3>1, <3>2
  <2> QED  BY <1>1, <2>1, ServedSame DEF FileInv
<1>11. ASSUME ~ crossed' PROVE arrived' \subseteq Done' /\ finished' \subseteq Done' /\ AllAgreed'
  <2>1. arrived \subseteq Done /\ finished \subseteq Done /\ Done' = Done /\ ~ crossed
    BY <1>1, <1>11 DEF FileInv, Agreement, Done
  <2>2. ASSUME NEW n \in Numbers
        PROVE  Agreed(n, ft'["sender"][n], ft'["receiver"][n], wire'["receiver"], wire'["sender"],
                      linked'["receiver"], Done')
    <3>1. PICK s \in FileTransfers, r \in FileTransfers, wr \in Seq(FilePackets),
               ws \in Seq(FilePackets), up \in BOOLEAN :
            /\ s = ft["sender"][n] /\ r = ft["receiver"][n] /\ wr = wire["receiver"] /\ ws = wire["sender"]
            /\ up = linked["receiver"] /\ Agreed(n, s, r, wr, ws, up, Done)
      BY <2>1, AgreedFacts
    <3>2. CASE e = "receiver"
      <4>1. /\ ft'["receiver"][n] = NoFile /\ wire'["receiver"] = v /\ linked'["receiver"] = FALSE
            /\ ft'["sender"][n] = s /\ wire'["sender"] = ws
        BY <1>2, <1>4, <1>5, <3>1, <3>2
      <4>2. Sought(n, s, r, ws)  BY <3>1 DEF Agreed
      <4>3. Agreed(n, s, NoFile, v, ws, FALSE, Done)  BY <1>3, <4>2, NoReceiver
      <4> QED  BY <2>1, <4>1, <4>3
    <3>3. CASE e = "sender"
      <4>1. /\ ft'["sender"][n] = NoFile /\ wire'["sender"] = v /\ linked'["receiver"] = up
            /\ ft'["receiver"][n] = r /\ wire'["receiver"] = wr
        BY <1>2, <1>4, <1>5, <3>1, <3>3
      <4>2. NoFile \in FileTransfers /\ ~ Used(NoFile)
        <5>1. NoFile \in FileTransfers  BY NoFileOK
        <5> QED  BY <5>1 DEF Used, NoFile
      <4>3. Agreed(n, NoFile, r, wr, ws, up, Done)  BY <3>1, SenderDrops
      <4>4. Agreed(n, NoFile, r, wr, v, up, Done)  BY <1>3, <4>2, <4>3, SenderIsCut
      <4> QED  BY <2>1, <4>1, <4>4
    <3> QED  BY <1>2, <3>2, <3>3
  <2> QED  BY <1>1, <2>1, <2>2 DEF AllAgreed
<1> QED  BY <1>8, <1>9, <1>10, <1>11 DEF FileInv, Agreement

-----------------------------------------------------------------------------
(* The invariant holds.                                                    *)

LEMMA FileInvInit ==
  FileInit => FileInv
<1> SUFFICES ASSUME FileInit PROVE FileInv  OBVIOUS
<1>0. NoFile \in FileTransfers /\ (\A e \in Side : TransferOf(e, NoFile, offered)) /\ offered = 0
  BY NoFileOK DEF FileInit
<1>1. PICK v \in Seq(FilePackets) : v = <<>> /\ Len(v) = 0
  <2>1. <<>> \in Seq(FilePackets) /\ Len(<<>>) = 0  OBVIOUS
  <2> QED  BY <2>1
<1>2. /\ ft \in [Side -> [Numbers -> FileTransfers]]
      /\ \A e \in Side : \A n \in Numbers : ft[e][n] = NoFile
  BY <1>0 DEF FileInit
<1>3. wire \in [Side -> Seq(FilePackets)] /\ \A e \in Side : wire[e] = v
  <2>1. wire = [e \in Side |-> v]  BY <1>1 DEF FileInit
  <2> QED  BY <2>1
<1>4. Typed
  <2>1. Transfers  BY <1>0, <1>2 DEF Transfers
  <2>2. Wires  BY <1>1, <1>3 DEF Wires
  <2>3. offered \in 0 .. MaxFiles  BY FileBoundsAssumption DEF FileInit
  <2>4. linked \in [Side -> BOOLEAN] /\ connectedTo \in [Side -> BOOLEAN] /\ crossed \in BOOLEAN
    BY DEF FileInit
  <2> QED  BY <2>1, <2>2, <2>3, <2>4 DEF Typed
<1>5. Connected
  <2>1. \A e \in Side : ~ linked[e] /\ ~ connectedTo[e] /\ wire[e] = <<>>
    BY <1>1, <1>3 DEF FileInit
  <2> QED  BY <1>2, <2>1 DEF Connected, NoFile
<1>6. Served
  <2>1. Sending = {}  BY <1>2 DEF Sending, NoFile, Side
  <2> QED  BY <2>1, FS_EmptySet DEF Served, FileInit
<1>7. arrived \subseteq Done /\ finished \subseteq Done  BY DEF FileInit
<1>8. AllAgreed
  <2>1. \A n \in Numbers : Agreed(n, NoFile, NoFile, v, v, linked["receiver"], Done)
    BY <1>1, AgreedAtFirst
  <2> QED  BY <1>2, <1>3, <2>1 DEF AllAgreed, Side
<1> QED  BY <1>4, <1>5, <1>6, <1>7, <1>8 DEF FileInv, Agreement

LEMMA FileInvStep ==
  FileInv /\ [FileNext]_fileVars => FileInv'
<1> SUFFICES ASSUME FileInv, [FileNext]_fileVars PROVE FileInv'  OBVIOUS
<1>1. ASSUME NEW n \in Numbers, NEW size \in Sizes, new_filesender(n, size) PROVE FileInv'
  BY <1>1, OffersStep
<1>2. ASSUME NEW n \in Numbers, NEW length \in 0 .. Chunk, file_data(n, length) PROVE FileInv'
  BY <1>2, SendsStep
<1>3. ASSUME NEW n \in Numbers, do_reqchunk_filecb(n) PROVE FileInv'
  BY <1>3, FinishesStep, RequestsStep DEF do_reqchunk_filecb
<1>4. ASSUME NEW n \in Numbers, NEW position \in 1 .. Chunk, file_seek(n, position) PROVE FileInv'
  BY <1>4, ReceiverSeeksStep
<1>5. ASSUME NEW n \in Numbers, NEW e \in Side, file_control(e, n) PROVE FileInv'
  <2>1. CASE e = "sender"
    BY <1>5, <2>1, SenderKillsStep, SenderPausesStep DEF file_control
  <2>2. CASE e = "receiver"
    BY <1>5, <2>2, ReceiverKillsStep, ReceiverControlsStep DEF file_control
  <2> QED  BY <2>1, <2>2 DEF Side
<1>6. ASSUME NEW e \in Side, file_packet(e) PROVE FileInv'
  <2>1. PICK m : m = Head(wire[e])  OBVIOUS
  <2>2. /\ wire[e] # <<>>
        /\ handle_online(e, m) \/ handle_offer(e, m) \/ handle_file_data(e, m) \/ handle_filecontrol(e, m)
    BY <1>6, <2>1 DEF file_packet
  <2>3. CASE handle_online(e, m)  BY <2>1, <2>2, <2>3, OnlineStep
  <2>4. CASE handle_offer(e, m)  BY <2>1, <2>2, <2>4, OfferStep
  <2>5. CASE handle_file_data(e, m)  BY <2>1, <2>2, <2>5, DataStep
  <2>6. CASE handle_filecontrol(e, m)
    <3>1. CASE ~ InUse(e, m.number)  BY <2>1, <2>2, <2>6, <3>1, RefusedStep
    <3>2. CASE InUse(e, m.number) /\ e = "sender"  BY <2>1, <2>2, <2>6, <3>2, SenderControlledStep
    <3>3. CASE InUse(e, m.number) /\ e = "receiver"
      BY <2>1, <2>2, <2>6, <3>3, ReceiverControlledStep
    <3> QED  BY <3>1, <3>2, <3>3 DEF Side
  <2> QED  BY <2>2, <2>3, <2>4, <2>5, <2>6
<1>7. ASSUME NEW e \in Side, LinkDown(e) PROVE FileInv'  BY <1>7, LinkDownStep
<1>8. CASE LinkUp  BY <1>8, LinkUpStep
<1>9. CASE UNCHANGED fileVars
  BY <1>9 DEF fileVars, FileInv, Typed, Transfers, Wires, Connected, Served, Sending, Agreement,
              AllAgreed, Done
<1> QED  BY <1>1, <1>2, <1>3, <1>4, <1>5, <1>6, <1>7, <1>8, <1>9 DEF FileNext

LEMMA FileInvIsEnough ==
  FileInv => TransfersAgree
<1> SUFFICES ASSUME FileInv PROVE TransfersAgree  OBVIOUS
<1>1. FileTypeOK
  <2>1. ft \in [Side -> [Numbers -> FileTransfers]]  BY DEF FileInv, Typed, Transfers
  <2>2. \A e \in Side, n \in Numbers :
          ft[e][n].transferred <= ft[e][n].size /\ ft[e][n].requested <= ft[e][n].size
    BY DEF FileInv, Typed, Transfers, TransferOf
  <2>3. ASSUME NEW e \in Side, NEW i \in DOMAIN wire[e]
        PROVE  wire[e][i].type \in ControlTypes \cup {"online", "offer", "data"}
    <3>1. wire[e] \in Seq(FilePackets)  BY DEF FileInv, Typed, Wires
    <3>2. wire[e][i] \in FilePackets  BY <3>1
    <3> QED  BY <3>2 DEF FilePackets
  <2> QED  BY <2>1, <2>2, <2>3 DEF FileTypeOK, FileInv, Typed, Served
<1>2. DataIsRight
  <2> SUFFICES ASSUME ~ crossed, wire["receiver"] # <<>>, Head(wire["receiver"]).type = "data",
                      ft["receiver"][Head(wire["receiver"]).number].status = "Transferring"
               PROVE  /\ ft["receiver"][Head(wire["receiver"]).number].file = Head(wire["receiver"]).file
                      /\ ft["receiver"][Head(wire["receiver"]).number].transferred =
                           Head(wire["receiver"]).position
    BY DEF DataIsRight
  <2>1. wire["receiver"] \in Seq(FilePackets)  BY StateFacts
  <2>2. Head(wire["receiver"]) = wire["receiver"][1] /\ 1 <= Len(wire["receiver"])
    BY <2>1, TailIsShorter
  <2>3. PacketFor("receiver", wire["receiver"][1], offered)
    BY <2>1, <2>2 DEF FileInv, Typed, Wires, Side
  <2>4. PICK n \in Numbers : n = wire["receiver"][1].number  BY <2>2, <2>3 DEF PacketFor
  <2>5. Is(wire["receiver"][1], n, {"data"}) /\ Used(ft["receiver"][n])  BY <2>2, <2>4 DEF Is, Used
  <2> QED  BY <2>2, <2>4, <2>5, AgreedFacts, ChunkFits
<1>3. FinishedIsTruthful  BY DEF FileInv, Agreement, Done, FinishedIsTruthful
<1>4. PausesAgree
  <2> SUFFICES ASSUME NEW n \in Numbers, ~ crossed, \A e \in Side : wire[e] = <<>> /\ linked[e],
                      ft["sender"][n].status = "Transferring", ft["receiver"][n].status = "Transferring"
               PROVE  /\ ft["sender"][n].us = ft["receiver"][n].other
                      /\ ft["sender"][n].other = ft["receiver"][n].us
    BY DEF PausesAgree
  <2>1. PICK s \in FileTransfers, r \in FileTransfers,
             wr \in Seq(FilePackets), ws \in Seq(FilePackets) :
          /\ s = ft["sender"][n] /\ r = ft["receiver"][n] /\ wr = wire["receiver"] /\ ws = wire["sender"]
          /\ PausedS(n, s, r, wr) /\ PausedR(n, s, r, ws)
          /\ GotFirst(n, s, r, wr, ws) /\ Accepted(n, s, r, wr, ws, linked["receiver"], Done)
          /\ Newer(n, s, r, wr)
    BY AgreedFacts DEF Agreed
  <2>2. Len(wr) = 0 /\ Len(ws) = 0
    <3>1. wr = <<>> /\ ws = <<>>  BY <2>1 DEF Side
    <3> QED  BY <3>1
  <2>3. Used(s) /\ Used(r) /\ Going(s)  BY <2>1 DEF Used, Going
  <2>4. s.file = r.file
    <3>1. s.file <= r.file /\ r.file <= s.file /\ s.file \in Nat /\ r.file \in Nat
      BY <2>1, <2>3, FileTypesOK DEF GotFirst, Got, Newer
    <3> QED  BY <3>1
  <2>5. Same(s, r)  BY <2>3, <2>4 DEF Same
  <2>6. \A g, types : NoneOf(wr, n, g, types) /\ NoneOf(ws, n, g, types)  BY <2>2 DEF NoneOf
  <2>7. (r.other <=> s.us) /\ (s.other <=> r.us)  BY <2>1, <2>5, <2>6 DEF PausedS, PausedR
  <2>8. s.us \in BOOLEAN /\ s.other \in BOOLEAN /\ r.us \in BOOLEAN /\ r.other \in BOOLEAN
    BY FileTypesOK
  <2> QED  BY <2>1, <2>7, <2>8
<1>5. EveryFileIsServed
  <2> SUFFICES ASSUME NEW n \in Numbers, InUse("sender", n) PROVE Visited(n)
    BY DEF EveryFileIsServed
  <2> DEFINE before == {k \in Numbers : k < n /\ InUse("sender", k)}
  <2>1. n \in Sending /\ n \in Int  BY NumbersAreInt DEF Sending, InUse
  <2>2. before \subseteq Sending \ {n}  BY <2>1 DEF Sending, InUse
  <2>3. IsFiniteSet(Sending)  BY NumbersAssumption, FS_Subset DEF Sending
  <2>4. IsFiniteSet(Sending \ {n}) /\ Cardinality(Sending \ {n}) = Cardinality(Sending) - 1
    BY <2>1, <2>3, FS_RemoveElement
  <2>5. Cardinality(before) <= Cardinality(Sending \ {n}) /\ IsFiniteSet(before)
    BY <2>2, <2>4, FS_Subset
  <2>6. Cardinality(before) \in Nat /\ Cardinality(Sending) \in Nat
    BY <2>3, <2>5, FS_CardinalityType
  <2>7. Cardinality(before) < num_sending_files
    BY <2>4, <2>5, <2>6 DEF FileInv, Served
  <2> QED  BY <2>7 DEF Visited
<1> QED  BY <1>1, <1>2, <1>3, <1>4, <1>5 DEF TransfersAgree

\* The two friends of a file transfer agree, whatever is on its way between
\* them: a chunk goes to the transfer and to the place it was sent from, what
\* is reported finished was completed or refused, pauses are known on both
\* sides when nothing is on its way, and the main loop serves every transfer
\* (file_data, handle_packet, handle_filecontrol, do_reqchunk_filecb).
THEOREM TransfersStayAgreed ==
  FileSpec => []TransfersAgree
<1>1. FileSpec => []FileInv  BY FileInvInit, FileInvStep, PTL DEF FileSpec
<1> QED  BY <1>1, FileInvIsEnough, PTL

=============================================================================
