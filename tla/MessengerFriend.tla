--------------------------- MODULE MessengerFriend ---------------------------
(***************************************************************************)
(* The friendship of two users in toxcore/Messenger.c: whether each sees   *)
(* the other online, the name it announces, its messages and their read    *)
(* receipts.  The crypto connection is up or down on its own account, and  *)
(* may outlive the friendship because a group chat holds it too, so that a *)
(* friend can be deleted and added again within one connection.            *)
(*                                                                         *)
(* name stands for all that do_friends announces and the peer keeps: name, *)
(* status message, user status and typing, which have a flag each.         *)
(***************************************************************************)
EXTENDS Integers, Sequences, FiniteSets

CONSTANTS
  User,            \* two users
  MaxQueued,       \* packets that fit in a send queue
  MaxEvents        \* bound: friends added, connections made, names set, friend
                   \* requests and messages sent, taken together

ASSUME UserAssumption == \E a, b \in User : a # b /\ User = {a, b}
ASSUME MessengerAssumption == MaxQueued \in Nat \ {0} /\ MaxEvents \in Nat

OtherUser(u) == CHOOSE v \in User : v # u

VARIABLES
  friend,       \* [User -> Friend], the entry of its peer in its friendlist
  name,         \* [User -> names], 0 the first
  connected,    \* [User -> BOOLEAN], is its friend connection up?
  packets,      \* [User -> packets on their way to it]
  sent,         \* [User -> packets it has written to this connection]
  got,          \* [User -> packets it has been handed by this connection]
  events,       \* events so far; a message or a new name is known by its event
  shown,        \* history: messages given to the application of their addressee
  receipted,    \* history: the read receipts given to applications
  removed,      \* history: the users who have deleted their friend
  lost          \* history: was an ONLINE or OFFLINE packet not sent?

messengerVars ==
  <<friend, name, connected, packets, sent, got, events, shown, receipted, removed, lost>>

\* A cleared entry: NOFRIEND, no name known of it.
NoFriend == [status |-> "None", name_sent |-> FALSE, known |-> -1, receipts |-> <<>>]

Packet(type, value) == [type |-> type, value |-> value]

ONLINE == Packet("online", 0)

MessengerInit ==
  /\ friend = [u \in User |-> NoFriend]
  /\ name = [u \in User |-> 0]
  /\ connected = [u \in User |-> FALSE]
  /\ packets = [u \in User |-> <<>>]
  /\ sent = [u \in User |-> 0] /\ got = [u \in User |-> 0]
  /\ events = 0
  /\ shown = {} /\ receipted = {} /\ removed = {}
  /\ lost = FALSE

Event == events < MaxEvents /\ events' = events + 1

-----------------------------------------------------------------------------
\* write_cryptpacket.

Room(u) == Len(packets[OtherUser(u)]) < MaxQueued

\* u takes n packets off its own queue and writes ps, if there is room, to a
\* peer that gets them if its connection is still up.
Exchange(u, n, ps) ==
  LET out == IF Room(u) THEN ps ELSE <<>>
      rest == [packets EXCEPT ![u] = SubSeq(@, n + 1, Len(@))]
  IN  /\ packets' = IF connected[OtherUser(u)] THEN [rest EXCEPT ![OtherUser(u)] = @ \o out] ELSE rest
      /\ sent' = [sent EXCEPT ![u] = @ + Len(out)]
      /\ got' = [got EXCEPT ![u] = @ + n]

\* send_online_packet and send_offline_packet: the result is not looked at.
Announce(u, n, ps) ==
  /\ Exchange(u, n, ps)
  /\ lost' = (lost \/ (ps # <<>> /\ ~ Room(u)))

\* cryptpacket_received: a number that the send array does not hold.  What the
\* peer was handed it has acknowledged, at the latest when this is asked.
IsReceived(u, number) == number < got[OtherUser(u)] \/ number > sent[u]

-----------------------------------------------------------------------------
\* set_friend_status with check_friend_connectionstatus and clear_receipts;
\* break_files is in module FileTransfer.

\* Mutants of SetStatus: the receipts survive; the name is not sent again.
SetStatus_Receipts(f, status) ==
  IF status = "Online" /\ f.status # "Online"
  THEN [f EXCEPT !.status = status, !.name_sent = FALSE]
  ELSE [f EXCEPT !.status = status]

SetStatus_Name(f, status) ==
  IF f.status = "Online" /\ status # "Online"
  THEN [f EXCEPT !.status = status, !.receipts = <<>>]
  ELSE [f EXCEPT !.status = status]

SetStatus(f, status) ==
  LET g == [f EXCEPT !.status = status]
  IN  CASE f.status = "Online" /\ status # "Online" -> [g EXCEPT !.receipts = <<>>]
        [] f.status # "Online" /\ status = "Online" -> [g EXCEPT !.name_sent = FALSE]
        [] OTHER -> g

\* m_addfriend and m_addfriend_norequest.
init_new_friend(u, status) ==
  /\ Event
  /\ friend[u].status = "None"
  /\ friend' = [friend EXCEPT ![u] = [NoFriend EXCEPT !.status = status]]
  /\ Announce(u, 0, IF connected[u] THEN <<ONLINE>> ELSE <<>>)
  /\ UNCHANGED <<name, connected, shown, receipted, removed>>

m_addfriend(u) == init_new_friend(u, "Added")

m_addfriend_norequest(u) == init_new_friend(u, "Confirmed")

\* kept: the friend connection has another holder, a group chat.  If not, what
\* is on its way to u is never handed to it.
m_delfriend(u, kept) ==
  /\ friend[u].status # "None"
  /\ friend' = [friend EXCEPT ![u] = NoFriend]
  /\ removed' = removed \cup {u}
  /\ Announce(u, 0, IF connected[u] THEN <<Packet("offline", 0)>> ELSE <<>>)
  /\ connected' = [connected EXCEPT ![u] = @ /\ kept]
  /\ UNCHANGED <<name, events, shown, receipted>>

\* Of the names that are set, those that differ from the present one.
setname(u) ==
  /\ Event
  /\ name' = [name EXCEPT ![u] = events']
  /\ friend' = [friend EXCEPT ![u].name_sent = FALSE]
  /\ UNCHANGED <<connected, packets, sent, got, shown, receipted, removed,
                 lost>>

m_send_message_generic(u) ==
  /\ Event
  /\ friend[u].status = "Online"
  /\ Room(u)
  /\ Exchange(u, 0, <<Packet("message", events')>>)
  /\ friend' = [friend EXCEPT ![u].receipts =
                  Append(@, [number |-> sent[u], message |-> events'])]
  /\ UNCHANGED <<name, connected, shown, receipted, removed, lost>>

-----------------------------------------------------------------------------
\* handle_status.

Connect ==
  /\ \A u \in User : ~ connected[u]
  /\ Event
  /\ connected' = [u \in User |-> TRUE]
  /\ packets' = [u \in User |-> IF friend[OtherUser(u)].status # "None" THEN <<ONLINE>> ELSE <<>>]
  /\ sent' = [u \in User |-> IF friend[u].status # "None" THEN 1 ELSE 0]
  /\ got' = [u \in User |-> 0]
  /\ UNCHANGED <<friend, name, shown, receipted, removed, lost>>

Disconnect(u) ==
  /\ connected[u]
  /\ connected' = [connected EXCEPT ![u] = FALSE]
  /\ packets' = [packets EXCEPT ![u] = <<>>]
  /\ friend' = IF friend[u].status = "Online"
               THEN [friend EXCEPT ![u] = SetStatus(@, "Confirmed")] ELSE friend
  /\ UNCHANGED <<name, sent, got, events, shown, receipted, removed, lost>>

\* What a packet makes of the entry of its sender.
Handled(f, m) ==
  CASE f.status \notin {"None", "Online"} /\ m.type = "online" -> SetStatus(f, "Online")
    [] f.status = "Online" /\ m.type = "offline" -> SetStatus(f, "Confirmed")
    [] f.status = "Online" /\ m.type = "nick" -> [f EXCEPT !.known = m.value]
    [] OTHER -> f

\* Mutant of Answer: ONLINE is sent when the connection comes up, and no more.
Answer_Never(f, m) == <<>>

Answer(f, m) ==
  IF f.status \in {"Added", "Requested", "Confirmed"} /\ m.type = "online"
  THEN <<ONLINE>> ELSE <<>>

handle_packet(u) ==
  LET f == friend[u]
      m == Head(packets[u])
  IN  /\ connected[u] /\ packets[u] # <<>>
      /\ friend' = [friend EXCEPT ![u] = Handled(f, m)]
      /\ shown' = IF f.status = "Online" /\ m.type = "message"
                  THEN shown \cup {m.value} ELSE shown
      /\ Announce(u, 1, Answer(f, m))
      /\ UNCHANGED <<name, connected, events, receipted, removed>>

-----------------------------------------------------------------------------
\* do_friends.

\* A friend request is sent: over the connection if it is up.
SendRequest(u) ==
  /\ Event
  /\ friend[u].status = "Added"
  /\ friend' = [friend EXCEPT ![u] = SetStatus(@, "Requested")]
  /\ Exchange(u, 0, IF connected[u] THEN <<Packet("request", 0)>> ELSE <<>>)
  /\ UNCHANGED <<name, connected, shown, receipted, removed, lost>>

check_friend_request_timed_out(u) ==
  /\ friend[u].status = "Requested"
  /\ friend' = [friend EXCEPT ![u] = SetStatus(@, "Added")]
  /\ UNCHANGED <<name, connected, packets, sent, got, events, shown, receipted, removed,
                 lost>>

\* do_receipts: as many receipts, from the oldest, as are received.
NumReceived(u) ==
  LET rs == friend[u].receipts
  IN  Cardinality({i \in DOMAIN rs : \A j \in 1 .. i : IsReceived(u, rs[j].number)})

\* The name is sent if it has to be, then the receipts are looked at.
ServeOnline(u) ==
  LET f == friend[u]
      send == ~ f.name_sent
      n == NumReceived(u)
  IN  /\ f.status = "Online"
      /\ Exchange(u, 0, IF send THEN <<Packet("nick", name[u])>> ELSE <<>>)
      /\ friend' = [friend EXCEPT ![u] =
                      [f EXCEPT !.name_sent = @ \/ Room(u),
                                !.receipts = SubSeq(@, n + 1, Len(@))]]
      /\ receipted' = receipted \cup {[from |-> u, message |-> f.receipts[i].message] : i \in 1 .. n}
      /\ UNCHANGED <<name, connected, events, shown, removed, lost>>

do_friends(u) == SendRequest(u) \/ check_friend_request_timed_out(u) \/ ServeOnline(u)

MessengerNext ==
  \/ \E u \in User :
       \/ m_addfriend(u) \/ m_addfriend_norequest(u)
       \/ \E kept \in BOOLEAN : m_delfriend(u, kept)
       \/ setname(u) \/ m_send_message_generic(u)
       \/ Disconnect(u) \/ handle_packet(u) \/ do_friends(u)
  \/ Connect

MessengerSpec == MessengerInit /\ [][MessengerNext]_messengerVars

-----------------------------------------------------------------------------
\* Properties

\* The type of the two friend entries; a queue holds no more than what fits
\* in it, and nothing arrives that was not written.
MessengerTypeOK ==
  /\ \A u \in User :
       /\ friend[u].status \in {"None", "Added", "Requested", "Confirmed", "Online"}
       /\ friend[u].name_sent \in BOOLEAN
       /\ friend[u].known \in -1 .. MaxEvents
       /\ Len(packets[u]) <= MaxQueued
       /\ got[u] <= sent[OtherUser(u)]
  /\ name \in [User -> 0 .. MaxEvents]
  /\ connected \in [User -> BOOLEAN]

Quiet == \A u \in User : connected[u] /\ packets[u] = <<>>

\* When nothing is on its way over a connection, two users who have each
\* other as friends see each other online, and nobody sees online a user who
\* does not see it (ONLINE and OFFLINE packets of handle_status,
\* handle_packet, init_new_friend and m_delfriend), unless one of these
\* packets found the queue full.
OnlineIsMutual ==
  Quiet /\ ~ lost =>
    \A u \in User :
      LET status == friend[u].status
          other == friend[OtherUser(u)].status
      IN  /\ status = "Online" => other = "Online"
          /\ status # "None" /\ other # "None" => status = "Online"

\* When nothing is on its way, the name a user knows of its friend is the
\* friend's last one if the friend counts it as sent (name_sent), unless an
\* ONLINE or OFFLINE packet found the queue full.
NamesAgree ==
  \A u \in User :
    Quiet /\ ~ lost /\ friend[u].status = "Online" /\ friend[u].name_sent =>
      friend[OtherUser(u)].known = name[u]

\* A read receipt (do_receipts) is for a message that the application of the
\* friend was given, unless that friend had deleted the user or an ONLINE
\* packet found the queue full: the packet numbers of an earlier connection
\* mean nothing in a later one.
ReadReceiptsAreTruthful ==
  ~ lost => \A r \in receipted : r.message \in shown \/ OtherUser(r.from) \in removed

\* Friends agree on who is online, under which name, and on what was read
\* (set_friend_status, handle_packet, do_receipts).
FriendsAgree == MessengerTypeOK /\ OnlineIsMutual /\ NamesAgree /\ ReadReceiptsAreTruthful

=============================================================================
