------------------------------ MODULE GroupChat ------------------------------
(***************************************************************************)
(* One member of a group chat (toxcore/group.c): the list of peers, the     *)
(* connections it keeps for the group and the locks it takes on them.  The  *)
(* other members are the environment: each of them runs the same code, so   *)
(* any packet that a member may send comes from any connection, and two     *)
(* members may have given one number to two peers.  There is one group, so  *)
(* group numbers are left out, and so are names and titles.  Friends stay   *)
(* friends: number_joined is a connection id in the code, which could name  *)
(* another connection after m_delfriend; here it is the friend's key.       *)
(***************************************************************************)
EXTENDS GroupRing, GroupNumbers
LOCAL INSTANCE SequencesExt

CONSTANTS GroupPeer,      \* the keys of this group, ours among them
          GroupSelf,      \* our key
          GroupFriend,    \* the members that are friends: Messenger holds their connection
          MaxClose,       \* MAX_GROUP_CONNECTIONS
          PeerNumber,     \* the numbers peers are given
          SomeNumbers,    \* bound: the numbers of the messages that come
          PeerTimeout,    \* GROUP_PING_INTERVAL * 3
          MaxListed,      \* bound: peers told of in one packet
          MaxGroupCalls   \* bound: calls, packets and ticks (see Does) of a behaviour

ASSUME GroupChatAssumption ==
    /\ GroupPeer \subseteq GroupMember
    /\ GroupSelf \in GroupPeer /\ GroupFriend \subseteq GroupPeer \ {GroupSelf}
    /\ MaxClose \in Nat \ {0} /\ 0 \in PeerNumber /\ PeerTimeout \in Nat \ {0}
    /\ SomeNumbers \subseteq 1 .. (NumberWord - 1) /\ MaxListed \in Nat /\ MaxGroupCalls \in Nat

Others == GroupPeer \ {GroupSelf}
CloseIndex == 1 .. MaxClose
Unused == [type |-> "none", closest |-> FALSE, pk |-> NoMember]

VARIABLES chat,        \* Group_c and the friend connections' lock_count and status
          groupCalls

groupChatVars == <<chat, groupCalls>>

\* What wipe_group_chat leaves.  holds counts the holders of a connection, 0
\* when there is none; lost counts the ones the code has forgotten about.
Wiped(s) ==
    [s EXCEPT !.status = "none", !.peers = <<>>, !.close = [i \in CloseIndex |-> Unused],
              !.closest = [i \in Places |-> NoMember], !.changed = "none",
              !.number = 0, !.joined = NoMember]

Entries(s, pk) == {i \in CloseIndex : s.close[i].type # "none" /\ s.close[i].pk = pk}

friend_in_close(s, pk) == Entries(s, pk) # {}

count_close_connected(s) == Cardinality({i \in CloseIndex : s.close[i].type = "online"})

get_peer_index(s, number) == {i \in DOMAIN s.peers : s.peers[i].number = number}

peer_in_chat(s, pk) == {i \in DOMAIN s.peers : s.peers[i].pk = pk}

kill_friend_connection(s, pk) ==
    [s EXCEPT !.holds[pk] = @ - 1, !.up = IF s.holds[pk] = 1 THEN @ \ {pk} ELSE @]

\* The entries I are emptied and their connections let go.
Release(s, I) ==
    FoldSet(LAMBDA i, t : kill_friend_connection([t EXCEPT !.close[i].type = "none"], t.close[i].pk),
            s, I)

\* Mutant of add_conn_to_groupchat: a connection that exists already is not locked.
add_conn_to_groupchat_Variant(s, pk, closest, lock) ==
    LET free == {i \in CloseIndex : s.close[i].type = "none"}
    IN IF friend_in_close(s, pk)
       THEN [s EXCEPT !.close = [i \in CloseIndex |->
                 IF i \in Entries(s, pk) THEN [@[i] EXCEPT !.closest = closest] ELSE @[i]]]
       ELSE IF free = {} THEN s
       ELSE [s EXCEPT !.close[CHOOSE i \in free : \A j \in free : j <= i] =
                 [type |-> "connection", closest |-> closest, pk |-> pk]]

\* The connection pk in close: marked if it is there, else put into the last
\* free place and locked, unless the caller has just made it.
add_conn_to_groupchat(s, pk, closest, lock) ==
    LET free == {i \in CloseIndex : s.close[i].type = "none"}
    IN IF friend_in_close(s, pk)
       THEN [s EXCEPT !.close = [i \in CloseIndex |->
                 IF i \in Entries(s, pk) THEN [@[i] EXCEPT !.closest = closest] ELSE @[i]]]
       ELSE IF free = {} THEN s
       ELSE [s EXCEPT !.close[CHOOSE i \in free : \A j \in free : j <= i] =
                          [type |-> "connection", closest |-> closest, pk |-> pk],
                      !.holds[pk] = IF lock THEN @ + 1 ELSE @]

\* add_to_closest for the group: a change asks for new connections.
OfferClosest(s, pk) ==
    LET c == add_to_closest(GroupSelf, s.closest, pk)
    IN [s EXCEPT !.closest = c,
                 !.changed = IF c # s.closest /\ @ = "none" THEN "added" ELSE @]

\* addpeer: [ok, s].  A peer keeps its number, and no number has two peers.
addpeer(s, pk, number) ==
    IF peer_in_chat(s, pk) # {}
    THEN [ok |-> \E i \in peer_in_chat(s, pk) : s.peers[i].number = number, s |-> s]
    ELSE IF get_peer_index(s, number) # {} THEN [ok |-> FALSE, s |-> s]
    ELSE [ok |-> TRUE,
          s |-> OfferClosest([s EXCEPT !.peers =
                            Append(@, [pk |-> pk, number |-> number, last |-> 0, age |-> 0])], pk)]

\* Mutant of delpeer: the peer leaves the list and keeps its place in
\* closest_peers.
delpeer_Variant(s, index) ==
    LET pk == s.peers[index].pk
        last_one == Len(s.peers)
    IN [Release(s, Entries(s, pk)) EXCEPT
          !.peers = [i \in 1 .. (last_one - 1) |-> s.peers[IF i = index THEN last_one ELSE i]]]

\* delpeer: out of closest_peers, its connection out of close, and the last
\* peer moves into its place.
delpeer(s, index) ==
    LET pk == s.peers[index].pk
        last_one == Len(s.peers)
        near == \E i \in Places : s.closest[i] = pk
    IN [Release(s, Entries(s, pk)) EXCEPT
          !.closest = [i \in Places |-> IF @[i] = pk THEN NoMember ELSE @[i]],
          !.changed = IF near THEN "removed" ELSE @,
          !.peers = [i \in 1 .. (last_one - 1) |-> s.peers[IF i = index THEN last_one ELSE i]]]

\* connect_to_closest for one closest peer: its connection, made if need be and
\* if new_friend_connection can.
ConnectTo(s, pk, can) ==
    LET new == s.holds[pk] = 0
        t == add_conn_to_groupchat(IF new THEN [s EXCEPT !.holds[pk] = 1] ELSE s, pk, TRUE, ~new)
    IN IF new /\ ~can THEN s
       ELSE IF new /\ ~friend_in_close(t, pk) THEN [t EXCEPT !.lost[pk] = @ + 1] ELSE t

\* The connections made for a closest peer that is one no more.
Outdone(s) == {i \in CloseIndex : /\ s.close[i].type # "none" /\ s.close[i].closest
                                  /\ s.close[i].pk \notin Closest(s.closest)}

connect_to_closest(s, can) ==
    IF s.changed = "none" THEN s
    ELSE LET listed == IF s.changed = "removed"
                       THEN FoldLeft(LAMBDA t, p : OfferClosest(t, p.pk), s, s.peers) ELSE s
             Wanted(t, i) == IF t.closest[i] = NoMember THEN t ELSE ConnectTo(t, t.closest[i], can)
         IN [FoldLeft(Wanted, Release(listed, Outdone(listed)), [i \in Places |-> i])
                EXCEPT !.changed = "none"]

\* groupchat_clear_timedout: the peer that moves into a place is not looked at.
groupchat_clear_timedout(s) ==
    LET Look(t, i) == IF /\ i <= Len(t.peers) /\ t.peers[i].number # t.number
                         /\ t.peers[i].age >= PeerTimeout
                      THEN delpeer(t, i) ELSE t
    IN FoldLeft(Look, s, [i \in DOMAIN s.peers |-> i])
-----------------------------------------------------------------------------
GroupChatInit ==
    /\ chat = Wiped([status |-> "none", peers |-> <<>>, close |-> <<>>, closest |-> <<>>,
                     changed |-> "none", number |-> 0, joined |-> NoMember,
                     holds |-> [pk \in Others |-> IF pk \in GroupFriend THEN 1 ELSE 0],
                     up |-> {}, lost |-> [pk \in Others |-> 0]])
    /\ groupCalls = 0

\* A call, a packet or a tick that makes the group s.
Does(s) == groupCalls' = groupCalls + 1 /\ chat' = s

\* The main loop, and what follows from connections coming and going.
Follows(s) == chat' = s /\ UNCHANGED groupCalls

Valid == chat.status # "none"

\* The founder is peer 0.
add_groupchat ==
    /\ ~Valid
    /\ Does(addpeer([chat EXCEPT !.status = "connected"], GroupSelf, 0).s)

\* An invite that cannot be sent wipes the group; its connections stay locked.
invite_friend(f) ==
    /\ Valid
    /\ Does([Wiped(chat) EXCEPT !.lost = [pk \in Others |-> @[pk] + Cardinality(Entries(chat, pk))]])

\* join_groupchat: the friend that invited us is our first connection.
join_groupchat(f) ==
    LET s == add_conn_to_groupchat([chat EXCEPT !.status = "valid"], f, FALSE, TRUE)
    IN /\ ~Valid /\ f \in chat.up
       /\ Does([s EXCEPT !.joined = f,
                         !.close = [i \in CloseIndex |-> IF i \in Entries(s, f)
                                    THEN [@[i] EXCEPT !.type = "online"] ELSE @[i]]])

\* A friend accepts our invite: it gets a free number and a connection.
handle_invite_response(f, number) ==
    LET added == addpeer(chat, f, number).s
        s == add_conn_to_groupchat(added, f, FALSE, TRUE)
    IN /\ Valid /\ f \in chat.up
       /\ get_peer_index(chat, number) = {}
       /\ Does([s EXCEPT !.close = [i \in CloseIndex |-> IF i \in Entries(s, f)
                                    THEN [@[i] EXCEPT !.type = "online"] ELSE @[i]]])

\* del_groupchat, also for every group when the instance ends.
del_groupchat ==
    /\ Valid
    /\ Does(Wiped(Release(chat, {i \in CloseIndex : chat.close[i].type # "none"})))

\* handle_status of the friend connection to pk.
handle_status(pk) ==
    /\ chat.holds[pk] > 0
    /\ Follows(IF pk \notin chat.up THEN [chat EXCEPT !.up = @ \cup {pk}]
            ELSE [chat EXCEPT !.up = @ \ {pk},
                              !.close = [i \in CloseIndex |-> IF i \in Entries(chat, pk)
                                         THEN [@[i] EXCEPT !.type = "connection"] ELSE @[i]]])

\* handle_packet drops what comes over a connection that is not in close.
Heard(pk) == /\ Valid /\ pk \in chat.up /\ friend_in_close(chat, pk)

\* The other side is in the group too.  With enough connections the friend
\* that invited us is let go, unless it is a closest peer.
handle_packet_online(pk) ==
    LET s == [chat EXCEPT !.close = [i \in CloseIndex |-> IF i \in Entries(chat, pk)
                                     THEN [@[i] EXCEPT !.type = "online"] ELSE @[i]]]
        spare == {i \in Entries(s, s.joined) : ~s.close[i].closest}
    IN /\ Heard(pk)
       /\ \A i \in Entries(chat, pk) : chat.close[i].type # "online"
       /\ Follows(IF s.joined # NoMember /\ count_close_connected(s) >= DesiredClose /\ spare # {}
               THEN [Release(s, spare) EXCEPT !.joined = NoMember] ELSE s)

\* PEER_KILL_ID: the other side lets our connection go.
handle_peer_kill(pk) ==
    /\ Heard(pk)
    /\ Does(Release(chat, {i \in Entries(chat, pk) : ~chat.close[i].closest}))

\* PEER_RESPONSE_ID: the peers on the list one after the other, up to the
\* first that cannot be added; our own number makes us a member.
handle_send_peers(pk, list) ==
    LET Step(r, p) ==
            LET a == addpeer(r.s, p.pk, p.number)
            IN IF ~r.ok THEN r
               ELSE IF a.ok /\ a.s.status = "valid" /\ p.pk = GroupSelf
               THEN [a EXCEPT !.s.number = p.number, !.s.status = "connected"] ELSE a
    IN /\ Heard(pk)
       /\ Does(FoldLeft(Step, [ok |-> TRUE, s |-> chat], list).s)

\* A message of the peer with this number, that is new: then it is acted on
\* and passed on.  An unknown number is asked about, which changes nothing.
Message(pk, number, n) ==
    /\ Heard(pk)
    /\ \E i \in get_peer_index(chat, number) : message_is_new(chat.peers[i].last, n)

Noted(number, n) ==
    [chat EXCEPT !.peers = [i \in DOMAIN @ |-> IF @[i].number = number
                                               THEN [@[i] EXCEPT !.last = n] ELSE @[i]]]

handle_ping(pk, number, n) ==
    /\ Message(pk, number, n)
    /\ Does([Noted(number, n) EXCEPT !.peers = [i \in DOMAIN @ |->
                 IF @[i].number = number THEN [@[i] EXCEPT !.age = 0] ELSE @[i]]])

handle_new_peer(pk, number, n, new, given) ==
    /\ Message(pk, number, n)
    /\ Does(addpeer(Noted(number, n), new, given).s)

handle_kill_peer(pk, number, n) ==
    /\ Message(pk, number, n)
    /\ Does(delpeer(Noted(number, n), CHOOSE i \in get_peer_index(chat, number) : TRUE))

\* PACKET_ID_MESSAGE and PACKET_ID_ACTION: shown to the user.
handle_text(pk, number, n) ==
    /\ Message(pk, number, n)
    /\ Does(Noted(number, n))

do_groupchats ==
    /\ chat.status = "connected"
    /\ \E can \in BOOLEAN : Follows(groupchat_clear_timedout(connect_to_closest(chat, can)))

\* Time passes for the peers that do not ping.
GroupTick ==
    Does([chat EXCEPT !.peers = [i \in DOMAIN @ |->
              [@[i] EXCEPT !.age = IF @ < PeerTimeout THEN @ + 1 ELSE @]]])

Listings == UNION {[1 .. k -> [pk : GroupPeer, number : PeerNumber]] : k \in 1 .. MaxListed}

\* The packets of a peer that make the group go on.
PacketsOf(pk) ==
    \/ handle_peer_kill(pk)
    \/ \E list \in Listings : handle_send_peers(pk, list)
    \/ \E number \in PeerNumber, n \in SomeNumbers :
          \/ handle_ping(pk, number, n)
          \/ handle_kill_peer(pk, number, n)
          \/ handle_text(pk, number, n)
          \/ \E new \in GroupPeer, given \in PeerNumber :
                handle_new_peer(pk, number, n, new, given)

GroupChatNext ==
    \/ /\ groupCalls < MaxGroupCalls
       /\ \/ add_groupchat
          \/ del_groupchat
          \/ \E f \in GroupFriend : \/ invite_friend(f)
                                    \/ join_groupchat(f)
                                    \/ \E number \in PeerNumber : handle_invite_response(f, number)
          \/ \E pk \in Others : PacketsOf(pk)
          \/ GroupTick
    \/ \E pk \in Others : handle_status(pk) \/ handle_packet_online(pk)
    \/ do_groupchats

GroupChatSpec == GroupChatInit /\ [][GroupChatNext]_groupChatVars
-----------------------------------------------------------------------------
(* Every connection in close is held once, neither more nor less, besides   *)
(* Messenger's own hold on a friend's: it cannot be freed, and its number   *)
(* given to someone else, while the group still uses it.  What lost counts  *)
(* is held for good: connections of a group that an invite has wiped, and   *)
(* one made for a closest peer when close was full.                         *)
ConnectionsAreHeld ==
    \A pk \in Others :
        /\ chat.holds[pk] = Cardinality(Entries(chat, pk)) + chat.lost[pk]
                            + (IF pk \in GroupFriend THEN 1 ELSE 0)
        /\ Cardinality(Entries(chat, pk)) <= 1

(* closest_peers holds nobody who is not in the group and, once a peer that *)
(* left has been made up for, the nearest known peer on either side: the    *)
(* ring of the group closes whatever order peers come and go in.            *)
ClosestAreNearest ==
    LET known == {chat.peers[i].pk : i \in DOMAIN chat.peers} \ {GroupSelf}
    IN /\ Closest(chat.closest) \subseteq known
       /\ (chat.changed # "removed" /\ known # {}) =>
             {Below(GroupSelf, known), Above(GroupSelf, known)} \subseteq Closest(chat.closest)

(* send_lossy_all_close lists the online closest connections in an array of *)
(* DESIRED_CLOSE_CONNECTIONS places without looking whether it is full.     *)
ClosestFitArray ==
    Cardinality({i \in CloseIndex : chat.close[i].type = "online" /\ chat.close[i].closest})
        <= DesiredClose

(* The closest peers are the right ones and there is room for them          *)
(* (add_to_closest, delpeer, send_lossy_all_close).                         *)
ClosestAreSound == ClosestAreNearest /\ ClosestFitArray
==============================================================================
