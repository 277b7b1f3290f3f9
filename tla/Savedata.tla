------------------------------ MODULE Savedata -------------------------------
(***************************************************************************)
(* The friend list of toxcore/Messenger.c, the friend requests that        *)
(* friend_requests.c shows to the user, and the savedata from which both   *)
(* are made again by the next run: messenger_save writes sections one      *)
(* after the other, messenger_load reads them until the end or until one   *)
(* is cut off.                                                             *)
(*                                                                         *)
(* A text (name, status message, text of a request) is known by its        *)
(* length; the name of a friend stands for his status message and user     *)
(* status too.  What goes on between two friends is in MessengerFriend,    *)
(* and the sections of the DHT, the relays and the path nodes are not      *)
(* here.                                                                   *)
(***************************************************************************)
EXTENDS Integers, Sequences
LOCAL INSTANCE SequencesExt
LOCAL INSTANCE FiniteSetsExt

CONSTANTS
  SavedKey,       \* public keys of others
  NoPk,           \* a cleared key
  Nospam,         \* nospam numbers
  MaxText,        \* MAX_NAME_LENGTH, MAX_STATUSMESSAGE_LENGTH and MAX_FRIEND_REQUEST_DATA_SIZE
  MaxStored,      \* MAX_RECEIVED_STORED
  MaxSaveCalls    \* bound on calls, packets, saves and starts

ASSUME SavedataAssumption ==
  /\ NoPk \notin SavedKey /\ Nospam # {}
  /\ MaxText \in Nat \ {0} /\ MaxStored \in Nat \ {0}
  /\ MaxSaveCalls \in Nat

\* Status of a friend, in the order of the code's numbers.
NOFRIEND == 0
FRIEND_ADDED == 1
FRIEND_REQUESTED == 2
FRIEND_CONFIRMED == 3
FRIEND_ONLINE == 4

VARIABLES
  friendlist,  \* friends, by number; a cleared one has status NOFRIEND
  own,         \* nospam, name, statusmessage and userstatus of the user
  requests,    \* received_requests
  requestNext, \* received_requests_index
  file,        \* the sections of the last savedata
  kept,        \* history: what there was to save when it was made
  displayed,   \* history: requests shown in this run, in order
  saveCalls

savedataVars ==
  <<friendlist, own, requests, requestNext, file, kept, displayed, saveCalls>>

NoFriend ==
  [status |-> NOFRIEND, pk |-> NoPk, info |-> 0, nospam |-> 0, name |-> 0, seen |-> 0]

NoFile == << >>

\* A new Messenger with the nospam number n.
Fresh(n) ==
  [friends |-> << >>, own |-> [nospam |-> n, name |-> 0, message |-> 0, userstatus |-> 0]]

SavedataInit ==
  /\ \E n \in Nospam : own = Fresh(n).own
  /\ friendlist = << >>
  /\ requests = [i \in 1 .. MaxStored |-> NoPk] /\ requestNext = 0
  /\ file = NoFile /\ kept = NoFile
  /\ displayed = << >>
  /\ saveCalls = 0

SaveCall == saveCalls < MaxSaveCalls /\ saveCalls' = saveCalls + 1

-----------------------------------------------------------------------------
(* The friend list.                                                        *)

getfriend_id(list, pk) == SelectInSeq(list, LAMBDA f : f.status # NOFRIEND /\ f.pk = pk)

\* realloc_friendlist: a place more, cleared.
Longer(list) == Append(list, NoFriend)

\* init_new_friend: the first place that is free, at the latest the new one,
\* which is given up if it is not needed.
init_new_friend(list, pk, status) ==
  LET i == SelectInSeq(Longer(list), LAMBDA f : f.status = NOFRIEND)
      more == IF i > Len(list) THEN Longer(list) ELSE list
  IN  [more EXCEPT ![i].status = status, ![i].pk = pk]

\* m_addfriend: a request that is pending only takes the new nospam number.
m_addfriend(list, pk, nospam, info) ==
  LET i == getfriend_id(list, pk)
      new == init_new_friend(list, pk, FRIEND_ADDED)
  IN  CASE info \notin 1 .. MaxText -> list
        [] info \in 1 .. MaxText /\ i # 0 ->
             IF list[i].status >= FRIEND_CONFIRMED THEN list ELSE [list EXCEPT ![i].nospam = nospam]
        [] OTHER -> [new EXCEPT ![getfriend_id(new, pk)].info = info,
                                ![getfriend_id(new, pk)].nospam = nospam]

m_addfriend_norequest(list, pk) ==
  IF getfriend_id(list, pk) # 0 THEN list ELSE init_new_friend(list, pk, FRIEND_CONFIRMED)

\* The list ends with its last friend.
Shrunk(list) ==
  SubSeq(list, 1, Max({0} \cup {i \in DOMAIN list : list[i].status # NOFRIEND}))

AddFriend(pk, nospam, info) ==
  /\ SaveCall
  /\ friendlist' = m_addfriend(friendlist, pk, nospam, info)
  /\ UNCHANGED <<own, requests, requestNext, file, kept, displayed>>

AddFriendNorequest(pk) ==
  /\ SaveCall
  /\ friendlist' = m_addfriend_norequest(friendlist, pk)
  /\ UNCHANGED <<own, requests, requestNext, file, kept, displayed>>

\* remove_request_received: the first place of the key is cleared, the index stays.
remove_request_received(pk) ==
  LET first == {i \in DOMAIN requests : requests[i] = pk /\ \A j \in 1 .. i - 1 : requests[j] # pk}
  IN  requests' = [i \in DOMAIN requests |-> IF i \in first THEN NoPk ELSE requests[i]]

m_delfriend(i) ==
  /\ SaveCall
  /\ i \in DOMAIN friendlist /\ friendlist[i].status # NOFRIEND
  /\ remove_request_received(friendlist[i].pk)
  /\ friendlist' = Shrunk([j \in DOMAIN friendlist |-> IF j = i THEN NoFriend ELSE friendlist[j]])
  /\ displayed' = [j \in DOMAIN displayed |->
                     IF displayed[j] = friendlist[i].pk THEN NoPk ELSE displayed[j]]
  /\ UNCHANGED <<own, requestNext, file, kept>>

SetFriend(i, friend) ==
  /\ friendlist' = [friendlist EXCEPT ![i] = friend]
  /\ UNCHANGED <<own, requests, requestNext, file, kept, displayed>>

\* do_friends of a friend who is not online: the request is sent, and after a
\* time without an answer it is to be sent again.
do_friends(i) ==
  /\ friendlist[i].status \in {FRIEND_ADDED, FRIEND_REQUESTED}
  /\ UNCHANGED saveCalls
  /\ SetFriend(i, [friendlist[i] EXCEPT !.status = 3 - @])

\* The friend comes online, says what he is called and that he is seen, and
\* goes offline (handle_packet, do_friends, handle_status).
ComesOnline(i) ==
  /\ friendlist[i].status \in FRIEND_ADDED .. FRIEND_CONFIRMED
  /\ SaveCall
  /\ SetFriend(i, [friendlist[i] EXCEPT !.status = FRIEND_ONLINE])

Says(i, name) ==
  /\ SaveCall
  /\ friendlist[i].status = FRIEND_ONLINE
  /\ SetFriend(i, [friendlist[i] EXCEPT !.name = name, !.seen = saveCalls'])

GoesOffline(i) ==
  /\ friendlist[i].status = FRIEND_ONLINE
  /\ UNCHANGED saveCalls
  /\ SetFriend(i, [friendlist[i] EXCEPT !.status = FRIEND_CONFIRMED])

\* setname, m_set_statusmessage, m_set_userstatus and set_nospam; what is to
\* be sent to the friends is in MessengerFriend.
SetOwn(new) ==
  /\ SaveCall
  /\ own' = new
  /\ UNCHANGED <<friendlist, requests, requestNext, file, kept, displayed>>

setname(name) == SetOwn([own EXCEPT !.name = name])

m_set_statusmessage(message) == SetOwn([own EXCEPT !.message = message])

m_set_userstatus(status) == SetOwn([own EXCEPT !.userstatus = status])

set_nospam(n) == SetOwn([own EXCEPT !.nospam = n])

-----------------------------------------------------------------------------
(* Friend requests.                                                        *)

request_received(pk) == \E i \in DOMAIN requests : requests[i] = pk

friend_already_added(pk) == getfriend_id(friendlist, pk) # 0

\* Mutant of addto_receivedlist: the last place is never used.
addto_receivedlist_Variant(pk) ==
  LET i == IF requestNext >= MaxStored - 1 THEN 0 ELSE requestNext
  IN  requests' = [requests EXCEPT ![i + 1] = pk] /\ requestNext' = i + 1

addto_receivedlist(pk) ==
  LET i == IF requestNext >= MaxStored THEN 0 ELSE requestNext
  IN  requests' = [requests EXCEPT ![i + 1] = pk] /\ requestNext' = i + 1

friendreq_handlepacket(pk, nospam) ==
  /\ SaveCall
  /\ ~request_received(pk)
  /\ nospam = own.nospam
  /\ ~friend_already_added(pk)
  /\ addto_receivedlist(pk)
  /\ displayed' = Append(displayed, pk)
  /\ UNCHANGED <<friendlist, own, file, kept>>

-----------------------------------------------------------------------------
(* Saving and loading.                                                     *)

\* Mutant of SavedFriend: a request that has been sent is saved without its text.
SavedFriend_Variant(f) ==
  IF f.status < FRIEND_REQUESTED
  THEN [NoFriend EXCEPT !.status = f.status, !.pk = f.pk, !.info = f.info, !.nospam = f.nospam]
  ELSE [f EXCEPT !.info = 0, !.nospam = 0]

SavedFriend(f) ==
  IF f.status < FRIEND_CONFIRMED
  THEN [NoFriend EXCEPT !.status = f.status, !.pk = f.pk, !.info = f.info, !.nospam = f.nospam]
  ELSE [f EXCEPT !.info = 0, !.nospam = 0]

friends_list_save ==
  LET friends == SelectSeq(friendlist, LAMBDA f : f.status > NOFRIEND)
  IN  [i \in DOMAIN friends |-> SavedFriend(friends[i])]

\* friends_list_load gives the friends new numbers, in the order of the file.
LoadFriend(list, f) ==
  LET new == m_addfriend_norequest(list, f.pk)
      i == getfriend_id(new, f.pk)
  IN  IF f.status < FRIEND_CONFIRMED THEN m_addfriend(list, f.pk, f.nospam, f.info)
      ELSE IF getfriend_id(list, f.pk) # 0 THEN list
      ELSE [new EXCEPT ![i].name = f.name, ![i].seen = f.seen]

friends_list_load(list, saved) == FoldLeft(LoadFriend, list, saved)

Section(type, data) == [type |-> type, data |-> data]

\* What there is to save: the friends with their order, and the user's own.
Pending(f) == f.status < FRIEND_CONFIRMED

AsSaved(f) == IF Pending(f) THEN <<f.pk, f.info, f.nospam>> ELSE <<f.pk, f.name, f.seen>>

ToSave(list) ==
  LET friends == SelectSeq(list, LAMBDA f : f.status # NOFRIEND)
  IN  [i \in DOMAIN friends |-> AsSaved(friends[i])]

messenger_save ==
  /\ SaveCall
  /\ file' = <<Section("keys", own.nospam), Section("friends", friends_list_save),
               Section("name", own.name), Section("statusmessage", own.message),
               Section("status", own.userstatus), Section("end", 0)>>
  /\ kept' = <<own.nospam, ToSave(friendlist), own.name, own.message, own.userstatus>>
  /\ UNCHANGED <<friendlist, own, requests, requestNext, displayed>>

\* messenger_load_state_callback.
messenger_load_state_callback(m, s) ==
  CASE s.type = "keys" -> [m EXCEPT !.own.nospam = s.data]
    [] s.type = "friends" -> [m EXCEPT !.friends = friends_list_load(m.friends, s.data)]
    [] s.type = "name" /\ s.data \in 1 .. MaxText -> [m EXCEPT !.own.name = s.data]
    [] s.type = "statusmessage" /\ s.data \in 1 .. MaxText - 1 -> [m EXCEPT !.own.message = s.data]
    [] s.type = "status" -> [m EXCEPT !.own.userstatus = s.data]
    [] OTHER -> m

\* What a new Messenger makes of the first sections of the savedata: of all of
\* them, or of those before the place where the file was cut off.
LoadedFrom(cut, n) ==
  FoldLeft(messenger_load_state_callback, Fresh(n), SubSeq(file, 1, cut))

\* The program ends and starts again.
messenger_load(cut, n) ==
  LET m == LoadedFrom(cut, n)
  IN  /\ SaveCall
      /\ friendlist' = m.friends /\ own' = m.own
      /\ requests' = [i \in 1 .. MaxStored |-> NoPk] /\ requestNext' = 0
      /\ displayed' = << >>
      /\ UNCHANGED <<file, kept>>

SavedataNext ==
  \/ \E pk \in SavedKey :
       \/ \E n \in Nospam, info \in {MaxText} : AddFriend(pk, n, info)
       \/ AddFriendNorequest(pk)
       \/ \E n \in Nospam : friendreq_handlepacket(pk, n)
  \/ \E i \in DOMAIN friendlist :
       \/ m_delfriend(i) \/ do_friends(i) \/ ComesOnline(i) \/ GoesOffline(i)
       \/ Says(i, MaxText)
  \/ setname(MaxText) \/ \E t \in MaxText - 1 .. MaxText : m_set_statusmessage(t)
  \/ m_set_userstatus(1)
  \/ \E n \in Nospam : set_nospam(n)
  \/ messenger_save
  \/ \E cut \in 0 .. Len(file), n \in Nospam : messenger_load(cut, n)

SavedataSpec == SavedataInit /\ [][SavedataNext]_savedataVars

-----------------------------------------------------------------------------
(* Properties.                                                             *)

Restored(cut, m) ==
  /\ cut >= 1 => m.own.nospam = kept[1]
  /\ ToSave(m.friends) = IF cut >= 2 THEN kept[2] ELSE << >>
  /\ m.own.name = IF cut >= 3 THEN kept[3] ELSE 0
  /\ cut < 4 => m.own.message = 0
  /\ cut >= 4 /\ kept[4] < MaxText => m.own.message = kept[4]
  /\ m.own.userstatus = IF cut >= 5 THEN kept[5] ELSE 0

\* A start from savedata brings back what had been saved, up to the place where
\* the file was cut off and nothing after it: every friend, in the same order,
\* a pending request with its text and nospam number, a confirmed friend with
\* his name, status message and the time he was last seen; the user's own name
\* and status, and his status message unless it is of the maximal length
\* (messenger_save, messenger_load, friends_list_save, friends_list_load).
SavedIsRestored ==
  \A cut \in 0 .. Len(file), n \in Nospam : Restored(cut, LoadedFrom(cut, n))

\* A request is not shown again among the next MAX_RECEIVED_STORED ones that
\* are, unless its sender was made a friend and deleted in between
\* (friendreq_handlepacket, addto_receivedlist, remove_request_received).
RequestsAreShownOnce ==
  \A i, j \in DOMAIN displayed :
    i < j /\ j - i <= MaxStored /\ displayed[i] = displayed[j] => displayed[i] = NoPk

\* tox.h: tox_get_savedata stores "all information associated with the tox
\* instance"; a whole file brings the status message back.
StatusMessageIsRestored ==
  \A n \in Nospam : file # NoFile => LoadedFrom(Len(file), n).own.message = kept[4]

=============================================================================
