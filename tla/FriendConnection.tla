-------------------------- MODULE FriendConnection --------------------------
(***************************************************************************)
(* One friend connection of toxcore/friend_connection.c: it looks for a    *)
(* friend in the DHT, opens or accepts a crypto connection to him, tells   *)
(* the code above it (Messenger, group chats) when he comes and goes, and  *)
(* kills the crypto connection when he has been silent for too long.       *)
(*                                                                         *)
(* The crypto connection is below (module CryptoHandshake): here it is     *)
(* half open or established.  A time of the code is its age here, counted  *)
(* up to the largest age that is compared with.  Addresses, TCP relays,    *)
(* LAN discovery and the packets passed through are left out.              *)
(***************************************************************************)
EXTENDS Integers

CONSTANTS
  DhtKey,             \* DHT public keys the friend may have
  NoKey,              \* no key: the field is all zeros
  DhtTimeout,         \* FRIEND_DHT_TIMEOUT
  ConnectionTimeout,  \* FRIEND_CONNECTION_TIMEOUT
  MaxUsers            \* bound: holders of the friend connection

ASSUME TimeAssumption == DhtTimeout \in Nat /\ ConnectionTimeout \in Nat
ASSUME KeyAssumption == NoKey \notin DhtKey
ASSUME UsersAssumption == MaxUsers \in Nat \ {0}

VARIABLES
  fc,       \* the Friend_Conn
  crypto,   \* the connection net_crypto has to the friend
  ages,     \* seconds since dht_pk_lastrecv and ping_lastrecv, and since the
            \* friend was last heard of (history)
  told,     \* history: status callbacks with 1, less those with 0, since the connection exists
  users     \* history: calls of new_friend_connection and
            \* friend_connection_lock, less those of kill_friend_connection

friendVars == <<fc, crypto, ages, told, users>>

NoConn == [status |-> "None", dht_temp_pk |-> NoKey, dht_lock |-> FALSE,
           crypt_connection |-> FALSE, lock_count |-> 0]

NoCrypto == [status |-> "None", dht |-> NoKey]

HalfOpen(dht) == [status |-> "HalfOpen", dht |-> dht]

\* A time that is 0 lies far back.
OldAges == [pk |-> DhtTimeout + 1, ping |-> ConnectionTimeout + 1, heard |-> DhtTimeout + 1]

FriendInit ==
  /\ fc = NoConn
  /\ crypto = NoCrypto
  /\ ages = OldAges
  /\ told = 0
  /\ users = 0

Exists == fc.status # "None"

-----------------------------------------------------------------------------
\* Holders.

\* Mutant of new_friend_connection: a second holder is not counted.
new_friend_connection_NoLock ==
  /\ users < MaxUsers
  /\ users' = users + 1
  /\ fc' = IF Exists THEN fc ELSE [NoConn EXCEPT !.status = "Connecting"]
  /\ UNCHANGED <<crypto, ages, told>>

new_friend_connection ==
  /\ users < MaxUsers
  /\ users' = users + 1
  /\ fc' = IF Exists THEN [fc EXCEPT !.lock_count = @ + 1]
                     ELSE [NoConn EXCEPT !.status = "Connecting"]
  /\ UNCHANGED <<crypto, ages, told>>

friend_connection_lock ==
  /\ Exists
  /\ users < MaxUsers
  /\ users' = users + 1
  /\ fc' = [fc EXCEPT !.lock_count = @ + 1]
  /\ UNCHANGED <<crypto, ages, told>>

kill_friend_connection ==
  /\ Exists
  /\ users > 0
  /\ users' = users - 1
  /\ IF fc.lock_count > 0
       THEN /\ fc' = [fc EXCEPT !.lock_count = @ - 1]
            /\ UNCHANGED <<crypto, ages, told>>
       ELSE /\ fc' = NoConn
            /\ crypto' = NoCrypto
            /\ ages' = OldAges
            /\ told' = 0

-----------------------------------------------------------------------------
\* What the helpers do to a Friend_Conn, the crypto connection and the ages.

\* Mutant of Offline: the id of the crypto connection is kept.
Offline_KeepsId(f) == [f EXCEPT !.status = "Connecting"]

\* Mutant of OfflineTold: also those are told who were never told of him.
OfflineTold_Always(f) == told - 1

\* handle_status with status 0: the callbacks are told unless it was still
\* connecting.
Offline(f) == [f EXCEPT !.status = "Connecting", !.crypt_connection = FALSE]

OfflineAges(f, a) ==
  IF f.status # "Connecting" THEN [a EXCEPT !.pk = 0, !.heard = 0] ELSE a

OfflineTold(f) == IF f.status # "Connecting" THEN told - 1 ELSE told

\* change_dht_pk: DHT_addfriend, after DHT_delfriend of the old key.
change_dht_pk(f, dht) == [f EXCEPT !.dht_temp_pk = dht, !.dht_lock = TRUE]

\* friend_new_connection, when it can.
CanConnect(f) == ~ f.crypt_connection /\ f.dht_lock

-----------------------------------------------------------------------------
\* Callbacks.

\* dht_pk_callback, called by the onion client and set_dht_temp_pk, and by
\* net_crypto for a handshake that shows another DHT key.  A new key replaces
\* the crypto connection; the key that is known already changes nothing.
DhtPkKnown(dht) ==
  /\ Exists
  /\ fc.dht_temp_pk = dht
  /\ ages' = [ages EXCEPT !.heard = 0]
  /\ UNCHANGED <<fc, crypto, told, users>>

DhtPkNew(dht) ==
  LET changed == change_dht_pk(fc, dht)
      offline == IF fc.crypt_connection THEN Offline(changed) ELSE changed
  IN  /\ Exists
      /\ fc.dht_temp_pk # dht
      /\ fc' = [offline EXCEPT !.crypt_connection = TRUE]
      /\ crypto' = HalfOpen(dht)
      /\ ages' = [ages EXCEPT !.pk = 0, !.heard = 0]
      /\ told' = IF fc.crypt_connection THEN OfflineTold(fc) ELSE told
      /\ UNCHANGED users

dht_pk_callback(dht) == DhtPkKnown(dht) \/ DhtPkNew(dht)

\* dht_ip_callback: the DHT has found the address of the friend.
dht_ip_callback ==
  /\ Exists
  /\ CanConnect(fc)
  /\ fc' = [fc EXCEPT !.crypt_connection = TRUE]
  /\ crypto' = HalfOpen(fc.dht_temp_pk)
  /\ UNCHANGED <<ages, told, users>>

\* handle_status with status 1: net_crypto has established the connection.
GoOnline ==
  /\ crypto.status = "HalfOpen"
  /\ crypto' = [crypto EXCEPT !.status = "Established"]
  /\ fc' = [fc EXCEPT !.status = "Connected"]
  /\ ages' = [ages EXCEPT !.ping = 0]
  /\ told' = told + 1
  /\ UNCHANGED users

\* handle_status with status 0: connection_kill of net_crypto, for a kill
\* packet of the peer or in kill_timedout.
connection_kill ==
  /\ crypto.status # "None"
  /\ crypto' = NoCrypto
  /\ fc' = Offline(fc)
  /\ ages' = OfflineAges(fc, ages)
  /\ told' = OfflineTold(fc)
  /\ UNCHANGED users

\* handle_new_connections: a handshake of the friend when there is no crypto
\* connection.
handle_new_connections(dht) ==
  /\ Exists
  /\ ~ fc.crypt_connection
  /\ crypto' = HalfOpen(dht)
  /\ IF fc.dht_temp_pk # dht
       THEN /\ fc' = [change_dht_pk(fc, dht) EXCEPT !.crypt_connection = TRUE]
            /\ ages' = [ages EXCEPT !.pk = 0, !.heard = 0]
       ELSE /\ fc' = [fc EXCEPT !.crypt_connection = TRUE]
            /\ ages' = ages
  /\ UNCHANGED <<told, users>>

\* handle_new_connection_handshake kills a connection to another DHT key first.
ReplaceConnection(dht) ==
  /\ crypto.status # "None"
  /\ crypto.dht # dht
  /\ crypto' = HalfOpen(dht)
  /\ fc' = [(IF fc.dht_temp_pk # dht THEN change_dht_pk(Offline(fc), dht) ELSE Offline(fc))
              EXCEPT !.crypt_connection = TRUE]
  /\ ages' = IF fc.dht_temp_pk # dht THEN [ages EXCEPT !.pk = 0, !.heard = 0]
                                     ELSE OfflineAges(fc, ages)
  /\ told' = OfflineTold(fc)
  /\ UNCHANGED users

\* handle_packet, PACKET_ID_ALIVE.
HandleAlive ==
  /\ crypto.status = "Established"
  /\ ages' = [ages EXCEPT !.ping = 0]
  /\ UNCHANGED <<fc, crypto, told, users>>

-----------------------------------------------------------------------------
\* The main loop.

\* The connecting branch of do_friend_connections.
Forgets == fc.dht_lock /\ ages.pk > DhtTimeout

DoConnecting ==
  LET kept == IF Forgets THEN [fc EXCEPT !.dht_lock = FALSE] ELSE fc
  IN  /\ fc.status = "Connecting"
      /\ IF CanConnect(kept)
           THEN /\ fc' = [kept EXCEPT !.crypt_connection = TRUE]
                /\ crypto' = HalfOpen(kept.dht_temp_pk)
           ELSE /\ fc' = kept
                /\ UNCHANGED crypto
      /\ UNCHANGED <<ages, told, users>>

\* Mutant of DoConnected: the age is compared with a larger limit.
DoConnected_TooLate ==
  /\ fc.status = "Connected"
  /\ ages.ping > ConnectionTimeout + 1
  /\ crypto' = NoCrypto
  /\ fc' = Offline(fc)
  /\ ages' = OfflineAges(fc, ages)
  /\ told' = OfflineTold(fc)
  /\ UNCHANGED users

\* The connected branch, when it does something that lasts.
DoConnected ==
  /\ fc.status = "Connected"
  /\ ages.ping > ConnectionTimeout
  /\ crypto' = NoCrypto
  /\ fc' = Offline(fc)
  /\ ages' = OfflineAges(fc, ages)
  /\ told' = OfflineTold(fc)
  /\ UNCHANGED users

do_friend_connections == DoConnecting \/ DoConnected

Older(age, limit) == IF age > limit THEN age ELSE age + 1

\* A second passes.
Tick ==
  /\ ages' = [pk |-> Older(ages.pk, DhtTimeout), ping |-> Older(ages.ping, ConnectionTimeout),
              heard |-> Older(ages.heard, DhtTimeout)]
  /\ UNCHANGED <<fc, crypto, told, users>>

FriendNext ==
  \/ new_friend_connection
  \/ friend_connection_lock
  \/ kill_friend_connection
  \/ \E dht \in DhtKey :
       dht_pk_callback(dht) \/ handle_new_connections(dht) \/ ReplaceConnection(dht)
  \/ dht_ip_callback
  \/ GoOnline
  \/ connection_kill
  \/ HandleAlive
  \/ do_friend_connections
  \/ Tick

FriendSpec == FriendInit /\ [][FriendNext]_friendVars

\* The main loop keeps running, and time passes.
FriendFairSpec == FriendSpec /\ WF_friendVars(do_friend_connections) /\ WF_friendVars(Tick)

-----------------------------------------------------------------------------
FcType ==
  [status : {"None", "Connecting", "Connected"}, dht_temp_pk : DhtKey \cup {NoKey},
   dht_lock : BOOLEAN, crypt_connection : BOOLEAN, lock_count : 0 .. MaxUsers]

CryptoType == [status : {"None", "HalfOpen", "Established"}, dht : DhtKey \cup {NoKey}]

AgesType ==
  [pk : 0 .. DhtTimeout + 1, ping : 0 .. ConnectionTimeout + 1, heard : 0 .. DhtTimeout + 1]

\* The type invariant.
FriendTypeOK ==
  /\ fc \in FcType
  /\ crypto \in CryptoType
  /\ ages \in AgesType
  /\ told \in Int
  /\ users \in 0 .. MaxUsers

\* Both layers agree, in whatever order handshakes, DHT packets, kills and
\* timeouts come: the id of a friend connection is -1 exactly when net_crypto
\* has no connection to the friend, it is connected exactly when that one is
\* established, and both use the same DHT key.
LayersAgree ==
  /\ fc.crypt_connection <=> crypto.status # "None"
  /\ fc.status = "Connected" <=> crypto.status = "Established"
  /\ crypto.status # "None" => crypto.dht = fc.dht_temp_pk

\* The code above is told of every change, and never twice of the same
\* (handle_status): the friend has been reported to come once more often than to
\* go while the connection is connected, and as often otherwise.  A report that
\* is repeated or left out leaves the count wrong for good.
CallbacksAlternate == told = IF fc.status = "Connected" THEN 1 ELSE 0

\* A friend connection lives as long as somebody holds it: kill_friend_connection
\* wipes it for the last holder only.
WipedForLastHolder == Exists <=> users > 0

\* A friend who is silent for FRIEND_CONNECTION_TIMEOUT is noticed.
SilenceIsNoticed ==
  (fc.status = "Connected") ~> (fc.status # "Connected" \/ ages.ping = 0)

\* friend_connection.h, on FRIEND_DHT_TIMEOUT: "Time before friend is removed
\* from the DHT after last hearing about him."  So while his DHT key keeps
\* arriving he is not removed.
RemovedAfterSilence ==
  [][DoConnecting /\ fc.dht_lock /\ ~ fc'.dht_lock => ages.heard > DhtTimeout]_friendVars

=============================================================================
