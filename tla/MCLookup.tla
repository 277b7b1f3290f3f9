------------------------------ MODULE MCLookup ------------------------------
(***************************************************************************)
(* How a node finds others and remembers them, in one instance for TLC:    *)
(* the DHT lists, the array of open requests, the onion client, the        *)
(* association table and the saved state.  They share no state, so that    *)
(* every behaviour moves one of them and leaves the others where they      *)
(* start.                                                                  *)
(***************************************************************************)
EXTENDS Dht, PingArray, OnionClient, Assoc, Savedata, TLC

CONSTANTS n1, n2   \* nodes of onion paths

VARIABLE part   \* the part that moves

NodeVars == <<dhtVars, pingArrayVars, onionClientVars>>

StoreVars == <<assocVars, savedataVars>>

LookupInit ==
  /\ part \in {"dht", "requests", "client", "assoc", "saved"}
  /\ DhtInit /\ PingArrayInit /\ OnionClientInit
  /\ AssocInit /\ SavedataInit
  /\ assocSelf = <<7, 7>> /\ (part # "assoc" => assocSize = BucketSizeFor(6))
  /\ part # "saved" => own.nospam = 7

InDht(A) == part = "dht" /\ A /\ UNCHANGED <<part, pingArrayVars, onionClientVars, StoreVars>>
InRequests(A) == part = "requests" /\ A /\ UNCHANGED <<part, dhtVars, onionClientVars, StoreVars>>
InClient(A) == part = "client" /\ A /\ UNCHANGED <<part, dhtVars, pingArrayVars, StoreVars>>
InAssoc(A) == part = "assoc" /\ A /\ UNCHANGED <<part, NodeVars, savedataVars>>
InSaved(A) == part = "saved" /\ A /\ UNCHANGED <<part, NodeVars, assocVars>>

LookupNext ==
  \/ InDht(DhtNext) \/ InRequests(PingArrayNext) \/ InClient(OnionClientNext)
  \/ InAssoc(AssocNext) \/ InSaved(SavedataNext)

LookupSpec == LookupInit /\ [][LookupNext]_<<part, NodeVars, StoreVars>>

Alike == Permutations(OnionFriend) \cup Permutations(SavedKey)

-----------------------------------------------------------------------------
(* The instance.                                                           *)

Addr(family, lan, host) == [family |-> family, lan |-> lan, host |-> host]

\* Two keys share an address, and one key has three, one of them local.
LookupSelf == <<0, 0>>
LookupNodes == {<<<<0, 1>>, Addr(4, FALSE, 1)>>, <<<<1, 0>>, Addr(4, FALSE, 2)>>,
                <<<<1, 1>>, Addr(4, FALSE, 1)>>, <<<<1, 1>>, Addr(6, FALSE, 3)>>,
                <<<<1, 1>>, Addr(6, TRUE, 4)>>}
LookupBoot == {<<<<0, 1>>, Addr(4, FALSE, 1)>>}
LookupFriends == {<<1, 1>>}
LookupFakes == <<<<1, 0>>>>

LookupClientDistance == [k \in OnionFriend \cup {Us} |-> n1 :> 1 @@ n2 :> 2]

\* The first two keys fall into one bucket, where their places collide.
LookupAssocKeys == {<<1, 0>>, <<0, 2>>}
LookupAssocSelves == {<<1, 0>>, <<7, 7>>}
LookupHash == <<1, 0>> :> 1 @@ <<0, 2>> :> 36 @@ <<7, 7>> :> 4
LookupAssocAddrs == {Addr(4, FALSE, 1), Addr(4, TRUE, 2)}
LookupCounts == [all |-> 2, good |-> 1]

=============================================================================
