----------------------- MODULE TcpConnections_proofs -----------------------
(***************************************************************************)
(* The counts of the TCP relays are exact, for any number of peers,        *)
(* relays, slots and calls, and any number of packets in the streams:      *)
(* RelayCountsStayExact.                                                   *)
(*                                                                         *)
(* lock_count is changed by callbacks that come with packets, and a packet *)
(* may be older than the connection it finds.  TcpConnInv therefore speaks *)
(* of the packets too.  Slots and ties in use are each other's, so that a  *)
(* notification about a slot is one about its tie (SlotsSound); a routing  *)
(* request or response on its way is awaited by a tie that has no slot     *)
(* yet, and there is one at most for each peer, so that a response finds   *)
(* no tie in use (RequestsSound); a relay that is not connected has none   *)
(* of it (IdleSound); no peer has two connections (KeysSound).             *)
(*                                                                         *)
(* A disconnect request for a tie without a slot frees a slot that is      *)
(* another's, and the response to the next request may then find a tie in  *)
(* use.  From then on only OnionSound, IdleSound and KeysSound are left:   *)
(* Sound(tc, FALSE) is what every step preserves without the rest.         *)
(*                                                                         *)
(* The parts: what a step leaves alone; what each function of              *)
(* TCP_connection.c and each callback does to Sound; the packets; the      *)
(* steps.                                                                  *)
(***************************************************************************)
EXTENDS TcpConnections, FunctionTheorems, SequenceTheorems, FiniteSetTheorems,
        WellFoundedInduction, TLAPS

-----------------------------------------------------------------------------
(* Relays of the TCP connections: the invariant.                           *)

\* The records of tc: a key that may be wiped, a tie of a connection to a relay,
\* a connection, a slot of the client, the packets of the two streams, a relay.
AnyKey == TcpPeer \cup {NoPeer}

TieStatus == {"UNTIED", "NONE", "REGISTERED", "ONLINE"}

TieRecord == [status : TieStatus, id : SlotId]

ConToRecord == [status : {"NONE", "VALID", "SLEEPING"}, pk : AnyKey, ties : [TcpNode -> TieRecord]]

SlotRecord == [status : 0 .. 2, pk : AnyKey, number : Int]

OutPacket == [type : {"request"}, pk : TcpPeer] \cup [type : {"disconnect"}, id : SlotId]

InPacket == [type : {"response"}, id : SlotId, pk : TcpPeer] \cup [type : {"connect", "disconnect"}, id : SlotId]

ConRecord ==
  [status : {"NONE", "VALID", "CONNECTED", "SLEEPING"}, up : {"DISCONNECTED", "CONNECTING", "CONFIRMED"},
   slots : [SlotId -> SlotRecord], out : Seq(OutPacket), in : Seq(InPacket),
   lock : Int, sleep : Int, onion : BOOLEAN, fresh : BOOLEAN, unsleep : BOOLEAN]

TcRecord == [to : [ConnNo -> ConToRecord], con : [TcpNode -> ConRecord], onion : BOOLEAN, num : Int]

\* A place in connections is wiped or belongs to a peer, no peer has two.
KeysSound(to) ==
  \A n \in ConnNo :
    /\ to[n].status = "NONE" => to[n] = NoConTo
    /\ to[n].status # "NONE" => to[n].pk # NoPeer
    /\ \A m \in ConnNo : to[m].pk = to[n].pk => m = n \/ to[n].pk = NoPeer

\* A relay that is not connected has no packets, no locks and no slots, and is
\* REGISTERED or ONLINE for nobody.
IdleSound(to, c, r) ==
  c.status # "CONNECTED" =>
    /\ c.in = << >> /\ c.out = << >> /\ c.lock = 0 /\ c.onion = FALSE
    /\ \A i \in SlotId : c.slots[i].status = 0
    /\ \A n \in ConnNo : to[n].ties[r].status \in {"UNTIED", "NONE"}

\* onion_num_conns counts the relays of the onion.
OnionSound(t) ==
  /\ t.num = Cardinality({r \in TcpNode : t.con[r].onion})
  /\ t.num <= Recommended
  /\ ~t.onion => \A r \in TcpNode : ~t.con[r].onion

\* The status of the tie of a slot in use: 1 is registered, 2 is online.
InUseStatus(s) == IF s = 1 THEN "REGISTERED" ELSE "ONLINE"

\* Slots in use and ties in use are each other's: a slot names the connection
\* to its peer, whose tie names the slot and has its status.
SlotsSound(to, c, r) ==
  /\ \A i \in SlotId : c.slots[i].status # 0 =>
       /\ c.slots[i].number \in ConnNo
       /\ to[c.slots[i].number].pk = c.slots[i].pk
       /\ to[c.slots[i].number].ties[r] = [status |-> InUseStatus(c.slots[i].status), id |-> i]
  /\ \A n \in ConnNo : to[n].ties[r].status \in {"REGISTERED", "ONLINE"} =>
       /\ c.slots[to[n].ties[r].id].status # 0
       /\ c.slots[to[n].ties[r].id].number = n

\* A connection to pk still waits for the relay's routing response.
Awaited(to, r, pk) == \E n \in ConnNo : to[n].pk = pk /\ to[n].ties[r].status = "NONE"

\* Every routing request and every response on its way is awaited, and there is
\* only one for each peer.
RequestsSound(to, c, r) ==
  /\ \A k \in DOMAIN c.out : c.out[k].type = "request" =>
       /\ Awaited(to, r, c.out[k].pk)
       /\ \A l \in DOMAIN c.out : c.out[l].type = "request" /\ c.out[l].pk = c.out[k].pk => k = l
       /\ \A l \in DOMAIN c.in : c.in[l].type = "response" => c.in[l].pk # c.out[k].pk
  /\ \A k \in DOMAIN c.in : c.in[k].type = "response" =>
       /\ Awaited(to, r, c.in[k].pk)
       /\ \A l \in DOMAIN c.in : c.in[l].type = "response" /\ c.in[l].pk = c.in[k].pk => k = l

\* The connections that are online at the relay: what lock_count counts.
OnlineAt(to, r) == {n \in ConnNo : to[n].ties[r].status = "ONLINE"}

\* What holds of a relay until a disconnect request goes astray.
Exact(to, c, r) ==
  /\ SlotsSound(to, c, r)
  /\ RequestsSound(to, c, r)
  /\ c.lock = Cardinality(OnlineAt(to, r))

\* exact: no disconnect request has gone astray.
Sound(t, exact) ==
  /\ t \in TcRecord
  /\ KeysSound(t.to)
  /\ OnionSound(t)
  /\ \A r \in TcpNode : IdleSound(t.to, t.con[r], r)
  /\ exact => \A r \in TcpNode : Exact(t.to, t.con[r], r)

\* The slots on the relay's side: none are used unless we are connected.
RouteRecord == [status : 0 .. 2, pk : AnyKey]

RoutesSound(con, rt) ==
  /\ rt \in [TcpNode -> [SlotId -> RouteRecord]]
  /\ \A r \in TcpNode : con[r].status # "CONNECTED" => \A i \in SlotId : rt[r][i].status = 0

\* The inductive invariant.  Its exact part is given up by the one call that
\* sends a disconnect request for a slot its tie never had.
TcpConnInv ==
  /\ Sound(tc, ~stray)
  /\ RoutesSound(tc.con, routes)
  /\ stray \in BOOLEAN
  /\ loop \in [on : BOOLEAN, todo : SUBSET TcpNode, reads : SUBSET TcpNode]

\* What the assumption on the constants gives.
LEMMA TcpConstants ==
  /\ SlotId \subseteq Nat /\ 0 \in SlotId
  /\ ConnNo \subseteq Nat /\ IsFiniteSet(ConnNo) /\ Cardinality(ConnNo) = Cardinality(TcpPeer)
  /\ IsFiniteSet(TcpNode) /\ IsFiniteSet(TcpPeer) /\ Cardinality(TcpPeer) \in Nat
  /\ Recommended \in Nat /\ NoPeer \notin TcpPeer
<1>1. Cardinality(TcpPeer) \in Nat
  BY TcpConnectionsAssumption, FS_CardinalityType
<1>2. IsFiniteSet(ConnNo) /\ Cardinality(ConnNo) = Cardinality(TcpPeer)
  BY <1>1, FS_Interval DEF ConnNo
<1> QED
  BY <1>1, <1>2, TcpConnectionsAssumption DEF SlotId, ConnNo

\* Wiped records, and those calloc gives.
LEMMA BlankRecords ==
  /\ NoTie \in TieRecord /\ NoTie.status = "UNTIED"
  /\ NoConTo \in ConToRecord /\ NoConTo.status = "NONE" /\ NoConTo.pk = NoPeer
  /\ \A r \in TcpNode : NoConTo.ties[r] = NoTie
  /\ NoSlot \in SlotRecord
  /\ NoCon \in ConRecord /\ NoCon.status = "NONE" /\ NoCon.in = << >> /\ NoCon.out = << >>
  /\ NoCon.lock = 0 /\ NoCon.onion = FALSE
  /\ \A i \in SlotId : NoCon.slots[i].status = 0
<1>1. NoTie \in TieRecord /\ NoTie.status = "UNTIED"
  BY TcpConstants DEF NoTie, TieRecord, TieStatus
<1>2. /\ NoConTo \in ConToRecord /\ NoConTo.status = "NONE" /\ NoConTo.pk = NoPeer
      /\ \A r \in TcpNode : NoConTo.ties[r] = NoTie
  BY <1>1 DEF NoConTo, ConToRecord, AnyKey
<1>3. NoSlot \in SlotRecord /\ NoSlot.status = 0
  BY DEF NoSlot, SlotRecord, AnyKey
<1>4. << >> \in Seq(OutPacket) /\ << >> \in Seq(InPacket)
  OBVIOUS
<1>5. PICK slots : slots = [i \in SlotId |-> NoSlot]
  OBVIOUS
<1>6. slots \in [SlotId -> SlotRecord] /\ \A i \in SlotId : slots[i].status = 0
  BY <1>3, <1>5
<1>7. NoCon = [status |-> "NONE", up |-> "DISCONNECTED", slots |-> slots,
               out |-> << >>, in |-> << >>, lock |-> 0, sleep |-> 0, onion |-> FALSE,
               fresh |-> FALSE, unsleep |-> FALSE]
  BY <1>5, Zenon DEF NoCon
<1>8. /\ NoCon \in ConRecord /\ NoCon.status = "NONE" /\ NoCon.in = << >> /\ NoCon.out = << >>
      /\ NoCon.lock = 0 /\ NoCon.onion = FALSE /\ NoCon.slots = slots
  BY <1>4, <1>6, <1>7 DEF ConRecord
<1> QED
  BY <1>1, <1>2, <1>3, <1>6, <1>8

-----------------------------------------------------------------------------
(* What a step leaves alone.                                               *)

\* Exact looks at the slots, the packets and the lock of a relay, and at its ties.
LEMMA ExactOfParts ==
  ASSUME NEW to, NEW r, NEW c, NEW d, Exact(to, c, r),
         d.slots = c.slots, d.in = c.in, d.out = c.out, d.lock = c.lock
  PROVE  Exact(to, d, r)
<1>1. SlotsSound(to, d, r)
  BY DEF Exact, SlotsSound
<1>2. RequestsSound(to, d, r)
  BY DEF Exact, RequestsSound
<1> QED
  BY <1>1, <1>2 DEF Exact

LEMMA ExactElsewhere ==
  ASSUME NEW to, NEW up, NEW r, NEW c, Exact(to, c, r),
         \A n \in ConnNo : \/ up[n].ties[r] = to[n].ties[r] /\ up[n].pk = to[n].pk
                           \/ up[n].ties[r].status = "UNTIED" /\ to[n].ties[r].status = "UNTIED"
  PROVE  Exact(up, c, r)
<1>1. SlotsSound(up, c, r)
  <2>1. ASSUME NEW i \in SlotId, c.slots[i].status # 0
        PROVE  /\ c.slots[i].number \in ConnNo
               /\ up[c.slots[i].number].pk = c.slots[i].pk
               /\ up[c.slots[i].number].ties[r] = [status |-> InUseStatus(c.slots[i].status), id |-> i]
    <3>1. PICK n : n = c.slots[i].number
      OBVIOUS
    <3>2. /\ n \in ConnNo /\ to[n].pk = c.slots[i].pk
          /\ to[n].ties[r] = [status |-> InUseStatus(c.slots[i].status), id |-> i]
      BY <2>1, <3>1 DEF Exact, SlotsSound
    <3>3. to[n].ties[r].status # "UNTIED"
      BY <3>2 DEF InUseStatus
    <3> QED
      BY <3>1, <3>2, <3>3
  <2>2. ASSUME NEW n \in ConnNo, up[n].ties[r].status \in {"REGISTERED", "ONLINE"}
        PROVE  c.slots[up[n].ties[r].id].status # 0 /\ c.slots[up[n].ties[r].id].number = n
    BY <2>2 DEF Exact, SlotsSound
  <2> QED
    BY <2>1, <2>2 DEF SlotsSound
<1>2. RequestsSound(up, c, r)
  <2>1. ASSUME NEW pk, Awaited(to, r, pk) PROVE Awaited(up, r, pk)
    <3>1. PICK n \in ConnNo : to[n].pk = pk /\ to[n].ties[r].status = "NONE"
      BY <2>1 DEF Awaited
    <3>2. up[n].pk = pk /\ up[n].ties[r].status = "NONE"
      BY <3>1
    <3> QED
      BY <3>2 DEF Awaited
  <2> QED
    BY <2>1 DEF Exact, RequestsSound
<1>3. OnlineAt(up, r) = OnlineAt(to, r)
  BY DEF OnlineAt
<1> QED
  BY <1>1, <1>2, <1>3 DEF Exact

LEMMA IdleElsewhere ==
  ASSUME NEW to, NEW up, NEW r, NEW c, IdleSound(to, c, r),
         \A n \in ConnNo : \/ up[n].ties[r] = to[n].ties[r]
                           \/ up[n].ties[r].status = "UNTIED"
  PROVE  IdleSound(up, c, r)
BY DEF IdleSound

LEMMA IdleExact ==
  ASSUME NEW to, NEW r, NEW c, IdleSound(to, c, r), c.status # "CONNECTED"
  PROVE  Exact(to, c, r)
<1>1. /\ c.in = << >> /\ c.out = << >> /\ c.lock = 0
      /\ \A i \in SlotId : c.slots[i].status = 0
      /\ \A n \in ConnNo : to[n].ties[r].status \in {"UNTIED", "NONE"}
  BY DEF IdleSound
<1>2. SlotsSound(to, c, r)
  BY <1>1 DEF SlotsSound
<1>3. RequestsSound(to, c, r)
  BY <1>1 DEF RequestsSound
<1>4. OnlineAt(to, r) = {}
  BY <1>1 DEF OnlineAt
<1> QED
  BY <1>1, <1>2, <1>3, <1>4, FS_EmptySet DEF Exact

\* The step from t to u concerns relay r only.
OnlyAt(t, u, r) ==
  /\ u \in TcRecord
  /\ \A s \in TcpNode : s # r => u.con[s] = t.con[s]
  /\ \A n \in ConnNo : /\ u.to[n].status = t.to[n].status /\ u.to[n].pk = t.to[n].pk
                       /\ t.to[n].status = "NONE" => u.to[n] = t.to[n]
                       /\ \A s \in TcpNode : s # r => u.to[n].ties[s] = t.to[n].ties[s]

LEMMA MovedSound ==
  ASSUME NEW t, NEW x \in BOOLEAN, Sound(t, x), NEW r \in TcpNode, NEW u, OnlyAt(t, u, r), OnionSound(u),
         IdleSound(u.to, u.con[r], r), x => Exact(u.to, u.con[r], r)
  PROVE  Sound(u, x)
<1>1. PICK to : to = t.to
  OBVIOUS
<1>2. PICK up : up = u.to
  OBVIOUS
<1>3. \A n \in ConnNo : /\ up[n].status = to[n].status /\ up[n].pk = to[n].pk
                        /\ to[n].status = "NONE" => up[n] = to[n]
                        /\ \A s \in TcpNode : s # r => up[n].ties[s] = to[n].ties[s]
  BY <1>1, <1>2 DEF OnlyAt
<1>4. KeysSound(to) /\ \A s \in TcpNode : IdleSound(to, t.con[s], s)
  BY <1>1 DEF Sound
<1>5. KeysSound(up)
  BY <1>3, <1>4 DEF KeysSound
<1>6. ASSUME NEW s \in TcpNode, s # r
      PROVE  IdleSound(up, u.con[s], s) /\ (x => Exact(up, u.con[s], s))
  <2>1. u.con[s] = t.con[s]
    BY <1>6 DEF OnlyAt
  <2>2. PICK c : c = t.con[s]
    OBVIOUS
  <2>3. \A n \in ConnNo : up[n].ties[s] = to[n].ties[s] /\ up[n].pk = to[n].pk
    BY <1>3, <1>6
  <2>4. IdleSound(to, c, s)
    BY <1>4, <2>2
  <2>5. IdleSound(up, c, s)
    BY <2>3, <2>4, IdleElsewhere
  <2>6. ASSUME x PROVE Exact(up, c, s)
    <3>1. Exact(to, c, s)
      BY <1>1, <2>2, <2>6 DEF Sound
    <3> QED
      BY <2>3, <3>1, ExactElsewhere
  <2> QED
    BY <2>1, <2>2, <2>5, <2>6
<1>7. \A s \in TcpNode : IdleSound(u.to, u.con[s], s)
  BY <1>2, <1>6
<1>8. x => \A s \in TcpNode : Exact(u.to, u.con[s], s)
  BY <1>2, <1>6
<1> QED
  BY <1>2, <1>5, <1>7, <1>8 DEF Sound, OnlyAt

\* The count of the onion's relays, kept and lowered.
LEMMA OnionKept ==
  ASSUME NEW t, OnionSound(t), NEW u, u.num = t.num, u.onion = t.onion,
         \A s \in TcpNode : u.con[s].onion = t.con[s].onion
  PROVE  OnionSound(u)
<1>1. {s \in TcpNode : u.con[s].onion} = {s \in TcpNode : t.con[s].onion}
  OBVIOUS
<1> QED
  BY <1>1 DEF OnionSound

LEMMA OnionDropped ==
  ASSUME NEW t, OnionSound(t), NEW r \in TcpNode, NEW u, u.onion = t.onion,
         u.num = t.num - (IF t.con[r].onion THEN 1 ELSE 0),
         u.con[r].onion = FALSE, \A s \in TcpNode : s # r => u.con[s].onion = t.con[s].onion
  PROVE  OnionSound(u)
<1>1. PICK S : S = {s \in TcpNode : t.con[s].onion}
  OBVIOUS
<1>2. IsFiniteSet(S) /\ Cardinality(S) \in Nat /\ t.num = Cardinality(S) /\ t.num <= Recommended
  BY <1>1, TcpConstants, FS_Subset, FS_CardinalityType DEF OnionSound
<1>3. {s \in TcpNode : u.con[s].onion} = S \ {r}
  BY <1>1
<1>4. r \in S <=> t.con[r].onion
  BY <1>1
<1>5. Cardinality(S \ {r}) = IF r \in S THEN Cardinality(S) - 1 ELSE Cardinality(S)
  BY <1>2, FS_RemoveElement
<1>6. Cardinality(S \ {r}) = u.num /\ u.num <= Recommended
  BY <1>2, <1>4, <1>5, TcpConstants
<1>7. ~u.onion => \A s \in TcpNode : ~u.con[s].onion
  BY DEF OnionSound
<1> QED
  BY <1>3, <1>6, <1>7 DEF OnionSound

-----------------------------------------------------------------------------
(* Relays that are killed, connected again, put to sleep or woken.         *)

\* A relay that starts from nothing.
Reset(d) ==
  /\ d \in ConRecord /\ d.status # "CONNECTED"
  /\ d.in = << >> /\ d.out = << >> /\ d.lock = 0 /\ d.onion = FALSE
  /\ \A i \in SlotId : d.slots[i].status = 0

LEMMA ResetSound ==
  ASSUME NEW t, NEW x \in BOOLEAN, Sound(t, x), NEW r \in TcpNode, NEW u, OnlyAt(t, u, r),
         Reset(u.con[r]), u.onion = t.onion, u.num = t.num - (IF t.con[r].onion THEN 1 ELSE 0),
         \A n \in ConnNo : u.to[n].ties[r].status \in {"UNTIED", "NONE"}
  PROVE  Sound(u, x)
<1>1. PICK c : c = u.con[r]
  OBVIOUS
<1>2. PICK up : up = u.to
  OBVIOUS
<1>3. IdleSound(up, c, r) /\ c.status # "CONNECTED"
  BY <1>1, <1>2 DEF IdleSound, Reset
<1>4. Exact(up, c, r)
  BY <1>3, IdleExact
<1>5. \A s \in TcpNode : s # r => u.con[s].onion = t.con[s].onion
  BY DEF OnlyAt
<1>6. u.con[r].onion = FALSE /\ OnionSound(t)
  BY DEF Reset, Sound
<1>7. OnionSound(u)
  BY <1>5, <1>6, OnionDropped
<1>8. IdleSound(u.to, u.con[r], r) /\ Exact(u.to, u.con[r], r)
  BY <1>1, <1>2, <1>3, <1>4
<1> QED
  BY <1>7, <1>8, MovedSound

LEMMA BlankReset ==
  /\ Reset(NoCon)
  /\ \A status \in {"VALID", "SLEEPING"}, up \in {"DISCONNECTED", "CONNECTING"} :
       Reset([NoCon EXCEPT !.status = status, !.up = up])
  /\ Reset([NoCon EXCEPT !.status = "SLEEPING"])
<1>1. Reset(NoCon)
  BY BlankRecords DEF Reset
<1>2. ASSUME NEW status \in {"VALID", "SLEEPING"}, NEW up \in {"DISCONNECTED", "CONNECTING"}
      PROVE  Reset([NoCon EXCEPT !.status = status, !.up = up])
  BY BlankRecords DEF Reset, ConRecord
<1>3. Reset([NoCon EXCEPT !.status = "SLEEPING"])
  BY BlankRecords DEF Reset, ConRecord
<1> QED
  BY <1>1, <1>2, <1>3

\* What the operators that kill, connect and put to sleep a relay do to tc.
LEMMA WithoutOnionIs ==
  ASSUME NEW t \in TcRecord, NEW r \in TcpNode, NEW w, w = WithoutOnion(t, r)
  PROVE  /\ w \in TcRecord /\ w.to = t.to /\ w.onion = t.onion
         /\ w.num = t.num - (IF t.con[r].onion THEN 1 ELSE 0)
         /\ \A s \in TcpNode : s # r => w.con[s] = t.con[s]
<1>1. PICK d : d = [t.con[r] EXCEPT !.onion = FALSE]
  OBVIOUS
<1>2. d \in ConRecord
  BY <1>1, ZenonT(60) DEF TcRecord, ConRecord
<1>3. PICK k : k = IF t.con[r].onion THEN 1 ELSE 0
  OBVIOUS
<1>4. w = [t EXCEPT !.num = t.num - k, !.con[r] = d]
  BY <1>1, <1>3 DEF WithoutOnion, TcRecord
<1>5. k \in Int /\ t.num \in Int
  BY <1>3 DEF TcRecord
<1>6. PICK k2 : k2 = t.num - k
  OBVIOUS
<1>7. w = [t EXCEPT !.num = k2, !.con[r] = d] /\ k2 \in Int
  BY <1>4, <1>5, <1>6
<1>8. /\ w \in TcRecord /\ w.to = t.to /\ w.onion = t.onion /\ w.num = k2
      /\ \A s \in TcpNode : s # r => w.con[s] = t.con[s]
  BY <1>2, <1>7, ZenonT(60) DEF TcRecord
<1>9. k2 = t.num - (IF t.con[r].onion THEN 1 ELSE 0)
  BY <1>3, <1>6
<1> QED
  BY <1>8, <1>9

LEMMA AllStatusIs ==
  ASSUME NEW t, NEW x \in BOOLEAN, Sound(t, x), NEW r \in TcpNode, NEW a, a = SetAllStatus(t, r, "NONE")
  PROVE  /\ OnlyAt(t, a, r) /\ a.con = t.con /\ a.onion = t.onion /\ a.num = t.num
         /\ \A n \in ConnNo : a.to[n].ties[r].status \in {"UNTIED", "NONE"}
<1>1. t \in TcRecord /\ KeysSound(t.to)
  BY DEF Sound
<1>2. PICK tie : tie = [status |-> "NONE", id |-> 0]
  OBVIOUS
<1>3. tie \in TieRecord /\ tie.status = "NONE"
  BY <1>2, TcpConstants DEF TieRecord, TieStatus
<1>4. PICK up : up = [n \in ConnNo |-> IF t.to[n].ties[r].status = "UNTIED" THEN t.to[n]
                                       ELSE [t.to[n] EXCEPT !.ties[r] = tie]]
  OBVIOUS
<1>5. a = [t EXCEPT !.to = up]
  BY <1>2, <1>4 DEF SetAllStatus
<1>6. ASSUME NEW n \in ConnNo
      PROVE  /\ up[n] \in ConToRecord /\ up[n].status = t.to[n].status /\ up[n].pk = t.to[n].pk
             /\ t.to[n].status = "NONE" => up[n] = t.to[n]
             /\ \A s \in TcpNode : s # r => up[n].ties[s] = t.to[n].ties[s]
             /\ up[n].ties[r].status \in {"UNTIED", "NONE"}
  <2>1. PICK e : e = t.to[n]
    OBVIOUS
  <2>2. e \in ConToRecord /\ (e.status = "NONE" => e = NoConTo)
    BY <1>1, <2>1 DEF TcRecord, KeysSound
  <2>3. e.status = "NONE" => e.ties[r].status = "UNTIED"
    BY <2>2, BlankRecords
  <2>4. CASE e.ties[r].status = "UNTIED"
    <3>1. up[n] = e
      BY <1>4, <2>1, <2>4
    <3> QED
      BY <2>1, <2>2, <2>4, <3>1
  <2>5. CASE e.ties[r].status # "UNTIED"
    <3>1. up[n] = [e EXCEPT !.ties[r] = tie]
      BY <1>4, <2>1, <2>5
    <3>2. /\ up[n] \in ConToRecord /\ up[n].status = e.status /\ up[n].pk = e.pk
          /\ up[n].ties[r] = tie /\ \A s \in TcpNode : s # r => up[n].ties[s] = e.ties[s]
      BY <1>3, <2>2, <3>1 DEF ConToRecord
    <3> QED
      BY <1>3, <2>1, <2>3, <2>5, <3>2
  <2> QED
    BY <2>4, <2>5
<1>7. up \in [ConnNo -> ConToRecord]
  BY <1>4, <1>6
<1>8. a \in TcRecord /\ a.to = up /\ a.con = t.con /\ a.onion = t.onion /\ a.num = t.num
  BY <1>1, <1>5, <1>7 DEF TcRecord
<1> QED
  BY <1>6, <1>8 DEF OnlyAt

LEMMA KillRelaySound ==
  ASSUME NEW t, NEW x \in BOOLEAN, Sound(t, x), NEW r \in TcpNode, NEW u, u = kill_tcp_relay_connection(t, r)
  PROVE  Sound(u, x)
<1>1. t \in TcRecord /\ KeysSound(t.to)
  BY DEF Sound
<1>2. PICK w : w = WithoutOnion(t, r)
  OBVIOUS
<1>3. /\ w \in TcRecord /\ w.onion = t.onion /\ w.num = t.num - (IF t.con[r].onion THEN 1 ELSE 0)
      /\ \A s \in TcpNode : s # r => w.con[s] = t.con[s]
  BY <1>1, <1>2, WithoutOnionIs
<1>4. PICK up : up = [n \in ConnNo |-> [t.to[n] EXCEPT !.ties[r] = NoTie]]
  OBVIOUS
<1>5. ASSUME NEW n \in ConnNo
      PROVE  /\ up[n] \in ConToRecord /\ up[n].status = t.to[n].status /\ up[n].pk = t.to[n].pk
             /\ t.to[n].status = "NONE" => up[n] = t.to[n]
             /\ \A s \in TcpNode : s # r => up[n].ties[s] = t.to[n].ties[s]
             /\ up[n].ties[r].status = "UNTIED"
  <2>1. PICK e : e = t.to[n]
    OBVIOUS
  <2>2. e \in ConToRecord /\ (e.status = "NONE" => e = NoConTo)
    BY <1>1, <2>1 DEF TcRecord, KeysSound
  <2>3. up[n] = [e EXCEPT !.ties[r] = NoTie]
    BY <1>4, <2>1
  <2>4. /\ up[n] \in ConToRecord /\ up[n].status = e.status /\ up[n].pk = e.pk
        /\ up[n].ties[r] = NoTie /\ \A s \in TcpNode : s # r => up[n].ties[s] = e.ties[s]
    BY <2>2, <2>3, BlankRecords DEF ConToRecord
  <2>5. ASSUME e.status = "NONE" PROVE up[n] = e
    <3>1. e.ties[r] = NoTie
      BY <2>2, <2>5, BlankRecords
    <3>2. [e.ties EXCEPT ![r] = NoTie] = e.ties
      BY <2>2, <3>1 DEF ConToRecord
    <3> QED
      BY <2>2, <2>3, <3>2 DEF ConToRecord
  <2> QED
    BY <2>1, <2>4, <2>5, BlankRecords
<1>6. up \in [ConnNo -> ConToRecord]
  BY <1>4, <1>5
<1>7. u = [w EXCEPT !.to = up, !.con[r] = NoCon]
  BY <1>2, <1>4 DEF kill_tcp_relay_connection
<1>8. /\ u \in TcRecord /\ u.to = up /\ u.con[r] = NoCon /\ u.onion = t.onion
      /\ u.num = t.num - (IF t.con[r].onion THEN 1 ELSE 0)
      /\ \A s \in TcpNode : s # r => u.con[s] = t.con[s]
  <2>1. NoCon \in ConRecord
    BY BlankRecords
  <2>2. /\ u \in TcRecord /\ u.to = up /\ u.con[r] = NoCon /\ u.onion = w.onion
        /\ u.num = w.num /\ \A s \in TcpNode : s # r => u.con[s] = w.con[s]
    BY <1>3, <1>6, <1>7, <2>1 DEF TcRecord
  <2> QED
    BY <1>3, <2>2
<1>9. OnlyAt(t, u, r) /\ \A n \in ConnNo : u.to[n].ties[r].status \in {"UNTIED", "NONE"}
  BY <1>5, <1>8 DEF OnlyAt
<1> QED
  BY <1>8, <1>9, BlankReset, ResetSound

LEMMA RestartSound ==
  ASSUME NEW t, NEW x \in BOOLEAN, Sound(t, x), NEW r \in TcpNode, NEW d, Reset(d),
         NEW a, a = SetAllStatus(t, r, "NONE"), NEW w, w = WithoutOnion(a, r),
         NEW u, u = [w EXCEPT !.con[r] = d]
  PROVE  Sound(u, x)
<1>1. t \in TcRecord
  BY DEF Sound
<1>2. /\ OnlyAt(t, a, r) /\ a.con = t.con /\ a.onion = t.onion /\ a.num = t.num /\ a \in TcRecord
      /\ \A n \in ConnNo : a.to[n].ties[r].status \in {"UNTIED", "NONE"}
  BY AllStatusIs DEF OnlyAt
<1>3. /\ w \in TcRecord /\ w.to = a.to /\ w.onion = a.onion
      /\ w.num = a.num - (IF a.con[r].onion THEN 1 ELSE 0)
      /\ \A s \in TcpNode : s # r => w.con[s] = a.con[s]
  BY <1>2, WithoutOnionIs
<1>4. /\ u \in TcRecord /\ u.to = a.to /\ u.con[r] = d /\ u.onion = t.onion
      /\ u.num = t.num - (IF t.con[r].onion THEN 1 ELSE 0)
      /\ \A s \in TcpNode : s # r => u.con[s] = t.con[s]
  BY <1>2, <1>3 DEF TcRecord, Reset
<1>5. OnlyAt(t, u, r) /\ \A n \in ConnNo : u.to[n].ties[r].status \in {"UNTIED", "NONE"}
  BY <1>2, <1>4 DEF OnlyAt
<1> QED
  BY <1>4, <1>5, ResetSound, ZenonT(60)

LEMMA ConnectSound ==
  ASSUME NEW t, NEW x \in BOOLEAN, Sound(t, x), NEW r \in TcpNode, t.con[r].status # "CONNECTED",
         NEW d, Reset(d), NEW u, u = [t EXCEPT !.con[r] = d]
  PROVE  Sound(u, x)
<1>1. t \in TcRecord /\ IdleSound(t.to, t.con[r], r)
  BY DEF Sound
<1>2. ~t.con[r].onion /\ \A n \in ConnNo : t.to[n].ties[r].status \in {"UNTIED", "NONE"}
  BY <1>1 DEF IdleSound
<1>3. /\ u \in TcRecord /\ u.to = t.to /\ u.con[r] = d /\ u.onion = t.onion /\ u.num = t.num
      /\ \A s \in TcpNode : s # r => u.con[s] = t.con[s]
  BY <1>1 DEF TcRecord, Reset
<1>4. u.num = t.num - (IF t.con[r].onion THEN 1 ELSE 0)
  BY <1>1, <1>2, <1>3 DEF TcRecord
<1>5. OnlyAt(t, u, r)
  BY <1>3 DEF OnlyAt
<1>6. Reset(u.con[r]) /\ \A n \in ConnNo : u.to[n].ties[r].status \in {"UNTIED", "NONE"}
  BY <1>2, <1>3
<1> QED
  BY <1>3, <1>4, <1>5, <1>6, ResetSound

-----------------------------------------------------------------------------
(* A relay comes online.                                                   *)

\* InTurn counts through a set of numbers.
LEMMA EachInTurn ==
  ASSUME NEW S, S \subseteq Nat, IsFiniteSet(S), NEW N, N = Cardinality(S)
  PROVE  /\ N \in Nat
         /\ \A k \in 1 .. N : InTurn(S, k) \in S
         /\ \A k, l \in 1 .. N : InTurn(S, k) = InTurn(S, l) => k = l
<1> DEFINE UpTo(n) == {m \in S : m <= n}
           rank == [n \in S |-> Cardinality(UpTo(n))]
<1>1. N \in Nat
  BY FS_CardinalityType
<1>2. ASSUME NEW n \in S
      PROVE  IsFiniteSet(UpTo(n)) /\ rank[n] = Cardinality(UpTo(n)) /\ rank[n] \in 1 .. N
  <2>1. UpTo(n) \subseteq S /\ n \in UpTo(n)
    BY <1>2
  <2>2. IsFiniteSet(UpTo(n)) /\ Cardinality(UpTo(n)) \in Nat /\ Cardinality(UpTo(n)) <= N
    BY <2>1, FS_Subset, FS_CardinalityType
  <2>3. Cardinality(UpTo(n)) # 0
    BY <2>1, <2>2, FS_EmptySet
  <2> QED
    BY <1>1, <2>2, <2>3
<1>3. ASSUME NEW m \in S, NEW n \in S, m < n PROVE rank[m] < rank[n]
  <2>1. m \in Nat /\ n \in Nat /\ ~(n <= m) /\ n <= n
    BY <1>3
  <2>2. UpTo(m) \subseteq UpTo(n) /\ n \in UpTo(n) /\ n \notin UpTo(m)
    <3>1. ASSUME NEW q \in S, q <= m PROVE q <= n
      BY <1>3, <2>1, <3>1
    <3> QED
      BY <2>1, <3>1
  <2>3. UpTo(m) # UpTo(n)
    BY <2>2
  <2>4. PICK A : A = UpTo(m)
    OBVIOUS
  <2>5. PICK B : B = UpTo(n)
    OBVIOUS
  <2>6. IsFiniteSet(B) /\ A \subseteq B /\ A # B
    BY <1>2, <2>2, <2>3, <2>4, <2>5
  <2>7. Cardinality(A) <= Cardinality(B) /\ Cardinality(A) # Cardinality(B)
    BY <2>6, FS_Subset
  <2>8. rank[m] = Cardinality(A) /\ rank[n] = Cardinality(B) /\ rank[m] \in Nat /\ rank[n] \in Nat
    BY <1>2, <2>4, <2>5
  <2> QED
    BY <2>7, <2>8
<1>4. ASSUME NEW m \in S, NEW n \in S, rank[m] = rank[n] PROVE m = n
  <2>1. ~(m < n) /\ ~(n < m)
    BY <1>2, <1>3, <1>4
  <2> QED
    BY <2>1
<1>5. PICK f : f = rank
  OBVIOUS
<1>6. f \in [S -> 1 .. N]
  BY <1>2, <1>5
<1>7. f \in Injection(S, 1 .. N)
  BY <1>4, <1>5, <1>6 DEF Injection, IsInjective
<1>8. IsFiniteSet(1 .. N) /\ Cardinality(1 .. N) = N
  BY <1>1, FS_Interval
<1>9. f \in Surjection(S, 1 .. N)
  BY <1>7, <1>8, FS_Injection
<1>10. ASSUME NEW k \in 1 .. N
       PROVE  InTurn(S, k) \in S /\ Cardinality(UpTo(InTurn(S, k))) = k
  <2>1. PICK n \in S : f[n] = k
    BY <1>9 DEF Surjection
  <2>2. Cardinality(UpTo(n)) = k
    BY <1>2, <1>5, <2>1
  <2> QED
    BY <2>2 DEF InTurn
<1> QED
  BY <1>1, <1>10

\* tcp_relay_on_online asks once for every tied peer, of whom none is pending.
LEMMA OnOnlineSound ==
  ASSUME NEW t, NEW x \in BOOLEAN, Sound(t, x), NEW r \in TcpNode, t.con[r].status # "CONNECTED",
         NEW u, u = tcp_relay_on_online(t, r)
  PROVE  Sound(u, x)
<1>1. t \in TcRecord /\ KeysSound(t.to) /\ OnionSound(t) /\ IdleSound(t.to, t.con[r], r)
  BY DEF Sound
<1>2. PICK c : c = t.con[r]
  OBVIOUS
<1>3. PICK to : to = t.to
  OBVIOUS
<1>4. /\ c \in ConRecord /\ c.in = << >> /\ c.out = << >> /\ c.lock = 0 /\ c.onion = FALSE
      /\ \A i \in SlotId : c.slots[i].status = 0
      /\ \A n \in ConnNo : to[n].ties[r].status \in {"UNTIED", "NONE"}
      /\ \A n \in ConnNo : to[n] \in ConToRecord
  BY <1>1, <1>2, <1>3 DEF IdleSound, TcRecord
<1>5. PICK tied : tied = {n \in ConnNo : IsConn(t, n) /\ Tied(t, n, r)}
  OBVIOUS
<1>6. PICK N : N = Cardinality(tied)
  OBVIOUS
<1>7. PICK requests : requests = [k \in 1 .. N |-> RoutingRequest(to[InTurn(tied, k)].pk)]
  OBVIOUS
<1>8. PICK fresh \in BOOLEAN : fresh = (tied # {})
  OBVIOUS
<1>9. PICK online : online = [c EXCEPT !.out = c.out \o requests, !.status = "CONNECTED", !.fresh = fresh]
  OBVIOUS
<1>10. PICK forOnion \in BOOLEAN : forOnion = (t.onion /\ t.num < Recommended)
  OBVIOUS
<1>11. u = IF forOnion THEN [t EXCEPT !.con[r] = [online EXCEPT !.onion = TRUE], !.num = t.num + 1]
           ELSE [t EXCEPT !.con[r] = online]
  BY <1>2, <1>3, <1>5, <1>6, <1>7, <1>8, <1>9, <1>10, Zenon DEF tcp_relay_on_online
<1>12. PICK d : d = IF forOnion THEN [online EXCEPT !.onion = TRUE] ELSE online
  OBVIOUS
<1>13. PICK num \in Int : num = IF forOnion THEN t.num + 1 ELSE t.num
  BY <1>1 DEF TcRecord
<1>14. /\ tied \subseteq ConnNo
       /\ \A n \in tied : to[n].pk \in TcpPeer /\ to[n].ties[r].status = "NONE" /\ to[n].pk # NoPeer
  BY <1>1, <1>3, <1>4, <1>5 DEF IsConn, Tied, KeysSound, ConToRecord, AnyKey
<1>15. /\ N \in Nat /\ \A k \in 1 .. N : InTurn(tied, k) \in tied
       /\ \A k, l \in 1 .. N : InTurn(tied, k) = InTurn(tied, l) => k = l
  BY <1>6, <1>14, TcpConstants, FS_Subset, EachInTurn
<1>16. \A k \in 1 .. N : requests[k] \in OutPacket /\ requests[k].pk = to[InTurn(tied, k)].pk
  BY <1>7, <1>14, <1>15 DEF RoutingRequest, OutPacket
<1>17. requests \in Seq(OutPacket) /\ Len(requests) = N /\ DOMAIN requests = 1 .. N
  BY <1>7, <1>15, <1>16
<1>18. c.out \o requests = requests
  BY <1>4, <1>17
<1>19. /\ online \in ConRecord /\ online.out = requests /\ online.in = << >> /\ online.lock = 0
      /\ online.slots = c.slots /\ online.status = "CONNECTED" /\ online.onion = FALSE
  BY <1>4, <1>9, <1>17, <1>18 DEF ConRecord
<1>20. /\ d \in ConRecord /\ d.out = requests /\ d.in = << >> /\ d.lock = 0 /\ d.slots = c.slots
       /\ d.status = "CONNECTED"
  BY <1>12, <1>19 DEF ConRecord
<1>21. d.onion = forOnion
  BY <1>12, <1>19 DEF ConRecord
<1>22. /\ u \in TcRecord /\ u.to = to /\ u.con[r] = d /\ u.onion = t.onion /\ u.num = num
       /\ \A s \in TcpNode : s # r => u.con[s] = t.con[s]
  <2>1. CASE forOnion
    <3>1. u = [t EXCEPT !.con[r] = d, !.num = num]
      BY <1>11, <1>12, <1>13, <2>1
    <3> QED
      BY <1>1, <1>3, <1>20, <3>1, ZenonT(60) DEF TcRecord
  <2>2. CASE ~forOnion
    <3>1. u = [t EXCEPT !.con[r] = d] /\ num = t.num
      BY <1>11, <1>12, <1>13, <2>2
    <3> QED
      BY <1>1, <1>3, <1>20, <3>1 DEF TcRecord
  <2> QED
    BY <2>1, <2>2
<1>23. OnlyAt(t, u, r)
  BY <1>3, <1>22 DEF OnlyAt
<1>24. OnionSound(u)
  <2>1. PICK S : S = {s \in TcpNode : t.con[s].onion}
    OBVIOUS
  <2>2. IsFiniteSet(S) /\ Cardinality(S) \in Nat /\ t.num = Cardinality(S) /\ t.num <= Recommended /\ r \notin S
    BY <1>1, <1>2, <1>4, <2>1, TcpConstants, FS_Subset, FS_CardinalityType DEF OnionSound
  <2>3. CASE forOnion
    <3>1. {s \in TcpNode : u.con[s].onion} = S \cup {r}
      BY <1>21, <1>22, <2>1, <2>3
    <3>2. Cardinality(S \cup {r}) = Cardinality(S) + 1
      BY <2>2, FS_AddElement
    <3>3. t.onion /\ t.num < Recommended
      BY <1>10, <2>3, Zenon
    <3>4. num = Cardinality(S) + 1 /\ num <= Recommended /\ t.onion
      BY <1>13, <2>2, <2>3, <3>3, TcpConstants
    <3> QED
      BY <1>22, <3>1, <3>2, <3>4 DEF OnionSound
  <2>4. CASE ~forOnion
    <3>1. num = t.num
      BY <1>13, <2>2, <2>4
    <3>2. \A s \in TcpNode : u.con[s].onion = t.con[s].onion
      BY <1>2, <1>4, <1>21, <1>22, <2>4
    <3> QED
      BY <1>1, <1>22, <3>1, <3>2, OnionKept
  <2> QED
    BY <2>3, <2>4
<1>25. IdleSound(to, d, r)
  BY <1>20 DEF IdleSound
<1>26. Exact(to, d, r)
  <2>1. SlotsSound(to, d, r)
    BY <1>4, <1>20 DEF SlotsSound
  <2>2. RequestsSound(to, d, r)
    <3>1. ASSUME NEW k \in DOMAIN d.out
          PROVE  Awaited(to, r, d.out[k].pk)
      BY <1>14, <1>15, <1>16, <1>17, <1>20 DEF Awaited
    <3>2. ASSUME NEW k \in DOMAIN d.out, NEW l \in DOMAIN d.out, d.out[l].pk = d.out[k].pk
          PROVE  k = l
      <4>1. PICK m \in tied : m = InTurn(tied, k) /\ d.out[k].pk = to[m].pk
        BY <1>15, <1>16, <1>17, <1>20
      <4>2. PICK n \in tied : n = InTurn(tied, l) /\ d.out[l].pk = to[n].pk
        BY <1>15, <1>16, <1>17, <1>20
      <4>3. m = n
        BY <1>1, <1>3, <1>14, <3>2, <4>1, <4>2 DEF KeysSound
      <4> QED
        BY <1>15, <1>17, <1>20, <4>1, <4>2, <4>3
    <3>3. DOMAIN d.in = {}
      BY <1>20
    <3> QED
      BY <3>1, <3>2, <3>3 DEF RequestsSound
  <2>3. OnlineAt(to, r) = {}
    BY <1>4 DEF OnlineAt
  <2> QED
    BY <1>20, <2>1, <2>2, <2>3, FS_EmptySet DEF Exact
<1>27. IdleSound(u.to, u.con[r], r) /\ Exact(u.to, u.con[r], r)
  BY <1>22, <1>25, <1>26
<1> QED
  BY <1>23, <1>24, <1>27, MovedSound

-----------------------------------------------------------------------------
(* The callbacks of the client.                                            *)

\* The step from to to up gives the tie of n to r the value tie.
TieSet(to, up, n, r, tie) ==
  /\ up \in [ConnNo -> ConToRecord]
  /\ up[n].ties[r] = tie
  /\ \A m \in ConnNo : up[m].status = to[m].status /\ up[m].pk = to[m].pk
  /\ \A m \in ConnNo : m # n => up[m] = to[m]
  /\ \A s \in TcpNode : s # r => up[n].ties[s] = to[n].ties[s]

LEMMA TieIsSet ==
  ASSUME NEW to \in [ConnNo -> ConToRecord], NEW n \in ConnNo, NEW r \in TcpNode, NEW tie \in TieRecord,
         NEW up, up = [to EXCEPT ![n].ties[r] = tie]
  PROVE  TieSet(to, up, n, r, tie)
<1>1. PICK e : e = [to[n] EXCEPT !.ties[r] = tie]
  OBVIOUS
<1>2. /\ e \in ConToRecord /\ e.status = to[n].status /\ e.pk = to[n].pk /\ e.ties[r] = tie
      /\ \A s \in TcpNode : s # r => e.ties[s] = to[n].ties[s]
  BY <1>1 DEF ConToRecord
<1>3. up = [to EXCEPT ![n] = e]
  BY <1>1
<1> QED
  BY <1>2, <1>3 DEF TieSet

\* A free slot, or the one n has already, and the tie of n come to be in use.
LEMMA SlotsAssigned ==
  ASSUME NEW to, NEW up, NEW c, NEW d, NEW r \in TcpNode, NEW n \in ConnNo, NEW id \in SlotId, NEW b \in {1, 2},
         SlotsSound(to, c, r),
         NEW tie, tie = [status |-> InUseStatus(b), id |-> id], TieSet(to, up, n, r, tie),
         c.slots[id].status = 0 \/ c.slots[id].number = n,
         to[n].ties[r].status \in {"REGISTERED", "ONLINE"} => to[n].ties[r].id = id,
         d.slots[id].status = b, d.slots[id].number = n, d.slots[id].pk = to[n].pk,
         \A i \in SlotId : i # id => d.slots[i] = c.slots[i]
  PROVE  SlotsSound(up, d, r)
<1>1. /\ up[n].ties[r] = [status |-> InUseStatus(b), id |-> id] /\ up[n].pk = to[n].pk
      /\ \A m \in ConnNo : m # n => up[m] = to[m]
  BY DEF TieSet
<1>2. ASSUME NEW i \in SlotId, d.slots[i].status # 0
      PROVE  /\ d.slots[i].number \in ConnNo
             /\ up[d.slots[i].number].pk = d.slots[i].pk
             /\ up[d.slots[i].number].ties[r] = [status |-> InUseStatus(d.slots[i].status), id |-> i]
  <2>1. CASE i = id
    BY <1>1, <2>1
  <2>2. CASE i # id
    <3>1. PICK slot : slot = c.slots[i]
      OBVIOUS
    <3>2. PICK m : m = slot.number
      OBVIOUS
    <3>3. d.slots[i] = slot /\ slot.status # 0
      BY <1>2, <2>2, <3>1
    <3>4. /\ m \in ConnNo /\ to[m].pk = slot.pk
          /\ to[m].ties[r] = [status |-> InUseStatus(slot.status), id |-> i]
      BY <3>1, <3>2, <3>3 DEF SlotsSound
    <3>5. to[m].ties[r].status \in {"REGISTERED", "ONLINE"} /\ to[m].ties[r].id = i
      BY <3>4 DEF InUseStatus
    <3>6. m # n
      BY <2>2, <3>5
    <3> QED
      BY <1>1, <3>2, <3>3, <3>4, <3>6
  <2> QED
    BY <2>1, <2>2
<1>3. ASSUME NEW m \in ConnNo, up[m].ties[r].status \in {"REGISTERED", "ONLINE"}
      PROVE  d.slots[up[m].ties[r].id].status # 0 /\ d.slots[up[m].ties[r].id].number = m
  <2>1. CASE m = n
    BY <1>1, <2>1
  <2>2. CASE m # n
    <3>1. PICK i : i = to[m].ties[r].id
      OBVIOUS
    <3>2. up[m].ties[r].id = i /\ c.slots[i].status # 0 /\ c.slots[i].number = m /\ i \in SlotId
      <4>1. up[m] = to[m] /\ up[m] \in ConToRecord
        BY <1>1, <2>2 DEF TieSet
      <4> QED
        BY <1>3, <3>1, <4>1 DEF SlotsSound, ConToRecord, TieRecord
    <3>3. i # id
      BY <2>2, <3>2
    <3> QED
      BY <3>2, <3>3
  <2> QED
    BY <2>1, <2>2
<1> QED
  BY <1>2, <1>3 DEF SlotsSound

\* A routing request for pk or its response is on its way.
Pending(c, pk) ==
  \/ \E k \in DOMAIN c.out : c.out[k].type = "request" /\ c.out[k].pk = pk
  \/ \E k \in DOMAIN c.in : c.in[k].type = "response" /\ c.in[k].pk = pk

LEMMA RequestsKept ==
  ASSUME NEW to, NEW up, NEW c, NEW d, NEW r, NEW n, RequestsSound(to, c, r),
         d.in = c.in, d.out = c.out,
         \A m \in ConnNo : up[m].pk = to[m].pk \/ to[m].ties[r].status # "NONE",
         \A m \in ConnNo : m # n => up[m].ties[r] = to[m].ties[r],
         ~Pending(c, to[n].pk)
  PROVE  RequestsSound(up, d, r)
<1>1. ASSUME NEW pk, pk # to[n].pk, Awaited(to, r, pk) PROVE Awaited(up, r, pk)
  <2>1. PICK m \in ConnNo : to[m].pk = pk /\ to[m].ties[r].status = "NONE"
    BY <1>1 DEF Awaited
  <2>2. m # n
    BY <1>1, <2>1
  <2>3. up[m].pk = pk /\ up[m].ties[r].status = "NONE"
    BY <2>1, <2>2
  <2> QED
    BY <2>3 DEF Awaited
<1>2. ASSUME NEW k \in DOMAIN c.out, c.out[k].type = "request"
      PROVE  /\ Awaited(up, r, c.out[k].pk)
             /\ \A l \in DOMAIN c.out : c.out[l].type = "request" /\ c.out[l].pk = c.out[k].pk => k = l
             /\ \A l \in DOMAIN c.in : c.in[l].type = "response" => c.in[l].pk # c.out[k].pk
  BY <1>1, <1>2 DEF RequestsSound, Pending
<1>3. ASSUME NEW k \in DOMAIN c.in, c.in[k].type = "response"
      PROVE  /\ Awaited(up, r, c.in[k].pk)
             /\ \A l \in DOMAIN c.in : c.in[l].type = "response" /\ c.in[l].pk = c.in[k].pk => k = l
  BY <1>1, <1>3 DEF RequestsSound, Pending
<1> QED
  BY <1>2, <1>3 DEF RequestsSound

\* Nobody waits for the response of a connection whose tie is in use.
LEMMA NotPending ==
  ASSUME NEW t, t \in TcRecord, KeysSound(t.to), NEW r \in TcpNode, NEW n \in ConnNo,
         RequestsSound(t.to, t.con[r], r), t.to[n].ties[r].status # "NONE"
  PROVE  ~Pending(t.con[r], t.to[n].pk)
<1> SUFFICES ASSUME Pending(t.con[r], t.to[n].pk) PROVE FALSE
  OBVIOUS
<1>1. PICK c : c = t.con[r]
  OBVIOUS
<1>2. PICK to : to = t.to
  OBVIOUS
<1>3. Awaited(to, r, to[n].pk)
  BY <1>1, <1>2 DEF Pending, RequestsSound
<1>4. to[n].pk # NoPeer
  <2>1. c.out \in Seq(OutPacket) /\ c.in \in Seq(InPacket)
    BY <1>1 DEF TcRecord, ConRecord
  <2>2. ASSUME NEW k \in DOMAIN c.out, c.out[k].type = "request" PROVE c.out[k].pk \in TcpPeer
    <3>1. c.out[k] \in OutPacket
      BY <2>1
    <3> QED
      BY <2>2, <3>1 DEF OutPacket
  <2>3. ASSUME NEW k \in DOMAIN c.in, c.in[k].type = "response" PROVE c.in[k].pk \in TcpPeer
    <3>1. c.in[k] \in InPacket
      BY <2>1
    <3> QED
      BY <2>3, <3>1 DEF InPacket
  <2> QED
    BY <1>1, <1>2, <2>2, <2>3, TcpConstants DEF Pending
<1>5. PICK m \in ConnNo : to[m].pk = to[n].pk /\ to[m].ties[r].status = "NONE"
  BY <1>3 DEF Awaited
<1>6. m = n
  BY <1>2, <1>4, <1>5 DEF KeysSound
<1> QED
  BY <1>2, <1>5, <1>6

\* The step from t to u gives slot id of relay r the value slot.
SlotMoved(t, u, r, id, slot) ==
  /\ u \in TcRecord /\ u.to = t.to /\ u.onion = t.onion /\ u.num = t.num
  /\ \A s \in TcpNode : s # r => u.con[s] = t.con[s]
  /\ u.con[r].slots[id] = slot /\ \A i \in SlotId : i # id => u.con[r].slots[i] = t.con[r].slots[i]
  /\ u.con[r].in = t.con[r].in /\ u.con[r].out = t.con[r].out /\ u.con[r].lock = t.con[r].lock
  /\ u.con[r].onion = t.con[r].onion /\ u.con[r].status = t.con[r].status

LEMMA SlotIsMoved ==
  ASSUME NEW t \in TcRecord, NEW r \in TcpNode, NEW id \in SlotId, NEW slot \in SlotRecord,
         NEW u, u = [t EXCEPT !.con[r].slots[id] = slot]
  PROVE  SlotMoved(t, u, r, id, slot)
<1>1. PICK c : c = t.con[r]
  OBVIOUS
<1>2. c \in ConRecord
  BY <1>1 DEF TcRecord
<1>3. PICK slots : slots = [c.slots EXCEPT ![id] = slot]
  OBVIOUS
<1>4. slots \in [SlotId -> SlotRecord] /\ slots[id] = slot /\ \A i \in SlotId : i # id => slots[i] = c.slots[i]
  BY <1>2, <1>3 DEF ConRecord
<1>5. PICK d : d = [c EXCEPT !.slots = slots]
  OBVIOUS
<1>6. /\ d \in ConRecord /\ d.slots = slots /\ d.in = c.in /\ d.out = c.out /\ d.lock = c.lock
      /\ d.onion = c.onion /\ d.status = c.status /\ d.sleep = c.sleep
  BY <1>2, <1>4, <1>5 DEF ConRecord
<1>7. u = [t EXCEPT !.con[r] = d]
  BY <1>1, <1>3, <1>5
<1>8. /\ u \in TcRecord /\ u.to = t.to /\ u.onion = t.onion /\ u.num = t.num /\ u.con[r] = d
      /\ \A s \in TcpNode : s # r => u.con[s] = t.con[s]
  BY <1>6, <1>7 DEF TcRecord
<1> QED
  BY <1>1, <1>4, <1>6, <1>8 DEF SlotMoved

\* How a tie counts for the relay's lock.
LEMMA OnlineCount ==
  ASSUME NEW to, NEW up, NEW r \in TcpNode, NEW n \in ConnNo, NEW tie, TieSet(to, up, n, r, tie)
  PROVE  /\ Cardinality(OnlineAt(to, r)) \in Nat
         /\ tie.status = "ONLINE" /\ to[n].ties[r].status # "ONLINE"
              => Cardinality(OnlineAt(up, r)) = Cardinality(OnlineAt(to, r)) + 1
         /\ tie.status # "ONLINE" /\ to[n].ties[r].status = "ONLINE"
              => Cardinality(OnlineAt(up, r)) = Cardinality(OnlineAt(to, r)) - 1
         /\ tie.status # "ONLINE" /\ to[n].ties[r].status # "ONLINE" => OnlineAt(up, r) = OnlineAt(to, r)
<1>1. PICK A : A = OnlineAt(to, r)
  OBVIOUS
<1>2. IsFiniteSet(A) /\ Cardinality(A) \in Nat
  BY <1>1, TcpConstants, FS_Subset, FS_CardinalityType DEF OnlineAt
<1>3. up[n].ties[r] = tie /\ \A m \in ConnNo : m # n => up[m] = to[m]
  BY DEF TieSet
<1>4. ASSUME tie.status = "ONLINE", to[n].ties[r].status # "ONLINE"
      PROVE  Cardinality(OnlineAt(up, r)) = Cardinality(A) + 1
  <2>1. OnlineAt(up, r) = A \cup {n} /\ n \notin A
    BY <1>1, <1>3, <1>4 DEF OnlineAt
  <2> QED
    BY <1>2, <2>1, FS_AddElement
<1>5. ASSUME tie.status # "ONLINE", to[n].ties[r].status = "ONLINE"
      PROVE  Cardinality(OnlineAt(up, r)) = Cardinality(A) - 1
  <2>1. OnlineAt(up, r) = A \ {n} /\ n \in A
    BY <1>1, <1>3, <1>5 DEF OnlineAt
  <2> QED
    BY <1>2, <2>1, FS_RemoveElement
<1>6. ASSUME tie.status # "ONLINE", to[n].ties[r].status # "ONLINE" PROVE OnlineAt(up, r) = A
  BY <1>1, <1>3, <1>6 DEF OnlineAt
<1> QED
  BY <1>1, <1>2, <1>4, <1>5, <1>6

Switches == {<<1, 2, "ONLINE", 1>>, <<2, 1, "REGISTERED", -1>>}

\* The step from c to d moves slot id, of connection n, from status a to b.
SlotSwitched(c, d, id, n, a, b, change) ==
  /\ c.slots[id].status = a /\ c.slots[id].number = n
  /\ d.slots[id].status = b /\ d.slots[id].number = n /\ d.slots[id].pk = c.slots[id].pk
  /\ \A i \in SlotId : i # id => d.slots[i] = c.slots[i]
  /\ d.in = c.in /\ d.out = c.out /\ d.lock = c.lock + change

\* A slot that is in use and its tie go from REGISTERED to ONLINE or back.
LEMMA ExactSwitched ==
  ASSUME NEW r \in TcpNode, NEW id \in SlotId, NEW to, NEW c,
         NEW a, NEW b, NEW st, NEW change, <<a, b, st, change>> \in Switches,
         Exact(to, c, r), NEW n \in ConnNo, NEW up, TieSet(to, up, n, r, [status |-> st, id |-> id]),
         NEW d, SlotSwitched(c, d, id, n, a, b, change), ~Pending(c, to[n].pk)
  PROVE  Exact(up, d, r)
<1> /\ c.slots[id].status = a /\ c.slots[id].number = n
    /\ d.slots[id].status = b /\ d.slots[id].number = n /\ d.slots[id].pk = c.slots[id].pk
    /\ \A i \in SlotId : i # id => d.slots[i] = c.slots[i]
    /\ d.in = c.in /\ d.out = c.out /\ d.lock = c.lock + change
  BY DEF SlotSwitched
<1>1. /\ a \in {1, 2} /\ b \in {1, 2} /\ st \in {"ONLINE", "REGISTERED"}
      /\ st = InUseStatus(b) /\ st # InUseStatus(a) /\ change = IF st = "ONLINE" THEN 1 ELSE -1
  BY DEF Switches, InUseStatus
<1>2. SlotsSound(to, c, r) /\ RequestsSound(to, c, r) /\ c.lock = Cardinality(OnlineAt(to, r))
  BY DEF Exact
<1>3. to[n].pk = c.slots[id].pk /\ to[n].ties[r] = [status |-> InUseStatus(a), id |-> id]
  <2>1. c.slots[id].status # 0
    BY <1>1
  <2> QED
    BY <1>2, <2>1 DEF SlotsSound
<1>4. SlotsSound(up, d, r)
  <2>1. PICK tie : tie = [status |-> InUseStatus(b), id |-> id] /\ TieSet(to, up, n, r, tie)
    BY <1>1
  <2>2. to[n].ties[r].id = id /\ d.slots[id].pk = to[n].pk
    BY <1>3
  <2>3. /\ b \in {1, 2} /\ SlotsSound(to, c, r)
        /\ c.slots[id].status = 0 \/ c.slots[id].number = n
        /\ to[n].ties[r].status \in {"REGISTERED", "ONLINE"} => to[n].ties[r].id = id
    BY <1>1, <1>2, <2>2
  <2> QED
    BY <2>1, <2>2, <2>3, SlotsAssigned
<1>5. to[n].ties[r].status = InUseStatus(a) /\ to[n].ties[r].status # "NONE"
  BY <1>3 DEF InUseStatus
<1>6. RequestsSound(up, d, r)
  <2>1. /\ \A m \in ConnNo : up[m].pk = to[m].pk
        /\ \A m \in ConnNo : m # n => up[m].ties[r] = to[m].ties[r]
    BY DEF TieSet
  <2>2. /\ RequestsSound(to, c, r) /\ d.in = c.in /\ d.out = c.out /\ ~Pending(c, to[n].pk)
        /\ \A m \in ConnNo : up[m].pk = to[m].pk \/ to[m].ties[r].status # "NONE"
    BY <1>2, <2>1
  <2> QED
    BY <2>1, <2>2, RequestsKept
<1>7. d.lock = Cardinality(OnlineAt(up, r))
  <2>1. PICK tie : tie = [status |-> st, id |-> id]
    OBVIOUS
  <2>2. /\ Cardinality(OnlineAt(to, r)) \in Nat
        /\ st = "ONLINE" /\ to[n].ties[r].status # "ONLINE"
             => Cardinality(OnlineAt(up, r)) = Cardinality(OnlineAt(to, r)) + 1
        /\ st # "ONLINE" /\ to[n].ties[r].status = "ONLINE"
             => Cardinality(OnlineAt(up, r)) = Cardinality(OnlineAt(to, r)) - 1
    <3>1. TieSet(to, up, n, r, tie) /\ tie.status = st
      BY <2>1
    <3> QED
      BY <3>1, OnlineCount
  <2>3. to[n].ties[r].status = "ONLINE" <=> st # "ONLINE"
    BY <1>1, <1>5 DEF InUseStatus
  <2>4. CASE st = "ONLINE"
    BY <1>1, <1>2, <2>2, <2>3, <2>4
  <2>5. CASE st # "ONLINE"
    BY <1>1, <1>2, <2>2, <2>3, <2>5
  <2> QED
    BY <2>4, <2>5
<1> QED
  BY <1>4, <1>6, <1>7 DEF Exact

\* No relay that is connected ceases to be.
Calm(t, u) == \A r \in TcpNode : t.con[r].status = "CONNECTED" => u.con[r].status = "CONNECTED"

\* tcp_status_callback, after the client has changed the slot.
LEMMA StatusSound ==
  ASSUME NEW t, NEW x \in BOOLEAN, Sound(t, x), NEW r \in TcpNode, t.con[r].status = "CONNECTED",
         NEW id \in SlotId, NEW a, NEW b, NEW st, NEW change, <<a, b, st, change>> \in Switches,
         NEW n, t.con[r].slots[id].status = a, n = t.con[r].slots[id].number,
         NEW v, NEW new, SlotMoved(t, v, r, id, new),
         new.status = b, new.pk = t.con[r].slots[id].pk, new.number = n,
         NEW u, u = tcp_status_callback(v, r, n, id, st)
  PROVE  Sound(u, x) /\ Calm(t, u)
<1>1. PICK to : to = t.to
  OBVIOUS
<1>2. PICK c : c = t.con[r]
  OBVIOUS
<1>3. t \in TcRecord /\ KeysSound(to) /\ OnionSound(t) /\ c \in ConRecord /\ to \in [ConnNo -> ConToRecord]
  BY <1>1, <1>2 DEF Sound, TcRecord
<1>4. PICK e : e = v.con[r]
  OBVIOUS
<1>5. /\ v \in TcRecord /\ v.to = to /\ v.onion = t.onion /\ v.num = t.num /\ e \in ConRecord
      /\ \A s \in TcpNode : s # r => v.con[s] = t.con[s]
      /\ e.slots[id] = new /\ \A i \in SlotId : i # id => e.slots[i] = c.slots[i]
      /\ e.in = c.in /\ e.out = c.out /\ e.lock = c.lock /\ e.onion = c.onion /\ e.status = "CONNECTED"
  BY <1>1, <1>2, <1>4 DEF SlotMoved, TcRecord
<1>6. st \in {"ONLINE", "REGISTERED"} /\ st # InUseStatus(a) /\ a \in {1, 2} /\ b \in {1, 2}
  BY DEF Switches, InUseStatus
<1>7. CASE ~(IsConn(v, n) /\ CanSetStatus(v, n, r, st))
  <2>1. u = v
    BY <1>7 DEF tcp_status_callback
  <2>2. ASSUME x PROVE FALSE
    <3>1. SlotsSound(to, c, r)
      BY <1>1, <1>2, <2>2 DEF Sound, Exact
    <3>2. /\ c.slots[id].status = a /\ a # 0 /\ n = c.slots[id].number
      BY <1>2, <1>6
    <3>3. n \in ConnNo /\ to[n].ties[r] = [status |-> InUseStatus(a), id |-> id]
      BY <3>1, <3>2 DEF SlotsSound
    <3>4. to[n].ties[r].status \notin {"UNTIED", st}
      BY <1>6, <3>3 DEF InUseStatus
    <3>5. to[n].status # "NONE"
      BY <1>3, <3>3, <3>4, BlankRecords DEF KeysSound
    <3> QED
      BY <1>5, <1>7, <3>3, <3>4, <3>5 DEF IsConn, CanSetStatus
  <2>3. OnlyAt(t, v, r)
    BY <1>1, <1>5 DEF OnlyAt
  <2>4. \A s \in TcpNode : v.con[s].onion = t.con[s].onion
    BY <1>2, <1>4, <1>5
  <2>5. OnionSound(v)
    BY <1>3, <1>5, <2>4, OnionKept
  <2>6. IdleSound(v.to, v.con[r], r)
    BY <1>4, <1>5 DEF IdleSound
  <2>7. x => Exact(v.to, v.con[r], r)
    BY <2>2
  <2>8. Sound(v, x)
    BY <2>3, <2>5, <2>6, <2>7, MovedSound
  <2>9. Calm(t, v)
    BY <1>4, <1>5 DEF Calm
  <2> QED
    BY <2>1, <2>8, <2>9
<1>8. CASE IsConn(v, n) /\ CanSetStatus(v, n, r, st)
  <2>1. PICK tie : tie = [status |-> st, id |-> id]
    OBVIOUS
  <2>2. tie \in TieRecord /\ tie.status = st
    BY <1>6, <2>1 DEF TieRecord, TieStatus
  <2>3. PICK up : up = [to EXCEPT ![n].ties[r] = tie]
    OBVIOUS
  <2>4. n \in ConnNo /\ to[n].status # "NONE"
    BY <1>5, <1>8 DEF IsConn
  <2>5. TieSet(to, up, n, r, tie)
    BY <1>3, <2>2, <2>3, <2>4, TieIsSet
  <2>6. PICK change2 : change2 = IF st = "ONLINE" THEN 1 ELSE -1
    OBVIOUS
  <2>7. change2 = change /\ change \in Int
    BY <2>6 DEF Switches
  <2>8. PICK k : k = IF v.to[n].status = "SLEEPING" THEN change ELSE 0
    OBVIOUS
  <2>9. k \in Int
    BY <2>7, <2>8
  <2>10. PICK w : w = SetStatus(v, n, r, st, id)
    OBVIOUS
  <2>11. w = [v EXCEPT !.to = up]
    BY <1>5, <2>1, <2>3, <2>10 DEF SetStatus, TcRecord
  <2>12. w \in TcRecord /\ w.to = up /\ w.con = v.con /\ w.onion = t.onion /\ w.num = t.num
    <3>1. up \in [ConnNo -> ConToRecord]
      BY <2>5 DEF TieSet
    <3> QED
      BY <1>5, <2>11, <3>1 DEF TcRecord
  <2>13. u = [w EXCEPT !.con[r].lock = @ + change, !.con[r].sleep = @ + k]
    <3>1. u = [w EXCEPT !.con[r].lock = @ + change2,
                        !.con[r].sleep = @ + (IF v.to[n].status = "SLEEPING" THEN change2 ELSE 0)]
      BY <1>8, <2>6, <2>10, Zenon DEF tcp_status_callback
    <3> QED
      BY <2>7, <2>8, <3>1
  <2>14. PICK lock \in Int : lock = e.lock + change
    BY <1>5, <2>7 DEF ConRecord
  <2>15. PICK sleep \in Int : sleep = e.sleep + k
    BY <1>5, <2>9 DEF ConRecord
  <2>16. PICK d : d = [e EXCEPT !.lock = lock, !.sleep = sleep]
    OBVIOUS
  <2>17. /\ d \in ConRecord /\ d.lock = e.lock + change /\ d.slots = e.slots
         /\ d.in = e.in /\ d.out = e.out /\ d.onion = e.onion /\ d.status = e.status
    BY <1>5, <2>14, <2>16 DEF ConRecord
  <2>18. u = [w EXCEPT !.con[r] = d]
    BY <1>4, <2>12, <2>13, <2>16, <2>14, <2>15 DEF TcRecord
  <2>19. /\ u \in TcRecord /\ u.to = up /\ u.onion = t.onion /\ u.num = t.num /\ u.con[r] = d
         /\ \A s \in TcpNode : s # r => u.con[s] = t.con[s]
    BY <1>5, <2>12, <2>17, <2>18 DEF TcRecord
  <2>20. OnlyAt(t, u, r)
    <3>1. \A m \in ConnNo : /\ up[m].status = to[m].status /\ up[m].pk = to[m].pk
                            /\ to[m].status = "NONE" => up[m] = to[m]
                            /\ \A s \in TcpNode : s # r => up[m].ties[s] = to[m].ties[s]
      BY <2>4, <2>5 DEF TieSet
    <3> QED
      BY <1>1, <2>19, <3>1 DEF OnlyAt
  <2>21. OnionSound(u)
    <3>1. \A s \in TcpNode : u.con[s].onion = t.con[s].onion
      BY <1>2, <1>5, <2>17, <2>19
    <3> QED
      BY <1>3, <2>19, <3>1, OnionKept
  <2>22. IdleSound(up, d, r)
    BY <1>5, <2>17 DEF IdleSound
  <2>23. ASSUME x PROVE Exact(up, d, r)
    <3>1. Exact(to, c, r)
      BY <1>1, <1>2, <2>23 DEF Sound
    <3>2. c.slots[id].status = a /\ c.slots[id].number = n
      BY <1>2
    <3>3. /\ d.slots[id].status = b /\ d.slots[id].number = n /\ d.slots[id].pk = c.slots[id].pk
          /\ \A i \in SlotId : i # id => d.slots[i] = c.slots[i]
          /\ d.in = c.in /\ d.out = c.out /\ d.lock = c.lock + change
      BY <1>2, <1>5, <2>17
    <3>4. ~Pending(c, to[n].pk)
      <4>1. to[n].ties[r].status # "NONE"
        <5>1. SlotsSound(to, c, r) /\ c.slots[id].status # 0
          BY <1>6, <3>1, <3>2 DEF Exact
        <5>2. to[n].ties[r] = [status |-> InUseStatus(a), id |-> id]
          BY <3>2, <5>1 DEF SlotsSound
        <5> QED
          BY <5>2 DEF InUseStatus
      <4>2. RequestsSound(to, c, r)
        BY <3>1 DEF Exact
      <4> QED
        BY <1>1, <1>2, <1>3, <2>4, <4>1, <4>2, NotPending
    <3>5. TieSet(to, up, n, r, [status |-> st, id |-> id])
      BY <2>1, <2>5
    <3>6. SlotSwitched(c, d, id, n, a, b, change)
      BY <3>2, <3>3 DEF SlotSwitched
    <3> QED
      BY <2>4, <3>1, <3>4, <3>5, <3>6, ExactSwitched
  <2>24. IdleSound(u.to, u.con[r], r) /\ (x => Exact(u.to, u.con[r], r))
    BY <2>19, <2>22, <2>23
  <2>25. Sound(u, x)
    BY <2>20, <2>21, <2>24, MovedSound
  <2>26. Calm(t, u)
    BY <1>5, <2>17, <2>19 DEF Calm
  <2> QED
    BY <2>25, <2>26
<1> QED
  BY <1>7, <1>8

\* The slot of connection n goes from status a to b.
Renewed(slot, new, n, a, b) ==
  /\ slot.status = a /\ slot.number = n
  /\ new.status = b /\ new.pk = slot.pk /\ new.number = n

\* StatusSound, with what is known of the slot in one hypothesis.
LEMMA RenewedSound ==
  ASSUME NEW t, NEW x \in BOOLEAN, Sound(t, x), NEW r \in TcpNode, t.con[r].status = "CONNECTED",
         NEW id \in SlotId, NEW a, NEW b, NEW st, NEW change, <<a, b, st, change>> \in Switches,
         NEW n, NEW v, NEW new, SlotMoved(t, v, r, id, new), Renewed(t.con[r].slots[id], new, n, a, b),
         NEW u, u = tcp_status_callback(v, r, n, id, st)
  PROVE  Sound(u, x) /\ Calm(t, u)
<1>1. /\ t.con[r].slots[id].status = a /\ n = t.con[r].slots[id].number
      /\ new.status = b /\ new.pk = t.con[r].slots[id].pk /\ new.number = n
  BY DEF Renewed
<1> QED
  BY <1>1, StatusSound

\* A response makes its tie REGISTERED and takes the free slot it names.
LEMMA ExactAnswered ==
  ASSUME NEW r \in TcpNode, NEW id \in SlotId, NEW to, NEW c, Exact(to, c, r),
         NEW n \in ConnNo, NEW up, NEW tie, TieSet(to, up, n, r, tie), tie = [status |-> "REGISTERED", id |-> id],
         to[n].ties[r].status = "NONE", c.slots[id].status = 0, ~Pending(c, to[n].pk),
         NEW d, d.slots[id].status = 1, d.slots[id].number = n, d.slots[id].pk = to[n].pk,
         \A i \in SlotId : i # id => d.slots[i] = c.slots[i],
         d.in = c.in, d.out = c.out, d.lock = c.lock
  PROVE  Exact(up, d, r)
<1>1. SlotsSound(to, c, r) /\ RequestsSound(to, c, r) /\ c.lock = Cardinality(OnlineAt(to, r))
  BY DEF Exact
<1>2. SlotsSound(up, d, r)
  <2>1. PICK b : b = 1
    OBVIOUS
  <2>2. b \in {1, 2} /\ d.slots[id].status = b /\ tie = [status |-> InUseStatus(b), id |-> id]
    BY <2>1 DEF InUseStatus
  <2>3. to[n].ties[r].status \in {"REGISTERED", "ONLINE"} => to[n].ties[r].id = id
    OBVIOUS
  <2> QED
    BY <1>1, <2>2, <2>3, SlotsAssigned
<1>3. RequestsSound(up, d, r)
  <2>1. /\ \A m \in ConnNo : up[m].pk = to[m].pk
        /\ \A m \in ConnNo : m # n => up[m].ties[r] = to[m].ties[r]
    BY DEF TieSet
  <2> QED
    BY <1>1, <2>1, RequestsKept
<1>4. OnlineAt(up, r) = OnlineAt(to, r)
  <2>1. tie.status # "ONLINE" /\ to[n].ties[r].status # "ONLINE"
    OBVIOUS
  <2> QED
    BY <2>1, OnlineCount
<1> QED
  BY <1>1, <1>2, <1>3, <1>4 DEF Exact

LEMMA ResponseSound ==
  ASSUME NEW t, NEW x \in BOOLEAN, Sound(t, x), NEW r \in TcpNode, t.con[r].status = "CONNECTED",
         NEW id \in SlotId, NEW pk \in TcpPeer, t.con[r].slots[id].status = 0,
         x => Awaited(t.to, r, pk) /\ ~Pending(t.con[r], pk),
         NEW v, NEW new \in SlotRecord, SlotMoved(t, v, r, id, new), new.status = 1, new.pk = pk,
         NEW u, u = tcp_response_callback(v, r, id, pk)
  PROVE  Sound(u, x) /\ Calm(t, u)
<1>1. PICK to : to = t.to
  OBVIOUS
<1>2. PICK c : c = t.con[r]
  OBVIOUS
<1>3. /\ t \in TcRecord /\ KeysSound(to) /\ OnionSound(t) /\ c \in ConRecord
      /\ to \in [ConnNo -> ConToRecord] /\ pk # NoPeer
  BY <1>1, <1>2, TcpConstants DEF Sound, TcRecord
<1>4. PICK e : e = v.con[r]
  OBVIOUS
<1>5. /\ v \in TcRecord /\ v.to = to /\ v.onion = t.onion /\ v.num = t.num /\ e \in ConRecord
      /\ \A s \in TcpNode : s # r => v.con[s] = t.con[s]
      /\ e.slots[id] = new /\ \A i \in SlotId : i # id => e.slots[i] = c.slots[i]
      /\ e.in = c.in /\ e.out = c.out /\ e.lock = c.lock /\ e.onion = c.onion /\ e.status = "CONNECTED"
  BY <1>1, <1>2, <1>4 DEF SlotMoved, TcRecord
<1>6. PICK found : found = {n \in find_tcp_connection_to(v, pk) : CanSetStatus(v, n, r, "REGISTERED")}
  OBVIOUS
<1>7. found = {n \in ConnNo : /\ to[n].status # "NONE" /\ to[n].pk = pk
                              /\ to[n].ties[r].status \notin {"UNTIED", "REGISTERED"}}
  BY <1>5, <1>6 DEF find_tcp_connection_to, CanSetStatus, IsConn
<1>8. ASSUME x
      PROVE  \E m \in found : /\ to[m].ties[r].status = "NONE"
                              /\ \A n \in found : n = m
  <2>1. PICK m \in ConnNo : to[m].pk = pk /\ to[m].ties[r].status = "NONE"
    BY <1>1, <1>8 DEF Awaited
  <2>2. to[m].status # "NONE"
    BY <1>3, <2>1, BlankRecords DEF KeysSound
  <2>3. m \in found
    BY <1>7, <2>1, <2>2
  <2>4. \A n \in found : n = m
    BY <1>3, <1>7, <2>1 DEF KeysSound
  <2> QED
    BY <2>1, <2>3, <2>4
<1>9. CASE found = {}
  <2>1. u = v
    BY <1>6, <1>9 DEF tcp_response_callback
  <2>2. ~x
    BY <1>8, <1>9
  <2>3. OnlyAt(t, v, r)
    BY <1>1, <1>5 DEF OnlyAt
  <2>4. \A s \in TcpNode : v.con[s].onion = t.con[s].onion
    BY <1>2, <1>4, <1>5
  <2>5. OnionSound(v)
    BY <1>3, <1>5, <2>4, OnionKept
  <2>6. IdleSound(v.to, v.con[r], r)
    BY <1>4, <1>5 DEF IdleSound
  <2>7. Sound(v, x)
    BY <2>2, <2>3, <2>5, <2>6, MovedSound
  <2>8. Calm(t, v)
    BY <1>4, <1>5 DEF Calm
  <2> QED
    BY <2>1, <2>7, <2>8
<1>10. CASE found # {}
  <2>1. PICK n : n = CHOOSE m \in found : TRUE
    OBVIOUS
  <2>2. n \in found /\ n \in ConnNo /\ to[n].status # "NONE" /\ to[n].pk = pk
    BY <1>7, <1>10, <2>1
  <2>3. PICK tie : tie = [status |-> "REGISTERED", id |-> id]
    OBVIOUS
  <2>4. tie \in TieRecord
    BY <2>3 DEF TieRecord, TieStatus
  <2>5. PICK up : up = [to EXCEPT ![n].ties[r] = tie]
    OBVIOUS
  <2>6. TieSet(to, up, n, r, tie)
    BY <1>3, <2>2, <2>4, <2>5, TieIsSet
  <2>7. PICK w : w = SetStatus(v, n, r, "REGISTERED", id)
    OBVIOUS
  <2>8. w = [v EXCEPT !.to = up]
    BY <1>5, <2>3, <2>5, <2>7 DEF SetStatus, TcRecord
  <2>9. w \in TcRecord /\ w.to = up /\ w.con = v.con /\ w.onion = t.onion /\ w.num = t.num
    <3>1. up \in [ConnNo -> ConToRecord]
      BY <2>6 DEF TieSet
    <3> QED
      BY <1>5, <2>8, <3>1 DEF TcRecord
  <2>10. u = [w EXCEPT !.con[r].slots[id].number = n]
    BY <1>6, <1>10, <2>1, <2>7 DEF tcp_response_callback
  <2>11. PICK named : named = [new EXCEPT !.number = n]
    OBVIOUS
  <2>12. named \in SlotRecord /\ named.status = 1 /\ named.pk = pk /\ named.number = n
    BY <2>2, <2>11, TcpConstants DEF SlotRecord
  <2>13. u = [w EXCEPT !.con[r].slots[id] = named]
    BY <1>4, <1>5, <2>9, <2>10, <2>11
  <2>14. SlotMoved(w, u, r, id, named)
    BY <2>9, <2>12, <2>13, SlotIsMoved
  <2>15. PICK d : d = u.con[r]
    OBVIOUS
  <2>16. /\ u \in TcRecord /\ u.to = up /\ u.onion = t.onion /\ u.num = t.num
         /\ \A s \in TcpNode : s # r => u.con[s] = t.con[s]
         /\ d.slots[id] = named /\ \A i \in SlotId : i # id => d.slots[i] = c.slots[i]
         /\ d.in = c.in /\ d.out = c.out /\ d.lock = c.lock /\ d.onion = c.onion /\ d.status = "CONNECTED"
    BY <1>4, <1>5, <2>9, <2>14, <2>15 DEF SlotMoved
  <2>17. OnlyAt(t, u, r)
    <3>1. \A m \in ConnNo : /\ up[m].status = to[m].status /\ up[m].pk = to[m].pk
                            /\ to[m].status = "NONE" => up[m] = to[m]
                            /\ \A s \in TcpNode : s # r => up[m].ties[s] = to[m].ties[s]
      BY <2>2, <2>6 DEF TieSet
    <3> QED
      BY <1>1, <2>16, <3>1 DEF OnlyAt
  <2>18. OnionSound(u)
    <3>1. \A s \in TcpNode : u.con[s].onion = t.con[s].onion
      BY <1>2, <2>15, <2>16
    <3> QED
      BY <1>3, <2>16, <3>1, OnionKept
  <2>19. IdleSound(up, d, r)
    BY <2>16 DEF IdleSound
  <2>20. ASSUME x PROVE Exact(up, d, r)
    <3>1. Exact(to, c, r)
      BY <1>1, <1>2, <2>20 DEF Sound
    <3>2. to[n].ties[r].status = "NONE"
      BY <1>8, <2>2, <2>20
    <3>3. c.slots[id].status = 0 /\ ~Pending(c, to[n].pk)
      BY <1>2, <2>2, <2>20
    <3>4. d.slots[id].status = 1 /\ d.slots[id].number = n /\ d.slots[id].pk = to[n].pk
      BY <2>2, <2>12, <2>16
    <3> QED
      BY <2>2, <2>3, <2>6, <2>16, <3>1, <3>2, <3>3, <3>4, ExactAnswered
  <2>21. IdleSound(u.to, u.con[r], r) /\ (x => Exact(u.to, u.con[r], r))
    BY <2>15, <2>16, <2>19, <2>20
  <2>22. Sound(u, x)
    BY <2>17, <2>18, <2>21, MovedSound
  <2>23. Calm(t, u)
    BY <2>15, <2>16 DEF Calm
  <2> QED
    BY <2>22, <2>23
<1> QED
  BY <1>9, <1>10

-----------------------------------------------------------------------------
(* The packets in the two streams.                                         *)

\* The packets RequestsSound is about.
Request(p) == p.type = "request"

Answer(p) == p.type = "response"

\* The packets of the type in new were in old, where h says.
Left(new, old, type, h) ==
  /\ \A k \in DOMAIN new : new[k].type = type => h[k] \in DOMAIN old /\ new[k] = old[h[k]]
  /\ \A k, l \in DOMAIN new : h[k] = h[l] => k = l

\* Packets that are left keep what held of them.
LEMMA FewerRequests ==
  ASSUME NEW to, NEW c, NEW d, NEW r, RequestsSound(to, c, r), NEW f, NEW g,
         Left(d.out, c.out, "request", f), Left(d.in, c.in, "response", g)
  PROVE  RequestsSound(to, d, r)
<1>1. /\ \A k \in DOMAIN d.out : Request(d.out[k]) => f[k] \in DOMAIN c.out /\ d.out[k] = c.out[f[k]]
      /\ \A k, l \in DOMAIN d.out : f[k] = f[l] => k = l
      /\ \A k \in DOMAIN d.in : Answer(d.in[k]) => g[k] \in DOMAIN c.in /\ d.in[k] = c.in[g[k]]
      /\ \A k, l \in DOMAIN d.in : g[k] = g[l] => k = l
  BY DEF Left, Request, Answer
<1>2. ASSUME NEW k \in DOMAIN d.out, d.out[k].type = "request"
      PROVE  /\ Awaited(to, r, d.out[k].pk)
             /\ \A l \in DOMAIN d.out : d.out[l].type = "request" /\ d.out[l].pk = d.out[k].pk => k = l
             /\ \A l \in DOMAIN d.in : d.in[l].type = "response" => d.in[l].pk # d.out[k].pk
  <2>1. f[k] \in DOMAIN c.out /\ d.out[k] = c.out[f[k]]
    BY <1>1, <1>2 DEF Request
  <2>2. ASSUME NEW l \in DOMAIN d.out, d.out[l].type = "request", d.out[l].pk = d.out[k].pk PROVE k = l
    <3>1. f[l] \in DOMAIN c.out /\ d.out[l] = c.out[f[l]]
      BY <1>1, <2>2 DEF Request
    <3>2. f[k] = f[l]
      BY <1>2, <2>1, <2>2, <3>1 DEF RequestsSound
    <3> QED
      BY <1>1, <3>2
  <2>3. ASSUME NEW l \in DOMAIN d.in, d.in[l].type = "response" PROVE d.in[l].pk # d.out[k].pk
    <3>1. g[l] \in DOMAIN c.in /\ d.in[l] = c.in[g[l]]
      BY <1>1, <2>3 DEF Answer
    <3> QED
      BY <1>2, <2>1, <2>3, <3>1 DEF RequestsSound
  <2>4. Awaited(to, r, d.out[k].pk)
    BY <1>2, <2>1 DEF RequestsSound
  <2> QED
    BY <2>2, <2>3, <2>4
<1>3. ASSUME NEW k \in DOMAIN d.in, d.in[k].type = "response"
      PROVE  /\ Awaited(to, r, d.in[k].pk)
             /\ \A l \in DOMAIN d.in : d.in[l].type = "response" /\ d.in[l].pk = d.in[k].pk => k = l
  <2>1. g[k] \in DOMAIN c.in /\ d.in[k] = c.in[g[k]]
    BY <1>1, <1>3 DEF Answer
  <2>2. ASSUME NEW l \in DOMAIN d.in, d.in[l].type = "response", d.in[l].pk = d.in[k].pk PROVE k = l
    <3>1. g[l] \in DOMAIN c.in /\ d.in[l] = c.in[g[l]]
      BY <1>1, <2>2 DEF Answer
    <3>2. g[k] = g[l]
      BY <1>3, <2>1, <2>2, <3>1 DEF RequestsSound
    <3> QED
      BY <1>1, <3>2
  <2>3. Awaited(to, r, d.in[k].pk)
    BY <1>3, <2>1 DEF RequestsSound
  <2> QED
    BY <2>2, <2>3
<1> QED
  BY <1>2, <1>3 DEF RequestsSound

LEMMA TailIs ==
  ASSUME NEW S, NEW s \in Seq(S), s # << >>
  PROVE  /\ Tail(s) \in Seq(S) /\ 1 \in DOMAIN s /\ Head(s) = s[1] /\ Head(s) \in S
         /\ \A k \in DOMAIN Tail(s) : k + 1 \in DOMAIN s /\ Tail(s)[k] = s[k + 1] /\ k + 1 # 1 /\ k \in Nat
<1>1. Tail(s) \in Seq(S) /\ Len(Tail(s)) = Len(s) - 1 /\ \A k \in 1 .. Len(Tail(s)) : Tail(s)[k] = s[k + 1]
  OBVIOUS
<1>2. DOMAIN s = 1 .. Len(s) /\ DOMAIN Tail(s) = 1 .. Len(Tail(s)) /\ Len(s) \in Nat /\ Len(s) > 0
  BY <1>1
<1>3. 1 \in DOMAIN s /\ Head(s) = s[1] /\ s[1] \in S
  BY <1>2
<1> QED
  BY <1>1, <1>2, <1>3

\* Reading the first packet of a stream.
LEMMA ResponseTaken ==
  ASSUME NEW to, NEW c, NEW d, NEW r, RequestsSound(to, c, r), c.in \in Seq(InPacket), c.in # << >>,
         d.in = Tail(c.in), d.out = c.out
  PROVE  /\ RequestsSound(to, d, r)
         /\ Answer(Head(c.in)) => Awaited(to, r, Head(c.in).pk) /\ ~Pending(d, Head(c.in).pk)
<1>1. PICK in : in = c.in
  OBVIOUS
<1>2. PICK rest : rest = Tail(in)
  OBVIOUS
<1>3. /\ rest \in Seq(InPacket) /\ 1 \in DOMAIN in /\ Head(in) = in[1]
      /\ \A k \in DOMAIN rest : k + 1 \in DOMAIN in /\ rest[k] = in[k + 1] /\ k + 1 # 1 /\ k \in Nat
  BY <1>1, <1>2, TailIs
<1>4. PICK g : g = [k \in DOMAIN rest |-> k + 1]
  OBVIOUS
<1>5. PICK f : f = [k \in DOMAIN c.out |-> k]
  OBVIOUS
<1>6. RequestsSound(to, d, r)
  <2>1. \A k \in DOMAIN d.in : g[k] \in DOMAIN c.in /\ d.in[k] = c.in[g[k]]
    BY <1>1, <1>2, <1>3, <1>4
  <2>2. \A k, l \in DOMAIN d.in : g[k] = g[l] => k = l
    BY <1>1, <1>2, <1>3, <1>4
  <2>3. /\ \A k \in DOMAIN d.out : f[k] \in DOMAIN c.out /\ d.out[k] = c.out[f[k]]
        /\ \A k, l \in DOMAIN d.out : f[k] = f[l] => k = l
    BY <1>5
  <2>4. Left(d.out, c.out, "request", f) /\ Left(d.in, c.in, "response", g)
    BY <2>1, <2>2, <2>3 DEF Left
  <2> QED
    BY <2>4, FewerRequests
<1>7. ASSUME in[1].type = "response" PROVE Awaited(to, r, in[1].pk) /\ ~Pending(d, in[1].pk)
  <2>1. Awaited(to, r, in[1].pk)
    BY <1>1, <1>3, <1>7 DEF RequestsSound
  <2>2. ASSUME NEW k \in DOMAIN c.out, c.out[k].type = "request", c.out[k].pk = in[1].pk PROVE FALSE
    BY <1>1, <1>3, <1>7, <2>2 DEF RequestsSound
  <2>3. ASSUME NEW k \in DOMAIN rest, rest[k].type = "response", rest[k].pk = in[1].pk PROVE FALSE
    <3>1. PICK l \in DOMAIN in : l = k + 1 /\ in[l] = rest[k] /\ l # 1
      BY <1>3
    <3> QED
      BY <1>1, <1>3, <1>7, <2>3, <3>1 DEF RequestsSound
  <2> QED
    BY <1>1, <1>2, <2>1, <2>2, <2>3 DEF Pending
<1> QED
  BY <1>1, <1>3, <1>6, <1>7 DEF Answer

LEMMA RequestTaken ==
  ASSUME NEW to, NEW c, NEW d, NEW r, RequestsSound(to, c, r), c.out \in Seq(OutPacket), c.out # << >>,
         d.out = Tail(c.out), d.in = c.in
  PROVE  /\ RequestsSound(to, d, r)
         /\ Request(Head(c.out)) => Awaited(to, r, Head(c.out).pk) /\ ~Pending(d, Head(c.out).pk)
<1>1. PICK out : out = c.out
  OBVIOUS
<1>2. PICK rest : rest = Tail(out)
  OBVIOUS
<1>3. /\ rest \in Seq(OutPacket) /\ 1 \in DOMAIN out /\ Head(out) = out[1]
      /\ \A k \in DOMAIN rest : k + 1 \in DOMAIN out /\ rest[k] = out[k + 1] /\ k + 1 # 1 /\ k \in Nat
  BY <1>1, <1>2, TailIs
<1>4. PICK f : f = [k \in DOMAIN rest |-> k + 1]
  OBVIOUS
<1>5. PICK g : g = [k \in DOMAIN c.in |-> k]
  OBVIOUS
<1>6. RequestsSound(to, d, r)
  <2>1. \A k \in DOMAIN d.out : f[k] \in DOMAIN c.out /\ d.out[k] = c.out[f[k]]
    BY <1>1, <1>2, <1>3, <1>4
  <2>2. \A k, l \in DOMAIN d.out : f[k] = f[l] => k = l
    BY <1>1, <1>2, <1>3, <1>4
  <2>3. /\ \A k \in DOMAIN d.in : g[k] \in DOMAIN c.in /\ d.in[k] = c.in[g[k]]
        /\ \A k, l \in DOMAIN d.in : g[k] = g[l] => k = l
    BY <1>5
  <2>4. Left(d.out, c.out, "request", f) /\ Left(d.in, c.in, "response", g)
    BY <2>1, <2>2, <2>3 DEF Left
  <2> QED
    BY <2>4, FewerRequests
<1>7. ASSUME out[1].type = "request" PROVE Awaited(to, r, out[1].pk) /\ ~Pending(d, out[1].pk)
  <2>1. Awaited(to, r, out[1].pk)
    BY <1>1, <1>3, <1>7 DEF RequestsSound
  <2>2. ASSUME NEW k \in DOMAIN c.in, c.in[k].type = "response", c.in[k].pk = out[1].pk PROVE FALSE
    BY <1>1, <1>3, <1>7, <2>2 DEF RequestsSound
  <2>3. ASSUME NEW k \in DOMAIN rest, rest[k].type = "request", rest[k].pk = out[1].pk PROVE FALSE
    <3>1. PICK l \in DOMAIN out : l = k + 1 /\ out[l] = rest[k] /\ l # 1
      BY <1>3
    <3> QED
      BY <1>1, <1>3, <1>7, <2>3, <3>1 DEF RequestsSound
  <2> QED
    BY <1>1, <1>2, <2>1, <2>2, <2>3 DEF Pending
<1> QED
  BY <1>1, <1>3, <1>6, <1>7 DEF Request

\* One packet more, which is a request or a response only for a key that is
\* awaited and that nothing on its way is for.
LEMMA PacketAppended ==
  ASSUME NEW to, NEW c, NEW d, NEW r, RequestsSound(to, c, r), NEW p,
         c.in \in Seq(InPacket), c.out \in Seq(OutPacket),
         \/ p \in InPacket /\ d.in = Append(c.in, p) /\ d.out = c.out /\ (Answer(p) => Awaited(to, r, p.pk) /\ ~Pending(c, p.pk))
         \/ p \in OutPacket /\ d.out = Append(c.out, p) /\ d.in = c.in /\ (Request(p) => Awaited(to, r, p.pk) /\ ~Pending(c, p.pk))
  PROVE  RequestsSound(to, d, r)
<1>1. PICK in : in = c.in
  OBVIOUS
<1>2. PICK out : out = c.out
  OBVIOUS
<1>3. CASE p \in InPacket /\ d.in = Append(in, p) /\ d.out = out /\ (Answer(p) => Awaited(to, r, p.pk) /\ ~Pending(c, p.pk))
  <2>1. PICK N : N = Len(in) + 1
    OBVIOUS
  <2>2. /\ N \notin DOMAIN in /\ DOMAIN d.in = DOMAIN in \cup {N} /\ d.in[N] = p
        /\ \A k \in DOMAIN in : d.in[k] = in[k]
    BY <1>1, <1>3, <2>1
  <2>3. ASSUME NEW k \in DOMAIN d.out, d.out[k].type = "request"
        PROVE  /\ Awaited(to, r, d.out[k].pk)
               /\ \A l \in DOMAIN d.out : d.out[l].type = "request" /\ d.out[l].pk = d.out[k].pk => k = l
               /\ \A l \in DOMAIN d.in : d.in[l].type = "response" => d.in[l].pk # d.out[k].pk
    BY <1>1, <1>2, <1>3, <2>2, <2>3 DEF RequestsSound, Pending, Answer
  <2>4. ASSUME NEW k \in DOMAIN d.in, d.in[k].type = "response"
        PROVE  /\ Awaited(to, r, d.in[k].pk)
               /\ \A l \in DOMAIN d.in : d.in[l].type = "response" /\ d.in[l].pk = d.in[k].pk => k = l
    BY <1>1, <1>2, <1>3, <2>2, <2>4 DEF RequestsSound, Pending, Answer
  <2> QED
    BY <2>3, <2>4 DEF RequestsSound
<1>4. CASE p \in OutPacket /\ d.out = Append(out, p) /\ d.in = in /\ (Request(p) => Awaited(to, r, p.pk) /\ ~Pending(c, p.pk))
  <2>1. PICK N : N = Len(out) + 1
    OBVIOUS
  <2>2. /\ N \notin DOMAIN out /\ DOMAIN d.out = DOMAIN out \cup {N} /\ d.out[N] = p
        /\ \A k \in DOMAIN out : d.out[k] = out[k]
    BY <1>2, <1>4, <2>1
  <2>3. ASSUME NEW k \in DOMAIN d.out, d.out[k].type = "request"
        PROVE  /\ Awaited(to, r, d.out[k].pk)
               /\ \A l \in DOMAIN d.out : d.out[l].type = "request" /\ d.out[l].pk = d.out[k].pk => k = l
               /\ \A l \in DOMAIN d.in : d.in[l].type = "response" => d.in[l].pk # d.out[k].pk
    BY <1>1, <1>2, <1>4, <2>2, <2>3 DEF RequestsSound, Pending, Request
  <2>4. ASSUME NEW k \in DOMAIN d.in, d.in[k].type = "response"
        PROVE  /\ Awaited(to, r, d.in[k].pk)
               /\ \A l \in DOMAIN d.in : d.in[l].type = "response" /\ d.in[l].pk = d.in[k].pk => k = l
    BY <1>1, <1>2, <1>4, <2>4 DEF RequestsSound
  <2> QED
    BY <2>3, <2>4 DEF RequestsSound
<1> QED
  BY <1>1, <1>2, <1>3, <1>4

\* The step from t to u concerns the packets to and from relay r only.
StreamsMoved(t, u, r) ==
  /\ u \in TcRecord /\ u.to = t.to /\ u.onion = t.onion /\ u.num = t.num
  /\ \A s \in TcpNode : s # r => u.con[s] = t.con[s]
  /\ u.con[r].slots = t.con[r].slots /\ u.con[r].lock = t.con[r].lock
  /\ u.con[r].onion = t.con[r].onion /\ u.con[r].status = t.con[r].status

LEMMA StreamsSet ==
  ASSUME NEW t \in TcRecord, NEW r \in TcpNode, NEW d \in ConRecord,
         d.slots = t.con[r].slots, d.lock = t.con[r].lock, d.onion = t.con[r].onion, d.status = t.con[r].status,
         NEW u, u = [t EXCEPT !.con[r] = d]
  PROVE  StreamsMoved(t, u, r) /\ u.con[r] = d
<1>1. /\ u \in TcRecord /\ u.to = t.to /\ u.onion = t.onion /\ u.num = t.num /\ u.con[r] = d
      /\ \A s \in TcpNode : s # r => u.con[s] = t.con[s]
  BY DEF TcRecord
<1> QED
  BY <1>1 DEF StreamsMoved

LEMMA StreamsSound ==
  ASSUME NEW t, NEW x \in BOOLEAN, Sound(t, x), NEW r \in TcpNode, t.con[r].status = "CONNECTED",
         NEW u, StreamsMoved(t, u, r), x => RequestsSound(u.to, u.con[r], r)
  PROVE  Sound(u, x)
<1>1. PICK to : to = t.to
  OBVIOUS
<1>2. PICK c : c = t.con[r]
  OBVIOUS
<1>3. PICK d : d = u.con[r]
  OBVIOUS
<1>4. /\ u \in TcRecord /\ u.to = to /\ u.onion = t.onion /\ u.num = t.num
      /\ \A s \in TcpNode : s # r => u.con[s] = t.con[s]
      /\ d.slots = c.slots /\ d.lock = c.lock /\ d.onion = c.onion /\ d.status = "CONNECTED"
  BY <1>1, <1>2, <1>3 DEF StreamsMoved
<1>5. OnlyAt(t, u, r)
  BY <1>1, <1>4 DEF OnlyAt
<1>6. OnionSound(u)
  <2>1. \A s \in TcpNode : u.con[s].onion = t.con[s].onion
    BY <1>2, <1>3, <1>4
  <2> QED
    BY <1>4, <2>1, OnionKept DEF Sound
<1>7. IdleSound(to, d, r)
  BY <1>4 DEF IdleSound
<1>8. ASSUME x PROVE Exact(to, d, r)
  <2>1. SlotsSound(to, c, r) /\ c.lock = Cardinality(OnlineAt(to, r))
    BY <1>1, <1>2, <1>8 DEF Sound, Exact
  <2>2. SlotsSound(to, d, r)
    BY <1>4, <2>1 DEF SlotsSound
  <2>3. RequestsSound(to, d, r)
    BY <1>3, <1>4, <1>8
  <2> QED
    BY <1>4, <2>1, <2>2, <2>3 DEF Exact
<1>9. IdleSound(u.to, u.con[r], r) /\ (x => Exact(u.to, u.con[r], r))
  BY <1>3, <1>4, <1>7, <1>8
<1> QED
  BY <1>5, <1>6, <1>9, MovedSound

\* Who has packets is connected.
LEMMA NotIdle ==
  ASSUME NEW t, NEW x \in BOOLEAN, Sound(t, x), NEW r \in TcpNode,
         t.con[r].in # << >> \/ t.con[r].out # << >>
  PROVE  t.con[r].status = "CONNECTED"
BY DEF Sound, IdleSound

LEMMA HandleSound ==
  ASSUME NEW t, NEW x \in BOOLEAN, Sound(t, x), NEW r \in TcpNode, t.con[r].status = "CONNECTED",
         NEW p \in InPacket, x /\ Answer(p) => Awaited(t.to, r, p.pk) /\ ~Pending(t.con[r], p.pk),
         NEW u, u = HandleTcpPacket(t, r, p)
  PROVE  Sound(u, x) /\ Calm(t, u)
<1>1. t \in TcRecord
  BY DEF Sound
<1>2. PICK id : id = p.id
  OBVIOUS
<1>3. id \in SlotId /\ p.type \in {"response", "connect", "disconnect"}
  BY <1>2 DEF InPacket
<1>4. PICK slot : slot = t.con[r].slots[id]
  OBVIOUS
<1>5. slot \in SlotRecord
  BY <1>1, <1>3, <1>4 DEF TcRecord, ConRecord
<1>6. CASE p.type = "response"
  <2>1. u = HandleResponse(t, r, p)
    BY <1>6 DEF HandleTcpPacket
  <2>2. CASE slot.status # 0
    BY <1>2, <1>4, <2>1, <2>2 DEF HandleResponse, Calm
  <2>3. CASE slot.status = 0
    <3>1. PICK pk : pk = p.pk
      OBVIOUS
    <3>2. pk \in TcpPeer
      BY <1>6, <3>1 DEF InPacket
    <3>3. PICK new : new = [status |-> 1, pk |-> pk, number |-> NoNumber]
      OBVIOUS
    <3>4. new \in SlotRecord /\ new.status = 1 /\ new.pk = pk
      BY <3>2, <3>3 DEF SlotRecord, AnyKey, NoNumber
    <3>5. PICK v : v = [t EXCEPT !.con[r].slots[id] = new]
      OBVIOUS
    <3>6. SlotMoved(t, v, r, id, new)
      BY <1>1, <1>3, <3>4, <3>5, SlotIsMoved
    <3>7. u = tcp_response_callback(v, r, id, pk)
      BY <1>2, <1>4, <2>1, <2>3, <3>1, <3>3, <3>5 DEF HandleResponse
    <3>8. x => Awaited(t.to, r, pk) /\ ~Pending(t.con[r], pk)
      BY <1>6, <3>1 DEF Answer
    <3>9. t.con[r].slots[id].status = 0
      BY <1>4, <2>3
    <3> QED
      BY <1>3, <3>2, <3>4, <3>6, <3>7, <3>8, <3>9, ResponseSound
  <2> QED
    BY <2>2, <2>3
<1>7. ASSUME NEW a, NEW b, NEW st, NEW change, <<a, b, st, change>> \in Switches,
             u = IF slot.status # a THEN t
                 ELSE tcp_status_callback([t EXCEPT !.con[r].slots[id].status = b], r, slot.number, id, st)
      PROVE  Sound(u, x) /\ Calm(t, u)
  <2>1. CASE slot.status # a
    BY <1>7, <2>1 DEF Calm
  <2>2. CASE slot.status = a
    <3>1. PICK new : new = [slot EXCEPT !.status = b]
      OBVIOUS
    <3>2. new \in SlotRecord /\ new.status = b /\ new.pk = slot.pk /\ new.number = slot.number
      <4>1. b \in 0 .. 2
        BY <1>7 DEF Switches
      <4> QED
        BY <1>5, <3>1, <4>1 DEF SlotRecord
    <3>3. PICK v : v = [t EXCEPT !.con[r].slots[id] = new]
      OBVIOUS
    <3>4. SlotMoved(t, v, r, id, new)
      BY <1>1, <1>3, <3>2, <3>3, SlotIsMoved
    <3>5. v = [t EXCEPT !.con[r].slots[id].status = b]
      BY <1>4, <3>1, <3>3
    <3>6. PICK n : n = slot.number
      OBVIOUS
    <3>7. u = tcp_status_callback(v, r, n, id, st)
      BY <1>7, <2>2, <3>5, <3>6
    <3>8. Renewed(t.con[r].slots[id], new, n, a, b)
      BY <1>4, <2>2, <3>2, <3>6 DEF Renewed
    <3> QED
      BY <1>3, <1>7, <3>4, <3>7, <3>8, RenewedSound
  <2> QED
    BY <2>1, <2>2
<1>8. CASE p.type = "connect"
  <2>1. u = IF slot.status # 1 THEN t
            ELSE tcp_status_callback([t EXCEPT !.con[r].slots[id].status = 2], r, slot.number, id, "ONLINE")
    BY <1>2, <1>4, <1>8 DEF HandleTcpPacket, HandleConnect
  <2>2. <<1, 2, "ONLINE", 1>> \in Switches
    BY DEF Switches
  <2> QED
    BY <1>7, <2>1, <2>2
<1>9. CASE p.type = "disconnect"
  <2>1. u = IF slot.status # 2 THEN t
            ELSE tcp_status_callback([t EXCEPT !.con[r].slots[id].status = 1], r, slot.number, id, "REGISTERED")
    BY <1>2, <1>4, <1>9 DEF HandleTcpPacket, HandleDisconnect
  <2>2. <<2, 1, "REGISTERED", -1>> \in Switches
    BY DEF Switches
  <2> QED
    BY <1>7, <2>1, <2>2
<1> QED
  BY <1>3, <1>6, <1>8, <1>9

LEMMA NextPacketSound ==
  ASSUME NEW t, NEW x \in BOOLEAN, Sound(t, x), NEW r \in TcpNode, t.con[r].in # << >>,
         NEW u, u = NextPacket(t, r)
  PROVE  Sound(u, x) /\ Calm(t, u)
<1>1. t \in TcRecord /\ t.con[r].status = "CONNECTED"
  BY NotIdle DEF Sound
<1>2. PICK c : c = t.con[r]
  OBVIOUS
<1>3. c \in ConRecord /\ c.in \in Seq(InPacket) /\ c.out \in Seq(OutPacket)
  BY <1>1, <1>2 DEF TcRecord, ConRecord
<1>4. PICK in : in = c.in
  OBVIOUS
<1>5. PICK rest : rest = Tail(in)
  OBVIOUS
<1>6. PICK p : p = Head(in)
  OBVIOUS
<1>7. in \in Seq(InPacket) /\ in # << >> /\ rest \in Seq(InPacket) /\ p \in InPacket
  BY <1>2, <1>3, <1>4, <1>5, <1>6, TailIs
<1>8. PICK v : v = [t EXCEPT !.con[r].in = rest]
  OBVIOUS
<1>9. PICK d : d = [c EXCEPT !.in = rest]
  OBVIOUS
<1>10. /\ d \in ConRecord /\ d.in = rest /\ d.out = c.out /\ d.slots = c.slots /\ d.lock = c.lock
       /\ d.onion = c.onion /\ d.status = c.status
  BY <1>3, <1>7, <1>9 DEF ConRecord
<1>11. StreamsMoved(t, v, r) /\ v.con[r] = d
  <2>1. v = [t EXCEPT !.con[r] = d]
    BY <1>2, <1>8, <1>9
  <2> QED
    BY <1>1, <1>2, <1>10, <2>1, StreamsSet
<1>12. PICK to : to = t.to
  OBVIOUS
<1>13. v.to = to /\ d.in = Tail(c.in) /\ d.out = c.out /\ v.con[r].status = "CONNECTED"
  BY <1>1, <1>2, <1>4, <1>5, <1>10, <1>11, <1>12 DEF StreamsMoved
<1>14. ASSUME x PROVE RequestsSound(to, d, r) /\ (Answer(p) => Awaited(to, r, p.pk) /\ ~Pending(d, p.pk))
  <2>1. RequestsSound(to, c, r)
    BY <1>2, <1>12, <1>14 DEF Sound, Exact
  <2>2. c.in \in Seq(InPacket) /\ c.in # << >> /\ Head(c.in) = p
    BY <1>4, <1>6, <1>7
  <2> QED
    BY <1>13, <2>1, <2>2, ResponseTaken
<1>15. Sound(v, x)
  <2>1. x => RequestsSound(v.to, v.con[r], r)
    BY <1>11, <1>13, <1>14
  <2> QED
    BY <1>1, <1>11, <2>1, StreamsSound
<1>16. u = HandleTcpPacket(v, r, p)
  BY <1>2, <1>4, <1>5, <1>6, <1>8 DEF NextPacket
<1>17. x /\ Answer(p) => Awaited(v.to, r, p.pk) /\ ~Pending(v.con[r], p.pk)
  BY <1>11, <1>13, <1>14
<1>18. Sound(u, x) /\ Calm(v, u)
  BY <1>7, <1>13, <1>15, <1>16, <1>17, HandleSound
<1>19. Calm(t, v)
  BY <1>11 DEF StreamsMoved, Calm
<1> QED
  BY <1>18, <1>19 DEF Calm

-----------------------------------------------------------------------------
(* do_tcp_conns and kill_nonused_tcp.                                      *)

\* do_tcp_conns: the operators DoRelay is made of.
LEMMA ConnectingIs ==
  ASSUME NEW t, NEW w, NEW r
  PROVE  \E d : Reset(d) /\ d.status = "VALID" /\ Connecting(t, r, w) = [w EXCEPT !.con[r] = d]
<1>1. PICK d : d = [NoCon EXCEPT !.status = "VALID", !.up = "CONNECTING"]
  OBVIOUS
<1>2. Reset(d)
  BY <1>1, BlankReset
<1>3. d.status = "VALID"
  BY <1>1, BlankRecords DEF ConRecord
<1> QED
  BY <1>1, <1>2, <1>3 DEF Connecting

LEMMA ReconnectSound ==
  ASSUME NEW t, NEW x \in BOOLEAN, Sound(t, x), NEW r \in TcpNode, NEW fails,
         NEW u, u = reconnect_tcp_relay_connection(t, r, fails)
  PROVE  Sound(u, x)
<1>1. CASE r \in fails
  <2>1. u = kill_tcp_relay_connection(t, r)
    BY <1>1 DEF reconnect_tcp_relay_connection
  <2> QED
    BY <2>1, KillRelaySound
<1>2. CASE r \notin fails
  <2>1. PICK a : a = SetAllStatus(t, r, "NONE")
    OBVIOUS
  <2>2. PICK w : w = WithoutOnion(a, r)
    OBVIOUS
  <2>3. u = Connecting(t, r, w)
    BY <1>2, <2>1, <2>2 DEF reconnect_tcp_relay_connection
  <2>4. PICK d : Reset(d) /\ u = [w EXCEPT !.con[r] = d]
    BY <2>3, ConnectingIs
  <2> QED
    BY <2>1, <2>2, <2>4, RestartSound
<1> QED
  BY <1>1, <1>2

LEMMA SleepSound ==
  ASSUME NEW t, NEW x \in BOOLEAN, Sound(t, x), NEW r \in TcpNode, NEW u, u = sleep_tcp_relay_connection(t, r)
  PROVE  Sound(u, x)
<1>1. PICK a : a = SetAllStatus(t, r, "NONE")
  OBVIOUS
<1>2. PICK w : w = WithoutOnion(a, r)
  OBVIOUS
<1>3. PICK d : d = [NoCon EXCEPT !.status = "SLEEPING"]
  OBVIOUS
<1>4. Reset(d)
  BY <1>3, BlankReset
<1>5. u = [w EXCEPT !.con[r] = d]
  BY <1>1, <1>2, <1>3 DEF sleep_tcp_relay_connection
<1> QED
  BY <1>1, <1>2, <1>4, <1>5, RestartSound

LEMMA NewConnectionSound ==
  ASSUME NEW t, NEW x \in BOOLEAN, Sound(t, x), NEW r \in TcpNode, t.con[r].status # "CONNECTED",
         NEW u, u = Connecting(t, r, t)
  PROVE  Sound(u, x) /\ Calm(t, u)
<1>1. PICK d : Reset(d) /\ u = [t EXCEPT !.con[r] = d]
  BY ConnectingIs
<1>2. Sound(u, x)
  BY <1>1, ConnectSound
<1>3. Calm(t, u)
  BY <1>1 DEF Sound, TcRecord, Calm
<1> QED
  BY <1>2, <1>3

LEMMA DoRelaySound ==
  ASSUME NEW t, NEW x \in BOOLEAN, Sound(t, x), NEW r \in TcpNode, NEW fails, NEW u, u = DoRelay(t, r, fails)
  PROVE  Sound(u, x)
<1>1. ASSUME NEW v, Sound(v, x) PROVE Sound(WakeRelay(v, r, fails), x)
  <2>1. CASE ~(v.con[r].status = "SLEEPING" /\ v.con[r].unsleep)
    BY <1>1, <2>1 DEF WakeRelay
  <2>2. CASE v.con[r].status = "SLEEPING" /\ v.con[r].unsleep
    <3>1. PICK w : w = WakeRelay(v, r, fails)
      OBVIOUS
    <3>2. CASE r \in fails
      <4>1. w = kill_tcp_relay_connection(v, r)
        BY <2>2, <3>1, <3>2 DEF WakeRelay, unsleep_tcp_relay_connection
      <4> QED
        BY <1>1, <3>1, <4>1, KillRelaySound
    <3>3. CASE r \notin fails
      <4>1. w = Connecting(v, r, v)
        BY <2>2, <3>1, <3>3 DEF WakeRelay, unsleep_tcp_relay_connection
      <4>2. v.con[r].status # "CONNECTED"
        BY <2>2
      <4>3. Sound(w, x)
        BY <1>1, <4>1, <4>2, NewConnectionSound
      <4> QED
        BY <3>1, <4>3
    <3> QED
      BY <3>2, <3>3
  <2> QED
    BY <2>1, <2>2
<1>2. PICK l : l = LoseRelay(t, r, fails)
  OBVIOUS
<1>3. Sound(l, x)
  <2>1. CASE t.con[r].status = "CONNECTED"
    <3>1. l = reconnect_tcp_relay_connection(t, r, fails)
      BY <1>2, <2>1 DEF LoseRelay
    <3> QED
      BY <3>1, ReconnectSound
  <2>2. CASE t.con[r].status # "CONNECTED"
    <3>1. l = kill_tcp_relay_connection(t, r)
      BY <1>2, <2>2 DEF LoseRelay
    <3> QED
      BY <3>1, KillRelaySound
  <2> QED
    BY <2>1, <2>2
<1>4. PICK b : b = BeginRelay(t, r)
  OBVIOUS
<1>5. Sound(b, x)
  <2>1. CASE t.con[r].status = "VALID" /\ t.con[r].up = "CONFIRMED"
    <3>1. b = tcp_relay_on_online(t, r) /\ t.con[r].status # "CONNECTED"
      BY <1>4, <2>1 DEF BeginRelay
    <3> QED
      BY <3>1, OnOnlineSound
  <2>2. CASE ~(t.con[r].status = "VALID" /\ t.con[r].up = "CONFIRMED")
    BY <1>4, <2>2 DEF BeginRelay
  <2> QED
    BY <2>1, <2>2
<1>6. PICK s : s = RestRelay(b, r)
  OBVIOUS
<1>7. Sound(s, x)
  <2>1. CASE MaySleep(b.con[r])
    <3>1. s = sleep_tcp_relay_connection(b, r)
      BY <1>6, <2>1 DEF RestRelay
    <3> QED
      BY <1>5, <3>1, SleepSound
  <2>2. CASE ~MaySleep(b.con[r])
    BY <1>5, <1>6, <2>2 DEF RestRelay
  <2> QED
    BY <2>1, <2>2
<1>8. \E v \in {l, s, t} : u = WakeRelay(v, r, fails)
  BY <1>2, <1>4, <1>6 DEF DoRelay, AfterPackets
<1> QED
  BY <1>1, <1>3, <1>7, <1>8

\* Every tie to the relays in killed is gone.
Untied(to, up, killed) ==
  /\ up \in [ConnNo -> ConToRecord]
  /\ \A n \in ConnNo : /\ up[n].status = to[n].status /\ up[n].pk = to[n].pk
                       /\ to[n].status = "NONE" => up[n] = to[n]
                       /\ \A r \in killed : up[n].ties[r] = NoTie
                       /\ \A r \in TcpNode \ killed : up[n].ties[r] = to[n].ties[r]

LEMMA TiesDropped ==
  ASSUME NEW to \in [ConnNo -> ConToRecord], KeysSound(to), NEW killed, killed \subseteq TcpNode,
         NEW up, up = [n \in ConnNo |-> [to[n] EXCEPT !.ties = [r \in TcpNode |-> IF r \in killed THEN NoTie ELSE @[r]]]]
  PROVE  Untied(to, up, killed)
<1>1. ASSUME NEW n \in ConnNo
      PROVE  /\ up[n] \in ConToRecord /\ up[n].status = to[n].status /\ up[n].pk = to[n].pk
             /\ to[n].status = "NONE" => up[n] = to[n]
             /\ \A r \in killed : up[n].ties[r] = NoTie
             /\ \A r \in TcpNode \ killed : up[n].ties[r] = to[n].ties[r]
  <2>1. PICK e : e = to[n]
    OBVIOUS
  <2>2. PICK ties : ties = [r \in TcpNode |-> IF r \in killed THEN NoTie ELSE e.ties[r]]
    OBVIOUS
  <2>3. e \in ConToRecord /\ (e.status = "NONE" => e = NoConTo)
    BY <2>1 DEF KeysSound
  <2>4. ties \in [TcpNode -> TieRecord]
    BY <2>2, <2>3, BlankRecords DEF ConToRecord
  <2>5. up[n] = [e EXCEPT !.ties = ties]
    BY <2>1, <2>2
  <2>6. up[n] \in ConToRecord /\ up[n].status = e.status /\ up[n].pk = e.pk /\ up[n].ties = ties
    BY <2>3, <2>4, <2>5 DEF ConToRecord
  <2>7. ASSUME e.status = "NONE" PROVE up[n] = e
    <3>1. \A r \in TcpNode : e.ties[r] = NoTie
      BY <2>3, <2>7, BlankRecords
    <3>2. ties = e.ties
      BY <2>2, <2>3, <3>1 DEF ConToRecord
    <3> QED
      BY <2>3, <2>5, <3>2 DEF ConToRecord
  <2> QED
    BY <2>1, <2>2, <2>6, <2>7
<1> QED
  BY <1>1 DEF Untied

LEMMA NonusedKilledSound ==
  ASSUME NEW t, NEW x \in BOOLEAN, Sound(t, x), NEW killed, killed \subseteq TcpNode,
         \A r \in killed : ~t.con[r].onion, NEW up, Untied(t.to, up, killed),
         NEW con \in [TcpNode -> ConRecord],
         \A r \in killed : con[r] = NoCon, \A r \in TcpNode \ killed : con[r] = t.con[r],
         NEW u, u = [t EXCEPT !.to = up, !.con = con]
  PROVE  Sound(u, x)
<1>1. PICK to : to = t.to
  OBVIOUS
<1>2. t \in TcRecord /\ KeysSound(to) /\ OnionSound(t) /\ \A r \in TcpNode : t.con[r] \in ConRecord
  BY <1>1 DEF Sound, TcRecord
<1>3. /\ up \in [ConnNo -> ConToRecord]
      /\ \A n \in ConnNo : /\ up[n].status = to[n].status /\ up[n].pk = to[n].pk
                           /\ to[n].status = "NONE" => up[n] = to[n]
                           /\ \A r \in killed : up[n].ties[r] = NoTie
                           /\ \A r \in TcpNode \ killed : up[n].ties[r] = to[n].ties[r]
  BY <1>1 DEF Untied
<1>4. u \in TcRecord /\ u.to = up /\ u.con = con /\ u.onion = t.onion /\ u.num = t.num
  BY <1>2, <1>3 DEF TcRecord
<1>5. KeysSound(up)
  BY <1>2, <1>3 DEF KeysSound
<1>6. OnionSound(u)
  <2>1. ASSUME NEW s \in TcpNode PROVE u.con[s].onion = t.con[s].onion
    <3>1. CASE s \in killed
      <4>1. u.con[s] = NoCon /\ t.con[s].onion \in BOOLEAN /\ ~t.con[s].onion
        BY <1>2, <1>4, <3>1 DEF ConRecord
      <4> QED
        BY <4>1, BlankRecords
    <3>2. CASE s \notin killed
      BY <1>4, <3>2
    <3> QED
      BY <3>1, <3>2
  <2> QED
    BY <1>2, <1>4, <2>1, OnionKept
<1>7. ASSUME NEW r \in TcpNode PROVE IdleSound(up, con[r], r) /\ (x => Exact(up, con[r], r))
  <2>1. CASE r \in killed
    <3>1. con[r] = NoCon /\ \A n \in ConnNo : up[n].ties[r].status = "UNTIED"
      BY <1>3, <2>1, BlankRecords
    <3>2. PICK c : c = con[r]
      OBVIOUS
    <3>3. IdleSound(up, c, r) /\ c.status # "CONNECTED"
      BY <3>1, <3>2, BlankRecords DEF IdleSound
    <3> QED
      BY <3>2, <3>3, IdleExact
  <2>2. CASE r \notin killed
    <3>1. con[r] = t.con[r] /\ \A n \in ConnNo : up[n].ties[r] = to[n].ties[r] /\ up[n].pk = to[n].pk
      BY <1>3, <2>2
    <3>2. PICK c : c = t.con[r]
      OBVIOUS
    <3>3. IdleSound(to, c, r) /\ (x => Exact(to, c, r))
      BY <1>1, <3>2 DEF Sound
    <3>4. IdleSound(up, c, r)
      BY <3>1, <3>3, IdleElsewhere
    <3>5. x => Exact(up, c, r)
      BY <3>1, <3>3, ExactElsewhere
    <3> QED
      BY <3>1, <3>2, <3>4, <3>5
  <2> QED
    BY <2>1, <2>2
<1> QED
  BY <1>4, <1>5, <1>6, <1>7 DEF Sound

\* The step from t to u keeps what the invariant looks at.
Flagged(t, u) ==
  /\ u \in TcRecord /\ u.onion = t.onion /\ u.num = t.num
  /\ \A r \in TcpNode : /\ u.con[r].slots = t.con[r].slots /\ u.con[r].in = t.con[r].in
                        /\ u.con[r].out = t.con[r].out /\ u.con[r].lock = t.con[r].lock
                        /\ u.con[r].onion = t.con[r].onion /\ u.con[r].status = t.con[r].status
  /\ \A n \in ConnNo : /\ u.to[n].pk = t.to[n].pk /\ u.to[n].ties = t.to[n].ties
                       /\ u.to[n] = t.to[n] \/ (t.to[n].status # "NONE" /\ u.to[n].status # "NONE")

LEMMA FlaggedSound ==
  ASSUME NEW t, NEW x \in BOOLEAN, Sound(t, x), NEW u, Flagged(t, u)
  PROVE  Sound(u, x)
<1>1. PICK to : to = t.to
  OBVIOUS
<1>2. PICK up : up = u.to
  OBVIOUS
<1>3. t \in TcRecord /\ KeysSound(to) /\ OnionSound(t)
  BY <1>1 DEF Sound
<1>4. \A n \in ConnNo : /\ up[n].pk = to[n].pk /\ up[n].ties = to[n].ties
                        /\ up[n] = to[n] \/ (to[n].status # "NONE" /\ up[n].status # "NONE")
  BY <1>1, <1>2 DEF Flagged
<1>5. KeysSound(up)
  BY <1>3, <1>4 DEF KeysSound
<1>6. OnionSound(u)
  BY <1>3, OnionKept DEF Flagged
<1>7. ASSUME NEW r \in TcpNode PROVE IdleSound(up, u.con[r], r) /\ (x => Exact(up, u.con[r], r))
  <2>1. PICK c : c = t.con[r]
    OBVIOUS
  <2>2. PICK d : d = u.con[r]
    OBVIOUS
  <2>3. /\ d.slots = c.slots /\ d.in = c.in /\ d.out = c.out /\ d.lock = c.lock /\ d.onion = c.onion
        /\ d.status = c.status
    BY <2>1, <2>2 DEF Flagged
  <2>4. \A n \in ConnNo : up[n].ties[r] = to[n].ties[r] /\ up[n].pk = to[n].pk
    BY <1>4
  <2>5. IdleSound(to, c, r) /\ (x => Exact(to, c, r))
    BY <1>1, <2>1 DEF Sound
  <2>6. IdleSound(up, c, r) /\ (x => Exact(up, c, r))
    BY <2>4, <2>5, IdleElsewhere, ExactElsewhere
  <2>7. IdleSound(up, d, r)
    BY <2>3, <2>6 DEF IdleSound
  <2>8. x => Exact(up, d, r)
    BY <2>3, <2>6, ExactOfParts
  <2> QED
    BY <2>2, <2>7, <2>8
<1> QED
  BY <1>2, <1>5, <1>6, <1>7 DEF Sound, Flagged

-----------------------------------------------------------------------------
(* The calls of the layers above.                                          *)

\* There is a free place for a peer without a connection.
LEMMA RoomForNew ==
  ASSUME NEW to \in [ConnNo -> ConToRecord], KeysSound(to), NEW pk \in TcpPeer,
         \A n \in ConnNo : to[n].status # "NONE" => to[n].pk # pk
  PROVE  \E n \in ConnNo : to[n].status = "NONE"
<1> SUFFICES ASSUME \A n \in ConnNo : to[n].status # "NONE"
             PROVE  FALSE
  OBVIOUS
<1>1. PICK T : T = TcpPeer \ {pk}
  OBVIOUS
<1>2. PICK f : f = [n \in ConnNo |-> to[n].pk]
  OBVIOUS
<1>3. \A n \in ConnNo : to[n].pk \in T /\ to[n].pk # NoPeer
  BY <1>1 DEF KeysSound, ConToRecord, AnyKey
<1>4. f \in [ConnNo -> T]
  BY <1>2, <1>3
<1>5. \A m, n \in ConnNo : f[m] = f[n] => m = n
  BY <1>2, <1>3 DEF KeysSound
<1>6. f \in Injection(ConnNo, T)
  BY <1>4, <1>5, Fun_IsInj
<1>7. IsFiniteSet(T) /\ Cardinality(T) = Cardinality(TcpPeer) - 1
  BY <1>1, TcpConstants, FS_RemoveElement
<1>8. Cardinality(ConnNo) <= Cardinality(T)
  BY <1>6, <1>7, FS_Injection
<1> QED
  BY <1>7, <1>8, TcpConstants

\* The least number of a set.
LEMMA LeastOf ==
  ASSUME NEW S, S \subseteq Nat, S # {}
  PROVE  Min(S) \in S /\ \A y \in S : Min(S) <= y
<1>1. PICK x \in S : \A y \in S : ~ (<<y, x>> \in OpToRel(<, Nat))
  BY NatLessThanWellFounded, WFMin
<1>2. \A y \in S : ~ (y < x)
  BY <1>1 DEF OpToRel
<1>3. \A y \in S : x <= y
  BY <1>2
<1> QED
  BY <1>3 DEF Min

LEMMA NewToSound ==
  ASSUME NEW t, NEW x \in BOOLEAN, Sound(t, x), NEW pk \in TcpPeer, find_tcp_connection_to(t, pk) = {},
         NEW n, n = Min({m \in ConnNo : t.to[m].status = "NONE"}),
         NEW e, e = [NoConTo EXCEPT !.status = "VALID", !.pk = pk],
         NEW u, u = [t EXCEPT !.to[n] = e]
  PROVE  Sound(u, x) /\ Calm(t, u)
<1>1. PICK to : to = t.to
  OBVIOUS
<1>2. t \in TcRecord /\ KeysSound(to) /\ OnionSound(t) /\ to \in [ConnNo -> ConToRecord] /\ pk # NoPeer
  BY <1>1, TcpConstants DEF Sound, TcRecord
<1>3. \A m \in ConnNo : to[m].status # "NONE" => to[m].pk # pk
  BY <1>1 DEF find_tcp_connection_to, IsConn
<1>4. n \in ConnNo /\ to[n].status = "NONE"
  <2>1. PICK free : free = {m \in ConnNo : to[m].status = "NONE"}
    OBVIOUS
  <2>2. free # {} /\ free \subseteq Nat
    BY <1>2, <1>3, <2>1, RoomForNew, TcpConstants
  <2>3. Min(free) \in free
    BY <2>2, LeastOf
  <2> QED
    BY <1>1, <2>1, <2>3
<1>5. to[n] = NoConTo
  BY <1>2, <1>4 DEF KeysSound
<1>6. /\ e \in ConToRecord /\ e.status = "VALID" /\ e.pk = pk /\ e.ties = NoConTo.ties
      /\ \A r \in TcpNode : e.ties[r] = NoTie
  BY BlankRecords DEF ConToRecord, AnyKey
<1>7. PICK up : up = [to EXCEPT ![n] = e]
  OBVIOUS
<1>8. up \in [ConnNo -> ConToRecord] /\ up[n] = e /\ \A m \in ConnNo : m # n => up[m] = to[m]
  BY <1>2, <1>4, <1>6, <1>7
<1>9. u \in TcRecord /\ u.to = up /\ u.con = t.con /\ u.onion = t.onion /\ u.num = t.num
  <2>1. u = [t EXCEPT !.to = up]
    BY <1>1, <1>2, <1>7 DEF TcRecord
  <2> QED
    BY <1>2, <1>8, <2>1 DEF TcRecord
<1>10. KeysSound(up)
  <2>1. ASSUME NEW m \in ConnNo, m # n PROVE up[m].pk # pk
    <3>1. to[m].status = "NONE" => to[m].pk = NoPeer
      BY <1>2, BlankRecords DEF KeysSound
    <3> QED
      BY <1>2, <1>3, <1>8, <2>1, <3>1
  <2>2. ASSUME NEW m \in ConnNo
        PROVE  /\ up[m].status = "NONE" => up[m] = NoConTo
               /\ up[m].status # "NONE" => up[m].pk # NoPeer
    BY <1>2, <1>6, <1>8 DEF KeysSound
  <2>3. ASSUME NEW m \in ConnNo, NEW l \in ConnNo, up[l].pk = up[m].pk
        PROVE  l = m \/ up[m].pk = NoPeer
    <3>1. CASE m = n \/ l = n
      BY <1>6, <1>8, <2>1, <2>3, <3>1
    <3>2. CASE m # n /\ l # n
      BY <1>2, <1>8, <2>3, <3>2 DEF KeysSound
    <3> QED
      BY <3>1, <3>2
  <2> QED
    BY <2>2, <2>3 DEF KeysSound
<1>11. OnionSound(u)
  BY <1>2, <1>9, OnionKept
<1>12. ASSUME NEW r \in TcpNode PROVE IdleSound(up, t.con[r], r) /\ (x => Exact(up, t.con[r], r))
  <2>1. PICK c : c = t.con[r]
    OBVIOUS
  <2>2. \A m \in ConnNo : \/ up[m].ties[r] = to[m].ties[r] /\ up[m].pk = to[m].pk
                          \/ up[m].ties[r].status = "UNTIED" /\ to[m].ties[r].status = "UNTIED"
    <3>1. to[n].ties[r].status = "UNTIED" /\ up[n].ties[r].status = "UNTIED"
      BY <1>5, <1>6, <1>8, BlankRecords
    <3> QED
      BY <1>8, <3>1
  <2>3. IdleSound(to, c, r) /\ (x => Exact(to, c, r))
    BY <1>1, <2>1 DEF Sound
  <2>4. \A m \in ConnNo : up[m].ties[r] = to[m].ties[r] \/ up[m].ties[r].status = "UNTIED"
    BY <2>2
  <2>5. IdleSound(up, c, r)
    BY <2>3, <2>4, IdleElsewhere
  <2>6. x => Exact(up, c, r)
    BY <2>2, <2>3, ExactElsewhere
  <2> QED
    BY <2>1, <2>5, <2>6
<1>13. Sound(u, x)
  BY <1>9, <1>10, <1>11, <1>12 DEF Sound
<1>14. Calm(t, u)
  BY <1>9 DEF Calm
<1> QED
  BY <1>13, <1>14

\* kill_tcp_connection_to: a slot that is freed.
LEMMA SlotIsFreed ==
  ASSUME NEW old \in SlotRecord, NEW slot, slot = [old EXCEPT !.status = 0, !.number = 0]
  PROVE  slot \in SlotRecord /\ slot.status = 0
<1>1. slot = [status |-> 0, pk |-> old.pk, number |-> 0]
  BY DEF SlotRecord
<1> QED
  BY <1>1 DEF SlotRecord

\* What a connection that is killed leaves behind at one of its relays.
LEMMA UntieIs ==
  ASSUME NEW c \in ConRecord, NEW e \in ConToRecord, NEW tie \in TieRecord, NEW d, d = UntieKilled(c, e, tie)
  PROVE  /\ d \in ConRecord /\ d.status = c.status /\ d.onion = c.onion /\ d.in = c.in
         /\ d.lock = c.lock - (IF tie.status = "ONLINE" THEN 1 ELSE 0)
         /\ c.status # "CONNECTED" => d.out = c.out /\ d.slots = c.slots
         /\ c.status = "CONNECTED" => /\ d.out = Append(c.out, [type |-> "disconnect", id |-> tie.id])
                                      /\ d.slots[tie.id].status = 0
                                      /\ \A i \in SlotId : i # tie.id => d.slots[i] = c.slots[i]
<1>1. PICK id : id = tie.id
  OBVIOUS
<1>2. id \in SlotId
  BY <1>1 DEF TieRecord
<1>3. PICK p : p = [type |-> "disconnect", id |-> id]
  OBVIOUS
<1>4. p \in OutPacket
  BY <1>2, <1>3 DEF OutPacket
<1>5. PICK out : out = Append(c.out, p)
  OBVIOUS
<1>6. out \in Seq(OutPacket)
  BY <1>4, <1>5 DEF ConRecord
<1>7. PICK slot : slot = [c.slots[id] EXCEPT !.status = 0, !.number = 0]
  OBVIOUS
<1>8. slot \in SlotRecord /\ slot.status = 0
  <2>1. PICK old \in SlotRecord : old = c.slots[id]
    BY <1>2 DEF ConRecord
  <2>2. slot = [old EXCEPT !.status = 0, !.number = 0]
    BY <1>7, <2>1
  <2> QED
    BY <2>2, SlotIsFreed
<1>9. PICK slots : slots = [c.slots EXCEPT ![id] = slot]
  OBVIOUS
<1>10. slots \in [SlotId -> SlotRecord] /\ slots[id].status = 0 /\ \A i \in SlotId : i # id => slots[i] = c.slots[i]
  BY <1>2, <1>8, <1>9 DEF ConRecord
<1>11. PICK freed : freed = [c EXCEPT !.out = out, !.slots = slots]
  OBVIOUS
<1>12. freed \in ConRecord /\ freed.out = out /\ freed.slots = slots /\ freed.status = c.status
       /\ freed.onion = c.onion /\ freed.in = c.in /\ freed.lock = c.lock /\ freed.sleep = c.sleep
  BY <1>6, <1>10, <1>11 DEF ConRecord
<1>13. send_disconnect_request(c, id) = freed
  <2>1. send_disconnect_request(c, id)
          = [c EXCEPT !.out = Append(@, p), !.slots[id] = [@ EXCEPT !.status = 0, !.number = 0]]
    BY <1>3, Zenon DEF send_disconnect_request
  <2>2. [c EXCEPT !.out = Append(@, p), !.slots[id] = [@ EXCEPT !.status = 0, !.number = 0]]
          = [c EXCEPT !.out = out, !.slots = slots]
    BY <1>2, <1>5, <1>7, <1>9 DEF ConRecord
  <2> QED
    BY <1>11, <2>1, <2>2
<1>14. PICK told : told = IF c.status = "CONNECTED" THEN freed ELSE c
  OBVIOUS
<1>15. PICK online : online = IF tie.status = "ONLINE" THEN 1 ELSE 0
  OBVIOUS
<1>16. PICK asleep : asleep = IF e.status = "SLEEPING" THEN online ELSE 0
  OBVIOUS
<1>17. d = [told EXCEPT !.lock = @ - online, !.sleep = @ - asleep]
  BY <1>1, <1>13, <1>14, <1>15, <1>16, Zenon DEF UntieKilled
<1>18. told \in ConRecord /\ told.lock = c.lock /\ told.status = c.status /\ told.onion = c.onion /\ told.in = c.in
  BY <1>12, <1>14
<1>19. online \in Int /\ asleep \in Int
  BY <1>15, <1>16
<1>20. PICK lock \in Int : lock = told.lock - online
  BY <1>18, <1>19 DEF ConRecord
<1>21. PICK sleep \in Int : sleep = told.sleep - asleep
  BY <1>18, <1>19 DEF ConRecord
<1>22. d = [told EXCEPT !.lock = lock, !.sleep = sleep]
  BY <1>17, <1>18, <1>20, <1>21 DEF ConRecord
<1>23. /\ d \in ConRecord /\ d.lock = lock /\ d.status = told.status /\ d.onion = told.onion /\ d.in = told.in
       /\ d.out = told.out /\ d.slots = told.slots
  BY <1>18, <1>22 DEF ConRecord
<1>24. d.lock = c.lock - (IF tie.status = "ONLINE" THEN 1 ELSE 0)
  BY <1>15, <1>18, <1>20, <1>23
<1>25. ASSUME c.status # "CONNECTED" PROVE d.out = c.out /\ d.slots = c.slots
  BY <1>14, <1>23, <1>25
<1>26. ASSUME c.status = "CONNECTED"
       PROVE  /\ d.out = Append(c.out, [type |-> "disconnect", id |-> tie.id])
              /\ d.slots[tie.id].status = 0
              /\ \A i \in SlotId : i # tie.id => d.slots[i] = c.slots[i]
  <2>1. d.out = out /\ d.slots = slots
    BY <1>12, <1>14, <1>23, <1>26
  <2> QED
    BY <1>1, <1>3, <1>5, <1>10, <2>1
<1> QED
  BY <1>18, <1>23, <1>24, <1>25, <1>26

\* A relay stays exact when its tie to the killed connection was in use.
LEMMA ExactUntied ==
  ASSUME NEW r \in TcpNode, NEW to, NEW c \in ConRecord, Exact(to, c, r), NEW n \in ConnNo,
         NEW id \in SlotId, id = to[n].ties[r].id, to[n].ties[r].status \in {"REGISTERED", "ONLINE"},
         NEW up, up[n].ties[r].status = "UNTIED", \A m \in ConnNo : m # n => up[m] = to[m],
         \A m \in ConnNo : to[m].ties[r].id \in SlotId, ~Pending(c, to[n].pk),
         NEW d, d.in = c.in, d.out = Append(c.out, [type |-> "disconnect", id |-> id]),
         d.lock = c.lock - (IF to[n].ties[r].status = "ONLINE" THEN 1 ELSE 0),
         d.slots[id].status = 0, \A i \in SlotId : i # id => d.slots[i] = c.slots[i]
  PROVE  Exact(up, d, r)
<1>1. SlotsSound(to, c, r) /\ RequestsSound(to, c, r) /\ c.lock = Cardinality(OnlineAt(to, r))
  BY DEF Exact
<1>2. c.slots[id].number = n
  BY <1>1 DEF SlotsSound
<1>3. SlotsSound(up, d, r)
  <2>1. ASSUME NEW i \in SlotId, d.slots[i].status # 0
        PROVE  /\ d.slots[i].number \in ConnNo
               /\ up[d.slots[i].number].pk = d.slots[i].pk
               /\ up[d.slots[i].number].ties[r] = [status |-> InUseStatus(d.slots[i].status), id |-> i]
    <3>1. PICK slot : slot = c.slots[i]
      OBVIOUS
    <3>2. PICK m : m = slot.number
      OBVIOUS
    <3>3. d.slots[i] = slot /\ slot.status # 0 /\ i # id
      BY <2>1, <3>1
    <3>4. /\ m \in ConnNo /\ to[m].pk = slot.pk
          /\ to[m].ties[r] = [status |-> InUseStatus(slot.status), id |-> i]
      <4>1. \A j \in SlotId : c.slots[j].status # 0 =>
              /\ c.slots[j].number \in ConnNo
              /\ to[c.slots[j].number].pk = c.slots[j].pk
              /\ to[c.slots[j].number].ties[r] = [status |-> InUseStatus(c.slots[j].status), id |-> j]
        BY <1>1, Zenon DEF SlotsSound
      <4> QED
        BY <3>1, <3>2, <3>3, <4>1, Zenon
    <3>5. to[m].ties[r].id = i
      BY <3>4
    <3>6. m # n
      BY <3>3, <3>5
    <3> QED
      BY <3>2, <3>3, <3>4, <3>6
  <2>2. ASSUME NEW m \in ConnNo, up[m].ties[r].status \in {"REGISTERED", "ONLINE"}
        PROVE  d.slots[up[m].ties[r].id].status # 0 /\ d.slots[up[m].ties[r].id].number = m
    <3>1. m # n
      BY <2>2
    <3>2. PICK i : i = to[m].ties[r].id
      OBVIOUS
    <3>3. up[m] = to[m] /\ i \in SlotId /\ c.slots[i].status # 0 /\ c.slots[i].number = m
      BY <1>1, <2>2, <3>1, <3>2 DEF SlotsSound
    <3>4. i # id
      BY <1>2, <3>1, <3>3
    <3> QED
      BY <3>2, <3>3, <3>4
  <2> QED
    BY <2>1, <2>2 DEF SlotsSound
<1>4. RequestsSound(up, c, r)
  <2>1. /\ \A m \in ConnNo : up[m].pk = to[m].pk \/ to[m].ties[r].status # "NONE"
        /\ \A m \in ConnNo : m # n => up[m].ties[r] = to[m].ties[r]
    OBVIOUS
  <2> QED
    BY <1>1, <2>1, RequestsKept
<1>5. RequestsSound(up, d, r)
  <2>1. PICK p : p = [type |-> "disconnect", id |-> id]
    OBVIOUS
  <2>2. p \in OutPacket /\ ~Request(p)
    BY <2>1 DEF OutPacket, Request
  <2>3. c.in \in Seq(InPacket) /\ c.out \in Seq(OutPacket)
    BY DEF ConRecord
  <2>4. d.out = Append(c.out, p) /\ d.in = c.in
    BY <2>1
  <2> QED
    BY <1>4, <2>2, <2>3, <2>4, PacketAppended
<1>6. d.lock = Cardinality(OnlineAt(up, r))
  <2>1. PICK A : A = OnlineAt(to, r)
    OBVIOUS
  <2>2. IsFiniteSet(A) /\ Cardinality(A) \in Nat
    BY <2>1, TcpConstants, FS_Subset, FS_CardinalityType DEF OnlineAt
  <2>3. OnlineAt(up, r) = A \ {n} /\ (n \in A <=> to[n].ties[r].status = "ONLINE")
    BY <2>1 DEF OnlineAt
  <2>4. Cardinality(A \ {n}) = IF n \in A THEN Cardinality(A) - 1 ELSE Cardinality(A)
    BY <2>2, FS_RemoveElement
  <2>5. CASE to[n].ties[r].status = "ONLINE"
    <3>1. d.lock = c.lock - 1
      BY <2>5
    <3> QED
      BY <1>1, <2>1, <2>2, <2>3, <2>4, <2>5, <3>1
  <2>6. CASE to[n].ties[r].status # "ONLINE"
    <3>1. d.lock = c.lock - 0
      BY <2>6
    <3> QED
      BY <1>1, <2>1, <2>2, <2>3, <2>4, <2>6, <3>1
  <2> QED
    BY <2>5, <2>6
<1> QED
  BY <1>3, <1>5, <1>6 DEF Exact

LEMMA KillToSound ==
  ASSUME NEW t, NEW x \in BOOLEAN, Sound(t, x), NEW n \in ConnNo, NEW y \in BOOLEAN, y => x,
         y => \A r \in TcpNode : ~(t.con[r].status = "CONNECTED" /\ t.to[n].ties[r].status = "NONE"),
         NEW con, con = [r \in TcpNode |-> IF Tied(t, n, r) THEN UntieKilled(t.con[r], t.to[n], t.to[n].ties[r])
                                           ELSE t.con[r]],
         NEW u, u = [t EXCEPT !.to[n] = NoConTo, !.con = con]
  PROVE  Sound(u, y) /\ Calm(t, u)
<1>1. PICK to : to = t.to
  OBVIOUS
<1>2. t \in TcRecord /\ KeysSound(to) /\ OnionSound(t) /\ to \in [ConnNo -> ConToRecord]
  BY <1>1 DEF Sound, TcRecord
<1>3. PICK up : up = [to EXCEPT ![n] = NoConTo]
  OBVIOUS
<1>4. up \in [ConnNo -> ConToRecord] /\ up[n] = NoConTo /\ \A m \in ConnNo : m # n => up[m] = to[m]
  BY <1>2, <1>3, BlankRecords
<1>5. KeysSound(up)
  BY <1>2, <1>4, BlankRecords DEF KeysSound
<1>6. ASSUME NEW r \in TcpNode
      PROVE  /\ con[r] \in ConRecord /\ con[r].onion = t.con[r].onion /\ con[r].status = t.con[r].status
             /\ IdleSound(up, con[r], r) /\ (y => Exact(up, con[r], r))
  <2>1. PICK c \in ConRecord : c = t.con[r]
    BY <1>2 DEF TcRecord
  <2>2. PICK tie : tie = to[n].ties[r]
    OBVIOUS
  <2>3. tie \in TieRecord /\ to[n] \in ConToRecord /\ up[n].ties[r].status = "UNTIED"
    BY <1>2, <1>4, <2>2, BlankRecords DEF ConToRecord
  <2>4. IdleSound(to, c, r) /\ (y => Exact(to, c, r))
    BY <1>1, <2>1 DEF Sound
  <2>5. PICK d : d = con[r]
    OBVIOUS
  <2>6. \A m \in ConnNo : up[m].ties[r] = to[m].ties[r] \/ up[m].ties[r].status = "UNTIED"
    BY <1>4, <2>3
  <2>7. IdleSound(up, c, r)
    BY <2>4, <2>6, IdleElsewhere
  <2>8. CASE tie.status = "UNTIED"
    <3>1. d = c
      BY <1>1, <2>1, <2>2, <2>5, <2>8 DEF Tied
    <3>2. \A m \in ConnNo : \/ up[m].ties[r] = to[m].ties[r] /\ up[m].pk = to[m].pk
                            \/ up[m].ties[r].status = "UNTIED" /\ to[m].ties[r].status = "UNTIED"
      BY <1>4, <2>2, <2>3, <2>8
    <3>3. y => Exact(up, c, r)
      BY <2>4, <3>2, ExactElsewhere
    <3> QED
      BY <2>1, <2>5, <2>7, <3>1, <3>3
  <2>9. CASE tie.status # "UNTIED"
    <3>1. d = UntieKilled(c, to[n], tie)
      BY <1>1, <2>1, <2>2, <2>5, <2>9, Zenon DEF Tied
    <3>2. /\ d \in ConRecord /\ d.status = c.status /\ d.onion = c.onion /\ d.in = c.in
          /\ d.lock = c.lock - (IF tie.status = "ONLINE" THEN 1 ELSE 0)
          /\ c.status # "CONNECTED" => d.out = c.out /\ d.slots = c.slots
          /\ c.status = "CONNECTED" => /\ d.out = Append(c.out, [type |-> "disconnect", id |-> tie.id])
                                       /\ d.slots[tie.id].status = 0
                                       /\ \A i \in SlotId : i # tie.id => d.slots[i] = c.slots[i]
      BY <2>3, <3>1, UntieIs
    <3>3. CASE c.status # "CONNECTED"
      <4>1. tie.status # "ONLINE"
        BY <2>2, <2>4, <3>3 DEF IdleSound
      <4>2. c.lock \in Int
        BY DEF ConRecord
      <4>3. d.lock = c.lock
        BY <3>2, <4>1, <4>2
      <4>4. IdleSound(up, d, r)
        BY <2>7, <3>2, <3>3, <4>3 DEF IdleSound
      <4>5. Exact(up, d, r)
        BY <3>2, <3>3, <4>4, IdleExact
      <4> QED
        BY <2>1, <2>5, <3>2, <4>4, <4>5
    <3>4. CASE c.status = "CONNECTED"
      <4>1. IdleSound(up, d, r)
        BY <3>2, <3>4 DEF IdleSound
      <4>2. ASSUME y PROVE Exact(up, d, r)
        <5>1. tie.status \in {"REGISTERED", "ONLINE"}
          BY <1>1, <2>1, <2>2, <2>3, <2>9, <3>4, <4>2 DEF TieRecord, TieStatus
        <5>2. PICK id : id = tie.id
          OBVIOUS
        <5>3. id \in SlotId /\ \A m \in ConnNo : to[m].ties[r].id \in SlotId
          BY <1>2, <2>3, <5>2 DEF TieRecord, ConToRecord
        <5>4. Exact(to, c, r)
          BY <2>4, <4>2
        <5>5. ~Pending(t.con[r], t.to[n].pk)
          <6>1. RequestsSound(t.to, t.con[r], r)
            BY <1>1, <2>1, <5>4 DEF Exact
          <6>2. t.to[n].ties[r].status # "NONE"
            BY <1>1, <2>2, <5>1
          <6> QED
            BY <1>1, <1>2, <6>1, <6>2, NotPending
        <5>6. ~Pending(c, to[n].pk)
          BY <1>1, <2>1, <5>5
        <5>7. /\ d.in = c.in /\ d.out = Append(c.out, [type |-> "disconnect", id |-> id])
              /\ d.lock = c.lock - (IF to[n].ties[r].status = "ONLINE" THEN 1 ELSE 0)
              /\ d.slots[id].status = 0 /\ \A i \in SlotId : i # id => d.slots[i] = c.slots[i]
          BY <2>2, <3>2, <3>4, <5>2
        <5> QED
          BY <1>4, <2>2, <2>3, <5>1, <5>2, <5>3, <5>4, <5>6, <5>7, ExactUntied
      <4> QED
        BY <2>1, <2>5, <3>2, <4>1, <4>2
    <3> QED
      BY <3>3, <3>4
  <2> QED
    BY <2>8, <2>9
<1>7. con \in [TcpNode -> ConRecord]
  BY <1>6
<1>8. u \in TcRecord /\ u.to = up /\ u.con = con /\ u.onion = t.onion /\ u.num = t.num
  <2>1. u = [t EXCEPT !.to = up, !.con = con]
    BY <1>1, <1>2, <1>3 DEF TcRecord
  <2> QED
    BY <1>2, <1>4, <1>7, <2>1 DEF TcRecord
<1>9. OnionSound(u)
  <2>1. \A s \in TcpNode : u.con[s].onion = t.con[s].onion
    BY <1>6, <1>8
  <2> QED
    BY <1>2, <1>8, <2>1, OnionKept
<1>10. Sound(u, y)
  BY <1>5, <1>6, <1>8, <1>9 DEF Sound
<1>11. Calm(t, u)
  BY <1>6, <1>8 DEF Calm
<1> QED
  BY <1>10, <1>11

\* Relays and ties that change in flags and counts only.
SameParts(c, d) ==
  /\ d.slots = c.slots /\ d.in = c.in /\ d.out = c.out /\ d.lock = c.lock
  /\ d.onion = c.onion /\ d.status = c.status

LEMMA PartsKept ==
  ASSUME NEW c \in ConRecord
  PROVE  /\ \A d : \A b \in BOOLEAN : d = [c EXCEPT !.unsleep = b] \/ d = [c EXCEPT !.fresh = b]
                                         => d \in ConRecord /\ SameParts(c, d)
         /\ \A d : \A k \in Int : d = [c EXCEPT !.sleep = k] => d \in ConRecord /\ SameParts(c, d)
         /\ \A d : \A up \in {"DISCONNECTED", "CONNECTING", "CONFIRMED"} :
              d = [c EXCEPT !.up = up] => d \in ConRecord /\ SameParts(c, d)
         /\ SameParts(c, c)
<1>1. ASSUME NEW b \in BOOLEAN, NEW d, d = [c EXCEPT !.unsleep = b] PROVE d \in ConRecord /\ SameParts(c, d)
  BY <1>1 DEF ConRecord, SameParts
<1>2. ASSUME NEW b \in BOOLEAN, NEW d, d = [c EXCEPT !.fresh = b] PROVE d \in ConRecord /\ SameParts(c, d)
  BY <1>2 DEF ConRecord, SameParts
<1>3. ASSUME NEW k \in Int, NEW d, d = [c EXCEPT !.sleep = k] PROVE d \in ConRecord /\ SameParts(c, d)
  BY <1>3 DEF ConRecord, SameParts
<1>4. ASSUME NEW up \in {"DISCONNECTED", "CONNECTING", "CONFIRMED"}, NEW d, d = [c EXCEPT !.up = up]
      PROVE  d \in ConRecord /\ SameParts(c, d)
  BY <1>4 DEF ConRecord, SameParts
<1>5. SameParts(c, c)
  BY DEF SameParts
<1> QED
  BY <1>1, <1>2, <1>3, <1>4, <1>5

SameTies(to, up) ==
  /\ up \in [ConnNo -> ConToRecord]
  /\ \A n \in ConnNo : /\ up[n].pk = to[n].pk /\ up[n].ties = to[n].ties
                       /\ up[n] = to[n] \/ (to[n].status # "NONE" /\ up[n].status # "NONE")

SameRelays(old, con) ==
  con \in [TcpNode -> ConRecord] /\ \A r \in TcpNode : SameParts(old[r], con[r])

LEMMA FlagsSet ==
  ASSUME NEW t, NEW x \in BOOLEAN, Sound(t, x), NEW u, u \in TcRecord, u.onion = t.onion, u.num = t.num,
         SameTies(t.to, u.to), SameRelays(t.con, u.con)
  PROVE  Sound(u, x) /\ Calm(t, u)
<1>1. Flagged(t, u)
  BY DEF Flagged, SameParts, SameTies, SameRelays
<1>2. Sound(u, x)
  BY <1>1, FlaggedSound
<1>3. Calm(t, u)
  BY <1>1 DEF Flagged, Calm
<1> QED
  BY <1>2, <1>3

LEMMA OneFlagSet ==
  ASSUME NEW t, NEW x \in BOOLEAN, Sound(t, x), NEW r \in TcpNode,
         NEW d \in ConRecord, SameParts(t.con[r], d), NEW u, u = [t EXCEPT !.con[r] = d]
  PROVE  Sound(u, x) /\ Calm(t, u)
<1>1. t \in TcRecord
  BY DEF Sound
<1>2. PICK con : con = [t.con EXCEPT ![r] = d]
  OBVIOUS
<1>3. PICK up : up = t.to
  OBVIOUS
<1>4. up \in [ConnNo -> ConToRecord] /\ con \in [TcpNode -> ConRecord] /\ con[r] = d
      /\ \A s \in TcpNode : s # r => con[s] = t.con[s]
  BY <1>1, <1>2, <1>3 DEF TcRecord
<1>5. SameRelays(t.con, con)
  BY <1>4 DEF SameParts, SameRelays
<1>6. u = [t EXCEPT !.to = up, !.con = con]
  BY <1>1, <1>2, <1>3 DEF TcRecord
<1>7. SameTies(t.to, up)
  BY <1>3, <1>4 DEF SameTies
<1>8. u \in TcRecord /\ u.to = up /\ u.con = con /\ u.onion = t.onion /\ u.num = t.num
  BY <1>1, <1>4, <1>6 DEF TcRecord
<1> QED
  BY <1>5, <1>7, <1>8, FlagsSet, Zenon

\* set_tcp_connection_to_status.
LEMMA StatusChanged ==
  ASSUME NEW t, NEW x \in BOOLEAN, Sound(t, x), NEW n \in ConnNo, t.to[n].status # "NONE",
         NEW status \in {"VALID", "SLEEPING"},
         NEW con, SameRelays(t.con, con),
         NEW u, u = [t EXCEPT !.to[n].status = status, !.con = con]
  PROVE  Sound(u, x) /\ Calm(t, u)
<1>1. t \in TcRecord
  BY DEF Sound
<1>2. PICK to \in [ConnNo -> ConToRecord] : to = t.to
  BY <1>1 DEF TcRecord
<1>3. PICK e : e = [to[n] EXCEPT !.status = status]
  OBVIOUS
<1>4. e \in ConToRecord /\ e.pk = to[n].pk /\ e.ties = to[n].ties /\ e.status = status
  BY <1>3 DEF ConToRecord
<1>5. PICK up : up = [to EXCEPT ![n] = e]
  OBVIOUS
<1>6. up \in [ConnNo -> ConToRecord] /\ up[n] = e /\ \A m \in ConnNo : m # n => up[m] = to[m]
  BY <1>4, <1>5
<1>7. SameTies(t.to, up)
  BY <1>2, <1>4, <1>6 DEF SameTies
<1>8. u = [t EXCEPT !.to = up, !.con = con]
  BY <1>1, <1>2, <1>3, <1>5 DEF TcRecord
<1>9. u \in TcRecord /\ u.to = up /\ u.con = con /\ u.onion = t.onion /\ u.num = t.num
  BY <1>1, <1>6, <1>8 DEF TcRecord, SameRelays
<1> QED
  BY <1>7, <1>9, FlagsSet, Zenon

LEMMA UseSound ==
  ASSUME NEW t, NEW x \in BOOLEAN, Sound(t, x), NEW n \in ConnNo, t.to[n].status # "NONE",
         NEW u, \/ u = [t EXCEPT !.to[n].status = "VALID",
                                 !.con = [r \in TcpNode |->
                                   [t.con[r] EXCEPT !.unsleep = @ \/ (Tied(t, n, r) /\ t.con[r].status = "SLEEPING")]]]
                \/ u = [t EXCEPT !.to[n].status = "SLEEPING",
                                 !.con = [r \in TcpNode |->
                                   [t.con[r] EXCEPT !.sleep = @ + (IF r \in OnlineTies(t.to[n]) THEN 1 ELSE 0)]]]
  PROVE  Sound(u, x) /\ Calm(t, u)
<1>1. \A r \in TcpNode : t.con[r] \in ConRecord
  BY DEF Sound, TcRecord
<1>2. PICK used : used = [r \in TcpNode |-> [t.con[r] EXCEPT !.unsleep = @ \/ (Tied(t, n, r) /\ t.con[r].status = "SLEEPING")]]
  OBVIOUS
<1>3. PICK rest : rest = [r \in TcpNode |-> [t.con[r] EXCEPT !.sleep = @ + (IF r \in OnlineTies(t.to[n]) THEN 1 ELSE 0)]]
  OBVIOUS
<1>4. ASSUME NEW r \in TcpNode PROVE used[r] \in ConRecord /\ SameParts(t.con[r], used[r])
  <2>1. PICK c \in ConRecord : c = t.con[r]
    BY <1>1
  <2>2. PICK b \in BOOLEAN : b = (c.unsleep \/ (Tied(t, n, r) /\ c.status = "SLEEPING"))
    BY Zenon
  <2>3. used[r] = [c EXCEPT !.unsleep = c.unsleep \/ (Tied(t, n, r) /\ c.status = "SLEEPING")]
    BY <1>2, <2>1, Zenon
  <2>4. used[r] = [c EXCEPT !.unsleep = b]
    BY <2>2, <2>3, Zenon
  <2>5. PICK d : d = used[r]
    OBVIOUS
  <2>6. d = [c EXCEPT !.unsleep = b]
    BY <2>4, <2>5, Zenon
  <2>7. d \in ConRecord /\ SameParts(c, d)
    BY <2>6, PartsKept, Zenon
  <2> QED
    BY <2>1, <2>5, <2>7, Zenon
<1>5. ASSUME NEW r \in TcpNode PROVE rest[r] \in ConRecord /\ SameParts(t.con[r], rest[r])
  <2>1. PICK c \in ConRecord : c = t.con[r]
    BY <1>1
  <2>2. PICK k \in Int : k = c.sleep + (IF r \in OnlineTies(t.to[n]) THEN 1 ELSE 0)
    BY DEF ConRecord
  <2>3. rest[r] = [c EXCEPT !.sleep = c.sleep + (IF r \in OnlineTies(t.to[n]) THEN 1 ELSE 0)]
    BY <1>3, <2>1, Zenon
  <2>4. rest[r] = [c EXCEPT !.sleep = k]
    BY <2>2, <2>3
  <2> QED
    BY <2>1, <2>4, PartsKept
<1>6. SameRelays(t.con, used) /\ SameRelays(t.con, rest)
  BY <1>2, <1>3, <1>4, <1>5 DEF SameRelays
<1>7. \/ u = [t EXCEPT !.to[n].status = "VALID", !.con = used]
      \/ u = [t EXCEPT !.to[n].status = "SLEEPING", !.con = rest]
  BY <1>2, <1>3, Zenon
<1>8. CASE u = [t EXCEPT !.to[n].status = "VALID", !.con = used]
  BY <1>6, <1>8, StatusChanged
<1>9. CASE u = [t EXCEPT !.to[n].status = "SLEEPING", !.con = rest]
  BY <1>6, <1>9, StatusChanged
<1> QED
  BY <1>7, <1>8, <1>9

\* A new tie makes its peer awaited, and one request for him is sent.
LEMMA ExactTied ==
  ASSUME NEW r \in TcpNode, NEW to, NEW c \in ConRecord, Exact(to, c, r), NEW n \in ConnNo,
         NEW up, NEW tie, TieSet(to, up, n, r, tie), tie = [status |-> "NONE", id |-> 0],
         to[n].ties[r].status = "UNTIED", to[n].pk \in TcpPeer, ~Pending(c, to[n].pk),
         NEW d, d.in = c.in, d.out = Append(c.out, RoutingRequest(to[n].pk)), d.lock = c.lock, d.slots = c.slots
  PROVE  Exact(up, d, r)
<1>1. SlotsSound(to, c, r) /\ RequestsSound(to, c, r) /\ c.lock = Cardinality(OnlineAt(to, r))
  BY DEF Exact
<1>2. /\ tie.status = "NONE" /\ up[n].ties[r] = tie
      /\ \A m \in ConnNo : up[m].pk = to[m].pk /\ (m # n => up[m].ties[r] = to[m].ties[r])
  BY DEF TieSet
<1>3. SlotsSound(up, d, r)
  <2>1. ASSUME NEW i \in SlotId, d.slots[i].status # 0
        PROVE  /\ d.slots[i].number \in ConnNo
               /\ up[d.slots[i].number].pk = d.slots[i].pk
               /\ up[d.slots[i].number].ties[r] = [status |-> InUseStatus(d.slots[i].status), id |-> i]
    <3>1. PICK slot : slot = c.slots[i]
      OBVIOUS
    <3>2. PICK m : m = slot.number
      OBVIOUS
    <3>3. /\ m \in ConnNo /\ to[m].pk = slot.pk /\ d.slots[i] = slot
          /\ to[m].ties[r] = [status |-> InUseStatus(slot.status), id |-> i]
      BY <1>1, <2>1, <3>1, <3>2 DEF SlotsSound
    <3>4. to[m].ties[r].status # "UNTIED"
      BY <3>3 DEF InUseStatus
    <3> QED
      BY <1>2, <3>2, <3>3, <3>4
  <2>2. ASSUME NEW m \in ConnNo, up[m].ties[r].status \in {"REGISTERED", "ONLINE"}
        PROVE  d.slots[up[m].ties[r].id].status # 0 /\ d.slots[up[m].ties[r].id].number = m
    BY <1>1, <1>2, <2>2 DEF SlotsSound
  <2> QED
    BY <2>1, <2>2 DEF SlotsSound
<1>4. RequestsSound(up, c, r)
  <2>1. /\ \A m \in ConnNo : up[m].pk = to[m].pk \/ to[m].ties[r].status # "NONE"
        /\ \A m \in ConnNo : m # n => up[m].ties[r] = to[m].ties[r]
    BY <1>2
  <2> QED
    BY <1>1, <2>1, RequestsKept
<1>5. RequestsSound(up, d, r)
  <2>1. PICK p : p = RoutingRequest(to[n].pk)
    OBVIOUS
  <2>2. p \in OutPacket /\ p.pk = to[n].pk
    BY <2>1 DEF OutPacket, RoutingRequest
  <2>3. Awaited(up, r, p.pk)
    BY <1>2, <2>2 DEF Awaited
  <2>4. c.in \in Seq(InPacket) /\ c.out \in Seq(OutPacket)
    BY DEF ConRecord
  <2>5. ~Pending(c, p.pk)
    BY <2>2
  <2>6. d.out = Append(c.out, p) /\ d.in = c.in
    BY <2>1
  <2> QED
    BY <1>4, <2>2, <2>3, <2>4, <2>5, <2>6, PacketAppended
<1>6. OnlineAt(up, r) = OnlineAt(to, r)
  BY <1>2, OnlineCount
<1> QED
  BY <1>1, <1>3, <1>5, <1>6 DEF Exact

\* The step from t to u ties n to r and makes the relay d.
TieAdded(t, u, n, r, d) ==
  /\ u \in TcRecord /\ u.onion = t.onion /\ u.num = t.num
  /\ TieSet(t.to, u.to, n, r, [status |-> "NONE", id |-> 0])
  /\ \A s \in TcpNode : s # r => u.con[s] = t.con[s]
  /\ u.con[r] = d

LEMMA TieSound ==
  ASSUME NEW t, NEW x \in BOOLEAN, Sound(t, x), NEW n \in ConnNo, NEW r \in TcpNode, t.to[n].status # "NONE",
         t.con[r].status = "CONNECTED" => t.to[n].ties[r].status = "UNTIED", NEW d, NEW u, TieAdded(t, u, n, r, d),
         d.slots = t.con[r].slots, d.in = t.con[r].in, d.lock = t.con[r].lock,
         d.onion = t.con[r].onion, d.status = t.con[r].status,
         d.out = IF t.con[r].status = "CONNECTED" THEN Append(t.con[r].out, RoutingRequest(t.to[n].pk)) ELSE t.con[r].out
  PROVE  Sound(u, x) /\ Calm(t, u)
<1>1. PICK to : to = t.to
  OBVIOUS
<1>2. t \in TcRecord /\ KeysSound(to) /\ OnionSound(t) /\ to \in [ConnNo -> ConToRecord]
  BY <1>1 DEF Sound, TcRecord
<1>3. PICK up : up = u.to
  OBVIOUS
<1>4. PICK tie : tie = [status |-> "NONE", id |-> 0]
  OBVIOUS
<1>5. TieSet(to, up, n, r, tie) /\ tie.status = "NONE"
  BY <1>1, <1>3, <1>4 DEF TieAdded
<1>6. PICK c \in ConRecord : c = t.con[r]
  BY <1>2 DEF TcRecord
<1>7. OnlyAt(t, u, r)
  BY <1>1, <1>3, <1>5 DEF OnlyAt, TieAdded, TieSet
<1>8. OnionSound(u)
  <2>1. \A s \in TcpNode : u.con[s].onion = t.con[s].onion
    BY DEF TieAdded
  <2> QED
    BY <1>2, <2>1, OnionKept DEF TieAdded
<1>9. IdleSound(to, c, r) /\ (x => Exact(to, c, r))
  BY <1>1, <1>6 DEF Sound
<1>10. /\ d.slots = c.slots /\ d.in = c.in /\ d.lock = c.lock /\ d.onion = c.onion /\ d.status = c.status
       /\ c.status = "CONNECTED" => to[n].ties[r].status = "UNTIED"
       /\ to[n].status # "NONE"
  BY <1>1, <1>6
<1>11. IdleSound(up, d, r) /\ (x => Exact(up, d, r))
  <2>1. CASE c.status # "CONNECTED"
    <3>1. d.out = c.out
      BY <1>6, <2>1
    <3>2. \A m \in ConnNo : up[m].ties[r].status \in {"UNTIED", "NONE"}
      BY <1>5, <1>9, <2>1 DEF IdleSound, TieSet
    <3>3. IdleSound(up, d, r)
      BY <1>9, <1>10, <2>1, <3>1, <3>2 DEF IdleSound
    <3> QED
      BY <1>10, <2>1, <3>3, IdleExact
  <2>2. CASE c.status = "CONNECTED"
    <3>1. IdleSound(up, d, r)
      BY <1>10, <2>2 DEF IdleSound
    <3>2. ASSUME x PROVE Exact(up, d, r)
      <4>1. Exact(to, c, r)
        BY <1>9, <3>2
      <4>2. ~Pending(t.con[r], t.to[n].pk)
        <5>1. RequestsSound(t.to, t.con[r], r)
          BY <1>1, <1>6, <4>1 DEF Exact
        <5>2. t.to[n].ties[r].status # "NONE"
          BY <1>1, <1>10, <2>2
        <5> QED
          BY <1>1, <1>2, <5>1, <5>2, NotPending
      <4>3. ~Pending(c, to[n].pk)
        BY <1>1, <1>6, <4>2
      <4>4. to[n].pk \in TcpPeer
        BY <1>2, <1>10 DEF KeysSound, ConToRecord, AnyKey
      <4>5. d.out = Append(c.out, RoutingRequest(to[n].pk))
        BY <1>1, <1>6, <2>2
      <4> QED
        BY <1>4, <1>5, <1>10, <2>2, <4>1, <4>3, <4>4, <4>5, ExactTied
    <3> QED
      BY <3>1, <3>2
  <2> QED
    BY <2>1, <2>2
<1>12. IdleSound(u.to, u.con[r], r) /\ (x => Exact(u.to, u.con[r], r))
  BY <1>3, <1>11 DEF TieAdded
<1>13. Sound(u, x)
  BY <1>7, <1>8, <1>12, MovedSound
<1>14. Calm(t, u)
  BY DEF TieAdded, Calm
<1> QED
  BY <1>13, <1>14

LEMMA TieAlone ==
  ASSUME NEW t \in TcRecord, NEW n \in ConnNo, NEW r \in TcpNode,
         NEW u, u = [t EXCEPT !.to[n].ties[r] = [status |-> "NONE", id |-> 0]]
  PROVE  TieAdded(t, u, n, r, t.con[r])
<1>1. PICK tie : tie = [status |-> "NONE", id |-> 0]
  OBVIOUS
<1>2. tie \in TieRecord
  BY <1>1, TcpConstants DEF TieRecord, TieStatus
<1>3. PICK to \in [ConnNo -> ConToRecord] : to = t.to
  BY DEF TcRecord
<1>4. PICK up : up = [to EXCEPT ![n].ties[r] = tie]
  OBVIOUS
<1>5. TieSet(to, up, n, r, tie)
  BY <1>2, <1>4, TieIsSet
<1>6. up \in [ConnNo -> ConToRecord]
  BY <1>5 DEF TieSet
<1>7. u = [t EXCEPT !.to = up]
  BY <1>1, <1>3, <1>4 DEF TcRecord
<1>8. u \in TcRecord /\ u.to = up /\ u.con = t.con /\ u.onion = t.onion /\ u.num = t.num
  BY <1>6, <1>7 DEF TcRecord
<1> QED
  BY <1>1, <1>3, <1>5, <1>8 DEF TieAdded

LEMMA TiePushed ==
  ASSUME NEW t, NEW n \in ConnNo, NEW r \in TcpNode, NEW v, TieAdded(t, v, n, r, t.con[r]),
         NEW d \in ConRecord, NEW u, u = [v EXCEPT !.con[r] = d]
  PROVE  TieAdded(t, u, n, r, d)
<1>1. v \in TcRecord
  BY DEF TieAdded
<1>2. /\ u \in TcRecord /\ u.to = v.to /\ u.onion = v.onion /\ u.num = v.num
      /\ u.con[r] = d /\ \A s \in TcpNode : s # r => u.con[s] = v.con[s]
  BY <1>1 DEF TcRecord
<1> QED
  BY <1>2 DEF TieAdded

LEMMA TieKnownSound ==
  ASSUME NEW x \in BOOLEAN, Sound(tc, x), NEW n \in ConnNo, NEW r \in TcpNode, tc.to[n].status # "NONE",
         NEW u, u = TieKnown(n, r)
  PROVE  Sound(u, x) /\ Calm(tc, u)
<1>1. PICK marked : marked = IF tc.to[n].status # "SLEEPING" /\ tc.con[r].status = "SLEEPING"
                             THEN [tc EXCEPT !.con[r].unsleep = TRUE] ELSE tc
  OBVIOUS
<1>2. PICK tied : tied = [marked EXCEPT !.to[n].ties[r] = [status |-> "NONE", id |-> 0]]
  OBVIOUS
<1>3. PICK asked : asked = [tc.con[r] EXCEPT !.out = Append(@, RoutingRequest(tc.to[n].pk)), !.fresh = TRUE]
  OBVIOUS
<1>4. u = IF Tied(tc, n, r) \/ ~FreeTies(tc.to[n]) THEN marked
          ELSE IF tc.con[r].status = "CONNECTED" THEN [tied EXCEPT !.con[r] = asked] ELSE tied
  BY <1>1, <1>2, <1>3, Zenon DEF TieKnown
<1>5. tc \in TcRecord /\ KeysSound(tc.to) /\ tc.con[r] \in ConRecord
  BY DEF Sound, TcRecord
<1>6. /\ Sound(marked, x) /\ marked.to = tc.to /\ marked.con[r].status = tc.con[r].status
      /\ tc.con[r].status = "CONNECTED" => marked = tc
      /\ Calm(tc, marked)
  <2>1. CASE tc.to[n].status # "SLEEPING" /\ tc.con[r].status = "SLEEPING"
    <3>1. PICK d : d = [tc.con[r] EXCEPT !.unsleep = TRUE]
      OBVIOUS
    <3>2. d \in ConRecord /\ SameParts(tc.con[r], d)
      BY <1>5, <3>1, PartsKept
    <3>3. marked = [tc EXCEPT !.con[r] = d]
      BY <1>1, <1>5, <2>1, <3>1 DEF TcRecord
    <3>4. Sound(marked, x) /\ Calm(tc, marked)
      BY <3>2, <3>3, OneFlagSet
    <3>5. marked.to = tc.to /\ marked.con[r] = d
      BY <1>5, <3>3 DEF TcRecord
    <3> QED
      BY <2>1, <3>2, <3>4, <3>5 DEF SameParts
  <2>2. CASE ~(tc.to[n].status # "SLEEPING" /\ tc.con[r].status = "SLEEPING")
    BY <1>1, <2>2 DEF Calm
  <2> QED
    BY <2>1, <2>2
<1>7. CASE Tied(tc, n, r) \/ ~FreeTies(tc.to[n])
  BY <1>4, <1>6, <1>7
<1>8. CASE ~(Tied(tc, n, r) \/ ~FreeTies(tc.to[n])) /\ tc.con[r].status = "CONNECTED"
  <2>1. tc.to[n].ties[r].status = "UNTIED" /\ marked = tc
    BY <1>6, <1>8 DEF Tied
  <2>2. PICK p : p = RoutingRequest(tc.to[n].pk)
    OBVIOUS
  <2>3. p \in OutPacket
    BY <1>5, <2>2 DEF OutPacket, RoutingRequest, KeysSound, TcRecord, ConToRecord, AnyKey
  <2>4. PICK d : d = [tc.con[r] EXCEPT !.out = Append(@, p), !.fresh = TRUE]
    OBVIOUS
  <2>5. tied = [tc EXCEPT !.to[n].ties[r] = [status |-> "NONE", id |-> 0]]
    BY <1>2, <2>1
  <2>6. u = [tied EXCEPT !.con[r] = asked]
    BY <1>4, <1>8
  <2>7. u = [tied EXCEPT !.con[r] = d]
    BY <1>3, <2>2, <2>4, <2>6
  <2>8. /\ TieAdded(tc, u, n, r, d)
        /\ d.slots = tc.con[r].slots /\ d.in = tc.con[r].in /\ d.lock = tc.con[r].lock
        /\ d.onion = tc.con[r].onion /\ d.status = tc.con[r].status /\ d.out = Append(tc.con[r].out, p)
    <3>1. TieAdded(tc, tied, n, r, tc.con[r])
      BY <1>5, <2>5, TieAlone
    <3>2. /\ d \in ConRecord
          /\ d.slots = tc.con[r].slots /\ d.in = tc.con[r].in /\ d.lock = tc.con[r].lock
          /\ d.onion = tc.con[r].onion /\ d.status = tc.con[r].status /\ d.out = Append(tc.con[r].out, p)
      <4>1. PICK c \in ConRecord : c = tc.con[r]
        BY <1>5
      <4>2. PICK out : out = Append(c.out, p)
        OBVIOUS
      <4>3. PICK b \in BOOLEAN : b = TRUE
        OBVIOUS
      <4>4. d = [c EXCEPT !.out = out, !.fresh = b]
        BY <2>4, <4>1, <4>2, <4>3, Zenon
      <4>5. /\ d \in ConRecord /\ d.slots = c.slots /\ d.in = c.in /\ d.lock = c.lock /\ d.onion = c.onion
            /\ d.status = c.status /\ d.out = out
        <5>1. out \in Seq(OutPacket)
          BY <2>3, <4>2 DEF ConRecord
        <5> QED
          BY <4>4, <4>3, <5>1 DEF ConRecord
      <4> QED
        BY <4>1, <4>2, <4>5
    <3> QED
      BY <2>7, <3>1, <3>2, TiePushed
  <2>9. d.out = IF tc.con[r].status = "CONNECTED" THEN Append(tc.con[r].out, RoutingRequest(tc.to[n].pk)) ELSE tc.con[r].out
    BY <1>8, <2>2, <2>8
  <2> QED
    BY <2>1, <2>8, <2>9, TieSound
<1>9. CASE ~(Tied(tc, n, r) \/ ~FreeTies(tc.to[n])) /\ tc.con[r].status # "CONNECTED"
  <2>1. marked.to[n].ties[r].status = "UNTIED" /\ marked.to[n].status # "NONE" /\ u = tied
    BY <1>4, <1>6, <1>9 DEF Tied
  <2>2. marked \in TcRecord
    BY <1>6 DEF Sound
  <2>3. PICK d : d = marked.con[r]
    OBVIOUS
  <2>4. TieAdded(marked, u, n, r, d)
    BY <1>2, <2>1, <2>2, <2>3, TieAlone
  <2>5. /\ d.slots = marked.con[r].slots /\ d.in = marked.con[r].in /\ d.lock = marked.con[r].lock
        /\ d.onion = marked.con[r].onion /\ d.status = marked.con[r].status
        /\ d.out = IF marked.con[r].status = "CONNECTED" THEN Append(marked.con[r].out, RoutingRequest(marked.to[n].pk))
                   ELSE marked.con[r].out
    BY <1>6, <1>9, <2>3
  <2>6. Sound(u, x) /\ Calm(marked, u)
    BY <1>6, <2>1, <2>4, <2>5, TieSound
  <2> QED
    BY <1>6, <2>6 DEF Calm
<1> QED
  BY <1>7, <1>8, <1>9

LEMMA TieNewSound ==
  ASSUME NEW x \in BOOLEAN, Sound(tc, x), NEW n \in ConnNo, NEW r \in TcpNode, tc.to[n].status # "NONE",
         tc.con[r].status = "NONE", NEW u, u = TieNew(n, r)
  PROVE  Sound(u, x) /\ Calm(tc, u)
<1>1. PICK added : added = Connecting(tc, r, tc)
  OBVIOUS
<1>2. Sound(added, x) /\ Calm(tc, added)
  BY <1>1, NewConnectionSound
<1>3. added.to = tc.to /\ added \in TcRecord /\ added.con[r].status # "CONNECTED"
  <2>1. PICK d : Reset(d) /\ d.status = "VALID" /\ added = [tc EXCEPT !.con[r] = d]
    BY <1>1, ConnectingIs
  <2> QED
    BY <1>2, <2>1 DEF Sound, TcRecord
<1>4. PICK tied : tied = [added EXCEPT !.to[n].ties[r] = [status |-> "NONE", id |-> 0]]
  OBVIOUS
<1>5. u \in {tc, added, tied}
  BY <1>1, <1>4 DEF TieNew
<1>6. Sound(tied, x) /\ Calm(added, tied)
  <2>1. added.con[r].status # "CONNECTED" /\ added.to[n].status # "NONE"
    BY <1>3
  <2>2. PICK d : d = added.con[r]
    OBVIOUS
  <2>3. TieAdded(added, tied, n, r, d)
    BY <1>3, <1>4, <2>2, TieAlone
  <2>4. /\ d.slots = added.con[r].slots /\ d.in = added.con[r].in /\ d.lock = added.con[r].lock
        /\ d.onion = added.con[r].onion /\ d.status = added.con[r].status
        /\ d.out = IF added.con[r].status = "CONNECTED" THEN Append(added.con[r].out, RoutingRequest(added.to[n].pk))
                   ELSE added.con[r].out
    BY <1>3, <2>2
  <2> QED
    BY <1>2, <2>1, <2>3, <2>4, TieSound
<1>7. Sound(u, x)
  BY <1>2, <1>5, <1>6
<1>8. Calm(tc, u)
  BY <1>2, <1>5, <1>6 DEF Calm
<1> QED
  BY <1>7, <1>8

\* The relays keep all but the use the onion makes of them.
OnionMoved(t, u) ==
  /\ u \in TcRecord /\ u.to = t.to
  /\ \A r \in TcpNode : /\ u.con[r].slots = t.con[r].slots /\ u.con[r].in = t.con[r].in
                        /\ u.con[r].out = t.con[r].out /\ u.con[r].lock = t.con[r].lock
                        /\ u.con[r].status = t.con[r].status
                        /\ u.con[r].status # "CONNECTED" => u.con[r].onion = FALSE

LEMMA OnionMovedSound ==
  ASSUME NEW t, NEW x \in BOOLEAN, Sound(t, x), NEW u, OnionMoved(t, u), OnionSound(u)
  PROVE  Sound(u, x) /\ Calm(t, u)
<1>1. PICK to : to = t.to
  OBVIOUS
<1>2. KeysSound(to) /\ u.to = to /\ u \in TcRecord
  BY <1>1 DEF Sound, OnionMoved
<1>3. ASSUME NEW r \in TcpNode PROVE IdleSound(to, u.con[r], r) /\ (x => Exact(to, u.con[r], r))
  <2>1. PICK c : c = t.con[r]
    OBVIOUS
  <2>2. PICK d : d = u.con[r]
    OBVIOUS
  <2>3. /\ d.slots = c.slots /\ d.in = c.in /\ d.out = c.out /\ d.lock = c.lock /\ d.status = c.status
        /\ d.status # "CONNECTED" => d.onion = FALSE
    BY <2>1, <2>2 DEF OnionMoved
  <2>4. IdleSound(to, c, r) /\ (x => Exact(to, c, r))
    BY <1>1, <2>1 DEF Sound
  <2>5. IdleSound(to, d, r)
    BY <2>3, <2>4 DEF IdleSound
  <2>6. x => Exact(to, d, r)
    BY <2>3, <2>4, ExactOfParts
  <2> QED
    BY <2>2, <2>5, <2>6
<1>4. Sound(u, x)
  BY <1>2, <1>3 DEF Sound
<1>5. Calm(t, u)
  BY DEF OnionMoved, Calm
<1> QED
  BY <1>4, <1>5

LEMMA StartOnionSound ==
  ASSUME NEW x \in BOOLEAN, Sound(tc, x), ~tc.onion, NEW given, given \subseteq TcpNode,
         \A r \in given : tc.con[r].status = "CONNECTED", Cardinality(given) <= Recommended,
         NEW u, u = StartOnion(given)
  PROVE  Sound(u, x) /\ Calm(tc, u)
<1>1. tc \in TcRecord /\ OnionSound(tc) /\ tc.num \in Int
  BY DEF Sound, TcRecord
<1>2. PICK wake : wake = (Cardinality(given) < Recommended)
  OBVIOUS
<1>3. PICK con : con = [r \in TcpNode |->
                          [tc.con[r] EXCEPT !.onion = @ \/ r \in given,
                                            !.unsleep = @ \/ (wake /\ tc.con[r].status = "SLEEPING")]]
  OBVIOUS
<1>4. IsFiniteSet(given) /\ Cardinality(given) \in Nat
  BY TcpConstants, FS_Subset, FS_CardinalityType
<1>5. tc.num = 0 /\ \A r \in TcpNode : tc.con[r].onion = FALSE
  <2>1. \A r \in TcpNode : ~tc.con[r].onion /\ tc.con[r].onion \in BOOLEAN
    BY <1>1 DEF OnionSound, TcRecord, ConRecord
  <2>2. {r \in TcpNode : tc.con[r].onion} = {}
    BY <2>1
  <2> QED
    BY <1>1, <2>1, <2>2, FS_EmptySet DEF OnionSound
<1>6. ASSUME NEW r \in TcpNode
      PROVE  /\ con[r] \in ConRecord /\ con[r].slots = tc.con[r].slots /\ con[r].in = tc.con[r].in
             /\ con[r].out = tc.con[r].out /\ con[r].lock = tc.con[r].lock
             /\ con[r].status = tc.con[r].status /\ con[r].onion = (r \in given)
  <2>1. PICK c \in ConRecord : c = tc.con[r]
    BY <1>1 DEF TcRecord
  <2>2. PICK a \in BOOLEAN : a = (c.onion \/ r \in given)
    BY Zenon
  <2>3. PICK b \in BOOLEAN : b = (c.unsleep \/ (wake /\ c.status = "SLEEPING"))
    BY Zenon
  <2>4. PICK d : d = con[r]
    OBVIOUS
  <2>5. d = [c EXCEPT !.onion = c.onion \/ r \in given, !.unsleep = c.unsleep \/ (wake /\ c.status = "SLEEPING")]
    BY <1>3, <2>1, <2>4, Zenon
  <2>6. d = [c EXCEPT !.onion = a, !.unsleep = b]
    BY <2>2, <2>3, <2>5, Zenon
  <2>7. /\ d \in ConRecord /\ d.slots = c.slots /\ d.in = c.in /\ d.out = c.out /\ d.lock = c.lock
        /\ d.status = c.status /\ d.onion = a
    BY <2>1, <2>2, <2>3, <2>6 DEF ConRecord
  <2>8. a = (r \in given)
    BY <1>5, <2>1, <2>2
  <2> QED
    BY <2>1, <2>4, <2>7, <2>8
<1>7. con \in [TcpNode -> ConRecord]
  BY <1>3, <1>6
<1>8. PICK num \in Int : num = tc.num + Cardinality(given)
  BY <1>1, <1>4
<1>9. u = [tc EXCEPT !.onion = TRUE, !.num = num, !.con = con]
  <2>1. u = [tc EXCEPT !.onion = TRUE, !.num = @ + Cardinality(given),
                       !.con = [r \in TcpNode |->
                          [tc.con[r] EXCEPT !.onion = @ \/ r \in given,
                                            !.unsleep = @ \/ (wake /\ tc.con[r].status = "SLEEPING")]]]
    BY <1>2, Zenon DEF StartOnion
  <2> QED
    BY <1>3, <1>8, <2>1, Zenon
<1>10. u \in TcRecord /\ u.to = tc.to /\ u.con = con /\ u.num = num /\ u.onion = TRUE
  BY <1>1, <1>7, <1>9 DEF TcRecord
<1>11. OnionSound(u)
  <2>1. {r \in TcpNode : u.con[r].onion} = given
    BY <1>6, <1>10
  <2>2. u.num = Cardinality(given)
    BY <1>4, <1>5, <1>8, <1>10
  <2> QED
    BY <1>10, <2>1, <2>2 DEF OnionSound
<1>12. OnionMoved(tc, u)
  <2>1. ASSUME NEW r \in TcpNode, con[r].status # "CONNECTED" PROVE con[r].onion = FALSE
    <3>1. r \notin given
      BY <1>6, <2>1
    <3>2. con[r].onion = (r \in given)
      BY <1>6
    <3>3. con[r].onion \in BOOLEAN
      BY <1>6 DEF ConRecord
    <3>4. ~con[r].onion
      BY <3>1, <3>2
    <3> QED
      BY <3>3, <3>4
  <2> QED
    BY <1>6, <1>10, <2>1 DEF OnionMoved
<1> QED
  BY <1>11, <1>12, OnionMovedSound

LEMMA StopOnionSound ==
  ASSUME NEW x \in BOOLEAN, Sound(tc, x), NEW u, u = StopOnion
  PROVE  Sound(u, x) /\ Calm(tc, u)
<1>1. tc \in TcRecord /\ OnionSound(tc) /\ tc.num \in Int
  BY DEF Sound, TcRecord
<1>2. PICK con : con = [r \in TcpNode |-> [tc.con[r] EXCEPT !.onion = FALSE]]
  OBVIOUS
<1>3. ASSUME NEW r \in TcpNode
      PROVE  /\ con[r] \in ConRecord /\ con[r].slots = tc.con[r].slots /\ con[r].in = tc.con[r].in
             /\ con[r].out = tc.con[r].out /\ con[r].lock = tc.con[r].lock
             /\ con[r].status = tc.con[r].status /\ con[r].onion = FALSE
  <2>1. PICK c \in ConRecord : c = tc.con[r]
    BY <1>1 DEF TcRecord
  <2>2. PICK d : d = con[r]
    OBVIOUS
  <2>3. d = [c EXCEPT !.onion = FALSE]
    BY <1>2, <2>1, <2>2
  <2>4. /\ d \in ConRecord /\ d.slots = c.slots /\ d.in = c.in /\ d.out = c.out /\ d.lock = c.lock
        /\ d.status = c.status /\ d.onion = FALSE
    BY <2>3 DEF ConRecord
  <2> QED
    BY <2>1, <2>2, <2>4
<1>4. con \in [TcpNode -> ConRecord]
  BY <1>2, <1>3
<1>5. PICK S : S = {r \in TcpNode : tc.con[r].onion}
  OBVIOUS
<1>6. tc.num = Cardinality(S) /\ tc.num - Cardinality(S) = 0
  BY <1>1, <1>5 DEF OnionSound
<1>7. PICK off \in BOOLEAN : off = FALSE
  OBVIOUS
<1>8. PICK num \in Int : num = tc.num - Cardinality(S)
  BY <1>6
<1>9. u = [tc EXCEPT !.onion = off, !.num = num, !.con = con]
  BY <1>2, <1>5, <1>7, <1>8, Zenon DEF StopOnion
<1>10. u \in TcRecord /\ u.to = tc.to /\ u.con = con /\ u.num = num
  BY <1>1, <1>4, <1>9, <1>7, <1>8 DEF TcRecord
<1>11. u \in TcRecord /\ u.to = tc.to /\ u.con = con /\ u.num = 0
  BY <1>6, <1>8, <1>10
<1>12. OnionSound(u)
  <2>1. {r \in TcpNode : u.con[r].onion} = {}
    BY <1>3, <1>11
  <2>2. \A r \in TcpNode : ~u.con[r].onion
    BY <1>3, <1>11
  <2> QED
    <3>1. u.num = Cardinality({r \in TcpNode : u.con[r].onion}) /\ u.num <= Recommended
      <4>1. Cardinality({r \in TcpNode : u.con[r].onion}) = 0
        BY <2>1, FS_EmptySet
      <4>2. 0 <= Recommended
        BY TcpConstants
      <4> QED
        BY <1>11, <4>1, <4>2
    <3> QED
      BY <2>2, <3>1, Zenon DEF OnionSound
<1>13. OnionMoved(tc, u)
  BY <1>3, <1>11 DEF OnionMoved
<1> QED
  BY <1>12, <1>13, OnionMovedSound


-----------------------------------------------------------------------------
(* The relay.                                                              *)

\* At most two packets more: what a relay answers.
LEMMA PairAppended ==
  ASSUME NEW S, NEW p \in S, NEW q \in S
  PROVE  Append(<<p>>, q) = <<p, q>>
<1>1. PICK a : a = Append(<<p>>, q)
  OBVIOUS
<1>2. PICK b : b = <<p, q>>
  OBVIOUS
<1>3. a \in Seq(S) /\ Len(a) = 2 /\ a[1] = p /\ a[2] = q
  BY <1>1, AppendProperties
<1>4. b \in Seq(S) /\ Len(b) = 2 /\ b[1] = p /\ b[2] = q
  BY <1>2
<1>5. Len(a) = Len(b) /\ \A i \in 1 .. Len(a) : a[i] = b[i]
  BY <1>3, <1>4
<1>6. a = b
  BY <1>3, <1>4, <1>5, SeqEqual
<1> QED
  BY <1>1, <1>2, <1>6

LEMMA RequestsOfParts ==
  ASSUME NEW to, NEW c, NEW d, NEW r, RequestsSound(to, c, r), d.in = c.in, d.out = c.out
  PROVE  RequestsSound(to, d, r)
BY DEF RequestsSound

\* What the relay sends for a routing request: the slot, and perhaps that the
\* peer is there.
Answers(pk, i) ==
  {<< >>, <<[type |-> "response", id |-> i, pk |-> pk]>>,
   <<[type |-> "response", id |-> i, pk |-> pk], [type |-> "connect", id |-> i]>>}

\* The relay has read a routing request and sent the packets.
Answered(t, u, r, packets) ==
  u = [t EXCEPT !.con[r] = [t.con[r] EXCEPT !.out = Tail(@), !.in = @ \o packets]]

\* A routing request for which slot i and the packets are an answer.
Asked(t, r, i, packets) ==
  /\ t.con[r].out # << >> /\ Head(t.con[r].out).type = "request"
  /\ i \in SlotId /\ packets \in Answers(Head(t.con[r].out).pk, i)

LEMMA AnsweredSound ==
  ASSUME NEW t, NEW x \in BOOLEAN, Sound(t, x), NEW r \in TcpNode, NEW i, NEW packets,
         Asked(t, r, i, packets), NEW u, Answered(t, u, r, packets)
  PROVE  Sound(u, x) /\ u.con[r].status = "CONNECTED" /\ Calm(t, u)
<1>1. PICK c : c = t.con[r]
  OBVIOUS
<1>2. c.out # << >> /\ Head(c.out).type = "request" /\ i \in SlotId /\ packets \in Answers(Head(c.out).pk, i)
  BY <1>1 DEF Asked
<1>3. PICK d : d = [c EXCEPT !.out = Tail(c.out), !.in = c.in \o packets]
  OBVIOUS
<1>4. u = [t EXCEPT !.con[r] = d]
  BY <1>1, <1>3, Zenon DEF Answered
<1>5. t \in TcRecord /\ c.status = "CONNECTED" /\ t.con[r].status = "CONNECTED"
  BY <1>1, <1>2, NotIdle DEF Sound
<1>6. c \in ConRecord
  BY <1>5, <1>1 DEF TcRecord
<1>7. c.in \in Seq(InPacket) /\ c.out \in Seq(OutPacket)
  BY <1>6 DEF ConRecord
<1>8. Head(c.out) \in OutPacket /\ Tail(c.out) \in Seq(OutPacket)
  BY <1>7, <1>2, TailIs
<1>9. PICK pk : pk = Head(c.out).pk
  OBVIOUS
<1>10. pk \in TcpPeer
  BY <1>8, <1>9, <1>2 DEF OutPacket
<1>11. PICK p : p = [type |-> "response", id |-> i, pk |-> pk]
  OBVIOUS
<1>12. PICK q : q = [type |-> "connect", id |-> i]
  OBVIOUS
<1>13. p \in InPacket /\ q \in InPacket /\ ~Answer(q) /\ p.pk = pk
  BY <1>10, <1>11, <1>12, <1>2 DEF InPacket, Answer
<1>14. PICK in : in = c.in \o packets
  OBVIOUS
<1>15. PICK one : one = Append(c.in, p)
  OBVIOUS
<1>16. PICK two : two = Append(one, q)
  OBVIOUS
<1>17. one \in Seq(InPacket) /\ two \in Seq(InPacket)
  BY <1>7, <1>13, <1>15, <1>16
<1>18. in \in {c.in, one, two}
  <2>1. packets \in {<< >>, <<p>>, <<p, q>>}
    BY <1>9, <1>11, <1>12, <1>2 DEF Answers
  <2>2. CASE packets = << >>
    BY <1>7, <1>14, <2>2, ConcatEmptySeq
  <2>3. CASE packets = <<p>>
    BY <1>7, <1>13, <1>14, <1>15, <2>3, AppendIsConcat
  <2>4. CASE packets = <<p, q>>
    <3>1. <<p>> \in Seq(InPacket) /\ <<q>> \in Seq(InPacket) /\ <<p>> \o <<q>> = <<p, q>>
      <4>1. <<p>> \in Seq(InPacket) /\ <<q>> \in Seq(InPacket)
        BY <1>13
      <4>2. Append(<<p>>, q) = <<p, q>>
        BY <1>13, PairAppended
      <4>3. Append(<<p>>, q) = <<p>> \o <<q>>
        BY <1>13, <4>1, AppendIsConcat
      <4> QED
        BY <4>1, <4>2, <4>3
    <3>2. (c.in \o <<p>>) \o <<q>> = c.in \o (<<p>> \o <<q>>)
      BY <1>7, <3>1, ConcatAssociative
    <3>3. one = c.in \o <<p>> /\ two = one \o <<q>>
      BY <1>7, <1>13, <1>15, <1>16, <1>17, AppendIsConcat
    <3>4. in = two
      BY <1>14, <2>4, <3>1, <3>2, <3>3
    <3> QED
      BY <3>4
  <2> QED
    BY <2>1, <2>2, <2>3, <2>4
<1>19. in \in Seq(InPacket)
  BY <1>7, <1>18, <1>17
<1>20. PICK out : out = Tail(c.out)
  OBVIOUS
<1>21. d = [c EXCEPT !.out = out, !.in = in]
  BY <1>14, <1>20, <1>3, Zenon
<1>22. /\ d \in ConRecord /\ d.slots = c.slots /\ d.lock = c.lock /\ d.onion = c.onion /\ d.status = c.status
       /\ d.in = in /\ d.out = out
  BY <1>6, <1>8, <1>19, <1>20, <1>21 DEF ConRecord
<1>23. StreamsMoved(t, u, r) /\ u.con[r] = d
  BY <1>5, <1>22, <1>1, <1>4 DEF StreamsMoved, TcRecord
<1>24. ASSUME x PROVE RequestsSound(u.to, u.con[r], r)
  <2>1. PICK to : to = t.to
    OBVIOUS
  <2>2. RequestsSound(to, c, r)
    BY <1>24, <1>1, <2>1 DEF Sound, Exact
  <2>3. PICK e : e = [in |-> c.in, out |-> out]
    OBVIOUS
  <2>4. e.in = c.in /\ e.out = Tail(c.out) /\ e.out = out
    BY <1>20, <2>3
  <2>5. RequestsSound(to, e, r) /\ Awaited(to, r, pk) /\ ~Pending(e, pk)
    BY <1>7, <1>9, <1>2, <2>2, <2>4, RequestTaken DEF Request
  <2>6. PICK f : f = [in |-> one, out |-> out]
    OBVIOUS
  <2>7. e.in \in Seq(InPacket) /\ e.out \in Seq(OutPacket) /\ f.in = Append(e.in, p) /\ f.out = e.out
    BY <1>7, <1>8, <1>20, <1>15, <2>4, <2>6
  <2>8. RequestsSound(to, f, r)
    BY <1>13, <2>5, <2>7, PacketAppended
  <2>9. PICK g : g = [in |-> two, out |-> out]
    OBVIOUS
  <2>10. f.in \in Seq(InPacket) /\ f.out \in Seq(OutPacket) /\ g.in = Append(f.in, q) /\ g.out = f.out
    BY <1>8, <1>20, <1>16, <1>17, <2>6, <2>9
  <2>11. RequestsSound(to, g, r)
    BY <1>13, <2>8, <2>10, PacketAppended
  <2>12. PICK h \in {e, f, g} : d.in = h.in /\ d.out = h.out
    <3>1. CASE in = c.in
      BY <1>22, <2>4, <3>1
    <3>2. CASE in = one
      BY <1>22, <2>6, <3>2
    <3>3. CASE in = two
      BY <1>22, <2>9, <3>3
    <3> QED
      BY <1>18, <3>1, <3>2, <3>3
  <2>13. RequestsSound(to, h, r)
    BY <2>5, <2>8, <2>11, <2>12
  <2>14. RequestsSound(to, d, r)
    BY <2>12, <2>13, RequestsOfParts
  <2> QED
    BY <1>23, <2>1, <2>14 DEF StreamsMoved
<1>25. Sound(u, x)
  BY <1>5, <1>23, <1>24, StreamsSound
<1> QED
  BY <1>5, <1>23, <1>25 DEF StreamsMoved, Calm

\* The relay has read a disconnect request, or hung up because of it.
Dropped(t, u, r) ==
  /\ t.con[r].out # << >>
  /\ \/ u = [t EXCEPT !.con[r] = [t.con[r] EXCEPT !.out = << >>, !.up = "DISCONNECTED"]]
     \/ u = [t EXCEPT !.con[r].out = Tail(@)]

LEMMA DroppedSound ==
  ASSUME NEW t, NEW x \in BOOLEAN, Sound(t, x), NEW r \in TcpNode, NEW u, Dropped(t, u, r)
  PROVE  Sound(u, x) /\ u.con[r].status = "CONNECTED" /\ Calm(t, u)
<1>1. PICK c : c = t.con[r]
  OBVIOUS
<1>2. c.out # << >>
  BY <1>1 DEF Dropped
<1>3. PICK d : /\ \/ d = [c EXCEPT !.out = << >>, !.up = "DISCONNECTED"]
                  \/ d = [c EXCEPT !.out = Tail(c.out)]
               /\ u = [t EXCEPT !.con[r] = d]
  <2>1. CASE u = [t EXCEPT !.con[r] = [t.con[r] EXCEPT !.out = << >>, !.up = "DISCONNECTED"]]
    BY <1>1, <2>1
  <2>2. CASE u = [t EXCEPT !.con[r].out = Tail(@)]
    BY <1>1, <2>2
  <2> QED
    BY <2>1, <2>2 DEF Dropped
<1>4. t \in TcRecord /\ c.status = "CONNECTED" /\ t.con[r].status = "CONNECTED"
  BY <1>1, <1>2, NotIdle DEF Sound
<1>5. c \in ConRecord
  BY <1>4, <1>1 DEF TcRecord
<1>6. c.in \in Seq(InPacket) /\ c.out \in Seq(OutPacket)
  BY <1>5 DEF ConRecord
<1>7. PICK out : out = Tail(c.out)
  OBVIOUS
<1>8. out \in Seq(OutPacket) /\ << >> \in Seq(OutPacket)
  BY <1>6, <1>7, <1>2, TailIs
<1>9. /\ d \in ConRecord /\ d.slots = c.slots /\ d.lock = c.lock /\ d.onion = c.onion /\ d.status = c.status
      /\ d.in = c.in /\ d.out \in {<< >>, out}
  <2>1. CASE d = [c EXCEPT !.out = << >>, !.up = "DISCONNECTED"]
    BY <1>5, <1>8, <2>1 DEF ConRecord
  <2>2. CASE d = [c EXCEPT !.out = Tail(c.out)]
    <3>1. d = [c EXCEPT !.out = out]
      BY <1>7, <2>2
    <3> QED
      BY <1>5, <1>8, <3>1 DEF ConRecord
  <2> QED
    BY <1>3, <2>1, <2>2
<1>10. StreamsMoved(t, u, r) /\ u.con[r] = d
  BY <1>4, <1>9, <1>1, <1>3 DEF StreamsMoved, TcRecord
<1>11. ASSUME x PROVE RequestsSound(u.to, u.con[r], r)
  <2>1. PICK to : to = t.to
    OBVIOUS
  <2>2. RequestsSound(to, c, r)
    BY <1>11, <1>1, <2>1 DEF Sound, Exact
  <2>3. CASE d.out = out
    BY <1>6, <1>7, <1>9, <1>10, <1>2, <2>1, <2>2, <2>3, RequestTaken DEF StreamsMoved
  <2>4. CASE d.out = << >>
    <3>1. RequestsSound(to, d, r)
      BY <1>9, <2>2, <2>4 DEF RequestsSound
    <3> QED
      BY <1>10, <2>1, <3>1 DEF StreamsMoved
  <2> QED
    BY <1>9, <2>3, <2>4
<1>12. Sound(u, x)
  BY <1>4, <1>10, <1>11, StreamsSound
<1> QED
  BY <1>4, <1>10, <1>12 DEF StreamsMoved, Calm

\* The relay has sent a notification about a slot.
Told(t, u, r, p) == p \in InPacket /\ ~Answer(p) /\ u = [t EXCEPT !.con[r].in = Append(@, p)]

LEMMA ToldSound ==
  ASSUME NEW t, NEW x \in BOOLEAN, Sound(t, x), NEW r \in TcpNode, t.con[r].status = "CONNECTED",
         NEW p, NEW u, Told(t, u, r, p)
  PROVE  Sound(u, x) /\ u.con[r].status = "CONNECTED" /\ Calm(t, u)
<1>1. PICK c : c = t.con[r]
  OBVIOUS
<1>2. PICK d : d = [c EXCEPT !.in = Append(c.in, p)]
  OBVIOUS
<1>3. u = [t EXCEPT !.con[r] = d] /\ p \in InPacket /\ ~Answer(p) /\ c.status = "CONNECTED"
  BY <1>1, <1>2 DEF Told
<1>4. t \in TcRecord
  BY DEF Sound
<1>5. c \in ConRecord
  BY <1>4, <1>1 DEF TcRecord
<1>6. c.in \in Seq(InPacket) /\ c.out \in Seq(OutPacket)
  BY <1>5 DEF ConRecord
<1>7. PICK in : in = Append(c.in, p)
  OBVIOUS
<1>8. in \in Seq(InPacket) /\ d = [c EXCEPT !.in = in]
  BY <1>6, <1>7, <1>2, <1>3
<1>9. /\ d \in ConRecord /\ d.slots = c.slots /\ d.lock = c.lock /\ d.onion = c.onion /\ d.status = c.status
      /\ d.in = in /\ d.out = c.out
  BY <1>5, <1>8 DEF ConRecord
<1>10. StreamsMoved(t, u, r) /\ u.con[r] = d
  BY <1>4, <1>9, <1>1, <1>3 DEF StreamsMoved, TcRecord
<1>11. ASSUME x PROVE RequestsSound(u.to, u.con[r], r)
  <2>1. PICK to : to = t.to
    OBVIOUS
  <2>2. RequestsSound(to, c, r)
    BY <1>11, <1>1, <2>1 DEF Sound, Exact
  <2>3. d.in = Append(c.in, p) /\ d.out = c.out
    BY <1>7, <1>9
  <2>4. RequestsSound(to, d, r)
    BY <1>6, <1>3, <2>2, <2>3, PacketAppended
  <2> QED
    BY <1>10, <2>1, <2>4 DEF StreamsMoved
<1>12. Sound(u, x)
  BY <1>10, <1>11, StreamsSound
<1> QED
  BY <1>10, <1>12 DEF StreamsMoved, Calm

-----------------------------------------------------------------------------
(* The steps.                                                              *)

\* The state of do_tcp_conns.
LoopRecord == [on : BOOLEAN, todo : SUBSET TcpNode, reads : SUBSET TcpNode]

\* What a step has to show.
LEMMA StepKept ==
  ASSUME NEW y \in BOOLEAN, NEW t, Sound(t, y), tc' = t, stray' \in BOOLEAN, ~stray' => y,
         RoutesSound(t.con, routes'), loop' \in LoopRecord
  PROVE  TcpConnInv'
<1>1. Sound(tc', ~stray')
  BY DEF Sound
<1> QED
  BY <1>1 DEF TcpConnInv, LoopRecord

LEMMA RoutesKept ==
  ASSUME NEW t, NEW u, NEW rt, RoutesSound(t.con, rt), Calm(t, u)
  PROVE  RoutesSound(u.con, rt)
BY DEF RoutesSound, Calm

LEMMA RoutesForgotten ==
  ASSUME RoutesSound(tc.con, routes), NEW t, NEW rt, rt = Forget(t)
  PROVE  RoutesSound(t.con, rt)
<1>1. NoRoute \in RouteRecord /\ NoRoute.status = 0
  BY DEF NoRoute, RouteRecord, AnyKey
<1>2. PICK blank : blank = [i \in SlotId |-> NoRoute]
  OBVIOUS
<1>3. blank \in [SlotId -> RouteRecord] /\ \A i \in SlotId : blank[i].status = 0
  BY <1>1, <1>2
<1>4. rt = [r \in TcpNode |-> IF t.con[r].status = "CONNECTED" THEN routes[r] ELSE blank]
  BY <1>2 DEF Forget
<1> QED
  BY <1>3, <1>4 DEF RoutesSound

LEMMA RoutesWritten ==
  ASSUME NEW con, NEW rt, RoutesSound(con, rt), NEW r \in TcpNode, con[r].status = "CONNECTED",
         NEW route \in [SlotId -> RouteRecord], NEW new, new = [rt EXCEPT ![r] = route]
  PROVE  RoutesSound(con, new)
BY DEF RoutesSound

\* A call that changes nothing but tc.
LEMMA CallKept ==
  ASSUME TcpConnInv, NEW t, NEW y \in BOOLEAN, Sound(t, y) /\ Calm(tc, t), tc' = t,
         stray' \in BOOLEAN, ~stray' => y, UNCHANGED <<routes, loop>>
  PROVE  TcpConnInv'
<1>1. RoutesSound(tc.con, routes) /\ loop \in LoopRecord
  BY DEF TcpConnInv, LoopRecord
<1>2. RoutesSound(t.con, routes)
  BY <1>1, RoutesKept
<1> QED
  BY <1>1, <1>2, StepKept

\* The two cases of the invariant as a rigid value.
LEMMA Exactly ==
  ASSUME TcpConnInv
  PROVE  \E x \in BOOLEAN : x = ~stray /\ Sound(tc, x)
<1>1. Sound(tc, ~stray)
  BY DEF TcpConnInv
<1>2. PICK x \in BOOLEAN : x = ~stray
  BY Zenon
<1>3. Sound(tc, x)
  BY <1>1, <1>2, Zenon
<1> QED
  BY <1>2, <1>3

\* A call that sends no disconnect request astray.
LEMMA CallStep ==
  ASSUME TcpConnInv, NEW t, TcpCall(t, FALSE), Calm(tc, t),
         NEW x \in BOOLEAN, x = ~stray, Sound(t, x)
  PROVE  TcpConnInv'
<1>1. stray \in BOOLEAN
  BY DEF TcpConnInv
<1>2. tc' = t /\ stray' = (stray \/ FALSE) /\ UNCHANGED <<routes, loop>>
  BY DEF TcpCall
<1>3. stray' \in BOOLEAN /\ (~stray' => x)
  BY <1>1, <1>2
<1> QED
  BY <1>2, <1>3, CallKept

\* One lemma for each action of TcpConnNext.
LEMMA NewToStep ==
  ASSUME TcpConnInv, NEW pk \in TcpPeer, new_tcp_connection_to(pk)
  PROVE  TcpConnInv'
<1>1. PICK x \in BOOLEAN : x = ~stray /\ Sound(tc, x)
  BY Exactly
<1>2. PICK n : n = Min({m \in ConnNo : tc.to[m].status = "NONE"})
  OBVIOUS
<1>3. PICK e : e = [NoConTo EXCEPT !.status = "VALID", !.pk = pk]
  OBVIOUS
<1>4. PICK u : u = [tc EXCEPT !.to[n] = e]
  OBVIOUS
<1>5. find_tcp_connection_to(tc, pk) = {} /\ TcpCall(u, FALSE)
  BY <1>2, <1>3, <1>4, Zenon DEF new_tcp_connection_to
<1>6. Sound(u, x) /\ Calm(tc, u)
  BY <1>1, <1>2, <1>3, <1>4, <1>5, NewToSound
<1> QED
  BY <1>1, <1>5, <1>6, CallStep

LEMMA KillToStep ==
  ASSUME TcpConnInv, NEW n \in ConnNo, kill_tcp_connection_to(n)
  PROVE  TcpConnInv'
<1>1. PICK x \in BOOLEAN : x = ~stray /\ Sound(tc, x)
  BY Exactly
<1>2. PICK con : con = [r \in TcpNode |-> IF Tied(tc, n, r) THEN UntieKilled(tc.con[r], tc.to[n], tc.to[n].ties[r])
                                          ELSE tc.con[r]]
  OBVIOUS
<1>3. PICK u : u = [tc EXCEPT !.to[n] = NoConTo, !.con = con]
  OBVIOUS
<1>4. PICK strays \in BOOLEAN :
        strays = (\E r \in TcpNode : tc.con[r].status = "CONNECTED" /\ tc.to[n].ties[r].status = "NONE")
  BY Zenon
<1>5. TcpCall(u, strays)
  BY <1>2, <1>3, <1>4, Zenon DEF kill_tcp_connection_to
<1>6. tc' = u /\ stray' = (stray \/ strays) /\ UNCHANGED <<routes, loop>>
  BY <1>5 DEF TcpCall
<1>7. PICK y \in BOOLEAN : y = (x /\ ~strays)
  BY Zenon
<1>8. (y => x) /\ (y => \A r \in TcpNode : ~(tc.con[r].status = "CONNECTED" /\ tc.to[n].ties[r].status = "NONE"))
  BY <1>4, <1>7
<1>9. Sound(u, y) /\ Calm(tc, u)
  BY <1>1, <1>2, <1>3, <1>8, KillToSound
<1>10. stray' \in BOOLEAN /\ (~stray' => y)
  BY <1>1, <1>6, <1>7 DEF TcpConnInv
<1> QED
  BY <1>6, <1>9, <1>10, CallKept

LEMMA UseStep ==
  ASSUME TcpConnInv, NEW n \in ConnNo, set_tcp_connection_to_status(n)
  PROVE  TcpConnInv'
<1>1. PICK x \in BOOLEAN : x = ~stray /\ Sound(tc, x)
  BY Exactly
<1>2. PICK u : /\ TcpCall(u, FALSE)
               /\ \/ u = [tc EXCEPT !.to[n].status = "VALID",
                                    !.con = [r \in TcpNode |->
                                      [tc.con[r] EXCEPT !.unsleep = @ \/ (Tied(tc, n, r) /\ tc.con[r].status = "SLEEPING")]]]
                  \/ u = [tc EXCEPT !.to[n].status = "SLEEPING",
                                    !.con = [r \in TcpNode |->
                                      [tc.con[r] EXCEPT !.sleep = @ + (IF r \in OnlineTies(tc.to[n]) THEN 1 ELSE 0)]]]
  BY Zenon DEF set_tcp_connection_to_status, UseConnection, RestConnection
<1>3. tc.to[n].status # "NONE"
  BY DEF set_tcp_connection_to_status, UseConnection, RestConnection
<1>4. Sound(u, x) /\ Calm(tc, u)
  BY <1>1, <1>2, <1>3, UseSound, ZenonT(60)
<1> QED
  BY <1>1, <1>2, <1>4, CallStep

LEMMA AddRelayStep ==
  ASSUME TcpConnInv, NEW n \in ConnNo, NEW r \in TcpNode, add_tcp_relay_connection(n, r)
  PROVE  TcpConnInv'
<1>1. PICK x \in BOOLEAN : x = ~stray /\ Sound(tc, x)
  BY Exactly
<1>2. PICK u : u = IF tc.con[r].status # "NONE" THEN TieKnown(n, r) ELSE TieNew(n, r)
  OBVIOUS
<1>3. TcpCall(u, FALSE) /\ tc.to[n].status # "NONE"
  BY <1>2, Zenon DEF add_tcp_relay_connection, IsConn
<1>4. CASE tc.con[r].status # "NONE"
  <2>1. u = TieKnown(n, r)
    BY <1>2, <1>4
  <2>2. Sound(u, x) /\ Calm(tc, u)
    BY <1>1, <1>3, <2>1, TieKnownSound
  <2> QED
    BY <1>1, <1>3, <2>2, CallStep
<1>5. CASE tc.con[r].status = "NONE"
  <2>1. u = TieNew(n, r)
    BY <1>2, <1>5
  <2>2. Sound(u, x) /\ Calm(tc, u)
    BY <1>1, <1>3, <1>5, <2>1, TieNewSound
  <2> QED
    BY <1>1, <1>3, <2>2, CallStep
<1> QED
  BY <1>4, <1>5

LEMMA AddGlobalStep ==
  ASSUME TcpConnInv, NEW r \in TcpNode, add_tcp_relay_global(r)
  PROVE  TcpConnInv'
<1>1. PICK x \in BOOLEAN : x = ~stray /\ Sound(tc, x)
  BY Exactly
<1>2. PICK u : u = Connecting(tc, r, tc)
  OBVIOUS
<1>3. TcpCall(u, FALSE) /\ tc.con[r].status # "CONNECTED"
  BY <1>2 DEF add_tcp_relay_global
<1>4. Sound(u, x) /\ Calm(tc, u)
  BY <1>1, <1>2, <1>3, NewConnectionSound
<1> QED
  BY <1>1, <1>3, <1>4, CallStep

LEMMA OnionStep ==
  ASSUME TcpConnInv, set_tcp_onion_status
  PROVE  TcpConnInv'
<1>1. PICK x \in BOOLEAN : x = ~stray /\ Sound(tc, x)
  BY Exactly
<1>2. PICK usable : usable = {r \in TcpNode : tc.con[r].status = "CONNECTED" /\ ~tc.con[r].onion}
  OBVIOUS
<1>3. CASE ~tc.onion
  <2>1. PICK given \in SUBSET usable : /\ Cardinality(given) = Min({Recommended, Cardinality(usable)})
                                       /\ TcpCall(StartOnion(given), FALSE)
    BY <1>2, <1>3, Zenon DEF set_tcp_onion_status
  <2>2. given \subseteq TcpNode /\ \A r \in given : tc.con[r].status = "CONNECTED"
    BY <1>2, <2>1
  <2>3. Cardinality(given) <= Recommended
    <3>1. IsFiniteSet(usable)
      BY <1>2, TcpConstants, FS_Subset
    <3>2. PICK k \in Nat : k = Cardinality(usable)
      BY <3>1, FS_CardinalityType
    <3>3. {Recommended, k} \subseteq Nat /\ {Recommended, k} # {}
      BY TcpConstants
    <3>4. Min({Recommended, k}) <= Recommended
      BY <3>3, LeastOf
    <3> QED
      BY <2>1, <3>2, <3>4
  <2>4. PICK u : u = StartOnion(given)
    OBVIOUS
  <2>5. TcpCall(u, FALSE)
    BY <2>1, <2>4
  <2>6. Sound(u, x) /\ Calm(tc, u)
    BY <1>1, <1>3, <2>2, <2>3, <2>4, StartOnionSound
  <2> QED
    BY <1>1, <2>5, <2>6, CallStep
<1>4. CASE tc.onion
  <2>1. PICK u : u = StopOnion
    OBVIOUS
  <2>2. TcpCall(u, FALSE)
    BY <1>4, <2>1, Zenon DEF set_tcp_onion_status
  <2>3. Sound(u, x) /\ Calm(tc, u)
    BY <1>1, <2>1, StopOnionSound
  <2> QED
    BY <1>1, <2>2, <2>3, CallStep
<1> QED
  BY <1>3, <1>4

LEMMA LoopStarts ==
  ASSUME TcpConnInv, do_tcp_connections
  PROVE  TcpConnInv'
<1>1. loop' \in LoopRecord
  BY DEF do_tcp_connections, LoopRecord
<1>2. UNCHANGED <<tc, routes, stray>>
  BY DEF do_tcp_connections
<1> QED
  BY <1>1, <1>2 DEF TcpConnInv, LoopRecord

LEMMA ReadStep ==
  ASSUME TcpConnInv, NEW r \in TcpNode, do_TCP_connection(r)
  PROVE  TcpConnInv'
<1>1. PICK x \in BOOLEAN : x = ~stray /\ Sound(tc, x)
  BY Exactly
<1>2. PICK u : u = NextPacket(tc, r)
  OBVIOUS
<1>3. tc' = u /\ UNCHANGED <<routes, stray>> /\ tc.con[r].in # << >>
  BY <1>2 DEF do_TCP_connection
<1>4. Sound(u, x) /\ Calm(tc, u)
  BY <1>1, <1>2, <1>3, NextPacketSound
<1>5. loop' \in LoopRecord
  BY DEF TcpConnInv, do_TCP_connection, LoopRecord
<1>6. RoutesSound(u.con, routes)
  BY <1>4, RoutesKept DEF TcpConnInv
<1>7. stray' \in BOOLEAN /\ (~stray' => x)
  BY <1>1, <1>3 DEF TcpConnInv
<1> QED
  BY <1>3, <1>4, <1>5, <1>6, <1>7, StepKept

LEMMA VisitStep ==
  ASSUME TcpConnInv, NEW r \in TcpNode, do_tcp_conns(r)
  PROVE  TcpConnInv'
<1>1. PICK x \in BOOLEAN : x = ~stray /\ Sound(tc, x)
  BY Exactly
<1>2. PICK fails \in SUBSET {r} : tc' = DoRelay(tc, r, fails)
  BY DEF do_tcp_conns
<1>3. PICK u : u = DoRelay(tc, r, fails)
  OBVIOUS
<1>4. tc' = u /\ routes' = Forget(u) /\ UNCHANGED stray
  BY <1>2, <1>3 DEF do_tcp_conns
<1>5. Sound(u, x)
  BY <1>1, <1>3, DoRelaySound
<1>6. loop' \in LoopRecord
  BY DEF TcpConnInv, do_tcp_conns, LoopRecord
<1>7. RoutesSound(u.con, routes')
  BY <1>4, RoutesForgotten DEF TcpConnInv
<1>8. stray' \in BOOLEAN /\ (~stray' => x)
  BY <1>1, <1>4 DEF TcpConnInv
<1> QED
  BY <1>4, <1>5, <1>6, <1>7, <1>8, StepKept

LEMMA KillNonusedStep ==
  ASSUME TcpConnInv, kill_nonused_tcp
  PROVE  TcpConnInv'
<1>1. PICK x \in BOOLEAN : x = ~stray /\ Sound(tc, x)
  BY Exactly
<1>2. PICK unused : unused = {r \in TcpNode : /\ tc.con[r].status = "CONNECTED" /\ ~tc.con[r].onion
                                              /\ tc.con[r].lock = 0 /\ ~tc.con[r].fresh}
  OBVIOUS
<1>3. PICK killed \in SUBSET unused :
        tc' = [tc EXCEPT
                 !.to = [n \in ConnNo |->
                           [tc.to[n] EXCEPT !.ties = [r \in TcpNode |-> IF r \in killed THEN NoTie ELSE @[r]]]],
                 !.con = [r \in TcpNode |-> IF r \in killed THEN NoCon ELSE tc.con[r]]]
  BY <1>2, Zenon DEF kill_nonused_tcp
<1>4. PICK to : to = tc.to
  OBVIOUS
<1>5. PICK up : up = [n \in ConnNo |-> [to[n] EXCEPT !.ties = [r \in TcpNode |-> IF r \in killed THEN NoTie ELSE @[r]]]]
  OBVIOUS
<1>6. PICK con : con = [r \in TcpNode |-> IF r \in killed THEN NoCon ELSE tc.con[r]]
  OBVIOUS
<1>7. PICK u : u = [tc EXCEPT !.to = up, !.con = con]
  OBVIOUS
<1>8. tc' = u
  BY <1>3, <1>4, <1>5, <1>6, <1>7, Zenon
<1>9. killed \subseteq TcpNode /\ \A r \in killed : ~tc.con[r].onion
  BY <1>2, <1>3
<1>10. Untied(tc.to, up, killed)
  <2>1. to \in [ConnNo -> ConToRecord] /\ KeysSound(to)
    BY <1>1, <1>4 DEF Sound, TcRecord
  <2>2. Untied(to, up, killed)
    BY <1>5, <1>9, <2>1, TiesDropped
  <2> QED
    BY <1>4, <2>2
<1>11. /\ con \in [TcpNode -> ConRecord] /\ \A r \in killed : con[r] = NoCon
       /\ \A r \in TcpNode \ killed : con[r] = tc.con[r]
  BY <1>1, <1>6, <1>9, BlankRecords DEF Sound, TcRecord
<1>12. Sound(u, x)
  BY <1>1, <1>7, <1>9, <1>10, <1>11, NonusedKilledSound
<1>13. routes' = Forget(u) /\ UNCHANGED stray
  BY <1>8 DEF kill_nonused_tcp
<1>14. loop' \in LoopRecord
  BY DEF TcpConnInv, kill_nonused_tcp, LoopRecord
<1>15. RoutesSound(u.con, routes')
  BY <1>13, RoutesForgotten DEF TcpConnInv
<1>16. stray' \in BOOLEAN /\ (~stray' => x)
  BY <1>1, <1>13 DEF TcpConnInv
<1> QED
  BY <1>8, <1>12, <1>14, <1>15, <1>16, StepKept

LEMMA FlagStep ==
  ASSUME TcpConnInv, NEW r \in TcpNode, NEW d \in ConRecord, SameParts(tc.con[r], d),
         tc' = [tc EXCEPT !.con[r] = d], UNCHANGED <<routes, loop, stray>>
  PROVE  TcpConnInv'
<1>1. PICK x \in BOOLEAN : x = ~stray /\ Sound(tc, x)
  BY Exactly
<1>2. PICK u : u = [tc EXCEPT !.con[r] = d]
  OBVIOUS
<1>3. Sound(u, x) /\ Calm(tc, u)
  BY <1>1, <1>2, OneFlagSet
<1>4. stray' \in BOOLEAN /\ (~stray' => x)
  BY <1>1 DEF TcpConnInv
<1> QED
  BY <1>2, <1>3, <1>4, CallKept

LEMMA TimeoutStep ==
  ASSUME TcpConnInv, NEW r \in TcpNode, AnnounceTimeout(r) \/ SocketChanges(r)
  PROVE  TcpConnInv'
<1>1. PICK c \in ConRecord : c = tc.con[r]
  BY DEF TcpConnInv, Sound, TcRecord
<1>2. tc \in TcRecord
  BY DEF TcpConnInv, Sound
<1>3. UNCHANGED <<routes, loop, stray>>
  BY DEF AnnounceTimeout, SocketChanges
<1>4. CASE AnnounceTimeout(r)
  <2>1. PICK d : d = [c EXCEPT !.fresh = FALSE]
    OBVIOUS
  <2>2. d \in ConRecord /\ SameParts(c, d)
    BY <2>1, PartsKept
  <2>3. tc' = [tc EXCEPT !.con[r] = d]
    BY <1>1, <1>2, <1>4, <2>1 DEF AnnounceTimeout, TcRecord
  <2> QED
    BY <1>1, <1>3, <2>2, <2>3, FlagStep
<1>5. CASE SocketChanges(r)
  <2>1. PICK up \in {"CONFIRMED", "DISCONNECTED"} : tc' = [tc EXCEPT !.con[r].up = up]
    BY <1>5 DEF SocketChanges
  <2>2. PICK d : d = [c EXCEPT !.up = up]
    OBVIOUS
  <2>3. d \in ConRecord /\ SameParts(c, d)
    BY <2>2, PartsKept
  <2>4. tc' = [tc EXCEPT !.con[r] = d]
    BY <1>1, <1>2, <2>1, <2>2 DEF TcRecord
  <2> QED
    BY <1>1, <1>3, <2>3, <2>4, FlagStep
<1> QED
  BY <1>4, <1>5

\* A step of the relay: what it does to the streams, and to its slots.
LEMMA RelayStep ==
  ASSUME TcpConnInv, NEW r \in TcpNode, NEW x \in BOOLEAN, x = ~stray, NEW u, Sound(u, x),
         u.con[r].status = "CONNECTED", Calm(tc, u), tc' = u, UNCHANGED <<loop, stray>>,
         NEW route \in [SlotId -> RouteRecord], routes' = [routes EXCEPT ![r] = route]
  PROVE  TcpConnInv'
<1>1. RoutesSound(u.con, routes)
  BY RoutesKept DEF TcpConnInv
<1>2. RoutesSound(u.con, routes')
  BY <1>1, RoutesWritten
<1>3. stray' \in BOOLEAN /\ (~stray' => x) /\ loop' \in LoopRecord
  BY DEF TcpConnInv, LoopRecord
<1> QED
  BY <1>2, <1>3, StepKept

LEMMA RouteWritten ==
  ASSUME NEW route \in [SlotId -> RouteRecord], NEW i \in SlotId, NEW k \in 0 .. 2, NEW pk \in AnyKey,
         NEW new, new = [route EXCEPT ![i] = [status |-> k, pk |-> pk]]
  PROVE  new \in [SlotId -> RouteRecord]
BY DEF RouteRecord

LEMMA AnswerStep ==
  ASSUME TcpConnInv, NEW r \in TcpNode, tc.con[r].out # << >>, RelayRoutes(r), UNCHANGED <<loop, stray>>
  PROVE  TcpConnInv'
<1>1. PICK x \in BOOLEAN : x = ~stray /\ Sound(tc, x)
  BY Exactly
<1>2. PICK c : c = tc.con[r]
  OBVIOUS
<1>3. tc \in TcRecord /\ c \in ConRecord /\ c.out \in Seq(OutPacket) /\ c.out # << >>
  BY <1>1, <1>2 DEF Sound, TcRecord, ConRecord
<1>4. PICK pk : pk = Head(c.out).pk
  OBVIOUS
<1>5. Head(c.out).type = "request" /\ pk \in TcpPeer
  <2>1. Head(c.out) \in OutPacket
    BY <1>3, TailIs
  <2>2. Head(c.out).type = "request"
    BY <1>2 DEF RelayRoutes
  <2> QED
    BY <1>4, <2>1, <2>2 DEF OutPacket
<1>6. PICK old \in [SlotId -> RouteRecord] : old = routes[r]
  BY DEF TcpConnInv, RoutesSound
<1>7. PICK known : known = {i \in SlotId : old[i].status # 0 /\ old[i].pk = pk}
  OBVIOUS
<1>8. PICK free : free = {i \in SlotId : old[i].status = 0}
  OBVIOUS
<1>9. \E i \in SlotId : \E packets \in Answers(pk, i), route \in [SlotId -> RouteRecord] :
        /\ tc' = [tc EXCEPT !.con[r] = [tc.con[r] EXCEPT !.out = Tail(@), !.in = @ \o packets]]
        /\ routes' = [routes EXCEPT ![r] = route]
  <2>1. known = {i \in SlotId : routes[r][i].status # 0 /\ routes[r][i].pk = Head(tc.con[r].out).pk}
    BY <1>2, <1>4, <1>6, <1>7
  <2>2. free = {i \in SlotId : routes[r][i].status = 0}
    BY <1>6, <1>8
  <2>3. CASE known # {}
    <3>1. Min(known) \in SlotId
      BY <1>7, <2>3, LeastOf, TcpConstants
    <3>2. /\ tc' = [tc EXCEPT !.con[r] = [tc.con[r] EXCEPT !.out = Tail(@),
                                                   !.in = @ \o <<[type |-> "response", id |-> Min(known), pk |-> pk]>>]]
          /\ routes' = [routes EXCEPT ![r] = old]
      BY <1>2, <1>4, <1>6, <2>1, <2>3, Zenon DEF RelayRoutes, RelaySends
    <3>3. <<[type |-> "response", id |-> Min(known), pk |-> pk]>> \in Answers(pk, Min(known))
      BY DEF Answers
    <3> QED
      BY <1>6, <3>1, <3>2, <3>3
  <2>4. CASE known = {} /\ free = {}
    <3>1. /\ tc' = [tc EXCEPT !.con[r] = [tc.con[r] EXCEPT !.out = Tail(@), !.in = @ \o << >>]]
          /\ routes' = [routes EXCEPT ![r] = old]
      BY <1>6, <2>1, <2>2, <2>4, Zenon DEF RelayRoutes, RelaySends
    <3>2. 0 \in SlotId /\ << >> \in Answers(pk, 0)
      BY TcpConstants DEF Answers
    <3> QED
      BY <1>6, <3>1, <3>2
  <2>5. CASE known = {} /\ free # {}
    <3>1. PICK i : i = Min(free)
      OBVIOUS
    <3>2. i \in SlotId
      BY <1>8, <2>5, <3>1, LeastOf, TcpConstants
    <3>3. PICK a : a = <<[type |-> "response", id |-> i, pk |-> pk]>>
      OBVIOUS
    <3>4. PICK b : b = <<[type |-> "response", id |-> i, pk |-> pk], [type |-> "connect", id |-> i]>>
      OBVIOUS
    <3>5. PICK f : f = [old EXCEPT ![i] = [status |-> 1, pk |-> pk]]
      OBVIOUS
    <3>6. PICK g : g = [old EXCEPT ![i] = [status |-> 2, pk |-> pk]]
      OBVIOUS
    <3>7. f \in [SlotId -> RouteRecord] /\ g \in [SlotId -> RouteRecord]
      <4>1. pk \in AnyKey /\ 1 \in 0 .. 2 /\ 2 \in 0 .. 2
        BY <1>5 DEF AnyKey
      <4> QED
        BY <1>6, <3>2, <3>5, <3>6, <4>1, RouteWritten
    <3>8. a \in Answers(pk, i) /\ b \in Answers(pk, i)
      BY <3>3, <3>4 DEF Answers
    <3>9. \/ /\ tc' = [tc EXCEPT !.con[r] = [tc.con[r] EXCEPT !.out = Tail(@), !.in = @ \o a]]
             /\ routes' = [routes EXCEPT ![r] = f]
          \/ /\ tc' = [tc EXCEPT !.con[r] = [tc.con[r] EXCEPT !.out = Tail(@), !.in = @ \o b]]
             /\ routes' = [routes EXCEPT ![r] = g]
      BY <1>2, <1>4, <1>6, <2>1, <2>2, <2>5, <3>1, <3>3, <3>4, <3>5, <3>6, Zenon DEF RelayRoutes, RelaySends
    <3> QED
      BY <3>2, <3>7, <3>8, <3>9
  <2> QED
    BY <2>3, <2>4, <2>5
<1>10. PICK i \in SlotId : \E packets \in Answers(pk, i), route \in [SlotId -> RouteRecord] :
         /\ tc' = [tc EXCEPT !.con[r] = [tc.con[r] EXCEPT !.out = Tail(@), !.in = @ \o packets]]
         /\ routes' = [routes EXCEPT ![r] = route]
  BY <1>9
<1>11. PICK packets \in Answers(pk, i), route \in [SlotId -> RouteRecord] :
         /\ tc' = [tc EXCEPT !.con[r] = [tc.con[r] EXCEPT !.out = Tail(@), !.in = @ \o packets]]
         /\ routes' = [routes EXCEPT ![r] = route]
  BY <1>10
<1>12. PICK u : Answered(tc, u, r, packets)
  BY DEF Answered
<1>13. tc' = u
  BY <1>11, <1>12, Zenon DEF Answered
<1>14. Asked(tc, r, i, packets)
  BY <1>2, <1>3, <1>4, <1>5, <1>11, <1>10 DEF Asked
<1>15. Sound(u, x) /\ u.con[r].status = "CONNECTED" /\ Calm(tc, u)
  BY <1>1, <1>12, <1>14, AnsweredSound
<1> QED
  BY <1>1, <1>11, <1>13, <1>15, RelayStep

LEMMA DropStep ==
  ASSUME TcpConnInv, NEW r \in TcpNode, tc.con[r].out # << >>, RelayDisconnects(r), UNCHANGED <<loop, stray>>
  PROVE  TcpConnInv'
<1>1. PICK x \in BOOLEAN : x = ~stray /\ Sound(tc, x)
  BY Exactly
<1>2. PICK c : c = tc.con[r]
  OBVIOUS
<1>3. c.out \in Seq(OutPacket) /\ c.out # << >>
  BY <1>1, <1>2 DEF Sound, TcRecord, ConRecord
<1>4. PICK id : id = Head(c.out).id
  OBVIOUS
<1>5. id \in SlotId
  <2>1. Head(c.out) \in OutPacket
    BY <1>3, TailIs
  <2>2. Head(c.out).type = "disconnect"
    BY <1>2 DEF RelayDisconnects
  <2> QED
    BY <1>4, <2>1, <2>2 DEF OutPacket
<1>6. PICK old \in [SlotId -> RouteRecord] : old = routes[r]
  BY DEF TcpConnInv, RoutesSound
<1>7. routes \in [TcpNode -> [SlotId -> RouteRecord]]
  BY DEF TcpConnInv, RoutesSound
<1>8. PICK u : u = tc'
  OBVIOUS
<1>9. Dropped(tc, u, r)
  BY <1>8 DEF RelayDisconnects, Dropped
<1>10. Sound(u, x) /\ u.con[r].status = "CONNECTED" /\ Calm(tc, u)
  BY <1>1, <1>9, DroppedSound
<1>11. PICK freed : freed = [old EXCEPT ![id] = NoRoute]
  OBVIOUS
<1>12. freed \in [SlotId -> RouteRecord]
  <2>1. NoRoute \in RouteRecord
    BY DEF NoRoute, RouteRecord, AnyKey
  <2> QED
    BY <1>6, <1>11, <2>1
<1>13. routes' \in {[routes EXCEPT ![r] = old], [routes EXCEPT ![r] = freed]}
  <2>1. routes' = routes \/ routes' = [routes EXCEPT ![r][id] = NoRoute]
    BY <1>2, <1>4 DEF RelayDisconnects
  <2>2. [routes EXCEPT ![r][id] = NoRoute] = [routes EXCEPT ![r] = freed]
    BY <1>6, <1>11
  <2>3. routes = [routes EXCEPT ![r] = old]
    BY <1>6, <1>7
  <2> QED
    BY <2>1, <2>2, <2>3
<1>14. PICK route \in [SlotId -> RouteRecord] : routes' = [routes EXCEPT ![r] = route]
  BY <1>6, <1>12, <1>13
<1> QED
  BY <1>1, <1>8, <1>10, <1>14, RelayStep

LEMMA PeerStep ==
  ASSUME TcpConnInv, NEW r \in TcpNode, NEW i \in SlotId, PeerActs(r, i)
  PROVE  TcpConnInv'
<1>1. PICK x \in BOOLEAN : x = ~stray /\ Sound(tc, x)
  BY Exactly
<1>2. PICK old \in [SlotId -> RouteRecord] : old = routes[r]
  BY DEF TcpConnInv, RoutesSound
<1>3. PICK type \in {"connect", "disconnect"}, k \in 0 .. 2 :
        /\ tc' = [tc EXCEPT !.con[r].in = Append(@, [type |-> type, id |-> i])]
        /\ routes' = [routes EXCEPT ![r] = [routes[r] EXCEPT ![i].status = k]]
        /\ routes[r][i].status # 0
  <2>1. CASE routes[r][i].status = 1
    BY <2>1 DEF PeerActs, RelaySends
  <2>2. CASE routes[r][i].status = 2
    BY <2>2 DEF PeerActs, RelaySends
  <2> QED
    BY <2>1, <2>2 DEF PeerActs
<1>4. tc.con[r].status = "CONNECTED"
  BY <1>3 DEF TcpConnInv, RoutesSound
<1>5. PICK p : p = [type |-> type, id |-> i]
  OBVIOUS
<1>6. PICK u : u = tc'
  OBVIOUS
<1>7. Told(tc, u, r, p)
  <2>1. p \in InPacket /\ ~Answer(p)
    BY <1>3, <1>5 DEF InPacket, Answer
  <2> QED
    BY <1>3, <1>5, <1>6, <2>1 DEF Told
<1>8. Sound(u, x) /\ u.con[r].status = "CONNECTED" /\ Calm(tc, u)
  BY <1>1, <1>4, <1>7, ToldSound
<1>9. PICK route : route = [old EXCEPT ![i].status = k]
  OBVIOUS
<1>10. route \in [SlotId -> RouteRecord]
  BY <1>2, <1>3, <1>9 DEF RouteRecord
<1>11. routes' = [routes EXCEPT ![r] = route] /\ UNCHANGED <<loop, stray>>
  BY <1>2, <1>3, <1>9 DEF PeerActs
<1> QED
  BY <1>1, <1>6, <1>8, <1>10, <1>11, RelayStep

LEMMA TcpConnInitInv ==
  TcpConnInit => TcpConnInv
<1> SUFFICES ASSUME TcpConnInit PROVE TcpConnInv
  OBVIOUS
<1>1. PICK to : to = [n \in ConnNo |-> NoConTo]
  OBVIOUS
<1>2. PICK con : con = [r \in TcpNode |-> NoCon]
  OBVIOUS
<1>3. to \in [ConnNo -> ConToRecord] /\ con \in [TcpNode -> ConRecord]
  BY <1>1, <1>2, BlankRecords
<1>4. tc = [to |-> to, con |-> con, onion |-> FALSE, num |-> 0]
  BY <1>1, <1>2, Zenon DEF TcpConnInit
<1>5. tc \in TcRecord /\ tc.to = to /\ tc.con = con /\ tc.onion = FALSE /\ tc.num = 0
  BY <1>3, <1>4 DEF TcRecord
<1>6. KeysSound(to)
  BY <1>1, BlankRecords DEF KeysSound
<1>7. OnionSound(tc)
  <2>1. \A r \in TcpNode : tc.con[r].onion = FALSE
    BY <1>2, <1>5, BlankRecords
  <2>2. {r \in TcpNode : tc.con[r].onion} = {}
    BY <2>1
  <2>3. Cardinality({r \in TcpNode : tc.con[r].onion}) = 0
    BY <2>2, FS_EmptySet
  <2>4. 0 <= Recommended
    BY TcpConstants
  <2>5. \A r \in TcpNode : ~tc.con[r].onion
    BY <2>1
  <2> QED
    BY <1>5, <2>3, <2>4, <2>5 DEF OnionSound
<1>8. ASSUME NEW r \in TcpNode PROVE IdleSound(to, con[r], r) /\ Exact(to, con[r], r)
  <2>1. PICK c : c = con[r]
    OBVIOUS
  <2>2. c = NoCon
    BY <1>2, <2>1
  <2>3. \A n \in ConnNo : to[n].ties[r].status = "UNTIED"
    BY <1>1, BlankRecords
  <2>4. IdleSound(to, c, r) /\ c.status # "CONNECTED"
    BY <2>2, <2>3, BlankRecords DEF IdleSound
  <2> QED
    BY <2>1, <2>4, IdleExact
<1>9. Sound(tc, ~stray)
  BY <1>5, <1>6, <1>7, <1>8 DEF Sound
<1>10. RoutesSound(tc.con, routes)
  <2>1. NoRoute \in RouteRecord /\ NoRoute.status = 0
    BY DEF NoRoute, RouteRecord, AnyKey
  <2> QED
    BY <2>1 DEF TcpConnInit, RoutesSound
<1>11. stray \in BOOLEAN /\ loop \in [on : BOOLEAN, todo : SUBSET TcpNode, reads : SUBSET TcpNode]
  BY DEF TcpConnInit
<1> QED
  BY <1>9, <1>10, <1>11 DEF TcpConnInv

LEMMA TcpConnStep ==
  TcpConnInv /\ [TcpConnNext]_tcpConnVars => TcpConnInv'
<1> SUFFICES ASSUME TcpConnInv, [TcpConnNext]_tcpConnVars PROVE TcpConnInv'
  OBVIOUS
<1>1. CASE \E pk \in TcpPeer : new_tcp_connection_to(pk)
  BY <1>1, NewToStep
<1>2. CASE \E n \in ConnNo : kill_tcp_connection_to(n)
  BY <1>2, KillToStep
<1>3. CASE \E n \in ConnNo : set_tcp_connection_to_status(n)
  BY <1>3, UseStep
<1>4. CASE \E n \in ConnNo, r \in TcpNode : add_tcp_relay_connection(n, r)
  BY <1>4, AddRelayStep
<1>5. CASE \E r \in TcpNode : add_tcp_relay_global(r)
  BY <1>5, AddGlobalStep
<1>6. CASE set_tcp_onion_status
  BY <1>6, OnionStep
<1>7. CASE do_tcp_connections
  BY <1>7, LoopStarts
<1>8. CASE kill_nonused_tcp
  BY <1>8, KillNonusedStep
<1>9. CASE \E r \in TcpNode : do_TCP_connection(r)
  BY <1>9, ReadStep
<1>10. CASE \E r \in TcpNode : do_tcp_conns(r)
  BY <1>10, VisitStep
<1>11. CASE \E r \in TcpNode : AnnounceTimeout(r) \/ SocketChanges(r)
  BY <1>11, TimeoutStep
<1>12. CASE \E r \in TcpNode : RelayReads(r)
  <2>1. PICK r \in TcpNode : RelayReads(r)
    BY <1>12
  <2>2. tc.con[r].out # << >> /\ UNCHANGED <<loop, stray>> /\ (RelayRoutes(r) \/ RelayDisconnects(r))
    BY <2>1 DEF RelayReads
  <2> QED
    BY <2>2, AnswerStep, DropStep
<1>13. CASE \E r \in TcpNode, i \in SlotId : PeerActs(r, i)
  BY <1>13, PeerStep
<1>14. CASE UNCHANGED tcpConnVars
  BY <1>14 DEF tcpConnVars, TcpConnInv
<1> QED
  BY <1>1, <1>2, <1>3, <1>4, <1>5, <1>6, <1>7, <1>8, <1>9, <1>10, <1>11, <1>12, <1>13, <1>14 DEF TcpConnNext

\* RelayCountsAreExact for every number of peers, relays, slots, packets and
\* calls: onion_num_conns is exact through reconnect_, sleep_ and
\* kill_tcp_relay_connection and set_tcp_onion_status; and as long as
\* kill_tcp_connection_to has sent no disconnect request for a tie without a
\* slot, lock_count, on which kill_nonused_tcp and the decision to sleep rest,
\* is the number of peers online at the relay, and the number a client slot
\* holds is that of the connection to its peer.
THEOREM RelayCountsStayExact == TcpConnSpec => []RelayCountsAreExact
<1>1. TcpConnInv => RelayCountsAreExact
  <2> SUFFICES ASSUME TcpConnInv PROVE RelayCountsAreExact
    OBVIOUS
  <2>1. OnionSound(tc) /\ (~stray => \A r \in TcpNode : Exact(tc.to, tc.con[r], r))
    BY DEF TcpConnInv, Sound
  <2>2. ASSUME ~stray, NEW r \in TcpNode
        PROVE  /\ tc.con[r].lock = Cardinality(UsersOf(tc, r))
               /\ \A i \in SlotId : LET slot == tc.con[r].slots[i]
                                    IN  slot.status # 0 /\ slot.number # NoNumber => tc.to[slot.number].pk = slot.pk
    <3>1. Exact(tc.to, tc.con[r], r)
      BY <2>1, <2>2
    <3>2. UsersOf(tc, r) = OnlineAt(tc.to, r)
      BY DEF UsersOf, OnlineAt, OnlineTies
    <3> QED
      BY <3>1, <3>2 DEF Exact, SlotsSound
  <2> QED
    BY <2>1, <2>2 DEF RelayCountsAreExact, OnionSound
<1> QED
  BY <1>1, TcpConnInitInv, TcpConnStep, PTL DEF TcpConnSpec
=============================================================================
