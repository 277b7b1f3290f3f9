------------------------------ MODULE Av_proofs ------------------------------
(***************************************************************************)
(* Proofs about calls: their signalling (module AvCall), for every set of  *)
(* media and any number of calls, changes of capabilities, failed sends    *)
(* and messages on their way, and their frames (module RtpSession), for    *)
(* frames and pieces of every length and any number of packets lost,       *)
(* overtaken or arriving twice.                                            *)
(*                                                                         *)
(* CallsAreBacked and PictureIsRight speak of one node's MSICall,          *)
(* ToxAVCall and application, which only that node's steps change: both    *)
(* are inductive once the types are known.                                 *)
(*                                                                         *)
(* CapabilitiesAgree relates both nodes and the messages between them.     *)
(* FirstCall, its inductive form, follows the first call through its       *)
(* phases: see below.                                                      *)
(*                                                                         *)
(* FramesAreSound: RtpInv, at the end, says which places of the frame in   *)
(* mp are filled.                                                          *)
(***************************************************************************)
EXTENDS AvCall, RtpSession, FiniteSetTheorems, TLAPS

AvInv == TypeOK /\ CallsAreBacked /\ PictureIsRight

\* What the two invariants say of one node.
NodeOK(m, a, t) ==
  /\ m.state # "None" => a.exists
  /\ m.state = "Active" => a.active
  /\ m.state = "Requesting" => t = "calling"
  /\ m.state = "Requested" => t = "ringing"
  /\ m.state = "Active" => t = "active"
  /\ m.state = "None" /\ ~a.exists => t = "nothing"
  /\ m.state = "None" /\ a.exists => t \in {"calling", "ringing"}

LEMMA NodesOK ==
  ASSUME TypeOK
  PROVE  CallsAreBacked /\ PictureIsRight <=> \A e \in Node : NodeOK(msi[e], av[e], told[e])
  BY DEF TypeOK, MsiType, CallsAreBacked, PictureIsRight, NodeOK

LEMMA PeerIsNode == ASSUME NEW e \in Node PROVE Peer(e) \in Node
  BY NodeAssumption DEF Peer

LEMMA AnnouncedType == ASSUME NEW media \in SUBSET Media PROVE Announced(media) \in Capabilities
  BY DEF Announced, Capabilities, R, S

LEMMA MessageTypes ==
  ASSUME NEW caps \in Capabilities
  PROVE  /\ InitMessage(caps) \in Messages
         /\ PushMessage(caps) \in Messages
         /\ PopMessage \in Messages
         /\ ErrorMessage \in Messages
<1>1. {} \in Capabilities
  BY DEF Capabilities
<1> QED
  BY <1>1 DEF InitMessage, PushMessage, PopMessage, ErrorMessage, Messages

LEMMA SendType ==
  ASSUME NEW queues \in [Node -> Seq(Messages)], NEW e \in Node, NEW message \in Messages,
         failures \in 0 .. MaxFailures, send_message(queues, e, message)
  PROVE  queue' \in [Node -> Seq(Messages)] /\ failures' \in 0 .. MaxFailures
<1>1. queue' \in [Node -> Seq(Messages)]
  <2>1. Append(queues[Peer(e)], message) \in Seq(Messages)
    BY PeerIsNode
  <2> QED
    BY <2>1, PeerIsNode DEF send_message
<1>2. failures' \in 0 .. MaxFailures
  BY BoundsAssumption DEF send_message
<1> QED
  BY <1>1, <1>2

LEMMA NoCallTypes == NoMsi \in MsiType /\ NoAv \in AvType
  BY DEF NoMsi, MsiType, NoAv, AvType, Capabilities

LEMMA PreparedType ==
  ASSUME NEW call \in AvType
  PROVE  /\ Prepared(call) \in AvType
         /\ Prepared(call).active
         /\ Prepared(call).exists = call.exists
  BY DEF Prepared, AvType

ToldType == {"nothing", "calling", "ringing", "active"}

\* Messages, connections and counters keep their types.
RestOK ==
  /\ online \in [Node -> BOOLEAN]
  /\ queue \in [Node -> Seq(Messages)]
  /\ requests \in 0 .. MaxRequests
  /\ failures \in 0 .. MaxFailures
  /\ placed \in 0 .. requests

\* A step that leaves one node with records m, a and t.
LEMMA NodeStep ==
  ASSUME AvInv, RestOK', NEW e \in Node, NEW m \in MsiType, NEW a \in AvType, NEW t \in ToldType,
         msi' = [msi EXCEPT ![e] = m], av' = [av EXCEPT ![e] = a],
         told' = [told EXCEPT ![e] = t], NodeOK(m, a, t)
  PROVE  AvInv'
<1>1. TypeOK'
  BY DEF AvInv, TypeOK, RestOK, ToldType
<1>2. \A n \in Node : NodeOK(msi[n], av[n], told[n])
  BY NodesOK DEF AvInv
<1>3. ASSUME NEW n \in Node PROVE NodeOK(msi'[n], av'[n], told'[n])
  <2>1. CASE n = e
    BY <2>1 DEF AvInv, TypeOK
  <2>2. CASE n # e
    BY <1>2, <2>2 DEF AvInv, TypeOK
  <2> QED
    BY <2>1, <2>2
<1> QED
  BY <1>1, <1>3 DEF AvInv, CallsAreBacked, PictureIsRight, NodeOK, TypeOK, MsiType

\* The same for a step that leaves the node's records as they are.
LEMMA NoNodeStep ==
  ASSUME AvInv, RestOK', UNCHANGED <<msi, av, told>>
  PROVE  AvInv'
  BY DEF AvInv, TypeOK, RestOK, CallsAreBacked, PictureIsRight

LEMMA InitAvInv == Init => AvInv
<1> SUFFICES ASSUME Init PROVE AvInv
  OBVIOUS
<1>1. requests \in 0 .. MaxRequests /\ failures \in 0 .. MaxFailures /\ placed \in 0 .. requests
  BY BoundsAssumption DEF Init
<1>2. queue \in [Node -> Seq(Messages)]
  BY DEF Init
<1>3. TypeOK
  BY <1>1, <1>2, NoCallTypes DEF Init, TypeOK
<1> QED
  BY <1>3 DEF AvInv, Init, NoMsi, NoAv, CallsAreBacked, PictureIsRight

-----------------------------------------------------------------------------
\* The API.

\* The counters of a step, when it makes no request or one.
LEMMA CountersOK ==
  ASSUME AvInv,
         \/ UNCHANGED <<requests, placed>>
         \/ requests < MaxRequests /\ requests' = requests + 1 /\ placed' \in {placed, placed + 1}
  PROVE  requests' \in 0 .. MaxRequests /\ placed' \in 0 .. requests'
  BY BoundsAssumption DEF AvInv, TypeOK

LEMMA CallStep ==
  ASSUME AvInv, NEW e \in Node, NEW media \in SUBSET Media, toxav_call(e, media)
  PROVE  AvInv'
<1> DEFINE m == [state |-> "Requesting", self |-> Announced(media), peer |-> {}]
           a == NewAv(Announced(media), media)
<1>1. RestOK'
  BY AnnouncedType, MessageTypes, SendType, CountersOK DEF toxav_call, AvInv, TypeOK, RestOK
<1>2. m \in MsiType
  BY AnnouncedType DEF MsiType, Capabilities
<1>3. a \in AvType /\ a.exists
  BY AnnouncedType DEF NewAv, NoAv, AvType
<1>4. NodeOK(m, a, "calling")
  BY <1>3 DEF NodeOK
<1> QED
  BY <1>1, <1>2, <1>3, <1>4, NodeStep DEF toxav_call, ToldType

LEMMA AnswerStep ==
  ASSUME AvInv, NEW e \in Node, NEW media \in SUBSET Media, toxav_answer(e, media)
  PROVE  AvInv'
<1> DEFINE a == [Prepared(av[e]) EXCEPT !.previous = Announced(media), !.rates = media]
           m == [msi[e] EXCEPT !.state = "Active", !.self = Announced(media)]
<1>1. av[e] \in AvType /\ av[e].exists /\ msi[e] \in MsiType /\ told[e] \in ToldType
  BY DEF toxav_answer, Usable, AvInv, TypeOK, ToldType
<1>2. a \in AvType /\ a.exists /\ a.active
  <2>1. PICK p \in AvType : p = Prepared(av[e]) /\ p.exists /\ p.active
    BY <1>1, PreparedType
  <2>2. Announced(media) \in Capabilities
    BY AnnouncedType
  <2>3. a = [p EXCEPT !.previous = Announced(media), !.rates = media]
    BY <2>1
  <2> QED
    BY ONLY <2>1, <2>2, <2>3, media \in SUBSET Media DEF AvType
<1>3. RestOK'
  BY AnnouncedType, MessageTypes, SendType, CountersOK DEF toxav_answer, AvInv, TypeOK, RestOK
<1>4. av' = [av EXCEPT ![e] = a]
  BY DEF toxav_answer
<1>5. CASE msi' = [msi EXCEPT ![e] = m] /\ told' = [told EXCEPT ![e] = "active"]
  <2>1. m \in MsiType
    BY <1>1, AnnouncedType DEF MsiType
  <2>2. NodeOK(m, a, "active")
    BY <1>1, <1>2 DEF NodeOK, MsiType
  <2> QED
    BY <1>2, <1>3, <1>4, <1>5, <2>1, <2>2, NodeStep DEF ToldType
<1>6. CASE UNCHANGED <<msi, told>>
  <2>1. msi' = [msi EXCEPT ![e] = msi[e]] /\ told' = [told EXCEPT ![e] = told[e]]
    BY <1>6 DEF AvInv, TypeOK
  <2>2. NodeOK(msi[e], a, told[e])
    BY <1>1, <1>2, NodesOK DEF AvInv, NodeOK
  <2> QED
    BY <1>1, <1>2, <1>3, <1>4, <2>1, <2>2, NodeStep
<1> QED
  BY <1>5, <1>6 DEF toxav_answer, AvInv, TypeOK, MsiType

\* A change of capabilities leaves the call as active as it was.
LEMMA ChangeStep ==
  ASSUME AvInv, NEW e \in Node, NEW caps \in Capabilities, NEW call \in AvType,
         call.exists = av[e].exists, call.active = av[e].active,
         requests < MaxRequests, requests' = requests + 1, ChangeCapabilities(e, caps, call)
  PROVE  AvInv'
<1> DEFINE m == [msi[e] EXCEPT !.self = caps]
<1>1. msi[e] \in MsiType /\ told[e] \in ToldType
  BY DEF AvInv, TypeOK, ToldType
<1>2. m \in MsiType /\ m.state = msi[e].state
  BY <1>1 DEF MsiType
<1>3. RestOK'
  BY MessageTypes, SendType, CountersOK DEF ChangeCapabilities, AvInv, TypeOK, RestOK
<1>4. NodeOK(m, call, told[e])
  BY <1>2, NodesOK DEF AvInv, NodeOK
<1>5. msi' = [msi EXCEPT ![e] = m] /\ told' = [told EXCEPT ![e] = told[e]]
  BY DEF ChangeCapabilities, AvInv, TypeOK
<1> QED
  BY <1>1, <1>2, <1>3, <1>4, <1>5, NodeStep DEF ChangeCapabilities

LEMMA CancelStep ==
  ASSUME AvInv, NEW e \in Node, Cancel(e)
  PROVE  AvInv'
<1>1. {} \in Capabilities
  BY DEF Capabilities
<1>2. RestOK'
  BY <1>1, MessageTypes, SendType, CountersOK DEF Cancel, AvInv, TypeOK, RestOK
<1>3. NodeOK(NoMsi, NoAv, "nothing")
  BY DEF NodeOK, NoMsi, NoAv
<1> QED
  BY <1>2, <1>3, NoCallTypes, NodeStep DEF Cancel, ToldType

LEMMA ControlStep ==
  ASSUME AvInv, NEW e \in Node, toxav_call_control(e)
  PROVE  AvInv'
<1> DEFINE call == av[e]
           self == msi[e].self
<1>1. /\ call \in AvType
      /\ self \in Capabilities
      /\ call.previous \in Capabilities
      /\ call.rates \in SUBSET Media
      /\ call.receiving \in SUBSET Media
  BY DEF AvInv, TypeOK, AvType, MsiType
<1>2. requests < MaxRequests /\ requests' = requests + 1
  BY DEF toxav_call_control
<1>3. CASE Pause(e)
  <2> DEFINE a == [call EXCEPT !.previous = self, !.receiving = {}]
             b == [call EXCEPT !.previous = self]
  <2>1. CASE ChangeCapabilities(e, {}, a)
    <3>1. a \in AvType /\ a.exists = call.exists /\ a.active = call.active
      BY <1>1 DEF AvType
    <3>2. {} \in Capabilities
      BY DEF Capabilities
    <3> QED
      BY <1>2, <2>1, <3>1, <3>2, ChangeStep
  <2>2. CASE av' = [av EXCEPT ![e].previous = self]
             /\ UNCHANGED <<msi, online, queue, told, failures, placed>>
    <3>1. b \in AvType /\ b.exists = call.exists /\ b.active = call.active
      BY <1>1 DEF AvType
    <3>2. /\ av' = [av EXCEPT ![e] = b]
          /\ msi' = [msi EXCEPT ![e] = msi[e]] /\ msi[e] \in MsiType
          /\ told' = [told EXCEPT ![e] = told[e]] /\ told[e] \in ToldType
      BY <2>2 DEF AvInv, TypeOK, ToldType
    <3>3. NodeOK(msi[e], b, told[e])
      BY <3>1, NodesOK DEF AvInv, NodeOK
    <3>4. RestOK'
      BY <1>2, <2>2, CountersOK DEF AvInv, TypeOK, RestOK
    <3> QED
      BY <3>1, <3>2, <3>3, <3>4, NodeStep
  <2> QED
    BY <1>3, <2>1, <2>2 DEF Pause
<1>4. CASE Resume(e)
  <2> DEFINE a == [call EXCEPT !.receiving = Media]
  <2>1. a \in AvType /\ a.exists = call.exists /\ a.active = call.active
    BY <1>1 DEF AvType
  <2>2. call.previous \in Capabilities
    BY <1>1
  <2> QED
    BY <1>2, <1>4, <2>1, <2>2, ChangeStep DEF Resume
<1>5. ASSUME NEW m \in Media, Mute(e, m) PROVE AvInv'
  <2> DEFINE a == [call EXCEPT !.receiving = @ \ {m}]
  <2>1. a \in AvType /\ a.exists = call.exists /\ a.active = call.active
    BY <1>1 DEF AvType
  <2>2. self \ {R(m)} \in Capabilities
    BY <1>1 DEF Capabilities
  <2> QED
    BY <1>2, <1>5, <2>1, <2>2, ChangeStep DEF Mute
<1>6. ASSUME NEW m \in Media, Unmute(e, m) PROVE AvInv'
  <2> DEFINE a == [call EXCEPT !.receiving = @ \cup {m}]
  <2>1. a \in AvType /\ a.exists = call.exists /\ a.active = call.active
    BY <1>1 DEF AvType
  <2>2. self \cup {R(m)} \in Capabilities
    BY <1>1 DEF Capabilities, R
  <2> QED
    BY <1>2, <1>6, <2>1, <2>2, ChangeStep DEF Unmute
<1>7. ASSUME NEW m \in Media, StopSending(e, m) PROVE AvInv'
  <2> DEFINE a == [call EXCEPT !.rates = @ \ {m}]
  <2>1. a \in AvType /\ a.exists = call.exists /\ a.active = call.active
    BY <1>1 DEF AvType
  <2>2. self \ {S(m)} \in Capabilities /\ self \cup {S(m)} \in Capabilities
    BY <1>1 DEF Capabilities, S
  <2>3. PICK caps \in Capabilities : ChangeCapabilities(e, caps, a)
    BY <1>7, <2>2 DEF StopSending
  <2> QED
    BY <1>2, <2>1, <2>3, ChangeStep
<1>8. ASSUME NEW m \in Media, StartSending(e, m) PROVE AvInv'
  <2> DEFINE a == [call EXCEPT !.rates = @ \cup {m}]
  <2>1. a \in AvType /\ a.exists = call.exists /\ a.active = call.active
    BY <1>1 DEF AvType
  <2>2. self \cup {S(m)} \in Capabilities
    BY <1>1 DEF Capabilities, S
  <2> QED
    BY <1>2, <1>8, <2>1, <2>2, ChangeStep DEF StartSending
<1> QED
  BY <1>3, <1>4, <1>5, <1>6, <1>7, <1>8 DEF toxav_call_control

-----------------------------------------------------------------------------
\* Messages and the connection.

LEMMA EndStep ==
  ASSUME AvInv, RestOK', NEW e \in Node, EndCall(e)
  PROVE  AvInv'
<1>1. NodeOK(NoMsi, NoAv, "nothing")
  BY DEF NodeOK, NoMsi, NoAv
<1> QED
  BY <1>1, NoCallTypes, NodeStep DEF EndCall, ToldType

LEMMA HandleStep ==
  ASSUME AvInv, NEW e \in Node, handle_msi_packet(e)
  PROVE  AvInv'
<1> DEFINE message == Head(queue[e])
           rest == [queue EXCEPT ![e] = Tail(@)]
           caps == message.caps
<1>1. message \in Messages /\ rest \in [Node -> Seq(Messages)]
  BY DEF handle_msi_packet, AvInv, TypeOK
<1>2. caps \in Capabilities /\ {} \in Capabilities
  BY <1>1 DEF Messages, Capabilities
<1>3. msi[e] \in MsiType /\ av[e] \in AvType /\ told[e] \in ToldType
  BY DEF AvInv, TypeOK, ToldType
<1>4. NodeOK(msi[e], av[e], told[e])
  BY NodesOK DEF AvInv
<1>5. msi[e].self \in Capabilities
  BY <1>3 DEF MsiType
<1>6. UNCHANGED <<online, requests, placed>>
  BY DEF handle_msi_packet
<1>7. \A x \in Messages : send_message(rest, e, x) => RestOK'
  BY <1>1, <1>6, SendType, CountersOK DEF AvInv, TypeOK, RestOK
<1>8. queue' = rest /\ UNCHANGED failures => RestOK'
  BY <1>1, <1>6, CountersOK DEF AvInv, TypeOK, RestOK
<1>9. CASE handle_init(e, caps, rest)
  <2>1. CASE /\ msi' = [msi EXCEPT ![e] = [state |-> "Requested", self |-> {}, peer |-> caps]]
             /\ av' = [av EXCEPT ![e] = NewAv({}, {})]
             /\ told' = [told EXCEPT ![e] = "ringing"]
             /\ queue' = rest
             /\ UNCHANGED failures
    <3> DEFINE m == [state |-> "Requested", self |-> {}, peer |-> caps]
    <3>1. m \in MsiType
      BY <1>2 DEF MsiType
    <3>2. NewAv({}, {}) \in AvType /\ NewAv({}, {}).exists
      BY <1>2 DEF NewAv, NoAv, AvType
    <3>3. NodeOK(m, NewAv({}, {}), "ringing")
      BY <3>2 DEF NodeOK
    <3> QED
      BY <1>8, <2>1, <3>1, <3>2, <3>3, NodeStep DEF ToldType
  <2>2. CASE /\ FailInit(e, rest)
             /\ \/ msi[e].state = "None" /\ av[e].exists
                \/ msi[e].state \in {"Requesting", "Requested"}
    <3>1. av' = [av EXCEPT ![e] = av[e]] /\ told' = [told EXCEPT ![e] = told[e]]
      BY <2>2 DEF FailInit, AvInv, TypeOK
    <3>2. NodeOK(NoMsi, av[e], told[e])
      BY <1>4, <2>2 DEF NodeOK, NoMsi
    <3>3. RestOK'
      BY <1>2, <1>7, <2>2, MessageTypes DEF FailInit
    <3> QED
      BY <1>3, <2>2, <3>1, <3>2, <3>3, NoCallTypes, NodeStep DEF FailInit
  <2>3. CASE send_message(rest, e, PushMessage(msi[e].self)) /\ UNCHANGED <<msi, av, told>>
    BY <1>5, <1>7, <2>3, MessageTypes, NoNodeStep
  <2> QED
    BY <1>9, <2>1, <2>2, <2>3 DEF handle_init, callback_invite
<1>10. CASE handle_push(e, caps, rest)
  <2>1. RestOK'
    BY <1>8, <1>10 DEF handle_push
  <2>2. CASE /\ msi' = [msi EXCEPT ![e].peer = caps]
             /\ av' = [av EXCEPT ![e].receiving = {m \in Media : S(m) \in caps}]
             /\ UNCHANGED told
    <3> DEFINE m == [msi[e] EXCEPT !.peer = caps]
               a == [av[e] EXCEPT !.receiving = {x \in Media : S(x) \in caps}]
    <3>1. m \in MsiType /\ m.state = msi[e].state
      BY <1>2, <1>3 DEF MsiType
    <3>2. a \in AvType /\ a.exists = av[e].exists /\ a.active = av[e].active
      BY <1>3 DEF AvType
    <3>3. NodeOK(m, a, told[e])
      BY <1>4, <3>1, <3>2 DEF NodeOK
    <3>4. /\ msi' = [msi EXCEPT ![e] = m] /\ av' = [av EXCEPT ![e] = a]
          /\ told' = [told EXCEPT ![e] = told[e]]
      BY <2>2 DEF AvInv, TypeOK
    <3> QED
      BY <1>3, <2>1, <3>1, <3>2, <3>3, <3>4, NodeStep
  <2>3. CASE /\ msi[e].state = "Requesting"
             /\ msi' = [msi EXCEPT ![e].state = "Active", ![e].peer = caps]
             /\ av' = [av EXCEPT ![e] = Prepared(@)]
             /\ told' = [told EXCEPT ![e] = "active"]
    <3> DEFINE m == [msi[e] EXCEPT !.state = "Active", !.peer = caps]
    <3>1. m \in MsiType /\ m.state = "Active"
      BY <1>2, <1>3 DEF MsiType
    <3>2. NodeOK(m, Prepared(av[e]), "active")
      BY <1>3, <1>4, <2>3, <3>1, PreparedType DEF NodeOK
    <3>3. msi' = [msi EXCEPT ![e] = m] /\ av' = [av EXCEPT ![e] = Prepared(av[e])]
      BY <2>3
    <3> QED
      BY <1>3, <2>1, <2>3, <3>1, <3>2, <3>3, PreparedType, NodeStep DEF ToldType
  <2>4. CASE UNCHANGED <<msi, av, told>>
    BY <2>1, <2>4, NoNodeStep
  <2> QED
    BY <1>10, <2>2, <2>3, <2>4 DEF handle_push, callback_start, callback_capabilites
<1>11. CASE handle_pop(e, rest)
  BY <1>8, <1>11, EndStep DEF handle_pop
<1>12. CASE HandleStray(e, rest)
  BY <1>2, <1>7, <1>12, MessageTypes, NoNodeStep DEF HandleStray
<1> QED
  BY <1>1, <1>9, <1>10, <1>11, <1>12 DEF handle_msi_packet, Messages

LEMMA StatusStep ==
  ASSUME AvInv, NEW e \in Node, on_peer_status(e)
  PROVE  AvInv'
<1>1. RestOK'
  BY CountersOK DEF on_peer_status, AvInv, TypeOK, RestOK
<1> QED
  BY <1>1, EndStep, NoNodeStep DEF on_peer_status

LEMMA NextAvInv == AvInv /\ [Next]_vars => AvInv'
<1> SUFFICES ASSUME AvInv, [Next]_vars PROVE AvInv'
  OBVIOUS
<1>1. CASE Reconnect
  <2>1. RestOK'
    BY <1>1, CountersOK DEF Reconnect, AvInv, TypeOK, RestOK
  <2> QED
    BY <1>1, <2>1, NoNodeStep DEF Reconnect
<1>2. CASE UNCHANGED vars
  BY <1>2 DEF vars, AvInv, TypeOK, CallsAreBacked, PictureIsRight
<1> QED
  BY <1>1, <1>2, CallStep, AnswerStep, ControlStep, CancelStep, HandleStep, StatusStep DEF Next

\* Every MSICall has its ToxAVCall, prepared once the call is active, whatever
\* messages, failures and calls of the API come in whatever order.
THEOREM AvCallsAreBacked == Spec => []CallsAreBacked
<1>1. AvInv => CallsAreBacked
  BY DEF AvInv
<1> QED
  BY <1>1, InitAvInv, NextAvInv, PTL DEF Spec

\* The application has been told of every call, start and end, unless handle_init
\* has killed a call that was not active yet.
THEOREM AvPictureIsRight == Spec => []PictureIsRight
<1>1. AvInv => PictureIsRight
  BY DEF AvInv
<1> QED
  BY <1>1, InitAvInv, NextAvInv, PTL DEF Spec

-----------------------------------------------------------------------------
(* Capabilities.  While no send has failed, the first call is either over  *)
(* for one side, for good, or in one of four phases in which the last      *)
(* message to a side, or what it knows if there is none, is what the other *)
(* side has set.                                                           *)

NoInit(e) == \A i \in DOMAIN queue[e] : queue[e][i].request # "init"

OnlyPushes(e) == \A i \in DOMAIN queue[e] : queue[e][i].request = "push"

\* No call has been placed.
Quiet == \A e \in Node : msi[e] = NoMsi /\ ~ av[e].exists /\ queue[e] = <<>>

\* The call is over for e, and no packet can begin it again.
Over(e) == msi[e].state = "None" /\ NoInit(e)

\* What e knows, or will know, of its friend.
Synced(e) ==
  IF queue[e] = <<>> THEN msi[e].peer = msi[Peer(e)].self
  ELSE queue[e][Len(queue[e])].caps = msi[Peer(e)].self

\* c has called p, who does not know yet; rings; has answered; and both know.
Inviting(c, p) ==
  /\ msi[c].state = "Requesting" /\ queue[c] = <<>>
  /\ msi[p] = NoMsi /\ ~ av[p].exists
  /\ Len(queue[p]) = 1 /\ queue[p][1].request = "init"

Ringing(c, p) ==
  /\ msi[c].state = "Requesting" /\ queue[c] = <<>>
  /\ msi[p].state = "Requested" /\ queue[p] = <<>>

Answered(c, p) ==
  /\ msi[c].state = "Requesting" /\ queue[c] # <<>> /\ OnlyPushes(c)
  /\ msi[p].state = "Active" /\ queue[p] = <<>>

Talking(c, p) ==
  /\ msi[c].state = "Active" /\ OnlyPushes(c)
  /\ msi[p].state = "Active" /\ OnlyPushes(p)

Phase(c, p) == Inviting(c, p) \/ Ringing(c, p) \/ Answered(c, p) \/ Talking(c, p)

Live ==
  /\ \A e \in Node : online[e] /\ Synced(e)
  /\ \E c \in Node : Phase(c, Peer(c))

FirstCall ==
  failures = 0 => /\ placed = 0 => Quiet
                  /\ placed = 1 => Live \/ \E e \in Node : Over(e)

LEMMA TwoNodes ==
  ASSUME NEW e \in Node
  PROVE  /\ Peer(e) \in Node /\ Peer(e) # e /\ Peer(Peer(e)) = e
         /\ \A n \in Node : n = e \/ n = Peer(e)
<1>1. PICK a, b \in Node : a # b /\ Node = {a, b}
  BY NodeAssumption
<1>2. Peer(a) = b /\ Peer(b) = a
  BY <1>1 DEF Peer
<1> QED
  BY <1>1, <1>2

\* A message that is sent while both are online arrives, unless it is counted
\* as a failure.
LEMMA SendArrives ==
  ASSUME AvInv, NEW queues, NEW e \in Node, NEW message, send_message(queues, e, message),
         failures' = 0, \A n \in Node : online[n]
  PROVE  queue' = [queues EXCEPT ![Peer(e)] = Append(@, message)]
  BY BoundsAssumption DEF send_message, AvInv, TypeOK

\* The friend of the sender has no more invitations than before.
LEMMA SendNoInit ==
  ASSUME NEW queues \in [Node -> Seq(Messages)], NEW e \in Node, NEW message \in Messages,
         send_message(queues, e, message), message.request # "init", NEW n \in Node,
         \A i \in DOMAIN queues[n] : queues[n][i].request # "init"
  PROVE  NoInit(n)'
<1>1. queue'[n] = queues[n] \/ queue'[n] = Append(queues[n], message)
  BY PeerIsNode DEF send_message
<1>2. queues[n] \in Seq(Messages)
  OBVIOUS
<1>3. CASE queue'[n] = Append(queues[n], message)
  BY <1>2, <1>3 DEF NoInit
<1> QED
  BY <1>1, <1>3 DEF NoInit

\* A step that sends nothing and leaves messages and calls alone.
LEMMA LiveStays ==
  ASSUME AvInv, Live, UNCHANGED <<msi, queue, online>>,
         \A n \in Node : msi[n].state = "None" => av'[n] = av[n]
  PROVE  Live'
<1>1. PICK c \in Node : Phase(c, Peer(c))
  BY DEF Live
<1>2. Phase(c, Peer(c))'
  BY <1>1, PeerIsNode DEF Phase, Inviting, Ringing, Answered, Talking, OnlyPushes, NoMsi
<1>3. \A e \in Node : (online[e] /\ Synced(e))'
  BY DEF Live, Synced
<1> QED
  BY <1>2, <1>3 DEF Live

\* In every phase, a node that has a call has no invitation waiting.
LEMMA LiveNoInit ==
  ASSUME Live, NEW e \in Node, msi[e].state # "None"
  PROVE  NoInit(e)
<1>1. PICK c \in Node : Phase(c, Peer(c))
  BY DEF Live
<1>2. e = c \/ e = Peer(c)
  BY TwoNodes
<1> QED
  BY <1>1, <1>2 DEF Phase, Inviting, Ringing, Answered, Talking, NoInit, OnlyPushes, NoMsi

\* A call is controlled by a change of capabilities that is sent, or not at all.
LEMMA ControlIs ==
  ASSUME AvInv, NEW e \in Node, toxav_call_control(e)
  PROVE  /\ Usable(e)
         /\ \/ \E caps \in Capabilities : \E call : ChangeCapabilities(e, caps, call)
            \/ /\ UNCHANGED <<msi, online, queue, failures, placed>>
               /\ \E call : av' = [av EXCEPT ![e] = call]
<1>1. msi[e].self \in Capabilities /\ av[e].previous \in Capabilities /\ {} \in Capabilities
  BY DEF AvInv, TypeOK, MsiType, AvType, Capabilities
<1>2. CASE Pause(e)
  BY <1>1, <1>2 DEF Pause, toxav_call_control
<1>3. CASE Resume(e)
  BY <1>1, <1>3 DEF Resume, toxav_call_control
<1>4. ASSUME NEW m \in Media,
             Mute(e, m) \/ Unmute(e, m) \/ StopSending(e, m) \/ StartSending(e, m)
      PROVE  \E caps \in Capabilities : \E call : ChangeCapabilities(e, caps, call)
  <2>1. /\ msi[e].self \ {R(m)} \in Capabilities /\ msi[e].self \ {S(m)} \in Capabilities
        /\ msi[e].self \cup {R(m)} \in Capabilities /\ msi[e].self \cup {S(m)} \in Capabilities
    BY <1>1 DEF Capabilities, R, S
  <2>2. CASE Mute(e, m)
    BY <2>1, <2>2 DEF Mute
  <2>3. CASE Unmute(e, m)
    BY <2>1, <2>3 DEF Unmute
  <2>4. CASE StopSending(e, m)
    BY <2>1, <2>4 DEF StopSending
  <2>5. CASE StartSending(e, m)
    BY <2>1, <2>5 DEF StartSending
  <2> QED
    BY <1>4, <2>2, <2>3, <2>4, <2>5
<1> QED
  BY <1>2, <1>3, <1>4 DEF toxav_call_control

LEMMA OverStays ==
  ASSUME AvInv, NEW e \in Node, Over(e), Next, placed' = placed
  PROVE  Over(e)'
<1>1. /\ msi \in [Node -> MsiType] /\ queue \in [Node -> Seq(Messages)] /\ placed \in Nat
      /\ msi[e].state = "None" /\ \A i \in DOMAIN queue[e] : queue[e][i].request # "init"
  BY BoundsAssumption DEF AvInv, TypeOK, Over, NoInit
<1>2. \A caps \in Capabilities : \A m \in {PushMessage(caps), PopMessage, ErrorMessage} :
        m \in Messages /\ m.request # "init"
  <2>1. \A caps \in Capabilities : \A m \in {PushMessage(caps), PopMessage, ErrorMessage} :
          m \in Messages
    BY MessageTypes
  <2>2. \A caps : PushMessage(caps).request # "init"
    BY DEF PushMessage
  <2>3. PopMessage.request # "init" /\ ErrorMessage.request # "init"
    BY DEF PopMessage, ErrorMessage
  <2> QED
    BY <2>1, <2>2, <2>3
<1>3. {} \in Capabilities
  BY DEF Capabilities
<1>4. ASSUME NEW n \in Node, NEW media \in SUBSET Media, toxav_call(n, media) PROVE FALSE
  BY <1>1, <1>4 DEF toxav_call
<1>5. ASSUME NEW n \in Node, NEW media \in SUBSET Media, toxav_answer(n, media) PROVE Over(e)'
  <2>1. n # e /\ msi'[e] = msi[e]
    BY <1>1, <1>5 DEF toxav_answer, Usable
  <2>2. NoInit(e)'
    BY <1>1, <1>2, <1>5, AnnouncedType, SendNoInit DEF toxav_answer, NoInit
  <2> QED
    BY <1>1, <2>1, <2>2 DEF Over
<1>6. ASSUME NEW n \in Node, toxav_call_control(n) PROVE Over(e)'
  <2>1. n # e
    BY <1>1, <1>6 DEF toxav_call_control, Usable
  <2>2. ASSUME NEW caps \in Capabilities, NEW call, ChangeCapabilities(n, caps, call)
        PROVE  Over(e)'
    <3>1. NoInit(e)'
      BY <1>1, <1>2, <2>2, SendNoInit DEF ChangeCapabilities
    <3> QED
      BY <1>1, <2>1, <2>2, <3>1 DEF Over, ChangeCapabilities
  <2>3. CASE UNCHANGED <<msi, queue>>
    BY <2>3 DEF Over, NoInit
  <2> QED
    BY <1>6, <2>2, <2>3, ControlIs
<1>7. ASSUME NEW n \in Node, Cancel(n) PROVE Over(e)'
  <2>1. n # e /\ msi'[e] = msi[e]
    BY <1>1, <1>7 DEF Cancel, Usable
  <2>2. NoInit(e)'
    BY <1>1, <1>2, <1>3, <1>7, SendNoInit DEF Cancel
  <2> QED
    BY <1>1, <2>1, <2>2 DEF Over
<1>8. ASSUME NEW n \in Node, handle_msi_packet(n) PROVE Over(e)'
  <2> DEFINE message == Head(queue[n])
             caps == message.caps
             rest == [queue EXCEPT ![n] = Tail(@)]
  <2>1. /\ queue[n] # <<>> /\ message \in Messages /\ rest \in [Node -> Seq(Messages)]
        /\ caps \in Capabilities /\ msi[n].self \in Capabilities
    <3>1. queue[n] # <<>> /\ message \in Messages /\ rest \in [Node -> Seq(Messages)]
      BY <1>1, <1>8 DEF handle_msi_packet
    <3>2. caps \in Capabilities
      BY <3>1 DEF Messages
    <3>3. msi[n].self \in Capabilities
      BY <1>1 DEF MsiType
    <3> QED
      BY <3>1, <3>2, <3>3
  <2>2. \A i \in DOMAIN rest[e] : rest[e][i].request # "init"
    <3>1. CASE n = e
      BY <1>1, <2>1, <3>1
    <3>2. CASE n # e
      BY <1>1, <3>2
    <3> QED
      BY <3>1, <3>2
  <2>3. ASSUME NEW m \in Messages, m.request # "init", send_message(rest, n, m) PROVE NoInit(e)'
    BY <2>1, <2>2, <2>3, SendNoInit
  <2>4. queue' = rest => NoInit(e)'
    BY <2>2 DEF NoInit
  <2>5. CASE n = e
    <3>1. message = queue[e][1] /\ 1 \in DOMAIN queue[e]
      BY <1>1, <2>1, <2>5
    <3>2. HandleStray(e, rest)
      BY <1>1, <1>8, <2>1, <2>5, <3>1 DEF handle_msi_packet, Messages, handle_pop
    <3> QED
      BY <1>1, <1>2, <1>3, <2>3, <2>5, <3>2 DEF HandleStray, Over
  <2>6. CASE n # e
    <3>1. CASE handle_init(n, caps, rest)
      BY <1>1, <1>2, <1>3, <2>1, <2>3, <2>4, <2>6, <3>1 DEF handle_init, FailInit, Over
    <3>2. CASE handle_push(n, caps, rest)
      BY <1>1, <2>4, <2>6, <3>2 DEF handle_push, Over
    <3>3. CASE handle_pop(n, rest)
      BY <1>1, <2>4, <2>6, <3>3 DEF handle_pop, EndCall, Over
    <3>4. CASE HandleStray(n, rest)
      BY <1>1, <1>2, <1>3, <2>3, <3>4 DEF HandleStray, Over
    <3> QED
      BY <1>8, <2>1, <3>1, <3>2, <3>3, <3>4 DEF handle_msi_packet, Messages
  <2> QED
    BY <2>5, <2>6
<1>9. ASSUME NEW n \in Node, on_peer_status(n) PROVE Over(e)'
  <2>1. msi'[e].state = "None"
    BY <1>1, <1>9 DEF on_peer_status, EndCall, NoMsi
  <2> QED
    BY <1>9, <2>1 DEF on_peer_status, Over, NoInit
<1>10. CASE Reconnect
  BY <1>10 DEF Reconnect, Over, NoInit
<1> QED
  BY <1>4, <1>5, <1>6, <1>7, <1>8, <1>9, <1>10 DEF Next

LEMMA LiveAnswer ==
  ASSUME AvInv, Live, failures' = 0, NEW e \in Node, NEW media \in SUBSET Media,
         toxav_answer(e, media)
  PROVE  Live'
<1>1. /\ msi \in [Node -> MsiType] /\ queue \in [Node -> Seq(Messages)] /\ av \in [Node -> AvType]
      /\ \A n \in Node : online[n] /\ Synced(n)
  BY DEF AvInv, TypeOK, Live
<1>2. CASE UNCHANGED <<msi, queue>>
  <2>1. \A n \in Node : msi[n].state = "None" => av'[n] = av[n]
    BY <1>1 DEF toxav_answer, Usable
  <2> QED
    BY <1>2, <2>1, LiveStays DEF toxav_answer
<1>3. CASE /\ msi[e].state = "Requested"
           /\ msi' = [msi EXCEPT ![e].state = "Active", ![e].self = Announced(media)]
           /\ send_message(queue, e, PushMessage(Announced(media)))
  <2>1. PICK c \in Node : Phase(c, Peer(c))
    BY DEF Live
  <2>2. e = Peer(c) /\ Peer(e) = c /\ c # e /\ Ringing(c, e)
    BY <1>3, <2>1, TwoNodes DEF Phase, Inviting, Ringing, Answered, Talking, NoMsi
  <2>3. PushMessage(Announced(media)) \in Messages
    BY AnnouncedType, MessageTypes
  <2>4. queue' = [queue EXCEPT ![c] = <<PushMessage(Announced(media))>>]
    <3>1. queue' = [queue EXCEPT ![c] = Append(@, PushMessage(Announced(media)))]
      BY <1>1, <1>3, <2>2, SendArrives
    <3>2. queue[c] = <<>>
      BY <2>2 DEF Ringing
    <3> QED
      BY <3>1, <3>2
  <2>5. /\ msi'[c] = msi[c] /\ msi'[e].state = "Active" /\ msi'[e].self = Announced(media)
        /\ msi'[e].peer = msi[e].peer
    BY <1>1, <1>3, <2>2 DEF MsiType
  <2>6. queue'[e] = <<>> /\ queue'[c] = <<PushMessage(Announced(media))>>
    BY <1>1, <2>2, <2>4 DEF Ringing
  <2>7. Answered(c, e)'
    BY <2>2, <2>5, <2>6 DEF Ringing, Answered, OnlyPushes, PushMessage
  <2>8. Synced(c)' /\ Synced(e)'
    BY <1>1, <2>2, <2>5, <2>6 DEF Synced, PushMessage, Ringing
  <2>9. \A n \in Node : n = c \/ n = e
    BY <2>2, TwoNodes
  <2> QED
    BY <1>1, <2>2, <2>7, <2>8, <2>9 DEF Live, Phase, toxav_answer
<1> QED
  BY <1>2, <1>3 DEF toxav_answer

LEMMA LiveChange ==
  ASSUME AvInv, Live, failures' = 0, NEW e \in Node, NEW caps \in Capabilities, NEW call,
         ChangeCapabilities(e, caps, call)
  PROVE  Live'
<1>1. /\ msi \in [Node -> MsiType] /\ queue \in [Node -> Seq(Messages)]
      /\ \A n \in Node : online[n] /\ Synced(n)
  BY DEF AvInv, TypeOK, Live
<1>2. PICK f \in Node : f = Peer(e) /\ e = Peer(f) /\ e # f /\ \A n \in Node : n = e \/ n = f
  BY TwoNodes
<1>3. queue' = [queue EXCEPT ![f] = Append(@, PushMessage(caps))]
  BY <1>1, <1>2, SendArrives DEF ChangeCapabilities
<1>4. /\ msi'[f] = msi[f] /\ msi'[e].self = caps /\ msi'[e].peer = msi[e].peer
      /\ msi'[e].state = "Active" /\ msi[e].state = "Active"
  BY <1>1, <1>2 DEF ChangeCapabilities, MsiType
<1>5. /\ queue'[e] = queue[e] /\ queue'[f] # <<>>
      /\ queue'[f][Len(queue'[f])] = PushMessage(caps)
      /\ OnlyPushes(f) => OnlyPushes(f)'
  <2>1. PICK s \in Seq(Messages) : s = queue[f]
    BY <1>1
  <2>2. PICK m \in Messages : m = PushMessage(caps) /\ m.request = "push"
    BY MessageTypes DEF PushMessage
  <2>3. queue'[f] = Append(s, m) /\ queue'[e] = queue[e]
    BY <1>1, <1>2, <1>3, <2>1, <2>2
  <2> QED
    BY <2>1, <2>2, <2>3 DEF OnlyPushes
<1>6. Synced(e)' /\ Synced(f)'
  BY <1>1, <1>2, <1>4, <1>5 DEF Synced, PushMessage
<1>7. PICK c \in Node : Phase(c, Peer(c))
  BY DEF Live
<1>8. OnlyPushes(e) => OnlyPushes(e)'
  BY <1>5 DEF OnlyPushes
<1>9. CASE c = e
  <2>1. Talking(e, f)'
    BY <1>2, <1>4, <1>5, <1>7, <1>8, <1>9 DEF Phase, Inviting, Ringing, Answered, Talking, NoMsi
  <2> QED
    BY <1>1, <1>2, <1>6, <2>1 DEF Live, Phase, ChangeCapabilities
<1>10. CASE c = f
  <2>1. OnlyPushes(c)
    BY <1>2, <1>4, <1>7, <1>10 DEF Phase, Inviting, Ringing, Answered, Talking, NoMsi
  <2>2. Answered(f, e)' \/ Talking(f, e)'
    BY <1>2, <1>4, <1>5, <1>7, <1>8, <1>10, <2>1 DEF Phase, Inviting, Ringing, Answered, Talking, NoMsi
  <2> QED
    BY <1>1, <1>2, <1>6, <2>2 DEF Live, Phase, ChangeCapabilities
<1> QED
  BY <1>2, <1>9, <1>10

\* The first packet to p is the invitation.
LEMMA LiveInvited ==
  ASSUME AvInv, Live, NEW c \in Node, NEW p \in Node, p = Peer(c), Inviting(c, p),
         handle_msi_packet(p)
  PROVE  Live'
<1>1. /\ msi \in [Node -> MsiType] /\ queue \in [Node -> Seq(Messages)]
      /\ \A n \in Node : online[n] /\ Synced(n)
  BY DEF AvInv, TypeOK, Live
<1>2. c = Peer(p) /\ c # p /\ \A n \in Node : n = c \/ n = p
  BY TwoNodes
<1>3. PICK m \in Messages : m = queue[p][1] /\ queue[p] = <<m>> /\ m.request = "init"
  <2>1. queue[p] \in Seq(Messages) /\ Len(queue[p]) = 1
    BY <1>1 DEF Inviting
  <2> QED
    BY <2>1 DEF Inviting
<1>4. Head(queue[p]) = m /\ Tail(queue[p]) = <<>>
  BY <1>3
<1>5. m.caps = msi[c].self
  <2>1. Len(queue[p]) = 1 /\ queue[p] # <<>>
    BY <1>3
  <2> QED
    BY <1>1, <1>2, <1>3, <2>1 DEF Synced
<1>6. msi[c].peer = {} /\ queue[c] = <<>> /\ msi[c].state = "Requesting"
  BY <1>1, <1>2 DEF Synced, Inviting, NoMsi
<1>7. handle_init(p, m.caps, [queue EXCEPT ![p] = <<>>])
  BY <1>3, <1>4 DEF handle_msi_packet
<1>8. /\ msi' = [msi EXCEPT ![p] = [state |-> "Requested", self |-> {}, peer |-> m.caps]]
      /\ queue' = [queue EXCEPT ![p] = <<>>]
  BY <1>7 DEF handle_init, Inviting, NoMsi
<1>9. /\ msi'[p].state = "Requested" /\ msi'[p].self = {} /\ msi'[p].peer = m.caps
      /\ msi'[c] = msi[c] /\ queue'[p] = <<>> /\ queue'[c] = queue[c]
  BY <1>1, <1>2, <1>8
<1>10. Ringing(c, p)' /\ Synced(c)' /\ Synced(p)'
  BY <1>2, <1>5, <1>6, <1>9 DEF Ringing, Synced
<1>11. online' = online
  BY DEF handle_msi_packet
<1> QED
  BY <1>1, <1>2, <1>10, <1>11 DEF Live, Phase

\* A change of capabilities, or the answer, arrives.
LEMMA LivePushed ==
  ASSUME AvInv, Live, NEW n \in Node, OnlyPushes(n), msi[n].state \in {"Requesting", "Active"},
         handle_msi_packet(n), NEW f \in Node, f = Peer(n)
  PROVE  /\ msi'[n].state = "Active" /\ msi'[f] = msi[f] /\ msi'[n].self = msi[n].self
         /\ queue'[f] = queue[f] /\ OnlyPushes(n)' /\ Synced(n)' /\ Synced(f)'
         /\ online' = online
<1>1. /\ msi \in [Node -> MsiType] /\ queue \in [Node -> Seq(Messages)]
      /\ \A e \in Node : online[e] /\ Synced(e)
  BY DEF AvInv, TypeOK, Live
<1>2. n = Peer(f) /\ n # f
  BY TwoNodes
<1>3. PICK s \in Seq(Messages) : s = queue[n] /\ s # <<>>
  BY <1>1 DEF handle_msi_packet
<1>4. PICK m \in Messages : m = Head(s) /\ m.request = "push" /\ m = s[1]
  <2>1. Head(s) \in Messages /\ Head(s) = s[1] /\ 1 \in DOMAIN s
    BY <1>3
  <2> QED
    BY <1>3, <2>1 DEF OnlyPushes
<1>5. handle_push(n, m.caps, [queue EXCEPT ![n] = Tail(s)])
  BY <1>3, <1>4 DEF handle_msi_packet, HandleStray
<1>6. queue' = [queue EXCEPT ![n] = Tail(s)]
  BY <1>5 DEF handle_push
<1>7. queue'[n] = Tail(s) /\ queue'[f] = queue[f]
  BY <1>1, <1>2, <1>6
<1>8. /\ msi'[n].state = "Active" /\ msi'[n].peer = m.caps /\ msi'[n].self = msi[n].self
      /\ msi'[f] = msi[f]
  BY <1>1, <1>2, <1>5 DEF handle_push, MsiType
<1>9. /\ \A i \in DOMAIN Tail(s) : Tail(s)[i] = s[i + 1] /\ i + 1 \in DOMAIN s
      /\ Tail(s) = <<>> => Len(s) = 1
      /\ Tail(s) # <<>> => Tail(s)[Len(Tail(s))] = s[Len(s)]
  <2>1. Len(s) \in Nat \ {0} /\ Tail(s) \in Seq(Messages) /\ Len(Tail(s)) = Len(s) - 1
    BY <1>3
  <2>2. \A i \in 1 .. Len(s) - 1 : Tail(s)[i] = s[i + 1]
    BY <1>3
  <2>3. Tail(s) = <<>> <=> Len(Tail(s)) = 0
    <3>1. PICK t \in Seq(Messages) : t = Tail(s)
      BY <2>1
    <3>2. t = <<>> <=> Len(t) = 0
      OBVIOUS
    <3> QED
      BY <3>1, <3>2
  <2>4. Tail(s) # <<>> => Len(s) - 1 \in 1 .. Len(s) - 1 /\ (Len(s) - 1) + 1 = Len(s)
    BY <2>1, <2>3
  <2> QED
    BY <2>1, <2>2, <2>3, <2>4
<1>10. OnlyPushes(n)'
  BY <1>3, <1>7, <1>9 DEF OnlyPushes
<1>11. s[Len(s)].caps = msi[f].self
  BY <1>1, <1>3 DEF Synced
<1>12. Synced(n)'
  BY <1>4, <1>7, <1>8, <1>9, <1>11 DEF Synced
<1>13. Synced(f)'
  BY <1>1, <1>2, <1>7, <1>8 DEF Synced
<1> QED
  BY <1>7, <1>8, <1>10, <1>12, <1>13 DEF handle_msi_packet

LEMMA LiveHandle ==
  ASSUME AvInv, Live, NEW n \in Node, handle_msi_packet(n)
  PROVE  Live'
<1>1. PICK c \in Node : Phase(c, Peer(c))
  BY DEF Live
<1>2. PICK p \in Node : p = Peer(c) /\ c = Peer(p) /\ c # p /\ \A e \in Node : e = c \/ e = p
  BY TwoNodes
<1>3. queue[n] # <<>>
  BY DEF handle_msi_packet
<1>4. CASE Inviting(c, p)
  <2>1. n = p
    BY <1>2, <1>3, <1>4 DEF Inviting
  <2> QED
    BY <1>2, <1>4, <2>1, LiveInvited
<1>5. CASE Ringing(c, p)
  BY <1>2, <1>3, <1>5 DEF Ringing
<1>6. CASE Answered(c, p)
  <2>1. n = c
    BY <1>2, <1>3, <1>6 DEF Answered
  <2>2. Talking(c, p)' /\ Synced(c)' /\ Synced(p)' /\ online' = online
    <3>1. OnlyPushes(c) /\ msi[c].state = "Requesting" /\ queue[p] = <<>>
      BY <1>6 DEF Answered
    <3>2. /\ msi'[c].state = "Active" /\ msi'[p] = msi[p] /\ queue'[p] = queue[p]
          /\ OnlyPushes(c)' /\ Synced(c)' /\ Synced(p)' /\ online' = online
      BY <1>2, <2>1, <3>1, LivePushed
    <3>3. OnlyPushes(p)'
      BY <3>1, <3>2 DEF OnlyPushes
    <3> QED
      BY <1>6, <3>2, <3>3 DEF Answered, Talking
  <2> QED
    BY <1>2, <2>2 DEF Live, Phase
<1>7. ASSUME Talking(n, Peer(n)) \/ Talking(Peer(n), n) PROVE Live'
  <2>1. PICK f \in Node : f = Peer(n) /\ \A e \in Node : e = n \/ e = f
    BY TwoNodes
  <2>2. OnlyPushes(n) /\ OnlyPushes(f) /\ msi[n].state = "Active" /\ msi[f].state = "Active"
    BY <1>7, <2>1 DEF Talking
  <2>3. /\ msi'[n].state = "Active" /\ msi'[f] = msi[f] /\ queue'[f] = queue[f]
        /\ OnlyPushes(n)' /\ Synced(n)' /\ Synced(f)' /\ online' = online
    BY <2>1, <2>2, LivePushed
  <2>4. Talking(n, f)'
    BY <2>2, <2>3 DEF Talking, OnlyPushes
  <2> QED
    BY <2>1, <2>3, <2>4 DEF Live, Phase
<1> QED
  BY <1>1, <1>2, <1>4, <1>5, <1>6, <1>7 DEF Phase

\* A step of the first call.
LEMMA LiveStep ==
  ASSUME AvInv, Live, Next, failures' = 0, placed' = placed
  PROVE  (Live \/ \E e \in Node : Over(e))'
<1>1. /\ msi \in [Node -> MsiType] /\ queue \in [Node -> Seq(Messages)] /\ av \in [Node -> AvType]
      /\ placed \in Nat
  BY BoundsAssumption DEF AvInv, TypeOK
<1>2. ASSUME NEW e \in Node, NEW media \in SUBSET Media, toxav_call(e, media) PROVE FALSE
  BY <1>1, <1>2 DEF toxav_call
<1>3. ASSUME NEW e \in Node, NEW media \in SUBSET Media, toxav_answer(e, media) PROVE Live'
  BY <1>3, LiveAnswer
<1>4. ASSUME NEW e \in Node, toxav_call_control(e) PROVE Live'
  <2>1. CASE UNCHANGED <<msi, online, queue>> /\ \E call : av' = [av EXCEPT ![e] = call]
    <3>1. \A n \in Node : msi[n].state = "None" => av'[n] = av[n]
      BY <1>1, <1>4, <2>1 DEF toxav_call_control, Usable
    <3> QED
      BY <2>1, <3>1, LiveStays
  <2>2. ASSUME NEW caps \in Capabilities, NEW call, ChangeCapabilities(e, caps, call) PROVE Live'
    BY <2>2, LiveChange
  <2> QED
    BY <1>4, <2>1, <2>2, ControlIs
<1>5. ASSUME NEW e \in Node, Cancel(e) PROVE Over(e)'
  <2>1. NoInit(e)
    BY <1>5, LiveNoInit DEF Cancel, Usable
  <2>2. queue'[e] = queue[e]
    BY <1>1, <1>5, TwoNodes DEF Cancel, send_message
  <2>3. msi'[e].state = "None"
    BY <1>1, <1>5 DEF Cancel, NoMsi
  <2> QED
    BY <2>1, <2>2, <2>3 DEF Over, NoInit
<1>6. ASSUME NEW e \in Node, handle_msi_packet(e) PROVE Live'
  BY <1>6, LiveHandle
<1>7. ASSUME NEW e \in Node, on_peer_status(e) PROVE Over(e)'
  <2>1. msi'[e].state = "None"
    BY <1>1, <1>7 DEF on_peer_status, EndCall, NoMsi
  <2> QED
    BY <1>7, <2>1 DEF on_peer_status, Over, NoInit
<1>8. CASE Reconnect
  BY <1>8, NodeAssumption DEF Reconnect, Live
<1> QED
  BY <1>2, <1>3, <1>4, <1>5, <1>6, <1>7, <1>8 DEF Next

\* The first call is placed.
LEMMA PlacedStep ==
  ASSUME AvInv, Quiet, NEW e \in Node, NEW media \in SUBSET Media, toxav_call(e, media),
         failures' = 0
  PROVE  (Live \/ \E n \in Node : Over(n))'
<1>1. msi \in [Node -> MsiType] /\ queue \in [Node -> Seq(Messages)] /\ av \in [Node -> AvType]
  BY DEF AvInv, TypeOK
<1>2. PICK f \in Node : f = Peer(e) /\ e = Peer(f) /\ e # f /\ \A n \in Node : n = e \/ n = f
  BY TwoNodes
<1>3. /\ msi'[e] = [state |-> "Requesting", self |-> Announced(media), peer |-> {}]
      /\ msi'[f] = NoMsi /\ av'[f] = av[f] /\ ~ av[f].exists
      /\ queue[e] = <<>> /\ queue[f] = <<>> /\ online' = online
  BY <1>1, <1>2 DEF toxav_call, Quiet
<1>4. CASE \A n \in Node : online[n]
  <2>1. queue' = [queue EXCEPT ![f] = Append(@, InitMessage(Announced(media)))]
    BY <1>2, <1>4, SendArrives DEF toxav_call
  <2>2. queue'[e] = <<>> /\ queue'[f] = <<InitMessage(Announced(media))>>
    <3>1. queue'[e] = queue[e] /\ queue'[f] = Append(<<>>, InitMessage(Announced(media)))
      BY <1>1, <1>2, <1>3, <2>1
    <3> QED
      BY <1>3, <3>1
  <2>3. Inviting(e, f)'
    BY <1>3, <2>2 DEF Inviting, InitMessage
  <2>4. Synced(e)' /\ Synced(f)'
    BY <1>2, <1>3, <2>2 DEF Synced, InitMessage, NoMsi
  <2> QED
    BY <1>2, <1>3, <1>4, <2>3, <2>4 DEF Live, Phase
<1>5. CASE \E n \in Node : ~ online[n]
  <2>1. queue' = queue
    BY <1>5 DEF toxav_call, send_message
  <2> QED
    BY <1>2, <1>3, <2>1 DEF Over, NoInit, NoMsi
<1> QED
  BY <1>4, <1>5

\* Before the first call nothing happens but that connections come and go.
LEMMA QuietStep ==
  ASSUME AvInv, Quiet, Next
  PROVE  \/ Quiet'
         \/ \E e \in Node, media \in SUBSET Media : toxav_call(e, media)
<1>1. \A e \in Node : ~ Usable(e) /\ queue[e] = <<>> /\ msi[e].state = "None"
  <2>1. NoMsi.state = "None"
    BY DEF NoMsi
  <2> QED
    BY <2>1 DEF Quiet, Usable
<1>2. ASSUME NEW e \in Node, on_peer_status(e) PROVE Quiet'
  BY <1>1, <1>2 DEF on_peer_status, Quiet
<1>3. CASE Reconnect
  BY <1>3 DEF Reconnect, Quiet
<1> QED
  BY <1>1, <1>2, <1>3
    DEF Next, toxav_answer, toxav_call_control, Cancel, handle_msi_packet

\* No step takes a failure or a call back.
LEMMA CountersGrow ==
  ASSUME AvInv, Next
  PROVE  /\ failures' = 0 => failures = 0
         /\ \/ placed' = placed
            \/ \E e \in Node, media \in SUBSET Media : toxav_call(e, media) /\ placed' = placed + 1
<1>1. failures \in Nat /\ \A queues, e, m : send_message(queues, e, m) /\ failures' = 0 => failures = 0
  BY BoundsAssumption DEF AvInv, TypeOK, send_message
<1>2. ASSUME NEW e \in Node, handle_msi_packet(e) PROVE failures' = 0 => failures = 0
  <2>1. Head(queue[e]).request \in {"init", "push", "pop"}
    <3>1. queue[e] \in Seq(Messages) /\ queue[e] # <<>>
      BY <1>2 DEF handle_msi_packet, AvInv, TypeOK
    <3>2. Head(queue[e]) \in Messages
      BY <3>1
    <3> QED
      BY <3>2 DEF Messages
  <2> QED
    BY <1>1, <1>2, <2>1
      DEF handle_msi_packet, handle_init, handle_push, handle_pop, HandleStray, FailInit
<1>3. ASSUME NEW e \in Node, toxav_call_control(e)
      PROVE  (failures' = 0 => failures = 0) /\ placed' = placed
  BY <1>1, <1>3, ControlIs DEF ChangeCapabilities
<1> QED
  BY <1>1, <1>2, <1>3
    DEF Next, toxav_call, toxav_answer, Cancel, handle_msi_packet, on_peer_status, Reconnect

LEMMA NextFirstCall == AvInv /\ FirstCall /\ [Next]_vars => FirstCall'
<1> SUFFICES ASSUME AvInv, FirstCall, [Next]_vars, failures' = 0
             PROVE  /\ (placed = 0 => Quiet)'
                    /\ (placed = 1 => Live \/ \E e \in Node : Over(e))'
  BY DEF FirstCall
<1>1. CASE UNCHANGED vars
  <2>1. /\ (placed = 0 => Quiet)
        /\ (placed = 1 => Live \/ \E e \in Node : Over(e))
    BY <1>1 DEF FirstCall, vars
  <2>2. Quiet => Quiet'
    BY <1>1 DEF vars, Quiet
  <2>3. Live => Live'
    BY <1>1, LiveStays DEF vars
  <2>4. (\E e \in Node : Over(e)) => (\E e \in Node : Over(e))'
    BY <1>1 DEF vars, Over, NoInit
  <2> QED
    BY <1>1, <2>1, <2>2, <2>3, <2>4 DEF vars
<1>2. CASE Next
  <2>1. failures = 0 /\ placed \in Nat
    BY <1>2, BoundsAssumption, CountersGrow DEF AvInv, TypeOK
  <2>2. CASE placed' = placed
    <3>1. (placed = 0 => Quiet)'
      <4>1. SUFFICES ASSUME placed' = 0 PROVE Quiet'
        OBVIOUS
      <4>2. Quiet
        BY <2>1, <2>2, <4>1 DEF FirstCall
      <4>3. ~ \E e \in Node, media \in SUBSET Media : toxav_call(e, media)
        BY <2>1, <2>2 DEF toxav_call
      <4> QED
        BY <1>2, <4>2, <4>3, QuietStep
    <3>2. (placed = 1 => Live \/ \E e \in Node : Over(e))'
      <4>1. SUFFICES ASSUME placed' = 1 PROVE (Live \/ \E e \in Node : Over(e))'
        OBVIOUS
      <4>2. Live \/ \E e \in Node : Over(e)
        BY <2>1, <2>2, <4>1 DEF FirstCall
      <4>3. ASSUME NEW e \in Node, Over(e) PROVE Over(e)'
        BY <1>2, <2>2, <4>3, OverStays
      <4> QED
        BY <1>2, <2>2, <4>2, <4>3, LiveStep
    <3> QED
      BY <3>1, <3>2
  <2>3. ASSUME NEW e \in Node, NEW media \in SUBSET Media, toxav_call(e, media),
               placed' = placed + 1
        PROVE  /\ (placed = 0 => Quiet)'
               /\ (placed = 1 => Live \/ \E n \in Node : Over(n))'
    <3>1. placed' # 0 /\ (placed' = 1 => placed = 0)
      BY <2>1, <2>3
    <3>2. placed = 0 => Quiet
      BY <2>1 DEF FirstCall
    <3> QED
      BY <2>3, <3>1, <3>2, PlacedStep
  <2> QED
    BY <1>2, <2>2, <2>3, CountersGrow
<1> QED
  BY <1>1, <1>2

\* In the first call, while no send fails, each side knows what the other has
\* set once all messages have arrived, for every set of media, whoever calls
\* and however answers, pauses, mutes and lost connections cross.
THEOREM AvCapabilitiesAgree == Spec => []CapabilitiesAgree
<1>1. Init => FirstCall
  BY DEF Init, FirstCall, Quiet, NoAv
<1>2. FirstCall => CapabilitiesAgree
  BY DEF FirstCall, Live, Over, Synced, CapabilitiesAgree
<1> QED
  BY <1>1, <1>2, InitAvInv, NextAvInv, NextFirstCall, PTL DEF Spec


-----------------------------------------------------------------------------
(* Frames.  While no packet arrived twice, the units of the frame in mp    *)
(* that have come are a set of places which is as large as len says and    *)
(* which no part still on its way will fill again; so len reaches tlen     *)
(* only when every place is filled.                                        *)

PartType ==
  [frame : Nat, seq : 0 .. SeqWord - 1, ts : Nat, cpart : Nat, tlen : Nat, size : Nat]

MessageType == [seq : 0 .. SeqWord - 1, ts : Nat, tlen : Nat, len : Nat, data : Seq(Nat \X Nat)]

SessionType == [rseq : Nat, rts : Nat, mp : MessageType, receiving : BOOLEAN]

RtpTypeOK ==
  /\ sender \in [seq : 0 .. SeqWord - 1, frames : Nat, now : 0 .. SeqWord - 1]
  /\ clock \in Nat
  /\ parts \subseteq PartType
  /\ session \in SessionType
  /\ handed \in Seq(MessageType)
  /\ twice \in Nat

\* The part is one of those rtp_send_data cuts a frame into.
Cut(q) ==
  /\ q.cpart % Piece = 0 /\ q.cpart < q.tlen
  /\ q.size = IF q.tlen - q.cpart > Piece THEN Piece ELSE q.tlen - q.cpart

\* The frame has been sent; if in this millisecond, sequnum has not come round
\* to its number since.
Sent(frame, seq, ts) ==
  /\ frame \in 1 .. sender.frames /\ ts <= clock
  /\ ts = clock =>
       LET d == sender.frames + 1 - frame
       IN  d <= sender.now /\ (sender.seq = seq + d \/ sender.seq = seq + d - SeqWord)

\* What the header of the part says of its frame, and only of that.
Heads(q, frame, seq, ts, tlen) ==
  /\ q.frame = frame <=> q.seq = seq /\ q.ts = ts
  /\ q.frame = frame => q.tlen = tlen

PartsAreCut ==
  /\ \A q \in parts : Cut(q) /\ Sent(q.frame, q.seq, q.ts)
  /\ \A q, r \in parts : Heads(q, r.frame, r.seq, r.ts, r.tlen)

Place(q) == (q.cpart + 1) .. (q.cpart + q.size)

\* The places filled of the frame that is in mp.
IsFilled(mp, frame, filled) ==
  /\ Sent(frame, mp.seq, mp.ts)
  /\ \A q \in parts : Heads(q, frame, mp.seq, mp.ts, mp.tlen)
  /\ filled \subseteq 1 .. mp.tlen /\ Cardinality(filled) = mp.len
  /\ \A i \in filled : mp.data[i] = <<frame, i>>
  /\ \A q \in parts : q.frame = frame => filled \cap Place(q) = {}

MpIsPartial ==
  session.mp # NoMessage =>
    /\ session.mp.len < session.mp.tlen /\ Len(session.mp.data) = session.mp.tlen
    /\ session.mp.ts = session.rts
    /\ twice = 0 => \E frame \in 1 .. sender.frames : \E filled \in SUBSET (1 .. session.mp.tlen) : IsFilled(session.mp, frame, filled)

\* FramesAreSound, and no message handed on is newer than rts.
Whole(m) == m.len = m.tlen => \A i \in DOMAIN m.data : m.data[i] = <<m.data[1][1], i>>

HandedOK(h, rts, copies) ==
  /\ copies = 0 => \A k \in DOMAIN h : Whole(h[k])
  /\ \A i, j \in DOMAIN h : i < j => h[i].ts <= h[j].ts
  /\ \A k \in DOMAIN h : h[k].ts <= rts

RtpInv == RtpTypeOK /\ PartsAreCut /\ MpIsPartial /\ HandedOK(handed, session.rts, twice)

\* Multiples of Piece that differ are at least Piece apart.
LEMMA PiecesApart ==
  ASSUME NEW a \in Nat, NEW b \in Nat, a % Piece = 0, b % Piece = 0, a < b
  PROVE  a + Piece <= b
<1>1. Piece \in Nat \ {0}
  BY RtpAssumption
<1>2. PICK d \in Nat \ {0} : d = Piece
  BY <1>1
<1>3. a % d = 0 /\ b % d = 0
  BY <1>2
<1>4. PICK k \in Int : a = d * k
  <2>1. a = d * (a \div d) + (a % d) /\ a \div d \in Int
    BY SMT
  <2>2. PICK k \in Int : k = a \div d
    BY <2>1
  <2>3. a = d * k + 0
    BY <1>3, <2>1, <2>2
  <2>4. d * k \in Int
    BY SMT
  <2>5. a = d * k
    BY <2>3, <2>4
  <2> QED
    BY <2>5
<1>5. PICK m \in Int : b = d * m
  <2>1. b = d * (b \div d) + (b % d) /\ b \div d \in Int
    BY SMT
  <2>2. PICK m \in Int : m = b \div d
    BY <2>1
  <2>3. b = d * m + 0
    BY <1>3, <2>1, <2>2
  <2>4. d * m \in Int
    BY SMT
  <2>5. b = d * m
    BY <2>3, <2>4
  <2> QED
    BY <2>5
<1>6. PICK n \in Int : n = m - k
  OBVIOUS
<1>7. b - a = d * n
  BY <1>4, <1>5, <1>6, SMT
<1>8. n >= 1
  <2>1. CASE n <= 0
    <3>1. d * n <= 0
      BY <2>1, SMT
    <3> QED
      BY <1>7, <3>1, SMT
  <2> QED
    BY <2>1, SMT
<1>9. d * n = d + d * (n - 1) /\ d * (n - 1) >= 0
  BY <1>8, SMT
<1> QED
  BY <1>2, <1>7, <1>9, SMT

\* sequnum of the frame after.
LEMMA NextNumber ==
  ASSUME NEW s \in 0 .. SeqWord - 1
  PROVE  (s + 1) % SeqWord = IF s + 1 < SeqWord THEN s + 1 ELSE 0
<1>1. PICK w \in Nat \ {0, 1} : w = SeqWord
  BY RtpAssumption
<1>2. s + 1 \in 0 .. w
  BY <1>1
<1>3. (s + 1) % w = IF s + 1 < w THEN s + 1 ELSE 0
  BY <1>2, SMT
<1> QED
  BY <1>1, <1>3

\* Two parts of one frame fill different places, all within the frame.
LEMMA PlacesApart ==
  ASSUME RtpTypeOK, PartsAreCut, NEW q \in parts, NEW r \in parts, q.frame = r.frame, q # r
  PROVE  Place(q) \cap Place(r) = {}
<1>1. q \in PartType /\ r \in PartType /\ Cut(q) /\ Cut(r) /\ Heads(q, r.frame, r.seq, r.ts, r.tlen)
  BY DEF RtpTypeOK, PartsAreCut
<1>2. q.seq = r.seq /\ q.ts = r.ts /\ q.tlen = r.tlen
  BY <1>1 DEF Heads
<1>3. q.cpart # r.cpart
  <2>1. SUFFICES ASSUME q.cpart = r.cpart PROVE FALSE
    OBVIOUS
  <2>2. q.size = r.size
    BY <1>1, <1>2, <2>1 DEF Cut
  <2> QED
    BY <1>1, <1>2, <2>1, <2>2 DEF PartType
<1>4. q.cpart \in Nat /\ r.cpart \in Nat /\ q.size \in Nat /\ r.size \in Nat /\ Piece \in Nat
  BY <1>1, RtpAssumption DEF PartType
<1>5. q.size <= Piece /\ r.size <= Piece
  BY <1>1, RtpAssumption DEF PartType, Cut
<1>6. CASE q.cpart < r.cpart
  <2>1. q.cpart + Piece <= r.cpart
    BY <1>1, <1>4, <1>6, PiecesApart DEF Cut
  <2> QED
    BY <1>4, <1>5, <2>1 DEF Place
<1>7. CASE r.cpart < q.cpart
  <2>1. r.cpart + Piece <= q.cpart
    BY <1>1, <1>4, <1>7, PiecesApart DEF Cut
  <2> QED
    BY <1>4, <1>5, <2>1 DEF Place
<1> QED
  BY <1>3, <1>4, <1>6, <1>7

\* The places of a part.
LEMMA PlaceOf ==
  ASSUME NEW q \in PartType, Cut(q)
  PROVE  /\ Place(q) \subseteq 1 .. q.tlen
         /\ IsFiniteSet(Place(q)) /\ Cardinality(Place(q)) = q.size
         /\ q.size \in 1 .. q.tlen /\ q.tlen # 0
         /\ q.cpart + q.size <= q.tlen
<1>1. q.cpart \in Nat /\ q.size \in Nat /\ q.tlen \in Nat /\ Piece \in Nat \ {0}
  BY RtpAssumption DEF PartType
<1>2. q.size >= 1 /\ q.cpart + q.size <= q.tlen
  BY <1>1 DEF Cut
<1>3. PICK a \in Int, b \in Int : a = q.cpart + 1 /\ b = q.cpart + q.size
  BY <1>1
<1>4. IsFiniteSet(a .. b) /\ Cardinality(a .. b) = IF a > b THEN 0 ELSE b - a + 1
  BY FS_Interval
<1>5. Place(q) = a .. b
  BY <1>3 DEF Place
<1>6. Place(q) \subseteq 1 .. q.tlen
  BY <1>1, <1>2 DEF Place
<1>7. Cardinality(Place(q)) = q.size
  BY <1>1, <1>2, <1>3, <1>4, <1>5
<1>8. q.size \in 1 .. q.tlen /\ q.tlen # 0
  BY <1>1, <1>2
<1> QED
  BY <1>2, <1>4, <1>5, <1>6, <1>7, <1>8

\* memcpy of a part.
LEMMA FilledIs ==
  ASSUME NEW q \in PartType, Cut(q), NEW data \in Seq(Nat \X Nat)
  PROVE  /\ Filled(data, q) \in Seq(Nat \X Nat) /\ Len(Filled(data, q)) = Len(data)
         /\ \A i \in 1 .. Len(data) :
              Filled(data, q)[i] = IF i \in Place(q) THEN <<q.frame, i>> ELSE data[i]
<1>1. q.cpart \in Nat /\ q.size \in Nat /\ q.frame \in Nat
  BY DEF PartType
<1>2. PICK n \in Nat : n = Len(data) /\ DOMAIN data = 1 .. n
  OBVIOUS
<1>3. PICK g : g = Filled(data, q)
  OBVIOUS
<1>4. g = [i \in 1 .. n |-> IF i > q.cpart /\ i <= q.cpart + q.size THEN Unit(q, i - q.cpart) ELSE data[i]]
  BY <1>2, <1>3 DEF Filled
<1>5. \A i \in 1 .. n : g[i] = IF i \in Place(q) THEN <<q.frame, i>> ELSE data[i]
  <2>1. TAKE i \in 1 .. n
  <2>2. i \in Place(q) <=> i > q.cpart /\ i <= q.cpart + q.size
    BY <1>1 DEF Place
  <2>3. q.cpart + (i - q.cpart) = i
    BY <1>1
  <2> QED
    BY <1>4, <2>2, <2>3 DEF Unit
<1>6. \A i \in 1 .. n : g[i] \in Nat \X Nat
  <2>1. TAKE i \in 1 .. n
  <2>2. data[i] \in Nat \X Nat
    BY <1>2
  <2>3. <<q.frame, i>> \in Nat \X Nat
    BY <1>1
  <2> QED
    BY <1>5, <2>2, <2>3
<1>7. g \in [1 .. n -> Nat \X Nat]
  BY <1>4, <1>6
<1>8. g \in Seq(Nat \X Nat) /\ Len(g) = n
  BY <1>7
<1> QED
  BY <1>2, <1>3, <1>5, <1>8

\* What is in a message after the first part of its frame.
LEMMA NewMessage ==
  ASSUME NEW q \in PartType, Cut(q)
  PROVE  /\ new_message(q) \in MessageType /\ new_message(q) # NoMessage
         /\ new_message(q).seq = q.seq /\ new_message(q).ts = q.ts
         /\ new_message(q).tlen = q.tlen /\ new_message(q).len = q.size
         /\ Len(new_message(q).data) = q.tlen
         /\ \A i \in Place(q) : new_message(q).data[i] = <<q.frame, i>>
<1>1. q.cpart \in Nat /\ q.size \in Nat /\ q.frame \in Nat /\ q.tlen \in Nat /\ q.ts \in Nat /\ q.seq \in 0 .. SeqWord - 1
  BY DEF PartType
<1>2. PICK b : b = [i \in 1 .. q.tlen |-> IF i <= q.size THEN Unit(q, i) ELSE <<0, 0>>]
  OBVIOUS
<1>3. \A i \in 1 .. q.tlen : b[i] \in Nat \X Nat
  BY <1>1, <1>2 DEF Unit
<1>4. b \in [1 .. q.tlen -> Nat \X Nat]
  BY <1>2, <1>3
<1>5. b \in Seq(Nat \X Nat) /\ Len(b) = q.tlen
  BY <1>1, <1>4
<1>6. PICK g : g = Filled(b, q)
  OBVIOUS
<1>7. g \in Seq(Nat \X Nat) /\ Len(g) = q.tlen
  BY <1>5, <1>6, FilledIs
<1>8. Place(q) \subseteq 1 .. q.tlen /\ q.tlen # 0
  BY PlaceOf
<1>9. \A i \in Place(q) : g[i] = <<q.frame, i>>
  BY <1>5, <1>6, <1>8, FilledIs
<1>10. new_message(q) = [seq |-> q.seq, ts |-> q.ts, tlen |-> q.tlen, len |-> q.size, data |-> g]
  BY <1>2, <1>6 DEF new_message
<1>11. PICK m : m = new_message(q)
  OBVIOUS
<1>12. m.seq = q.seq /\ m.ts = q.ts /\ m.tlen = q.tlen /\ m.len = q.size /\ m.data = g
  BY <1>10, <1>11
<1>13. m \in MessageType
  BY <1>1, <1>7, <1>10, <1>11 DEF MessageType
<1>14. m # NoMessage
  BY <1>8, <1>12 DEF NoMessage
<1> QED
  BY <1>7, <1>9, <1>11, <1>12, <1>13, <1>14

\* A message that is not older than rts is handed on.
LEMMA HandedAppend ==
  ASSUME NEW h \in Seq(MessageType), NEW rts \in Nat, NEW copies \in Nat, HandedOK(h, rts, copies),
         NEW m \in MessageType, rts <= m.ts, copies = 0 => Whole(m)
  PROVE  Append(h, m) \in Seq(MessageType) /\ HandedOK(Append(h, m), m.ts, copies)
<1>1. PICK g \in Seq(MessageType) : g = Append(h, m)
  <2>1. Append(h, m) \in Seq(MessageType)
    OBVIOUS
  <2> QED
    BY <2>1
<1>2. PICK n \in Nat : n = Len(h) /\ DOMAIN h = 1 .. n
  OBVIOUS
<1>3. DOMAIN g = 1 .. (n + 1) /\ g[n + 1] = m /\ \A k \in 1 .. n : g[k] = h[k]
  BY <1>1, <1>2
<1>4. \A k \in 1 .. (n + 1) : k \in 1 .. n \/ k = n + 1
  BY <1>2
<1>5. m.ts \in Nat /\ \A k \in 1 .. n : h[k].ts \in Nat
  <2>1. \A k \in 1 .. n : h[k] \in MessageType
    BY <1>2
  <2> QED
    BY <2>1 DEF MessageType
<1>6. copies = 0 => \A k \in DOMAIN g : Whole(g[k])
  BY <1>2, <1>3, <1>4 DEF HandedOK
<1>7. \A k \in 1 .. (n + 1) : g[k].ts <= m.ts
  BY <1>2, <1>3, <1>4, <1>5 DEF HandedOK
<1>8. ASSUME NEW i \in 1 .. (n + 1), NEW j \in 1 .. (n + 1), i < j
      PROVE  g[i].ts <= g[j].ts
  <2>1. i \in 1 .. n
    BY <1>2, <1>8
  <2>2. CASE j \in 1 .. n
    BY <1>2, <1>3, <1>8, <2>1, <2>2 DEF HandedOK
  <2>3. CASE j = n + 1
    BY <1>3, <1>7, <2>3
  <2> QED
    BY <1>4, <2>2, <2>3
<1> QED
  BY <1>1, <1>3, <1>6, <1>7, <1>8 DEF HandedOK

\* rts grows, and a packet may arrive twice.
LEMMA HandedLater ==
  ASSUME NEW h \in Seq(MessageType), NEW rts \in Nat, NEW copies \in Nat, HandedOK(h, rts, copies),
         NEW later \in Nat, rts <= later, NEW more \in Nat, more = 0 => copies = 0
  PROVE  HandedOK(h, later, more)
<1>1. \A k \in DOMAIN h : h[k].ts \in Nat
  <2>1. \A k \in DOMAIN h : h[k] \in MessageType
    OBVIOUS
  <2> QED
    BY <2>1 DEF MessageType
<1> QED
  BY <1>1 DEF HandedOK

\* The frame in mp is handed on as it is: not full, so that nothing is said of it.
LEMMA PushOK ==
  ASSUME RtpInv
  PROVE  Push(session.mp) \in Seq(MessageType) /\ HandedOK(Push(session.mp), session.rts, twice)
<1>1. handed \in Seq(MessageType) /\ session.rts \in Nat /\ twice \in Nat /\ session.mp \in MessageType
  BY DEF RtpInv, RtpTypeOK, SessionType
<1>2. HandedOK(handed, session.rts, twice)
  BY DEF RtpInv
<1>3. CASE session.mp = NoMessage
  BY <1>1, <1>2, <1>3 DEF Push
<1>4. CASE session.mp # NoMessage
  <2>1. session.mp.ts = session.rts /\ session.mp.len < session.mp.tlen
    BY <1>4 DEF RtpInv, MpIsPartial
  <2>2. session.mp.len \in Nat /\ session.mp.tlen \in Nat
    BY <1>1 DEF MessageType
  <2>3. Whole(session.mp)
    BY <2>1, <2>2 DEF Whole
  <2>4. PICK m \in MessageType : m = session.mp
    BY <1>1
  <2>5. m.ts = session.rts /\ Whole(m)
    BY <2>1, <2>3, <2>4
  <2>6. PICK r \in Nat : r = session.rts
    BY <1>1
  <2>7. Append(handed, m) \in Seq(MessageType) /\ HandedOK(Append(handed, m), m.ts, twice)
    BY <1>1, <1>2, <2>5, <2>6, HandedAppend
  <2>8. Push(session.mp) = Append(handed, m)
    BY <1>4, <2>4 DEF Push
  <2> QED
    BY <2>5, <2>7, <2>8
<1> QED
  BY <1>3, <1>4

\* What a step of the receiver leaves of the parts.
LEMMA FewerParts ==
  ASSUME RtpInv, parts' \subseteq parts, UNCHANGED <<sender, clock>>
  PROVE  /\ PartsAreCut' /\ parts' \subseteq PartType
         /\ \A frame, seq, ts : Sent(frame, seq, ts)' <=> Sent(frame, seq, ts)
  BY DEF RtpInv, RtpTypeOK, PartsAreCut, Sent

\* The frame in mp waits.
LEMMA MpStays ==
  ASSUME RtpInv, parts' \subseteq parts, UNCHANGED <<sender, clock>>,
         session'.mp = session.mp, session'.rts = session.rts, twice' = 0 => twice = 0
  PROVE  MpIsPartial'
<1>1. SUFFICES ASSUME session.mp # NoMessage, twice = 0
               PROVE  \E frame \in 1 .. sender.frames : \E filled \in SUBSET (1 .. session.mp.tlen) :
                        IsFilled(session.mp, frame, filled)'
  BY DEF RtpInv, MpIsPartial
<1>2. PICK frame \in 1 .. sender.frames, filled \in SUBSET (1 .. session.mp.tlen) :
        IsFilled(session.mp, frame, filled)
  BY <1>1 DEF RtpInv, MpIsPartial
<1>3. IsFilled(session.mp, frame, filled)'
  BY <1>2, FewerParts DEF IsFilled
<1> QED
  BY <1>2, <1>3

\* The first part of a frame comes.
LEMMA MpIsNew ==
  ASSUME RtpInv, NEW p \in parts, p.size # p.tlen, UNCHANGED <<sender, clock>>,
         parts' \subseteq parts, twice' = 0 => parts' = parts \ {p},
         session'.mp = new_message(p), session'.rts = p.ts
  PROVE  MpIsPartial'
<1>1. p \in PartType /\ Cut(p) /\ Sent(p.frame, p.seq, p.ts)
  BY DEF RtpInv, RtpTypeOK, PartsAreCut
<1>2. PICK m : m = new_message(p)
  OBVIOUS
<1>3. /\ m.seq = p.seq /\ m.ts = p.ts /\ m.tlen = p.tlen /\ m.len = p.size /\ Len(m.data) = p.tlen
      /\ \A i \in Place(p) : m.data[i] = <<p.frame, i>>
  BY <1>1, <1>2, NewMessage
<1>4. /\ Place(p) \subseteq 1 .. p.tlen
      /\ Cardinality(Place(p)) = p.size /\ p.size \in 1 .. p.tlen
  BY <1>1, PlaceOf
<1>5. m.len < m.tlen
  <2>1. p.tlen \in Nat
    BY <1>1 DEF PartType
  <2> QED
    BY <1>3, <1>4, <2>1
<1>6. ASSUME twice' = 0
      PROVE  IsFilled(m, p.frame, Place(p))'
  <2>1. \A q \in parts' : q.frame = p.frame => Place(p) \cap Place(q) = {}
    BY <1>6, PlacesApart DEF RtpInv
  <2>2. \A q \in parts : Heads(q, p.frame, m.seq, m.ts, m.tlen)
    BY <1>3 DEF RtpInv, PartsAreCut
  <2>3. Sent(p.frame, m.seq, m.ts)'
    BY <1>1, <1>3, FewerParts
  <2> QED
    BY <1>3, <1>4, <2>1, <2>2, <2>3 DEF IsFilled
<1>7. p.frame \in 1 .. sender.frames
  BY <1>1 DEF Sent
<1>8. session'.mp = m /\ session'.rts = m.ts /\ sender' = sender /\ twice' = twice'
  BY <1>2, <1>3
<1>9. twice' = 0 => \E frame \in 1 .. sender'.frames : \E filled \in SUBSET (1 .. m.tlen) :
                      IsFilled(m, frame, filled)'
  BY <1>3, <1>4, <1>6, <1>7, <1>8
<1> QED
  BY <1>3, <1>5, <1>8, <1>9 DEF MpIsPartial

\* The number of a frame sent before is not taken again in the same millisecond.
LEMMA SentStays ==
  ASSUME RtpInv, NEW length \in FrameLength, rtp_send_data(length),
         NEW frame, NEW seq \in 0 .. SeqWord - 1, NEW ts \in Nat, Sent(frame, seq, ts)
  PROVE  /\ Sent(frame, seq, ts)' /\ frame # sender.frames + 1 /\ frame \in Nat
         /\ ~(seq = sender.seq /\ ts = clock)
<1>1. /\ sender \in [seq : 0 .. SeqWord - 1, frames : Nat, now : 0 .. SeqWord - 1] /\ clock \in Nat
      /\ SeqWord \in Nat \ {0, 1}
  BY RtpAssumption DEF RtpInv, RtpTypeOK
<1>2. /\ sender.now < SeqWord - 1 /\ clock' = clock
      /\ sender' = [seq |-> (sender.seq + 1) % SeqWord, frames |-> sender.frames + 1, now |-> sender.now + 1]
  BY DEF rtp_send_data
<1>3. sender'.seq = (IF sender.seq + 1 < SeqWord THEN sender.seq + 1 ELSE 0)
      /\ sender'.frames = sender.frames + 1 /\ sender'.now = sender.now + 1
  BY <1>1, <1>2, NextNumber
<1>4. frame \in 1 .. sender.frames
  BY DEF Sent
<1>5. CASE ts = clock
  <2>1. PICK d \in Nat \ {0} : d = sender.frames + 1 - frame
    BY <1>1, <1>4
  <2>2. d <= sender.now /\ (sender.seq = seq + d \/ sender.seq = seq + d - SeqWord)
    BY <1>5, <2>1 DEF Sent
  <2>3. seq # sender.seq
    BY <1>1, <1>2, <2>2
  <2>4. sender'.frames + 1 - frame = d + 1
    BY <1>1, <1>3, <1>4, <2>1
  <2>5. d + 1 <= sender'.now /\ (sender'.seq = seq + (d + 1) \/ sender'.seq = seq + (d + 1) - SeqWord)
    BY <1>1, <1>2, <1>3, <2>2
  <2>6. frame \in 1 .. sender'.frames
    BY <1>1, <1>3, <1>4
  <2>7. Sent(frame, seq, ts)'
    BY <1>2, <1>5, <2>4, <2>5, <2>6 DEF Sent
  <2> QED
    BY <1>1, <1>4, <2>3, <2>7
<1>6. CASE ts # clock
  <2>1. Sent(frame, seq, ts)'
    BY <1>1, <1>2, <1>3, <1>4, <1>6 DEF Sent
  <2> QED
    BY <1>1, <1>4, <1>6, <2>1
<1> QED
  BY <1>5, <1>6

LEMMA SendStep ==
  ASSUME RtpInv, NEW length \in FrameLength, rtp_send_data(length)
  PROVE  RtpInv'
<1>1. /\ sender \in [seq : 0 .. SeqWord - 1, frames : Nat, now : 0 .. SeqWord - 1] /\ clock \in Nat
      /\ SeqWord \in Nat \ {0, 1} /\ length \in Nat \ {0} /\ Piece \in Nat \ {0}
  BY RtpAssumption DEF RtpInv, RtpTypeOK
<1>2. PICK all : /\ all = {Part(length, cpart) : cpart \in {c \in 0 .. length - 1 : c % Piece = 0}}
                 /\ parts' = parts \cup all
  BY DEF rtp_send_data
<1>3. /\ sender.now < SeqWord - 1 /\ UNCHANGED <<clock, session, handed, twice>>
      /\ sender' = [seq |-> (sender.seq + 1) % SeqWord, frames |-> sender.frames + 1, now |-> sender.now + 1]
  BY DEF rtp_send_data
<1>4. sender'.seq = (IF sender.seq + 1 < SeqWord THEN sender.seq + 1 ELSE 0)
      /\ sender'.frames = sender.frames + 1 /\ sender'.now = sender.now + 1
  BY <1>1, <1>3, NextNumber
<1>5. sender' \in [seq : 0 .. SeqWord - 1, frames : Nat, now : 0 .. SeqWord - 1]
  <2>1. (sender.seq + 1) % SeqWord \in 0 .. SeqWord - 1
    BY <1>1, NextNumber
  <2> QED
    BY <1>1, <1>3, <2>1
<1>6. ASSUME NEW q \in all
      PROVE  /\ q \in PartType /\ Cut(q)
             /\ q.frame = sender.frames + 1 /\ q.seq = sender.seq /\ q.ts = clock /\ q.tlen = length
  <2>1. PICK c \in 0 .. length - 1 : c % Piece = 0 /\ q = Part(length, c)
    BY <1>2, <1>6
  <2>2. PICK size : size = IF length - c > Piece THEN Piece ELSE length - c
    OBVIOUS
  <2>3. size \in Nat
    BY <1>1, <2>2
  <2>4. q = [frame |-> sender.frames + 1, seq |-> sender.seq, ts |-> clock, cpart |-> c, tlen |-> length, size |-> size]
    BY <2>1, <2>2 DEF Part
  <2>5. q \in PartType
    BY <1>1, <2>3, <2>4 DEF PartType
  <2>6. Cut(q)
    BY <1>1, <2>1, <2>2, <2>4 DEF Cut
  <2> QED
    BY <2>4, <2>5, <2>6
<1>7. PICK f, s, t : f = sender.frames + 1 /\ s = sender.seq /\ t = clock
  OBVIOUS
<1>8. Sent(f, s, t)'
  <2>1. f \in 1 .. sender'.frames /\ sender'.frames + 1 - f = 1
    BY <1>1, <1>4, <1>7
  <2>2. 1 <= sender'.now /\ (sender'.seq = s + 1 \/ sender'.seq = s + 1 - SeqWord)
    BY <1>1, <1>4, <1>7
  <2>3. t <= clock'
    BY <1>1, <1>3, <1>7
  <2> QED
    BY <2>1, <2>2, <2>3 DEF Sent
<1>9. RtpTypeOK'
  BY <1>2, <1>3, <1>5, <1>6 DEF RtpInv, RtpTypeOK
<1>10. ASSUME NEW q \in parts
       PROVE  /\ q \in PartType /\ Cut(q) /\ Sent(q.frame, q.seq, q.ts) /\ q.frame # f
              /\ ~(q.seq = s /\ q.ts = t)
  <2>1. q \in PartType /\ Cut(q) /\ Sent(q.frame, q.seq, q.ts)
    BY <1>10 DEF RtpInv, RtpTypeOK, PartsAreCut
  <2>2. q.seq \in 0 .. SeqWord - 1 /\ q.ts \in Nat
    BY <2>1 DEF PartType
  <2> QED
    BY <1>7, <2>1, <2>2, SentStays
<1>11. ASSUME NEW q \in parts'
       PROVE  Cut(q) /\ Sent(q.frame, q.seq, q.ts)'
  <2>1. CASE q \in parts
    <3>1. q.seq \in 0 .. SeqWord - 1 /\ q.ts \in Nat
      BY <1>10, <2>1 DEF PartType
    <3> QED
      BY <1>10, <2>1, <3>1, SentStays
  <2>2. CASE q \in all
    BY <1>6, <1>7, <1>8, <2>2
  <2> QED
    BY <1>2, <1>11, <2>1, <2>2
<1>12. ASSUME NEW q \in parts', NEW r \in parts'
       PROVE  Heads(q, r.frame, r.seq, r.ts, r.tlen)
  <2>1. q \in parts \/ q \in all
    BY <1>2, <1>12
  <2>2. r \in parts \/ r \in all
    BY <1>2, <1>12
  <2>3. CASE q \in parts /\ r \in parts
    BY <2>3 DEF RtpInv, PartsAreCut
  <2>4. CASE q \in parts /\ r \in all
    BY <1>6, <1>7, <1>10, <2>4 DEF Heads
  <2>5. CASE q \in all /\ r \in parts
    BY <1>6, <1>7, <1>10, <2>5 DEF Heads
  <2>6. CASE q \in all /\ r \in all
    BY <1>6, <2>6 DEF Heads
  <2> QED
    BY <2>1, <2>2, <2>3, <2>4, <2>5, <2>6
<1>13. PartsAreCut'
  BY <1>11, <1>12 DEF PartsAreCut, Cut, Heads
<1>14. MpIsPartial'
  <2>1. SUFFICES ASSUME session.mp # NoMessage, twice = 0
                 PROVE  \E frame \in 1 .. sender'.frames : \E filled \in SUBSET (1 .. session.mp.tlen) :
                          IsFilled(session.mp, frame, filled)'
    BY <1>3 DEF RtpInv, MpIsPartial
  <2>2. PICK frame \in 1 .. sender.frames, filled \in SUBSET (1 .. session.mp.tlen) :
          IsFilled(session.mp, frame, filled)
    BY <2>1 DEF RtpInv, MpIsPartial
  <2>3. PICK m \in MessageType : m = session.mp
    BY DEF RtpInv, RtpTypeOK, SessionType
  <2>4. IsFilled(m, frame, filled) /\ m.seq \in 0 .. SeqWord - 1 /\ m.ts \in Nat
    BY <2>2, <2>3 DEF MessageType
  <2>5. Sent(frame, m.seq, m.ts)
    BY <2>4 DEF IsFilled
  <2>6. Sent(frame, m.seq, m.ts)' /\ frame # f /\ ~(m.seq = s /\ m.ts = t)
    BY <1>7, <2>4, <2>5, SentStays
  <2>7. ASSUME NEW q \in parts'
        PROVE  Heads(q, frame, m.seq, m.ts, m.tlen) /\ (q.frame = frame => q \in parts)
    <3>1. CASE q \in parts
      BY <2>4, <3>1 DEF IsFilled
    <3>2. CASE q \in all
      BY <1>6, <1>7, <2>6, <3>2 DEF Heads
    <3> QED
      BY <1>2, <2>7, <3>1, <3>2
  <2>8. IsFilled(m, frame, filled)'
    BY <2>4, <2>6, <2>7 DEF IsFilled, Heads, Place
  <2>9. frame \in 1 .. sender'.frames
    BY <1>1, <1>4
  <2>10. IsFilled(session.mp, frame, filled)'
    BY <1>3, <2>3, <2>8
  <2> QED
    BY <2>9, <2>10
<1> QED
  BY <1>3, <1>9, <1>13, <1>14 DEF RtpInv

\* A packet is taken from the network, or a copy of it.
Taken(p) ==
  /\ p \in parts /\ parts' \subseteq parts /\ UNCHANGED <<sender, clock>>
  /\ twice' \in Nat /\ (twice' = 0 => twice = 0 /\ parts' = parts \ {p})

LEMMA TakenIs ==
  ASSUME RtpInv, NEW p, Taken(p)
  PROVE  /\ p \in PartType /\ Cut(p) /\ Sent(p.frame, p.seq, p.ts) /\ p.ts \in Nat /\ p.seq \in Nat
         /\ session \in SessionType /\ handed \in Seq(MessageType) /\ twice \in Nat
         /\ HandedOK(handed, session.rts, twice)
<1>1. p \in PartType /\ Cut(p) /\ Sent(p.frame, p.seq, p.ts)
  BY DEF Taken, RtpInv, RtpTypeOK, PartsAreCut
<1>2. p.ts \in Nat /\ p.seq \in Nat
  BY <1>1, RtpAssumption DEF PartType
<1> QED
  BY <1>1, <1>2 DEF RtpInv, RtpTypeOK, SessionType

LEMMA TakenStep ==
  ASSUME RtpInv, NEW p, Taken(p), session' \in SessionType, handed' \in Seq(MessageType),
         MpIsPartial', HandedOK(handed', session'.rts, twice')
  PROVE  RtpInv'
<1>1. PartsAreCut' /\ parts' \subseteq PartType
  BY FewerParts DEF Taken
<1>2. RtpTypeOK'
  BY <1>1 DEF Taken, RtpInv, RtpTypeOK, SessionType
<1> QED
  BY <1>1, <1>2 DEF RtpInv

LEMMA IgnoredStep ==
  ASSUME RtpInv, NEW p, Taken(p), UNCHANGED <<session, handed>>
  PROVE  RtpInv'
<1>1. session \in SessionType /\ handed \in Seq(MessageType) /\ twice \in Nat
      /\ HandedOK(handed, session.rts, twice)
  BY TakenIs
<1>2. MpIsPartial'
  BY MpStays DEF Taken
<1>3. PICK r \in Nat : r = session.rts
  BY <1>1 DEF SessionType
<1>4. HandedOK(handed, r, twice')
  BY <1>1, <1>3, HandedLater DEF Taken
<1>5. HandedOK(handed', session'.rts, twice')
  BY <1>3, <1>4
<1> QED
  BY <1>1, <1>2, <1>5, TakenStep

\* What Newest leaves.
LEMMA NewestIs ==
  ASSUME session \in SessionType, NEW p, p.ts \in Nat, p.seq \in Nat, NEW m \in MessageType
  PROVE  /\ Newest(p, m) \in SessionType
         /\ Newest(p, m).rts = p.ts /\ Newest(p, m).mp = m
  BY DEF Newest, SessionType

LEMMA NoMessageType == NoMessage \in MessageType
<1>1. << >> \in Seq(Nat \X Nat) /\ 0 \in 0 .. SeqWord - 1
  BY RtpAssumption
<1> QED
  BY <1>1 DEF NoMessage, MessageType

\* A frame in one part.
LEMMA SingleStep ==
  ASSUME RtpInv, NEW p, Taken(p), p.tlen = p.size, HandleSingle(p)
  PROVE  RtpInv'
<1>1. CASE chloss(p)
  BY <1>1, IgnoredStep DEF HandleSingle
<1>2. CASE ~chloss(p)
  <2>1. /\ p \in PartType /\ Cut(p) /\ p.ts \in Nat /\ p.seq \in Nat
        /\ session \in SessionType /\ twice \in Nat
    BY TakenIs
  <2>2. session' = Newest(p, NoMessage) /\ handed' = Append(Push(session.mp), new_message(p))
    BY <1>2 DEF HandleSingle
  <2>3. PICK m \in MessageType : m = new_message(p)
    BY <2>1, NewMessage
  <2>4. /\ m.ts = p.ts /\ m.tlen = p.tlen /\ Len(m.data) = p.tlen
        /\ \A i \in Place(p) : m.data[i] = <<p.frame, i>>
    BY <2>1, <2>3, NewMessage
  <2>5. Place(p) = 1 .. p.tlen /\ p.tlen \in Nat \ {0}
    <3>1. p.cpart \in Nat /\ p.tlen \in Nat /\ p.cpart + p.size <= p.tlen /\ p.tlen # 0
      BY <2>1, PlaceOf DEF PartType
    <3>2. p.cpart = 0
      BY <3>1
    <3> QED
      BY <3>1, <3>2 DEF Place
  <2>6. Whole(m)
    <3>1. DOMAIN m.data = 1 .. p.tlen
      <4>1. m.data \in Seq(Nat \X Nat)
        BY DEF MessageType
      <4> QED
        BY <2>4, <4>1
    <3>2. m.data[1] = <<p.frame, 1>>
      BY <2>4, <2>5
    <3>3. m.data[1][1] = p.frame
      BY <3>2
    <3> QED
      BY <2>4, <2>5, <3>1, <3>3 DEF Whole
  <2>7. PICK h \in Seq(MessageType) : h = Push(session.mp) /\ HandedOK(h, session.rts, twice)
    BY PushOK
  <2>8. PICK r \in Nat : r = session.rts
    BY <2>1 DEF SessionType
  <2>9. r <= m.ts
    BY <1>2, <2>1, <2>4, <2>8 DEF chloss
  <2>10. Append(h, m) \in Seq(MessageType) /\ HandedOK(Append(h, m), m.ts, twice)
    BY <2>1, <2>6, <2>7, <2>8, <2>9, HandedAppend
  <2>11. m.ts \in Nat /\ twice' \in Nat /\ (twice' = 0 => twice = 0)
    BY <2>1, <2>4 DEF Taken
  <2>12. PICK g \in Seq(MessageType) : g = Append(h, m)
    BY <2>10
  <2>13. HandedOK(g, m.ts, twice')
    <3>1. PICK t \in Nat : t = m.ts
      BY <2>11
    <3>2. HandedOK(g, t, twice)
      BY <2>10, <2>12, <3>1
    <3>3. t <= t
      OBVIOUS
    <3>4. HandedOK(g, t, twice')
      BY <2>1, <2>11, <3>2, <3>3, HandedLater
    <3> QED
      BY <3>1, <3>4
  <2>14. session' \in SessionType /\ session'.rts = m.ts /\ session'.mp = NoMessage
    BY <2>1, <2>2, <2>4, NewestIs, NoMessageType
  <2>15. handed' = g
    BY <2>2, <2>3, <2>7, <2>12
  <2>16. MpIsPartial'
    BY <2>14 DEF MpIsPartial
  <2> QED
    BY <2>13, <2>14, <2>15, <2>16, TakenStep
<1> QED
  BY <1>1, <1>2

\* A part of another frame than the one in mp.
LEMMA NewPartsStep ==
  ASSUME RtpInv, NEW p, Taken(p), p.tlen # p.size, HandleNewParts(p)
  PROVE  RtpInv'
<1>1. CASE session.mp # NoMessage /\ session.mp.ts > p.ts
  BY <1>1, IgnoredStep DEF HandleNewParts
<1>2. CASE ~(session.mp # NoMessage /\ session.mp.ts > p.ts)
  <2>1. /\ p \in PartType /\ Cut(p) /\ p.ts \in Nat /\ p.seq \in Nat
        /\ session \in SessionType /\ twice \in Nat
    BY TakenIs
  <2>2. /\ handed' = Push(session.mp)
        /\ session' = IF chloss(p) THEN [session EXCEPT !.mp = NoMessage] ELSE Newest(p, new_message(p))
    BY <1>2 DEF HandleNewParts
  <2>3. PICK h \in Seq(MessageType) : h = Push(session.mp) /\ HandedOK(h, session.rts, twice)
    BY PushOK
  <2>4. PICK r \in Nat : r = session.rts
    BY <2>1 DEF SessionType
  <2>5. twice' \in Nat /\ (twice' = 0 => twice = 0)
    BY DEF Taken
  <2>6. CASE chloss(p)
    <3>1. session' \in SessionType /\ session'.rts = r /\ session'.mp = NoMessage
      BY <2>1, <2>2, <2>4, <2>6, NoMessageType DEF SessionType
    <3>2. HandedOK(h, r, twice')
      BY <2>1, <2>3, <2>4, <2>5, HandedLater
    <3>3. MpIsPartial'
      BY <3>1 DEF MpIsPartial
    <3> QED
      BY <2>2, <2>3, <3>1, <3>2, <3>3, TakenStep
  <2>7. CASE ~chloss(p)
    <3>1. PICK m \in MessageType : m = new_message(p)
      BY <2>1, NewMessage
    <3>2. session' \in SessionType /\ session'.rts = p.ts /\ session'.mp = m
      BY <2>1, <2>2, <2>7, <3>1, NewestIs
    <3>3. MpIsPartial'
      BY <3>1, <3>2, MpIsNew DEF Taken
    <3>4. PICK t \in Nat : t = p.ts
      BY <2>1
    <3>5. r <= t
      BY <2>1, <2>4, <2>7, <3>4 DEF chloss
    <3>6. HandedOK(h, t, twice')
      BY <2>1, <2>3, <2>4, <2>5, <3>5, HandedLater
    <3> QED
      BY <2>2, <2>3, <3>2, <3>3, <3>4, <3>6, TakenStep
  <2> QED
    BY <2>6, <2>7
<1> QED
  BY <1>1, <1>2

\* The frame in mp with the part in its place.
Next_mp(p) == [session.mp EXCEPT !.len = @ + p.size, !.data = Filled(@, p)]

LEMMA NextMp ==
  ASSUME RtpInv, NEW p, Taken(p), IsActive(p), p.size <= session.mp.tlen - session.mp.len,
         NEW n, n = Next_mp(p)
  PROVE  /\ n \in MessageType /\ n # NoMessage
         /\ n.ts = session.rts /\ n.tlen \in Nat /\ Len(n.data) = n.tlen /\ n.len <= n.tlen
         /\ twice' = 0 =>
              \E frame \in 1 .. sender.frames : \E filled \in SUBSET (1 .. n.tlen) : IsFilled(n, frame, filled)'
<1>1. p \in PartType /\ Cut(p)
  BY TakenIs
<1>2. PICK m \in MessageType : m = session.mp
  BY DEF RtpInv, RtpTypeOK, SessionType
<1>3. /\ m # NoMessage /\ m.seq = p.seq /\ m.ts = p.ts /\ m.ts = session.rts
      /\ m.len < m.tlen /\ Len(m.data) = m.tlen
  BY <1>2 DEF IsActive, RtpInv, MpIsPartial
<1>4. m.len \in Nat /\ m.tlen \in Nat /\ m.data \in Seq(Nat \X Nat) /\ p.size \in Nat
  BY <1>1 DEF MessageType, PartType
<1>5. PICK data : data = Filled(m.data, p)
  OBVIOUS
<1>6. /\ data \in Seq(Nat \X Nat) /\ Len(data) = m.tlen
      /\ \A i \in 1 .. m.tlen : data[i] = IF i \in Place(p) THEN <<p.frame, i>> ELSE m.data[i]
  BY <1>1, <1>3, <1>4, <1>5, FilledIs
<1>7. n = [m EXCEPT !.len = m.len + p.size, !.data = data]
  BY <1>2, <1>5 DEF Next_mp
<1>8. n = [seq |-> m.seq, ts |-> m.ts, tlen |-> m.tlen, len |-> m.len + p.size, data |-> data]
  BY <1>7 DEF MessageType
<1>9. n.seq = m.seq /\ n.ts = m.ts /\ n.tlen = m.tlen /\ n.len = m.len + p.size /\ n.data = data
  BY <1>8
<1>10. n \in MessageType
  BY <1>4, <1>6, <1>8 DEF MessageType
<1>11. ASSUME twice' = 0
       PROVE  \E frame \in 1 .. sender.frames : \E filled \in SUBSET (1 .. m.tlen) : IsFilled(n, frame, filled)'
  <2>1. PICK frame \in 1 .. sender.frames, filled \in SUBSET (1 .. m.tlen) : IsFilled(m, frame, filled)
    BY <1>2, <1>3, <1>11 DEF Taken, RtpInv, MpIsPartial
  <2>2. p.frame = frame /\ p.tlen = m.tlen
    BY <1>3, <2>1 DEF Taken, IsFilled, Heads
  <2>3. PICK more : more = filled \cup Place(p)
    OBVIOUS
  <2>4. /\ Place(p) \subseteq 1 .. m.tlen /\ IsFiniteSet(Place(p)) /\ Cardinality(Place(p)) = p.size
    BY <1>1, <2>2, PlaceOf
  <2>5. filled \cap Place(p) = {}
    BY <2>1, <2>2 DEF Taken, IsFilled
  <2>6. IsFiniteSet(filled)
    <3>1. IsFiniteSet(1 .. m.tlen)
      <4>1. PICK a \in Int, b \in Int : a = 1 /\ b = m.tlen
        BY <1>4
      <4>2. IsFiniteSet(a .. b)
        BY FS_Interval
      <4> QED
        BY <4>1, <4>2
    <3> QED
      BY <3>1, FS_Subset
  <2>7. Cardinality(more) = m.len + p.size
    <3>1. Cardinality(filled) = m.len /\ Cardinality({}) = 0
      BY <2>1, FS_EmptySet DEF IsFilled
    <3>2. Cardinality(filled \cup Place(p)) = Cardinality(filled) + Cardinality(Place(p)) - Cardinality(filled \cap Place(p))
      BY <2>4, <2>6, FS_Union
    <3>3. Cardinality(more) = m.len + p.size - 0
      BY <2>3, <2>4, <2>5, <3>1, <3>2
    <3> QED
      BY <1>4, <3>3
  <2>8. \A i \in more : n.data[i] = <<frame, i>>
    BY <1>6, <1>9, <2>1, <2>2, <2>3, <2>4 DEF IsFilled
  <2>9. \A q \in parts' : q.frame = frame => more \cap Place(q) = {}
    <3>1. TAKE q \in parts'
    <3>2. HAVE q.frame = frame
    <3>3. q \in parts /\ q # p
      BY <1>11 DEF Taken
    <3>4. Place(p) \cap Place(q) = {}
      BY <2>2, <3>2, <3>3, PlacesApart DEF Taken, RtpInv
    <3> QED
      BY <2>1, <2>3, <3>2, <3>3, <3>4 DEF IsFilled
  <2>10. Sent(frame, n.seq, n.ts)'
    BY <1>9, <2>1, FewerParts DEF Taken, IsFilled
  <2>11. \A q \in parts' : Heads(q, frame, n.seq, n.ts, n.tlen)
    BY <1>9, <2>1 DEF Taken, IsFilled
  <2>12. more \subseteq 1 .. n.tlen /\ Cardinality(more) = n.len
    BY <1>9, <2>3, <2>4, <2>7
  <2>13. IsFilled(n, frame, more)'
    BY <2>8, <2>9, <2>10, <2>11, <2>12 DEF IsFilled
  <2>14. more \in SUBSET (1 .. m.tlen)
    BY <2>3, <2>4
  <2> QED
    BY <2>13, <2>14
<1>12. n # NoMessage
  BY <1>3, <1>4, <1>9 DEF NoMessage
<1>13. n.len <= n.tlen
  BY <1>2, <1>4, <1>9
<1> QED
  BY <1>3, <1>4, <1>6, <1>9, <1>10, <1>11, <1>12, <1>13

\* A part of the frame in mp.
LEMMA NextPartStep ==
  ASSUME RtpInv, NEW p, Taken(p), IsActive(p), HandleNextPart(p)
  PROVE  RtpInv'
<1>1. CASE session.mp.tlen - session.mp.len < p.size \/ session.mp.tlen <= p.cpart
  BY <1>1, IgnoredStep DEF HandleNextPart
<1>2. CASE ~(session.mp.tlen - session.mp.len < p.size \/ session.mp.tlen <= p.cpart)
  <2>1. /\ p \in PartType /\ session \in SessionType /\ handed \in Seq(MessageType) /\ twice \in Nat
        /\ HandedOK(handed, session.rts, twice)
    BY TakenIs
  <2>2. PICK n : n = Next_mp(p)
    OBVIOUS
  <2>3. p.size <= session.mp.tlen - session.mp.len
    <3>1. p.size \in Nat /\ session.mp.tlen \in Nat /\ session.mp.len \in Nat
      BY <2>1 DEF PartType, SessionType, MessageType
    <3> QED
      BY <1>2, <3>1
  <2>4. /\ n \in MessageType /\ n # NoMessage
        /\ n.ts = session.rts /\ n.tlen \in Nat /\ Len(n.data) = n.tlen /\ n.len <= n.tlen
    BY <2>2, <2>3, NextMp
  <2>5. twice' = 0 =>
          \E frame \in 1 .. sender.frames : \E filled \in SUBSET (1 .. n.tlen) : IsFilled(n, frame, filled)'
    BY <2>2, <2>3, NextMp
  <2>6. PICK r \in Nat : r = session.rts
    BY <2>1 DEF SessionType
  <2>7. twice' \in Nat /\ (twice' = 0 => twice = 0)
    BY DEF Taken
  <2>8. HandedOK(handed, r, twice')
    BY <2>1, <2>6, <2>7, HandedLater
  <2>9. CASE n.len = n.tlen
    <3>1. session' = [session EXCEPT !.mp = NoMessage] /\ handed' = Append(handed, n)
      BY <1>2, <2>2, <2>9 DEF HandleNextPart, Next_mp
    <3>2. session' \in SessionType /\ session'.rts = r /\ session'.mp = NoMessage
      BY <2>1, <2>6, <3>1, NoMessageType DEF SessionType
    <3>3. MpIsPartial'
      BY <3>2 DEF MpIsPartial
    <3>4. ASSUME twice' = 0 PROVE Whole(n)
      <4>1. PICK frame \in 1 .. sender.frames, filled \in SUBSET (1 .. n.tlen) : IsFilled(n, frame, filled)'
        BY <2>5, <3>4
      <4>2. Cardinality(filled) = n.tlen /\ \A i \in filled : n.data[i] = <<frame, i>>
        BY <2>9, <4>1 DEF IsFilled
      <4>3. IsFiniteSet(1 .. n.tlen) /\ Cardinality(1 .. n.tlen) = n.tlen
        <5>1. PICK a \in Int, b \in Int : a = 1 /\ b = n.tlen
          BY <2>4
        <5>2. IsFiniteSet(a .. b) /\ Cardinality(a .. b) = IF a > b THEN 0 ELSE b - a + 1
          BY FS_Interval
        <5> QED
          BY <2>4, <5>1, <5>2
      <4>4. filled = 1 .. n.tlen
        BY <4>2, <4>3, FS_Subset
      <4>5. DOMAIN n.data = 1 .. n.tlen
        <5>1. n.data \in Seq(Nat \X Nat)
          BY <2>4 DEF MessageType
        <5> QED
          BY <2>4, <5>1
      <4>6. ASSUME NEW i \in DOMAIN n.data PROVE n.data[i] = <<n.data[1][1], i>>
        <5>1. i \in filled /\ 1 \in filled
          BY <2>4, <4>4, <4>5, <4>6
        <5>2. n.data[1] = <<frame, 1>> /\ n.data[i] = <<frame, i>>
          BY <4>2, <5>1
        <5>3. n.data[1][1] = frame
          BY <5>2
        <5> QED
          BY <5>2, <5>3
      <4> QED
        BY <4>6 DEF Whole
    <3>5. r <= n.ts
      BY <2>4, <2>6
    <3>6. Append(handed, n) \in Seq(MessageType) /\ HandedOK(Append(handed, n), n.ts, twice')
      BY <2>1, <2>4, <2>7, <2>8, <3>4, <3>5, HandedAppend
    <3> QED
      BY <2>4, <2>6, <3>1, <3>2, <3>3, <3>6, TakenStep
  <2>10. CASE n.len # n.tlen
    <3>1. session' = [session EXCEPT !.mp = n] /\ handed' = handed
      BY <1>2, <2>2, <2>10 DEF HandleNextPart, Next_mp
    <3>2. session' \in SessionType /\ session'.rts = r /\ session'.mp = n
      BY <2>1, <2>4, <2>6, <3>1 DEF SessionType
    <3>3. n.len < n.tlen
      <4>1. n.len \in Nat
        BY <2>4 DEF MessageType
      <4> QED
        BY <2>4, <2>10, <4>1
    <3>4. sender' = sender
      BY DEF Taken
    <3>5. MpIsPartial'
      BY <2>4, <2>5, <2>6, <3>2, <3>3, <3>4 DEF MpIsPartial
    <3> QED
      BY <2>1, <2>8, <3>1, <3>2, <3>5, TakenStep
  <2> QED
    BY <2>9, <2>10
<1> QED
  BY <1>1, <1>2

\* handle_rtp_packet as a whole.
LEMMA PacketStep ==
  ASSUME RtpInv, NEW p \in parts, handle_rtp_packet(p)
  PROVE  RtpInv'
<1>1. Taken(p)
  <2>1. twice \in Nat /\ UNCHANGED <<sender, clock>>
    BY DEF RtpInv, RtpTypeOK, handle_rtp_packet
  <2>2. CASE parts' = parts \ {p} /\ UNCHANGED twice
    BY <2>1, <2>2 DEF Taken
  <2>3. CASE twice' = twice + 1 /\ UNCHANGED parts
    BY <2>1, <2>3 DEF Taken
  <2> QED
    BY <2>2, <2>3 DEF handle_rtp_packet
<1>2. \/ UNCHANGED <<session, handed>>
      \/ p.tlen = p.size /\ HandleSingle(p)
      \/ p.tlen # p.size /\ IsActive(p) /\ HandleNextPart(p)
      \/ p.tlen # p.size /\ HandleNewParts(p)
  BY DEF handle_rtp_packet
<1> QED
  BY <1>1, <1>2, IgnoredStep, SingleStep, NextPartStep, NewPartsStep

\* Time stamps of before are in the past.
LEMMA ClockStep ==
  ASSUME RtpInv, ClockTicks \/ rtp_new
  PROVE  RtpInv'
<1>1. /\ sender \in [seq : 0 .. SeqWord - 1, frames : Nat, now : 0 .. SeqWord - 1] /\ clock \in Nat
      /\ SeqWord \in Nat \ {0, 1}
  BY RtpAssumption DEF RtpInv, RtpTypeOK
<1>2. clock' = clock + 1 /\ parts' = parts /\ twice' = twice
  BY DEF ClockTicks, rtp_new
<1>3. sender' \in [seq : 0 .. SeqWord - 1, frames : Nat, now : 0 .. SeqWord - 1] /\ sender'.frames = sender.frames
  <2>1. 0 \in 0 .. SeqWord - 1
    BY <1>1
  <2>2. CASE sender' = [sender EXCEPT !.now = 0]
    BY <1>1, <2>1, <2>2
  <2>3. CASE sender' = [sender EXCEPT !.seq = 0, !.now = 0]
    BY <1>1, <2>1, <2>3
  <2> QED
    BY <2>2, <2>3 DEF ClockTicks, rtp_new
<1>4. \A frame, seq : \A ts \in Nat : Sent(frame, seq, ts) => Sent(frame, seq, ts)'
  BY <1>1, <1>2, <1>3 DEF Sent
<1>5. PartsAreCut'
  <2>1. \A q \in parts : q.ts \in Nat
    BY DEF RtpInv, RtpTypeOK, PartType
  <2> QED
    BY <1>2, <1>4, <2>1 DEF RtpInv, PartsAreCut
<1>6. CASE ClockTicks
  <2>1. UNCHANGED <<session, handed>>
    BY <1>6 DEF ClockTicks
  <2>2. MpIsPartial'
    <3>1. SUFFICES ASSUME session.mp # NoMessage, twice = 0
                   PROVE  \E frame \in 1 .. sender.frames : \E filled \in SUBSET (1 .. session.mp.tlen) :
                            IsFilled(session.mp, frame, filled)'
      BY <1>2, <1>3, <2>1 DEF RtpInv, MpIsPartial
    <3>2. PICK m \in MessageType : m = session.mp
      BY DEF RtpInv, RtpTypeOK, SessionType
    <3>3. PICK frame \in 1 .. sender.frames, filled \in SUBSET (1 .. m.tlen) : IsFilled(m, frame, filled)
      BY <3>1, <3>2 DEF RtpInv, MpIsPartial
    <3>4. m.ts \in Nat
      BY DEF MessageType
    <3>5. IsFilled(m, frame, filled)'
      BY <1>2, <1>4, <3>3, <3>4 DEF IsFilled
    <3> QED
      BY <2>1, <3>2, <3>3, <3>5
  <2> QED
    BY <1>1, <1>2, <1>3, <1>5, <2>1, <2>2 DEF RtpInv, RtpTypeOK
<1>7. CASE rtp_new
  <2>1. session' = NewSession /\ handed' = << >>
    BY <1>7 DEF rtp_new
  <2>2. session' \in SessionType /\ session'.mp = NoMessage
    BY <2>1, NoMessageType DEF NewSession, SessionType
  <2>3. MpIsPartial'
    BY <2>2 DEF MpIsPartial
  <2>4. HandedOK(<< >>, session'.rts, twice')
    BY DEF HandedOK
  <2> QED
    BY <1>1, <1>2, <1>3, <1>5, <2>1, <2>2, <2>3, <2>4 DEF RtpInv, RtpTypeOK, SessionType
<1> QED
  BY <1>6, <1>7

LEMMA MuteStep ==
  ASSUME RtpInv, rtp_stop_receiving \/ rtp_allow_receiving
  PROVE  RtpInv'
<1>1. UNCHANGED <<sender, clock, parts, handed, twice>>
  BY DEF rtp_stop_receiving, rtp_allow_receiving
<1>2. session \in SessionType
  BY DEF RtpInv, RtpTypeOK, SessionType
<1>3. session' \in SessionType /\ session'.rts = session.rts /\ session'.mp = session.mp
  BY <1>2 DEF rtp_stop_receiving, rtp_allow_receiving, SessionType
<1>4. MpIsPartial'
  BY <1>1, <1>3, MpStays
<1>5. PartsAreCut'
  BY <1>1, FewerParts
<1> QED
  BY <1>1, <1>3, <1>4, <1>5 DEF RtpInv, RtpTypeOK, SessionType

LEMMA RtpInitInv == RtpInit => RtpInv
<1>1. SUFFICES ASSUME RtpInit PROVE RtpInv
  OBVIOUS
<1>2. 0 \in 0 .. SeqWord - 1
  BY RtpAssumption
<1>3. session = NewSession /\ session \in SessionType /\ session.mp = NoMessage /\ session.rts = 0
  BY <1>1, NoMessageType DEF RtpInit, NewSession, SessionType
<1>4. RtpTypeOK
  BY <1>1, <1>2, <1>3 DEF RtpInit, RtpTypeOK, SessionType
<1>5. PartsAreCut /\ MpIsPartial
  BY <1>1, <1>3 DEF RtpInit, PartsAreCut, MpIsPartial
<1>6. HandedOK(handed, session.rts, twice)
  BY <1>1 DEF RtpInit, HandedOK
<1> QED
  BY <1>4, <1>5, <1>6 DEF RtpInv

LEMMA RtpNextInv == RtpInv /\ [RtpNext]_rtpVars => RtpInv'
<1>1. SUFFICES ASSUME RtpInv, [RtpNext]_rtpVars PROVE RtpInv'
  OBVIOUS
<1>2. CASE \E length \in FrameLength : rtp_send_data(length)
  BY <1>1, <1>2, SendStep
<1>3. CASE \E p \in parts : handle_rtp_packet(p)
  BY <1>1, <1>3, PacketStep
<1>4. CASE rtp_stop_receiving \/ rtp_allow_receiving
  BY <1>1, <1>4, MuteStep
<1>5. CASE ClockTicks \/ rtp_new
  BY <1>1, <1>5, ClockStep
<1>6. CASE UNCHANGED rtpVars
  <2>1. UNCHANGED <<sender, clock, parts, session, handed, twice>>
    BY <1>6 DEF rtpVars
  <2>2. MpIsPartial'
    BY <1>1, <2>1, MpStays
  <2>3. PartsAreCut'
    BY <1>1, <2>1, FewerParts
  <2> QED
    BY <1>1, <2>1, <2>2, <2>3 DEF RtpInv, RtpTypeOK
<1> QED
  BY <1>1, <1>2, <1>3, <1>4, <1>5, <1>6 DEF RtpNext

\* Frames of any length, cut into pieces of any size, come out of
\* handle_rtp_packet as they went in and in order, however their parts are lost,
\* overtake each other or arrive twice, and however often calls begin anew.
THEOREM FramesStaySound == RtpSpec => []FramesAreSound
<1>1. RtpInv => FramesAreSound
  BY DEF RtpInv, HandedOK, Whole, FramesAreSound, FullMessagesAreWhole, DecodesInOrder
<1> QED
  BY <1>1, RtpInitInv, RtpNextInv, PTL DEF RtpSpec

=============================================================================
