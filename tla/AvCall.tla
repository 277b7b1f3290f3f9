------------------------------- MODULE AvCall -------------------------------
(***************************************************************************)
(* Calls between two friends: the signalling of toxav/msi.c (init, push    *)
(* and pop messages) and the calls of toxav/toxav.c on top of it.  Each    *)
(* side has at most one MSICall and one ToxAVCall for the other.           *)
(*                                                                         *)
(* Messages travel over a lossless crypto connection: in order, but a send *)
(* may fail, which the code ignores, and all are lost when the connection  *)
(* goes.  Capabilities are sets of <<"S", medium>> (sends) and             *)
(* <<"R", medium>> (receives).  The application has set its callbacks, and *)
(* the codecs can be created.                                              *)
(*                                                                         *)
(* The messenger's thread handles messages with the mutex of the session   *)
(* held, the API tries that mutex and fails if it is taken: what a call of *)
(* the API has changed by then stays.                                      *)
(*                                                                         *)
(* An MSICall can be killed while the ToxAVCall that points to it stays.   *)
(* To use such a pointer is undefined: nothing is said of what happens     *)
(* after that, and the operations that would are not taken (Usable).       *)
(***************************************************************************)
EXTENDS Integers, Sequences

CONSTANTS
  Node,         \* two friends
  Media,        \* audio and video
  MaxFailures,  \* bound: sends that fail
  MaxQueue,     \* bound: messages on their way to a node
  MaxRequests   \* bound: calls and changes of capabilities in all

ASSUME NodeAssumption == \E a, b \in Node : a # b /\ Node = {a, b}
ASSUME BoundsAssumption == MaxFailures \in Nat /\ MaxQueue \in Nat /\ MaxRequests \in Nat

Peer(e) == CHOOSE n \in Node : n # e

VARIABLES
  msi,      \* [Node -> MSICall], with state "None" if there is none
  av,       \* [Node -> ToxAVCall]
  online,   \* [Node -> BOOLEAN], does Messenger report the friend as online?
  queue,    \* [Node -> messages on their way to the node]
  told,     \* history: what the application believes its call to be
  requests, \* calls and changes of capabilities so far
  failures, \* sends that have failed so far
  placed    \* history: calls placed so far

vars == <<msi, av, online, queue, told, requests, failures, placed>>

S(m) == <<"S", m>>
R(m) == <<"R", m>>

Capabilities == SUBSET ({"S", "R"} \X Media)

\* What toxav_call and toxav_answer announce; media are those with a bit rate.
Announced(media) == {R(m) : m \in Media} \cup {S(m) : m \in media}

NoMsi == [state |-> "None", self |-> {}, peer |-> {}]

NoAv == [exists |-> FALSE, active |-> FALSE, previous |-> {}, rates |-> {}, receiving |-> {}]

\* call_new.
NewAv(previous, rates) ==
  [NoAv EXCEPT !.exists = TRUE, !.previous = previous, !.rates = rates]

\* The pointer of a ToxAVCall to its MSICall is good.
Usable(e) == av[e].exists /\ msi[e].state # "None"

Init ==
  /\ msi = [e \in Node |-> NoMsi]
  /\ av = [e \in Node |-> NoAv]
  /\ online = [e \in Node |-> TRUE]
  /\ queue = [e \in Node |-> <<>>]
  /\ told = [e \in Node |-> "nothing"]
  /\ requests = 0
  /\ failures = 0
  /\ placed = 0

-----------------------------------------------------------------------------
\* Messages.

InitMessage(caps) == [request |-> "init", error |-> FALSE, caps |-> caps]
PushMessage(caps) == [request |-> "push", error |-> FALSE, caps |-> caps]
PopMessage == [request |-> "pop", error |-> FALSE, caps |-> {}]
ErrorMessage == [request |-> "pop", error |-> TRUE, caps |-> {}]

\* send_message, when queues is what was on its way before.  Its result is
\* ignored everywhere.
send_message(queues, e, message) ==
  \/ /\ \A n \in Node : online[n]
     /\ Len(queues[Peer(e)]) < MaxQueue
     /\ queue' = [queues EXCEPT ![Peer(e)] = Append(@, message)]
     /\ UNCHANGED failures
  \/ /\ \E n \in Node : ~ online[n]
     /\ queue' = queues
     /\ UNCHANGED failures
  \/ /\ failures < MaxFailures
     /\ failures' = failures + 1
     /\ queue' = queues

\* call_prepare_transmission: rtp_new allows receiving.
Prepared(call) ==
  IF call.active THEN call ELSE [call EXCEPT !.active = TRUE, !.receiving = Media]

-----------------------------------------------------------------------------
\* The API of toxav.

\* toxav_call, with msi_invite.
toxav_call(e, media) ==
  /\ requests < MaxRequests
  /\ online[e]
  /\ ~ av[e].exists
  /\ msi[e].state = "None"
  /\ av' = [av EXCEPT ![e] = NewAv(Announced(media), media)]
  /\ msi' = [msi EXCEPT ![e] =
               [state |-> "Requesting", self |-> Announced(media), peer |-> {}]]
  /\ send_message(queue, e, InitMessage(Announced(media)))
  /\ told' = [told EXCEPT ![e] = "calling"]
  /\ requests' = requests + 1
  /\ placed' = placed + 1
  /\ UNCHANGED online

\* toxav_answer, with msi_answer, which fails unless the friend is calling,
\* and when the mutex is taken.
toxav_answer(e, media) ==
  /\ Usable(e)
  /\ av' = [av EXCEPT ![e] = [Prepared(@) EXCEPT
              !.previous = Announced(media), !.rates = media]]
  /\ \/ /\ msi[e].state = "Requested"
        /\ msi' = [msi EXCEPT ![e].state = "Active", ![e].self = Announced(media)]
        /\ send_message(queue, e, PushMessage(Announced(media)))
        /\ told' = [told EXCEPT ![e] = "active"]
     \/ UNCHANGED <<msi, queue, told, failures>>
  /\ UNCHANGED <<online, requests, placed>>

\* Mutant: the message carries the capabilities of before the change.
ChangeCapabilities_SendsOld(e, caps, call) ==
  /\ msi[e].state = "Active"
  /\ msi' = [msi EXCEPT ![e].self = caps]
  /\ av' = [av EXCEPT ![e] = call]
  /\ send_message(queue, e, PushMessage(msi[e].self))
  /\ UNCHANGED <<online, told, placed>>

\* msi_change_capabilities to caps, and what toxav_call_control and
\* toxav_bit_rate_set do around it when it succeeds.
ChangeCapabilities(e, caps, call) ==
  /\ msi[e].state = "Active"
  /\ msi' = [msi EXCEPT ![e].self = caps]
  /\ av' = [av EXCEPT ![e] = call]
  /\ send_message(queue, e, PushMessage(caps))
  /\ UNCHANGED <<online, told, placed>>

\* Pause remembers the capabilities even if they cannot be changed.
Pause(e) ==
  /\ msi[e].self # {}
  /\ \/ ChangeCapabilities(e, {},
          [av[e] EXCEPT !.previous = msi[e].self, !.receiving = {}])
     \/ /\ av' = [av EXCEPT ![e].previous = msi[e].self]
        /\ UNCHANGED <<msi, online, queue, told, failures, placed>>

Resume(e) ==
  /\ msi[e].self = {}
  /\ av[e].previous # {}
  /\ ChangeCapabilities(e, av[e].previous, [av[e] EXCEPT !.receiving = Media])

\* TOXAV_CALL_CONTROL_MUTE_AUDIO and _HIDE_VIDEO.
Mute(e, m) ==
  /\ R(m) \in msi[e].self
  /\ ChangeCapabilities(e, msi[e].self \ {R(m)}, [av[e] EXCEPT !.receiving = @ \ {m}])

\* TOXAV_CALL_CONTROL_UNMUTE_AUDIO and _SHOW_VIDEO: the test is self ^ R(m).
Unmute(e, m) ==
  /\ msi[e].self # {R(m)}
  /\ ChangeCapabilities(e, msi[e].self \cup {R(m)}, [av[e] EXCEPT !.receiving = @ \cup {m}])

\* toxav_bit_rate_set, for one medium: sending stops or starts.
StopSending(e, m) ==
  /\ m \in av[e].rates
  /\ ChangeCapabilities(e,
       IF S(m) \in msi[e].self THEN msi[e].self \ {S(m)} ELSE msi[e].self \cup {S(m)},
       [av[e] EXCEPT !.rates = @ \ {m}])

StartSending(e, m) ==
  /\ m \notin av[e].rates
  /\ ChangeCapabilities(e, msi[e].self \cup {S(m)}, [av[e] EXCEPT !.rates = @ \cup {m}])

toxav_call_control(e) ==
  /\ Usable(e)
  /\ av[e].active
  /\ requests < MaxRequests
  /\ requests' = requests + 1
  /\ \/ Pause(e)
     \/ Resume(e)
     \/ \E m \in Media :
          Mute(e, m) \/ Unmute(e, m) \/ StopSending(e, m) \/ StartSending(e, m)

\* Mutant: the call is removed even if the mutex was taken.
Cancel_IgnoresFailure(e) ==
  /\ Usable(e)
  /\ av' = [av EXCEPT ![e] = NoAv]
  /\ told' = [told EXCEPT ![e] = "nothing"]
  /\ \/ /\ msi' = [msi EXCEPT ![e] = NoMsi]
        /\ send_message(queue, e, PopMessage)
     \/ UNCHANGED <<msi, queue, failures>>
  /\ UNCHANGED <<online, requests, placed>>

\* TOXAV_CALL_CONTROL_CANCEL, with msi_hangup.
Cancel(e) ==
  /\ Usable(e)
  /\ msi' = [msi EXCEPT ![e] = NoMsi]
  /\ av' = [av EXCEPT ![e] = NoAv]
  /\ send_message(queue, e, PopMessage)
  /\ told' = [told EXCEPT ![e] = "nothing"]
  /\ UNCHANGED <<online, requests, placed>>

-----------------------------------------------------------------------------
\* handle_msi_packet of node e.

callback_invite(e) ==
  /\ av' = [av EXCEPT ![e] = NewAv({}, {})]
  /\ told' = [told EXCEPT ![e] = "ringing"]

callback_start(e) ==
  /\ av' = [av EXCEPT ![e] = Prepared(@)]
  /\ told' = [told EXCEPT ![e] = "active"]

\* Receiving follows what the friend sends.
callback_capabilites(e, caps) ==
  /\ av' = [av EXCEPT ![e].receiving = {m \in Media : S(m) \in caps}]
  /\ UNCHANGED told

\* Mutant: the application is not told of the end.
EndCall_Untold(e) ==
  /\ msi' = [msi EXCEPT ![e] = NoMsi]
  /\ av' = [av EXCEPT ![e] = NoAv]
  /\ UNCHANGED told

\* callback_end and callback_error, then kill_call.
EndCall(e) ==
  /\ msi' = [msi EXCEPT ![e] = NoMsi]
  /\ av' = [av EXCEPT ![e] = NoAv]
  /\ told' = [told EXCEPT ![e] = "nothing"]

\* FAILURE of handle_init: no callback is called.
FailInit(e, rest) ==
  /\ send_message(rest, e, ErrorMessage)
  /\ msi' = [msi EXCEPT ![e] = NoMsi]
  /\ UNCHANGED <<av, told>>

handle_init(e, caps, rest) ==
  \/ \* a new call
     /\ msi[e].state = "None"
     /\ ~ av[e].exists
     /\ msi' = [msi EXCEPT ![e] = [state |-> "Requested", self |-> {}, peer |-> caps]]
     /\ callback_invite(e)
     /\ queue' = rest
     /\ UNCHANGED failures
  \/ \* callback_invite fails: there is a ToxAVCall
     /\ msi[e].state = "None"
     /\ av[e].exists
     /\ FailInit(e, rest)
  \/ \* the friend calls again: the call is answered
     /\ msi[e].state = "Active"
     /\ send_message(rest, e, PushMessage(msi[e].self))
     /\ UNCHANGED <<msi, av, told>>
  \/ /\ msi[e].state \in {"Requesting", "Requested"}
     /\ FailInit(e, rest)

handle_push(e, caps, rest) ==
  \/ /\ msi[e].state = "Active"
     /\ msi[e].peer # caps
     /\ msi' = [msi EXCEPT ![e].peer = caps]
     /\ callback_capabilites(e, caps)
     /\ queue' = rest
     /\ UNCHANGED failures
  \/ /\ msi[e].state = "Requesting"
     /\ msi' = [msi EXCEPT ![e].state = "Active", ![e].peer = caps]
     /\ callback_start(e)
     /\ queue' = rest
     /\ UNCHANGED failures
  \/ /\ \/ msi[e].state = "Active" /\ msi[e].peer = caps
        \/ msi[e].state = "Requested"
     /\ queue' = rest
     /\ UNCHANGED <<msi, av, told, failures>>

handle_pop(e, rest) ==
  /\ msi[e].state # "None"
  /\ EndCall(e)
  /\ queue' = rest
  /\ UNCHANGED failures

\* There is no call for a push or a pop.
HandleStray(e, rest) ==
  /\ msi[e].state = "None"
  /\ send_message(rest, e, ErrorMessage)
  /\ UNCHANGED <<msi, av, told>>

handle_msi_packet(e) ==
  LET message == Head(queue[e])
      rest == [queue EXCEPT ![e] = Tail(@)]
  IN  /\ queue[e] # <<>>
      /\ CASE message.request = "init" -> handle_init(e, message.caps, rest)
           [] message.request = "push" -> \/ msi[e].state # "None" /\ handle_push(e, message.caps, rest)
                                          \/ HandleStray(e, rest)
           [] message.request = "pop" -> handle_pop(e, rest) \/ HandleStray(e, rest)
      /\ UNCHANGED <<online, requests, placed>>

\* on_peer_status: Messenger reports that the friend has gone offline.  What
\* is on its way in either direction is lost.
on_peer_status(e) ==
  /\ online[e]
  /\ online' = [online EXCEPT ![e] = FALSE]
  /\ queue' = [n \in Node |-> <<>>]
  /\ IF msi[e].state # "None" THEN EndCall(e) ELSE UNCHANGED <<msi, av, told>>
  /\ UNCHANGED <<requests, failures, placed>>

\* A new crypto connection; it needs both sides.
Reconnect ==
  /\ \A e \in Node : ~ online[e]
  /\ online' = [e \in Node |-> TRUE]
  /\ UNCHANGED <<msi, av, queue, told, requests, failures, placed>>

Next ==
  \/ \E e \in Node :
       \/ \E media \in SUBSET Media : toxav_call(e, media) \/ toxav_answer(e, media)
       \/ toxav_call_control(e)
       \/ Cancel(e)
       \/ handle_msi_packet(e)
       \/ on_peer_status(e)
  \/ Reconnect

Spec == Init /\ [][Next]_vars

-----------------------------------------------------------------------------
Messages == [request : {"init", "push", "pop"}, error : BOOLEAN, caps : Capabilities]

MsiType ==
  [state : {"None", "Requesting", "Requested", "Active"},
   self : Capabilities, peer : Capabilities]

AvType ==
  [exists : BOOLEAN, active : BOOLEAN, previous : Capabilities,
   rates : SUBSET Media, receiving : SUBSET Media]

\* The type invariant.
TypeOK ==
  /\ msi \in [Node -> MsiType]
  /\ av \in [Node -> AvType]
  /\ online \in [Node -> BOOLEAN]
  /\ queue \in [Node -> Seq(Messages)]
  /\ told \in [Node -> {"nothing", "calling", "ringing", "active"}]
  /\ requests \in 0 .. MaxRequests
  /\ failures \in 0 .. MaxFailures
  /\ placed \in 0 .. requests

\* Every MSICall has a ToxAVCall behind it, which is set up for transmission
\* once the call is active: callback_capabilites uses call->av_call and its RTP
\* sessions without a check, on whatever push arrives.
CallsAreBacked ==
  \A e \in Node :
    /\ msi[e].state # "None" => av[e].exists
    /\ msi[e].state = "Active" => av[e].active

\* The application's picture follows the signalling, in whatever order messages,
\* lost connections and its own calls come: it has been told of an incoming call,
\* of a start and of an end exactly when there was one.  The exception is a call
\* that handle_init kills and tells nobody of (FAILURE): its ToxAVCall stays
\* without an MSICall, and the application goes on believing that it calls or is
\* called.  No call that was active ends that way.
PictureIsRight ==
  \A e \in Node :
    CASE msi[e].state = "Requesting" -> told[e] = "calling"
      [] msi[e].state = "Requested" -> told[e] = "ringing"
      [] msi[e].state = "Active" -> told[e] = "active"
      [] msi[e].state = "None" /\ ~ av[e].exists -> told[e] = "nothing"
      [] msi[e].state = "None" /\ av[e].exists -> told[e] \in {"calling", "ringing"}

\* In a call whose messages have all arrived, each side knows what the other
\* sends and receives, however pauses, mutes and answers have crossed.  It is
\* so in the first call and while no send fails: send_message's result is
\* ignored, and a push left from an earlier call is taken for an answer to the
\* next one (handle_push knows no calls apart).
CapabilitiesAgree ==
  (/\ failures = 0
   /\ placed = 1
   /\ \A e \in Node : msi[e].state = "Active" /\ queue[e] = <<>>)
  => \A e \in Node : msi[e].peer = msi[Peer(e)].self

\* toxav.h, on toxav_call: "If the client does not stop ringing, the library
\* will not stop until the friend is disconnected."
RingsUntilDisconnected ==
  \A e \in Node : told[e] = "calling" => msi[e].state = "Requesting"

=============================================================================
