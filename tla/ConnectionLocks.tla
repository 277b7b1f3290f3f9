-------------------------- MODULE ConnectionLocks --------------------------
(***************************************************************************)
(* The locks around the crypto_connections array (toxcore/net_crypto.c).   *)
(* The tox thread creates and kills connections, which moves the array in  *)
(* memory; the threads of toxav call send_lossy_cryptpacket meanwhile.     *)
(* connection_use_counter counts those calls, connections_mutex guards the *)
(* counter, and the tox thread spins until it is 0.  tcp_mutex guards the  *)
(* relay connections; it is recursive, so the tox thread, the only one     *)
(* that ever takes it twice, cannot block itself on it.                    *)
(*                                                                         *)
(* conn->mutex is left out: no other lock is ever taken while it is held.  *)
(***************************************************************************)
EXTENDS Integers, FiniteSets

CONSTANTS
  AvThread,    \* the threads of toxav
  Route,       \* how the packets the tox thread handles reach it
  Nobody,      \* a lock that is free
  MaxChanges   \* bound: changes the tox thread makes to the array

\* "udp": udp_handle_packet, do_friend_connections and the API, no lock held;
\* "relay": tcp_data_callback, which gives tcp_mutex back meanwhile;
\* "oob": tcp_oob_callback, and onion packets from a relay, called by do_tcp
\* with tcp_mutex held.
ASSUME RouteAssumption == Route \subseteq {"udp", "relay", "oob"}
ASSUME BoundAssumption == MaxChanges \in Nat
ASSUME ThreadAssumption ==
  /\ IsFiniteSet(AvThread)
  /\ {Nobody, "tox"} \cap AvThread = {}
  /\ Nobody # "tox"

VARIABLES
  pc,            \* where each thread is
  connections_mutex,
  tcp_mutex,     \* the owners of the two locks
  use_counter,   \* connection_use_counter
  inTcp,         \* does the tox thread run inside do_tcp_connections?
  moves,         \* how often the array was wiped or moved
  seen           \* the array an AvThread's conn pointer points into

lockVars == <<pc, connections_mutex, tcp_mutex, use_counter, inTcp, moves, seen>>

Thread == AvThread \cup {"tox"}

LocksInit ==
  /\ pc = [t \in Thread |-> "idle"]
  /\ connections_mutex = Nobody
  /\ tcp_mutex = Nobody
  /\ use_counter = 0
  /\ inTcp = FALSE
  /\ moves = 0
  /\ seen = [t \in AvThread |-> 0]

Goto(t, from, to) ==
  /\ pc[t] = from
  /\ pc' = [pc EXCEPT ![t] = to]

-----------------------------------------------------------------------------
\* send_lossy_cryptpacket, with send_packet_to.

\* ++connection_use_counter, and get_crypto_connection.
BeginUse(t) ==
  /\ Goto(t, "idle", "using")
  /\ connections_mutex = Nobody
  /\ use_counter' = use_counter + 1
  /\ seen' = [seen EXCEPT ![t] = moves]
  /\ UNCHANGED <<connections_mutex, tcp_mutex, inTcp, moves>>

\* The connection is direct: the packet goes out over UDP.
SendDirect(t) ==
  /\ Goto(t, "using", "sent")
  /\ UNCHANGED <<connections_mutex, tcp_mutex, use_counter, inTcp, moves, seen>>

\* Otherwise it goes through a relay.
NotDirect(t) ==
  /\ Goto(t, "using", "waiting")
  /\ UNCHANGED <<connections_mutex, tcp_mutex, use_counter, inTcp, moves, seen>>

SendTcp(t) ==
  /\ Goto(t, "waiting", "sending")
  /\ tcp_mutex = Nobody
  /\ tcp_mutex' = t
  /\ UNCHANGED <<connections_mutex, use_counter, inTcp, moves, seen>>

SentTcp(t) ==
  /\ Goto(t, "sending", "sent")
  /\ tcp_mutex' = Nobody
  /\ UNCHANGED <<connections_mutex, use_counter, inTcp, moves, seen>>

\* Mutant of EndUse: an early return forgets the counter.
EndUse_Forgets(t) ==
  /\ Goto(t, "sent", "idle")
  /\ UNCHANGED <<connections_mutex, tcp_mutex, use_counter, inTcp, moves, seen>>

\* --connection_use_counter.
EndUse(t) ==
  /\ Goto(t, "sent", "idle")
  /\ connections_mutex = Nobody
  /\ use_counter' = use_counter - 1
  /\ UNCHANGED <<connections_mutex, tcp_mutex, inTcp, moves, seen>>

\* A call that has begun goes on.
AvGoesOn(t) ==
  \/ SendDirect(t) \/ NotDirect(t) \/ SendTcp(t) \/ SentTcp(t) \/ EndUse(t)

AvNext(t) == BeginUse(t) \/ AvGoesOn(t)

-----------------------------------------------------------------------------
\* The tox thread.

\* do_tcp.
do_tcp ==
  /\ Goto("tox", "idle", "tcp")
  /\ tcp_mutex = Nobody
  /\ tcp_mutex' = "tox"
  /\ inTcp' = TRUE
  /\ UNCHANGED <<connections_mutex, use_counter, moves, seen>>

LeaveTcp ==
  /\ Goto("tox", "tcp", "idle")
  /\ tcp_mutex' = Nobody
  /\ inTcp' = FALSE
  /\ UNCHANGED <<connections_mutex, use_counter, moves, seen>>

\* A packet makes the tox thread call crypto_kill, or create_crypto_connection
\* when no entry is free.
PacketFrom(route) ==
  /\ moves < MaxChanges
  /\ \/ route = "udp" /\ Goto("tox", "idle", "spin")
     \/ route # "udp" /\ Goto("tox", "tcp", "spin")
  /\ tcp_mutex' = IF route = "relay" THEN Nobody ELSE tcp_mutex
  /\ UNCHANGED <<connections_mutex, use_counter, inTcp, moves, seen>>

\* Mutant of CanLeaveSpin: the counter is not looked at.
CanLeaveSpin_Mutex == connections_mutex = Nobody

\* The loop at the start of both takes connections_mutex until the counter is
\* 0 (a round that finds it is not changes nothing).
CanLeaveSpin == connections_mutex = Nobody /\ use_counter = 0

LeaveSpin ==
  /\ Goto("tox", "spin", "locked")
  /\ CanLeaveSpin
  /\ connections_mutex' = "tox"
  /\ UNCHANGED <<tcp_mutex, use_counter, inTcp, moves, seen>>

\* realloc_cryptoconnection in create_crypto_connection.
Grow ==
  /\ Goto("tox", "locked", "changed")
  /\ moves' = moves + 1
  /\ connections_mutex' = Nobody
  /\ UNCHANGED <<tcp_mutex, use_counter, inTcp, seen>>

\* crypto_kill takes tcp_mutex for the kill packet and for
\* kill_tcp_connection_to, then wipes the connection.
KillTcpConnection ==
  /\ Goto("tox", "locked", "wiping")
  /\ tcp_mutex \in {Nobody, "tox"}
  /\ UNCHANGED <<connections_mutex, tcp_mutex, use_counter, inTcp, moves, seen>>

wipe_crypto_connection ==
  /\ Goto("tox", "wiping", "changed")
  /\ moves' = moves + 1
  /\ connections_mutex' = Nobody
  /\ UNCHANGED <<tcp_mutex, use_counter, inTcp, seen>>

\* The handler returns; tcp_data_callback takes tcp_mutex again.
Return ==
  /\ Goto("tox", "changed", IF inTcp THEN "tcp" ELSE "idle")
  /\ inTcp => tcp_mutex \in {Nobody, "tox"}
  /\ tcp_mutex' = IF inTcp THEN "tox" ELSE tcp_mutex
  /\ UNCHANGED <<connections_mutex, use_counter, inTcp, moves, seen>>

ToxNext ==
  \/ do_tcp \/ LeaveTcp
  \/ \E route \in Route : PacketFrom(route)
  \/ LeaveSpin \/ Grow \/ KillTcpConnection \/ wipe_crypto_connection \/ Return

LocksNext == ToxNext \/ \E t \in AvThread : AvNext(t)

LocksSpec == LocksInit /\ [][LocksNext]_lockVars

\* The tox thread takes the steps it can take, and a toxav thread that has begun
\* a call goes on with it; whether it ever begins another is up to the caller.
LocksFairSpec ==
  /\ LocksSpec
  /\ WF_lockVars(ToxNext)
  /\ \A t \in AvThread : WF_lockVars(AvGoesOn(t))

-----------------------------------------------------------------------------
\* The type invariant.
LocksTypeOK ==
  /\ pc \in [Thread -> {"idle", "using", "waiting", "sending", "sent",
                        "tcp", "spin", "locked", "wiping", "changed"}]
  /\ connections_mutex \in Thread \cup {Nobody}
  /\ tcp_mutex \in Thread \cup {Nobody}
  /\ use_counter \in Nat
  /\ inTcp \in BOOLEAN
  /\ moves \in 0 .. MaxChanges
  /\ seen \in [AvThread -> 0 .. MaxChanges]

InUse(t) == pc[t] \in {"using", "waiting", "sending", "sent"}

\* The conn pointer of send_lossy_cryptpacket stays good while it is used: the
\* tox thread neither moves the array nor wipes a connection meanwhile.
PointerStaysValid == \A t \in AvThread : InUse(t) => seen[t] = moves

\* toxav.h: "this API is fully thread-safe. The library will ensure the proper
\* synchronization of parallel calls."  So the tox thread gets out of the loop
\* that waits for the toxav threads, unless they begin calls for ever: calls of
\* two threads that overlap without end never leave connection_use_counter at 0,
\* and nothing in crypto_kill or create_crypto_connection keeps new ones out.
SpinEnds ==
  \/ pc["tox"] = "spin" ~> pc["tox"] # "spin"
  \/ \E t \in AvThread : []<><<BeginUse(t)>>_lockVars

=============================================================================
