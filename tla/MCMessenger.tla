----------------------------- MODULE MCMessenger -----------------------------
(***************************************************************************)
(* Two friends in one instance for TLC: the friendship, its file           *)
(* transfers, its calls and the frames of a call.  The four modules look   *)
(* at different parts of the state, so that every behaviour moves one of   *)
(* them and leaves the others where they start.                            *)
(***************************************************************************)
EXTENDS MessengerFriend, FileTransfer, AvCall, RtpSession, TLC

CONSTANTS Alice, Bob

VARIABLE part   \* the part that moves

FriendsInit ==
  /\ part \in {"friend", "files", "call", "frames"}
  /\ MessengerInit /\ FileInit /\ Init /\ RtpInit

InFriend(A) == part = "friend" /\ A /\ UNCHANGED <<part, fileVars, vars, rtpVars>>
InFiles(A) == part = "files" /\ A /\ UNCHANGED <<part, messengerVars, vars, rtpVars>>
InCall(A) == part = "call" /\ A /\ UNCHANGED <<part, messengerVars, fileVars, rtpVars>>
InFrames(A) == part = "frames" /\ A /\ UNCHANGED <<part, messengerVars, fileVars, vars>>

FriendsNext == InFriend(MessengerNext) \/ InFiles(FileNext) \/ InCall(Next) \/ InFrames(RtpNext)

FriendsSpec == FriendsInit /\ [][FriendsNext]_<<part, messengerVars, fileVars, vars, rtpVars>>

Alike == Permutations(User) \cup Permutations({Alice, Bob})

=============================================================================
