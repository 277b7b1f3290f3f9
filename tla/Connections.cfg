CONSTANTS
  Key = {k1, k2, k3}
  Address = {a1, a2}
  Local = {a1}
  Nothing = Nothing
  MaxTries = 2
  AvThread = {audio, video}
  Nobody = Nobody
  Route = {"udp", "relay"}
  MaxChanges = 2
  DhtKey = {d1, d2}
  NoKey = NoKey
  DhtTimeout = 2
  ConnectionTimeout = 2
  MaxUsers = 2
  Alice = Alice
  Bob = Bob
  NoPacket = NoPacket
  MaxSessions = 2
  MaxEpoch = 1
  Networks = {"none", "routed", "patient"}
  NumSpace = 7
  Threshold = 2
  NonceSpace = 42
  FirstNonce = 38
  MaxSent = 20
  MinQueue = 3
  MaxRefill = 3
  QuotaWord = 64
SPECIFICATION FairSpec
INVARIANTS
  TableIsSound PointerStaysValid
  OldPacketsRejected WindowAroundNewest QuotaOrdered
  LayersAgree CallbacksAlternate WipedForLastHolder
PROPERTIES HalfOpenEndsOrIsCutOff SpinEnds SilenceIsNoticed HandshakesEnd
CHECK_DEADLOCK FALSE
