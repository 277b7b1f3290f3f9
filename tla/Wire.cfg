CONSTANTS
  Alice = Alice
  Bob = Bob
  NoPacket = NoPacket
  MaxTries = 2
  MaxSessions = 3
  MaxEpoch = 2
  Networks = {"none"}
  MaxRun = 3
  MaxWindow = 8
  MaxLength = 8
  PacketSizes = {2, 3}
  MaxRoom = 4
  MaxWritten = 4
  n1 = n1
  n2 = n2
  n3 = n3
  n4 = n4
  u1 = u1
  u2 = u2
  OnionNode = {n1, n2, n3, n4}
  OnionUser = {u1, u2}
  OnionPath <- WirePaths
  TcpPath <- WireTcpPaths
  MaxOnWire = 1
  MaxEvents = 4
  Store = n4
  NoUser = NoUser
  OnionDistance <- WireDistance
  MaxEntries = 1
  AnnounceTimeout = 2
  MaxPeriod = 2
  NatClients = 2
  Report <- WireReports
  PortWord = 16
  FirstPort = 9
  PunchPorts = 4
  NormalTries = 0
  PunchInterval = 1
  ReportTimeout = 3
  OldNat = 3
  MaxNatCalls = 6
SPECIFICATION WireSpec
SYMMETRY Alike
INVARIANTS
  SessionsAgree AgreesWithReference StreamStaysInOrder
  AnswersFindTheirWay EntriesAreEarned HolePunchingIsSound
CHECK_DEADLOCK FALSE
