CONSTANTS
  c1 = c1
  c2 = c2
  RelayClient = {c1, c2, c3}
  NoClient = NoClient
  NumLinks = 1
  GrowBy = 1
  MaxIncoming = 1
  MaxSockets = 3
  MaxStream = 1
  MaxRelayCalls = 4
  Datum = {1, 2, 3, 4, 5, 6, 7, 8}
  IdOf <- OverlayIds
  Capacity = 2
  TcpPeer = {p1, p2}
  TcpNode = {r1, r2}
  NoPeer = NoPeer
  Recommended = 1
  MaxTies = 2
  NumSlots = 2
  MaxInFlight = 1
  MaxTcpCalls = 5
  GroupRingSize = 16
  DesiredClose = 2
  RingClose = 4
  MaxLapses = 1
  GroupMember = {0, 2, 5, 7, 9, 12}
  NoMember = NoMember
  NumberWord = 8
  AheadOfLast = 2
  LossyCount = 2
  MaxLag = 4
  MaxGap = 6
  MaxSpoken = 11
  GroupPeer = {0, 2, 5, 9}
  GroupSelf = 0
  GroupFriend = {5}
  MaxClose = 3
  PeerNumber = {0, 1, 2}
  SomeNumbers = {1}
  PeerTimeout = 1
  MaxListed = 1
  MaxGroupCalls = 5
SPECIFICATION OverlaySpec
SYMMETRY Alike
INVARIANTS
  RelayAndClientsAgree FindsWhatWasAdded RelayCountsAreExact
  ConnectionsAreHeld ClosestAreSound WordGoesRound CopiesAreDropped
CHECK_DEADLOCK FALSE
