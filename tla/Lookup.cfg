CONSTANTS
  KeyBits = 2
  SelfKey <- LookupSelf
  DhtNode <- LookupNodes
  BootNode <- LookupBoot
  FriendKey <- LookupFriends
  FakeKeys <- LookupFakes
  DhtHolder = {h1}
  Buckets = 3
  BucketSize = 1
  FriendClients = 2
  MaxSentNodes = 2
  MaxCloseBoot = 1
  MaxToPing = 1
  MaxLocks = 2
  BadAge = 1
  KillAge = 2
  MaxDhtCalls = 4
  ArraySize = 2
  ArrayWord = 4
  ArrayTimeout = 2
  MaxIssued = 5
  MaxNow = 5
  n1 = n1
  n2 = n2
  PathNode = {n1, n2}
  OnionFriend = {f1, f2}
  Us = Us
  Nobody = Nobody
  ClientDistance <- LookupClientDistance
  PathLength = 2
  NumPaths = 1
  ListLength = 2
  MaxPathNodes = 1
  IndexWord = 4
  NoResponseUses = 2
  MaxPinged = 1
  OnlineAfter = 1
  MaxSlots = 1
  MaxSent = 1
  MaxOnionEvents = 7
  MaxTicks = 1
  AssocKey <- LookupAssocKeys
  AssocSelf <- LookupAssocSelves
  KeyHash <- LookupHash
  AssocEntries = {6, 8}
  AssocAddr <- LookupAssocAddrs
  CloseCount <- LookupCounts
  ByteBits = 3
  LastBits = 1
  BucketBits = 2
  HeardTimeout = 2
  SeenTimeout = 3
  MaxAssocCalls = 3
  SavedKey = {k1, k2}
  NoPk = NoPk
  Nospam = {7, 8}
  MaxText = 2
  MaxStored = 2
  MaxSaveCalls = 5
SPECIFICATION LookupSpec
SYMMETRY Alike
INVARIANTS
  SendsTheClosest AnswersAreOwn
  SavedIsRestored RequestsAreShownOnce
PROPERTIES GoodNodesAreKept RefinesBook AssocIsSound
CHECK_DEADLOCK FALSE
