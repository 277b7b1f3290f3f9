CONSTANTS
  User = {u1, u2}
  MaxQueued = 3
  MaxEvents = 5
  Numbers = {0, 1}
  Chunk = 2
  Stream = 9
  Sizes = {0, 3, 9}
  QueueSize = 3
  MaxFiles = 2
  MaxStream = 4
  MaxControls = 3
  MaxLinks = 2
  Alice = Alice
  Bob = Bob
  Node = {Alice, Bob}
  Media = {audio}
  MaxFailures = 1
  MaxQueue = 2
  MaxRequests = 4
  FrameLength = {2, 3}
  Piece = 2
  SeqWord = 3
  MaxFrames = 3
  MaxClock = 2
  MaxTwice = 1
SYMMETRY Alike
SPECIFICATION FriendsSpec
INVARIANTS
  FriendsAgree TransfersAgree
  CallsAreBacked PictureIsRight CapabilitiesAgree FramesAreSound
CHECK_DEADLOCK FALSE
