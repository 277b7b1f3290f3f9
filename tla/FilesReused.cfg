CONSTANTS
  Numbers = {0}
  Chunk = 2
  Stream = 9
  Sizes = {0, 3, 9}
  QueueSize = 3
  MaxFiles = 2
  MaxStream = 4
  MaxControls = 3
  MaxLinks = 2
SPECIFICATION FileSpec
INVARIANT FinishedMeansDelivered
CHECK_DEADLOCK FALSE
