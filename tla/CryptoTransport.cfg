CONSTANTS
  BufferSize = 2
  Word = 10
  MaxRun = 1
  NoPacket = NoPacket
  Alice = Alice
  Bob = Bob
  FirstNumbers = {0, 9}
  NewWrites = 1
  AliceWrites = 3
  BobWrites = 1
  WriteLimit <- MCWriteLimit
  MaxInFlight = 2
SPECIFICATION Spec
INVARIANT EndsAreRight
PROPERTY RefinesChannel
CHECK_DEADLOCK FALSE
