CONSTANTS
  Alice = Alice
  Bob = Bob
  Node = {Alice, Bob}
  Media = {audio}
  MaxFailures = 0
  MaxQueue = 2
  MaxRequests = 4
SPECIFICATION Spec
SYMMETRY Symmetry
INVARIANT RingsUntilDisconnected
