CONSTANTS
  DhtKey = {d1}
  NoKey = NoKey
  DhtTimeout = 2
  ConnectionTimeout = 2
  MaxUsers = 1
SPECIFICATION FriendFairSpec
PROPERTY RemovedAfterSilence
