CONSTANTS
  AvThread = {audio}
  Nobody = Nobody
  Route = {"oob"}
  MaxChanges = 2
SPECIFICATION LocksFairSpec
PROPERTY SpinEnds
CHECK_DEADLOCK FALSE
