CONSTANTS
  SavedKey = {k1}
  NoPk = NoPk
  Nospam = {7}
  MaxText = 2
  MaxStored = 2
  MaxSaveCalls = 4
SPECIFICATION SavedataSpec
INVARIANT StatusMessageIsRestored
CHECK_DEADLOCK FALSE
