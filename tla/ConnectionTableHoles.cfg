CONSTANTS
  Key = {k1, k2}
  Address = {a1}
  Local = {}
  Nothing = Nothing
  MaxTries = 2
SPECIFICATION TableFairSpec
PROPERTY GivesUp
