SPECIFICATION Spec
CONSTANTS
  Instances = {a}
  Missions = {m1}
  Symbols = {btc}
  Windows = {1}
  OpLimit = 1
  ArmLimit = 1
  DailyLimit = 1
INVARIANTS
  OwnCountNeverBlocks
CHECK_DEADLOCK FALSE
