SPECIFICATION Spec
CONSTANTS
  Instances = {a, b}
  Missions = {m1}
  Symbols = {btc}
  Windows = {1, 3}
  OpLimit = 2
  ArmLimit = 1
  DailyLimit = 2
INVARIANTS
  MissionTellsItsEntry
PROPERTIES
  StatusIsFinal
  IsOneShotMission
SYMMETRY Symmetry
CHECK_DEADLOCK FALSE
