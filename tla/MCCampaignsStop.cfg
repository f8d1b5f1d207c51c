SPECIFICATION Spec
CONSTANTS
  Users = {ann}
  OwnKey = {ann}
  Engines = {e1, e2}
  Readers = {e1, e2}
  NoEngine = NoEngine
  Results <- WinOrLose
  Buffer = 1
  Target = 2
  MaxDrawdown = 2
  MaxTrades = 2
  MaxSkips = 2
  MaxOpens = 3
  MaxRestarts = 1
INVARIANTS
  StoppedCampaignResolves
CHECK_DEADLOCK FALSE
