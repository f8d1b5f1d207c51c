SPECIFICATION Spec
CONSTANTS
  MaxLeverage = 5
  Root = root
  Subjects = {root, ann, bob}
  Calls = {c1, c2}
  Cap = 2
  MaxFaults = 1
  Keys = {k1, k2}
  NoToken = NoToken
  Usernames = {ann, bob}
  Secrets = {s1, s2}
  Names = {ann, bob}
  None = None
  Users = {"anna", "eve"}
  Allowed = {"anna"}
  TTL = 1
  Retention = 0
  Error = Error
  off = off
  AiLimit <- MCAiLimit
  MaxCalls = 3
  Confirms = {"o1", "o2"}
  Texts <- MCTexts
  Symbols = {"btc"}
  MaxMessages = 1
  MaxPrepared = 2
  Deliveries = {"d1"}
  Panels = {1, 3}
  Decisions <- MCDecisions
  MinConfidence = 50
  Ticks = {1, 4}
  Step = 1
  MinQty = 1
  MinNotional = 5
  Requests <- MCRequests
  MaxTrades = 2
  Bars = 6
  Shapes <- MCShapes
  Warmup = 1
  PlanBars = 4
  MaxHold = 2
  Lookback = 2
  MinStop = 20
  MaxStop = 60
  AtrMult = 1
  FeeRate = 1
  FoldCounts = {1, 2}
  Observations <- MCObservations
  AnnyTarget = 30
  AnnyTrades = 3
  AnnyLosses = 2
INVARIANTS
  FoundersAreSound
  InviteSpentOnce
  OneActiveProfile
  OrdersOnTheKeyRead
  ChatTellsTheTruth
  OrdersWereReviewed
  SignalOrdersAreSound
  TradesAreApart
  RunKeepsToItsGoal
PROPERTIES
  ApprovalSurvives
SYMMETRY Symmetry
CHECK_DEADLOCK FALSE
