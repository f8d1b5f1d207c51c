SPECIFICATION Spec
CONSTANTS
  Quantity = 3
  Held = 1
  MaxRefused = 2
  MaxLost = 2
  MaxInterrupts = 2
INVARIANTS
  NeverOverfilled
  SuccessIsCovered
  FailureIsAccountedFor
PROPERTIES
  LateFillNeedsLostCall
  ExecuteEnds
CHECK_DEADLOCK FALSE
