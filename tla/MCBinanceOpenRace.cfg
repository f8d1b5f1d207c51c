SPECIFICATION Spec
CONSTANTS
  Quantity = 2
  Held = 0
  MaxRefused = 0
  MaxLost = 0
  MaxInterrupts = 0
INVARIANTS
  FailedOpenIsNotExposed
CHECK_DEADLOCK FALSE
