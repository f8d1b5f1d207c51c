SPECIFICATION Spec
CONSTANTS
  runner = runner
  perUser = perUser
  Trailers = {runner, perUser}
  Nonced = {perUser}
  Prices <- MarkPrices
  Grid <- TickPrices
  Entry = 7
  Activate = 1
  Gap = 3
  MaxPlaced = 3
  MaxTries = 2
  MaxRestarts = 1
  MaxLost = 1
INVARIANTS
  NeverUncovered
  PlacedStopsAreSound
PROPERTIES
  Ratchet
CHECK_DEADLOCK FALSE
