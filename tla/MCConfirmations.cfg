SPECIFICATION Spec
CONSTANTS
  Users = {alice, bob}
  Ids = {c1}
  Procs = {p1, p2}
  TTL = 1
  Retention = 1
INVARIANTS
  AnswersAreTrue
  StrictStaysOnOwnKey
  IntentAgreesWithExchange
PROPERTIES
  SettledIsFinal
  IsOneShotOrder
  ExecutingEnds
CHECK_DEADLOCK FALSE
