SPECIFICATION Spec
CONSTANTS
  Users = {trader}
  TTL = 1
  Retention = 3
  Window = 1
  AwaitTTL = 2
  ClaimTimeout = 2
  PollLimit = 1
  RequestLimit = 1
  Requests = {r1}
  Pollers = {i1, i2}
  MaxFaults = 1
PROPERTIES
  CloseResolved
CHECK_DEADLOCK FALSE
