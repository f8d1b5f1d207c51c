SPECIFICATION Spec
CONSTANTS
  Names = {live, test}
  Keys = {k1, k2}
  Secrets = {s1}
  Calls = {c1}
  Orders = {o1}
  None = None
  MaxCalls = 3
  MaxFaults = 0
INVARIANTS
  FallbackMeansNoCredential
CHECK_DEADLOCK FALSE
