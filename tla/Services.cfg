SPECIFICATION Services
CONSTANTS
  c1 = c1
  c2 = c2
  c3 = c3
  p1 = p1
  p2 = p2
  Callers <- ThreeCallers
  Limit = 1
  MaxTokens = 3
  Processes <- TwoProcesses
  MaxCrashes = 1
INVARIANT SentTokenIsValid
INVARIANT OneTokenPerRenewal
PROPERTY CallsEnd
INVARIANT ServingHasSchema
PROPERTY EveryoneServes
CHECK_DEADLOCK FALSE
