SPECIFICATION Spec
CONSTANTS
  o1 = o1
  s1 = s1
  s2 = s2
  Objectives = {o1}
  WorkItems = {w1}
  Scopes = {s1}
  Operators = {c1}
  Workers = {k1}
  ObjectiveOf <- OneObjective
  ScopeOf <- SharedScope
  Gated = {}
  AttemptBudget <- Budget2
  ClaimTTL = 1
  Backoff <- Backoff1
  KeyModes = {"header"}
  MaxRequests = 3
  MaxCrashes = 0
INVARIANTS
  RetryQueueIsEligible
CHECK_DEADLOCK FALSE
