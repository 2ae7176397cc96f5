SPECIFICATION Spec
CONSTANTS
  o1 = o1
  s1 = s1
  s2 = s2
  Objectives = {o1}
  WorkItems = {w1, w2}
  Scopes = {s1, s2}
  Operators = {c1, c2}
  Workers = {k1}
  ObjectiveOf <- OneObjective
  ScopeOf <- SharedScope
  Gated = {w1}
  AttemptBudget <- Budget2
  ClaimTTL = 1
  Backoff <- Backoff1
  KeyModes = {"default", "header"}
  MaxRequests = 3
  MaxCrashes = 0
SYMMETRY OperatorSymmetry
INVARIANTS
  ApprovalPrecedesRun
PROPERTIES
  ImplementsScopeLease
CHECK_DEADLOCK FALSE
