SPECIFICATION FairSpec
CONSTANTS
  o1 = o1
  s1 = s1
  s2 = s2
  Objectives = {o1}
  WorkItems = {w1}
  Scopes = {s1}
  Operators = {c1, c2}
  Workers = {k1, k2}
  ObjectiveOf <- OneObjective
  ScopeOf <- SharedScope
  Gated = {}
  AttemptBudget <- Budget2
  ClaimTTL = 1
  Backoff <- Backoff1
  KeyModes = {"header"}
  MaxRequests = 4
  MaxCrashes = 1
INVARIANTS
  TypeOK
  ActiveClaimHeldByActiveRun
  OneActiveRunPerItem
  AttemptsWithinBudget
  CompletedOnlyBySuccess
  RunningHasActiveRun
  LeaseOutlivesBackoff
PROPERTIES
  RetryFollowsTransientFailure
  ImplementsAttemptHistory
  AllRunsSettle
  AllLeasesEnd
CHECK_DEADLOCK FALSE
