SPECIFICATION OutboundSpec
CONSTANTS
  c1 = c1
  c2 = c2
  Aggregates <- MCAggregates
  Surfaces <- MCSurfaces
  AggregateOf <- MCAggregateOf
  Commented <- MCCommented
  Fallback <- MCFallback
  Position <- MCPosition
  Repositories <- MCRepositories
  Target <- MCTarget
  NoRepository = "none"
  Syncs = {c1}
  MaxVersion = 1
  MaxChanges = 2
  MaxFaults = 0
INVARIANTS
  ResyncIsAccepted
CHECK_DEADLOCK FALSE
