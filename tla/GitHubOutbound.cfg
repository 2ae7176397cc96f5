SPECIFICATION OutboundSpec
CONSTANTS
  c1 = c1
  c2 = c2
  Aggregates <- MCAggregates
  Surfaces <- MCSurfaces
  AggregateOf <- MCAggregateOf
  Commented <- MCCommented
  Fallback <- MCFallback
  Position <- MCPosition
  Repositories <- MCRepositories
  Target <- MCTarget
  NoRepository = "none"
  Syncs = {c1, c2}
  MaxVersion = 2
  MaxChanges = 2
  MaxFaults = 1
SYMMETRY MCSymmetry
INVARIANTS
  OutboundTypeOK
  BindingsNameTheirObject
  CommentsUnderTheirIssue
  OneObjectPerSurface
  AppliedMeansShown
  FailureShowsInHealth
CHECK_DEADLOCK FALSE
