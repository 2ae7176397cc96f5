SPECIFICATION MemorySpec
CONSTANTS
  c1 = c1
  c2 = c2
  Runs = {"run"}
  Approvals = {"approval"}
  Inbound = {"event"}
  Callers = {c1, c2}
  Reasons = {"expired"}
  MaxCandidates = 2
SYMMETRY MCSymmetry
INVARIANTS
  MemoryTypeOK
  KnowledgeHasProvenance
  ClassFitsEvidence
PROPERTIES
  ImplementsKnowledgeBase
CHECK_DEADLOCK FALSE
