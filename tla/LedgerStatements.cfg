SPECIFICATION FairSpec
CONSTANTS
  a = a
  b = b
  ra = ra
  rb = rb
  o = o
  settleA = settleA
  settleB = settleB
  cancelA = cancelA
  replan = replan
  Items = {a, b}
  Runs = {ra, rb}
  Objective = o
  Handlers = {settleA, settleB, cancelA, replan}
  Writes <- AllWrites
  Initial <- InitialRows
  PageLimit = 8
INVARIANTS
  TypeOK
  StreamsAreSequences
  ReplayGivesRow
  OneOpenWriterPerStream
PROPERTIES
  EveryCallEnds
  ImplementsAtomicLedger
  RollUpHoldsWithoutOverlap
CHECK_DEADLOCK FALSE
