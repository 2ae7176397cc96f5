SPECIFICATION Spec
CONSTANTS
  a = a
  b = b
  ra = ra
  rb = rb
  o = o
  settleA = settleA
  settleB = settleB
  cancelA = cancelA
  replan = replan
  Items = {a, b}
  Runs = {ra, rb}
  Objective = o
  Handlers = {settleA, settleB}
  Writes <- AllWrites
  Initial <- InitialRows
  PageLimit = 8
INVARIANTS
  ObjectiveFollowsItems
CHECK_DEADLOCK FALSE
