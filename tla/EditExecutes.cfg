SPECIFICATION InboundSpec
CONSTANTS
  Webhooks = {"delivery"}
  Payloads <- MCPayloads
  Handlers = {"h1"}
  MaxArrivals = 1
  MaxCrashes = 0
INVARIANTS
  EditsChangeNothing
CHECK_DEADLOCK FALSE
