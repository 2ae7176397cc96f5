SPECIFICATION InboundSpec
CONSTANTS
  Webhooks = {"delivery"}
  Payloads <- MCPayloads
  Handlers = {"h1", "h2", "h3"}
  MaxArrivals = 4
  MaxCrashes = 2
INVARIANTS
  InboundTypeOK
  IntentTakesEffectOnce
  AppliedIntentTookEffect
  OnlyFittingIntentsExecute
  ConflictIsAlerted
PROPERTIES
  SettledForGood
CHECK_DEADLOCK FALSE
