SPECIFICATION Spec
CONSTANTS
  KeySets <- SomeKeys
  SeqMod = 3
  Limit = 2
  MaxTicks = 5
INVARIANTS KeysObeyed
CHECK_DEADLOCK FALSE
