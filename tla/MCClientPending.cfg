SPECIFICATION Spec
CONSTANTS
  KeySets <- SomeKeys
  SeqMod = 3
  Limit = 2
  MaxTicks = 4
INVARIANTS UnprocessedPending
CHECK_DEADLOCK FALSE
