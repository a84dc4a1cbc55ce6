SPECIFICATION FairSpec
CONSTANTS
  count = 2
  sizes <- SmallSizes
  WordSize = 2
  MaxType = 4
  MaxLength = 3
  MaxSend = 4
INVARIANTS OnlyTornMakeTypes
PROPERTIES ImplementsChannel
CHECK_DEADLOCK FALSE
