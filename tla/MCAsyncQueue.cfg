SPECIFICATION FairSpec
CONSTANTS
  Producers = {io1, io2}
  Notifiers = {stopper}
  Consumer = update
  Free = free
  Limit = 2
  MaxPush = 4
  MaxNotify = 1
INVARIANTS TypeOK WakeupOwed PopNeverEmpty LockOrder
PROPERTIES PushWakesSleeper
