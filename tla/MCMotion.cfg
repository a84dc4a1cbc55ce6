SPECIFICATION FairSpec
CONSTANTS
  MaxSpeed = 3
  Fric = 1
  Accel = 14
  Hz = 4
  MaxTick = 4
  Deltas = {1, 4}
  MaxInFlight = 1
INVARIANTS SpeedBounded
PROPERTIES FrictionBrakes ComesToRest
