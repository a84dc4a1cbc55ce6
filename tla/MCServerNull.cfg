SPECIFICATION Spec
CONSTANTS
  Conns = {c1, c2, c3}
  UUIDs = {u1, u2, u3}
  End = end
  MaxStale = 1
  MaxPlayers = 3
  MaxPackets = 0
INVARIANTS JoinsAreConnected
CHECK_DEADLOCK FALSE
