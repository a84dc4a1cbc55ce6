SPECIFICATION FairSpec
CONSTANTS
  Conns = {c1, c2, c3}
  UUIDs = {u1, u2, u3}
  End = end
  MaxStale = 2
  MaxPlayers = 3
  MaxPackets = 2
INVARIANTS RosterMatches NullEntityTwoWays ClientsMissNobody NoOrphanEntity
PROPERTIES OnlyNewcomersMissQuits JoinSweeps ClosedOwnerRemoved IteratorsLostOnlyByTwo CallsReturn
CHECK_DEADLOCK FALSE
