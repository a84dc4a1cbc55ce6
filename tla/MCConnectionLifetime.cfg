SPECIFICATION LifetimeSpec
CONSTANTS
  IO = io
  Senders = {update}
  ChecksOpen = TRUE
  PeerTypes = {"PING", "PONG", "INVALID"}
  MaxRead = 2
  MaxSend = 1
PROPERTIES Reclaimed SilentPeerDropped StallsOnlyByRace
CHECK_DEADLOCK FALSE
