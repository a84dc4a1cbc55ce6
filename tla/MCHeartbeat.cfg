SPECIFICATION Spec
CONSTANTS
  PingAfter = 5
  PongTimeout = 10
  MaxRTT = 2
  Lag = 1
INVARIANTS LivePeerKept SilentPeerCut LatencyMeasured
