--------------------------- MODULE MCTCPConnection ---------------------------
(* Instances of TCPConnection for TLC.                                      *)
EXTENDS TCPConnection, TLC

=============================================================================
