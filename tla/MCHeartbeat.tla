----------------------------- MODULE MCHeartbeat -----------------------------
(* Heartbeat with the times of the code, in seconds.                        *)
EXTENDS Heartbeat

=============================================================================
