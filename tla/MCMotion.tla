------------------------------- MODULE MCMotion -------------------------------
(* Motion with the numbers of the source divided by 50, which divides them  *)
(* all, and with ticks of a quarter of a second and of a second.            *)
EXTENDS Motion

=============================================================================
