------------------------- MODULE MCConnectionLifetime -------------------------
(* ConnectionLifetime with the update thread as a second sender.            *)
EXTENDS ConnectionLifetime, TLC

=============================================================================
