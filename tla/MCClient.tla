------------------------------ MODULE MCClient ------------------------------
(* Instances of Client for TLC.                                             *)
EXTENDS Client, TLC

(* No key, one, two that add up and two that are opposite.                  *)
SomeKeys == {{}, {"W"}, {"S", "A"}, {"A", "D"}}

=============================================================================
