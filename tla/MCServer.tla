------------------------------ MODULE MCServer ------------------------------
(* Instances of Server for TLC.                                             *)
EXTENDS Server, TLC

(* The connections are interchangeable, and so are the uuids.               *)
Symmetry == Permutations(Conns) \cup Permutations(UUIDs)

=============================================================================
