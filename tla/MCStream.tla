------------------------------- MODULE MCStream -------------------------------
(* Stream with two types, of one and of two bytes.                          *)
EXTENDS Stream

SmallSizes == [type \in 0..1 |-> type + 1]

=============================================================================
