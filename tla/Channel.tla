------------------------------- MODULE Channel -------------------------------
(***************************************************************************)
(* What a connection promises in one direction: the packets given to       *)
(* psend() appear in the other side's in_packets, each once, whole and in  *)
(* the order they were given, until the connection breaks; and while it    *)
(* does not break each of them does appear.                                *)
(***************************************************************************)
EXTENDS Naturals, Sequences, SequencesExt

VARIABLES
  sent,        (* the packets psend() was given                            *)
  received,    (* those pushed to in_packets                               *)
  up           (* the connection is not broken                             *)

vars == <<sent, received, up>>

Init == sent = <<>> /\ received = <<>> /\ up = TRUE

Send ==
  /\ up
  /\ sent' # <<>>
  /\ sent = Front(sent')
  /\ UNCHANGED <<received, up>>

Receive ==
  /\ up
  /\ Len(received) < Len(sent)
  /\ received' = Append(received, sent[Len(received) + 1])
  /\ UNCHANGED <<sent, up>>

Break == up /\ up' = FALSE /\ UNCHANGED <<sent, received>>

Next == Send \/ Receive \/ Break

Spec == Init /\ [][Next]_vars /\ WF_vars(Receive)

=============================================================================
