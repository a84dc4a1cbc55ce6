----------------------------- MODULE MCLifecycle -----------------------------
(* Two clients and a peer that says nothing.                                *)
EXTENDS Lifecycle

=============================================================================
