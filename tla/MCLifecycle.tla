---------------------------- MODULE MCLifecycle ----------------------------
(* Three calls of Run and two of Stop, for TLC. *)
EXTENDS Lifecycle
=============================================================================
