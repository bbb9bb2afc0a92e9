-------------------------- MODULE MCClientSession ---------------------------
(* The client's session management on small sets, for TLC. *)
EXTENDS ClientSession, TLC
=============================================================================
