-------------------------- MODULE MCRelaySelection --------------------------
(* The selection of one of three relays, for TLC. *)
EXTENDS RelaySelection, TLC
=============================================================================
