-------------------------- MODULE MCRelayDiscovery --------------------------
(* The discovery with two strategies and two endpoints, for TLC. *)
EXTENDS RelayDiscovery, TLC
=============================================================================
