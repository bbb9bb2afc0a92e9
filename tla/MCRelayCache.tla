---------------------------- MODULE MCRelayCache ----------------------------
(* An instance of RelayCache for TLC: two clients, a pool of three relays.   *)
EXTENDS RelayCache

Symmetry == Permutations(Clients)

MCPool == <<"r1", "r2", "r3">>
=============================================================================
