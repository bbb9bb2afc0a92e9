---------------------------- MODULE MCTunnelPath ----------------------------
(* An instance of TunnelPath for TLC: a short request and a longer answer,   *)
(* with a target that can be half-closed and one that cannot.                *)
EXTENDS TunnelPath

MCChunks == [up |-> 1, down |-> 2]

MCSettings == {[app |-> "tcp", target |-> "tcp", halfReads |-> TRUE],
               [app |-> "tcp", target |-> "pipe", halfReads |-> FALSE]}
=============================================================================
