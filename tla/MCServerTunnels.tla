-------------------------- MODULE MCServerTunnels ---------------------------
(* The server with more streams than tokens, for TLC. *)
EXTENDS ServerTunnels, TLC
=============================================================================
