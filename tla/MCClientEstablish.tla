------------------------- MODULE MCClientEstablish --------------------------
(* The establishment of a session with a few relays, for TLC. *)
EXTENDS ClientEstablish, TLC
=============================================================================
