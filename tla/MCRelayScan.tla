---------------------------- MODULE MCRelayScan -----------------------------
(* The scan with more relays than may be probed at a time, for TLC. *)
EXTENDS RelayScan, TLC
=============================================================================
