-------------------------- MODULE MCIdentityStore --------------------------
(* An instance of IdentityStore for TLC: two processes, and a file that is   *)
(* absent, of the legacy format, or cut short.                               *)
EXTENDS IdentityStore

MCDeviceKey == [s \in 0..KeySpace - 1 |-> (5 * s + 3) % KeySpace]
MCFiles == {Absent, Pem(77), Text(<<>>), Text(<<1, 2, 3>>)}
=============================================================================
