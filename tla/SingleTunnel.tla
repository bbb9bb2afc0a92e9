---------------------------- MODULE SingleTunnel ----------------------------
(***************************************************************************)
(* What the client's session management promises to the rest of the        *)
(* program: at any moment there is at most one tunnel (a yamux session on  *)
(* a BEP connection), a tunnel is only ever opened when there is none, and *)
(* every tunnel that is opened gets the next generation number.            *)
(***************************************************************************)
EXTENDS Naturals

CONSTANT Tunnels      \* the identities a tunnel may have

VARIABLES open,       \* the tunnels that are open: none or one
          gen         \* how many tunnels have been opened

vars == <<open, gen>>

Init == open = {} /\ gen = 0

\* A tunnel is opened, only while there is none.
Establish == /\ open = {}
             /\ \E t \in Tunnels : open' = {t}
             /\ gen' = gen + 1

\* The tunnel is closed: by the network, or by the client that found it dead.
Drop == /\ open # {}
        /\ open' = {}
        /\ UNCHANGED gen

Next == Establish \/ Drop

Spec == Init /\ [][Next]_vars
=============================================================================
