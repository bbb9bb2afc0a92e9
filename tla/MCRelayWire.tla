---------------------------- MODULE MCRelayWire ----------------------------
(* An instance of RelayWire for TLC: numbers of two bytes, a small buffer of *)
(* 16 bytes and a largest message of 18; invitations with and without        *)
(* padding, and messages on both sides of each limit.                        *)
EXTENDS RelayWire

Inv(from, invKey, address, fields) ==
  [from |-> from, key |-> invKey, address |-> address, port |-> 443, serverSocket |-> TRUE, fields |-> fields]

Target == <<11, 12, 13>>
Stranger == <<1>>

Padded == Inv(Target, <<7, 8>>, <<>>, 2)
Portless == Inv(Target, <<9>>, <<5>>, 0)
FromStranger == Inv(Stranger, <<4, 5, 6>>, <<7, 8>>, 1)
MCInvitations == {Padded, Portless, FromStranger}

Ping == [type |-> "ping", body |-> <<>>]
Response(len, code) == [type |-> "response", body |-> PutUint(code) \o [i \in 1..(len - WordLen) |-> i]]
Invite(inv) == [type |-> "sessionInvitation", body |-> InvitationBody(inv)]
Shortened(inv) == [type |-> "sessionInvitation", body |-> First(InvitationBody(inv), 5)]

\* Relays that ping, that have an invitation from another device first, that end
\* one in the middle, and messages a byte too long for the small and for the large
\* buffer.
MCSendings ==
  {<<Ping, Invite(Padded)>>, <<Invite(FromStranger), Invite(Portless)>>,
   <<Response(2, 0), Shortened(Padded)>>, <<Response(17, 1)>>, <<Response(19, 0)>>,
   <<[Ping EXCEPT !.type = "pong"]>>}

Symmetry == Permutations(Goroutines)

MCKeys == {Target}
=============================================================================
