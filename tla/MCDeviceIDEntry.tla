-------------------------- MODULE MCDeviceIDEntry --------------------------
(* An instance of DeviceIDEntry for TLC: the alphabets have 9 and 4 letters, *)
(* an ID 11 bits, an address 5 or 17 bits; the keys at both ends and some in  *)
(* between, the addresses on both sides of every length.                     *)
EXTENDS DeviceIDEntry

MCKeys == {0, 1, 8, 9, 728, 729, 1023, 1365, 2047} \cup {131 * i + 37 : i \in 0..14}
MCAddresses == {NoHint} \cup {V4(n) : n \in {0, 1, 8, 9, 31}} \cup {V6(n) : n \in {0, 31, 59049, 131071}}
=============================================================================
