--------------------------- MODULE DeviceIDEntry ---------------------------
(***************************************************************************)
(* The way of a device ID from the server that announces it, with the      *)
(* address of its relay (src/server.go, generateDeviceIDWithHint), through *)
(* the hands of a person, to NewClient (src/client.go) and the hello of a  *)
(* redeemed session: what the client takes the ID for.                     *)
(***************************************************************************)
EXTENDS DeviceID

CONSTANTS
  Keys,       \* the device IDs, as numbers
  Addresses   \* the addresses a relay may have, as hints, and NoHint for a
              \* relay known by name only

ASSUME EntryAssumption ==
  /\ Keys \subseteq 0..KeySpace - 1
  /\ Addresses \subseteq {NoHint} \cup {V4(n) : n \in 0..V4Space - 1} \cup {V6(n) : n \in 0..V6Space - 1}

VARIABLES
  key, hint, \* what the server is and where its relay is
  form,      \* "compact", which the server announces, or "standard"
  text,      \* the ID on its way
  slips,     \* how it was copied: "dashes", "lowerCase", "typo"
  got        \* what the client takes it for

entryVars == <<key, hint, form, text, slips, got>>

NotEntered == [key |-> Rejected, hint |-> NoHint, entered |-> FALSE]

EntryTypeOK ==
  /\ key \in Keys /\ hint \in Addresses /\ form \in {"compact", "standard"}
  /\ text \in Seq(Chars) /\ slips \subseteq {"dashes", "lowerCase", "typo"}
  /\ got.key \in 0..KeySpace /\ got.hint.num \in 0..Space(got.hint.kind) - 1
  /\ got.entered \in BOOLEAN

EntryInit ==
  /\ key \in Keys /\ hint \in Addresses /\ form \in {"compact", "standard"}
  /\ text = <<>> /\ slips = {} /\ got = NotEntered

\* The ID, with the hint when the relay's address is one.
Announce ==
  /\ text = <<>>
  /\ text' = LET id == IF form = "compact" THEN EncodeBase63(key) ELSE StandardID(key)
             IN IF hint = NoHint THEN id ELSE JoinRelayHint(id, hint)
  /\ UNCHANGED <<key, hint, form, slips, got>>

-----------------------------------------------------------------------------
(* The person who copies it. *)

Copying(slip) == text # <<>> /\ ~got.entered /\ slips = {} /\ slips' = {slip}

\* The groups of a standard ID are written apart.
WriteDashes ==
  /\ Copying("dashes") /\ form = "standard"
  /\ text' = FlattenSeq([g \in 1..Groups |-> Group(text, g) \o (IF g < Groups THEN <<Dash>> ELSE <<>>)])
             \o After(text, StandardLen)
  /\ UNCHANGED <<key, hint, form, got>>

WriteLowerCase ==
  /\ Copying("lowerCase") /\ form = "standard"
  /\ text' = [i \in DOMAIN text |-> IF text[i] < Cased THEN text[i] + Letters ELSE text[i]]
  /\ UNCHANGED <<key, hint, form, got>>

\* One character of a standard ID is taken for another, or two neighbours
\* change places.
Substitutions == {ReplaceAt(text, i, c) : i \in 1..StandardLen, c \in Chars}

\* The neighbours whose order the check digits tell: neither is a check digit, and
\* they are not the first and the last letter of the alphabet.
Swappable(i) ==
  /\ i % (GroupLen + 1) \notin {0, GroupLen}
  /\ {text[i], text[i + 1]} # {0, Letters - 1}

Transpositions ==
  {ReplaceAt(ReplaceAt(text, i, text[i + 1]), i + 1, text[i]) :
     i \in {i \in 1..StandardLen - 1 : Swappable(i)}}

Mistype ==
  /\ Copying("typo") /\ form = "standard"
  /\ \E t \in Substitutions \cup Transpositions :
       NormalizeID(t) # NormalizeID(text) /\ text' = t
  /\ UNCHANGED <<key, hint, form, got>>

-----------------------------------------------------------------------------

\* NewClient splits off the hint and parses the rest.
Enter ==
  /\ text # <<>> /\ ~got.entered
  /\ got' = LET split == SplitRelayHint(text) IN
            [key |-> DeviceIDFromString(split.id), hint |-> split.hint, entered |-> TRUE]
  /\ UNCHANGED <<key, hint, form, text, slips>>

EntryNext == Announce \/ WriteDashes \/ WriteLowerCase \/ Mistype \/ Enter

EntrySpec == EntryInit /\ [][EntryNext]_entryVars

-----------------------------------------------------------------------------
(* Properties. *)

\* A hint whose number has more digits than the parser looks for, and one with
\* letters in lower case, is not recognised.
Recognised ==
  /\ form = "compact" /\ hint.kind = "v4" => Fits(hint.num, Base, V4Digits)
  /\ "lowerCase" \in slips /\ hint # NoHint =>
       LET letters == EncodeLetters(hint.num, Space(hint.kind), HintLetters(hint.kind))
       IN \A i \in DOMAIN letters : letters[i] >= Cased

\* An ID that was copied without a typo is taken for what it is, its relay with
\* it; where the hint is not recognised the ID is refused as a whole, and never
\* read with another relay or device (identity.go:95-188, 344-377).
CleanCopyUnderstood ==
  got.entered /\ "typo" \notin slips =>
    IF Recognised THEN got.key = key /\ got.hint = hint ELSE got.key = Rejected

\* A wrong letter in a standard ID is noticed by the check digits, and so are two
\* neighbours in the wrong order as far as the digits can tell (Swappable: not with a
\* check digit, and not the first with the last letter of the alphabet), with a hint
\* behind the ID or without (identity.go:364-374, 379-407).
TypoNoticed == got.entered /\ "typo" \in slips => got.key = Rejected
=============================================================================
