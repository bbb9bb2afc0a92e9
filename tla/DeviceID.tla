------------------------------ MODULE DeviceID ------------------------------
(***************************************************************************)
(* Device IDs and relay hints (src/pkg/security/identity.go): the compact  *)
(* form, which is also that of the identity file, the standard form with   *)
(* its check digits, the hint that may follow either, and the parser that  *)
(* accepts all of them.                                                    *)
(*                                                                         *)
(* Bytes are one number (big-endian, as the code's big.Int has them), and  *)
(* a string is a sequence of characters 0..Base: the letters of the        *)
(* standard form in upper case, the same in lower case, what else is in    *)
(* the alphabet of the compact form, and the dash.  Sizes are constants so *)
(* that small instances keep the proportions of the real ones, which are   *)
(* given beside them.                                                      *)
(***************************************************************************)
EXTENDS Naturals, SequencesExt

CONSTANTS
  Base,       \* 63, the alphabet of the compact form
  Letters,    \* 32, the alphabet of the standard form, the first
  Cased,      \* 26 of which have a lower case
  KeySpace,   \* 256^32, the number of device IDs and of seeds
  CompactLen, \* 43
  Groups,     \* 4 groups in the standard form,
  GroupLen,   \* 13 letters each, without the check digit
  V4Space,    \* 256^6, the IPv4 addresses with a port
  V6Space,    \* 256^18
  V4Digits,   \* 8, what the code thinks V4Space needs
  V6Digits,   \* 25
  V4Letters,  \* 10, what base32 makes of an address
  V6Letters   \* 29

KeyLetters == Groups * GroupLen
StandardLen == Groups * (GroupLen + 1)

-----------------------------------------------------------------------------
(* Numbers as digits. *)

\* num without its last digits, for any number of them up to len.
Shifted(num, base, len) ==
  LET rest[k \in 0..len] == IF k = 0 THEN num ELSE rest[k - 1] \div base IN rest

\* len digits are enough for num.
Fits(num, base, len) == Shifted(num, base, len)[len] = 0

\* num in at least len digits, and more if it needs them.
Digits(num, base, len) ==
  LET l == CHOOSE k \in len..len + num : Fits(num, base, k) /\ \A j \in len..k - 1 : ~Fits(num, base, j)
  IN [i \in 1..l |-> Shifted(num, base, l)[l - i] % base]

\* What the first characters of s come to, for any number of them.
Values(s, base) ==
  LET value[i \in 0..Len(s)] == IF i = 0 THEN 0 ELSE base * value[i - 1] + s[i] IN value

ValueOf(s, base) == Values(s, base)[Len(s)]

\* base32 without padding: each number below space has f values of as many
\* letters, as the last letter is filled up with zero bits.
FilledUp(space, f, letters) ==
  Fits(space * f - 1, Letters, letters) /\ ~Fits(space * f, Letters, letters)

Filling(space, letters) == CHOOSE f \in 1..Letters : FilledUp(space, f, letters)

EncodeLetters(num, space, letters) == Digits(num * Filling(space, letters), Letters, letters)

\* The decoder does not look at the filling.
DecodeLetters(s, space) == ValueOf(s, Letters) \div Filling(space, Len(s))

\* The forms can be told by their lengths: the compact one with and without a hint,
\* and the standard one, with and without dashes and a hint.
ASSUME DeviceIDAssumption ==
  /\ {Base, Letters, Cased, KeySpace, CompactLen, Groups, GroupLen, V4Space, V6Space,
      V4Digits, V6Digits, V4Letters, V6Letters} \subseteq Nat \ {0}
  /\ Cased <= Letters /\ Letters + Cased <= Base /\ Letters % 2 = 0
  /\ Fits(KeySpace - 1, Base, CompactLen)
  /\ Fits(V4Space - 1, Base, V4Digits + 1) /\ Fits(V6Space - 1, Base, V6Digits)
  /\ V6Digits \notin {V4Digits, V4Digits + 1} /\ V4Letters > 1 /\ V6Letters > V4Letters + 1
  /\ \E f \in 1..Letters : FilledUp(KeySpace, f, KeyLetters)
  /\ \E f \in 1..Letters : FilledUp(V4Space, f, V4Letters)
  /\ \E f \in 1..Letters : FilledUp(V6Space, f, V6Letters)
  /\ \A digits \in {0, V4Digits, V4Digits + 1, V6Digits},
        letters \in {0, V4Letters, V6Letters}, dashes \in {0, Groups - 1} :
       CompactLen + digits # StandardLen + letters + dashes

-----------------------------------------------------------------------------
(* Strings. *)

Dash == Base
Chars == 0..Dash

\* strings.ToUpper, and the dashes removed.
Upper(c) == IF c \in Letters..Letters + Cased - 1 THEN c - Letters ELSE c

NoDashes(s) ==
  LET kept[i \in 0..Len(s)] ==
        IF i = 0 THEN <<>> ELSE IF s[i] = Dash THEN kept[i - 1] ELSE Append(kept[i - 1], s[i])
  IN kept[Len(s)]

NormalizeID(s) == LET t == NoDashes(s) IN [i \in DOMAIN t |-> Upper(t[i])]

\* The first n characters, the others, and the last n.
First(s, n) == SubSeq(s, 1, n)
After(s, n) == SubSeq(s, n + 1, Len(s))

Decodable(s, alphabet) == \A i \in DOMAIN s : s[i] < alphabet

EncodeBase63(num) == Digits(num, Base, CompactLen)

Rejected == KeySpace

\* Mutant of DecodeBase63: a shorter string is taken for a number with zeros.
DecodeBase63Short(s) ==
  IF Decodable(s, Base) /\ s # <<>> /\ ValueOf(s, Base) < KeySpace
    THEN ValueOf(s, Base) ELSE Rejected

DecodeBase63(s) ==
  IF Len(s) = CompactLen /\ Decodable(s, Base) /\ ValueOf(s, Base) < KeySpace
    THEN ValueOf(s, Base) ELSE Rejected

-----------------------------------------------------------------------------
(* The standard form. *)

\* luhn32CheckDigit: every other letter counts twice, as the sum of its digits.
Addend(factor, c) == ((factor * c) \div Letters) + ((factor * c) % Letters)

Addends(chunk) == [i \in DOMAIN chunk |-> Addend(IF i % 2 = 1 THEN 1 ELSE 2, chunk[i])]

\* The sums of the first numbers of s, for any number of them.
Sums(s) == LET sum[i \in 0..Len(s)] == IF i = 0 THEN 0 ELSE sum[i - 1] + s[i] IN sum

\* Mutant of CheckDigit: all letters count alike.
CheckDigitPlainSum(chunk) ==
  LET sum == Sums(chunk)[Len(chunk)]
  IN (Letters - (sum % Letters)) % Letters

CheckDigit(chunk) ==
  LET sum == Sums(Addends(chunk))[Len(chunk)]
  IN (Letters - (sum % Letters)) % Letters

\* Group g of a standard ID: its letters, then its check digit.
Group(s, g) == SubSeq(s, (g - 1) * (GroupLen + 1) + 1, g * (GroupLen + 1))

StandardID(key) ==
  LET encoded == EncodeLetters(key, KeySpace, KeyLetters)
      group(g) == LET chunk == SubSeq(encoded, (g - 1) * GroupLen + 1, g * GroupLen)
                  IN Append(chunk, CheckDigit(chunk))
  IN FlattenSeq([g \in 1..Groups |-> group(g)])

DecodeStandard(s) ==
  IF \A g \in 1..Groups : Last(Group(s, g)) = CheckDigit(Front(Group(s, g)))
    THEN DecodeLetters(FlattenSeq([g \in 1..Groups |-> Front(Group(s, g))]), KeySpace)
    ELSE Rejected

-----------------------------------------------------------------------------
(* The hint. *)

NoHint == [kind |-> "none", num |-> 0]
V4(num) == [kind |-> "v4", num |-> num]
V6(num) == [kind |-> "v6", num |-> num]

Space(kind) == IF kind = "v4" THEN V4Space ELSE V6Space
HintDigits(kind) == IF kind = "v4" THEN V4Digits ELSE V6Digits
HintLetters(kind) == IF kind = "v4" THEN V4Letters ELSE V6Letters

\* JoinRelayHint, which leaves alone what looks like no ID.
JoinRelayHint(id, hint) ==
  CASE Len(id) = CompactLen -> id \o Digits(hint.num, Base, HintDigits(hint.kind))
    [] Len(id) # CompactLen /\ Len(NoDashes(id)) = StandardLen ->
         id \o EncodeLetters(hint.num, Space(hint.kind), HintLetters(hint.kind))
    [] OTHER -> id

\* The ways to read s as an ID with a hint, in the order they are tried.
CompactSplit(s) ==
  {[id |-> First(s, CompactLen), hint |-> [kind |-> k, num |-> ValueOf(After(s, CompactLen), Base)]] :
     k \in {k \in {"v4", "v6"} :
              LET suffix == After(s, CompactLen) IN
              /\ Len(suffix) = HintDigits(k) /\ Decodable(suffix, Base)
              /\ ValueOf(suffix, Base) < Space(k)}}

StandardSplit(s) ==
  {[id |-> First(s, Len(s) - HintLetters(k)),
    hint |-> [kind |-> k, num |-> DecodeLetters(After(s, Len(s) - HintLetters(k)), Space(k))]] :
     k \in {k \in {"v4", "v6"} :
              /\ Len(NoDashes(s)) = StandardLen + HintLetters(k)
              /\ Decodable(After(s, Len(s) - HintLetters(k)), Letters)}}

\* Mutant of SplitRelayHint: any suffix is taken for an IPv4 address.
SplitRelayHintLax(s) ==
  IF Len(s) > CompactLen /\ Decodable(After(s, CompactLen), Base)
    THEN [id |-> First(s, CompactLen), hint |-> V4(ValueOf(After(s, CompactLen), Base) % V4Space)]
    ELSE [id |-> s, hint |-> NoHint]

SplitRelayHint(s) ==
  LET compact == IF Len(s) > CompactLen THEN CompactSplit(s) ELSE {}
      splits == IF compact # {} THEN compact ELSE StandardSplit(s)
  IN IF splits = {} THEN [id |-> s, hint |-> NoHint] ELSE CHOOSE split \in splits : TRUE

\* The device ID that a string stands for, or Rejected.
DeviceIDFromString(s) ==
  LET id == SplitRelayHint(s).id
      normalized == NormalizeID(id)
  IN IF DecodeBase63(id) # Rejected THEN DecodeBase63(id)
     ELSE IF Len(normalized) = StandardLen /\ Decodable(normalized, Letters)
       THEN DecodeStandard(normalized)
       ELSE Rejected
=============================================================================
