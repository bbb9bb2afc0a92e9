------------------------ MODULE RelaySelection_proofs ------------------------
(***************************************************************************)
(* Proofs about the selection of a relay, for any pool, any latencies and  *)
(* any options of the pre-filter and of the ranking.                       *)
(***************************************************************************)
EXTENDS RelaySelection, FiniteSetTheorems, SequenceTheorems,
        WellFoundedInduction, TLAPS

-----------------------------------------------------------------------------
(* The least and the greatest of some numbers. *)

Smaller == {p \in Nat \X Nat : p[1] < p[2]}

LEMMA SmallerWellFounded == IsWellFoundedOn(Smaller, Nat)
<1>1. OpToRel(<, Nat) = Smaller
  BY DEF OpToRel, Smaller
<1>2. QED BY <1>1, NatLessThanWellFounded

\* A set of numbers that has an element has a least one.
LEMMA LeastExists ==
  ASSUME NEW S \in SUBSET Nat, S # {}
  PROVE  \E m \in S : \A y \in S : m <= y
<1>1. PICK m \in S : \A y \in S : <<y, m>> \notin Smaller
  BY SmallerWellFounded, WFMin
<1>2. \A k \in Nat, l \in Nat : k < l => <<k, l>> \in Smaller
  BY DEF Smaller
<1>3. ASSUME NEW y \in S
      PROVE  m <= y
  <2>1. y \in Nat /\ m \in Nat
    OBVIOUS
  <2>2. ~ (y < m)
    BY <1>1, <1>2, <2>1
  <2>3. QED BY <2>1, <2>2
<1>4. QED BY <1>3

LEMMA MinLeast ==
  ASSUME NEW S \in SUBSET Nat, S # {}
  PROVE  Min(S) \in S /\ \A y \in S : Min(S) <= y
<1>1. \E m \in S : \A y \in S : m <= y
  BY LeastExists
<1>2. Min(S) = CHOOSE m \in S : \A y \in S : m <= y
  BY DEF Min
<1>3. QED BY <1>1, <1>2, Zenon

LEMMA MinOfTwo ==
  ASSUME NEW a \in Nat, NEW b \in Nat
  PROVE  Min({a, b}) = IF a <= b THEN a ELSE b
<1>1. Min({a, b}) \in {a, b} /\ \A y \in {a, b} : Min({a, b}) <= y
  BY MinLeast
<1>2. QED BY <1>1

\* A finite set of numbers that has an element has a greatest one: take a
\* smallest set that has none.
LEMMA GreatestExists ==
  ASSUME NEW S \in SUBSET Nat, IsFiniteSet(S), S # {}
  PROVE  \E m \in S : \A y \in S : m >= y
<1> DEFINE Bad(T) == T # {} /\ ~ \E m \in T : \A y \in T : m >= y
           sizes == {Cardinality(T) : T \in {U \in SUBSET S : Bad(U)}}
<1>1. \A T \in SUBSET S : IsFiniteSet(T) /\ Cardinality(T) \in Nat
  BY FS_Subset, FS_CardinalityType
<1>2. SUFFICES ASSUME Bad(S) PROVE FALSE
  OBVIOUS
<1>3. sizes \in SUBSET Nat /\ sizes # {}
  BY <1>1, <1>2
<1>4. PICK n \in sizes : \A k \in sizes : n <= k
  BY <1>3, LeastExists
<1>5. PICK T \in SUBSET S : Bad(T) /\ Cardinality(T) = n
  BY <1>4
<1>6. PICK x \in T : TRUE
  BY <1>5
<1>7. Cardinality(T \ {x}) = n - 1 /\ n \in Nat
  BY <1>1, <1>5, <1>6, FS_RemoveElement
<1>8. ~ Bad(T \ {x})
  <2>1. SUFFICES ASSUME Bad(T \ {x}) PROVE FALSE
    OBVIOUS
  <2>2. T \ {x} \in SUBSET S
    OBVIOUS
  <2>3. Cardinality(T \ {x}) \in sizes
    BY <2>1, <2>2
  <2>4. QED BY <2>3, <1>4, <1>7
<1>9. CASE T \ {x} = {}
  <2>1. T = {x} /\ x \in Nat
    BY <1>6, <1>9
  <2>2. x >= x
    BY <2>1
  <2>3. QED BY <2>1, <2>2, <1>5
<1>10. CASE T \ {x} # {}
  <2>1. PICK m \in T \ {x} : \A y \in T \ {x} : m >= y
    BY <1>8, <1>10
  <2>2. m \in Nat /\ x \in Nat /\ T \subseteq Nat
    BY <1>6
  <2>3. IF m >= x THEN \A y \in T : m >= y ELSE \A y \in T : x >= y
    BY <2>1, <2>2
  <2>4. QED BY <2>1, <2>3, <1>5, <1>6
<1>11. QED BY <1>9, <1>10

LEMMA MaxGreatest ==
  ASSUME NEW S \in SUBSET Nat, IsFiniteSet(S), S # {}
  PROVE  Max(S) \in S /\ \A y \in S : Max(S) >= y
<1>1. \E m \in S : \A y \in S : m >= y
  BY GreatestExists
<1>2. Max(S) = CHOOSE m \in S : \A y \in S : m >= y
  BY DEF Max
<1>3. QED BY <1>1, <1>2, Zenon

-----------------------------------------------------------------------------
(* The operators of the parts are those of this module. *)

LEMMA SameOperators ==
  /\ \A S : F!Cardinality(S) = Cardinality(S) /\ R!Cardinality(S) = Cardinality(S)
  /\ \A S : F!Min(S) = Min(S) /\ R!Min(S) = Min(S) /\ R!Max(S) = Max(S)
  /\ \A s : F!ToSet(s) = ToSet(s) /\ R!ToSet(s) = ToSet(s)
  /\ \A s : F!IsInjective(s) = IsInjective(s)
  /\ \A S : F!SetToSeqs(S) = SetToSeqs(S) /\ R!SetToSeqs(S) = SetToSeqs(S)
  /\ \A S : F!IsFiniteSet(S) = IsFiniteSet(S) /\ R!IsFiniteSet(S) = IsFiniteSet(S)
<1>1. \A S : F!Cardinality(S) = Cardinality(S) /\ R!Cardinality(S) = Cardinality(S)
  BY DEF F!Cardinality, R!Cardinality, Cardinality
<1>2. \A S : F!Min(S) = Min(S) /\ R!Min(S) = Min(S) /\ R!Max(S) = Max(S)
  BY DEF F!Min, R!Min, Min, R!Max, Max
<1>3. \A s : F!ToSet(s) = ToSet(s) /\ R!ToSet(s) = ToSet(s)
  BY DEF F!ToSet, R!ToSet, ToSet
<1>4. \A s : F!IsInjective(s) = IsInjective(s)
  BY DEF F!IsInjective, IsInjective
<1>5. \A S : F!SetToSeqs(S) = SetToSeqs(S) /\ R!SetToSeqs(S) = SetToSeqs(S)
  BY <1>1 DEF F!SetToSeqs, R!SetToSeqs, SetToSeqs
<1>6. \A S : F!IsFiniteSet(S) = IsFiniteSet(S) /\ R!IsFiniteSet(S) = IsFiniteSet(S)
  BY DEF F!IsFiniteSet, R!IsFiniteSet, IsFiniteSet
<1>7. QED BY <1>1, <1>2, <1>3, <1>4, <1>5, <1>6

LEMMA FirstWanted ==
  SelectInSeq(returned, LAMBDA r : r \notin ignore') =
    LET I == {i \in 1..Len(returned) : returned[i] \notin ignore'}
    IN IF I # {} THEN Min(I) ELSE 0
  BY DEF SelectInSeq

-----------------------------------------------------------------------------
(* Sequences. *)

\* An order of a finite set has each of its elements once.
LEMMA OrderIsPermutation ==
  ASSUME NEW S, IsFiniteSet(S), NEW p \in SetToSeqs(S)
  PROVE  /\ p \in Seq(S) /\ Len(p) = Cardinality(S) /\ Cardinality(S) \in Nat
         /\ DOMAIN p = 1..Cardinality(S)
         /\ IsInjective(p) /\ ToSet(p) = S
<1> DEFINE n == Cardinality(S)
<1>1. n \in Nat
  BY FS_CardinalityType
<1>2. p \in [1..n -> S] /\ \A i, j \in 1..n : i # j => p[i] # p[j]
  BY DEF SetToSeqs
<1>3. IsInjective(p)
  BY <1>2 DEF IsInjective
<1>4. p \in Injection(1..n, S)
  BY <1>2, <1>3 DEF Injection
<1>5. Cardinality(1..n) = Cardinality(S)
  BY <1>1, FS_Interval
<1>6. p \in Surjection(1..n, S)
  BY <1>4, <1>5, FS_Injection
<1>7. ToSet(p) = S
  BY <1>2, <1>6 DEF ToSet, Surjection
<1>8. p \in Seq(S) /\ Len(p) = n /\ DOMAIN p = 1..n
  BY <1>1, <1>2
<1>9. QED BY <1>1, <1>3, <1>7, <1>8

LEMMA FewElements ==
  ASSUME NEW S, NEW s \in Seq(S)
  PROVE  ToSet(s) \subseteq S /\ IsFiniteSet(ToSet(s))
<1>1. Len(s) \in Nat /\ DOMAIN s = 1..Len(s) /\ s \in [1..Len(s) -> S]
  OBVIOUS
<1>2. s \in Surjection(1..Len(s), ToSet(s))
  BY <1>1 DEF ToSet, Surjection
<1>3. IsFiniteSet(1..Len(s))
  BY <1>1, FS_Interval
<1>4. IsFiniteSet(ToSet(s))
  BY <1>2, <1>3, FS_Surjection
<1>5. QED BY <1>1, <1>4 DEF ToSet

\* The first n of a sequence.
LEMMA FirstOf ==
  ASSUME NEW S, NEW s \in Seq(S), NEW n \in 0..Len(s)
  PROVE  /\ SubSeq(s, 1, n) \in Seq(S) /\ Len(SubSeq(s, 1, n)) = n
         /\ DOMAIN SubSeq(s, 1, n) = 1..n
         /\ \A i \in 1..n : SubSeq(s, 1, n)[i] = s[i]
<1>1. Len(s) \in Nat /\ DOMAIN s = 1..Len(s)
  OBVIOUS
<1>2. \A i \in 1..n : s[i] \in S
  BY <1>1
<1>3. QED BY <1>1, <1>2

LEMMA FirstOfInjective ==
  ASSUME NEW S, NEW s \in Seq(S), NEW n \in 0..Len(s), IsInjective(s)
  PROVE  /\ IsInjective(SubSeq(s, 1, n))
         /\ ToSet(SubSeq(s, 1, n)) = {s[i] : i \in 1..n}
         /\ ToSet(SubSeq(s, 1, n)) \subseteq ToSet(s)
         /\ n = Len(s) => ToSet(SubSeq(s, 1, n)) = ToSet(s)
<1> DEFINE t == SubSeq(s, 1, n)
<1>1. /\ t \in Seq(S) /\ Len(t) = n /\ DOMAIN t = 1..n
      /\ \A i \in 1..n : t[i] = s[i]
  BY FirstOf
<1>2. Len(s) \in Nat /\ DOMAIN s = 1..Len(s) /\ 1..n \subseteq DOMAIN s
  OBVIOUS
<1> HIDE DEF t
<1>3. IsInjective(t)
  BY <1>1, <1>2 DEF IsInjective
<1>4. ToSet(t) = {s[i] : i \in 1..n}
  BY <1>1 DEF ToSet
<1>5. ToSet(t) \subseteq ToSet(s) /\ (n = Len(s) => ToSet(t) = ToSet(s))
  BY <1>2, <1>4 DEF ToSet
<1>6. QED BY <1>3, <1>4, <1>5 DEF t

\* One more at the end.
LEMMA OneMore ==
  ASSUME NEW S, NEW s \in Seq(S), NEW x \in S
  PROVE  /\ Append(s, x) \in Seq(S)
         /\ ToSet(Append(s, x)) = ToSet(s) \cup {x}
         /\ IsInjective(s) /\ x \notin ToSet(s) => IsInjective(Append(s, x))
<1> DEFINE t == Append(s, x)
<1>1. /\ t \in Seq(S) /\ Len(t) = Len(s) + 1 /\ Len(s) \in Nat
      /\ DOMAIN s = 1..Len(s) /\ DOMAIN t = 1..Len(s) + 1
      /\ \A i \in 1..Len(s) : t[i] = s[i]
      /\ t[Len(s) + 1] = x
  OBVIOUS
<1> HIDE DEF t
<1>2. 1..Len(s) + 1 = 1..Len(s) \cup {Len(s) + 1}
  BY <1>1
<1>3. ToSet(t) = ToSet(s) \cup {x}
  BY <1>1, <1>2 DEF ToSet
<1>4. ASSUME IsInjective(s), x \notin ToSet(s)
      PROVE  IsInjective(t)
  <2>1. \A i \in 1..Len(s) : s[i] # x
    BY <1>1, <1>4 DEF ToSet
  <2>2. \A a, b \in 1..Len(s) + 1 : t[a] = t[b] => a = b
    BY <1>1, <1>2, <1>4, <2>1 DEF IsInjective
  <2>3. QED BY <1>1, <2>2 DEF IsInjective
<1>5. QED BY <1>1, <1>3, <1>4 DEF t

\* Two in a row.
LEMMA TwoInARow ==
  ASSUME NEW S, NEW s \in Seq(S), NEW t \in Seq(S)
  PROVE  /\ s \o t \in Seq(S)
         /\ ToSet(s \o t) = ToSet(s) \cup ToSet(t)
         /\ IsInjective(s) /\ IsInjective(t) /\ ToSet(s) \cap ToSet(t) = {} =>
              IsInjective(s \o t)
<1> DEFINE u == s \o t
           m == Len(s)
           n == Len(t)
<1>1. /\ u \in Seq(S) /\ m \in Nat /\ n \in Nat /\ Len(u) = m + n
      /\ DOMAIN s = 1..m /\ DOMAIN t = 1..n /\ DOMAIN u = 1..(m + n)
      /\ \A i \in 1..(m + n) : u[i] = IF i <= m THEN s[i] ELSE t[i - m]
  OBVIOUS
<1> HIDE DEF u, m, n
<1>2. /\ \A i \in 1..m : i \in 1..(m + n) /\ u[i] = s[i]
      /\ \A i \in 1..n : i + m \in 1..(m + n) /\ u[i + m] = t[i]
      /\ \A i \in 1..(m + n) : i \in 1..m \/ (i - m \in 1..n /\ u[i] = t[i - m])
  BY <1>1
<1>3. ToSet(u) \subseteq ToSet(s) \cup ToSet(t)
  BY <1>1, <1>2 DEF ToSet
<1>4. ToSet(s) \subseteq ToSet(u) /\ ToSet(t) \subseteq ToSet(u)
  <2>1. ASSUME NEW i \in 1..m PROVE \E k \in 1..(m + n) : u[k] = s[i]
    BY <1>2
  <2>2. ASSUME NEW i \in 1..n PROVE \E k \in 1..(m + n) : u[k] = t[i]
    BY <1>2
  <2>3. /\ ToSet(s) = {s[i] : i \in 1..m} /\ ToSet(t) = {t[i] : i \in 1..n}
        /\ ToSet(u) = {u[i] : i \in 1..(m + n)}
    BY <1>1 DEF ToSet
  <2>4. ToSet(s) \subseteq ToSet(u)
    BY <2>1, <2>3
  <2>5. ToSet(t) \subseteq ToSet(u)
    BY <2>2, <2>3
  <2>6. QED BY <2>4, <2>5
<1>5. ASSUME IsInjective(s), IsInjective(t), ToSet(s) \cap ToSet(t) = {}
      PROVE  IsInjective(u)
  <2>1. \A i \in 1..m, j \in 1..n : s[i] # t[j]
    BY <1>1, <1>5 DEF ToSet
  <2>2. ASSUME NEW a \in 1..(m + n), NEW b \in 1..(m + n), u[a] = u[b]
        PROVE  a = b
    <3>1. CASE a <= m /\ b <= m
      <4>1. a \in 1..m /\ b \in 1..m
        BY <1>1, <3>1
      <4>2. s[a] = s[b]
        BY <1>2, <2>2, <4>1
      <4>3. QED BY <1>1, <1>5, <4>1, <4>2 DEF IsInjective
    <3>2. CASE a > m /\ b > m
      <4>1. a - m \in 1..n /\ b - m \in 1..n /\ t[a - m] = t[b - m]
        BY <1>1, <2>2, <3>2
      <4>2. a - m = b - m
        BY <1>1, <1>5, <4>1 DEF IsInjective
      <4>3. QED BY <1>1, <4>2
    <3>3. CASE (a <= m /\ b > m) \/ (a > m /\ b <= m)
      <4>1. \/ a \in 1..m /\ b - m \in 1..n /\ s[a] = t[b - m]
            \/ b \in 1..m /\ a - m \in 1..n /\ s[b] = t[a - m]
        BY <1>1, <2>2, <3>3
      <4>2. QED BY <2>1, <4>1
    <3>4. QED BY <1>1, <3>1, <3>2, <3>3
  <2>3. QED BY <1>1, <2>2 DEF IsInjective
<1>6. QED BY <1>1, <1>3, <1>4, <1>5 DEF u

-----------------------------------------------------------------------------
(* The inductive invariant of the ranking. *)

Places == {"start", "sem", "check", "probe", "record", "skipped", "done"}

Tests(r) ==
  /\ r \notin candidates => pc[r] = "start"
  /\ pc[r] \in {"start", "sem", "check", "skipped"} => probes[r] = <<>>
  /\ probes[r] # <<>> /\ ~R!Succeeded(r) => probes[r] = <<0>>
  /\ pc[r] = "skipped" => cancelled \/ stopped
  /\ pc[r] \in {"record", "done"} => probes[r] # <<>> \/ cancelled \/ stopped
  /\ r \in available <=> pc[r] = "done" /\ R!Succeeded(r)

Probed == {r \in Relays : probes[r] # <<>>}

StopInv ==
  stopped => /\ (cancelled \/ Cardinality(Probed) >= MinTested)
             /\ \E r \in available : R!Latency(r) <= EarlyLatency

Holding == {r \in Relays : pc[r] \in {"check", "probe", "record"}}
Tested == {r \in Relays : pc[r] \in {"record", "done"}}

RankType ==
  /\ candidates \subseteq Relays
  /\ pc \in [Relays -> Places]
  /\ probes \in [Relays -> Seq(Latencies \cup {0})]
  /\ \A r \in Relays : Len(probes[r]) <= Probes
  /\ sem = Cardinality(Holding) /\ sem <= MaxConcurrent
  /\ tested = Cardinality(Tested)
  /\ count \in [Relays -> 0..tested]
  /\ stopped \in BOOLEAN /\ elapsed \in BOOLEAN /\ cancelled \in BOOLEAN
  /\ outcome \in {"none", "relays", "unavailable", "cancelled"}
  /\ available \subseteq Relays /\ returned \in Seq(Relays)

RankInv ==
  /\ RankType
  /\ \A r \in Relays : Tests(r)
  /\ StopInv

\* What the ranking returns: the best N of the relays available, in order.
BestFirst ==
  /\ returned # <<>> /\ ToSet(returned) \subseteq available
  /\ \A i, j \in DOMAIN returned : i < j => R!Score(returned[i]) <= R!Score(returned[j])
  /\ \A r \in available \ ToSet(returned), i \in DOMAIN returned :
       R!Score(returned[i]) <= R!Score(r)
  /\ Len(returned) = N \/ ToSet(returned) = available

OutcomeInv ==
  /\ outcome # "none" => \A r \in candidates : pc[r] \in {"skipped", "done"}
  /\ outcome = "cancelled" => cancelled /\ ~stopped
  /\ outcome = "unavailable" => /\ available = {} /\ ~stopped
                                /\ \A r \in candidates : probes[r] = <<0>>
  /\ outcome = "relays" => /\ BestFirst
                           /\ (stopped \/ \A r \in candidates : probes[r] # <<>>)

PhaseInv ==
  /\ phase \in {"discover", "filter", "rank", "done"}
  /\ phase \in {"discover", "filter"} => candidates = {} /\ outcome = "none" /\ ~stopped
  /\ phase # "done" => chosen = NoRelay

-----------------------------------------------------------------------------
(* The inductive invariant of the pre-filter. *)

\* The last round begun.
LastRound == IF main = "wait" \/ round = 0 THEN round ELSE round - 1

Connecting == {r \in Relays : fpc[r] = "probe"}

FilterType ==
  /\ delay \in [Relays -> Delays] /\ lost \subseteq Relays
  /\ fpc \in [Relays -> {"none", "sem", "probe", "done"}]
  /\ round \in Nat /\ round <= MaxRetries + 1
  /\ pending \subseteq Relays /\ stillPending \subseteq pending
  /\ newOk \in Seq(Relays) /\ successful \in Seq(Relays) /\ filtered \in Seq(Relays)
  /\ main \in {"check", "wait", "done"} /\ cancelled \in BOOLEAN
  /\ Cardinality(Connecting) <= TCPConcurrency

\* A relay has answered once, and not at all before the first round.
Answers ==
  /\ IsInjective(successful) /\ IsInjective(newOk)
  /\ pending \cap ToSet(successful) = {}
  /\ main = "wait" => /\ round <= MaxRetries /\ ToSet(newOk) \subseteq pending
                      /\ \A r \in ToSet(newOk) \cup stillPending : fpc[r] = "done"
                      /\ \A r \in Relays : fpc[r] # "none" <=> r \in pending
                      /\ ToSet(newOk) \cap stillPending = {}
  /\ main # "wait" => newOk = <<>> /\ \A r \in Relays : fpc[r] \in {"none", "done"}
  /\ main # "wait" /\ round = 0 => successful = <<>>

\* The rounds' time, and what it says of the relays that have answered in it.
Times ==
  /\ timeout = F!Patience[LastRound] /\ timeout \in Nat
  /\ \A r \in ToSet(successful) \cup ToSet(newOk) : delay[r] <= timeout

\* Without a cancellation no relay is forgotten, and none fails but for the time
\* or the network.
Complete ==
  ~cancelled =>
    /\ pending \cup ToSet(successful) = Relays
    /\ main = "wait" => \A r \in pending : fpc[r] = "done" => r \in ToSet(newOk) \cup stillPending
    /\ main = "wait" => \A r \in stillPending : r \in lost \/ delay[r] > timeout
    /\ main # "wait" /\ round > 0 => \A r \in pending : r \in lost \/ delay[r] > timeout

FilterInv ==
  FilterType /\ Answers /\ Times /\ Complete /\ FastestKept /\ EnoughOrExhausted

SelectionInv ==
  RankInv /\ OutcomeInv /\ PhaseInv /\ FilterInv /\ SelectionIsHonest

-----------------------------------------------------------------------------
(* The ranking. *)

LEMMA Constants ==
  /\ NoRelay \notin Relays /\ IsFiniteSet(Relays) /\ Relays # {}
  /\ Delays \subseteq Nat
  /\ TCPTimeout \in Nat \ {0} /\ TCPTopN \in Nat \ {0} /\ TCPConcurrency \in Nat \ {0}
  /\ MaxRetries \in Nat /\ MinRelays \in Nat
  /\ Latencies \subseteq Nat \ {0}
  /\ N \in Nat \ {0} /\ MaxConcurrent \in Nat \ {0} /\ Probes \in Nat \ {0}
  /\ EarlyLatency \in Nat /\ MinTested \in Nat
  BY SelectionAssumption, SameOperators DEF F!PreFilterAssumption, R!RankingAssumption

\* What is known of the probes of a relay.
LEMMA ProbeFacts ==
  ASSUME RankType, NEW r \in Relays
  PROVE  /\ probes[r] \in Seq(Nat)
         /\ R!Measured(r) = ToSet(probes[r]) \ {0} /\ R!Measured(r) \in SUBSET Nat
         /\ R!Succeeded(r) => R!Measured(r) # {}
         /\ probes[r] \in {<<>>, <<0>>} => R!Measured(r) = {}
         /\ R!Measured(r) # {} => R!Latency(r) \in Nat /\ R!Score(r) \in Int
<1> DEFINE M == ToSet(probes[r]) \ {0}
<1>1. probes[r] \in Seq(Latencies \cup {0}) /\ probes[r] \in Seq(Nat)
  <2>1. probes[r] \in Seq(Latencies \cup {0}) /\ Latencies \cup {0} \subseteq Nat
    BY Constants DEF RankType
  <2>2. QED BY <2>1, SeqMonotonic
<1>2. R!Measured(r) = M
  BY SameOperators DEF R!Measured
<1>3. M \in SUBSET Nat /\ IsFiniteSet(M)
  <2>1. ToSet(probes[r]) \subseteq Nat /\ IsFiniteSet(ToSet(probes[r]))
    BY <1>1, FewElements
  <2>2. IsFiniteSet(M)
    BY <2>1, FS_RemoveElement
  <2>3. QED BY <2>1, <2>2
<1>4. R!Succeeded(r) => M # {}
  <2>1. probes[r] # <<>> => Head(probes[r]) \in ToSet(probes[r])
    BY <1>1 DEF ToSet
  <2>2. QED BY <2>1 DEF R!Succeeded
<1>5. probes[r] \in {<<>>, <<0>>} => M = {}
  BY DEF ToSet
<1>6. ASSUME M # {}
      PROVE  R!Latency(r) \in Nat /\ R!Score(r) \in Int
  <2>1. Min(M) \in Nat /\ Max(M) \in Nat
    BY <1>3, <1>6, MinLeast, MaxGreatest
  <2>2. R!Latency(r) = Min(M)
    BY <1>2, SameOperators DEF R!Latency
  <2>3. R!Jitter(r) = Max(M) - Min(M)
    BY <1>2, <2>2, SameOperators DEF R!Jitter
  <2>4. QED BY <2>1, <2>2, <2>3 DEF R!Score
<1>7. QED BY <1>1, <1>2, <1>3, <1>4, <1>5, <1>6

\* A set counts one more or one less.
LEMMA OneMoved ==
  ASSUME NEW S, IsFiniteSet(S), NEW x, NEW b \in BOOLEAN
  PROVE  Cardinality(IF b THEN S \cup {x} ELSE S \ {x}) =
           IF x \in S THEN IF b THEN Cardinality(S) ELSE Cardinality(S) - 1
           ELSE IF b THEN Cardinality(S) + 1 ELSE Cardinality(S)
<1>1. CASE b
  BY <1>1, FS_AddElement
<1>2. CASE ~b
  BY <1>2, FS_RemoveElement
<1>3. QED BY <1>1, <1>2

\* What a move of a goroutine says of the tokens and of the tests.
LEMMA MovedCounts ==
  ASSUME RankType, NEW r \in Relays, NEW place \in Places, pc' = [pc EXCEPT ![r] = place]
  PROVE  /\ pc' \in [Relays -> Places]
         /\ sem \in Nat /\ tested \in Nat
         /\ Cardinality(Holding)' =
              IF pc[r] \in {"check", "probe", "record"}
                THEN IF place \in {"check", "probe", "record"} THEN sem ELSE sem - 1
                ELSE IF place \in {"check", "probe", "record"} THEN sem + 1 ELSE sem
         /\ Cardinality(Tested)' =
              IF pc[r] \in {"record", "done"}
                THEN IF place \in {"record", "done"} THEN tested ELSE tested - 1
                ELSE IF place \in {"record", "done"} THEN tested + 1 ELSE tested
<1>1. pc \in [Relays -> Places] /\ sem = Cardinality(Holding) /\ tested = Cardinality(Tested)
  BY DEF RankType
<1>2. pc' \in [Relays -> Places]
  BY <1>1
<1>3. /\ IsFiniteSet(Holding) /\ IsFiniteSet(Tested)
      /\ Cardinality(Holding) \in Nat /\ Cardinality(Tested) \in Nat
  BY Constants, FS_Subset, FS_CardinalityType DEF Holding, Tested
<1> DEFINE holds == place \in {"check", "probe", "record"}
           counts == place \in {"record", "done"}
<1>4. Holding' = IF holds THEN Holding \cup {r} ELSE Holding \ {r}
  BY <1>1 DEF Holding
<1>5. Tested' = IF counts THEN Tested \cup {r} ELSE Tested \ {r}
  BY <1>1 DEF Tested
<1>6. Cardinality(Holding)' =
        IF r \in Holding THEN IF holds THEN Cardinality(Holding) ELSE Cardinality(Holding) - 1
        ELSE IF holds THEN Cardinality(Holding) + 1 ELSE Cardinality(Holding)
  <2>1. holds \in BOOLEAN
    OBVIOUS
  <2>2. QED BY <1>3, <1>4, <2>1, OneMoved
<1>7. Cardinality(Tested)' =
        IF r \in Tested THEN IF counts THEN Cardinality(Tested) ELSE Cardinality(Tested) - 1
        ELSE IF counts THEN Cardinality(Tested) + 1 ELSE Cardinality(Tested)
  <2>1. counts \in BOOLEAN
    OBVIOUS
  <2>2. QED BY <1>3, <1>5, <2>1, OneMoved
<1>8. /\ r \in Holding <=> pc[r] \in {"check", "probe", "record"}
      /\ r \in Tested <=> pc[r] \in {"record", "done"}
  BY DEF Holding, Tested
<1>9. QED BY <1>1, <1>2, <1>3, <1>6, <1>7, <1>8

LEMMA WorkerType ==
  ASSUME RankType, NEW r \in candidates, R!Worker(r)
  PROVE  RankType'
<1>1. r \in Relays
  BY DEF RankType
<1>2. CASE R!Start(r)
  <2>1. PICK place \in {"skipped", "sem"} : pc' = [pc EXCEPT ![r] = place]
    BY <1>2 DEF R!Start, R!Goto
  <2>2. pc[r] = "start" /\ UNCHANGED <<candidates, probes, sem, tested, count, available,
          stopped, elapsed, cancelled, outcome, returned>>
    BY <1>2 DEF R!Start, R!caller
  <2>3. place \in Places
    BY <2>1 DEF Places
  <2>4. /\ sem' = Cardinality(Holding)' /\ tested' = Cardinality(Tested)'
        /\ pc' \in [Relays -> Places]
    BY <1>1, <2>1, <2>2, <2>3, MovedCounts
  <2>5. QED BY <2>2, <2>4 DEF RankType
<1>3. CASE R!AcquireSem(r)
  <2>1. pc' = [pc EXCEPT ![r] = "check"] /\ sem' = sem + 1 /\ sem < MaxConcurrent
    BY <1>3 DEF R!AcquireSem, R!Goto
  <2>2. pc[r] = "sem" /\ UNCHANGED <<candidates, probes, tested, count, available,
          stopped, elapsed, cancelled, outcome, returned>>
    BY <1>3 DEF R!AcquireSem, R!caller
  <2>3. "check" \in Places
    BY DEF Places
  <2>4. /\ sem' = Cardinality(Holding)' /\ tested' = Cardinality(Tested)'
        /\ sem \in Nat /\ pc' \in [Relays -> Places]
    BY <1>1, <2>1, <2>2, <2>3, MovedCounts
  <2>5. QED BY <2>1, <2>2, <2>4, Constants DEF RankType
<1>4. CASE R!SemCancelled(r)
  <2>1. pc' = [pc EXCEPT ![r] = "skipped"]
    BY <1>4 DEF R!SemCancelled, R!Goto
  <2>2. pc[r] = "sem" /\ UNCHANGED <<candidates, probes, sem, tested, count, available,
          stopped, elapsed, cancelled, outcome, returned>>
    BY <1>4 DEF R!SemCancelled, R!caller
  <2>3. "skipped" \in Places
    BY DEF Places
  <2>4. /\ sem' = Cardinality(Holding)' /\ tested' = Cardinality(Tested)'
        /\ pc' \in [Relays -> Places]
    BY <1>1, <2>1, <2>2, <2>3, MovedCounts
  <2>5. QED BY <2>2, <2>4 DEF RankType
<1>5. CASE R!CheckStopped(r)
  <2>1. PICK place \in {"skipped", "probe"} :
          /\ pc' = [pc EXCEPT ![r] = place]
          /\ sem' = IF place = "skipped" THEN sem - 1 ELSE sem
    BY <1>5 DEF R!CheckStopped, R!Goto
  <2>2. pc[r] = "check" /\ UNCHANGED <<candidates, probes, tested, count, available,
          stopped, elapsed, cancelled, outcome, returned>>
    BY <1>5 DEF R!CheckStopped, R!caller
  <2>3. place \in Places
    BY <2>1 DEF Places
  <2>4. /\ sem' = Cardinality(Holding)' /\ tested' = Cardinality(Tested)'
        /\ sem \in Nat /\ pc' \in [Relays -> Places]
    BY <1>1, <2>1, <2>2, <2>3, MovedCounts
  <2>5. QED BY <2>1, <2>2, <2>4, Constants DEF RankType
<1>6. CASE R!Probe(r)
  <2>1. PICK latency \in Latencies \cup {0} : probes' = [probes EXCEPT ![r] = Append(@, latency)]
    BY <1>6 DEF R!Probe
  <2>2. Len(probes[r]) < Probes /\ UNCHANGED <<candidates, pc, sem, tested, count, available,
          stopped, elapsed, cancelled, outcome, returned>>
    BY <1>6 DEF R!Probe, R!ProbesLeft, R!caller
  <2>3. /\ Append(probes[r], latency) \in Seq(Latencies \cup {0})
        /\ Len(Append(probes[r], latency)) = Len(probes[r]) + 1 /\ Len(probes[r]) \in Nat
    BY <1>1 DEF RankType
  <2>4. probes' \in [Relays -> Seq(Latencies \cup {0})]
    BY <2>1, <2>3 DEF RankType
  <2>5. \A q \in Relays : Len(probes'[q]) <= Probes
    BY <1>1, <2>1, <2>2, <2>3, Constants DEF RankType
  <2>6. Holding' = Holding /\ Tested' = Tested
    BY <2>2 DEF Holding, Tested
  <2>7. QED BY <2>2, <2>4, <2>5, <2>6 DEF RankType
<1>7. CASE R!EndTest(r)
  <2>1. /\ pc' = [pc EXCEPT ![r] = "record"] /\ tested' = tested + 1
        /\ count' = [count EXCEPT ![r] = tested']
    BY <1>7 DEF R!EndTest, R!Goto
  <2>2. pc[r] = "probe" /\ UNCHANGED <<candidates, probes, sem, available,
          stopped, elapsed, cancelled, outcome, returned>>
    BY <1>7 DEF R!EndTest, R!caller
  <2>3. "record" \in Places
    BY DEF Places
  <2>4. /\ sem' = Cardinality(Holding)' /\ tested' = Cardinality(Tested)'
        /\ tested \in Nat /\ pc' \in [Relays -> Places]
    BY <1>1, <2>1, <2>2, <2>3, MovedCounts
  <2>5. count' \in [Relays -> 0..tested']
    BY <1>1, <2>1, <2>4 DEF RankType
  <2>6. QED BY <2>2, <2>4, <2>5 DEF RankType
<1>8. CASE R!Record(r)
  <2>1. pc' = [pc EXCEPT ![r] = "done"] /\ sem' = sem - 1
    BY <1>8 DEF R!Record, R!Goto
  <2>2. pc[r] = "record" /\ UNCHANGED <<candidates, probes, tested, count, elapsed,
          cancelled, outcome, returned>>
    BY <1>8 DEF R!Record, R!caller
  <2>3. "done" \in Places
    BY DEF Places
  <2>4. available' \subseteq Relays /\ stopped' \in BOOLEAN
    BY <1>1, <1>8 DEF R!Record, RankType
  <2>5. /\ sem' = Cardinality(Holding)' /\ tested' = Cardinality(Tested)'
        /\ sem \in Nat /\ pc' \in [Relays -> Places]
    BY <1>1, <2>1, <2>2, <2>3, MovedCounts
  <2>6. QED BY <2>1, <2>2, <2>4, <2>5, Constants DEF RankType
<1>9. QED BY <1>2, <1>3, <1>4, <1>5, <1>6, <1>7, <1>8 DEF R!Worker

\* A goroutine that only goes on to another place, with reason.
LEMMA MoveKeepsTests ==
  ASSUME RankInv, NEW r \in candidates, NEW place \in Places \ {"done"},
         pc' = [pc EXCEPT ![r] = place], pc[r] # "done",
         UNCHANGED <<candidates, probes, available, stopped, cancelled>>,
         place \in {"start", "sem", "check", "skipped"} => probes[r] = <<>>,
         place = "skipped" => cancelled \/ stopped,
         place = "record" => probes[r] # <<>> \/ cancelled \/ stopped
  PROVE  (\A q \in Relays : Tests(q))' /\ StopInv'
<1>1. r \in Relays /\ pc \in [Relays -> Places]
  BY DEF RankInv, RankType
<1>2. ASSUME NEW q \in Relays PROVE Tests(q)'
  <2>1. Tests(q)
    BY DEF RankInv
  <2>2. R!Succeeded(q)' <=> R!Succeeded(q)
    BY DEF R!Succeeded
  <2>3. CASE q = r
    BY <1>1, <2>1, <2>2, <2>3 DEF Tests
  <2>4. CASE q # r
    BY <1>1, <2>1, <2>2, <2>4 DEF Tests
  <2>5. QED BY <2>3, <2>4
<1>3. StopInv'
  <2>1. StopInv
    BY DEF RankInv
  <2>2. Probed' = Probed /\ \A q : R!Latency(q)' = R!Latency(q)
    BY DEF Probed, R!Latency, R!Measured
  <2>3. QED BY <2>1, <2>2 DEF StopInv
<1>4. QED BY <1>2, <1>3

LEMMA ProbeKeepsTests ==
  ASSUME RankInv, NEW r \in candidates, R!Probe(r)
  PROVE  (\A q \in Relays : Tests(q))' /\ StopInv'
<1>1. r \in Relays /\ probes \in [Relays -> Seq(Latencies \cup {0})]
  BY DEF RankInv, RankType
<1>2. PICK latency \in Latencies \cup {0} : probes' = [probes EXCEPT ![r] = Append(@, latency)]
  BY DEF R!Probe
<1>3. /\ pc[r] = "probe" /\ (probes[r] # <<>> => R!Succeeded(r))
      /\ UNCHANGED <<candidates, pc, available, stopped, cancelled>>
  BY DEF R!Probe, R!ProbesLeft
<1>4. /\ probes'[r] = Append(probes[r], latency) /\ \A q \in Relays \ {r} : probes'[q] = probes[q]
  BY <1>1, <1>2
<1>5. /\ probes[r] \in Seq(Latencies \cup {0}) /\ probes'[r] # <<>>
      /\ probes[r] # <<>> => Head(probes'[r]) = Head(probes[r])
      /\ probes[r] = <<>> => probes'[r] = <<latency>>
  <2>1. probes[r] \in Seq(Latencies \cup {0})
    BY <1>1
  <2>2. ASSUME NEW s \in Seq(Latencies \cup {0})
        PROVE  /\ Append(s, latency) # <<>>
               /\ s # <<>> => Head(Append(s, latency)) = Head(s)
    OBVIOUS
  <2>3. Append(<<>>, latency) = <<latency>>
    OBVIOUS
  <2>4. QED BY <1>4, <2>1, <2>2, <2>3
<1>6. ASSUME NEW q \in Relays PROVE Tests(q)'
  <2>1. Tests(q)
    BY DEF RankInv
  <2>2. CASE q = r
    <3>1. probes'[r] = <<0>> \/ R!Succeeded(r)'
      <4>1. CASE probes[r] = <<>>
        <5>1. latency # 0 => Head(probes'[r]) # 0
          BY <1>5, <4>1
        <5>2. QED BY <1>5, <4>1, <5>1 DEF R!Succeeded
      <4>2. CASE probes[r] # <<>>
        BY <1>3, <1>5, <4>2 DEF R!Succeeded
      <4>3. QED BY <4>1, <4>2
    <3>2. r \notin available
      BY <1>3, <2>1, <2>2 DEF Tests
    <3>3. QED BY <1>3, <2>2, <3>1, <3>2 DEF Tests
  <2>3. CASE q # r
    <3>1. R!Succeeded(q)' <=> R!Succeeded(q)
      BY <1>4, <2>3 DEF R!Succeeded
    <3>2. QED BY <1>3, <1>4, <2>1, <2>3, <3>1 DEF Tests
  <2>4. QED BY <2>2, <2>3
<1>7. StopInv'
  <2>1. StopInv /\ Tests(r)
    BY <1>1 DEF RankInv
  <2>2. r \notin available /\ available \subseteq Relays
    BY <1>3, <2>1 DEF Tests, RankInv, RankType
  <2>3. \A q \in available : R!Latency(q)' = R!Latency(q)
    BY <1>4, <2>2 DEF R!Latency, R!Measured
  <2>4. Cardinality(Probed) \in Nat /\ Cardinality(Probed') \in Nat
        /\ Cardinality(Probed) <= Cardinality(Probed')
    <3>1. IsFiniteSet(Probed') /\ IsFiniteSet(Probed)
      BY Constants, FS_Subset DEF Probed
    <3>2. Probed \in SUBSET (Probed')
      BY <1>4, <1>5 DEF Probed
    <3>3. QED BY <3>1, <3>2, FS_Subset, FS_CardinalityType
  <2>5. QED BY <1>3, <2>1, <2>3, <2>4, Constants DEF StopInv
<1>8. QED BY <1>6, <1>7

LEMMA RecordKeepsTests ==
  ASSUME RankInv, NEW r \in candidates, R!Record(r)
  PROVE  (\A q \in Relays : Tests(q))' /\ StopInv'
<1>1. r \in Relays /\ RankType /\ \A q \in Relays : Tests(q)
  BY DEF RankInv, RankType
<1>2. /\ pc[r] = "record" /\ pc' = [pc EXCEPT ![r] = "done"]
      /\ available' = IF R!Succeeded(r) THEN available \cup {r} ELSE available
      /\ stopped' = (stopped \/ R!StopsEarly(r))
      /\ UNCHANGED <<candidates, probes, tested, count, elapsed, cancelled>>
  BY DEF R!Record, R!Goto
<1>3. /\ \A q : R!Succeeded(q)' <=> R!Succeeded(q)
      /\ \A q : R!Latency(q)' = R!Latency(q)
      /\ Probed' = Probed
  BY <1>2 DEF R!Succeeded, R!Latency, R!Measured, Probed
<1>4. ASSUME NEW q \in Relays PROVE Tests(q)'
  <2>1. Tests(q) /\ pc \in [Relays -> Places]
    BY <1>1 DEF RankType
  <2>2. stopped => stopped'
    BY <1>2
  <2>3. CASE q = r
    BY <1>2, <1>3, <2>1, <2>2, <2>3 DEF Tests
  <2>4. CASE q # r
    <3>1. pc'[q] = pc[q] /\ (q \in available' <=> q \in available)
      BY <1>1, <1>2, <2>1, <2>4
    <3>2. QED BY <1>2, <1>3, <2>1, <2>2, <3>1 DEF Tests
  <2>5. QED BY <2>3, <2>4
<1>5. StopInv'
  <2>1. StopInv /\ available \subseteq available'
    BY <1>2 DEF RankInv
  <2>2. CASE stopped
    BY <1>2, <1>3, <2>1, <2>2 DEF StopInv
  <2>3. CASE ~stopped /\ R!StopsEarly(r)
    <3>1. /\ count[r] >= MinTested /\ available' # {}
          /\ R!BestLatency(available') <= EarlyLatency
      BY <2>3 DEF R!StopsEarly
    <3>2. cancelled \/ Cardinality(Probed) >= MinTested
      <4>1. SUFFICES ASSUME ~cancelled PROVE Cardinality(Probed) >= MinTested
        OBVIOUS
      <4>2. \A q \in Relays : pc[q] \in {"record", "done"} => probes[q] # <<>>
        BY <1>1, <2>3, <4>1 DEF Tests
      <4>3. Tested \in SUBSET Probed
        BY <4>2 DEF Tested, Probed
      <4>4. IsFiniteSet(Probed) /\ IsFiniteSet(Tested)
        BY Constants, FS_Subset DEF Probed, Tested
      <4>5. /\ Cardinality(Tested) <= Cardinality(Probed)
            /\ Cardinality(Probed) \in Nat /\ Cardinality(Tested) \in Nat
        BY <4>3, <4>4, FS_Subset, FS_CardinalityType
      <4>6. count[r] \in 0..tested /\ tested = Cardinality(Tested)
        BY <1>1 DEF RankType
      <4>7. QED BY <3>1, <4>5, <4>6, Constants
    <3>3. \E q \in available' : R!Latency(q) <= EarlyLatency
      <4> DEFINE L == {R!Latency(q) : q \in available'}
      <4>1. ASSUME NEW q \in available' PROVE R!Latency(q) \in Nat
        <5>1. q \in Relays /\ R!Succeeded(q)
          BY <1>1, <1>2 DEF Tests, RankType
        <5>2. QED BY <1>1, <5>1, ProbeFacts
      <4>2. L \in SUBSET Nat /\ L # {}
        BY <3>1, <4>1
      <4>3. R!BestLatency(available') = Min(L)
        BY SameOperators DEF R!BestLatency
      <4>4. Min(L) \in L
        BY <4>2, MinLeast
      <4>5. QED BY <3>1, <4>3, <4>4
    <3>4. QED BY <1>2, <1>3, <3>2, <3>3 DEF StopInv
  <2>4. CASE ~stopped /\ ~R!StopsEarly(r)
    BY <1>2, <2>4 DEF StopInv
  <2>5. QED BY <2>2, <2>3, <2>4
<1>6. QED BY <1>4, <1>5

LEMMA WorkerKeepsRank ==
  ASSUME RankInv, NEW r \in candidates, R!Worker(r)
  PROVE  RankInv'
<1>1. RankType /\ r \in Relays /\ Tests(r)
  BY DEF RankInv, RankType
<1>2. RankType'
  BY <1>1, WorkerType
<1>3. (\A q \in Relays : Tests(q))' /\ StopInv'
  <2>1. CASE R!Start(r)
    <3>1. PICK place \in {"skipped", "sem"} :
            pc' = [pc EXCEPT ![r] = place] /\ (place = "skipped" => stopped)
      BY <2>1 DEF R!Start, R!Goto
    <3>2. pc[r] = "start" /\ UNCHANGED <<candidates, probes, available, stopped, cancelled>>
      BY <2>1 DEF R!Start
    <3>3. probes[r] = <<>> /\ place \in Places \ {"done"} /\ place # "record"
      BY <1>1, <3>1, <3>2 DEF Tests, Places
    <3>4. QED BY <3>1, <3>2, <3>3, MoveKeepsTests
  <2>2. CASE R!AcquireSem(r)
    <3>1. pc' = [pc EXCEPT ![r] = "check"] /\ "check" \in Places \ {"done"}
      BY <2>2 DEF R!AcquireSem, R!Goto, Places
    <3>2. pc[r] = "sem" /\ UNCHANGED <<candidates, probes, available, stopped, cancelled>>
      BY <2>2 DEF R!AcquireSem
    <3>3. probes[r] = <<>>
      BY <1>1, <3>2 DEF Tests
    <3>4. QED BY <3>1, <3>2, <3>3, MoveKeepsTests
  <2>3. CASE R!SemCancelled(r)
    <3>1. pc' = [pc EXCEPT ![r] = "skipped"] /\ "skipped" \in Places \ {"done"}
      BY <2>3 DEF R!SemCancelled, R!Goto, Places
    <3>2. /\ pc[r] = "sem" /\ (cancelled \/ stopped)
          /\ UNCHANGED <<candidates, probes, available, stopped, cancelled>>
      BY <2>3 DEF R!SemCancelled, R!TestDone
    <3>3. probes[r] = <<>>
      BY <1>1, <3>2 DEF Tests
    <3>4. QED BY <3>1, <3>2, <3>3, MoveKeepsTests
  <2>4. CASE R!CheckStopped(r)
    <3>1. PICK place \in {"skipped", "probe"} :
            pc' = [pc EXCEPT ![r] = place] /\ (place = "skipped" => stopped)
      BY <2>4 DEF R!CheckStopped, R!Goto
    <3>2. pc[r] = "check" /\ UNCHANGED <<candidates, probes, available, stopped, cancelled>>
      BY <2>4 DEF R!CheckStopped
    <3>3. probes[r] = <<>> /\ place \in Places \ {"done"} /\ place # "record"
      BY <1>1, <3>1, <3>2 DEF Tests, Places
    <3>4. QED BY <3>1, <3>2, <3>3, MoveKeepsTests
  <2>5. CASE R!Probe(r)
    BY <2>5, ProbeKeepsTests
  <2>6. CASE R!EndTest(r)
    <3>1. pc' = [pc EXCEPT ![r] = "record"] /\ "record" \in Places \ {"done"}
      BY <2>6 DEF R!EndTest, R!Goto, Places
    <3>2. /\ pc[r] = "probe" /\ (~R!ProbesLeft(r) \/ cancelled \/ stopped)
          /\ UNCHANGED <<candidates, probes, available, stopped, cancelled>>
      BY <2>6 DEF R!EndTest, R!TestDone
    <3>3. probes[r] = <<>> => R!ProbesLeft(r)
      BY Constants DEF R!ProbesLeft
    <3>4. QED BY <3>1, <3>2, <3>3, MoveKeepsTests
  <2>7. CASE R!Record(r)
    BY <2>7, RecordKeepsTests
  <2>8. QED BY <2>1, <2>2, <2>3, <2>4, <2>5, <2>6, <2>7 DEF R!Worker
<1>4. QED BY <1>2, <1>3 DEF RankInv

\* What is returned is the beginning of an order by score.
LEMMA RankingReturned ==
  ASSUME RankType, available # {}, NEW s \in R!Rankings(available),
         returned' = SubSeq(s, 1, R!Min({N, Len(s)})), UNCHANGED <<probes, available>>
  PROVE  returned' \in Seq(Relays) /\ BestFirst'
<1>1. available \subseteq Relays /\ IsFiniteSet(available)
  BY Constants, FS_Subset DEF RankType
<1>2. /\ s \in SetToSeqs(available)
      /\ \A i, j \in DOMAIN s : i < j => R!Score(s[i]) <= R!Score(s[j])
  BY SameOperators DEF R!Rankings
<1>3. /\ s \in Seq(available) /\ Len(s) = Cardinality(available) /\ Len(s) \in Nat
      /\ DOMAIN s = 1..Len(s) /\ ToSet(s) = available /\ IsInjective(s)
  BY <1>1, <1>2, OrderIsPermutation
<1>4. Len(s) # 0
  BY <1>1, <1>3, FS_EmptySet
<1> DEFINE n == R!Min({N, Len(s)})
<1>5. n = IF N <= Len(s) THEN N ELSE Len(s)
  BY <1>3, Constants, MinOfTwo, SameOperators
<1>6. n \in 1..Len(s) /\ n \in 0..Len(s) /\ n \in Nat \ {0}
  BY <1>3, <1>4, <1>5, Constants
<1> HIDE DEF n
<1>7. returned' = SubSeq(s, 1, n)
  BY DEF n
<1>8. /\ returned' \in Seq(available) /\ Len(returned') = n /\ DOMAIN returned' = 1..n
      /\ \A i \in 1..n : returned'[i] = s[i]
  <2>1. /\ SubSeq(s, 1, n) \in Seq(available) /\ Len(SubSeq(s, 1, n)) = n
        /\ DOMAIN SubSeq(s, 1, n) = 1..n
        /\ \A i \in 1..n : SubSeq(s, 1, n)[i] = s[i]
    BY <1>3, <1>6, FirstOf
  <2>2. QED BY <1>7, <2>1
<1>9. /\ ToSet(returned') = {s[i] : i \in 1..n} /\ ToSet(returned') \subseteq available
      /\ n = Len(s) => ToSet(returned') = available
  <2>1. /\ ToSet(SubSeq(s, 1, n)) = {s[i] : i \in 1..n}
        /\ ToSet(SubSeq(s, 1, n)) \subseteq ToSet(s)
        /\ n = Len(s) => ToSet(SubSeq(s, 1, n)) = ToSet(s)
    BY <1>3, <1>6, FirstOfInjective
  <2>2. QED BY <1>3, <1>7, <2>1
<1>10. returned' \in Seq(Relays) /\ returned' # <<>>
  BY <1>1, <1>6, <1>8, SeqMonotonic, EmptySeq
<1>11. \A r : R!Score(r)' = R!Score(r)
  BY DEF R!Score, R!Latency, R!Jitter, R!Measured
<1>12. ASSUME NEW i \in DOMAIN returned', NEW j \in DOMAIN returned', i < j
       PROVE  R!Score(returned'[i]) <= R!Score(returned'[j])
  <2>1. i \in 1..n /\ j \in 1..n /\ i \in DOMAIN s /\ j \in DOMAIN s
    BY <1>3, <1>6, <1>8
  <2>2. QED BY <1>2, <1>8, <1>12, <2>1
<1>13. ASSUME NEW r \in available \ ToSet(returned'), NEW i \in DOMAIN returned'
       PROVE  R!Score(returned'[i]) <= R!Score(r)
  <2>1. PICK j \in 1..Len(s) : r = s[j]
    BY <1>3 DEF ToSet
  <2>2. j \notin 1..n
    BY <1>9, <1>13, <2>1
  <2>3. i < j /\ i \in DOMAIN s /\ j \in DOMAIN s
    BY <1>3, <1>6, <1>8, <2>1, <2>2
  <2>4. QED BY <1>2, <1>8, <2>1, <2>3
<1>14. Len(returned') = N \/ ToSet(returned') = available
  BY <1>5, <1>8, <1>9
<1>15. QED BY <1>9, <1>10, <1>11, <1>12, <1>13, <1>14 DEF BestFirst

\* Nothing of the ranking changes, but that the caller may cancel.
LEMMA RankingStays ==
  ASSUME RankInv, OutcomeInv, UNCHANGED ranking, cancelled' \in {cancelled, TRUE}
  PROVE  RankInv' /\ OutcomeInv'
<1>1. UNCHANGED <<candidates, pc, probes, sem, tested, count, available, stopped, elapsed,
                  outcome, returned>>
  BY DEF ranking
<1>2. RankType'
  BY <1>1 DEF RankInv, RankType, Holding, Tested
<1>3. /\ \A q : R!Succeeded(q)' <=> R!Succeeded(q)
      /\ \A q : R!Latency(q)' = R!Latency(q)
      /\ \A q : R!Score(q)' = R!Score(q)
      /\ Probed' = Probed
  BY <1>1 DEF R!Succeeded, R!Score, R!Jitter, R!Latency, R!Measured, Probed
<1>4. ASSUME NEW q \in Relays PROVE Tests(q)'
  <2>1. Tests(q)
    BY DEF RankInv
  <2>2. QED BY <1>1, <1>3, <2>1 DEF Tests
<1>5. StopInv'
  BY <1>1, <1>3 DEF RankInv, StopInv
<1>6. OutcomeInv'
  <2>1. BestFirst' <=> BestFirst
    BY <1>1, <1>3 DEF BestFirst
  <2>2. cancelled => cancelled'
    OBVIOUS
  <2>3. QED BY <1>1, <2>1, <2>2 DEF OutcomeInv
<1>7. QED BY <1>2, <1>4, <1>5, <1>6 DEF RankInv

\* The caller's own steps.
LEMMA ReturnKeepsRank ==
  ASSUME RankInv, OutcomeInv, R!ReturnCancelled \/ R!ReturnRelays \/ R!TimePasses
  PROVE  RankInv' /\ OutcomeInv'
<1>1. UNCHANGED <<candidates, pc, probes, sem, tested, count, available, stopped, cancelled>>
  BY DEF R!ReturnCancelled, R!ReturnRelays, R!TimePasses, R!workers
<1>2. /\ \A q : R!Succeeded(q)' <=> R!Succeeded(q)
      /\ \A q : R!Latency(q)' = R!Latency(q)
      /\ Probed' = Probed /\ Holding' = Holding /\ Tested' = Tested
  BY <1>1 DEF R!Succeeded, R!Latency, R!Measured, Probed, Holding, Tested
<1>3. (\A q \in Relays : Tests(q))' /\ StopInv'
  <2>1. ASSUME NEW q \in Relays PROVE Tests(q)'
    <3>1. Tests(q)
      BY DEF RankInv
    <3>2. QED BY <1>1, <1>2, <3>1 DEF Tests
  <2>2. StopInv'
    BY <1>1, <1>2 DEF RankInv, StopInv
  <2>3. QED BY <2>1, <2>2
<1>4. RankType
  BY DEF RankInv
<1>5. CASE R!TimePasses
  <2>1. outcome = "none" /\ elapsed' = TRUE /\ outcome' = outcome /\ returned' = returned
    BY <1>5 DEF R!TimePasses, R!caller
  <2>2. RankType'
    BY <1>1, <1>2, <1>4, <2>1 DEF RankType
  <2>3. OutcomeInv'
    BY <2>1 DEF OutcomeInv
  <2>4. QED BY <1>3, <2>2, <2>3 DEF RankInv
<1>6. CASE R!ReturnCancelled
  <2>1. /\ \A r \in candidates : pc[r] \in {"skipped", "done"}
        /\ cancelled /\ ~stopped
        /\ outcome' = "cancelled" /\ elapsed' = elapsed /\ returned' = returned
    BY <1>6 DEF R!ReturnCancelled, R!AllDone
  <2>2. RankType'
    BY <1>1, <1>2, <1>4, <2>1 DEF RankType
  <2>3. OutcomeInv'
    BY <1>1, <2>1 DEF OutcomeInv
  <2>4. QED BY <1>3, <2>2, <2>3 DEF RankInv
<1>7. CASE R!ReturnRelays
  <2>1. /\ \A r \in candidates : pc[r] \in {"skipped", "done"}
        /\ ~cancelled \/ stopped
        /\ elapsed' = elapsed
    BY <1>7 DEF R!ReturnRelays, R!AllDone
  <2>2. ~stopped => \A r \in candidates : pc[r] = "done" /\ probes[r] # <<>>
    <3>1. SUFFICES ASSUME ~stopped, NEW r \in candidates
                   PROVE  pc[r] = "done" /\ probes[r] # <<>>
      OBVIOUS
    <3>2. Tests(r)
      BY <1>4 DEF RankInv, RankType
    <3>3. QED BY <2>1, <3>1, <3>2 DEF Tests
  <2>3. CASE available = {}
    <3>1. outcome' = "unavailable" /\ returned' = returned
      BY <1>7, <2>3 DEF R!ReturnRelays
    <3>2. ~stopped
      BY <2>3 DEF RankInv, StopInv
    <3>3. ASSUME NEW r \in candidates PROVE probes[r] = <<0>>
      <4>1. Tests(r)
        BY <1>4 DEF RankInv, RankType
      <4>2. QED BY <2>2, <2>3, <3>2, <4>1 DEF Tests
    <3>4. RankType'
      BY <1>1, <1>2, <1>4, <2>1, <3>1 DEF RankType
    <3>5. OutcomeInv'
      BY <1>1, <2>1, <2>3, <3>1, <3>2, <3>3 DEF OutcomeInv
    <3>6. QED BY <1>3, <3>4, <3>5 DEF RankInv
  <2>4. CASE available # {}
    <3>1. outcome' = "relays"
      BY <1>7, <2>4 DEF R!ReturnRelays
    <3>2. PICK s \in R!Rankings(available) : returned' = SubSeq(s, 1, R!Min({N, Len(s)}))
      BY <1>7, <2>4 DEF R!ReturnRelays
    <3>3. returned' \in Seq(Relays) /\ BestFirst'
      BY <1>1, <1>4, <2>4, <3>2, RankingReturned
    <3>4. RankType'
      BY <1>1, <1>2, <1>4, <2>1, <3>1, <3>3 DEF RankType
    <3>5. OutcomeInv'
      BY <1>1, <2>1, <2>2, <3>1, <3>3 DEF OutcomeInv
    <3>6. QED BY <1>3, <3>4, <3>5 DEF RankInv
  <2>5. QED BY <2>3, <2>4
<1>8. QED BY <1>5, <1>6, <1>7

LEMMA RankKeepsRank ==
  ASSUME RankInv, OutcomeInv, Rank
  PROVE  RankInv' /\ OutcomeInv'
<1>1. ASSUME NEW r \in candidates, R!Worker(r)
      PROVE  RankInv' /\ OutcomeInv'
  <2>1. RankInv'
    BY <1>1, WorkerKeepsRank
  <2>2. pc[r] \notin {"skipped", "done"} /\ outcome' = outcome
    BY <1>1 DEF R!Worker, R!Start, R!AcquireSem, R!SemCancelled, R!CheckStopped, R!Probe,
                R!EndTest, R!Record, R!caller
  <2>3. outcome' = "none"
    BY <1>1, <2>2 DEF OutcomeInv
  <2>4. QED BY <2>1, <2>3 DEF OutcomeInv
<1>2. QED BY <1>1, ReturnKeepsRank DEF Rank

-----------------------------------------------------------------------------
(* The choice. *)

\* When the ranking has returned, the candidates that answered are available.
LEMMA AnsweredAreAvailable ==
  ASSUME RankInv, OutcomeInv, outcome # "none", NEW r \in candidates
  PROVE  /\ r \in Relays
         /\ R!Succeeded(r) => r \in available
         /\ R!Measured(r) # {} => r \in available
<1>1. r \in Relays /\ Tests(r) /\ pc[r] \in {"skipped", "done"} /\ RankType
  BY DEF RankInv, RankType, OutcomeInv
<1>2. R!Succeeded(r) => r \in available
  BY <1>1 DEF Tests, R!Succeeded
<1>3. R!Measured(r) # {} => R!Succeeded(r)
  BY <1>1, ProbeFacts DEF Tests
<1>4. QED BY <1>1, <1>2, <1>3

LEMMA SelectIsHonest ==
  ASSUME RankInv, OutcomeInv, Select
  PROVE  SelectionIsHonest'
<1> DEFINE I == {i \in 1..Len(returned) : returned[i] \notin ignore'}
           first == IF I # {} THEN Min(I) ELSE 0
<1>1. /\ outcome # "none" /\ phase' = "done" /\ UNCHANGED <<cancelled, filter, ranking>>
      /\ chosen' = IF outcome = "relays" /\ first # 0 THEN returned[first] ELSE NoRelay
  BY FirstWanted DEF Select
<1>2. UNCHANGED <<cancelled, candidates, probes, stopped, returned>>
  BY <1>1 DEF ranking
<1>3. /\ \A q : R!Succeeded(q)' <=> R!Succeeded(q)
      /\ \A q : R!Score(q)' = R!Score(q)
      /\ \A q : R!Measured(q)' = R!Measured(q)
  BY <1>2 DEF R!Succeeded, R!Score, R!Jitter, R!Latency, R!Measured
<1>4. returned \in Seq(Relays) /\ DOMAIN returned = 1..Len(returned) /\ I \in SUBSET Nat
  BY DEF RankInv, RankType
<1>5. CASE outcome = "relays" /\ I # {}
  <2>1. first \in I /\ \A i \in I : first <= i
    BY <1>4, <1>5, MinLeast
  <2>2. first \in 1..Len(returned) /\ chosen' = returned[first] /\ chosen' \notin ignore'
    BY <1>1, <1>5, <2>1
  <2>3. BestFirst /\ (stopped \/ \A r \in candidates : probes[r] # <<>>)
    BY <1>5 DEF OutcomeInv
  <2>4. chosen' \in available
    BY <1>4, <2>2, <2>3 DEF BestFirst, ToSet
  <2>5. chosen' \in Relays /\ Tests(chosen')
    BY <2>4 DEF RankInv, RankType
  <2>6. chosen' \in candidates /\ R!Succeeded(chosen') /\ chosen' # NoRelay
    BY <2>4, <2>5, Constants DEF Tests
  <2>7. R!Score(chosen') \in Int
    BY <2>5, <2>6, ProbeFacts DEF RankInv
  <2>8. ASSUME NEW r \in candidates \ ignore', R!Measured(r) # {}
        PROVE  R!Score(chosen') <= R!Score(r)
    <3>1. r \in available
      BY <1>1, <2>8, AnsweredAreAvailable
    <3>2. CASE r \notin ToSet(returned)
      BY <1>4, <2>2, <2>3, <3>1, <3>2 DEF BestFirst
    <3>3. CASE r \in ToSet(returned)
      <4>1. PICK j \in 1..Len(returned) : r = returned[j]
        BY <1>4, <3>3 DEF ToSet
      <4>2. j \in I
        BY <2>8, <4>1
      <4>3. first < j \/ first = j
        BY <2>1, <2>2, <4>1, <4>2
      <4>4. first < j => R!Score(chosen') <= R!Score(r)
        BY <1>4, <2>2, <2>3, <4>1 DEF BestFirst
      <4>5. first = j => R!Score(chosen') <= R!Score(r)
        BY <2>2, <2>7, <4>1
      <4>6. QED BY <4>3, <4>4, <4>5
    <3>4. QED BY <3>2, <3>3
  <2> HIDE DEF I, first
  <2>9. QED BY <1>2, <1>3, <2>2, <2>3, <2>6, <2>8 DEF SelectionIsHonest
<1>6. CASE outcome = "relays" /\ I = {}
  <2>1. chosen' = NoRelay
    BY <1>1, <1>6
  <2>2. ToSet(returned) \subseteq ignore'
    BY <1>4, <1>6 DEF ToSet
  <2>3. BestFirst
    BY <1>6 DEF OutcomeInv
  <2>4. ASSUME ToSet(returned) = available, NEW r \in candidates \ ToSet(returned)
        PROVE  ~R!Succeeded(r)
    BY <1>1, <2>4, AnsweredAreAvailable
  <2>5. Len(returned) = N \/ \A r \in candidates \ ToSet(returned) : ~R!Succeeded(r)
    BY <2>3, <2>4 DEF BestFirst
  <2> HIDE DEF I, first
  <2>6. QED BY <1>2, <1>3, <2>1, <2>2, <2>3, <2>5 DEF SelectionIsHonest, BestFirst
<1>7. CASE outcome # "relays"
  <2>1. chosen' = NoRelay
    BY <1>1, <1>7
  <2>2. cancelled \/ \A r \in candidates : probes[r] = <<0>>
    BY <1>1, <1>7 DEF OutcomeInv, RankInv, RankType
  <2> HIDE DEF I, first
  <2>3. QED BY <1>2, <2>1, <2>2 DEF SelectionIsHonest
<1>8. QED BY <1>5, <1>6, <1>7

-----------------------------------------------------------------------------
(* The rounds' time is well defined: the sequences of the first doublings      *)
(* exist, by the least number of doublings for which there were none, and they *)
(* agree, by the first place where two of them did not.                        *)

Doublings(n) == {g \in [0..n -> Nat] : g[0] = TCPTimeout /\ \A i \in 1..n : g[i] = 2 * g[i - 1]}

LEMMA DoublingsExist ==
  ASSUME NEW n \in Nat
  PROVE  Doublings(n) # {}
<1> DEFINE none == {k \in Nat : Doublings(k) = {}}
<1>1. SUFFICES ASSUME none # {} PROVE FALSE
  OBVIOUS
<1>2. PICK m \in none : \A k \in none : m <= k
  BY <1>1, LeastExists
<1>3. CASE m = 0
  <2> DEFINE g == [i \in 0..0 |-> TCPTimeout]
  <2>1. g \in Doublings(0)
    BY Constants DEF Doublings
  <2>2. QED BY <1>2, <1>3, <2>1
<1>4. CASE m # 0
  <2>1. m \in Nat /\ m - 1 \in Nat /\ m - 1 \notin none
    BY <1>2, <1>4
  <2>2. PICK g \in Doublings(m - 1) : TRUE
    BY <2>1
  <2>3. /\ g \in [0..(m - 1) -> Nat] /\ g[0] = TCPTimeout
        /\ \A i \in 1..(m - 1) : g[i] = 2 * g[i - 1]
    BY <2>2 DEF Doublings
  <2> DEFINE h == [i \in 0..m |-> IF i = m THEN 2 * g[m - 1] ELSE g[i]]
  <2>4. h \in [0..m -> Nat] /\ h[0] = TCPTimeout
    BY <1>4, <2>1, <2>3
  <2>5. ASSUME NEW i \in 1..m PROVE h[i] = 2 * h[i - 1]
    <3>1. CASE i = m
      BY <2>1, <3>1
    <3>2. CASE i # m
      <4>1. i \in 1..(m - 1) /\ i - 1 # m /\ i \in 0..m /\ i - 1 \in 0..m
        BY <2>1, <3>2
      <4>2. QED BY <2>3, <3>2, <4>1
    <3>3. QED BY <3>1, <3>2
  <2>6. h \in Doublings(m)
    BY <2>4, <2>5 DEF Doublings
  <2>7. QED BY <1>2, <2>6
<1>5. QED BY <1>3, <1>4

LEMMA DoublingsAgree ==
  ASSUME NEW n \in Nat, NEW m \in Nat, NEW g \in Doublings(n), NEW h \in Doublings(m),
         NEW k \in 0..n, k \in 0..m
  PROVE  g[k] = h[k]
<1> DEFINE differ == {i \in Nat : i <= n /\ i <= m /\ g[i] # h[i]}
<1>1. SUFFICES ASSUME differ # {} PROVE FALSE
  OBVIOUS
<1>2. PICK i \in differ : \A j \in differ : i <= j
  BY <1>1, LeastExists
<1>3. /\ g[0] = TCPTimeout /\ h[0] = TCPTimeout
      /\ \A j \in 1..n : g[j] = 2 * g[j - 1]
      /\ \A j \in 1..m : h[j] = 2 * h[j - 1]
  BY DEF Doublings
<1>4. i # 0 /\ i \in 1..n /\ i \in 1..m
  BY <1>2, <1>3
<1>5. i - 1 \notin differ /\ i - 1 \in Nat /\ i - 1 <= n /\ i - 1 <= m
  BY <1>2, <1>4
<1>6. g[i - 1] = h[i - 1]
  BY <1>5
<1>7. g[i] = h[i]
  BY <1>3, <1>4, <1>6
<1>8. QED BY <1>2, <1>7

\* Each round has twice the time of the one before.
LEMMA PatienceDoubles ==
  /\ F!Patience[0] = TCPTimeout
  /\ \A k \in Nat : F!Patience[k] \in Nat /\ F!Patience[k + 1] = 2 * F!Patience[k]
<1> DEFINE G(k) == CHOOSE g \in Doublings(k) : TRUE
           v == [k \in Nat |-> G(k)[k]]
<1>1. ASSUME NEW k \in Nat
      PROVE  /\ G(k) \in Doublings(k)
             /\ G(k) \in [0..k -> Nat] /\ G(k)[0] = TCPTimeout
             /\ \A i \in 1..k : G(k)[i] = 2 * G(k)[i - 1]
  <2>1. G(k) \in Doublings(k)
    BY DoublingsExist
  <2>2. QED BY <2>1 DEF Doublings
<1> HIDE DEF G
<1>2. v[0] = TCPTimeout
  BY <1>1
<1>3. ASSUME NEW k \in Nat \ {0} PROVE v[k] = 2 * v[k - 1]
  <2>1. k \in 1..k /\ k - 1 \in Nat /\ k - 1 \in 0..k /\ k - 1 \in 0..(k - 1)
    OBVIOUS
  <2>2. G(k)[k] = 2 * G(k)[k - 1]
    BY <1>1, <2>1
  <2>3. G(k)[k - 1] = G(k - 1)[k - 1]
    BY <1>1, <2>1, DoublingsAgree
  <2>4. v[k] = G(k)[k] /\ v[k - 1] = G(k - 1)[k - 1]
    BY <2>1
  <2>5. QED BY <2>2, <2>3, <2>4
<1>4. \A k \in Nat : v[k] \in Nat
  BY <1>1
<1> HIDE DEF v
<1>5. v = [k \in Nat |-> IF k = 0 THEN TCPTimeout ELSE 2 * v[k - 1]]
  <2>1. v = [k \in Nat |-> v[k]]
    BY DEF v
  <2>2. \A k \in Nat : v[k] = IF k = 0 THEN TCPTimeout ELSE 2 * v[k - 1]
    BY <1>2, <1>3
  <2>3. QED BY <2>1, <2>2
<1>6. F!Patience = [k \in Nat |-> IF k = 0 THEN TCPTimeout ELSE 2 * F!Patience[k - 1]]
  BY <1>5, Zenon DEF F!Patience
<1> DEFINE p == F!Patience
<1> HIDE DEF p
<1>7. p = [k \in Nat |-> IF k = 0 THEN TCPTimeout ELSE 2 * p[k - 1]]
  BY <1>6 DEF p
<1>8. p[0] = TCPTimeout
  BY <1>7
<1>9. ASSUME NEW k \in Nat PROVE p[k + 1] = 2 * p[k]
  <2>1. k + 1 \in Nat /\ k + 1 # 0 /\ (k + 1) - 1 = k
    OBVIOUS
  <2>2. QED BY <1>7, <2>1
<1>10. ASSUME NEW k \in Nat PROVE p[k] \in Nat
  <2> DEFINE odd == {i \in Nat : p[i] \notin Nat}
  <2>1. SUFFICES ASSUME odd # {} PROVE FALSE
    OBVIOUS
  <2>2. PICK i \in odd : \A j \in odd : i <= j
    BY <2>1, LeastExists
  <2>3. i # 0
    BY <1>8, <2>2, Constants
  <2>4. i - 1 \in Nat /\ i - 1 \notin odd
    BY <2>2, <2>3
  <2>5. p[i] = 2 * p[i - 1]
    <3>1. (i - 1) + 1 = i
      BY <2>4
    <3>2. QED BY <1>9, <2>4, <3>1
  <2>6. QED BY <2>2, <2>4, <2>5
<1>11. QED BY <1>8, <1>9, <1>10 DEF p

-----------------------------------------------------------------------------
(* The pre-filter. *)

LEMMA EmptyFacts ==
  ToSet(<<>>) = {} /\ IsInjective(<<>>) /\ \A S : <<>> \in Seq(S)
  BY DEF ToSet, IsInjective

LEMMA StartKeepsFilter ==
  ASSUME FilterInv, F!StartRound
  PROVE  FilterInv'
<1>1. /\ main = "check" /\ main' = "wait" /\ round <= MaxRetries /\ ~cancelled
      /\ timeout' = IF round = 0 THEN timeout ELSE 2 * timeout
      /\ fpc' = [r \in Relays |-> IF r \in pending THEN "sem" ELSE "none"]
      /\ stillPending' = {} /\ newOk' = <<>>
      /\ UNCHANGED <<delay, lost, round, pending, successful, filtered, cancelled>>
  BY DEF F!StartRound, F!AnotherRound
<1>2. FilterType /\ Answers /\ Times /\ Complete
  BY DEF FilterInv
<1>3. \A r \in Relays : fpc'[r] # "probe" /\ fpc'[r] # "done" /\ (fpc'[r] # "none" <=> r \in pending)
  BY <1>1
<1>4. FilterType'
  <2>1. (Cardinality(Connecting) <= TCPConcurrency)'
    <3>1. Connecting' = {}
      BY <1>3 DEF Connecting
    <3>2. QED BY <3>1, FS_EmptySet, Constants
  <2>2. fpc' \in [Relays -> {"none", "sem", "probe", "done"}]
    BY <1>1
  <2>3. QED BY <1>1, <1>2, <2>1, <2>2, EmptyFacts DEF FilterType
<1>5. Answers'
  BY <1>1, <1>2, <1>3, EmptyFacts DEF Answers
<1>6. Times'
  <2>1. LastRound' = round /\ LastRound = IF round = 0 THEN 0 ELSE round - 1
    BY <1>1 DEF LastRound
  <2>2. timeout = F!Patience[LastRound] /\ timeout \in Nat /\ round \in Nat
    BY <1>2 DEF Times, FilterType
  <2>3. timeout' = F!Patience[round] /\ timeout' \in Nat /\ timeout <= timeout'
    <3>1. CASE round = 0
      BY <1>1, <2>1, <2>2, <3>1
    <3>2. CASE round # 0
      <4>1. round - 1 \in Nat /\ (round - 1) + 1 = round
        BY <2>2, <3>2
      <4>2. F!Patience[round] = 2 * F!Patience[round - 1]
        BY <4>1, PatienceDoubles
      <4>3. QED BY <1>1, <2>1, <2>2, <3>2, <4>2
    <3>3. QED BY <3>1, <3>2
  <2>4. \A r \in ToSet(successful) : delay[r] \in Nat /\ delay[r] <= timeout
    <3>1. ToSet(successful) \subseteq Relays
      BY <1>2, FewElements DEF FilterType
    <3>2. QED BY <1>2, <3>1, Constants DEF Times, FilterType
  <2>5. \A r \in ToSet(successful) : delay[r] <= timeout'
    BY <2>2, <2>3, <2>4
  <2>6. QED BY <1>1, <2>1, <2>3, <2>5, EmptyFacts DEF Times
<1>7. Complete'
  <2>1. pending \subseteq Relays
    BY <1>2 DEF FilterType
  <2>2. QED BY <1>1, <1>2, <1>3, <2>1 DEF Complete
<1>8. QED BY <1>1, <1>4, <1>5, <1>6, <1>7 DEF FilterInv, FastestKept,
            EnoughOrExhausted, F!FastestKept, F!EnoughOrExhausted

LEMMA EndKeepsFilter ==
  ASSUME FilterInv, F!EndRound
  PROVE  FilterInv'
<1>1. /\ main = "wait" /\ main' = "check" /\ \A r \in pending : fpc[r] = "done"
      /\ successful' = successful \o newOk /\ pending' = stillPending
      /\ round' = round + 1 /\ newOk' = <<>>
      /\ UNCHANGED <<delay, lost, timeout, fpc, stillPending, filtered, cancelled>>
  BY DEF F!EndRound
<1>2. FilterType /\ Answers /\ Times /\ Complete
  BY DEF FilterInv
<1>3. /\ round <= MaxRetries /\ ToSet(newOk) \subseteq pending
      /\ pending \cap ToSet(successful) = {} /\ ToSet(newOk) \cap stillPending = {}
      /\ stillPending \subseteq pending /\ pending \subseteq Relays /\ round \in Nat
  BY <1>1, <1>2 DEF Answers, FilterType
<1>4. /\ successful' \in Seq(Relays) /\ ToSet(successful') = ToSet(successful) \cup ToSet(newOk)
      /\ IsInjective(successful')
  BY <1>1, <1>2, <1>3, TwoInARow DEF Answers, FilterType
<1>5. \A r \in Relays : fpc[r] \in {"none", "done"}
  BY <1>1, <1>2 DEF Answers
<1>6. FilterType'
  <2>1. Connecting' = Connecting
    BY <1>1 DEF Connecting
  <2>2. QED BY <1>1, <1>2, <1>3, <1>4, <2>1, Constants, EmptyFacts DEF FilterType
<1>7. Answers'
  <2>1. round' # 0
    BY <1>1, <1>3
  <2>2. QED BY <1>1, <1>3, <1>4, <1>5, <2>1, EmptyFacts DEF Answers
<1>8. Times'
  <2>1. LastRound' = round /\ LastRound = round
    BY <1>1, <1>3 DEF LastRound
  <2>2. QED BY <1>1, <1>2, <1>4, <2>1, EmptyFacts DEF Times
<1>9. Complete'
  BY <1>1, <1>2, <1>3, <1>4 DEF Complete
<1>10. QED BY <1>1, <1>6, <1>7, <1>8, <1>9 DEF FilterInv, FastestKept,
             EnoughOrExhausted, F!FastestKept, F!EnoughOrExhausted

\* A sequence in another order.
LEMMA Reordered ==
  ASSUME NEW S, NEW s \in Seq(S), NEW o \in SetToSeqs(DOMAIN s),
         NEW t, t = [i \in DOMAIN s |-> s[o[i]]]
  PROVE  /\ t \in Seq(S) /\ Len(t) = Len(s) /\ DOMAIN t = 1..Len(s) /\ ToSet(t) = ToSet(s)
         /\ IsInjective(s) => IsInjective(t)
<1> DEFINE n == Len(s)
<1>1. n \in Nat /\ DOMAIN s = 1..n /\ s \in [1..n -> S]
  OBVIOUS
<1> HIDE DEF n
<1>2. IsFiniteSet(1..n) /\ Cardinality(1..n) = n
  BY <1>1, FS_Interval
<1>3. /\ o \in Seq(1..n) /\ Len(o) = n /\ DOMAIN o = 1..n /\ IsInjective(o) /\ ToSet(o) = 1..n
  BY <1>1, <1>2, OrderIsPermutation
<1>4. \A i \in 1..n : o[i] \in 1..n
  BY <1>3
<1>5. t \in [1..n -> S] /\ \A i \in 1..n : t[i] = s[o[i]]
  BY <1>1, <1>4
<1>6. t \in Seq(S) /\ Len(t) = n /\ DOMAIN t = 1..n
  BY <1>1, <1>5
<1>7. ToSet(t) = ToSet(s)
  <2>1. \A j \in 1..n : \E i \in 1..n : o[i] = j
    BY <1>3 DEF ToSet
  <2>2. ToSet(t) = {t[i] : i \in 1..n} /\ ToSet(s) = {s[i] : i \in 1..n}
    BY <1>1, <1>6 DEF ToSet
  <2> DEFINE ofT == {t[i] : i \in 1..n}
             ofS == {s[j] : j \in 1..n}
  <2>3. ASSUME NEW i \in 1..n PROVE t[i] \in ofS
    BY <1>4, <1>5
  <2>4. ASSUME NEW j \in 1..n PROVE s[j] \in ofT
    BY <1>5, <2>1
  <2>5. ofT \subseteq ofS
    BY <2>3
  <2>6. ofS \subseteq ofT
    BY <2>4
  <2> HIDE DEF ofT, ofS
  <2>7. ofT = ofS
    BY <2>5, <2>6
  <2>8. QED BY <2>2, <2>7 DEF ofT, ofS
<1>8. ASSUME IsInjective(s) PROVE IsInjective(t)
  <2>1. ASSUME NEW a \in 1..n, NEW b \in 1..n, t[a] = t[b] PROVE a = b
    <3>1. o[a] = o[b]
      BY <1>1, <1>4, <1>5, <1>8, <2>1 DEF IsInjective
    <3>2. QED BY <1>3, <3>1 DEF IsInjective
  <2>2. QED BY <1>6, <2>1 DEF IsInjective
<1>9. QED BY <1>6, <1>7, <1>8 DEF n

LEMMA WantedType ==
  F!Wanted \in Nat /\ F!Wanted = Min({TCPTopN, Cardinality(Relays)})
<1>1. F!Wanted = Min({TCPTopN, Cardinality(Relays)})
  BY SameOperators DEF F!Wanted
<1>2. Cardinality(Relays) \in Nat
  BY Constants, FS_CardinalityType
<1>3. QED BY <1>1, <1>2, Constants, MinOfTwo

\* The relays kept, of those that answered.
LEMMA KeptFacts ==
  ASSUME successful \in Seq(Relays), IsInjective(successful), NEW kept \in F!Kept(successful)
  PROVE  /\ kept \in Seq(Relays) /\ IsInjective(kept)
         /\ successful = <<>> => ToSet(kept) = Relays
         /\ successful # <<>> =>
              /\ ToSet(kept) \subseteq ToSet(successful)
              /\ Len(kept) = Min({F!Wanted, Len(successful)})
              /\ \A r \in ToSet(kept), q \in ToSet(successful) \ ToSet(kept) : delay[r] <= delay[q]
<1>1. CASE successful = <<>>
  <2>1. kept \in SetToSeqs(Relays)
    BY <1>1, SameOperators DEF F!Kept
  <2>2. QED BY <1>1, <2>1, Constants, OrderIsPermutation
<1>2. CASE successful # <<>>
  <2>1. PICK t \in F!ByDelay(successful) : kept = SubSeq(t, 1, F!Min({F!Wanted, Len(t)}))
    BY <1>2 DEF F!Kept
  <2>2. PICK o \in SetToSeqs(DOMAIN successful) :
          t = [i \in DOMAIN successful |-> successful[o[i]]]
    BY <2>1, SameOperators DEF F!ByDelay
  <2>3. \A i, j \in DOMAIN t : i < j => delay[t[i]] <= delay[t[j]]
    BY <2>1 DEF F!ByDelay
  <2>4. /\ t \in Seq(Relays) /\ Len(t) = Len(successful) /\ DOMAIN t = 1..Len(t)
        /\ ToSet(t) = ToSet(successful) /\ IsInjective(t)
    BY <2>2, Reordered
  <2> DEFINE n == F!Min({F!Wanted, Len(t)})
  <2>5. Len(t) \in Nat /\ n = Min({F!Wanted, Len(successful)})
    BY <2>4, SameOperators
  <2> HIDE DEF n
  <2>6. n \in Nat /\ n <= Len(t)
    <3>1. n = IF F!Wanted <= Len(t) THEN F!Wanted ELSE Len(t)
      BY <2>4, <2>5, WantedType, MinOfTwo
    <3>2. QED BY <2>5, <3>1, WantedType
  <2>7. n \in 0..Len(t)
    BY <2>5, <2>6
  <2>8. /\ SubSeq(t, 1, n) \in Seq(Relays) /\ Len(SubSeq(t, 1, n)) = n
        /\ IsInjective(SubSeq(t, 1, n)) /\ ToSet(SubSeq(t, 1, n)) = {t[i] : i \in 1..n}
        /\ ToSet(SubSeq(t, 1, n)) \subseteq ToSet(t)
    BY <2>4, <2>7, FirstOf, FirstOfInjective
  <2>9. kept = SubSeq(t, 1, n)
    BY <2>1 DEF n
  <2>10. ASSUME NEW r \in ToSet(kept), NEW q \in ToSet(successful) \ ToSet(kept)
         PROVE  delay[r] <= delay[q]
    <3>1. PICK i \in 1..n : r = t[i]
      BY <2>8, <2>9
    <3>2. PICK j \in 1..Len(t) : q = t[j]
      BY <2>4, <2>10 DEF ToSet
    <3>3. j \notin 1..n
      BY <2>8, <2>9, <2>10, <3>2
    <3>4. i < j /\ i \in DOMAIN t /\ j \in DOMAIN t
      BY <2>4, <2>5, <2>6, <3>1, <3>2, <3>3
    <3>5. QED BY <2>3, <3>1, <3>2, <3>4
  <2>11. QED BY <1>2, <2>4, <2>5, <2>8, <2>9, <2>10
<1>3. QED BY <1>1, <1>2

LEMMA ReturnKeepsFilter ==
  ASSUME FilterInv, F!Return
  PROVE  FilterInv'
<1>1. /\ main = "check" /\ main' = "done" /\ ~F!AnotherRound /\ filtered' \in F!Kept(successful)
      /\ UNCHANGED <<delay, lost, round, timeout, fpc, stillPending, newOk, pending, successful,
                    cancelled>>
  BY DEF F!Return, F!goroutines
<1>2. FilterType /\ Answers /\ Times /\ Complete
  BY DEF FilterInv
<1>3. successful \in Seq(Relays) /\ IsInjective(successful)
  BY <1>2 DEF FilterType, Answers
<1>4. /\ filtered' \in Seq(Relays) /\ IsInjective(filtered')
      /\ successful = <<>> => ToSet(filtered') = Relays
      /\ successful # <<>> =>
           /\ ToSet(filtered') \subseteq ToSet(successful)
           /\ Len(filtered') = Min({F!Wanted, Len(successful)})
           /\ \A r \in ToSet(filtered'), q \in ToSet(successful) \ ToSet(filtered') :
                delay[r] <= delay[q]
  BY <1>1, <1>3, KeptFacts
<1>5. FilterType' /\ Answers' /\ Times' /\ Complete'
  <2>1. Connecting' = Connecting /\ LastRound' = LastRound
    BY <1>1 DEF Connecting, LastRound
  <2>2. FilterType'
    BY <1>1, <1>2, <1>4, <2>1 DEF FilterType
  <2>3. Answers'
    BY <1>1, <1>2 DEF Answers
  <2>4. Times'
    BY <1>1, <1>2, <2>1 DEF Times
  <2>5. Complete'
    BY <1>1, <1>2 DEF Complete
  <2>6. QED BY <2>2, <2>3, <2>4, <2>5
<1>6. FastestKept'
  <2>1. ASSUME successful # <<>>, lost = {}, ~cancelled,
               NEW r \in ToSet(filtered'), NEW q \in Relays \ ToSet(filtered')
        PROVE  delay[r] <= delay[q]
    <3>1. r \in ToSet(successful) /\ r \in Relays
      BY <1>3, <1>4, <2>1, FewElements
    <3>2. CASE q \in ToSet(successful)
      BY <1>4, <2>1, <3>2
    <3>3. CASE q \notin ToSet(successful)
      <4>1. round > 0
        BY <1>1, <1>2, <2>1 DEF Answers, FilterType
      <4>2. q \in pending
        BY <1>2, <2>1, <3>3 DEF Complete
      <4>3. delay[q] > timeout /\ delay[r] <= timeout
        BY <1>1, <1>2, <2>1, <3>1, <4>1, <4>2 DEF Complete, Times
      <4>4. delay[q] \in Nat /\ delay[r] \in Nat /\ timeout \in Nat
        BY <1>2, <2>1, <3>1, Constants DEF FilterType, Times
      <4>5. QED BY <4>3, <4>4
    <3>4. QED BY <3>2, <3>3
  <2>2. F!Wanted' = F!Wanted
    BY WantedType
  <2>3. QED BY <1>1, <1>4, <2>1, <2>2, SameOperators DEF FastestKept, F!FastestKept
<1>7. EnoughOrExhausted'
  <2>1. SUFFICES ASSUME ~cancelled
                 PROVE  \/ Len(successful) >= Min({MinRelays, F!Wanted})
                        \/ pending = {} /\ ToSet(successful) = Relays
                        \/ /\ timeout = F!Patience[MaxRetries]
                           /\ \A r \in Relays \ ToSet(successful) : r \in lost \/ delay[r] > timeout
    BY <1>1, SameOperators DEF EnoughOrExhausted, F!EnoughOrExhausted
  <2>2. \/ round > MaxRetries
        \/ round > 0 /\ (Len(successful) >= MinRelays \/ Len(successful) >= F!Wanted)
        \/ round > 0 /\ pending = {}
    BY <1>1, <1>2, <1>3, <2>1, WantedType, Constants DEF F!AnotherRound, FilterType
  <2>3. CASE round > 0 /\ (Len(successful) >= MinRelays \/ Len(successful) >= F!Wanted)
    <3>1. Min({MinRelays, F!Wanted}) = IF MinRelays <= F!Wanted THEN MinRelays ELSE F!Wanted
      BY Constants, WantedType, MinOfTwo
    <3>2. Len(successful) \in Nat
      BY <1>3
    <3>3. QED BY <2>3, <3>1, <3>2, Constants, WantedType
  <2>4. CASE pending = {}
    BY <1>2, <2>1, <2>4 DEF Complete
  <2>5. CASE round > MaxRetries
    <3>1. round = MaxRetries + 1 /\ round > 0 /\ round - 1 = MaxRetries
      BY <1>2, <2>5, Constants DEF FilterType
    <3>2. timeout = F!Patience[MaxRetries]
      BY <1>1, <1>2, <3>1 DEF Times, LastRound
    <3>3. \A r \in Relays \ ToSet(successful) : r \in lost \/ delay[r] > timeout
      BY <1>1, <1>2, <2>1, <3>1 DEF Complete
    <3>4. QED BY <3>2, <3>3
  <2>6. QED BY <2>2, <2>3, <2>4, <2>5
<1>8. QED BY <1>5, <1>6, <1>7 DEF FilterInv

\* A relay that is asked: it has not answered yet, nor failed.
LEMMA Asked ==
  ASSUME FilterInv, NEW r \in Relays, fpc[r] \in {"sem", "probe"}
  PROVE  /\ main = "wait" /\ r \in pending
         /\ r \notin ToSet(newOk) /\ r \notin stillPending
  BY DEF FilterInv, FilterType, Answers

LEMMA AcquireKeepsFilter ==
  ASSUME FilterInv, NEW r \in Relays, F!AcquireSem(r)
  PROVE  FilterInv'
<1>1. /\ fpc[r] = "sem"
      /\ UNCHANGED <<delay, lost, round, timeout, stillPending, newOk, pending, successful, main,
                    filtered, cancelled>>
  BY DEF F!AcquireSem
<1>2. PICK place \in {"probe", "done"} :
        /\ fpc' = [fpc EXCEPT ![r] = place]
        /\ IF place = "probe" THEN Cardinality(Connecting) < TCPConcurrency ELSE cancelled
  <2>1. CASE Cardinality(Connecting) < TCPConcurrency /\ fpc' = [fpc EXCEPT ![r] = "probe"]
    BY <2>1
  <2>2. CASE cancelled /\ fpc' = [fpc EXCEPT ![r] = "done"]
    BY <2>2
  <2>3. QED BY <2>1, <2>2, SameOperators DEF F!AcquireSem, F!Goto, Connecting
<1>3. FilterType /\ Answers /\ Times /\ Complete
  BY DEF FilterInv
<1>4. main = "wait" /\ r \in pending /\ r \notin ToSet(newOk) /\ r \notin stillPending
  BY <1>1, Asked
<1>5. fpc \in [Relays -> {"none", "sem", "probe", "done"}]
  BY <1>3 DEF FilterType
<1>6. FilterType'
  <2>1. Connecting' = IF place = "probe" THEN Connecting \cup {r} ELSE Connecting
    BY <1>1, <1>2, <1>5 DEF Connecting
  <2>2. IsFiniteSet(Connecting) /\ Cardinality(Connecting) \in Nat /\ r \notin Connecting
    BY <1>1, Constants, FS_Subset, FS_CardinalityType DEF Connecting
  <2>3. Cardinality(Connecting \cup {r}) = Cardinality(Connecting) + 1
    BY <2>2, FS_AddElement
  <2>4. (Cardinality(Connecting) <= TCPConcurrency)'
    BY <1>2, <1>3, <2>1, <2>2, <2>3, Constants DEF FilterType
  <2>5. fpc' \in [Relays -> {"none", "sem", "probe", "done"}]
    BY <1>2, <1>5
  <2>6. QED BY <1>1, <1>3, <2>4, <2>5 DEF FilterType
<1>7. Answers'
  <2>1. \A q \in ToSet(newOk) \cup stillPending : fpc'[q] = "done"
    BY <1>2, <1>3, <1>4, <1>5 DEF Answers, FilterType
  <2>2. \A q \in Relays : fpc'[q] # "none" <=> q \in pending
    BY <1>2, <1>3, <1>4, <1>5 DEF Answers
  <2>3. QED BY <1>1, <1>3, <1>4, <2>1, <2>2 DEF Answers
<1>8. Times'
  BY <1>1, <1>3 DEF Times, LastRound
<1>9. Complete'
  <2>1. SUFFICES ASSUME ~cancelled PROVE Complete'
    BY <1>1 DEF Complete
  <2>2. fpc'[r] = "probe" /\ \A q \in Relays \ {r} : fpc'[q] = fpc[q]
    BY <1>2, <1>5, <2>1
  <2>3. \A q \in pending : fpc'[q] = "done" => q \in ToSet(newOk) \cup stillPending
    BY <1>3, <1>4, <2>1, <2>2 DEF Complete, FilterType
  <2>4. QED BY <1>1, <1>3, <1>4, <2>3 DEF Complete
<1>10. QED BY <1>1, <1>4, <1>6, <1>7, <1>8, <1>9 DEF FilterInv, FastestKept,
             EnoughOrExhausted, F!FastestKept, F!EnoughOrExhausted

\* The end of a connection attempt, for the places and the tokens.
LEMMA AttemptEnds ==
  ASSUME FilterInv, NEW r \in Relays, fpc[r] = "probe", fpc' = [fpc EXCEPT ![r] = "done"]
  PROVE  /\ fpc' \in [Relays -> {"none", "sem", "probe", "done"}]
         /\ fpc'[r] = "done" /\ \A q \in Relays \ {r} : fpc'[q] = fpc[q]
         /\ (Cardinality(Connecting) <= TCPConcurrency)'
<1>1. FilterType
  BY DEF FilterInv
<1>2. /\ fpc' \in [Relays -> {"none", "sem", "probe", "done"}]
      /\ fpc'[r] = "done" /\ \A q \in Relays \ {r} : fpc'[q] = fpc[q]
  BY <1>1 DEF FilterType
<1>3. Connecting' = Connecting \ {r}
  BY <1>2 DEF Connecting
<1>4. IsFiniteSet(Connecting) /\ Cardinality(Connecting) \in Nat
  BY Constants, FS_Subset, FS_CardinalityType DEF Connecting
<1>5. Cardinality(Connecting \ {r}) <= Cardinality(Connecting) /\ Cardinality(Connecting \ {r}) \in Nat
  BY <1>4, FS_Subset, FS_CardinalityType
<1>6. QED BY <1>1, <1>2, <1>3, <1>4, <1>5, Constants DEF FilterType

LEMMA ProbeOkKeepsFilter ==
  ASSUME FilterInv, NEW r \in Relays, F!ProbeOk(r)
  PROVE  FilterInv'
<1>1. /\ fpc[r] = "probe" /\ ~cancelled /\ delay[r] <= timeout
      /\ newOk' = Append(newOk, r) /\ fpc' = [fpc EXCEPT ![r] = "done"]
      /\ UNCHANGED <<delay, lost, round, timeout, stillPending, pending, successful, main,
                    filtered, cancelled>>
  BY DEF F!ProbeOk, F!Goto
<1>2. FilterType /\ Answers /\ Times /\ Complete
  BY DEF FilterInv
<1>3. main = "wait" /\ r \in pending /\ r \notin ToSet(newOk) /\ r \notin stillPending
  BY <1>1, Asked
<1>4. /\ fpc' \in [Relays -> {"none", "sem", "probe", "done"}]
      /\ fpc'[r] = "done" /\ \A q \in Relays \ {r} : fpc'[q] = fpc[q]
      /\ (Cardinality(Connecting) <= TCPConcurrency)'
  BY <1>1, AttemptEnds
<1>5. /\ newOk' \in Seq(Relays) /\ ToSet(newOk') = ToSet(newOk) \cup {r} /\ IsInjective(newOk')
  BY <1>1, <1>2, <1>3, OneMore DEF FilterType, Answers
<1>6. FilterType'
  BY <1>1, <1>2, <1>4, <1>5 DEF FilterType
<1>7. Answers'
  <2>1. \A q \in ToSet(newOk') \cup stillPending : fpc'[q] = "done"
    <3>1. ToSet(newOk) \cup stillPending \subseteq Relays
      BY <1>2, <1>3 DEF Answers, FilterType
    <3>2. QED BY <1>2, <1>3, <1>4, <1>5, <3>1 DEF Answers
  <2>2. \A q \in Relays : fpc'[q] # "none" <=> q \in pending
    BY <1>2, <1>3, <1>4 DEF Answers
  <2>3. QED BY <1>1, <1>2, <1>3, <1>5, <2>1, <2>2 DEF Answers
<1>8. Times'
  BY <1>1, <1>2, <1>5 DEF Times, LastRound
<1>9. Complete'
  <2>1. \A q \in pending : fpc'[q] = "done" => q \in ToSet(newOk') \cup stillPending
    BY <1>1, <1>2, <1>3, <1>4, <1>5 DEF Complete, FilterType
  <2>2. QED BY <1>1, <1>2, <1>3, <2>1 DEF Complete
<1>10. QED BY <1>1, <1>3, <1>6, <1>7, <1>8, <1>9 DEF FilterInv, FastestKept,
             EnoughOrExhausted, F!FastestKept, F!EnoughOrExhausted

LEMMA ProbeFailKeepsFilter ==
  ASSUME FilterInv, NEW r \in Relays, F!ProbeFail(r)
  PROVE  FilterInv'
<1>1. /\ fpc[r] = "probe" /\ stillPending' = stillPending \cup {r}
      /\ lost' = IF cancelled \/ delay[r] > timeout THEN lost ELSE lost \cup {r}
      /\ fpc' = [fpc EXCEPT ![r] = "done"]
      /\ UNCHANGED <<delay, round, timeout, newOk, pending, successful, main, filtered, cancelled>>
  BY DEF F!ProbeFail, F!Goto
<1>2. FilterType /\ Answers /\ Times /\ Complete
  BY DEF FilterInv
<1>3. main = "wait" /\ r \in pending /\ r \notin ToSet(newOk) /\ r \notin stillPending
  BY <1>1, Asked
<1>4. /\ fpc' \in [Relays -> {"none", "sem", "probe", "done"}]
      /\ fpc'[r] = "done" /\ \A q \in Relays \ {r} : fpc'[q] = fpc[q]
      /\ (Cardinality(Connecting) <= TCPConcurrency)'
  BY <1>1, AttemptEnds
<1>5. FilterType'
  BY <1>1, <1>2, <1>3, <1>4 DEF FilterType
<1>6. Answers'
  <2>1. \A q \in ToSet(newOk) \cup stillPending' : fpc'[q] = "done"
    <3>1. ToSet(newOk) \cup stillPending \subseteq Relays
      BY <1>2, <1>3 DEF Answers, FilterType
    <3>2. QED BY <1>1, <1>2, <1>3, <1>4, <3>1 DEF Answers
  <2>2. \A q \in Relays : fpc'[q] # "none" <=> q \in pending
    BY <1>2, <1>3, <1>4 DEF Answers
  <2>3. QED BY <1>1, <1>2, <1>3, <2>1, <2>2 DEF Answers
<1>7. Times'
  BY <1>1, <1>2 DEF Times, LastRound
<1>8. Complete'
  <2>1. SUFFICES ASSUME ~cancelled PROVE Complete'
    BY <1>1 DEF Complete
  <2>2. \A q \in pending : fpc'[q] = "done" => q \in ToSet(newOk) \cup stillPending'
    BY <1>1, <1>2, <1>3, <1>4, <2>1 DEF Complete, FilterType
  <2>3. \A q \in stillPending' : q \in lost' \/ delay[q] > timeout
    BY <1>1, <1>2, <1>3, <2>1 DEF Complete
  <2>4. QED BY <1>1, <1>2, <1>3, <2>1, <2>2, <2>3 DEF Complete
<1>9. QED BY <1>1, <1>3, <1>5, <1>6, <1>7, <1>8 DEF FilterInv, FastestKept,
            EnoughOrExhausted, F!FastestKept, F!EnoughOrExhausted

\* Nothing of the pre-filter changes, but that the caller may cancel.
LEMMA FilterStays ==
  ASSUME FilterInv, UNCHANGED filter, cancelled' \in {cancelled, TRUE}
  PROVE  FilterInv'
<1>1. UNCHANGED <<delay, round, timeout, fpc, pending, stillPending, newOk, successful, main,
                  filtered, lost>>
  BY DEF filter
<1>2. Connecting' = Connecting /\ LastRound' = LastRound
  BY <1>1 DEF Connecting, LastRound
<1>3. FilterType' /\ Answers' /\ Times'
  BY <1>1, <1>2 DEF FilterInv, FilterType, Answers, Times
<1>4. Complete'
  BY <1>1 DEF FilterInv, Complete
<1>5. FastestKept'
  BY <1>1, WantedType DEF FilterInv, FastestKept, F!FastestKept
<1>6. EnoughOrExhausted'
  BY <1>1, WantedType DEF FilterInv, EnoughOrExhausted, F!EnoughOrExhausted
<1>7. QED BY <1>3, <1>4, <1>5, <1>6 DEF FilterInv

\* A pre-filter that has not begun.
LEMMA FreshFilter ==
  ASSUME delay \in [Relays -> Delays], lost = {}, round = 0, timeout = TCPTimeout,
         fpc = [r \in Relays |-> "none"], pending = Relays, stillPending = {}, newOk = <<>>,
         successful = <<>>, filtered = <<>>, main = "check", cancelled \in BOOLEAN
  PROVE  FilterInv
<1>1. FilterType
  <2>1. Connecting = {}
    BY DEF Connecting
  <2>2. Cardinality(Connecting) <= TCPConcurrency
    BY <2>1, FS_EmptySet, Constants
  <2>3. QED BY <2>2, EmptyFacts, Constants DEF FilterType
<1>2. Answers
  BY EmptyFacts DEF Answers
<1>3. Times
  <2>1. LastRound = 0
    BY DEF LastRound
  <2>2. QED BY <2>1, PatienceDoubles, EmptyFacts, Constants DEF Times
<1>4. Complete
  BY EmptyFacts DEF Complete
<1>5. FastestKept /\ EnoughOrExhausted
  BY DEF FastestKept, EnoughOrExhausted, F!FastestKept, F!EnoughOrExhausted
<1>6. QED BY <1>1, <1>2, <1>3, <1>4, <1>5 DEF FilterInv

-----------------------------------------------------------------------------
(* The whole. *)

LEMMA SelectionInit == Init => SelectionInv
<1> SUFFICES ASSUME Init PROVE SelectionInv
  OBVIOUS
<1>1. /\ phase = "discover" /\ chosen = NoRelay /\ candidates = {}
      /\ F!Init /\ R!Idle
  BY DEF Init
<1>2. /\ pc = [r \in Relays |-> "start"] /\ probes = [r \in Relays |-> <<>>]
      /\ sem = 0 /\ tested = 0 /\ count = [r \in Relays |-> 0] /\ available = {}
      /\ stopped = FALSE /\ elapsed = FALSE /\ cancelled = FALSE
      /\ outcome = "none" /\ returned = <<>>
  BY <1>1 DEF R!Idle
<1>3. RankType
  <2>1. Holding = {} /\ Tested = {}
    BY <1>2 DEF Holding, Tested
  <2>2. sem = Cardinality(Holding) /\ tested = Cardinality(Tested)
    BY <1>2, <2>1, FS_EmptySet
  <2>3. probes \in [Relays -> Seq(Latencies \cup {0})]
    BY <1>2, EmptyFacts
  <2>4. \A r \in Relays : Len(probes[r]) <= Probes
    BY <1>2, Constants
  <2>5. count \in [Relays -> 0..tested]
    <3>1. 0 \in 0..tested
      BY <1>2
    <3>2. QED BY <1>2, <3>1
  <2>6. pc \in [Relays -> Places]
    BY <1>2 DEF Places
  <2>7. sem <= MaxConcurrent /\ returned \in Seq(Relays)
    BY <1>2, EmptyFacts, Constants
  <2>8. QED BY <1>1, <1>2, <2>2, <2>3, <2>4, <2>5, <2>6, <2>7 DEF RankType
<1>4. ASSUME NEW r \in Relays PROVE Tests(r)
  BY <1>1, <1>2 DEF Tests, R!Succeeded
<1>5. StopInv /\ OutcomeInv /\ PhaseInv /\ SelectionIsHonest
  BY <1>1, <1>2 DEF StopInv, OutcomeInv, PhaseInv, SelectionIsHonest
<1>6. FilterInv
  BY <1>1, FreshFilter DEF F!Init
<1>7. QED BY <1>3, <1>4, <1>5, <1>6 DEF SelectionInv, RankInv

LEMMA DiscoverStep ==
  ASSUME SelectionInv, Discover
  PROVE  SelectionInv'
<1>1. /\ phase = "discover" /\ phase' \in {"filter", "done"}
      /\ UNCHANGED <<ignore, chosen, cancelled, filter, ranking>>
  BY DEF Discover
<1>2. RankInv' /\ OutcomeInv' /\ FilterInv'
  BY <1>1, RankingStays, FilterStays DEF SelectionInv
<1>3. UNCHANGED <<candidates, outcome, stopped>>
  BY <1>1 DEF ranking
<1>4. candidates = {} /\ outcome = "none" /\ ~stopped /\ chosen = NoRelay
  BY <1>1 DEF SelectionInv, PhaseInv
<1>5. PhaseInv'
  BY <1>1, <1>3, <1>4 DEF PhaseInv
<1>6. SelectionIsHonest'
  BY <1>1, <1>3, <1>4 DEF SelectionIsHonest
<1>7. QED BY <1>2, <1>5, <1>6 DEF SelectionInv

\* Before the end nothing is claimed of the choice.
LEMMA PhaseStays ==
  ASSUME SelectionInv, phase # "done", UNCHANGED <<phase, chosen>>,
         UNCHANGED <<candidates, outcome, stopped>> \/ phase = "rank"
  PROVE  PhaseInv' /\ SelectionIsHonest'
  BY DEF SelectionInv, PhaseInv, SelectionIsHonest

LEMMA PreFilterStep ==
  ASSUME SelectionInv, PreFilter
  PROVE  SelectionInv'
<1>1. phase = "filter" /\ UNCHANGED <<phase, ignore, chosen, ranking>>
  BY DEF PreFilter
<1>2. FilterInv' /\ cancelled' = cancelled
  <2>1. CASE F!StartRound
    BY <2>1, StartKeepsFilter DEF SelectionInv, F!StartRound
  <2>2. CASE F!EndRound
    BY <2>2, EndKeepsFilter DEF SelectionInv, F!EndRound
  <2>3. CASE F!Return
    BY <2>3, ReturnKeepsFilter DEF SelectionInv, F!Return
  <2>4. ASSUME NEW r \in Relays, F!AcquireSem(r) PROVE FilterInv' /\ cancelled' = cancelled
    BY <2>4, AcquireKeepsFilter DEF SelectionInv, F!AcquireSem
  <2>5. ASSUME NEW r \in Relays, F!ProbeOk(r) PROVE FilterInv' /\ cancelled' = cancelled
    BY <2>5, ProbeOkKeepsFilter DEF SelectionInv, F!ProbeOk
  <2>6. ASSUME NEW r \in Relays, F!ProbeFail(r) PROVE FilterInv' /\ cancelled' = cancelled
    BY <2>6, ProbeFailKeepsFilter DEF SelectionInv, F!ProbeFail
  <2>7. QED BY <2>1, <2>2, <2>3, <2>4, <2>5, <2>6 DEF PreFilter, F!Caller, F!Goroutine
<1>3. RankInv' /\ OutcomeInv'
  BY <1>1, <1>2, RankingStays DEF SelectionInv
<1>4. PhaseInv' /\ SelectionIsHonest'
  BY <1>1, PhaseStays DEF ranking
<1>5. QED BY <1>2, <1>3, <1>4 DEF SelectionInv

LEMMA BeginStep ==
  ASSUME SelectionInv, BeginTests
  PROVE  SelectionInv'
<1>1. /\ phase = "filter" /\ phase' = "rank" /\ candidates' = ToSet(filtered) /\ ForgetFilter
      /\ UNCHANGED <<ignore, chosen, cancelled, pc, probes, sem, tested, count, available, stopped,
                    elapsed, outcome, returned>>
  BY DEF BeginTests
<1>2. /\ RankInv /\ FilterType
      /\ candidates = {} /\ outcome = "none" /\ ~stopped /\ chosen = NoRelay
  BY <1>1 DEF SelectionInv, PhaseInv, FilterInv
<1>3. candidates' \subseteq Relays
  BY <1>1, <1>2, FewElements DEF FilterType
<1>4. RankType'
  <2>1. Holding' = Holding /\ Tested' = Tested
    BY <1>1 DEF Holding, Tested
  <2>2. QED BY <1>1, <1>2, <1>3, <2>1 DEF RankInv, RankType
<1>5. ASSUME NEW r \in Relays PROVE Tests(r)'
  <2>1. Tests(r) /\ (R!Succeeded(r)' <=> R!Succeeded(r))
    BY <1>1, <1>2 DEF RankInv, R!Succeeded
  <2>2. QED BY <1>1, <1>2, <2>1 DEF Tests
<1>6. StopInv' /\ OutcomeInv' /\ PhaseInv' /\ SelectionIsHonest'
  BY <1>1, <1>2 DEF StopInv, OutcomeInv, PhaseInv, SelectionIsHonest
<1>7. FilterInv'
  <2>1. PICK r \in Relays : TRUE
    BY Constants
  <2>2. delay[r] \in Delays
    BY <1>2 DEF FilterType
  <2>3. (CHOOSE d \in Delays : TRUE) \in Delays
    BY <2>2
  <2>4. /\ delay' = [q \in Relays |-> CHOOSE d \in Delays : TRUE] /\ lost' = {}
        /\ round' = 0 /\ timeout' = TCPTimeout /\ fpc' = [q \in Relays |-> "none"]
        /\ pending' = Relays /\ stillPending' = {} /\ newOk' = <<>>
        /\ successful' = <<>> /\ filtered' = <<>> /\ main' = "check"
        /\ cancelled' \in BOOLEAN
    BY <1>1, <1>2 DEF ForgetFilter, FilterType
  <2>5. delay' \in [Relays -> Delays]
    BY <2>3, <2>4
  <2>6. FilterType'
    <3>1. Connecting' = {}
      BY <2>4 DEF Connecting
    <3>2. (Cardinality(Connecting) <= TCPConcurrency)'
      BY <3>1, FS_EmptySet, Constants
    <3>3. QED BY <2>4, <2>5, <3>2, EmptyFacts, Constants DEF FilterType
  <2>7. Answers'
    BY <2>4, EmptyFacts DEF Answers
  <2>8. Times'
    <3>1. LastRound' = 0
      BY <2>4 DEF LastRound
    <3>2. QED BY <2>4, <3>1, PatienceDoubles, EmptyFacts, Constants DEF Times
  <2>9. Complete'
    BY <2>4, EmptyFacts DEF Complete
  <2>10. FastestKept' /\ EnoughOrExhausted'
    BY <2>4 DEF FastestKept, EnoughOrExhausted, F!FastestKept, F!EnoughOrExhausted
  <2>11. QED BY <2>6, <2>7, <2>8, <2>9, <2>10 DEF FilterInv
<1>8. QED BY <1>4, <1>5, <1>6, <1>7 DEF SelectionInv, RankInv

LEMMA SelectionStep ==
  ASSUME SelectionInv, [Next]_vars
  PROVE  SelectionInv'
<1>1. CASE Discover
  BY <1>1, DiscoverStep
<1>2. CASE PreFilter
  BY <1>2, PreFilterStep
<1>3. CASE BeginTests
  BY <1>3, BeginStep
<1>4. CASE Rank
  <2>1. phase = "rank" /\ UNCHANGED <<phase, ignore, chosen, filter>>
    BY <1>4 DEF Rank
  <2>2. RankInv' /\ OutcomeInv'
    BY <1>4, RankKeepsRank DEF SelectionInv
  <2>3. cancelled' = cancelled
    BY <1>4 DEF Rank, R!Worker, R!Start, R!AcquireSem, R!SemCancelled, R!CheckStopped, R!Probe,
                R!EndTest, R!Record, R!ReturnCancelled, R!ReturnRelays, R!TimePasses
  <2>4. FilterInv'
    BY <2>1, <2>3, FilterStays DEF SelectionInv
  <2>5. PhaseInv' /\ SelectionIsHonest'
    BY <2>1, PhaseStays
  <2>6. QED BY <2>2, <2>4, <2>5 DEF SelectionInv
<1>5. CASE Select
  <2>1. phase' = "done" /\ UNCHANGED <<cancelled, filter, ranking>>
    BY <1>5 DEF Select
  <2>2. RankInv' /\ OutcomeInv' /\ FilterInv'
    BY <2>1, RankingStays, FilterStays DEF SelectionInv
  <2>3. SelectionIsHonest'
    BY <1>5, SelectIsHonest DEF SelectionInv
  <2>4. PhaseInv'
    BY <2>1 DEF PhaseInv
  <2>5. QED BY <2>2, <2>3, <2>4 DEF SelectionInv
<1>6. CASE Cancel
  <2>1. phase # "done" /\ cancelled' = TRUE /\ UNCHANGED <<phase, ignore, chosen, filter, ranking>>
    BY <1>6 DEF Cancel
  <2>2. RankInv' /\ OutcomeInv' /\ FilterInv'
    BY <2>1, RankingStays, FilterStays DEF SelectionInv
  <2>3. PhaseInv' /\ SelectionIsHonest'
    BY <2>1, PhaseStays DEF ranking
  <2>4. QED BY <2>2, <2>3 DEF SelectionInv
<1>7. CASE UNCHANGED vars
  <2>1. UNCHANGED <<phase, ignore, chosen, cancelled, filter, ranking>>
    BY <1>7 DEF vars
  <2>2. RankInv' /\ OutcomeInv' /\ FilterInv'
    BY <2>1, RankingStays, FilterStays DEF SelectionInv
  <2>3. UNCHANGED <<candidates, probes, stopped, returned, outcome>>
    BY <2>1 DEF ranking
  <2>4. PhaseInv'
    BY <2>1, <2>3 DEF SelectionInv, PhaseInv
  <2>5. /\ \A q : R!Succeeded(q)' <=> R!Succeeded(q)
        /\ \A q : R!Score(q)' = R!Score(q)
        /\ \A q : R!Measured(q)' = R!Measured(q)
    BY <2>3 DEF R!Succeeded, R!Score, R!Jitter, R!Latency, R!Measured
  <2>6. SelectionIsHonest'
    BY <2>1, <2>3, <2>5 DEF SelectionInv, SelectionIsHonest
  <2>7. QED BY <2>2, <2>4, <2>6 DEF SelectionInv
<1>8. QED BY <1>1, <1>2, <1>3, <1>4, <1>5, <1>6, <1>7 DEF Next

LEMMA SelectionAlways == Spec => []SelectionInv
  BY SelectionInit, SelectionStep, PTL DEF Spec

-----------------------------------------------------------------------------
(* The theorems. *)

\* The variables of both phases keep their types; no more connection attempts
\* and probes are under way than there are tokens, which are all accounted for,
\* and the timeout is that of a round (discovery.go:544-597, 857-925).
THEOREM TypeCorrect == Spec => [](F!TypeOK /\ R!TypeOK)
<1>1. ASSUME SelectionInv PROVE R!TypeOK
  <2>1. RankType /\ \A r \in Relays : Tests(r)
    BY <1>1 DEF SelectionInv, RankInv
  <2>2. /\ sem = R!Cardinality({r \in Relays : pc[r] \in {"check", "probe", "record"}})
        /\ tested = R!Cardinality({r \in Relays : pc[r] \in {"record", "done"}})
    BY <2>1, SameOperators DEF RankType, Holding, Tested
  <2>3. available \subseteq {r \in Relays : pc[r] = "done"}
    BY <2>1 DEF RankType, Tests
  <2>4. \A r \in Relays : probes[r] \in Seq(Latencies \cup {0}) /\ Len(probes[r]) <= Probes
    BY <2>1 DEF RankType
  <2>5. QED BY <2>1, <2>2, <2>3, <2>4 DEF RankType, Places, R!TypeOK
<1>2. ASSUME SelectionInv PROVE F!TypeOK
  <2>1. FilterType /\ Answers /\ Times /\ Complete
    BY <1>2 DEF SelectionInv, FilterInv
  <2>2. F!Cardinality({r \in Relays : fpc[r] = "probe"}) <= TCPConcurrency
    BY <2>1, SameOperators DEF FilterType, Connecting
  <2>3. timeout \in {F!Patience[k] : k \in 0..MaxRetries}
    <3>1. LastRound \in 0..MaxRetries
      BY <2>1, Constants DEF LastRound, FilterType, Answers
    <3>2. QED BY <2>1, <3>1 DEF Times
  <2>4. F!IsInjective(successful \o newOk)
    <3>1. ToSet(successful) \cap ToSet(newOk) = {}
      BY <2>1, EmptyFacts DEF Answers
    <3>2. QED BY <2>1, <3>1, TwoInARow, SameOperators DEF FilterType, Answers
  <2>5. /\ F!ToSet(newOk) \subseteq pending \/ main # "wait"
        /\ pending \cap F!ToSet(successful) = {}
        /\ cancelled \/ main = "done" \/ pending \cup F!ToSet(successful) = Relays
    BY <2>1, SameOperators DEF Answers, Complete
  <2>6. round \in 0..MaxRetries + 1
    BY <2>1, Constants DEF FilterType
  <2>7. QED BY <2>1, <2>2, <2>3, <2>4, <2>5, <2>6 DEF FilterType, F!TypeOK
<1>3. SelectionInv => F!TypeOK /\ R!TypeOK
  BY <1>1, <1>2
<1>4. QED BY <1>3, SelectionAlways, PTL

\* The relays kept are distinct, answered if any did, and without loss the
\* fastest of all, whichever round each of them answered in
\* (discovery.go:544-613, 819-830).
THEOREM PreFilterKeepsFastest == Spec => []FastestKept
<1>1. SelectionInv => FastestKept
  BY DEF SelectionInv, FilterInv
<1>2. QED BY <1>1, SelectionAlways, PTL

\* The pre-filter gives up on a relay only with enough others, or after every
\* timeout up to the longest (discovery.go:544-597).
THEOREM PreFilterPersists == Spec => []EnoughOrExhausted
<1>1. SelectionInv => EnoughOrExhausted
  BY DEF SelectionInv, FilterInv
<1>2. QED BY <1>1, SelectionAlways, PTL

\* An early stop is never reported as a failure, it has a relay as fast as it
\* wants, and it waited for as many tests as it needs (discovery.go:904-923).
THEOREM EarlyStopIsSound == Spec => []EarlyStopSucceeds
<1>1. ASSUME SelectionInv PROVE EarlyStopSucceeds
  <2>1. StopInv /\ OutcomeInv /\ outcome \in {"none", "relays", "unavailable", "cancelled"}
    BY <1>1 DEF SelectionInv, RankInv, RankType
  <2>2. R!Cardinality({r \in Relays : probes[r] # <<>>}) = Cardinality(Probed)
    BY SameOperators DEF Probed
  <2>3. stopped => outcome \in {"none", "relays"}
    BY <2>1 DEF OutcomeInv
  <2>4. QED BY <2>1, <2>2, <2>3 DEF EarlyStopSucceeds, R!EarlyStopSucceeds, StopInv
<1>2. SelectionInv => EarlyStopSucceeds
  BY <1>1
<1>3. QED BY <1>2, SelectionAlways, PTL

\* The relay selected is the best of those wanted and measured, and none is
\* selected only for a reason (helpers.go:75-117, discovery.go:784-937).
THEOREM SelectionKeepsPromise == Spec => []SelectionIsHonest
<1>1. SelectionInv => SelectionIsHonest
  BY DEF SelectionInv
<1>2. QED BY <1>1, SelectionAlways, PTL
=============================================================================
