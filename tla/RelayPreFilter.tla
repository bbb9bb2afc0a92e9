--------------------------- MODULE RelayPreFilter ---------------------------
(***************************************************************************)
(* The first phase of TestAllAndSort (src/pkg/relay/discovery.go):         *)
(* tcpPreFilter connects to every relay, retries those that did not answer *)
(* with twice the time when too few did, and keeps the fastest.  Within a  *)
(* round there is one goroutine per relay, at most MaxConcurrent of them   *)
(* connecting at a time.                                                   *)
(*                                                                         *)
(* Time is counted in units: a relay answers after its delay, and in a     *)
(* lossy network it may not answer at all.                                 *)
(***************************************************************************)
EXTENDS Naturals, FiniteSets, SequencesExt

CONSTANTS
  Relays,         \* the relays to filter
  Delays,         \* how long a relay may take to answer
  Timeout,        \* TCPPreFilterTimeout: 500 ms in the code
  MaxRetries,     \* AdaptiveMaxRetries: 3
  MinRelays,      \* AdaptiveMinRelays: 10
  TopN,           \* TCPPreFilterTopN: 30 in FastOptions
  MaxConcurrent   \* TCPPreFilterConcurrency: 500

\* Assumed where the module is used, in RelaySelection.
PreFilterAssumption ==
  /\ IsFiniteSet(Relays) /\ Relays # {}
  /\ Delays \subseteq Nat
  /\ {Timeout, TopN, MaxConcurrent} \subseteq Nat \ {0}
  /\ {MaxRetries, MinRelays} \subseteq Nat

VARIABLES
  delay,       \* how long each relay takes to answer
  round,       \* attempt: the rounds begun before this one
  timeout,     \* currentTimeout
  pc,          \* the goroutine of each relay: "none", "sem", "probe", "done"
  pending,     \* the relays this round asks
  stillPending, \* those that did not answer in it
  newOk,       \* those that did, as a sequence
  successful,  \* those that answered in the rounds before
  main,        \* the caller: "check", "wait", "done"
  filtered,    \* the relays kept
  lost,        \* the relays whose answer the network has lost
  cancelled    \* the caller's context is cancelled

goroutines == <<pc, stillPending, newOk>>
vars == <<delay, lost, round, timeout, goroutines, pending, successful, main, filtered, cancelled>>

\* How long a relay is waited for in round k.
Patience[k \in Nat] == IF k = 0 THEN Timeout ELSE 2 * Patience[k - 1]

\* Every variable has its type; a relay is either still asked or has answered,
\* once, unless the context is done; the timeout has doubled in each round.
TypeOK ==
  /\ delay \in [Relays -> Delays] /\ lost \subseteq Relays
  /\ round \in 0..MaxRetries + 1
  /\ timeout \in {Patience[k] : k \in 0..MaxRetries}
  /\ pc \in [Relays -> {"none", "sem", "probe", "done"}]
  /\ Cardinality({r \in Relays : pc[r] = "probe"}) <= MaxConcurrent
  /\ pending \subseteq Relays /\ stillPending \subseteq pending
  /\ {newOk, successful, filtered} \subseteq Seq(Relays)
  /\ IsInjective(successful \o newOk)
  /\ ToSet(newOk) \subseteq pending \/ main # "wait"
  /\ pending \cap ToSet(successful) = {}
  /\ cancelled \/ main = "done" \/ pending \cup ToSet(successful) = Relays
  /\ main \in {"check", "wait", "done"} /\ cancelled \in BOOLEAN

Init ==
  /\ delay \in [Relays -> Delays] /\ lost = {}
  /\ round = 0 /\ timeout = Timeout
  /\ pc = [r \in Relays |-> "none"]
  /\ pending = Relays /\ stillPending = {} /\ newOk = <<>>
  /\ successful = <<>> /\ filtered = <<>>
  /\ main = "check" /\ cancelled = FALSE

-----------------------------------------------------------------------------
(* The rounds. *)

\* What the code calls topN once it is within the list's length.
Wanted == Min({TopN, Cardinality(Relays)})

\* The loop's conditions: rounds are left, and a further one is needed.
AnotherRound ==
  /\ round <= MaxRetries /\ ~cancelled
  /\ round > 0 => /\ Len(successful) < MinRelays /\ Len(successful) < Wanted
                  /\ pending # {}

\* A goroutine for each relay that has not answered, with twice the time of the
\* round before.
StartRound ==
  /\ main = "check" /\ AnotherRound
  /\ timeout' = IF round = 0 THEN timeout ELSE 2 * timeout
  /\ pc' = [r \in Relays |-> IF r \in pending THEN "sem" ELSE "none"]
  /\ stillPending' = {} /\ newOk' = <<>>
  /\ main' = "wait"
  /\ UNCHANGED <<delay, lost, round, pending, successful, filtered, cancelled>>

\* The orders sort.Slice may leave s in: by the time the relays took.
ByDelay(s) ==
  {t \in {[i \in DOMAIN s |-> s[order[i]]] : order \in SetToSeqs(DOMAIN s)} :
     \A i, j \in DOMAIN t : i < j => delay[t[i]] <= delay[t[j]]}

\* What TestAllAndSort goes on with: all of the relays when none has answered,
\* and the fastest otherwise.
Kept(s) ==
  IF s = <<>> THEN SetToSeqs(Relays)
  ELSE {SubSeq(t, 1, Min({Wanted, Len(t)})) : t \in ByDelay(s)}

\* No further round.
Return ==
  /\ main = "check" /\ ~AnotherRound
  /\ filtered' \in Kept(successful)
  /\ main' = "done"
  /\ UNCHANGED <<delay, lost, round, timeout, goroutines, pending, successful, cancelled>>

\* Mutant of EndRound: the relays of the rounds before are forgotten.
EndRoundForgets ==
  /\ main = "wait" /\ \A r \in pending : pc[r] = "done"
  /\ successful' = newOk
  /\ pending' = stillPending
  /\ round' = round + 1
  /\ main' = "check" /\ newOk' = <<>>
  /\ UNCHANGED <<delay, lost, timeout, pc, stillPending, filtered, cancelled>>

\* wg.Wait returns and the round is accounted for.
EndRound ==
  /\ main = "wait" /\ \A r \in pending : pc[r] = "done"
  /\ successful' = successful \o newOk
  /\ pending' = stillPending
  /\ round' = round + 1
  /\ main' = "check" /\ newOk' = <<>>
  /\ UNCHANGED <<delay, lost, timeout, pc, stillPending, filtered, cancelled>>

-----------------------------------------------------------------------------
(* A goroutine. *)

Goto(r, place) == pc' = [pc EXCEPT ![r] = place]

\* It takes a token, unless the context is done: then it leaves, and the relay
\* is neither successful nor pending.
AcquireSem(r) ==
  /\ pc[r] = "sem"
  /\ \/ /\ Cardinality({q \in Relays : pc[q] = "probe"}) < MaxConcurrent
        /\ Goto(r, "probe")
     \/ cancelled /\ Goto(r, "done")
  /\ UNCHANGED <<delay, lost, round, timeout, stillPending, newOk, pending, successful, main, filtered, cancelled>>

\* tcpProbe connects within the time.
ProbeOk(r) ==
  /\ pc[r] = "probe" /\ ~cancelled /\ delay[r] <= timeout
  /\ newOk' = Append(newOk, r)
  /\ Goto(r, "done")
  /\ UNCHANGED <<delay, lost, round, timeout, stillPending, pending, successful, main, filtered, cancelled>>

\* Mutant of ProbeFail: the relay is not asked again.
ProbeFailDrops(r) ==
  /\ pc[r] = "probe"
  /\ lost' = IF cancelled \/ delay[r] > timeout THEN lost ELSE lost \cup {r}
  /\ Goto(r, "done")
  /\ UNCHANGED <<delay, round, timeout, newOk, stillPending, pending, successful, main, filtered, cancelled>>

ProbeFail(r) ==
  /\ pc[r] = "probe"
  /\ lost' = IF cancelled \/ delay[r] > timeout THEN lost ELSE lost \cup {r}
  /\ stillPending' = stillPending \cup {r}
  /\ Goto(r, "done")
  /\ UNCHANGED <<delay, round, timeout, newOk, pending, successful, main, filtered, cancelled>>

Cancel ==
  /\ ~cancelled /\ main # "done"
  /\ cancelled' = TRUE
  /\ UNCHANGED <<delay, lost, round, timeout, goroutines, pending, successful, main, filtered>>

Goroutine(r) == AcquireSem(r) \/ ProbeOk(r) \/ ProbeFail(r)

Caller == StartRound \/ EndRound \/ Return

Next == Cancel \/ Caller \/ \E r \in Relays : Goroutine(r)

Spec == Init /\ [][Next]_vars

-----------------------------------------------------------------------------
(* Properties. *)

\* No relay is kept twice, and none that answered makes room for one that did
\* not.  In a network without loss the relays kept are the fastest of all, however
\* many rounds it took and whichever round each of them answered in
\* (discovery.go:544-613, 819-830).
FastestKept ==
  main = "done" =>
    /\ IsInjective(filtered)
    /\ \/ successful = <<>> /\ ToSet(filtered) = Relays
       \/ /\ ToSet(filtered) \subseteq ToSet(successful)
          /\ Len(filtered) = Min({Wanted, Len(successful)})
    /\ successful # <<>> /\ lost = {} /\ ~cancelled =>
         \A r \in ToSet(filtered), q \in Relays \ ToSet(filtered) : delay[r] <= delay[q]

\* Whatever is lost, the filter gives up on a relay only when enough others
\* have answered or it was asked with every timeout up to the longest: the
\* retries bring in every relay that answers in time (discovery.go:544-597).
EnoughOrExhausted ==
  (main = "done" /\ ~cancelled) =>
    \/ Len(successful) >= Min({MinRelays, Wanted})
    \/ pending = {} /\ ToSet(successful) = Relays
    \/ /\ timeout = Patience[MaxRetries]
       /\ \A r \in Relays \ ToSet(successful) : r \in lost \/ delay[r] > timeout

=============================================================================
