---------------------------- MODULE RelayRanking ----------------------------
(***************************************************************************)
(* The second phase of TestAllAndSort (src/pkg/relay/discovery.go): one    *)
(* goroutine per relay, at most MaxConcurrent of them probing at a time,   *)
(* collects the relays that answer, until all are tested, one is so good   *)
(* that the rest is not waited for, or the caller's context is cancelled.  *)
(*                                                                         *)
(* A probe takes one step and comes to a latency, or 0 when it fails.  The *)
(* callbacks of the options, which may not change the ranking, are left    *)
(* out, and the clock is the flag elapsed.                                 *)
(***************************************************************************)
EXTENDS Naturals, FiniteSets, SequencesExt

CONSTANTS
  Relays,         \* the relays there are
  Latencies,      \* what a probe may measure
  N,              \* how many relays the caller wants
  MaxConcurrent,  \* the capacity of the semaphore: 300 in FastOptions
  Probes,         \* ProbesPerRelay: 1 in FastOptions, 3 in DefaultOptions
  EarlyLatency,   \* EarlyTerminateLatency: 25 ms in FastOptions, 0 for never
  MinTested       \* MinTestedBeforeEarlyStop: 250 in FastOptions

\* Assumed where the module is used, in RelaySelection.
RankingAssumption ==
  /\ IsFiniteSet(Relays)
  /\ Latencies \subseteq Nat \ {0}
  /\ {N, MaxConcurrent, Probes} \subseteq Nat \ {0}
  /\ {EarlyLatency, MinTested} \subseteq Nat

VARIABLES
  candidates, \* the relays to test: what the pre-filter has kept
  pc,         \* where the goroutine of each relay is
  probes,     \* what the probes of each relay came to, 0 for a failure
  sem,        \* how many tokens are in the semaphore
  tested,     \* the atomic count of the relays tested
  count,      \* testedCount: what each goroutine got from it
  available,  \* the relays whose test succeeded
  stopped,    \* the atomic flag of the early stop
  elapsed,    \* MinTestDuration has passed
  cancelled,  \* the caller's context is cancelled
  outcome,    \* "none", "relays", "unavailable" or "cancelled"
  returned    \* the relays returned, best first

workers == <<pc, probes, sem, tested, count, available, stopped>>
caller == <<outcome, returned>>
vars == <<candidates, workers, elapsed, cancelled, caller>>

\* testCtx is done.
TestDone == cancelled \/ stopped

\* Every variable has its type; the semaphore holds a token of each goroutine
\* between its acquisition and its end, and tested counts the tests that ended.
TypeOK ==
  /\ candidates \subseteq Relays
  /\ pc \in [Relays -> {"start", "sem", "check", "probe", "record", "skipped", "done"}]
  /\ \A r \in Relays : probes[r] \in Seq(Latencies \cup {0}) /\ Len(probes[r]) <= Probes
  /\ sem = Cardinality({r \in Relays : pc[r] \in {"check", "probe", "record"}})
  /\ sem <= MaxConcurrent
  /\ tested = Cardinality({r \in Relays : pc[r] \in {"record", "done"}})
  /\ count \in [Relays -> 0..tested]
  /\ available \subseteq {r \in Relays : pc[r] = "done"}
  /\ {stopped, elapsed, cancelled} \subseteq BOOLEAN
  /\ outcome \in {"none", "relays", "unavailable", "cancelled"}
  /\ returned \in Seq(Relays)

\* No test has begun.
Idle ==
  /\ pc = [r \in Relays |-> "start"]
  /\ probes = [r \in Relays |-> <<>>]
  /\ sem = 0 /\ tested = 0
  /\ count = [r \in Relays |-> 0]
  /\ available = {}
  /\ stopped = FALSE /\ elapsed = FALSE /\ cancelled = FALSE
  /\ outcome = "none" /\ returned = <<>>

Init == candidates \in SUBSET Relays \ {{}} /\ Idle

-----------------------------------------------------------------------------
(* What TestLatency makes of the probes. *)

Measured(r) == ToSet(probes[r]) \ {0}

\* The first probe decides; a later one that fails is not counted.
Succeeded(r) == probes[r] # <<>> /\ Head(probes[r]) # 0

Latency(r) == Min(Measured(r))
Jitter(r) == Max(Measured(r)) - Latency(r)

\* Relay.Score: a relay that is always as slow beats one that is sometimes fast.
Score(r) == Latency(r) + 2 * Jitter(r)

\* bestLatency: the best of the relays that are available.
BestLatency(relays) == Min({Latency(r) : r \in relays})

-----------------------------------------------------------------------------
(* A goroutine. *)

Goto(r, place) == pc' = [pc EXCEPT ![r] = place]

\* It looks at the flag and joins the queue for a token.
Start(r) ==
  /\ pc[r] = "start"
  /\ Goto(r, IF stopped THEN "skipped" ELSE "sem")
  /\ UNCHANGED <<candidates, probes, sem, tested, count, available, stopped, elapsed, cancelled, caller>>

AcquireSem(r) ==
  /\ pc[r] = "sem" /\ sem < MaxConcurrent
  /\ sem' = sem + 1 /\ Goto(r, "check")
  /\ UNCHANGED <<candidates, probes, tested, count, available, stopped, elapsed, cancelled, caller>>

\* The select takes either branch when both are ready.
SemCancelled(r) ==
  /\ pc[r] = "sem" /\ TestDone
  /\ Goto(r, "skipped")
  /\ UNCHANGED <<candidates, probes, sem, tested, count, available, stopped, elapsed, cancelled, caller>>

\* It looks at the flag again, and returns the token if it leaves.
CheckStopped(r) ==
  /\ pc[r] = "check"
  /\ Goto(r, IF stopped THEN "skipped" ELSE "probe")
  /\ sem' = IF stopped THEN sem - 1 ELSE sem
  /\ UNCHANGED <<candidates, probes, tested, count, available, stopped, elapsed, cancelled, caller>>

\* The test goes on: the first probe has not failed and one is left.
ProbesLeft(r) ==
  Len(probes[r]) < Probes /\ (probes[r] # <<>> => Succeeded(r))

\* One probe; under a cancelled context it cannot succeed.
Probe(r) ==
  /\ pc[r] = "probe" /\ ProbesLeft(r)
  /\ \E latency \in Latencies \cup {0} :
       /\ TestDone => latency = 0
       /\ probes' = [probes EXCEPT ![r] = Append(@, latency)]
  /\ UNCHANGED <<candidates, pc, sem, tested, count, available, stopped, elapsed, cancelled, caller>>

\* The test ends, early when the context is done, and is counted: its count is
\* taken before the lock.
EndTest(r) ==
  /\ pc[r] = "probe" /\ (~ProbesLeft(r) \/ TestDone)
  /\ tested' = tested + 1
  /\ count' = [count EXCEPT ![r] = tested']
  /\ Goto(r, "record")
  /\ UNCHANGED <<candidates, probes, sem, available, stopped, elapsed, cancelled, caller>>

\* The early stop, judged with what is known under the lock.
StopsEarly(r) ==
  /\ EarlyLatency > 0 /\ count[r] >= MinTested /\ elapsed
  /\ available' # {} /\ BestLatency(available') <= EarlyLatency

\* Mutant of Record: a failed test does not return its token.
RecordFailKeepsToken(r) ==
  /\ pc[r] = "record"
  /\ available' = IF Succeeded(r) THEN available \cup {r} ELSE available
  /\ stopped' = (stopped \/ StopsEarly(r))
  /\ sem' = IF Succeeded(r) THEN sem - 1 ELSE sem
  /\ Goto(r, "done")
  /\ UNCHANGED <<candidates, probes, tested, count, elapsed, cancelled, caller>>

\* Under the lock the relay joins the others and the flag is set, testCtx with
\* it; then the deferred calls return the token.
Record(r) ==
  /\ pc[r] = "record"
  /\ available' = IF Succeeded(r) THEN available \cup {r} ELSE available
  /\ stopped' = (stopped \/ StopsEarly(r))
  /\ sem' = sem - 1 /\ Goto(r, "done")
  /\ UNCHANGED <<candidates, probes, tested, count, elapsed, cancelled, caller>>

-----------------------------------------------------------------------------
(* The caller. *)

\* wg.Wait returns.
AllDone == outcome = "none" /\ \A r \in candidates : pc[r] \in {"skipped", "done"}

\* Mutant of ReturnCancelled: a cancellation wins over an early stop.
ReturnCancelledAnyway ==
  /\ AllDone /\ cancelled
  /\ outcome' = "cancelled"
  /\ UNCHANGED <<candidates, workers, elapsed, cancelled, returned>>

\* A cancellation is an error only without an early stop.
ReturnCancelled ==
  /\ AllDone /\ cancelled /\ ~stopped
  /\ outcome' = "cancelled"
  /\ UNCHANGED <<candidates, workers, elapsed, cancelled, returned>>

\* The orders sort.Slice may leave the relays in.
Rankings(relays) ==
  {s \in SetToSeqs(relays) :
     \A i, j \in DOMAIN s : i < j => Score(s[i]) <= Score(s[j])}

ReturnRelays ==
  /\ AllDone /\ (~cancelled \/ stopped)
  /\ IF available = {}
       THEN outcome' = "unavailable" /\ UNCHANGED returned
       ELSE /\ outcome' = "relays"
            /\ \E s \in Rankings(available) :
                 returned' = SubSeq(s, 1, Min({N, Len(s)}))
  /\ UNCHANGED <<candidates, workers, elapsed, cancelled>>

Cancel ==
  /\ ~cancelled /\ outcome = "none"
  /\ cancelled' = TRUE
  /\ UNCHANGED <<candidates, workers, elapsed, caller>>

TimePasses ==
  /\ ~elapsed /\ outcome = "none"
  /\ elapsed' = TRUE
  /\ UNCHANGED <<candidates, workers, cancelled, caller>>

Worker(r) ==
  \/ Start(r) \/ AcquireSem(r) \/ SemCancelled(r) \/ CheckStopped(r)
  \/ Probe(r) \/ EndTest(r) \/ Record(r)

Next ==
  \/ \E r \in candidates : Worker(r)
  \/ ReturnCancelled \/ ReturnRelays \/ Cancel \/ TimePasses

Spec == Init /\ [][Next]_vars

-----------------------------------------------------------------------------
(* Properties. *)

\* An early stop always gives relays, whatever is cancelled afterwards, and the
\* fast relay it stopped for is among them; without a cancellation, whose victims
\* are counted as tested, as many relays as it needs have really been asked
\* (discovery.go:904-923).
EarlyStopSucceeds ==
  stopped =>
    /\ outcome \in {"none", "relays"}
    /\ cancelled \/ Cardinality({r \in Relays : probes[r] # <<>>}) >= MinTested
    /\ \E r \in available : Latency(r) <= EarlyLatency

=============================================================================
