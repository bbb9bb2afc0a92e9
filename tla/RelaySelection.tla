--------------------------- MODULE RelaySelection ---------------------------
(***************************************************************************)
(* How a server, and DialContext for a client, find a relay                *)
(* (src/helpers.go, discoverRelay): the list of relays is discovered, the  *)
(* pre-filter keeps the fastest to connect to, the ranking tests those,    *)
(* and of the best the first that the caller does not ignore is taken.     *)
(*                                                                         *)
(* This module composes RelayPreFilter and RelayRanking, which run one     *)
(* after the other under one context; RelayDiscovery, of which only the    *)
(* outcome matters here, is one step.  What a function has computed is     *)
(* forgotten when it returns, as its variables go out of scope.            *)
(***************************************************************************)
EXTENDS Naturals, FiniteSets, SequencesExt

CONSTANTS
  Relays,                                      \* the relays of the pool
  NoRelay,
  Delays, TCPTimeout, MaxRetries, MinRelays,   \* of the pre-filter
  TCPTopN, TCPConcurrency,
  Latencies, N, MaxConcurrent, Probes,         \* of the ranking
  EarlyLatency, MinTested

VARIABLES
  phase,      \* "discover", "filter", "rank" or "done"
  ignore,     \* the relays the caller does not want, once that is asked
  chosen,     \* the relay selected, or NoRelay
  cancelled,  \* the caller's context is cancelled
  delay, round, timeout, fpc, pending, stillPending, newOk, successful, main, filtered, lost,
  candidates, pc, probes, sem, tested, count, available, stopped, elapsed, outcome, returned

filter == <<delay, round, timeout, fpc, pending, stillPending, newOk, successful, main, filtered, lost>>
ranking == <<candidates, pc, probes, sem, tested, count, available, stopped, elapsed, outcome, returned>>
vars == <<phase, ignore, chosen, cancelled, filter, ranking>>

F == INSTANCE RelayPreFilter
       WITH pc <- fpc, Timeout <- TCPTimeout, TopN <- TCPTopN, MaxConcurrent <- TCPConcurrency
R == INSTANCE RelayRanking

ASSUME SelectionAssumption ==
  NoRelay \notin Relays /\ F!PreFilterAssumption /\ R!RankingAssumption

Init ==
  /\ phase = "discover" /\ chosen = NoRelay
  /\ ignore = {}
  /\ F!Init
  /\ candidates = {} /\ R!Idle

-----------------------------------------------------------------------------

\* Discover comes to the list, or to an error that is passed on.
Discover ==
  /\ phase = "discover"
  /\ \/ ~cancelled /\ phase' = "filter"
     \/ phase' = "done"
  /\ UNCHANGED <<ignore, chosen, cancelled, filter, ranking>>

PreFilter ==
  /\ phase = "filter"
  /\ F!Caller \/ \E r \in Relays : F!Goroutine(r)
  /\ UNCHANGED <<phase, ignore, chosen, ranking>>

\* The variables of tcpPreFilter are gone.
ForgetFilter ==
  /\ delay' = [r \in Relays |-> CHOOSE d \in Delays : TRUE] /\ lost' = {}
  /\ round' = 0 /\ timeout' = TCPTimeout
  /\ fpc' = [r \in Relays |-> "none"]
  /\ pending' = Relays /\ stillPending' = {} /\ newOk' = <<>>
  /\ successful' = <<>> /\ filtered' = <<>> /\ main' = "check"

\* TestAllAndSort goes on with the relays that the pre-filter has kept.
BeginTests ==
  /\ phase = "filter" /\ main = "done"
  /\ candidates' = ToSet(filtered)
  /\ phase' = "rank"
  /\ ForgetFilter
  /\ UNCHANGED <<ignore, chosen, cancelled, pc, probes, sem, tested, count, available, stopped,
                 elapsed, outcome, returned>>

Rank ==
  /\ phase = "rank"
  /\ \/ \E r \in candidates : R!Worker(r)
     \/ R!ReturnCancelled \/ R!ReturnRelays \/ R!TimePasses
  /\ UNCHANGED <<phase, ignore, chosen, filter>>

\* Mutant of Select: the best relay is taken, ignored or not.
SelectIgnored ==
  /\ phase = "rank" /\ outcome # "none"
  /\ ignore' \in SUBSET Relays
  /\ chosen' = IF outcome = "relays" THEN Head(returned) ELSE NoRelay
  /\ phase' = "done"
  /\ UNCHANGED <<cancelled, filter, ranking>>

\* The first of the relays returned that is not ignored, if there is one.
Select ==
  /\ phase = "rank" /\ outcome # "none"
  /\ ignore' \in SUBSET Relays
  /\ chosen' = LET first == SelectInSeq(returned, LAMBDA r : r \notin ignore')
               IN IF outcome = "relays" /\ first # 0 THEN returned[first] ELSE NoRelay
  /\ phase' = "done"
  /\ UNCHANGED <<cancelled, filter, ranking>>

Cancel ==
  /\ ~cancelled /\ phase # "done" /\ cancelled' = TRUE
  /\ UNCHANGED <<phase, ignore, chosen, filter, ranking>>

Next == Discover \/ PreFilter \/ BeginTests \/ Rank \/ Select \/ Cancel

Spec == Init /\ [][Next]_vars

\* The goroutines run: a connection attempt and a probe end by their timeouts at
\* the latest, and Discover returns (RelayDiscovery!DiscoveryEnds).
FairSpec ==
  /\ Spec
  /\ WF_vars(Discover) /\ WF_vars(BeginTests) /\ WF_vars(Select)
  /\ WF_vars(phase = "filter" /\ F!Caller /\ UNCHANGED <<phase, ignore, chosen, ranking>>)
  /\ WF_vars(phase = "rank" /\ (R!ReturnCancelled \/ R!ReturnRelays)
               /\ UNCHANGED <<phase, ignore, chosen, filter>>)
  /\ \A r \in Relays :
       /\ WF_vars(phase = "filter" /\ F!Goroutine(r) /\ UNCHANGED <<phase, ignore, chosen, ranking>>)
       /\ WF_vars(phase = "rank" /\ r \in candidates /\ R!Worker(r)
                    /\ UNCHANGED <<phase, ignore, chosen, filter>>)

-----------------------------------------------------------------------------
(* Properties: those of the parts, and of the whole. *)

\* See RelayPreFilter.
FastestKept == F!FastestKept
EnoughOrExhausted == F!EnoughOrExhausted

\* See RelayRanking.
EarlyStopSucceeds == R!EarlyStopSucceeds

\* The relay selected is the best of the wanted ones that the tests measured,
\* and its own first probe was answered.  None is selected only if the list
\* could not be had, the caller cancelled, all relays tested failed, or the best
\* N of them, or all that answered, are ignored (helpers.go:75-117,
\* discovery.go:784-937).
SelectionIsHonest ==
  phase = "done" =>
    IF chosen # NoRelay
      THEN /\ chosen \in candidates \ ignore /\ R!Succeeded(chosen)
           /\ \A r \in candidates \ ignore :
                R!Measured(r) # {} => R!Score(chosen) <= R!Score(r)
           /\ stopped \/ \A r \in candidates : probes[r] # <<>>
      ELSE \/ candidates = {} \/ cancelled
           \/ \A r \in candidates : probes[r] = <<0>>
           \/ /\ returned # <<>> /\ ToSet(returned) \subseteq ignore
              /\ \/ Len(returned) = N
                 \/ \A r \in candidates \ ToSet(returned) : ~R!Succeeded(r)

\* The selection ends, whatever its goroutines meet (discovery.go:544-597,
\* 857-937).
SelectionEnds == <>(phase = "done")
=============================================================================
