--------------------------- MODULE RelayDiscovery ---------------------------
(***************************************************************************)
(* Discover (src/pkg/relay/discovery.go): one goroutine per strategy (a    *)
(* way to resolve names) asks the endpoints for the list of relays one     *)
(* after the other, and asks them all again without verifying certificates *)
(* when one failed for want of a certificate authority.  The first list    *)
(* wins the race.                                                          *)
(*                                                                         *)
(* Time is counted in units: a request either comes back at once or hangs  *)
(* until its timeout, which is a share of what the caller's deadline has   *)
(* left.                                                                   *)
(***************************************************************************)
EXTENDS Naturals, FiniteSets

CONSTANTS
  Strategies,  \* the resolver strategies
  Endpoints,   \* the endpoints are 1..Endpoints: 2 in the code
  Deadline,    \* time the caller's context has: 15 s in scanAndConnect
  Cap          \* DefaultDiscoveryRequestTimeout: 10 s

ASSUME DiscoveryAssumption == /\ IsFiniteSet(Strategies)
                              /\ Endpoints \in Nat \ {0}
                              /\ Deadline \in Nat \ {0} /\ Cap \in Nat \ {0}

\* What FailureIsHonest needs: time for all endpoints but one to hang, and then
\* a unit for each: 15 s are more than 10 s and two nanoseconds.
ASSUME TimeAssumption == Deadline >= (Endpoints - 1) * Cap + Endpoints

VARIABLES
  reply,     \* what each strategy would get from each endpoint
  phase,     \* "secure", "insecure", "send" or "done"
  endpoint,  \* the endpoint a strategy is asking
  noCA,      \* one of its requests failed for want of a certificate authority
  success,   \* it got a list
  left,      \* the time its requests have left
  results,   \* the strategies whose result is in the channel
  received,  \* how many results the caller has taken
  outcome,   \* "none", "relays", "failed"
  cancelled  \* the caller's own context is cancelled

\* What a request comes to: a list, a certificate that cannot be verified (the
\* list without verification), an error, or nothing before the timeout.
Replies == {"list", "ca", "error", "hang"}

worker == <<phase, endpoint, noCA, success, left>>
discoveryVars == <<reply, worker, results, received, outcome, cancelled>>

\* The strategies' context is done: the caller was cancelled or has returned.
CtxDone == cancelled \/ outcome # "none"

\* Every variable has its type; each strategy sends one result, the channel has
\* room for all of them, and the time never runs below zero.
DiscoveryTypeOK ==
  /\ reply \in [Strategies -> [1..Endpoints -> Replies]]
  /\ phase \in [Strategies -> {"secure", "insecure", "send", "done"}]
  /\ endpoint \in [Strategies -> 1..Endpoints]
  /\ noCA \in [Strategies -> BOOLEAN] /\ success \in [Strategies -> BOOLEAN]
  /\ left \in [Strategies -> 0..Deadline]
  /\ results \subseteq {s \in Strategies : phase[s] = "done"}
  /\ received + Cardinality(results) = Cardinality({s \in Strategies : phase[s] = "done"})
  /\ outcome \in {"none", "relays", "failed"} /\ cancelled \in BOOLEAN

DiscoveryInit ==
  /\ reply \in [Strategies -> [1..Endpoints -> Replies]]
  /\ phase = [s \in Strategies |-> "secure"]
  /\ endpoint = [s \in Strategies |-> 1]
  /\ noCA = [s \in Strategies |-> FALSE]
  /\ success = [s \in Strategies |-> FALSE]
  /\ left = [s \in Strategies |-> Deadline]
  /\ results = {} /\ received = 0 /\ outcome = "none" /\ cancelled = FALSE

Smaller(a, b) == IF a < b THEN a ELSE b

\* Mutant of Timeout: the time is not shared with the endpoints to come.
TimeoutUnshared(s) == Smaller(left[s], Cap)

\* discoveryAttemptTimeout: an equal share for each endpoint still to be asked,
\* all of it when the share would be nothing, ten seconds at most.
Timeout(s) ==
  LET share == left[s] \div (Endpoints - endpoint[s] + 1)
  IN  Smaller(IF share = 0 THEN left[s] ELSE share, Cap)

Set(f, s, value) == [f EXCEPT ![s] = value]

\* The request of s is answered with a list.
Answered(s) ==
  /\ left[s] > 0 /\ ~CtxDone
  /\ \/ reply[s][endpoint[s]] = "list"
     \/ reply[s][endpoint[s]] = "ca" /\ phase[s] = "insecure"

\* No endpoint gave a list: start over without verification, once and only when
\* one of the errors was the want of an authority, or give up.
AfterLastEndpoint(s) ==
  IF phase[s] = "secure" /\ noCA'[s]
    THEN phase' = Set(phase, s, "insecure") /\ endpoint' = Set(endpoint, s, 1)
    ELSE phase' = Set(phase, s, "send") /\ UNCHANGED endpoint

RequestOk(s) ==
  /\ phase[s] \in {"secure", "insecure"} /\ Answered(s)
  /\ success' = Set(success, s, TRUE)
  /\ phase' = Set(phase, s, "send")
  /\ UNCHANGED <<reply, endpoint, noCA, left, results, received, outcome, cancelled>>

\* Mutant of RequestFails: the first want of an authority is enough to ask
\* again without verification.
RequestFailsInsecureNow(s) ==
  /\ phase[s] \in {"secure", "insecure"} /\ ~Answered(s)
  /\ noCA' = Set(noCA, s, noCA[s] \/ reply[s][endpoint[s]] = "ca")
  /\ left' = IF reply[s][endpoint[s]] = "hang" /\ ~CtxDone
               THEN Set(left, s, left[s] - Timeout(s)) ELSE left
  /\ IF endpoint[s] < Endpoints /\ left'[s] > 0 /\ ~CtxDone /\ ~noCA'[s]
       THEN endpoint' = Set(endpoint, s, endpoint[s] + 1) /\ UNCHANGED phase
       ELSE AfterLastEndpoint(s)
  /\ UNCHANGED <<reply, success, results, received, outcome, cancelled>>

\* The request fails or hangs until its timeout; the endpoints to come are
\* asked as long as the context lasts.
RequestFails(s) ==
  /\ phase[s] \in {"secure", "insecure"} /\ ~Answered(s)
  /\ noCA' = Set(noCA, s, \/ noCA[s]
                          \/ /\ reply[s][endpoint[s]] = "ca" /\ phase[s] = "secure"
                             /\ left[s] > 0 /\ ~CtxDone)
  /\ left' = IF reply[s][endpoint[s]] = "hang" /\ ~CtxDone
               THEN Set(left, s, left[s] - Timeout(s)) ELSE left
  /\ IF endpoint[s] < Endpoints /\ left'[s] > 0 /\ ~CtxDone
       THEN endpoint' = Set(endpoint, s, endpoint[s] + 1) /\ UNCHANGED phase
       ELSE AfterLastEndpoint(s)
  /\ UNCHANGED <<reply, success, results, received, outcome, cancelled>>

\* Mutant of SendResult: the channel has no room, a send needs a receiver.
SendResultUnbuffered(s) ==
  /\ phase[s] = "send" /\ outcome = "none"
  /\ results' = results \cup {s}
  /\ phase' = Set(phase, s, "done")
  /\ UNCHANGED <<reply, endpoint, noCA, success, left, received, outcome, cancelled>>

\* The send never blocks: the channel has room for every strategy.
SendResult(s) ==
  /\ phase[s] = "send"
  /\ results' = results \cup {s}
  /\ phase' = Set(phase, s, "done")
  /\ UNCHANGED <<reply, endpoint, noCA, success, left, received, outcome, cancelled>>

\* The caller takes the results as they come, up to the first list or the last.
Receive(s) ==
  /\ outcome = "none" /\ s \in results
  /\ results' = results \ {s} /\ received' = received + 1
  /\ outcome' = IF success[s] THEN "relays"
                ELSE IF received' = Cardinality(Strategies) THEN "failed"
                ELSE "none"
  /\ UNCHANGED <<reply, worker, cancelled>>

\* The caller's own context is cancelled.
Cancel ==
  /\ ~CtxDone
  /\ cancelled' = TRUE
  /\ UNCHANGED <<reply, worker, results, received, outcome>>

Strategy(s) == RequestOk(s) \/ RequestFails(s) \/ SendResult(s)

DiscoveryNext == Cancel \/ \E s \in Strategies : Strategy(s) \/ Receive(s)

DiscoverySpec == DiscoveryInit /\ [][DiscoveryNext]_discoveryVars

\* Requests end, by their timeout at the latest, and the goroutines run.
DiscoveryFairSpec ==
  /\ DiscoverySpec
  /\ \A s \in Strategies : WF_discoveryVars(Strategy(s)) /\ WF_discoveryVars(Receive(s))

-----------------------------------------------------------------------------
(* Properties. *)

\* Without a cancellation the discovery fails only if no strategy could get a
\* list from any endpoint, verified or, where an authority is wanting, not:
\* neither a mirror that hangs nor one that fails first takes away another
\* endpoint's chance, with the deadline the client sets
\* (discovery.go:256-331, 400-426; client.go:413).
FailureIsHonest ==
  outcome = "failed" /\ ~cancelled =>
    \A s \in Strategies, e \in 1..Endpoints : reply[s][e] \in {"error", "hang"}

\* Certificates go unverified only after every endpoint has failed with
\* verification, one of them for want of an authority (discovery.go:322-331).
InsecureOnlyAsLastResort ==
  \A s \in Strategies : phase[s] = "insecure" =>
    /\ \E e \in 1..Endpoints : reply[s][e] = "ca"
    /\ \A e \in 1..Endpoints : reply[s][e] # "list" \/ left[s] = 0 \/ CtxDone

\* The caller gets an answer, and every goroutine ends even if the caller left
\* with another one's list (discovery.go:269-291).
DiscoveryEnds ==
  <>(outcome # "none" /\ \A s \in Strategies : phase[s] = "done")
=============================================================================
