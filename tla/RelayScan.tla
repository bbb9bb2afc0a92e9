----------------------------- MODULE RelayScan -----------------------------
(***************************************************************************)
(* scanAndConnect (src/client.go) from the moment it has its list of       *)
(* relays: one goroutine per relay, at most Concurrency of them probing at *)
(* a time, the first success handed over through a channel of capacity one *)
(* and every other connection closed.                                      *)
(*                                                                         *)
(* A probe (tryRelayAndConnect) is one step: it closes what it opened when *)
(* it fails, and takes at most 2.5 seconds to the dial of the session and  *)
(* 5 more for the answer to the session request.  The pacing pauses and    *)
(* the counters for the diagnostics are left out.                          *)
(***************************************************************************)
EXTENDS Naturals, FiniteSets

CONSTANTS
  Relays,       \* the relays that may be listed
  NoRelay,      \* an empty channel
  Concurrency   \* the capacity of the semaphore: 50 in the code

ASSUME ScanAssumption == /\ IsFiniteSet(Relays)
                         /\ NoRelay \notin Relays
                         /\ Concurrency \in Nat \ {0}

VARIABLES
  todo,      \* the listed relays without a goroutine yet
  lucky,     \* the listed relays that would lead to the target in time
  main,      \* the caller: "launch", "spawn", "select" or "returned"
  outcome,   \* what it returned: "found", "notfound" or "cancelled"
  pc,        \* where the goroutine of each relay is
  sem,       \* how many tokens are in the semaphore
  found,     \* the atomic flag
  result,    \* what is in the channel results
  closed,    \* results is closed
  handed,    \* the relay whose connection was returned
  conns,     \* the relays with an open connection to the target
  scanDone,  \* scanCtx is cancelled
  ctxDone    \* the caller's context is cancelled

workers == <<pc, sem, found, conns>>
channel == <<result, closed>>
caller == <<main, todo, outcome, handed>>
vars == <<lucky, workers, channel, caller, scanDone, ctxDone>>

Places == {"none", "sem", "check", "probe", "cas", "send", "won", "done"}

\* Every variable has its type, and the semaphore holds exactly a token of each
\* goroutine that is past it: none is lost or returned twice on any way out.
TypeOK ==
  /\ {todo, lucky, conns} \subseteq SUBSET Relays
  /\ main \in {"launch", "spawn", "select", "returned"}
  /\ outcome \in {"none", "found", "notfound", "cancelled"}
  /\ pc \in [Relays -> Places]
  /\ {result, handed} \subseteq Relays \cup {NoRelay}
  /\ {found, closed, scanDone, ctxDone} \subseteq BOOLEAN
  /\ sem = Cardinality({r \in Relays :
                          pc[r] \in {"check", "probe", "cas", "send", "won"}})
  /\ sem <= Concurrency

Init ==
  /\ todo \in SUBSET Relays /\ lucky \in SUBSET todo
  /\ main = "launch" /\ outcome = "none"
  /\ pc = [r \in Relays |-> "none"]
  /\ sem = 0 /\ found = FALSE
  /\ result = NoRelay /\ closed = FALSE /\ handed = NoRelay
  /\ conns = {}
  /\ scanDone = FALSE /\ ctxDone = FALSE

Goto(r, place) == pc' = [pc EXCEPT ![r] = place]

\* The goroutine of r ends: its deferred calls return the token.
EndWorker(r) == Goto(r, "done") /\ sem' = sem - 1

-----------------------------------------------------------------------------
(* The launching loop. *)

\* Mutant of LaunchLoop: the last relay of the list is left out.
LaunchLoopOffByOne ==
  /\ main = "launch"
  /\ main' = IF found \/ Cardinality(todo) <= 1 THEN "select" ELSE "spawn"
  /\ UNCHANGED <<lucky, workers, channel, todo, outcome, handed, scanDone, ctxDone>>

\* The loop stops at the end of the list or as soon as it sees the flag.
LaunchLoop ==
  /\ main = "launch"
  /\ main' = IF found \/ todo = {} THEN "select" ELSE "spawn"
  /\ UNCHANGED <<lucky, workers, channel, todo, outcome, handed, scanDone, ctxDone>>

\* The next relay, after a pause in which the flag may have been set.
Spawn ==
  /\ main = "spawn"
  /\ \E r \in todo : todo' = todo \ {r} /\ Goto(r, "sem")
  /\ main' = "launch"
  /\ UNCHANGED <<lucky, sem, found, conns, channel, outcome, handed, scanDone,
                 ctxDone>>

-----------------------------------------------------------------------------
(* The goroutine of a relay. *)

AcquireSem(r) ==
  /\ pc[r] = "sem" /\ sem < Concurrency
  /\ sem' = sem + 1
  /\ Goto(r, "check")
  /\ UNCHANGED <<lucky, found, conns, channel, caller, scanDone, ctxDone>>

SemCancelled(r) ==
  /\ pc[r] = "sem" /\ scanDone
  /\ Goto(r, "done")
  /\ UNCHANGED <<lucky, sem, found, conns, channel, caller, scanDone, ctxDone>>

CheckFound(r) ==
  /\ pc[r] = "check"
  /\ IF found THEN EndWorker(r) ELSE Goto(r, "probe") /\ UNCHANGED sem
  /\ UNCHANGED <<lucky, found, conns, channel, caller, scanDone, ctxDone>>

ProbeOk(r) ==
  /\ pc[r] = "probe" /\ r \in lucky
  /\ conns' = conns \cup {r}
  /\ Goto(r, "cas")
  /\ UNCHANGED <<lucky, sem, found, channel, caller, scanDone, ctxDone>>

\* Mutant of ProbeFail: the token is not returned.
ProbeFailKeepsToken(r) ==
  /\ pc[r] = "probe" /\ (r \notin lucky \/ scanDone)
  /\ Goto(r, "done")
  /\ UNCHANGED <<lucky, sem, found, conns, channel, caller, scanDone, ctxDone>>

\* The probe fails or runs into its deadline, or the scan is over.
ProbeFail(r) ==
  /\ pc[r] = "probe" /\ (r \notin lucky \/ scanDone)
  /\ EndWorker(r)
  /\ UNCHANGED <<lucky, found, conns, channel, caller, scanDone, ctxDone>>

\* Mutant of ClaimFound: a goroutine that comes second keeps its connection.
ClaimFoundLeaks(r) ==
  /\ pc[r] = "cas"
  /\ IF found THEN EndWorker(r) ELSE Goto(r, "send") /\ UNCHANGED sem
  /\ found' = TRUE
  /\ UNCHANGED <<lucky, conns, channel, caller, scanDone, ctxDone>>

\* The compare-and-swap: the first one may send, the others close.
ClaimFound(r) ==
  /\ pc[r] = "cas"
  /\ IF found
       THEN EndWorker(r) /\ conns' = conns \ {r}
       ELSE Goto(r, "send") /\ UNCHANGED <<sem, conns>>
  /\ found' = TRUE
  /\ UNCHANGED <<lucky, channel, caller, scanDone, ctxDone>>

\* The non-blocking send: the connection is closed if the channel is full.
Send(r) ==
  /\ pc[r] = "send"
  /\ IF result = NoRelay
       THEN result' = r /\ Goto(r, "won") /\ UNCHANGED <<sem, conns>>
       ELSE EndWorker(r) /\ conns' = conns \ {r} /\ UNCHANGED result
  /\ UNCHANGED <<lucky, found, closed, caller, scanDone, ctxDone>>

\* The winner cancels scanCtx, which ends the others.
CancelOthers(r) ==
  /\ pc[r] = "won"
  /\ scanDone' = TRUE
  /\ EndWorker(r)
  /\ UNCHANGED <<lucky, found, conns, channel, caller, ctxDone>>

-----------------------------------------------------------------------------
(* The goroutine that closes the channel, and the caller's select. *)

\* wg.Wait returns: no goroutine that was launched is left.
AllDone == \A r \in Relays : pc[r] \in {"none", "done"}

\* Mutant of CloseResults: a goroutine waiting for a token is not waited for.
CloseResultsEarly ==
  /\ main \in {"select", "returned"} /\ ~closed
  /\ \A r \in Relays : pc[r] \in {"none", "sem", "done"}
  /\ closed' = TRUE
  /\ UNCHANGED <<lucky, workers, result, caller, scanDone, ctxDone>>

CloseResults ==
  /\ main \in {"select", "returned"} /\ ~closed
  /\ AllDone
  /\ closed' = TRUE
  /\ UNCHANGED <<lucky, workers, result, caller, scanDone, ctxDone>>

\* The caller returns; its deferred scanCancel runs.
Return(what) ==
  /\ main = "select"
  /\ main' = "returned" /\ outcome' = what /\ scanDone' = TRUE

Receive ==
  /\ result # NoRelay
  /\ Return("found")
  /\ handed' = result /\ result' = NoRelay
  /\ UNCHANGED <<lucky, workers, closed, todo, ctxDone>>

ReceiveClosed ==
  /\ result = NoRelay /\ closed
  /\ Return("notfound")
  /\ UNCHANGED <<lucky, workers, channel, todo, handed, ctxDone>>

ReturnCancelled ==
  /\ ctxDone
  /\ Return("cancelled")
  /\ UNCHANGED <<lucky, workers, channel, todo, handed, ctxDone>>

\* The caller's context is cancelled, and scanCtx, its child, with it.
Cancel ==
  /\ ~ctxDone
  /\ ctxDone' = TRUE /\ scanDone' = TRUE
  /\ UNCHANGED <<lucky, workers, channel, caller>>

Worker(r) == \/ AcquireSem(r) \/ SemCancelled(r) \/ CheckFound(r)
             \/ ProbeOk(r) \/ ProbeFail(r) \/ ClaimFound(r)
             \/ Send(r) \/ CancelOthers(r)

Caller == LaunchLoop \/ Spawn \/ Receive \/ ReceiveClosed \/ ReturnCancelled

Next == Caller \/ CloseResults \/ Cancel \/ \E r \in Relays : Worker(r)

Spec == Init /\ [][Next]_vars

\* The goroutines run, and probes end (after 7.5 seconds at most: client.go:505,
\* 706); a cancellation need not come.  A token is taken by somebody whenever one is free.
FairSpec == /\ Spec
            /\ WF_vars(Caller) /\ WF_vars(CloseResults)
            /\ \A r \in Relays : SF_vars(Worker(r))

-----------------------------------------------------------------------------
(* Properties. *)

\* A connection that is returned is open and leads to the target, and once all
\* goroutines have ended it is the only one left.  Only a cancellation can
\* lose a connection, and never more than the one in the channel, which nobody
\* receives any more (client.go:522-556).
NoConnLeak ==
  /\ outcome = "found" => handed \in conns \cap lucky
  /\ main = "returned" /\ AllDone =>
       \/ conns \subseteq {handed}
       \/ ctxDone /\ conns = {result}

\* The scan does not overlook the target: if it says that the device is on no
\* relay, without being cancelled, no listed relay would have led to it
\* (client.go:479-481, 498-500, 535-549).
NotFoundIsHonest == outcome = "notfound" => lucky = {} \/ ctxDone

\* Nobody sends on the closed channel, which would bring the program down
\* (client.go:522-538).
NoSendOnClosed == \A r \in Relays : pc[r] = "send" => ~closed

\* The scan returns and all its goroutines end, with more relays than tokens,
\* without a cancellation and with one at any time (client.go:478-556).
ScanEnds == <>[](main = "returned" /\ AllDone)
=============================================================================
