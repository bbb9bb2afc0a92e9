-------------------------- MODULE RelayScan_proofs --------------------------
(***************************************************************************)
(* Proofs for RelayScan, for any set of relays and any concurrency.        *)
(*                                                                         *)
(* The argument: the flag is set by one goroutine only, and from then on   *)
(* there is one connection that was claimed, with that goroutine, in the   *)
(* channel, or with the caller (Claim).  Whoever finds the channel closed  *)
(* and empty knows that nobody has claimed anything and that every listed  *)
(* relay was tried (Launch, Ending).                                       *)
(***************************************************************************)
EXTENDS RelayScan, FiniteSetTheorems, TLAPS

Holding == {"check", "probe", "cas", "send", "won"}
Holders == {r \in Relays : pc[r] \in Holding}

Types ==
  /\ todo \subseteq Relays /\ lucky \subseteq Relays /\ conns \subseteq Relays
  /\ main \in {"launch", "spawn", "select", "returned"}
  /\ outcome \in {"none", "found", "notfound", "cancelled"}
  /\ pc \in [Relays -> Places]
  /\ result \in Relays \cup {NoRelay} /\ handed \in Relays \cup {NoRelay}
  /\ found \in BOOLEAN /\ closed \in BOOLEAN /\ scanDone \in BOOLEAN /\ ctxDone \in BOOLEAN

Tokens == sem = Cardinality(Holders) /\ sem <= Concurrency

\* Every listed relay is launched, unless one is found, before the channel closes.
Launch ==
  /\ \A r \in todo : pc[r] = "none"
  /\ \A r \in lucky : r \in todo \/ pc[r] # "none"
  /\ main = "select" => found \/ todo = {}
  /\ closed => main \in {"select", "returned"} /\ AllDone

\* What was claimed is in one place.
Claim ==
  /\ \A r \in Relays : pc[r] = "send" => found /\ result = NoRelay /\ handed = NoRelay
  /\ \A r, q \in Relays : pc[r] = "send" /\ pc[q] = "send" => r = q
  /\ \A r \in Relays : pc[r] = "won" => r \in {result, handed}
  /\ result # NoRelay => found /\ handed = NoRelay
  /\ handed # NoRelay => found /\ outcome = "found"
  /\ found => result # NoRelay \/ handed # NoRelay \/ \E r \in Relays : pc[r] = "send"

\* A connection is open from its probe until it is closed, or for good once it is
\* handed over.
Open ==
  /\ \A r \in Relays : r \in conns <=> pc[r] \in {"cas", "send", "won"} \/ r \in {result, handed}
  /\ \A r \in Relays : r \in {result, handed} => pc[r] \in {"won", "done"}
  /\ conns \subseteq lucky

\* What the caller may conclude.
Ending ==
  /\ outcome # "none" <=> main = "returned"
  /\ outcome = "found" => handed # NoRelay
  /\ outcome = "notfound" => closed /\ result = NoRelay /\ (lucky = {} \/ ctxDone)
  /\ outcome = "cancelled" => ctxDone
  /\ scanDone => found \/ ctxDone \/ main = "returned"
  /\ \A r \in lucky : pc[r] = "done" => found \/ ctxDone \/ main = "returned"

IInv == Types /\ Tokens /\ Launch /\ Claim /\ Open /\ Ending

USE ScanAssumption

-----------------------------------------------------------------------------
(* Tokens. *)

LEMMA HoldersFinite == IsFiniteSet(Holders) /\ Cardinality(Holders) \in Nat
<1>1. Holders \subseteq Relays
  BY DEF Holders
<1> QED BY <1>1, FS_Subset, FS_CardinalityType

\* A goroutine takes a token, returns it, or keeps what it has.
LEMMA TokenTaken ==
  ASSUME Types, Tokens, NEW r \in Relays, NEW place \in Holding, pc[r] \notin Holding, Goto(r, place),
         sem < Concurrency, sem' = sem + 1
  PROVE  Tokens'
<1>1. Holders' = Holders \cup {r} /\ r \notin Holders
  BY DEF Types, Holders, Goto
<1>2. Cardinality(Holders') = Cardinality(Holders) + 1
  BY <1>1, HoldersFinite, FS_AddElement
<1> QED BY <1>2, HoldersFinite DEF Tokens

LEMMA TokenReturned ==
  ASSUME Types, Tokens, NEW r \in Relays, pc[r] \in Holding, EndWorker(r)
  PROVE  Tokens'
<1>1. Holders' = Holders \ {r} /\ r \in Holders
  BY DEF Types, Holders, EndWorker, Goto, Holding
<1>2. Cardinality(Holders') = Cardinality(Holders) - 1
  BY <1>1, HoldersFinite, FS_RemoveElement
<1> QED BY <1>2, HoldersFinite DEF Tokens, EndWorker

LEMMA TokenKept ==
  ASSUME Types, Tokens, NEW r \in Relays, NEW place, pc[r] \in Holding <=> place \in Holding,
         Goto(r, place), UNCHANGED sem
  PROVE  Tokens'
<1>1. Holders' = Holders
  BY DEF Types, Holders, Goto
<1> QED BY <1>1 DEF Tokens

-----------------------------------------------------------------------------

LEMMA InitIInv == Init => IInv
<1> SUFFICES ASSUME Init PROVE IInv
  OBVIOUS
<1>1. Types
  BY DEF Init, Types, Places
<1>2. Holders = {}
  BY DEF Init, Holders, Holding
<1>3. Tokens
  BY <1>2, FS_EmptySet DEF Init, Tokens
<1>4. Launch /\ Claim /\ Open /\ Ending
  BY DEF Init, Launch, Claim, Open, Ending, AllDone
<1> QED BY <1>1, <1>3, <1>4 DEF IInv

LEMMA CallerStep ==
  ASSUME IInv, LaunchLoop \/ Spawn \/ CloseResults \/ Cancel \/ Receive \/ ReceiveClosed \/ ReturnCancelled
  PROVE  IInv'
<1> USE DEF IInv, workers, channel, caller
<1>1. CASE LaunchLoop
  <2>1. Types' /\ Tokens'
    BY <1>1 DEF LaunchLoop, Types, Tokens, Holders
  <2>2. Launch' /\ Claim' /\ Open' /\ Ending'
    BY <1>1 DEF LaunchLoop, Types, Launch, Claim, Open, Ending, AllDone
  <2> QED BY <2>1, <2>2
<1>2. CASE Spawn
  <2>1. PICK r \in todo : todo' = todo \ {r} /\ Goto(r, "sem")
    BY <1>2 DEF Spawn
  <2>2. r \in Relays /\ pc[r] = "none"
    BY <2>1 DEF Types, Launch
  <2>3. Types'
    BY <1>2, <2>1, <2>2 DEF Spawn, Types, Goto, Places
  <2>4. Tokens'
    BY <1>2, <2>1, <2>2, TokenKept DEF Spawn, Holding
  <2>5. Launch' /\ Claim' /\ Open' /\ Ending'
    BY <1>2, <2>1, <2>2 DEF Spawn, Types, Goto, Launch, Claim, Open, Ending, AllDone
  <2> QED BY <2>3, <2>4, <2>5
<1>3. CASE CloseResults
  <2>1. Types' /\ Tokens'
    BY <1>3 DEF CloseResults, Types, Tokens, Holders
  <2>2. Launch' /\ Claim' /\ Open' /\ Ending'
    BY <1>3 DEF CloseResults, Types, Launch, Claim, Open, Ending, AllDone
  <2> QED BY <2>1, <2>2
<1>4. CASE Cancel
  <2>1. Types' /\ Tokens'
    BY <1>4 DEF Cancel, Types, Tokens, Holders
  <2>2. Launch' /\ Claim' /\ Open' /\ Ending'
    BY <1>4 DEF Cancel, Types, Launch, Claim, Open, Ending, AllDone
  <2> QED BY <2>1, <2>2
<1>5. CASE Receive
  <2>1. Types' /\ Tokens'
    BY <1>5 DEF Receive, Return, Types, Tokens, Holders
  <2>2. Launch' /\ Claim' /\ Open' /\ Ending'
    BY <1>5 DEF Receive, Return, Types, Launch, Claim, Open, Ending, AllDone
  <2> QED BY <2>1, <2>2
<1>6. CASE ReceiveClosed
  <2>1. Types' /\ Tokens'
    BY <1>6 DEF ReceiveClosed, Return, Types, Tokens, Holders
  <2>2. Launch' /\ Claim' /\ Open'
    BY <1>6 DEF ReceiveClosed, Return, Types, Launch, Claim, Open, Ending, AllDone
  <2>3. lucky = {} \/ ctxDone
    <3> SUFFICES ASSUME ~ctxDone, NEW r \in lucky PROVE FALSE
      OBVIOUS
    <3>1. main = "select" /\ result = NoRelay /\ AllDone /\ handed = NoRelay
      BY <1>6 DEF ReceiveClosed, Return, Launch, Claim, Ending
    <3>2. ~found
      BY <3>1 DEF Claim, AllDone
    <3>3. pc[r] = "done"
      BY <3>1, <3>2 DEF Launch, AllDone, Types
    <3> QED BY <3>1, <3>2, <3>3 DEF Ending
  <2>4. Ending'
    BY <1>6, <2>3 DEF ReceiveClosed, Return, Types, Ending
  <2> QED BY <2>1, <2>2, <2>4
<1>7. CASE ReturnCancelled
  <2>1. Types' /\ Tokens'
    BY <1>7 DEF ReturnCancelled, Return, Types, Tokens, Holders
  <2>2. Launch' /\ Claim' /\ Open' /\ Ending'
    BY <1>7 DEF ReturnCancelled, Return, Types, Launch, Claim, Open, Ending, AllDone
  <2> QED BY <2>1, <2>2
<1> QED BY <1>1, <1>2, <1>3, <1>4, <1>5, <1>6, <1>7

LEMMA WorkerStep == ASSUME IInv, NEW r \in Relays, Worker(r) PROVE IInv'
<1> USE DEF IInv, workers, channel, caller
<1> DEFINE Safe == Launch /\ Claim /\ Open /\ Ending
<1>1. CASE AcquireSem(r)
  <2>1. Types' /\ Tokens'
    BY <1>1, TokenTaken DEF AcquireSem, Types, Goto, Places, Holding
  <2>2. Safe'
    BY <1>1 DEF AcquireSem, Types, Goto, Launch, Claim, Open, Ending, AllDone
  <2> QED BY <2>1, <2>2
<1>2. CASE SemCancelled(r)
  <2>1. Types' /\ Tokens'
    BY <1>2, TokenKept DEF SemCancelled, Types, Goto, Places, Holding
  <2>2. Safe'
    BY <1>2 DEF SemCancelled, Types, Goto, Launch, Claim, Open, Ending, AllDone
  <2> QED BY <2>1, <2>2
<1>3. CASE CheckFound(r)
  <2>1. Types' /\ Tokens'
    BY <1>3, TokenReturned, TokenKept DEF CheckFound, EndWorker, Types, Goto, Places, Holding
  <2>2. Safe'
    BY <1>3 DEF CheckFound, EndWorker, Types, Goto, Launch, Claim, Open, Ending, AllDone
  <2> QED BY <2>1, <2>2
<1>4. CASE ProbeOk(r)
  <2>1. Types' /\ Tokens'
    <3>1. Types' /\ UNCHANGED <<sem, found, channel, caller>>
      BY <1>4 DEF ProbeOk, Types, Goto, Places
    <3>2. pc[r] \in Holding /\ "cas" \in Holding /\ Goto(r, "cas") /\ UNCHANGED sem
      BY <1>4 DEF ProbeOk, Holding
    <3>3. Tokens'
      BY <3>2, TokenKept
    <3> QED BY <3>1, <3>3
  <2>2. Safe'
    BY <1>4 DEF ProbeOk, Types, Goto, Launch, Claim, Open, Ending, AllDone
  <2> QED BY <2>1, <2>2
<1>5. CASE ProbeFail(r)
  <2>1. Types' /\ Tokens'
    BY <1>5, TokenReturned DEF ProbeFail, EndWorker, Types, Goto, Places, Holding
  <2>2. Safe'
    BY <1>5 DEF ProbeFail, EndWorker, Types, Goto, Launch, Claim, Open, Ending, AllDone
  <2> QED BY <2>1, <2>2
<1>6. CASE ClaimFound(r)
  <2>1. Types' /\ Tokens'
    BY <1>6, TokenReturned, TokenKept DEF ClaimFound, EndWorker, Types, Goto, Places, Holding
  <2>2. Safe'
    BY <1>6 DEF ClaimFound, EndWorker, Types, Goto, Launch, Claim, Open, Ending, AllDone
  <2> QED BY <2>1, <2>2
<1>7. CASE Send(r)
  <2>1. Types' /\ Tokens'
    BY <1>7, TokenReturned, TokenKept DEF Send, EndWorker, Types, Goto, Places, Holding
  <2>2. Safe'
    BY <1>7 DEF Send, EndWorker, Types, Goto, Launch, Claim, Open, Ending, AllDone
  <2> QED BY <2>1, <2>2
<1>8. CASE CancelOthers(r)
  <2>1. Types' /\ Tokens'
    BY <1>8, TokenReturned DEF CancelOthers, EndWorker, Types, Goto, Places, Holding
  <2>2. Safe'
    BY <1>8 DEF CancelOthers, EndWorker, Types, Goto, Launch, Claim, Open, Ending, AllDone
  <2> QED BY <2>1, <2>2
<1> QED BY <1>1, <1>2, <1>3, <1>4, <1>5, <1>6, <1>7, <1>8 DEF Worker

LEMMA Inductive == Spec => []IInv
<1>1. IInv /\ UNCHANGED vars => IInv'
  BY DEF IInv, vars, workers, channel, caller, Types, Tokens, Holders, Launch, Claim, Open, Ending, AllDone
<1>2. IInv /\ [Next]_vars => IInv'
  BY <1>1, CallerStep, WorkerStep DEF Next, Caller
<1> QED BY <1>2, InitIInv, PTL DEF Spec

-----------------------------------------------------------------------------
(* The theorems. *)

\* The variables keep their types, and the semaphore holds a token of each goroutine
\* past it, whichever way the goroutines end (client.go:485-538).
THEOREM TypeCorrect == Spec => []TypeOK
<1>1. IInv => TypeOK
  BY DEF IInv, Types, Tokens, Holders, Holding, TypeOK
<1> QED BY <1>1, Inductive, PTL

\* However many relays lead to the device, one connection at most is left, and it is
\* the caller's unless the caller has gone (client.go:522-556).
THEOREM NoConnectionLeaks == Spec => []NoConnLeak
<1>1. IInv => NoConnLeak
  BY DEF IInv, Types, Claim, Open, Ending, AllDone, NoConnLeak
<1> QED BY <1>1, Inductive, PTL

\* The device is reported missing only if it is on none of the listed relays
\* (client.go:479-481, 498-500, 535-549).
THEOREM MissingIsMissing == Spec => []NotFoundIsHonest
<1>1. IInv => NotFoundIsHonest
  BY DEF IInv, Ending, NotFoundIsHonest
<1> QED BY <1>1, Inductive, PTL

\* The channel is closed after the last send (client.go:522-538).
THEOREM ClosedAfterSends == Spec => []NoSendOnClosed
<1>1. IInv => NoSendOnClosed
  BY DEF IInv, Launch, AllDone, NoSendOnClosed
<1> QED BY <1>1, Inductive, PTL
=============================================================================
