---------------------------- MODULE Server_proofs ---------------------------
(***************************************************************************)
(* Proofs for ServerTunnels, for any number of tunnels and streams and any *)
(* capacity of the semaphore: its tokens and the counter of connections    *)
(* are accounted for, and OnConnect and OnDisconnect come in pairs.        *)
(*                                                                         *)
(* The last part is about the Run that all of them are in and the Stop     *)
(* that ends it (Lifecycle, of a server or a client), for any number of    *)
(* calls of each: a Run serves until its caller or a Stop made meanwhile   *)
(* ends it.                                                                *)
(***************************************************************************)
EXTENDS ServerTunnels, Lifecycle, FiniteSetTheorems, TLAPS

Serving == {s \in Streams : spc[s] \in {"dial", "copy", "release"}}
Counted == {s \in Streams : spc[s] # "free"}
WaitingFor(t) == {s \in Streams : spc[s] = "admit" /\ owner[s] = t}

Tokens == sem = Cardinality(Serving) /\ sem <= Limit
Count == activeConns = Cardinality(Counted)

\* A tunnel at the semaphore has one stream there, any other tunnel none.
Admissions ==
  \A t \in Tunnels : IF tpc[t] = "admit" THEN \E s \in Streams : WaitingFor(t) = {s}
                                         ELSE WaitingFor(t) = {}

IInv == TypeOK /\ Tokens /\ Count /\ Admissions /\ CallbacksPaired

USE ServerAssumption

-----------------------------------------------------------------------------
(* Counting. *)

LEMMA Finite ==
  /\ IsFiniteSet(Serving) /\ Cardinality(Serving) \in Nat
  /\ IsFiniteSet(Counted) /\ Cardinality(Counted) \in Nat
<1>1. Serving \subseteq Streams /\ Counted \subseteq Streams
  BY DEF Serving, Counted
<1> QED BY <1>1, FS_Subset, FS_CardinalityType

LEMMA ServingMore == ASSUME NEW s \in Streams, s \notin Serving, Serving' = Serving \cup {s}
                     PROVE  Cardinality(Serving') = Cardinality(Serving) + 1
  BY Finite, FS_AddElement

LEMMA ServingLess == ASSUME NEW s \in Serving, Serving' = Serving \ {s}
                     PROVE  Cardinality(Serving') = Cardinality(Serving) - 1
  BY Finite, FS_RemoveElement

LEMMA CountedMore == ASSUME NEW s \in Streams, s \notin Counted, Counted' = Counted \cup {s}
                     PROVE  Cardinality(Counted') = Cardinality(Counted) + 1
  BY Finite, FS_AddElement

LEMMA CountedLess == ASSUME NEW s \in Counted, Counted' = Counted \ {s}
                     PROVE  Cardinality(Counted') = Cardinality(Counted) - 1
  BY Finite, FS_RemoveElement

\* A member of what a counter counts keeps it above zero.
LEMMA Positive == /\ Serving # {} => Cardinality(Serving) - 1 \in Nat
                  /\ Counted # {} => Cardinality(Counted) - 1 \in Nat
<1>1. /\ Serving # {} => Cardinality(Serving) # 0
      /\ Counted # {} => Cardinality(Counted) # 0
  BY Finite, FS_EmptySet
<1> QED BY <1>1, Finite

-----------------------------------------------------------------------------

LEMMA InitIInv == Init => IInv
<1> SUFFICES ASSUME Init PROVE IInv
  OBVIOUS
<1>1. TypeOK
  BY DEF Init, TypeOK
<1>2. Serving = {} /\ Counted = {} /\ \A t \in Tunnels : WaitingFor(t) = {}
  BY DEF Init, Serving, Counted, WaitingFor
<1>3. Tokens /\ Count
  BY <1>2, FS_EmptySet DEF Init, Tokens, Count
<1>4. Admissions /\ CallbacksPaired
  BY <1>2 DEF Init, Admissions, CallbacksPaired
<1> QED BY <1>1, <1>3, <1>4 DEF IInv

\* Steps that concern neither the tunnels nor the streams.
LEMMA RunStep ==
  ASSUME IInv, UNCHANGED <<tunnels, streams>>,
         Cancel \/ Serve \/ Join \/ LeaveRelay \/ CloseRelayConn \/ UNCHANGED vars
  PROVE  IInv'
<1>1. TypeOK'
  BY DEF IInv, TypeOK, tunnels, streams, vars, relay, Cancel, Serve, Discover, RunTop, PauseEnds, Join, JoinRelay,
         JoinFails, LeaveRelay, CloseRelayConn
<1> QED BY <1>1 DEF IInv, Tokens, Count, Admissions, CallbacksPaired, Serving, Counted, WaitingFor,
                    tunnels, streams

\* Steps of a tunnel that let its streams alone.
LEMMA TunnelStep ==
  ASSUME IInv, NEW t \in Tunnels, UNCHANGED streams, Invitation(t) \/ Handle(t) \/ LoseTunnel(t) \/ CloseTunnel(t)
  PROVE  IInv'
<1> USE DEF IInv, TGoto, relay, streams
<1>1. TypeOK' /\ CallbacksPaired' /\ \A u \in Tunnels : tpc'[u] = "admit" <=> tpc[u] = "admit"
  <2> USE DEF TypeOK, CallbacksPaired
  <2>1. CASE Invitation(t)
    BY <2>1 DEF Invitation
  <2>2. CASE EstablishOk(t)
    BY <2>2 DEF EstablishOk
  <2>3. CASE EstablishFail(t)
    BY <2>3 DEF EstablishFail
  <2>4. CASE Connected(t)
    BY <2>4 DEF Connected
  <2>5. CASE LoopTop(t)
    BY <2>5 DEF LoopTop
  <2>6. CASE AcceptFail(t)
    BY <2>6 DEF AcceptFail
  <2>7. CASE Leave(t)
    BY <2>7 DEF Leave
  <2>8. CASE LoseTunnel(t)
    BY <2>8 DEF LoseTunnel
  <2>9. CASE CloseTunnel(t)
    BY <2>9 DEF CloseTunnel
  <2> QED BY <2>1, <2>2, <2>3, <2>4, <2>5, <2>6, <2>7, <2>8, <2>9 DEF Handle
<1>2. Tokens' /\ Count'
  BY DEF Tokens, Count, Serving, Counted
<1>3. Admissions'
  BY <1>1 DEF Admissions, WaitingFor
<1> QED BY <1>1, <1>2, <1>3

LEMMA AcceptStep == ASSUME IInv, NEW t \in Tunnels, AcceptStream(t) PROVE IInv'
<1> USE DEF IInv, TGoto, SGoto, relay
<1>1. PICK s \in Streams : spc[s] = "free" /\ SGoto(s, "admit") /\ owner' = [owner EXCEPT ![s] = t]
  BY DEF AcceptStream
<1>2. TypeOK' /\ CallbacksPaired'
  BY <1>1 DEF AcceptStream, TypeOK, CallbacksPaired
<1>3. Tokens'
  <2>1. Serving' = Serving
    BY <1>1 DEF TypeOK, Serving
  <2> QED BY <2>1 DEF AcceptStream, Tokens
<1>4. Count'
  <2>1. Counted' = Counted \cup {s} /\ s \notin Counted
    BY <1>1 DEF TypeOK, Counted
  <2> QED BY <2>1, CountedMore DEF AcceptStream, Count
<1>5. Admissions'
  <2>1. tpc[t] = "accept" /\ tpc' = [tpc EXCEPT ![t] = "admit"]
    BY DEF AcceptStream
  <2>2. WaitingFor(t) = {}
    BY <2>1 DEF Admissions
  <2>3. WaitingFor(t)' = {s}
    BY <1>1, <2>2 DEF TypeOK, WaitingFor
  <2>4. \A u \in Tunnels \ {t} : WaitingFor(u)' = WaitingFor(u)
    BY <1>1 DEF TypeOK, WaitingFor
  <2> QED BY <2>1, <2>3, <2>4 DEF TypeOK, Admissions
<1> QED BY <1>2, <1>3, <1>4, <1>5

\* The stream that is admitted, or given up, is the only one its tunnel has waiting.
LEMMA OnlyOneWaits ==
  ASSUME IInv, NEW t \in Tunnels, NEW s \in Streams, Waiting(t, s)
  PROVE  WaitingFor(t) = {s}
<1>1. s \in WaitingFor(t) /\ tpc[t] = "admit"
  BY DEF Waiting, WaitingFor
<1> QED BY <1>1 DEF IInv, Admissions

LEMMA AdmitStep == ASSUME IInv, NEW t \in Tunnels, Admit(t) PROVE IInv'
<1> USE DEF IInv, TGoto, SGoto, relay
<1>1. PICK s \in Streams : Waiting(t, s) /\ SGoto(s, "dial")
  BY DEF Admit
<1>2. TypeOK' /\ CallbacksPaired'
  BY <1>1 DEF Admit, Waiting, TypeOK, CallbacksPaired
<1>3. Tokens'
  <2>1. Serving' = Serving \cup {s} /\ s \notin Serving
    BY <1>1 DEF TypeOK, Serving, Waiting
  <2>2. sem' = sem + 1 /\ sem < Limit /\ sem \in Nat /\ sem = Cardinality(Serving)
    BY DEF Admit, Tokens, TypeOK
  <2>3. sem' = Cardinality(Serving')
    BY <2>1, <2>2, ServingMore
  <2> QED BY <2>2, <2>3 DEF Tokens
<1>4. Count'
  <2>1. Counted' = Counted
    BY <1>1 DEF TypeOK, Counted, Waiting
  <2> QED BY <2>1 DEF Admit, Count
<1>5. Admissions'
  <2>1. tpc' = [tpc EXCEPT ![t] = "loop"] /\ UNCHANGED owner
    BY DEF Admit
  <2>2. WaitingFor(t)' = {}
    BY <1>1, <2>1, OnlyOneWaits DEF TypeOK, WaitingFor
  <2>3. \A u \in Tunnels \ {t} : WaitingFor(u)' = WaitingFor(u)
    BY <1>1, <2>1 DEF TypeOK, WaitingFor, Waiting
  <2> QED BY <2>1, <2>2, <2>3 DEF TypeOK, Admissions
<1> QED BY <1>2, <1>3, <1>4, <1>5

LEMMA AdmitCancelledStep == ASSUME IInv, NEW t \in Tunnels, AdmitCancelled(t) PROVE IInv'
<1> USE DEF IInv, TGoto, SGoto, relay
<1>1. PICK s \in Streams : Waiting(t, s) /\ SGoto(s, "free") /\ owner' = [owner EXCEPT ![s] = Nobody]
  BY DEF AdmitCancelled
<1>2. Counted' = Counted \ {s} /\ s \in Counted
  BY <1>1 DEF TypeOK, Counted, Waiting
<1>3. activeConns' = activeConns - 1 /\ activeConns' \in Nat /\ Count'
  BY <1>2, CountedLess, Positive DEF AdmitCancelled, Count
<1>4. TypeOK' /\ CallbacksPaired'
  BY <1>1, <1>3 DEF AdmitCancelled, Waiting, TypeOK, CallbacksPaired
<1>5. Tokens'
  <2>1. Serving' = Serving
    BY <1>1 DEF TypeOK, Serving, Waiting
  <2> QED BY <2>1 DEF AdmitCancelled, Tokens
<1>6. Admissions'
  <2>1. tpc' = [tpc EXCEPT ![t] = "leave"]
    BY DEF AdmitCancelled
  <2>2. WaitingFor(t)' = {}
    BY <1>1, OnlyOneWaits DEF TypeOK, WaitingFor
  <2>3. \A u \in Tunnels \ {t} : WaitingFor(u)' = WaitingFor(u)
    BY <1>1 DEF TypeOK, WaitingFor, Waiting
  <2> QED BY <2>1, <2>2, <2>3 DEF TypeOK, Admissions
<1> QED BY <1>3, <1>4, <1>5, <1>6

\* The goroutine of a stream: none of its streams waits at the semaphore.
LEMMA StreamStep == ASSUME IInv, NEW s \in Streams, Forward(s) \/ CopyEnds(s) PROVE IInv'
<1> USE DEF IInv, SGoto, relay, tunnels
<1>1. UNCHANGED <<ctxDone, relay, tunnels>> /\ spc[s] \notin {"free", "admit"}
  BY DEF Forward, DialTarget, ReleaseToken, Uncount, CopyEnds
<1>2. spc' \in [Streams -> {"free", "dial", "copy", "release", "uncount", "admit"}]
      /\ owner' \in [Streams -> Tunnels \cup {Nobody}]
      /\ spc'[s] # "admit" /\ \A q \in Streams \ {s} : spc'[q] = spc[q] /\ owner'[q] = owner[q]
  BY DEF Forward, DialTarget, ReleaseToken, Uncount, CopyEnds, TypeOK
<1>3. Admissions' /\ CallbacksPaired'
  <2>1. \A t \in Tunnels : WaitingFor(t)' = WaitingFor(t)
    BY <1>1, <1>2 DEF WaitingFor
  <2> QED BY <1>1, <2>1 DEF Admissions, CallbacksPaired
<1>4. CASE DialTarget(s) \/ CopyEnds(s)
  <2>1. Serving' = Serving /\ Counted' = Counted /\ UNCHANGED <<sem, activeConns>>
    BY <1>4 DEF TypeOK, DialTarget, CopyEnds, Serving, Counted
  <2> QED BY <1>1, <1>2, <1>3, <2>1 DEF Tokens, Count, TypeOK
<1>5. CASE ReleaseToken(s)
  <2>1. Serving' = Serving \ {s} /\ s \in Serving /\ Counted' = Counted
    BY <1>5 DEF TypeOK, ReleaseToken, Serving, Counted
  <2>2. sem' = sem - 1 /\ sem' \in Nat /\ UNCHANGED activeConns
    BY <1>5, <2>1, Positive DEF ReleaseToken, Tokens
  <2>3. Tokens' /\ Count'
    BY <2>1, <2>2, ServingLess DEF Tokens, Count, TypeOK
  <2> QED BY <1>1, <1>2, <1>3, <2>2, <2>3 DEF TypeOK
<1>6. CASE Uncount(s)
  <2>1. Counted' = Counted \ {s} /\ s \in Counted /\ Serving' = Serving
    BY <1>6 DEF TypeOK, Uncount, Serving, Counted
  <2>2. activeConns' = activeConns - 1 /\ activeConns' \in Nat /\ UNCHANGED sem
    BY <1>6, <2>1, Positive DEF Uncount, Count
  <2>3. Tokens' /\ Count'
    BY <2>1, <2>2, CountedLess DEF Tokens, Count
  <2> QED BY <1>1, <1>2, <1>3, <2>2, <2>3 DEF TypeOK
<1> QED BY <1>4, <1>5, <1>6 DEF Forward

LEMMA Inductive == Spec => []IInv
<1>1. Cancel \/ Serve \/ Join \/ LeaveRelay \/ CloseRelayConn \/ UNCHANGED vars => UNCHANGED <<tunnels, streams>>
  BY DEF vars, Cancel, Serve, Discover, RunTop, PauseEnds, Join, JoinRelay, JoinFails, LeaveRelay, CloseRelayConn
<1>2. \A t \in Tunnels :
        Invitation(t) \/ Handle(t) \/ LoseTunnel(t) \/ CloseTunnel(t) => UNCHANGED streams
  BY DEF Invitation, Handle, LoseTunnel, CloseTunnel, EstablishOk, EstablishFail, Connected, LoopTop,
         AcceptFail, Leave
<1>3. IInv /\ [Next]_vars => IInv'
  BY <1>1, <1>2, RunStep, TunnelStep, AcceptStep, AdmitStep, AdmitCancelledStep, StreamStep DEF Next, Admission
<1> QED BY <1>3, InitIInv, PTL DEF Spec

-----------------------------------------------------------------------------
(* The theorems. *)

\* The variables keep their types, and the loop of a tunnel has a connection
\* (server.go:310-375).
THEOREM TypeCorrect == Spec => []TypeOK
<1>1. IInv => TypeOK
  BY DEF IInv
<1> QED BY <1>1, Inductive, PTL

\* No way out of the accept loop or of a stream loses or repeats a token of the
\* semaphore or a count, and a tunnel waits for one token at most (server.go:352-373).
THEOREM SlotsAreAccounted == Spec => []SlotsAccounted
<1>1. ASSUME IInv, NEW t \in Tunnels
      PROVE  Cardinality(WaitingFor(t)) = IF tpc[t] = "admit" THEN 1 ELSE 0
  BY <1>1, FS_Singleton, FS_EmptySet DEF IInv, Admissions
<1>2. IInv => SlotsAccounted
  BY <1>1 DEF IInv, Tokens, Count, Serving, Counted, WaitingFor, SlotsAccounted
<1> QED BY <1>2, Inductive, PTL

\* OnConnect and OnDisconnect are called in turn for every tunnel, whatever ends it
\* (server.go:336-345).
THEOREM CallbacksArePaired == Spec => []CallbacksPaired
<1>1. IInv => CallbacksPaired
  BY DEF IInv
<1> QED BY <1>1, Inductive, PTL

-----------------------------------------------------------------------------
(* The lifecycle of a server or a client. *)

Disturbed == targets \cup recalled

\* One Run at a time is under way, and it is the one that Stop would cancel.
OneRun ==
  /\ \A r, q \in Active : r = q
  /\ running <=> Active # {}
  /\ \A r \in Active : cancel = r
  /\ cancel # NoCall => cancel \in Active \/ pc[cancel] = "returned"

\* A Stop holds the lock between its two steps, and the Run under way has been told.
StopExcludes ==
  /\ \A s \in Stops : stopPc[s] = "close" => mu = s
  /\ mu # NoCall => Active \subseteq targets

\* Only who was disturbed, or has returned, is cancelled.
DoneForReason ==
  /\ \A r \in done : r \in Disturbed \/ pc[r] = "returned"
  /\ \A r \in Runs : pc[r] = "close" => r \in Disturbed

\* What each Run leaves behind tells how far it has come.
Traces ==
  /\ \A r \in watcher : pc[r] \in {"serve", "join", "close", "leave", "returned"}
  /\ \A r \in writing : pc[r] = "assign"
  /\ field # NoListener =>
       \E q \in Runs : pc[q] \in {"watch", "serve", "join", "close", "leave", "returned"}
  /\ \A r \in open \cap Runs : pc[r] \in {"assign", "watch", "serve", "close"} /\ kind = "own"

\* The listeners that a Run which nobody disturbed needs.
Listening ==
  /\ kind = "own" => \A r \in Runs : pc[r] \in {"assign", "watch", "serve"} => r \in open \cup Disturbed
  /\ kind = "given" /\ Given \notin open =>
       \E q \in Runs : pc[q] = "returned" \/ (q \in Active /\ q \in Disturbed)
  /\ kind = "server" => \A r \in Runs : pc[r] # "listen"
  /\ \A r \in Runs : pc[r] \in {"relay", "join"} => kind = "server"

LifeInv == LifecycleTypeOK /\ OneRun /\ StopExcludes /\ DoneForReason /\ Traces /\ Listening

-----------------------------------------------------------------------------

LEMMA InitLifeInv == LifecycleInit => LifeInv
<1> SUFFICES ASSUME LifecycleInit PROVE LifeInv
  OBVIOUS
<1> USE LifecycleAssumption
<1>1. LifecycleTypeOK
  BY DEF LifecycleInit, LifecycleTypeOK, Listeners
<1>2. OneRun /\ StopExcludes /\ DoneForReason
  BY DEF LifecycleInit, OneRun, StopExcludes, DoneForReason, Active, Places
<1>3. Traces /\ Listening
  BY DEF LifecycleInit, Traces, Listening
<1> QED BY <1>1, <1>2, <1>3 DEF LifeInv

LEMMA EnterStep == ASSUME LifeInv, NEW r \in Runs, Enter(r) PROVE LifeInv'
<1> USE LifecycleAssumption DEF Places, LifeInv, Enter, Goto, fields, history, Listeners, Listener
<1>1. LifecycleTypeOK'
  BY DEF LifecycleTypeOK
<1>2. OneRun' /\ StopExcludes'
  BY DEF LifecycleTypeOK, OneRun, StopExcludes, Active
<1>3. DoneForReason'
  BY DEF LifecycleTypeOK, OneRun, DoneForReason, Disturbed, Active
<1>4. Traces'
  BY DEF LifecycleTypeOK, Traces
<1>5. Listening'
  BY DEF LifecycleTypeOK, OneRun, StopExcludes, DoneForReason, Traces, Listening, Disturbed, Active
<1> QED BY <1>1, <1>2, <1>3, <1>4, <1>5

LEMMA ListenStep == ASSUME LifeInv, NEW r \in Runs, Listen(r) PROVE LifeInv'
<1> USE LifecycleAssumption DEF Places, LifeInv, Listen, Goto, fields, history, Listeners, Listener
<1>1. LifecycleTypeOK'
  BY DEF LifecycleTypeOK
<1>2. OneRun' /\ StopExcludes'
  BY DEF LifecycleTypeOK, OneRun, StopExcludes, Active
<1>3. DoneForReason'
  BY DEF LifecycleTypeOK, OneRun, DoneForReason, Disturbed, Active
<1>4. Traces'
  BY DEF LifecycleTypeOK, Traces, Listening
<1>5. Listening'
  BY DEF LifecycleTypeOK, OneRun, StopExcludes, DoneForReason, Traces, Listening, Disturbed, Active
<1> QED BY <1>1, <1>2, <1>3, <1>4, <1>5

LEMMA ListenFailsStep == ASSUME LifeInv, NEW r \in Runs, ListenFails(r) PROVE LifeInv'
<1> USE LifecycleAssumption DEF Places, LifeInv, ListenFails, Goto, fields, history, Listeners, Listener
<1>1. LifecycleTypeOK'
  BY DEF LifecycleTypeOK
<1>2. OneRun' /\ StopExcludes'
  BY DEF LifecycleTypeOK, OneRun, StopExcludes, Active
<1>3. DoneForReason'
  BY DEF LifecycleTypeOK, OneRun, DoneForReason, Disturbed, Active
<1>4. Traces'
  BY DEF LifecycleTypeOK, Traces
<1>5. Listening'
  BY DEF LifecycleTypeOK, OneRun, StopExcludes, DoneForReason, Traces, Listening, Disturbed, Active
<1> QED BY <1>1, <1>2, <1>3, <1>4, <1>5

LEMMA BeginAssignStep == ASSUME LifeInv, NEW r \in Runs, BeginAssign(r) PROVE LifeInv'
<1> USE LifecycleAssumption DEF Places, LifeInv, BeginAssign, Goto, fields, history, Listeners, Listener
<1>1. LifecycleTypeOK'
  BY DEF LifecycleTypeOK
<1>2. OneRun' /\ StopExcludes'
  BY DEF LifecycleTypeOK, OneRun, StopExcludes, Active
<1>3. DoneForReason'
  BY DEF LifecycleTypeOK, OneRun, DoneForReason, Disturbed, Active
<1>4. Traces'
  BY DEF LifecycleTypeOK, Traces
<1>5. Listening'
  BY DEF LifecycleTypeOK, OneRun, StopExcludes, DoneForReason, Traces, Listening, Disturbed, Active
<1> QED BY <1>1, <1>2, <1>3, <1>4, <1>5

LEMMA EndAssignStep == ASSUME LifeInv, NEW r \in Runs, EndAssign(r) PROVE LifeInv'
<1> USE LifecycleAssumption DEF Places, LifeInv, EndAssign, Goto, fields, history, Listeners, Listener
<1>1. LifecycleTypeOK'
  BY DEF LifecycleTypeOK
<1>2. OneRun' /\ StopExcludes'
  BY DEF LifecycleTypeOK, OneRun, StopExcludes, Active
<1>3. DoneForReason'
  BY DEF LifecycleTypeOK, OneRun, DoneForReason, Disturbed, Active
<1>4. Traces'
  BY DEF LifecycleTypeOK, Traces
<1>5. Listening'
  BY DEF LifecycleTypeOK, OneRun, StopExcludes, DoneForReason, Traces, Listening, Disturbed, Active
<1> QED BY <1>1, <1>2, <1>3, <1>4, <1>5

LEMMA StartWatcherStep == ASSUME LifeInv, NEW r \in Runs, StartWatcher(r) PROVE LifeInv'
<1> USE LifecycleAssumption DEF Places, LifeInv, StartWatcher, Goto, fields, history, Listeners, Listener
<1>1. LifecycleTypeOK'
  BY DEF LifecycleTypeOK
<1>2. OneRun' /\ StopExcludes'
  BY DEF LifecycleTypeOK, OneRun, StopExcludes, Active
<1>3. DoneForReason'
  BY DEF LifecycleTypeOK, OneRun, DoneForReason, Disturbed, Active
<1>4. Traces'
  BY DEF LifecycleTypeOK, Traces
<1>5. Listening'
  BY DEF LifecycleTypeOK, OneRun, StopExcludes, DoneForReason, Traces, Listening, Disturbed, Active
<1> QED BY <1>1, <1>2, <1>3, <1>4, <1>5

LEMMA WatcherStep == ASSUME LifeInv, NEW r \in Runs, Watcher(r) PROVE LifeInv'
<1> USE LifecycleAssumption DEF Places, LifeInv, Watcher, Goto, fields, history, Listeners, Listener
<1>1. LifecycleTypeOK'
  BY DEF LifecycleTypeOK
<1>2. OneRun' /\ StopExcludes'
  BY DEF LifecycleTypeOK, OneRun, StopExcludes, Active
<1>3. DoneForReason'
  BY DEF LifecycleTypeOK, OneRun, DoneForReason, Disturbed, Active
<1>4. Traces'
  BY DEF LifecycleTypeOK, Traces
<1>5. Listening'
  BY DEF LifecycleTypeOK, OneRun, StopExcludes, DoneForReason, Traces, Listening, Disturbed, Active
<1> QED BY <1>1, <1>2, <1>3, <1>4, <1>5

LEMMA NoticeDoneStep == ASSUME LifeInv, NEW r \in Runs, NoticeDone(r) PROVE LifeInv'
<1> USE LifecycleAssumption DEF Places, LifeInv, NoticeDone, Goto, fields, history, Listeners, Listener
<1>1. LifecycleTypeOK'
  BY DEF LifecycleTypeOK
<1>2. OneRun' /\ StopExcludes'
  BY DEF LifecycleTypeOK, OneRun, StopExcludes, Active
<1>3. DoneForReason'
  BY DEF LifecycleTypeOK, OneRun, DoneForReason, Disturbed, Active
<1>4. Traces'
  BY DEF LifecycleTypeOK, Traces
<1>5. Listening'
  BY DEF LifecycleTypeOK, OneRun, StopExcludes, DoneForReason, Traces, Listening, Disturbed, Active
<1> QED BY <1>1, <1>2, <1>3, <1>4, <1>5

LEMMA ChooseRelayStep == ASSUME LifeInv, NEW r \in Runs, ChooseRelay(r) PROVE LifeInv'
<1> USE LifecycleAssumption DEF Places, LifeInv, ChooseRelay, Goto, fields, history, Listeners, Listener
<1>1. LifecycleTypeOK'
  BY DEF LifecycleTypeOK
<1>2. OneRun' /\ StopExcludes'
  BY DEF LifecycleTypeOK, OneRun, StopExcludes, Active
<1>3. DoneForReason'
  BY DEF LifecycleTypeOK, OneRun, DoneForReason, Disturbed, Active
<1>4. Traces'
  BY DEF LifecycleTypeOK, Traces
<1>5. Listening'
  <2>1. kind = "server"
    BY DEF Listening
  <2>2. kind' = kind /\ \A q \in Runs : pc'[q] \in {pc[q], "serve", "leave"}
    BY DEF LifecycleTypeOK
  <2> QED BY <2>1, <2>2 DEF Listening
<1> QED BY <1>1, <1>2, <1>3, <1>4, <1>5

LEMMA BeginSessionStep == ASSUME LifeInv, NEW r \in Runs, BeginSession(r) PROVE LifeInv'
<1> USE LifecycleAssumption DEF Places, LifeInv, BeginSession, Goto, fields, history, Listeners, Listener
<1>1. LifecycleTypeOK'
  BY DEF LifecycleTypeOK
<1>2. OneRun' /\ StopExcludes'
  BY DEF LifecycleTypeOK, OneRun, StopExcludes, Active
<1>3. DoneForReason'
  BY DEF LifecycleTypeOK, OneRun, DoneForReason, Disturbed, Active
<1>4. Traces'
  BY DEF LifecycleTypeOK, Traces
<1>5. Listening'
  BY DEF LifecycleTypeOK, OneRun, StopExcludes, DoneForReason, Traces, Listening, Disturbed, Active
<1> QED BY <1>1, <1>2, <1>3, <1>4, <1>5

LEMMA JoinAnsweredStep == ASSUME LifeInv, NEW r \in Runs, JoinAnswered(r) PROVE LifeInv'
<1> USE LifecycleAssumption DEF Places, LifeInv, JoinAnswered, Goto, fields, history, Listeners, Listener
<1>1. LifecycleTypeOK'
  BY DEF LifecycleTypeOK
<1>2. OneRun' /\ StopExcludes'
  BY DEF LifecycleTypeOK, OneRun, StopExcludes, Active
<1>3. DoneForReason'
  BY DEF LifecycleTypeOK, OneRun, DoneForReason, Disturbed, Active
<1>4. Traces'
  BY DEF LifecycleTypeOK, Traces
<1>5. Listening'
  <2>1. kind = "server"
    BY DEF Listening
  <2>2. kind' = kind /\ \A q \in Runs : pc'[q] \in {pc[q], "serve"}
    BY DEF LifecycleTypeOK
  <2> QED BY <2>1, <2>2 DEF Listening
<1> QED BY <1>1, <1>2, <1>3, <1>4, <1>5

LEMMA ServerStopsStep == ASSUME LifeInv, NEW r \in Runs, ServerStops(r) PROVE LifeInv'
<1> USE LifecycleAssumption DEF Places, LifeInv, ServerStops, Goto, fields, history, Listeners, Listener
<1>1. LifecycleTypeOK'
  BY DEF LifecycleTypeOK
<1>2. OneRun' /\ StopExcludes'
  BY DEF LifecycleTypeOK, OneRun, StopExcludes, Active
<1>3. DoneForReason'
  BY DEF LifecycleTypeOK, OneRun, DoneForReason, Disturbed, Active
<1>4. Traces'
  BY DEF LifecycleTypeOK, Traces
<1>5. Listening'
  BY DEF LifecycleTypeOK, OneRun, StopExcludes, DoneForReason, Traces, Listening, Disturbed, Active
<1> QED BY <1>1, <1>2, <1>3, <1>4, <1>5

LEMMA CloseListenerStep == ASSUME LifeInv, NEW r \in Runs, CloseListener(r) PROVE LifeInv'
<1> USE LifecycleAssumption DEF Places, LifeInv, CloseListener, Goto, fields, history, Listeners, Listener
<1>1. LifecycleTypeOK'
  BY DEF LifecycleTypeOK
<1>2. OneRun' /\ StopExcludes'
  BY DEF LifecycleTypeOK, OneRun, StopExcludes, Active
<1>3. DoneForReason'
  BY DEF LifecycleTypeOK, OneRun, DoneForReason, Disturbed, Active
<1>4. Traces'
  BY DEF LifecycleTypeOK, Traces
<1>5. Listening'
  <2>1. r \in Active' /\ r \in Disturbed'
    BY DEF LifecycleTypeOK, DoneForReason, Disturbed, Active
  <2>2. UNCHANGED kind /\ open \subseteq open' \cup {Listener(r)}
    OBVIOUS
  <2>3. \A q \in Runs : pc'[q] = IF q = r THEN "leave" ELSE pc[q]
    BY DEF LifecycleTypeOK
  <2>4. kind = "own" => \A q \in Runs : pc'[q] \in {"assign", "watch", "serve"} => q \in open' \cup Disturbed'
    BY <2>2, <2>3 DEF Listening, Disturbed
  <2> QED BY <2>1, <2>2, <2>3, <2>4 DEF Listening
<1> QED BY <1>1, <1>2, <1>3, <1>4, <1>5

LEMMA LeaveStep == ASSUME LifeInv, NEW r \in Runs, LeaveRun(r) PROVE LifeInv'
<1> USE LifecycleAssumption DEF Places, LifeInv, LeaveRun, Goto, fields, history, Listeners, Listener
<1>1. LifecycleTypeOK'
  BY DEF LifecycleTypeOK
<1>2. OneRun' /\ StopExcludes'
  BY DEF LifecycleTypeOK, OneRun, StopExcludes, Active
<1>3. DoneForReason'
  BY DEF LifecycleTypeOK, OneRun, DoneForReason, Disturbed, Active
<1>4. Traces'
  BY DEF LifecycleTypeOK, Traces
<1>5. Listening'
  BY DEF LifecycleTypeOK, OneRun, StopExcludes, DoneForReason, Traces, Listening, Disturbed, Active
<1> QED BY <1>1, <1>2, <1>3, <1>4, <1>5

LEMMA RecallStep == ASSUME LifeInv, NEW r \in Runs, Recall(r) PROVE LifeInv'
<1> USE LifecycleAssumption DEF Places, LifeInv, Recall, Goto, fields, history, Listeners, Listener
<1>1. LifecycleTypeOK'
  BY DEF LifecycleTypeOK
<1>2. OneRun' /\ StopExcludes'
  BY DEF LifecycleTypeOK, OneRun, StopExcludes, Active
<1>3. DoneForReason'
  BY DEF LifecycleTypeOK, OneRun, DoneForReason, Disturbed, Active
<1>4. Traces'
  BY DEF LifecycleTypeOK, Traces
<1>5. Listening'
  BY DEF LifecycleTypeOK, OneRun, StopExcludes, DoneForReason, Traces, Listening, Disturbed, Active
<1> QED BY <1>1, <1>2, <1>3, <1>4, <1>5

LEMMA StopCancelStep == ASSUME LifeInv, NEW s \in Stops, StopCancel(s) PROVE LifeInv'
<1> USE LifecycleAssumption DEF Places, LifeInv, StopCancel, Goto, fields, history, Listeners, Listener
<1>1. LifecycleTypeOK'
  BY DEF LifecycleTypeOK, Active
<1>2. OneRun' /\ StopExcludes'
  BY DEF LifecycleTypeOK, OneRun, StopExcludes, Active
<1>3. DoneForReason'
  BY DEF LifecycleTypeOK, OneRun, DoneForReason, Disturbed, Active
<1>4. Traces'
  BY DEF LifecycleTypeOK, Traces
<1>5. Listening'
  BY DEF LifecycleTypeOK, OneRun, StopExcludes, DoneForReason, Traces, Listening, Disturbed, Active
<1> QED BY <1>1, <1>2, <1>3, <1>4, <1>5

LEMMA StopCloseStep == ASSUME LifeInv, NEW s \in Stops, StopClose(s) PROVE LifeInv'
<1> USE LifecycleAssumption DEF Places, LifeInv, StopClose, Goto, fields, history, Listeners, Listener
<1>1. LifecycleTypeOK'
  BY DEF LifecycleTypeOK
<1>2. OneRun' /\ StopExcludes'
  BY DEF LifecycleTypeOK, OneRun, StopExcludes, Active
<1>3. DoneForReason'
  BY DEF LifecycleTypeOK, OneRun, DoneForReason, Disturbed, Active
<1>4. Traces'
  BY DEF LifecycleTypeOK, Traces
<1>5. Listening'
  <2>1. Active \subseteq targets /\ mu # NoCall /\ UNCHANGED <<kind, pc, targets, recalled>>
    BY DEF LifecycleTypeOK, StopExcludes
  <2>2. kind = "own" => \A q \in Runs : pc[q] \in {"assign", "watch", "serve"} => q \in Disturbed
    BY <2>1 DEF Active, Disturbed
  <2>3. CASE kind = "given" /\ Given \in open /\ Given \notin open'
    <3>1. field # NoListener \/ writing # {}
      BY <2>3 DEF FieldRead
    <3>2. \E q \in Runs : pc[q] \in {"assign", "watch", "serve", "join", "close", "leave", "returned"}
      BY <3>1 DEF Traces, LifecycleTypeOK
    <3> QED BY <2>1, <2>3, <3>2 DEF Listening, Active, Disturbed
  <2>4. CASE kind = "given" /\ Given \notin open
    BY <2>1, <2>4 DEF Listening, Active, Disturbed
  <2> QED BY <2>1, <2>2, <2>3, <2>4 DEF Listening, Active, Disturbed
<1> QED BY <1>1, <1>2, <1>3, <1>4, <1>5

LEMMA LifeInductive == LifecycleSpec => []LifeInv
<1>1. LifeInv /\ UNCHANGED lifecycleVars => LifeInv'
  BY DEF LifeInv, lifecycleVars, fields, history, LifecycleTypeOK, OneRun, StopExcludes, DoneForReason, Traces, Listening, Disturbed,
         Active, Listeners
<1>2. ASSUME NEW r \in Runs, LifeInv, Run(r) PROVE LifeInv'
  BY <1>2, EnterStep, ListenStep, ListenFailsStep, BeginAssignStep, EndAssignStep, StartWatcherStep,
     NoticeDoneStep, ChooseRelayStep, BeginSessionStep, ServerStopsStep, CloseListenerStep, LeaveStep
  DEF Run
<1>3. LifeInv /\ [LifecycleNext]_lifecycleVars => LifeInv'
  BY <1>1, <1>2, JoinAnsweredStep, WatcherStep, RecallStep, StopCancelStep, StopCloseStep DEF LifecycleNext, Stop
<1> QED BY <1>3, InitLifeInv, PTL DEF LifecycleSpec

-----------------------------------------------------------------------------
(* The theorems. *)

\* Every variable of the lifecycle has its type (client.go:109-150, 221-230;
\* server.go:57-127).
THEOREM LifecycleTypeCorrect == LifecycleSpec => []LifecycleTypeOK
<1>1. LifeInv => LifecycleTypeOK
  BY DEF LifeInv
<1> QED BY <1>1, LifeInductive, PTL

\* A Run that neither its caller nor a Stop has ended keeps its context and its
\* listener, whatever earlier Runs and Stops have left behind (client.go:109-147, 221-230).
THEOREM UndisturbedRunsServe ==
  LifecycleSpec => []UndisturbedRunServes
<1>1. ASSUME LifeInv, NEW r \in Active \ (targets \cup recalled)
      PROVE  /\ r \notin done
             /\ pc[r] = "listen" => open \cap Runs = {}
             /\ pc[r] \in {"assign", "watch", "serve"} =>
                  \/ kind = "server" \/ Listener(r) \in open
                  \/ kind = "given" /\ \E q \in Runs \ {r} : pc[q] = "returned"
  <2>1. r \in Runs /\ r \notin Disturbed /\ pc[r] # "returned"
    BY DEF Active, Places, Disturbed
  <2>2. r \notin done
    BY <1>1, <2>1 DEF LifeInv, DoneForReason
  <2>3. pc[r] = "listen" => open \cap Runs = {}
    BY <1>1, <2>1 DEF LifeInv, OneRun, Traces, Active, Places
  <2>4. CASE kind = "own"
    BY <1>1, <2>1, <2>2, <2>3, <2>4 DEF LifeInv, Listening, Listener
  <2>5. CASE kind = "given"
    BY <1>1, <2>1, <2>2, <2>3, <2>5 DEF LifeInv, OneRun, Listening, Listener
  <2> QED BY <1>1, <2>2, <2>3, <2>4, <2>5 DEF LifeInv, LifecycleTypeOK
<1>2. LifeInv => UndisturbedRunServes
  BY <1>1 DEF UndisturbedRunServes
<1> QED BY <1>2, LifeInductive, PTL
=============================================================================
