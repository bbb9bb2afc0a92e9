---------------------------- MODULE Client_proofs ---------------------------
(***************************************************************************)
(* Proofs about the client's session management, for any number of local   *)
(* connections and of sessions.  The inductive invariant IInv adds nothing *)
(* to what TLC checks: type correctness, the lock discipline               *)
(* (OneEstablisher), SingleLiveSession and HeldGenIdentifiesSession are    *)
(* inductive together, the lock discipline being what the last two need.   *)
(*                                                                         *)
(* The last part is about the establishment of a session (the step that    *)
(* ClientSession takes under the lock), for any set of relays, any number  *)
(* of attempts and any amount of trouble.                                  *)
(***************************************************************************)
EXTENDS ClientSession, ClientEstablish, TLAPS

IInv == /\ TypeOK
        /\ OneEstablisher
        /\ SingleLiveSession
        /\ HeldGenIdentifiesSession

-----------------------------------------------------------------------------
(* Type correctness. *)

\* Every variable keeps its type whatever step is taken, and a goroutine only
\* gets to a place that dereferences its session with a session in hand.
LEMMA TypeStep == TypeOK /\ [Next]_vars => TypeOK'
<1> SUFFICES ASSUME TypeOK, [Next]_vars PROVE TypeOK'
  OBVIOUS
<1> USE DistinctNames DEF TypeOK, Procs, PCs, UsesSession, NoHold
<1>1. CASE Cancel \/ CloseListener \/ RunReturns
  BY <1>1 DEF Cancel, CloseListener, RunReturns
<1>2. ASSUME NEW p \in Procs, Loop(p) PROVE TypeOK'
  <2>1. CASE Check(p)
    BY <2>1 DEF Check, Restart, Continue, Goto
  <2>2. CASE ReadSession(p)
    BY <2>2 DEF ReadSession, SessionLive, ReturnCurrent, Use, Continue, Goto
  <2>3. CASE LockSession(p)
    BY <2>3 DEF LockSession, SessionLive, ReturnCurrent, Use, Continue, Goto,
                Closed
  <2>4. CASE EstablishOk(p)
    BY <2>4 DEF EstablishOk, Unborn, Use, Goto
  <2>5. CASE EstablishFail(p)
    BY <2>5 DEF EstablishFail, Restart, Goto
  <2>6. CASE BackoffCancelled(p)
    BY <2>6 DEF BackoffCancelled, Restart, Goto
  <2>7. CASE BackoffTimer(p)
    BY <2>7 DEF BackoffTimer, Goto
  <2>8. QED
    BY <1>2, <2>1, <2>2, <2>3, <2>4, <2>5, <2>6, <2>7
    DEF Loop, GetSession, Wait
<1>3. ASSUME NEW h \in Handlers, Accept(h) \/ CopyEnds(h) PROVE TypeOK'
  <2>1. CASE Accept(h)
    BY <2>1 DEF Accept, Goto
  <2>2. CASE CopyEnds(h)
    BY <2>2 DEF CopyEnds, Restart, Goto
  <2>3. QED BY <1>3, <2>1, <2>2
<1>4. ASSUME NEW h \in Handlers, OpenOk(h) \/ OpenFail(h) \/ Invalidate(h)
      PROVE TypeOK'
  <2>1. CASE OpenOk(h)
    BY <2>1 DEF OpenOk, Goto
  <2>2. CASE OpenFail(h)
    BY <2>2 DEF OpenFail, Goto
  <2>3. CASE Invalidate(h)
    <3>1. mux' \in [Sessions -> {"unborn", "open", "closed"}]
      BY <2>3 DEF Invalidate, Closed
    <3>2. session' \in Sessions \cup {Nil} /\ reportedLost' \in SUBSET Nat
      BY <2>3 DEF Invalidate
    <3>3. pc' \in [Procs -> PCs]
      BY <2>3 DEF Invalidate, Goto
    <3>4. \A p \in Procs : pc'[p] \in UsesSession => held'[p].session \in Sessions
      BY <2>3 DEF Invalidate, Goto
    <3>5. QED BY <2>3, <3>1, <3>2, <3>3, <3>4 DEF Invalidate
  <2>4. QED BY <1>4, <2>1, <2>2, <2>3
<1>5. CASE WatchLost \/ WatchCancelled
  <2>1. CASE WatchLost
    BY <2>1 DEF WatchLost, Restart, Goto
  <2>2. CASE WatchCancelled
    BY <2>2 DEF WatchCancelled, Restart, Goto
  <2>3. QED BY <1>5, <2>1, <2>2
<1>6. ASSUME NEW s \in Sessions, LoseSession(s) PROVE TypeOK'
  BY <1>6 DEF LoseSession, Closed
<1>7. CASE UNCHANGED vars
  BY <1>7 DEF vars
<1> HIDE DEF TypeOK, PCs, UsesSession, NoHold
<1>8. QED
  BY <1>1, <1>2, <1>3, <1>4, <1>5, <1>6, <1>7 DEF Next, Maintain, Handle

LEMMA TypeInit == Init => TypeOK
<1> SUFFICES ASSUME Init PROVE TypeOK
  OBVIOUS
<1>1. pc \in [Procs -> {"check", "idle"}]
  BY DEF Init
<1>2. pc \in [Procs -> PCs] /\ \A p \in Procs : pc[p] \notin UsesSession
  BY <1>1 DEF PCs, UsesSession
<1>3. held \in [Procs -> [session : Sessions \cup {Nil}, gen : Nat]]
  BY DEF Init, NoHold
<1>4. QED
  BY <1>2, <1>3 DEF Init, TypeOK

\* Type correctness of the session management (client.go:34-52, 232-321).
THEOREM TypeCorrect == Spec => []TypeOK
BY TypeInit, TypeStep, PTL DEF Spec

-----------------------------------------------------------------------------
(* The steps that touch neither the lock, the session, its generation nor   *)
(* the life of any session.                                                 *)

SharedVars == <<muxMu, session, sessionGen, mux>>

\* A step changes the shared state only if it is one of six; every other step
\* leaves it alone and neither enters nor leaves the establishment.
LEMMA SharedStep ==
  ASSUME TypeOK, [Next]_vars
  PROVE \/ \E p \in Procs : LockSession(p) \/ EstablishOk(p) \/ EstablishFail(p)
        \/ \E h \in Handlers : Invalidate(h)
        \/ \E s \in Sessions : LoseSession(s)
        \/ /\ UNCHANGED SharedVars
           /\ \A p \in Procs : pc'[p] = "establish" <=> pc[p] = "establish"
           /\ \A p \in Procs : \/ held'[p] = held[p] \/ held'[p] = NoHold
                               \/ held'[p] = [session |-> session, gen |-> sessionGen]
<1> DEFINE Quiet ==
      /\ UNCHANGED SharedVars
      /\ \A p \in Procs : pc'[p] = "establish" <=> pc[p] = "establish"
      /\ \A p \in Procs : \/ held'[p] = held[p] \/ held'[p] = NoHold
                          \/ held'[p] = [session |-> session, gen |-> sessionGen]
<1>0. pc \in [Procs -> PCs] /\ DOMAIN held = Procs
  BY DEF TypeOK
<1>1. CASE Cancel \/ CloseListener \/ RunReturns \/ UNCHANGED vars
  <2>1. Quiet
    BY <1>1 DEF Cancel, CloseListener, RunReturns, vars, SharedVars
  <2>2. QED BY <2>1
<1>2. ASSUME NEW p \in Procs, Check(p) \/ ReadSession(p) \/ Wait(p)
      PROVE Quiet
  <2>1. CASE Check(p)
    BY <1>0, <2>1 DEF Check, Restart, Continue, Goto, SharedVars
  <2>2. CASE ReadSession(p)
    BY <1>0, <2>2
    DEF ReadSession, ReturnCurrent, Continue, Use, Goto, SharedVars
  <2>3. CASE BackoffCancelled(p)
    BY <1>0, <2>3 DEF BackoffCancelled, Restart, Goto, SharedVars
  <2>4. CASE BackoffTimer(p)
    BY <1>0, <2>4 DEF BackoffTimer, Goto, SharedVars
  <2>5. QED BY <1>2, <2>1, <2>2, <2>3, <2>4 DEF Wait
<1>3. ASSUME NEW h \in Handlers,
             Accept(h) \/ OpenOk(h) \/ OpenFail(h) \/ CopyEnds(h)
      PROVE Quiet
  <2>0. h \in Procs
    BY DEF Procs
  <2>1. CASE Accept(h)
    BY <1>0, <2>0, <2>1 DEF Accept, Goto, SharedVars
  <2>2. CASE OpenOk(h)
    BY <1>0, <2>0, <2>2 DEF OpenOk, Goto, SharedVars
  <2>3. CASE OpenFail(h)
    BY <1>0, <2>0, <2>3 DEF OpenFail, Goto, SharedVars
  <2>4. CASE CopyEnds(h)
    BY <1>0, <2>0, <2>4 DEF CopyEnds, Restart, Goto, SharedVars
  <2>5. QED BY <1>3, <2>1, <2>2, <2>3, <2>4
<1>4. CASE WatchLost \/ WatchCancelled
  <2>0. Maint \in Procs
    BY DEF Procs
  <2>1. CASE WatchLost
    BY <1>0, <2>0, <2>1 DEF WatchLost, Restart, Goto, SharedVars
  <2>2. CASE WatchCancelled
    BY <1>0, <2>0, <2>2 DEF WatchCancelled, Restart, Goto, SharedVars
  <2>3. QED BY <1>4, <2>1, <2>2
<1> HIDE DEF Quiet
<1>5. QED
  <2>1. CASE Maintain
    BY <2>1, <1>2, <1>4 DEF Maintain, Loop, GetSession, Procs, Quiet
  <2>2. ASSUME NEW h \in Handlers, Accept(h) \/ Handle(h) \/ CopyEnds(h)
        PROVE Quiet \/ Invalidate(h)
              \/ LockSession(h) \/ EstablishOk(h) \/ EstablishFail(h)
    BY <2>2, <1>2, <1>3 DEF Handle, Loop, GetSession, Procs
  <2>3. QED
    BY <1>1, <2>1, <2>2 DEF Next, Procs, Quiet

-----------------------------------------------------------------------------
(* The inductive invariant. *)

LEMMA LockStep ==
  ASSUME TypeOK, OneEstablisher, [Next]_vars
  PROVE OneEstablisher'
<1> USE DEF OneEstablisher, TypeOK
<1>1. CASE \E p \in Procs : LockSession(p)
  BY <1>1, DistinctNames
  DEF LockSession, ReturnCurrent, Continue, Use, Goto
<1>2. CASE \E p \in Procs : EstablishOk(p)
  BY <1>2, DistinctNames DEF EstablishOk, Use, Goto
<1>3. CASE \E p \in Procs : EstablishFail(p)
  BY <1>3, DistinctNames DEF EstablishFail, Restart, Goto
<1>4. CASE \E h \in Handlers : Invalidate(h)
  BY <1>4, DistinctNames DEF Invalidate, Goto, Procs
<1>5. CASE \E s \in Sessions : LoseSession(s)
  BY <1>5 DEF LoseSession
<1>6. QED
  BY <1>1, <1>2, <1>3, <1>4, <1>5, SharedStep DEF SharedVars

LEMMA LiveStep ==
  ASSUME TypeOK, OneEstablisher, SingleLiveSession, [Next]_vars
  PROVE SingleLiveSession'
<1> USE DEF SingleLiveSession, OpenSessions
<1>1. CASE \E p \in Procs : LockSession(p)
  BY <1>1 DEF LockSession, ReturnCurrent, Continue, Closed, SessionLive, TypeOK
<1>2. ASSUME NEW p \in Procs, EstablishOk(p) PROVE SingleLiveSession'
  <2>1. session = Nil
    BY <1>2, DistinctNames DEF EstablishOk, OneEstablisher
  <2>2. \A s \in Sessions : mux[s] # "open"
    BY <2>1, DistinctNames
  <2>3. QED BY <1>2, <2>2 DEF EstablishOk, TypeOK
<1>3. CASE \E p \in Procs : EstablishFail(p)
  BY <1>3 DEF EstablishFail
<1>4. CASE \E h \in Handlers : Invalidate(h)
  BY <1>4 DEF Invalidate, Closed
<1>5. CASE \E s \in Sessions : LoseSession(s)
  BY <1>5 DEF LoseSession, Closed
<1>6. QED
  BY <1>1, <1>2, <1>3, <1>4, <1>5, SharedStep DEF SharedVars

LEMMA HeldStep ==
  ASSUME TypeOK, HeldGenIdentifiesSession, [Next]_vars
  PROVE HeldGenIdentifiesSession'
<1> USE DEF HeldGenIdentifiesSession
<1>1. CASE \E p \in Procs : LockSession(p)
  BY <1>1 DEF LockSession, ReturnCurrent, Continue, TypeOK
<1>2. ASSUME NEW p \in Procs, EstablishOk(p) PROVE HeldGenIdentifiesSession'
  <2>1. PICK s \in Sessions :
          /\ session' = s
          /\ held' = [held EXCEPT ![p] = [session |-> s, gen |-> sessionGen + 1]]
    BY <1>2 DEF EstablishOk, Unborn
  <2>2. sessionGen' = sessionGen + 1 /\ sessionGen \in Nat
    BY <1>2 DEF EstablishOk, TypeOK
  <2>3. \A q \in Procs : held[q].gen \in Nat /\ held[q].gen <= sessionGen
    BY DEF TypeOK
  <2>4. \A q \in Procs : q # p => held'[q] = held[q]
    BY <2>1 DEF TypeOK
  <2>5. held'[p].session = session' /\ held'[p].gen = sessionGen'
    BY <2>1, <2>2 DEF TypeOK
  <2>6. QED BY <2>2, <2>3, <2>4, <2>5
<1>3. CASE \E p \in Procs : EstablishFail(p)
  BY <1>3 DEF EstablishFail, Restart, NoHold, TypeOK
<1>4. CASE \E h \in Handlers : Invalidate(h)
  BY <1>4 DEF Invalidate
<1>5. CASE \E s \in Sessions : LoseSession(s)
  BY <1>5 DEF LoseSession
<1>6. QED
  BY <1>1, <1>2, <1>3, <1>4, <1>5, SharedStep DEF SharedVars, NoHold, TypeOK

LEMMA IInvInit == Init => IInv
<1> SUFFICES ASSUME Init PROVE IInv
  OBVIOUS
<1>1. TypeOK
  BY TypeInit
<1>2. OneEstablisher
  BY DistinctNames DEF Init, OneEstablisher
<1>3. SingleLiveSession
  BY DEF Init, SingleLiveSession, OpenSessions
<1>4. HeldGenIdentifiesSession
  BY DEF Init, HeldGenIdentifiesSession, NoHold
<1>5. QED BY <1>1, <1>2, <1>3, <1>4 DEF IInv

LEMMA IInvStep == IInv /\ [Next]_vars => IInv'
BY TypeStep, LockStep, LiveStep, HeldStep DEF IInv

LEMMA IInvAlways == Spec => []IInv
BY IInvInit, IInvStep, PTL DEF Spec

\* Never two open sessions, and none that the client has forgotten, however
\* many goroutines establish, lose and invalidate sessions (client.go:279-321,
\* 954-975).
THEOREM NoSecondSession == Spec => []SingleLiveSession
<1>1. IInv => SingleLiveSession
  BY DEF IInv
<1>2. QED BY IInvAlways, <1>1, PTL

\* The establishment is exclusive and always releases the lock
\* (client.go:290-309).
THEOREM EstablishmentIsExclusive == Spec => []OneEstablisher
<1>1. IInv => OneEstablisher
  BY DEF IInv
<1>2. QED BY IInvAlways, <1>1, PTL

\* A remembered generation identifies the session it came with
\* (client.go:247-253, 958).
THEOREM GenerationsIdentifySessions == Spec => []HeldGenIdentifiesSession
<1>1. IInv => HeldGenIdentifiesSession
  BY DEF IInv
<1>2. QED BY IInvAlways, <1>1, PTL

-----------------------------------------------------------------------------
(* The action property and the refinement. *)

LEMMA CloserFailedOnIt ==
  ASSUME IInv, [Next]_vars,
         NEW s \in OpenSessions, mux'[s] = "closed", pc' # pc
  PROVE \E h \in Handlers : pc[h] = "invalidate" /\ held[h].session = s
<1>0. s \in Sessions /\ mux[s] = "open" /\ session = s /\ session # Nil
  BY DistinctNames DEF IInv, SingleLiveSession, OpenSessions
<1>1. ASSUME NEW p \in Procs, LockSession(p) PROVE FALSE
  BY <1>0, <1>1
  DEF LockSession, SessionLive, ReturnCurrent
<1>2. ASSUME NEW p \in Procs, EstablishOk(p) PROVE FALSE
  BY <1>0, <1>2 DEF EstablishOk, IInv, OneEstablisher, TypeOK
<1>3. ASSUME NEW p \in Procs, EstablishFail(p) PROVE FALSE
  BY <1>0, <1>3 DEF EstablishFail
<1>4. ASSUME NEW h \in Handlers, Invalidate(h)
      PROVE pc[h] = "invalidate" /\ held[h].session = s
  BY <1>0, <1>4
  DEF Invalidate, IInv, HeldGenIdentifiesSession, Procs
<1>5. ASSUME NEW t \in Sessions, LoseSession(t) PROVE FALSE
  BY <1>5 DEF LoseSession
<1>6. QED
  BY <1>0, <1>1, <1>2, <1>3, <1>4, <1>5, SharedStep DEF IInv, SharedVars

\* The client closes a working session only for a handler that failed to open
\* a stream on that very session (client.go:249-253, 293-304, 954-970).
THEOREM OnlyFailedOpenDrops == Spec => OnlyFailedOpenDropsLiveSession
<1>1. IInv /\ [Next]_vars =>
        [\A s \in OpenSessions :
           mux'[s] = "closed" /\ pc' # pc =>
             \E h \in Handlers : pc[h] = "invalidate" /\ held[h].session = s]_vars
  BY CloserFailedOnIt
<1>2. QED
  BY IInvAlways, <1>1, PTL DEF Spec, OnlyFailedOpenDropsLiveSession

LEMMA StepRefines ==
  ASSUME IInv, [Next]_vars PROVE [Abstract!Next]_(Abstract!vars)
<1> USE DEF OpenSessions
<1>1. ASSUME NEW p \in Procs, LockSession(p)
      PROVE UNCHANGED <<OpenSessions, sessionGen>>
  <2>1. CASE SessionLive
    BY <1>1, <2>1 DEF LockSession
  <2>2. CASE ~SessionLive
    <3>1. \A t \in Sessions : mux[t] # "open"
      BY <2>2, DistinctNames DEF SessionLive, IInv, SingleLiveSession
    <3>2. mux' = Closed(session) /\ UNCHANGED sessionGen
      BY <1>1, <2>2 DEF LockSession
    <3>3. OpenSessions = {} /\ OpenSessions' = {}
      BY <3>1, <3>2 DEF Closed
    <3>4. QED BY <3>2, <3>3
  <2>3. QED BY <2>1, <2>2
<1>2. ASSUME NEW p \in Procs, EstablishOk(p) PROVE Abstract!Establish
  <2>1. session = Nil
    BY <1>2, DistinctNames DEF EstablishOk, IInv, OneEstablisher
  <2>2. OpenSessions = {}
    BY <2>1, DistinctNames DEF IInv, SingleLiveSession
  <2>3. PICK s \in Sessions : mux' = [mux EXCEPT ![s] = "open"]
    BY <1>2 DEF EstablishOk, Unborn
  <2>4. OpenSessions' = {s}
    BY <2>2, <2>3 DEF IInv, TypeOK
  <2>5. QED BY <1>2, <2>2, <2>4 DEF Abstract!Establish, EstablishOk
<1>3. ASSUME NEW p \in Procs, EstablishFail(p)
      PROVE UNCHANGED <<OpenSessions, sessionGen>>
  BY <1>3 DEF EstablishFail
<1>4. ASSUME NEW t, mux' = Closed(t) \/ UNCHANGED mux, UNCHANGED sessionGen
      PROVE Abstract!Drop \/ UNCHANGED <<OpenSessions, sessionGen>>
  <2>1. CASE UNCHANGED mux
    BY <1>4, <2>1
  <2>2. CASE mux' = Closed(t)
    <3>1. OpenSessions' = OpenSessions \ {t}
      BY <2>2 DEF Closed, IInv, TypeOK
    <3>2. OpenSessions \subseteq {session}
      BY DEF IInv, SingleLiveSession
    <3>3. OpenSessions' = OpenSessions \/ (OpenSessions # {} /\ OpenSessions' = {})
      BY <3>1, <3>2
    <3>4. QED BY <1>4, <3>3 DEF Abstract!Drop
  <2>3. QED BY <1>4, <2>1, <2>2
<1>5. ASSUME NEW h \in Handlers, Invalidate(h)
      PROVE Abstract!Drop \/ UNCHANGED <<OpenSessions, sessionGen>>
  BY <1>4, <1>5 DEF Invalidate
<1>6. ASSUME NEW s \in Sessions, LoseSession(s)
      PROVE Abstract!Drop \/ UNCHANGED <<OpenSessions, sessionGen>>
  BY <1>4, <1>6 DEF LoseSession
<1> HIDE DEF OpenSessions
<1>7. CASE UNCHANGED SharedVars
  BY <1>7 DEF SharedVars, OpenSessions, Abstract!vars
<1>8. QED
  BY <1>1, <1>2, <1>3, <1>5, <1>6, <1>7, SharedStep
  DEF IInv, Abstract!Next, Abstract!vars

\* Seen through its open sessions and its generation counter the client is the
\* single tunnel of the abstract specification (client.go:279-321, 954-975).
THEOREM ClientIsSingleTunnel == Spec => RefinesSingleTunnel
<1>1. Init => Abstract!Init
  BY DEF Init, Abstract!Init, OpenSessions
<1>2. QED
  BY IInvAlways, <1>1, StepRefines, PTL
  DEF Spec, RefinesSingleTunnel, Abstract!Spec

-----------------------------------------------------------------------------
(* Type correctness of the establishment. *)

LEMMA EstablishTypeInit == EstablishInit => EstablishTypeOK
<1> SUFFICES ASSUME EstablishInit PROVE EstablishTypeOK
  OBVIOUS
<1>1. 0 \in 0..(MaxAttempts - 1) /\ 0 \in 0..MaxTroubles /\ 0 \in 0..MaxMoves
  BY EstablishAssumption
<1>2. entry \in {"client", "dial"} /\ {userURI, hint, configured, relayURI} \subseteq MaybeRelay
  BY DEF EstablishInit
<1>3. {dialled, up, knows} \subseteq SUBSET Relays /\ home \in Relays
  BY DEF EstablishInit
<1>4. {relayConn, tunnelConn} \subseteq MaybeSocket /\ conns \subseteq Sockets
  BY DEF EstablishInit, MaybeSocket
<1>5. QED BY <1>1, <1>2, <1>3, <1>4 DEF EstablishInit, EstablishTypeOK, Stages

\* A step opens one connection, closes one that is held, or leaves them alone.
LEMMA SocketMoves ==
  [EstablishNext]_establishVars =>
    \/ OpenRelayConn \/ OpenTunnelConn
    \/ Close(relayConn) \/ Close(tunnelConn)
    \/ UNCHANGED sockets
<1> SUFFICES ASSUME [EstablishNext]_establishVars
             PROVE  \/ OpenRelayConn \/ OpenTunnelConn
                    \/ Close(relayConn) \/ Close(tunnelConn)
                    \/ UNCHANGED sockets
  OBVIOUS
<1>1. CASE Call \/ StartScan \/ StartAttempt
  BY <1>1 DEF Call, StartScan, StartAttempt
<1>2. CASE DialRelay \/ RelayTLS \/ JoinAnswered
  BY <1>2 DEF DialRelay, RelayTLS, JoinAnswered
<1>3. CASE Invited \/ DialSession \/ SessionJoined \/ ConnectFailed
  BY <1>3 DEF Invited, DialSession, SessionJoined, ConnectFailed
<1>4. CASE Handshake \/ HandshakeFailed
  BY <1>4 DEF Handshake, CompleteBEPHandshake, HandshakeFailed
<1>5. CASE Scan \/ ScanHandshake \/ ScanHandshakeFailed
  BY <1>5 DEF Scan, ScanHandshake, CompleteBEPHandshake, ScanHandshakeFailed
<1>6. CASE LoseTunnel
  BY <1>6 DEF LoseTunnel
<1>7. CASE UNCHANGED call
  BY <1>7 DEF call
<1>8. QED
  BY <1>1, <1>2, <1>3, <1>4, <1>5, <1>6, <1>7
  DEF EstablishNext, Establish, Environment, CancelCaller, RelayDown, RelayUp, ServerMoves,
      GhostExpires, establishVars

LEMMA EstablishTypeStep ==
  EstablishTypeOK /\ [EstablishNext]_establishVars => EstablishTypeOK'
<1> SUFFICES ASSUME EstablishTypeOK, [EstablishNext]_establishVars PROVE EstablishTypeOK'
  OBVIOUS
<1> DEFINE SocketsOK == conns \subseteq Sockets /\ {relayConn, tunnelConn} \subseteq MaybeSocket
<1>0. SocketsOK'
  BY SocketMoves
  DEF EstablishTypeOK, MaybeSocket, OpenRelayConn, OpenTunnelConn, Close, Forget, sockets
<1> USE EstablishAssumption DEF EstablishTypeOK, MaybeRelay, Stages, config, world
<1>1. ASSUME Trouble PROVE /\ UNCHANGED <<callerDone, up, knows, home, moves>>
                             /\ troubles' \in 0..MaxTroubles
  BY <1>1 DEF Trouble
<1>2. ASSUME ReturnError
      PROVE  stage' \in {"idle", "over"} /\ UNCHANGED <<relayURI, attempt>>
  BY <1>2 DEF ReturnError, Proceed, AtRest
<1>3. ASSUME NextAttempt, attempt < MaxAttempts - 1
      PROVE  /\ stage' = "start" /\ UNCHANGED relayURI
             /\ attempt' \in 0..(MaxAttempts - 1)
  BY <1>3 DEF NextAttempt
<1>4. CASE ConnectFailed \/ HandshakeFailed \/ ScanHandshakeFailed
  <2>1. /\ stage' \in {"start", "idle", "over"}
        /\ relayURI' \in {relayURI, NoRelay} /\ attempt' \in 0..(MaxAttempts - 1)
    BY <1>2, <1>3, <1>4 DEF ConnectFailed, HandshakeFailed, ScanHandshakeFailed
  <2>2. UNCHANGED <<dialled, config, world>>
    BY <1>4 DEF ConnectFailed, HandshakeFailed, ScanHandshakeFailed
  <2>3. QED BY <1>0, <2>1, <2>2
<1>5. CASE Call \/ StartScan \/ StartAttempt
  <2>1. 0 \in 0..(MaxAttempts - 1)
    OBVIOUS
  <2>2. CASE Call
    BY <1>0, <2>1, <2>2 DEF Call
  <2>3. CASE StartScan
    BY <1>0, <1>2, <2>3 DEF StartScan, Proceed
  <2>4. CASE StartAttempt
    BY <1>0, <1>2, <2>4 DEF StartAttempt, Proceed
  <2>5. QED BY <1>5, <2>2, <2>3, <2>4
<1>6. ASSUME NEW reason, FailsIf(reason)
      PROVE  /\ callerDone' \in BOOLEAN /\ {up', knows'} \subseteq SUBSET Relays
             /\ home' \in Relays /\ troubles' \in 0..MaxTroubles /\ moves' \in 0..MaxMoves
  BY <1>1, <1>6 DEF FailsIf
<1>7. CASE DialRelay \/ RelayTLS \/ JoinAnswered
  BY <1>0, <1>6, <1>7 DEF DialRelay, RelayTLS, JoinAnswered, Proceed
<1>8. CASE Invited \/ DialSession \/ SessionJoined
  BY <1>0, <1>6, <1>8 DEF Invited, DialSession, SessionJoined, Proceed
<1>9. CASE Handshake \/ ScanHandshake
  BY <1>0, <1>6, <1>9 DEF Handshake, ScanHandshake, CompleteBEPHandshake, Proceed
<1>10. CASE Scan
  BY <1>0, <1>2, <1>6, <1>10 DEF Scan
<1>12. CASE LoseTunnel
  BY <1>0, <1>1, <1>12 DEF LoseTunnel, Proceed, AtRest
<1>13. CASE CancelCaller
  BY <1>0, <1>13 DEF CancelCaller, call
<1>14. ASSUME NEW r \in Relays,
              RelayDown(r) \/ RelayUp(r) \/ ServerMoves(r) \/ GhostExpires(r)
       PROVE  EstablishTypeOK'
  <2>1. CASE RelayDown(r)
    BY <1>0, <2>1 DEF RelayDown, call
  <2>2. CASE RelayUp(r)
    BY <1>0, <2>2 DEF RelayUp, call
  <2>3. CASE ServerMoves(r)
    BY <1>0, <2>3 DEF ServerMoves, call
  <2>4. CASE GhostExpires(r)
    BY <1>0, <2>4 DEF GhostExpires, call
  <2>5. QED BY <1>14, <2>1, <2>2, <2>3, <2>4
<1>15. CASE UNCHANGED establishVars
  BY <1>0, <1>15 DEF establishVars, call
<1>16. QED
  BY <1>4, <1>5, <1>7, <1>8, <1>9, <1>10, <1>12, <1>13, <1>14, <1>15
  DEF EstablishNext, Establish, Environment

\* Every variable has its type, the attempts never run past their limit, and no
\* stage on a known relay is reached without one (client.go:350-388).
THEOREM EstablishTypeCorrect == EstablishSpec => []EstablishTypeOK
<1>1. QED BY EstablishTypeInit, EstablishTypeStep, PTL DEF EstablishSpec

-----------------------------------------------------------------------------
(* A fixed relay is kept.  What makes the property inductive is that a       *)
(* fixed configuration has a relay and therefore never gets to a scan.       *)

ScanStages == {"scan", "scanbep", "scanunshaken"}

FixedInv ==
  isFixed => /\ configured # NoRelay
             /\ relayURI = configured
             /\ dialled \subseteq {configured}
             /\ stage \notin ScanStages

LEMMA FixedInit == EstablishInit => FixedInv
BY EstablishAssumption DEF EstablishInit, DialContext, NewClient, FixedInv, ScanStages

LEMMA FixedStep == FixedInv /\ [EstablishNext]_establishVars => FixedInv'
<1> SUFFICES ASSUME FixedInv, [EstablishNext]_establishVars, isFixed' PROVE FixedInv'
  BY DEF FixedInv
<1>0. UNCHANGED config
  BY DEF EstablishNext, Call, Establish, StartScan, StartAttempt, DialRelay, RelayTLS, Invited,
         DialSession, SessionJoined, ConnectFailed, Handshake, HandshakeFailed,
         CompleteBEPHandshake, Scan, ScanHandshake, ScanHandshakeFailed, JoinAnswered,
         Environment, CancelCaller, LoseTunnel, RelayDown, RelayUp, ServerMoves,
         GhostExpires, establishVars
<1>1. isFixed /\ UNCHANGED <<isFixed, configured, entry>>
  BY <1>0 DEF config
<1>2. /\ configured # NoRelay /\ relayURI = configured
      /\ dialled \subseteq {configured} /\ stage \notin ScanStages
  BY <1>1 DEF FixedInv
<1> SUFFICES /\ relayURI' = configured
             /\ dialled' \subseteq {configured}
             /\ stage' \notin ScanStages
  BY <1>1, <1>2 DEF FixedInv
<1> USE DEF ScanStages
<1>3. CASE Call
  BY <1>2, <1>3 DEF Call
<1>4. CASE StartScan
  BY <1>2, <1>4 DEF StartScan
<1>5. CASE StartAttempt
  BY <1>2, <1>5 DEF StartAttempt, ReturnError, AtRest, Proceed
<1>6. CASE ConnectFailed
  BY <1>1, <1>2, <1>6 DEF ConnectFailed, NextAttempt, ReturnError, Proceed, AtRest
<1>7. CASE DialRelay \/ RelayTLS \/ JoinAnswered
  BY <1>2, <1>7 DEF DialRelay, RelayTLS, JoinAnswered, Proceed
<1>8. CASE Invited \/ DialSession \/ SessionJoined
  BY <1>2, <1>8 DEF Invited, DialSession, SessionJoined, Proceed
<1>9. CASE Handshake
  BY <1>2, <1>9 DEF Handshake, CompleteBEPHandshake, Proceed
<1>10. CASE HandshakeFailed
  BY <1>2, <1>10 DEF HandshakeFailed, NextAttempt, ReturnError, Proceed, AtRest
<1>11. CASE Scan \/ ScanHandshake \/ ScanHandshakeFailed
  BY <1>2, <1>11 DEF Scan, ScanHandshake, ScanHandshakeFailed
<1>12. CASE LoseTunnel
  BY <1>2, <1>12 DEF LoseTunnel, Proceed, AtRest
<1>13. CASE UNCHANGED call
  BY <1>2, <1>13 DEF call
<1>14. QED
  BY <1>3, <1>4, <1>5, <1>6, <1>7, <1>8, <1>9, <1>10, <1>11, <1>12, <1>13
  DEF EstablishNext, Establish, Environment, CancelCaller, RelayDown, RelayUp, ServerMoves,
      GhostExpires, establishVars

\* A relay the caller fixed is never exchanged for another, whatever fails
\* (client.go:65-69, 324-327, 363-370; helpers.go:126-134).
THEOREM FixedRelayIsKept ==
  EstablishSpec => []FixedRelayKept
<1>1. FixedInv => FixedRelayKept
  BY DEF FixedInv, FixedRelayKept
<1>2. QED BY FixedInit, FixedStep, <1>1, PTL DEF EstablishSpec

-----------------------------------------------------------------------------
(* No connection leaks.  The property is inductive once it says which of the *)
(* two connections each stage holds: a function that closes the one it holds *)
(* then leaves nothing open, and one that opens a connection held none.      *)

RelayStages == {"tls", "join", "invite"}
TunnelStages == {"session", "bep", "unshaken", "scanbep", "scanunshaken", "connected"}

HeldConn ==
  /\ conns = {relayConn, tunnelConn} \ {NoSocket}
  /\ relayConn # NoSocket <=> stage \in RelayStages
  /\ tunnelConn # NoSocket <=> stage \in TunnelStages

LEMMA HeldConnInit == EstablishInit => HeldConn
BY DEF EstablishInit, HeldConn, RelayStages, TunnelStages

LEMMA HeldConnStep ==
  HeldConn /\ [EstablishNext]_establishVars => HeldConn'
<1> SUFFICES ASSUME HeldConn, [EstablishNext]_establishVars PROVE HeldConn'
  OBVIOUS
<1> USE EstablishAssumption DEF HeldConn, RelayStages, TunnelStages, Proceed
<1>1. ASSUME UNCHANGED sockets, stage \notin RelayStages \cup TunnelStages,
             stage' \notin RelayStages \cup TunnelStages
      PROVE  HeldConn'
  BY <1>1 DEF sockets
<1>2. ASSUME stage \in RelayStages, Close(relayConn),
             stage' \notin RelayStages \cup TunnelStages
      PROVE  HeldConn'
  BY <1>2 DEF Close, Forget
<1>3. ASSUME stage \in TunnelStages, Close(tunnelConn),
             stage' \notin RelayStages \cup TunnelStages
      PROVE  HeldConn'
  BY <1>3 DEF Close, Forget
<1>4. ASSUME ReturnError PROVE stage' \notin RelayStages \cup TunnelStages
  BY <1>4 DEF ReturnError, AtRest
<1>5. ASSUME NextAttempt PROVE stage' \notin RelayStages \cup TunnelStages
  BY <1>5 DEF NextAttempt
<1>6. CASE Call
  BY <1>1, <1>6 DEF Call
<1>7. CASE StartScan \/ StartAttempt
  BY <1>1, <1>4, <1>7 DEF StartScan, StartAttempt
<1>8. CASE DialRelay
  BY <1>1, <1>8 DEF DialRelay, OpenRelayConn
<1>9. CASE RelayTLS \/ JoinAnswered
  BY <1>2, <1>9 DEF RelayTLS, JoinAnswered, sockets
<1>10. CASE Invited
  BY <1>2, <1>10 DEF Invited
<1>11. CASE DialSession
  BY <1>1, <1>11 DEF DialSession, OpenTunnelConn
<1>12. CASE SessionJoined
  BY <1>3, <1>12 DEF SessionJoined, sockets
<1>13. CASE ConnectFailed
  BY <1>1, <1>4, <1>5, <1>13 DEF ConnectFailed
<1>14. CASE Handshake \/ ScanHandshake
  BY <1>14 DEF Handshake, ScanHandshake, CompleteBEPHandshake, sockets
<1>15. CASE HandshakeFailed \/ ScanHandshakeFailed
  BY <1>3, <1>4, <1>5, <1>15 DEF HandshakeFailed, ScanHandshakeFailed
<1>16. CASE Scan
  BY <1>1, <1>4, <1>16 DEF Scan, OpenTunnelConn
<1>17. CASE LoseTunnel
  BY <1>3, <1>17 DEF LoseTunnel, AtRest
<1>18. CASE UNCHANGED call
  BY <1>18 DEF call, sockets
<1>19. QED
  BY <1>6, <1>7, <1>8, <1>9, <1>10, <1>11, <1>12, <1>13, <1>14, <1>15, <1>16, <1>17, <1>18
  DEF EstablishNext, Establish, Environment, CancelCaller, RelayDown, RelayUp, ServerMoves,
      GhostExpires, establishVars

\* On every way through the attempts, the fallback and the handshakes, each
\* connection that is opened is closed by the one function that has to, and
\* nothing stays open but a session's (client.go:323-391, 735-952).
THEOREM NoConnectionLeaks == EstablishSpec => []NoConnLeak
<1>1. HeldConn => NoConnLeak
  BY DEF HeldConn, NoConnLeak, RelayStages, TunnelStages
<1>2. QED BY HeldConnInit, HeldConnStep, <1>1, PTL DEF EstablishSpec
=============================================================================
