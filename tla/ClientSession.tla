--------------------------- MODULE ClientSession ---------------------------
(***************************************************************************)
(* The session management of the client (src/client.go): the goroutines of *)
(* Client.Run - the accept loop, the closer of the listener, the           *)
(* connectivity maintenance - and one handleConnection goroutine per local *)
(* connection, which share the current yamux session under muxMu.          *)
(*                                                                         *)
(* establishNewSession is one step here that succeeds or fails while muxMu *)
(* is held (module ClientEstablish opens it up).  The yamux session and    *)
(* the BEP connection under it are one identity: the code assigns and      *)
(* closes them together, and closing a session closes its connection.      *)
(* Backoff durations and pauses are left out: only that a wait ends, or is *)
(* cut short by the context, is kept.                                      *)
(***************************************************************************)
EXTENDS Naturals, FiniteSets

CONSTANTS
  Handlers,   \* slots for handleConnection goroutines; a slot is used again
  Maint,      \* the connectivity maintenance goroutine
  Sessions,   \* the yamux sessions that can come to life
  Nil,        \* Go's nil
  NoProc      \* owner of muxMu while it is not write-locked

Procs == Handlers \cup {Maint}

ASSUME DistinctNames == /\ Maint \notin Handlers
                        /\ NoProc \notin Procs
                        /\ Nil \notin Sessions

VARIABLES
  ctxDone,      \* the context of Run is cancelled
  listener,     \* "open" or "closed"
  run,          \* "accepting" until Run has returned
  muxMu,        \* who holds the write lock
  session,      \* c.session (and c.bepConn)
  sessionGen,   \* c.sessionGen
  mux,          \* the life of each session
  pc,           \* where each goroutine is
  held,         \* the (session, generation) getSessionWithGen gave each one
  reportedLost  \* the generations OnTunnelLost was called for

vars == <<ctxDone, listener, run, muxMu, session, sessionGen, mux, pc, held,
          reportedLost>>

NoHold == [session |-> Nil, gen |-> 0]

PCs == {"idle", "check", "rlock", "wlock", "establish", "open", "invalidate",
        "backoff", "copy", "watch"}

\* The places where a goroutine dereferences the session it was given.
UsesSession == {"open", "invalidate", "copy", "watch"}

\* Every variable has its type, and no goroutine ever uses a nil session: what
\* getSessionWithGen returns without an error is a session (client.go:247-249,
\* 165-194).
TypeOK ==
  /\ ctxDone \in BOOLEAN
  /\ listener \in {"open", "closed"}
  /\ run \in {"accepting", "returned"}
  /\ muxMu \in Procs \cup {NoProc}
  /\ session \in Sessions \cup {Nil}
  /\ sessionGen \in Nat
  /\ mux \in [Sessions -> {"unborn", "open", "closed"}]
  /\ pc \in [Procs -> PCs]
  /\ held \in [Procs -> [session : Sessions \cup {Nil}, gen : Nat]]
  /\ \A p \in Procs : pc[p] \in UsesSession => held[p].session \in Sessions
  /\ reportedLost \in SUBSET Nat

Init ==
  /\ ctxDone = FALSE
  /\ listener = "open"
  /\ run = "accepting"
  /\ muxMu = NoProc
  /\ session = Nil
  /\ sessionGen = 0
  /\ mux = [s \in Sessions |-> "unborn"]
  /\ pc = [p \in Procs |-> IF p = Maint THEN "check" ELSE "idle"]
  /\ held = [p \in Procs |-> NoHold]
  /\ reportedLost = {}

Unborn == {s \in Sessions : mux[s] = "unborn"}
OpenSessions == {s \in Sessions : mux[s] = "open"}

\* c.session != nil && !c.session.IsClosed()
SessionLive == session # Nil /\ mux[session] = "open"

\* session.Close(), a no-op on nil and on a closed session.
Closed(s) == [t \in Sessions |-> IF t = s THEN "closed" ELSE mux[t]]

Goto(p, label) == pc' = [pc EXCEPT ![p] = label]

\* The goroutine goes on with (or without) a session, or ends and forgets it.
Continue(p, label) == Goto(p, label) /\ UNCHANGED held
Restart(p, label) == Goto(p, label) /\ held' = [held EXCEPT ![p] = NoHold]

\* Where a goroutine goes with the session it asked for.
Use(p) == IF p = Maint THEN "watch" ELSE "open"

\* getSessionWithGen returns the current session and its generation.
ReturnCurrent(p) ==
  /\ held' = [held EXCEPT ![p] = [session |-> session, gen |-> sessionGen]]
  /\ Goto(p, Use(p))

-----------------------------------------------------------------------------
(* The accept loop, the closer of the listener, and Run's end. *)

\* Accept succeeds and a handleConnection goroutine starts.
Accept(h) ==
  /\ run = "accepting" /\ listener = "open"
  /\ pc[h] = "idle"
  /\ Goto(h, "check")
  /\ UNCHANGED <<ctxDone, listener, run, muxMu, session, sessionGen, mux, held,
                 reportedLost>>

\* Stop, or the caller's own context, cancels the context of Run.
Cancel ==
  /\ ~ctxDone
  /\ ctxDone' = TRUE
  /\ UNCHANGED <<listener, run, muxMu, session, sessionGen, mux, pc, held,
                 reportedLost>>

CloseListener ==
  /\ ctxDone /\ listener = "open"
  /\ listener' = "closed"
  /\ UNCHANGED <<ctxDone, run, muxMu, session, sessionGen, mux, pc, held,
                 reportedLost>>

\* Accept fails on the closed listener and the loop sees the context done.
RunReturns ==
  /\ run = "accepting" /\ listener = "closed" /\ ctxDone
  /\ run' = "returned"
  /\ UNCHANGED <<ctxDone, listener, muxMu, session, sessionGen, mux, pc, held,
                 reportedLost>>

-----------------------------------------------------------------------------
(* getSessionWithGen, called by every goroutine. *)

\* The head of both loops: leave when the context is done.
Check(p) ==
  /\ pc[p] = "check"
  /\ IF ctxDone THEN Restart(p, "idle") ELSE Continue(p, "rlock")
  /\ UNCHANGED <<ctxDone, listener, run, muxMu, session, sessionGen, mux,
                 reportedLost>>

\* The read-locked fast path.
ReadSession(p) ==
  /\ pc[p] = "rlock" /\ muxMu = NoProc
  /\ IF SessionLive
       THEN ReturnCurrent(p)
       ELSE Continue(p, "wlock")
  /\ UNCHANGED <<ctxDone, listener, run, muxMu, session, sessionGen, mux,
                 reportedLost>>

\* The write lock: a session another goroutine made meanwhile is used, a dead
\* one is closed and a new one is established with the lock held.
LockSession(p) ==
  /\ pc[p] = "wlock" /\ muxMu = NoProc
  /\ IF SessionLive
       THEN ReturnCurrent(p) /\ UNCHANGED <<muxMu, session, mux>>
       ELSE /\ muxMu' = p
            /\ mux' = Closed(session)
            /\ session' = Nil
            /\ Continue(p, "establish")
  /\ UNCHANGED <<ctxDone, listener, run, sessionGen, reportedLost>>

\* Mutant of EstablishOk: the generation is not advanced.
EstablishOkSameGen(p) ==
  /\ pc[p] = "establish"
  /\ \E s \in Unborn :
       /\ mux' = [mux EXCEPT ![s] = "open"]
       /\ session' = s
       /\ held' = [held EXCEPT ![p] = [session |-> s, gen |-> sessionGen]]
  /\ muxMu' = NoProc
  /\ Goto(p, Use(p))
  /\ UNCHANGED <<ctxDone, listener, run, sessionGen, reportedLost>>

\* establishNewSession succeeds: install the session, advance the generation.
EstablishOk(p) ==
  /\ pc[p] = "establish"
  /\ \E s \in Unborn :
       /\ mux' = [mux EXCEPT ![s] = "open"]
       /\ session' = s
       /\ held' = [held EXCEPT ![p] = [session |-> s, gen |-> sessionGen + 1]]
  /\ sessionGen' = sessionGen + 1
  /\ muxMu' = NoProc
  /\ Goto(p, Use(p))
  /\ UNCHANGED <<ctxDone, listener, run, reportedLost>>

EstablishFail(p) ==
  /\ pc[p] = "establish"
  /\ muxMu' = NoProc
  /\ Restart(p, "backoff")
  /\ UNCHANGED <<ctxDone, listener, run, session, sessionGen, mux,
                 reportedLost>>

-----------------------------------------------------------------------------
(* The wait after a failure, in both loops. *)

BackoffCancelled(p) ==
  /\ pc[p] = "backoff" /\ ctxDone
  /\ Restart(p, "idle")
  /\ UNCHANGED <<ctxDone, listener, run, muxMu, session, sessionGen, mux,
                 reportedLost>>

BackoffTimer(p) ==
  /\ pc[p] = "backoff"
  /\ Goto(p, "check")
  /\ UNCHANGED <<ctxDone, listener, run, muxMu, session, sessionGen, mux, held,
                 reportedLost>>

-----------------------------------------------------------------------------
(* handleConnection with a session in hand. *)

OpenOk(h) ==
  /\ pc[h] = "open" /\ mux[held[h].session] = "open"
  /\ Goto(h, "copy")
  /\ UNCHANGED <<ctxDone, listener, run, muxMu, session, sessionGen, mux, held,
                 reportedLost>>

\* session.Open fails: the session is closed, or it is open and refuses (the
\* peer has gone away, no stream is left, the write timed out).  Bound: an
\* open session refuses only while a session is left to replace it.
OpenFail(h) ==
  /\ pc[h] = "open"
  /\ mux[held[h].session] = "open" => Unborn # {}
  /\ Goto(h, "invalidate")
  /\ UNCHANGED <<ctxDone, listener, run, muxMu, session, sessionGen, mux, held,
                 reportedLost>>

\* Mutants of Invalidate: the generation is not compared; the session is
\* forgotten and not closed; the generations are compared the wrong way round.
InvalidateAnyGen(h) ==
  /\ pc[h] = "invalidate" /\ muxMu = NoProc
  /\ mux' = Closed(session)
  /\ session' = Nil
  /\ reportedLost' = reportedLost \cup {sessionGen}
  /\ Goto(h, "backoff")
  /\ UNCHANGED <<ctxDone, listener, run, muxMu, sessionGen, held>>

InvalidateWithoutClose(h) ==
  /\ pc[h] = "invalidate" /\ muxMu = NoProc
  /\ IF held[h].gen = sessionGen
       THEN /\ session' = Nil
            /\ reportedLost' = reportedLost \cup {sessionGen}
       ELSE UNCHANGED <<session, reportedLost>>
  /\ Goto(h, "backoff")
  /\ UNCHANGED <<ctxDone, listener, run, muxMu, sessionGen, mux, held>>

InvalidateOlderGen(h) ==
  /\ pc[h] = "invalidate" /\ muxMu = NoProc
  /\ IF held[h].gen < sessionGen
       THEN /\ mux' = Closed(session)
            /\ session' = Nil
            /\ reportedLost' = reportedLost \cup {sessionGen}
       ELSE UNCHANGED <<session, mux, reportedLost>>
  /\ Goto(h, "backoff")
  /\ UNCHANGED <<ctxDone, listener, run, muxMu, sessionGen, held>>

\* invalidateSessionIfMatch: drop the session unless it was replaced already.
Invalidate(h) ==
  /\ pc[h] = "invalidate" /\ muxMu = NoProc
  /\ IF held[h].gen = sessionGen
       THEN /\ mux' = Closed(session)
            /\ session' = Nil
            /\ reportedLost' = reportedLost \cup {sessionGen}
       ELSE UNCHANGED <<session, mux, reportedLost>>
  /\ Goto(h, "backoff")
  /\ UNCHANGED <<ctxDone, listener, run, muxMu, sessionGen, held>>

\* CopyBidirectional returns and the handler ends.
CopyEnds(h) ==
  /\ pc[h] = "copy"
  /\ Restart(h, "idle")
  /\ UNCHANGED <<ctxDone, listener, run, muxMu, session, sessionGen, mux,
                 reportedLost>>

-----------------------------------------------------------------------------
(* The maintenance goroutine with a session in hand. *)

\* Mutant of WatchLost: the goroutine ends with the session it watched.
WatchLostAndExit ==
  /\ pc[Maint] = "watch" /\ mux[held[Maint].session] = "closed"
  /\ Restart(Maint, "idle")
  /\ UNCHANGED <<ctxDone, listener, run, muxMu, session, sessionGen, mux,
                 reportedLost>>

WatchLost ==
  /\ pc[Maint] = "watch" /\ mux[held[Maint].session] = "closed"
  /\ Restart(Maint, "check")
  /\ UNCHANGED <<ctxDone, listener, run, muxMu, session, sessionGen, mux,
                 reportedLost>>

\* Mutant of WatchCancelled: the watch waits for the session alone.
WatchCancelledWhenLost ==
  /\ pc[Maint] = "watch" /\ ctxDone /\ mux[held[Maint].session] = "closed"
  /\ Restart(Maint, "idle")
  /\ UNCHANGED <<ctxDone, listener, run, muxMu, session, sessionGen, mux,
                 reportedLost>>

WatchCancelled ==
  /\ pc[Maint] = "watch" /\ ctxDone
  /\ Restart(Maint, "idle")
  /\ UNCHANGED <<ctxDone, listener, run, muxMu, session, sessionGen, mux,
                 reportedLost>>

-----------------------------------------------------------------------------
\* The session dies of its own: the network, the relay or the server ended it.
\* Bound: only while a session is left to replace it.
LoseSession(s) ==
  /\ mux[s] = "open" /\ Unborn # {}
  /\ mux' = Closed(s)
  /\ UNCHANGED <<ctxDone, listener, run, muxMu, session, sessionGen, pc, held,
                 reportedLost>>

GetSession(p) == \/ ReadSession(p) \/ LockSession(p)
                 \/ EstablishOk(p) \/ EstablishFail(p)

Wait(p) == BackoffCancelled(p) \/ BackoffTimer(p)

\* What a goroutine does of its own accord, at every place it can be.
Loop(p) == Check(p) \/ GetSession(p) \/ Wait(p)
Handle(h) == Loop(h) \/ OpenOk(h) \/ OpenFail(h) \/ Invalidate(h)
Maintain == Loop(Maint) \/ WatchLost \/ WatchCancelled

Next ==
  \/ Cancel \/ CloseListener \/ RunReturns
  \/ Maintain
  \/ \E h \in Handlers : Accept(h) \/ Handle(h) \/ CopyEnds(h)
  \/ \E s \in Sessions : LoseSession(s)

Spec == Init /\ [][Next]_vars

(***************************************************************************)
(* Fairness.  Every goroutine runs: where it waits for muxMu, which is     *)
(* only intermittently free, Go's RWMutex starves neither readers nor      *)
(* writers (strong fairness; elsewhere a goroutine's step, once enabled,   *)
(* stays enabled).  The attempts to establish a session return and, as     *)
(* long as they are made, do not fail for ever.  Local connections coming  *)
(* and streams ending, the loss of sessions and the cancellation are the   *)
(* environment's, without fairness.                                        *)
(***************************************************************************)
FairSpec ==
  /\ Spec
  /\ WF_vars(CloseListener) /\ WF_vars(RunReturns)
  /\ SF_vars(Maintain)
  /\ \A h \in Handlers : SF_vars(Handle(h))
  /\ SF_vars(\E p \in Procs : EstablishOk(p))

-----------------------------------------------------------------------------
(* Safety. *)

\* The write lock is held exactly while its owner establishes a session, and
\* there is no current session then: nobody reads a session that is about to
\* be replaced, and every way out of the establishment releases the lock
\* (client.go:290-309).
OneEstablisher ==
  /\ \A p \in Procs : pc[p] = "establish" <=> muxMu = p
  /\ muxMu # NoProc => session = Nil

\* No tunnel is leaked and none is doubled: a session that is open is the
\* current one, whoever established, lost, replaced or invalidated sessions
\* before (client.go:279-321, 954-975).
SingleLiveSession == \A s \in OpenSessions : s = session

\* The generation a goroutine remembers tells whether the session it was given
\* is still the current one: the test of invalidateSessionIfMatch
\* (client.go:958) never mistakes a later session for the one that failed, and
\* the generation 0 returned with an error is that of no session.
HeldGenIdentifiesSession ==
  /\ session # Nil => sessionGen > 0
  /\ \A p \in Procs :
       /\ held[p].gen <= sessionGen
       /\ held[p].gen = sessionGen /\ session # Nil => held[p].session = session

\* The client itself closes a working session only on behalf of a handler that
\* failed to open a stream on that very session: no goroutine's stale
\* knowledge ever tears down a session others have established meanwhile.
\* (A step that moves no goroutine is the network's.)
OnlyFailedOpenDropsLiveSession ==
  [][\A s \in OpenSessions :
       mux'[s] = "closed" /\ pc' # pc =>
         \E h \in Handlers : pc[h] = "invalidate" /\ held[h].session = s]_vars

-----------------------------------------------------------------------------
(* Liveness. *)

\* After a cancellation Run returns, the maintenance ends and no handler keeps
\* waiting for a tunnel; only streams that are being copied go on.  An establishment
\* is one step here and comes to an end, which it does unless a relay leaves its
\* join unanswered (ClientEstablish!EstablishReturns).
CancelTerminates ==
  ctxDone ~> /\ run = "returned"
             /\ pc[Maint] = "idle"
             /\ \A h \in Handlers : pc[h] \in {"idle", "copy"}

\* Without any local connection the maintenance brings a lost tunnel back.
TunnelRestored == ~SessionLive ~> SessionLive \/ ctxDone

\* A local connection is not kept waiting for ever: it gets its stream, or it
\* is dropped because of a cancellation.
HandlerServed ==
  \A h \in Handlers : pc[h] = "check" ~> pc[h] \in {"copy", "idle"}

-----------------------------------------------------------------------------
(* The abstract specification. *)

Abstract == INSTANCE SingleTunnel
              WITH Tunnels <- Sessions, open <- OpenSessions, gen <- sessionGen

\* Seen through its open sessions and its generation counter, the client never
\* opens a tunnel beside another and numbers every one it opens.
RefinesSingleTunnel == Abstract!Spec
=============================================================================
