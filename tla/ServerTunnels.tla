--------------------------- MODULE ServerTunnels ---------------------------
(***************************************************************************)
(* The server (src/server.go): the goroutine of Run, which keeps one       *)
(* connection to its relay, a handleTunnel goroutine for every invitation, *)
(* a handleStream goroutine for every stream admitted by the semaphore     *)
(* that all tunnels share, and the goroutines that close connections when  *)
(* the context is done.                                                    *)
(*                                                                         *)
(* A tunnel's BEP connection and the yamux session on it are one identity. *)
(* yamux.Server fails only on a bad configuration and the configuration is *)
(* fixed, so it does not fail here.  The relay's Pings and invitations     *)
(* that do not decode leave the state alone and are left out.              *)
(***************************************************************************)
EXTENDS Naturals, FiniteSets

CONSTANTS
  Tunnels,    \* bound: the tunnels there may be at a time
  Streams,    \* bound: the streams there may be at a time
  Nobody,     \* no tunnel
  Limit       \* the capacity of streamSem: 1024 in the code

ASSUME ServerAssumption == /\ IsFiniteSet(Streams)
                           /\ Nobody \notin Tunnels
                           /\ Limit \in Nat \ {0}

VARIABLES
  ctxDone,      \* the context of Run is cancelled
  run,          \* where Run is
  relayConn,    \* the connection to the relay: "none", "open", "closed"
  tpc,          \* where the handleTunnel of each tunnel is
  bep,          \* the tunnel's connection: "none", "open", "closed"
  present,      \* the tunnels OnConnect was called for and OnDisconnect was not
  spc,          \* where each stream is
  owner,        \* the tunnel it belongs to
  sem,          \* how many tokens are in streamSem
  activeConns   \* s.activeConns

relay == <<run, relayConn>>
tunnels == <<tpc, bep, present>>
streams == <<spc, owner, sem, activeConns>>
vars == <<ctxDone, relay, tunnels, streams>>

\* Every variable has its type, and the loop of a tunnel has a connection.
TypeOK ==
  /\ ctxDone \in BOOLEAN
  /\ run \in {"discover", "top", "join", "read", "pause", "returned"}
  /\ relayConn \in {"none", "open", "closed"}
  /\ tpc \in [Tunnels -> {"free", "establish", "ready", "loop", "accept", "admit", "leave"}]
  /\ bep \in [Tunnels -> {"none", "open", "closed"}]
  /\ present \in SUBSET Tunnels
  /\ spc \in [Streams -> {"free", "admit", "dial", "copy", "release", "uncount"}]
  /\ owner \in [Streams -> Tunnels \cup {Nobody}]
  /\ sem \in Nat /\ activeConns \in Nat
  /\ \A t \in Tunnels : tpc[t] \in {"ready", "loop", "accept", "admit", "leave"} <=>
                          bep[t] # "none"

Init ==
  /\ ctxDone = FALSE
  /\ run \in {"discover", "top"}       \* without and with a configured relay
  /\ relayConn = "none"
  /\ tpc = [t \in Tunnels |-> "free"] /\ bep = [t \in Tunnels |-> "none"]
  /\ present = {}
  /\ spc = [s \in Streams |-> "free"] /\ owner = [s \in Streams |-> Nobody]
  /\ sem = 0 /\ activeConns = 0

TGoto(t, place) == tpc' = [tpc EXCEPT ![t] = place]
SGoto(s, place) == spc' = [spc EXCEPT ![s] = place]

-----------------------------------------------------------------------------
(* Run and runSession. *)

Cancel ==
  /\ ~ctxDone
  /\ ctxDone' = TRUE
  /\ UNCHANGED <<relay, tunnels, streams>>

\* The relay is discovered once, before the loop; without one Run returns.
Discover ==
  /\ run = "discover"
  /\ run' \in {"top", "returned"}
  /\ UNCHANGED <<ctxDone, relayConn, tunnels, streams>>

\* The head of Run's loop.
RunTop ==
  /\ run = "top"
  /\ run' = IF ctxDone THEN "returned" ELSE "join"
  /\ UNCHANGED <<ctxDone, relayConn, tunnels, streams>>

\* connectToRelay succeeds; its join response is waited for without a deadline
\* and without the goroutine that watches the context.
JoinRelay ==
  /\ run = "join"
  /\ run' = "read" /\ relayConn' = "open"
  /\ UNCHANGED <<ctxDone, tunnels, streams>>

\* connectToRelay fails, with its connection closed.
JoinFails ==
  /\ run = "join"
  /\ run' = IF ctxDone THEN "returned" ELSE "pause"
  /\ UNCHANGED <<ctxDone, relayConn, tunnels, streams>>

\* The goroutine of runSession that waits for the context.
CloseRelayConn ==
  /\ ctxDone /\ run = "read" /\ relayConn = "open"
  /\ relayConn' = "closed"
  /\ UNCHANGED <<ctxDone, run, tunnels, streams>>

\* runSession returns, and its deferred Close runs: the context is done, the
\* relay is full, or the read failed - at once when the connection was closed,
\* after 90 seconds when the relay is silent.
LeaveRelay ==
  /\ run = "read"
  /\ relayConn' = "none"
  /\ run' = IF ctxDone THEN "returned" ELSE "pause"
  /\ UNCHANGED <<ctxDone, tunnels, streams>>

PauseEnds ==
  /\ run = "pause"
  /\ run' = "top"
  /\ UNCHANGED <<ctxDone, relayConn, tunnels, streams>>

\* The invitation of a client is read and a handleTunnel goroutine starts.
Invitation(t) ==
  /\ run = "read" /\ relayConn = "open"
  /\ tpc[t] = "free"
  /\ TGoto(t, "establish")
  /\ UNCHANGED <<ctxDone, relay, bep, present, streams>>

-----------------------------------------------------------------------------
(* handleTunnel. *)

\* establishTunnel succeeds within ten seconds; from here on a goroutine closes
\* the connection when the context is done.
EstablishOk(t) ==
  /\ tpc[t] = "establish"
  /\ bep' = [bep EXCEPT ![t] = "open"]
  /\ TGoto(t, "ready")
  /\ UNCHANGED <<ctxDone, relay, present, streams>>

\* It fails, times out, is cancelled, or the client is not allowed; it has
\* closed what it opened.
EstablishFail(t) ==
  /\ tpc[t] = "establish"
  /\ TGoto(t, "free")
  /\ UNCHANGED <<ctxDone, relay, bep, present, streams>>

\* OnConnect, and OnDisconnect deferred.
Connected(t) ==
  /\ tpc[t] = "ready"
  /\ present' = present \cup {t}
  /\ TGoto(t, "loop")
  /\ UNCHANGED <<ctxDone, relay, bep, streams>>

LoopTop(t) ==
  /\ tpc[t] = "loop"
  /\ TGoto(t, IF ctxDone THEN "leave" ELSE "accept")
  /\ UNCHANGED <<ctxDone, relay, bep, present, streams>>

\* The client has opened a stream.  The session may have been closed since:
\* Accept still returns streams that were waiting.
AcceptStream(t) ==
  /\ tpc[t] = "accept"
  /\ \E s \in Streams :
       /\ spc[s] = "free"
       /\ SGoto(s, "admit")
       /\ owner' = [owner EXCEPT ![s] = t]
  /\ activeConns' = activeConns + 1
  /\ TGoto(t, "admit")
  /\ UNCHANGED <<ctxDone, relay, bep, present, sem>>

\* Mutant of AcceptFail: the loop goes on after the error.
AcceptFailContinues(t) ==
  /\ tpc[t] = "accept" /\ bep[t] = "closed"
  /\ TGoto(t, "loop")
  /\ UNCHANGED <<ctxDone, relay, bep, present, streams>>

\* Accept fails because the session is closed.
AcceptFail(t) ==
  /\ tpc[t] = "accept" /\ bep[t] = "closed"
  /\ TGoto(t, "leave")
  /\ UNCHANGED <<ctxDone, relay, bep, present, streams>>

\* The stream tunnel t has accepted and not yet admitted.
Waiting(t, s) == tpc[t] = "admit" /\ spc[s] = "admit" /\ owner[s] = t

\* There is a token for the stream: its goroutine starts.
Admit(t) ==
  /\ sem < Limit
  /\ \E s \in Streams : Waiting(t, s) /\ SGoto(s, "dial")
  /\ sem' = sem + 1
  /\ TGoto(t, "loop")
  /\ UNCHANGED <<ctxDone, relay, bep, present, owner, activeConns>>

\* Mutant of AdmitCancelled: the stream stays counted.
AdmitCancelledCounted(t) ==
  /\ ctxDone
  /\ \E s \in Streams :
       /\ Waiting(t, s)
       /\ SGoto(s, "free") /\ owner' = [owner EXCEPT ![s] = Nobody]
  /\ TGoto(t, "leave")
  /\ UNCHANGED <<ctxDone, relay, bep, present, sem, activeConns>>

\* The context is done before there is one: the stream is closed.
AdmitCancelled(t) ==
  /\ ctxDone
  /\ \E s \in Streams :
       /\ Waiting(t, s)
       /\ SGoto(s, "free") /\ owner' = [owner EXCEPT ![s] = Nobody]
  /\ activeConns' = activeConns - 1
  /\ TGoto(t, "leave")
  /\ UNCHANGED <<ctxDone, relay, bep, present, sem>>

\* Mutant of Leave: OnDisconnect is not called.
LeaveSilently(t) ==
  /\ tpc[t] = "leave"
  /\ bep' = [bep EXCEPT ![t] = "none"]
  /\ TGoto(t, "free")
  /\ UNCHANGED <<ctxDone, relay, present, streams>>

\* The deferred calls: OnDisconnect, then the session and the connection close.
Leave(t) ==
  /\ tpc[t] = "leave"
  /\ present' = present \ {t}
  /\ bep' = [bep EXCEPT ![t] = "none"]
  /\ TGoto(t, "free")
  /\ UNCHANGED <<ctxDone, relay, streams>>

\* The connection dies, at the other end or on the way.
LoseTunnel(t) ==
  /\ bep[t] = "open"
  /\ bep' = [bep EXCEPT ![t] = "closed"]
  /\ UNCHANGED <<ctxDone, relay, tpc, present, streams>>

\* Mutant of CloseTunnel: the context is watched during the setup only.
CloseTunnelInSetup(t) ==
  /\ ctxDone /\ bep[t] = "open" /\ tpc[t] = "ready"
  /\ bep' = [bep EXCEPT ![t] = "closed"]
  /\ UNCHANGED <<ctxDone, relay, tpc, present, streams>>

\* The goroutine of handleTunnel that waits for the context.
CloseTunnel(t) ==
  /\ ctxDone /\ bep[t] = "open"
  /\ bep' = [bep EXCEPT ![t] = "closed"]
  /\ UNCHANGED <<ctxDone, relay, tpc, present, streams>>

-----------------------------------------------------------------------------
(* handleStream and the deferred calls of its goroutine. *)

\* The target is dialled, for five seconds at most.
DialTarget(s) ==
  /\ spc[s] = "dial"
  /\ spc' \in {[spc EXCEPT ![s] = next] : next \in {"copy", "release"}}
  /\ UNCHANGED <<ctxDone, relay, tunnels, owner, sem, activeConns>>

\* CopyBidirectional returns: both directions have ended.
CopyEnds(s) ==
  /\ spc[s] = "copy"
  /\ SGoto(s, "release")
  /\ UNCHANGED <<ctxDone, relay, tunnels, owner, sem, activeConns>>

ReleaseToken(s) ==
  /\ spc[s] = "release"
  /\ sem' = sem - 1
  /\ SGoto(s, "uncount")
  /\ UNCHANGED <<ctxDone, relay, tunnels, owner, activeConns>>

Uncount(s) ==
  /\ spc[s] = "uncount"
  /\ activeConns' = activeConns - 1
  /\ SGoto(s, "free") /\ owner' = [owner EXCEPT ![s] = Nobody]
  /\ UNCHANGED <<ctxDone, relay, tunnels, sem>>

-----------------------------------------------------------------------------
Join == JoinRelay \/ JoinFails
Serve == Discover \/ RunTop \/ PauseEnds

Admission(t) == Admit(t) \/ AdmitCancelled(t)
Handle(t) == \/ EstablishOk(t) \/ EstablishFail(t) \/ Connected(t)
             \/ LoopTop(t) \/ AcceptFail(t) \/ Leave(t)

Forward(s) == DialTarget(s) \/ ReleaseToken(s) \/ Uncount(s)

Next ==
  \/ Cancel \/ Serve \/ Join \/ LeaveRelay \/ CloseRelayConn
  \/ \E t \in Tunnels :
       \/ Invitation(t) \/ Handle(t) \/ Admission(t)
       \/ AcceptStream(t) \/ LoseTunnel(t) \/ CloseTunnel(t)
  \/ \E s \in Streams : Forward(s) \/ CopyEnds(s)

Spec == Init /\ [][Next]_vars

\* The streams of a tunnel that is gone end: the stream's side is at its end,
\* the target's side is then half-closed, and the target answers that by
\* closing its own.  The last step is the target's, the code cannot enforce it.
CopyOfLostTunnelEnds(s) ==
  /\ owner[s] # Nobody /\ bep[owner[s]] # "open"
  /\ CopyEnds(s)

(***************************************************************************)
(* Fairness.  The goroutines run; joins are answered (the code sets no     *)
(* deadline for that); targets end the streams of a lost tunnel; and the   *)
(* channel streamSem, which is only intermittently not full, starves no    *)
(* sender (Go queues them); a session that is closed has at most its       *)
(* backlog of 256 streams left to accept, so Accept fails in the end.      *)
(* Clients, losses and the cancellation are the environment's.             *)
(***************************************************************************)
FairSpec ==
  /\ Spec
  /\ WF_vars(Serve) /\ WF_vars(Join)
  /\ WF_vars(CloseRelayConn) /\ WF_vars(LeaveRelay /\ relayConn = "closed")
  /\ \A t \in Tunnels :
       /\ WF_vars(Handle(t)) /\ WF_vars(CloseTunnel(t))
       /\ SF_vars(Admission(t)) /\ SF_vars(AcceptFail(t))
  /\ \A s \in Streams : WF_vars(Forward(s)) /\ WF_vars(CopyOfLostTunnelEnds(s))

-----------------------------------------------------------------------------
(* Properties. *)

\* The semaphore holds exactly one token of each stream that is being served,
\* never more than its capacity, and activeConns counts exactly the streams that
\* were accepted and have not ended, those waiting for a token included: no way
\* out of the accept loop or of a stream loses or repeats a step.  A tunnel waits
\* for at most one token, and while it does no other of its streams is accepted
\* (server.go:352-373).
SlotsAccounted ==
  /\ sem = Cardinality({s \in Streams : spc[s] \in {"dial", "copy", "release"}})
  /\ sem <= Limit
  /\ activeConns = Cardinality({s \in Streams : spc[s] # "free"})
  /\ \A t \in Tunnels :
       Cardinality({s \in Streams : spc[s] = "admit" /\ owner[s] = t})
         = IF tpc[t] = "admit" THEN 1 ELSE 0

\* Whatever ends a tunnel, OnDisconnect is called once for each OnConnect, after
\* it and before the goroutine ends (server.go:336-345).
CallbacksPaired ==
  \A t \in Tunnels : t \in present <=> tpc[t] \in {"loop", "accept", "admit", "leave"}

\* After a cancellation Run returns, and every tunnel and every stream ends with
\* it, the counters back at zero (server.go:102-118, 146-152, 310-321, 348-372).
\* It rests on the relay answering joins, WF(Join): Run waits for that without a
\* deadline and without a look at the context (server.go:274; Lifecycle does not
\* assume it).
ShutdownCompletes ==
  ctxDone ~> /\ run = "returned" /\ present = {}
             /\ \A t \in Tunnels : tpc[t] = "free"
             /\ \A s \in Streams : spc[s] = "free"
             /\ sem = 0 /\ activeConns = 0

\* As long as tokens become free again and again, the goroutine of a tunnel
\* whose connection died ends, even when it is waiting for a token of its own
\* and not for the connection (server.go:347-373).
LostTunnelEnds ==
  []<>(sem < Limit) => \A t \in Tunnels : bep[t] = "closed" ~> bep[t] # "closed"
=============================================================================
