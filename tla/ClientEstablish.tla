-------------------------- MODULE ClientEstablish --------------------------
(***************************************************************************)
(* How the client reaches the server: the choice of the relay in NewClient *)
(* and DialContext (src/client.go, src/helpers.go) and establishNewSession *)
(* with everything it calls on a known relay: connectToRelay,              *)
(* connectToKnownRelay and completeBEPHandshake.  The scan of all relays   *)
(* is one step here (module RelayScan opens it up).                        *)
(*                                                                         *)
(* The relays and the server are the environment.  A relay is up or down   *)
(* and knows the server or not; one the server has left may still believe  *)
(* it knows it (a ghost): it then hands out invitations whose other end    *)
(* never answers the BEP handshake.  Pings, neutral responses and other    *)
(* devices' invitations only make the read loop go round and are left out, *)
(* and so are the pauses between attempts.  Connections are opened and     *)
(* closed one by one, where the code does it; yamux.Client fails on a      *)
(* faulty configuration only and is taken to succeed.                      *)
(***************************************************************************)
EXTENDS Naturals

CONSTANTS
  Relays,       \* the public relays
  NoRelay,      \* the empty relay URI
  Sockets,      \* the connections there can be
  NoSocket,     \* nil
  MaxAttempts,  \* tries of a known relay in one call: 3 in the code
  MaxTroubles,  \* bound: failures, outages and losses the network causes
  MaxMoves      \* bound: how often the server goes to another relay

ASSUME EstablishAssumption == /\ NoRelay \notin Relays /\ NoSocket \notin Sockets
                              /\ MaxAttempts \in Nat \ {0}
                              /\ MaxTroubles \in Nat /\ MaxMoves \in Nat

MaybeRelay == Relays \cup {NoRelay}
MaybeSocket == Sockets \cup {NoSocket}

VARIABLES
  entry,       \* "client" (NewClient and Run) or "dial" (DialContext)
  userURI,     \* ClientConfig.RelayURI as the caller gave it
  hint,        \* the relay hint in ClientConfig.TargetID
  configured,  \* the relay URI the client was made with
  isFixed,     \* c.isFixedRelay
  relayURI,    \* c.config.RelayURI (and c.relayAddr, c.relayID)
  stage,       \* how far the current call of establishNewSession is
  attempt,     \* its loop variable
  conns,       \* the connections that are open
  relayConn,   \* the connection to the relay that a function of the call holds
  tunnelConn,  \* the one to the server, which in the end the session holds
  dialled,     \* the relays contacted so far
  callerDone,  \* the caller's context is cancelled
  up,          \* the relays that are up
  knows,       \* the relays that believe they know the server
  home,        \* the relay the server has really joined
  troubles, moves

config == <<entry, userURI, hint, configured, isFixed>>
sockets == <<conns, relayConn, tunnelConn>>
call == <<relayURI, stage, attempt, sockets, dialled>>
world == <<callerDone, up, knows, home, troubles, moves>>
establishVars == <<config, call, world>>

Stages == {"idle", "start", "dial", "tls", "join", "invite", "sdial", "session",
           "failed", "bep", "unshaken", "scan", "scanbep", "scanunshaken",
           "connected", "over"}

\* Every variable has its type; the loop over the known relay never runs past
\* its limit (client.go:350-388), and the stages between the dial of a known
\* relay and the handshake on it have a relay to talk about.
EstablishTypeOK ==
  /\ entry \in {"client", "dial"}
  /\ {userURI, hint, configured, relayURI} \subseteq MaybeRelay
  /\ isFixed \in BOOLEAN /\ callerDone \in BOOLEAN
  /\ stage \in Stages
  /\ attempt \in 0..(MaxAttempts - 1)
  /\ conns \subseteq Sockets
  /\ {relayConn, tunnelConn} \subseteq MaybeSocket
  /\ {dialled, up, knows} \subseteq SUBSET Relays
  /\ home \in Relays
  /\ troubles \in 0..MaxTroubles /\ moves \in 0..MaxMoves
  /\ stage \in Stages \ {"idle", "start", "scan", "over"} => relayURI # NoRelay

-----------------------------------------------------------------------------
(* Which relay a client starts with. *)

\* NewClient: the caller's relay is fixed, a hinted one is only the first guess.
NewClient(uri) ==
  /\ isFixed = (uri # NoRelay)
  /\ configured = IF uri # NoRelay THEN uri ELSE hint

\* DialContext: without a relay of the caller's, the fastest one discovered is
\* handed to NewClient as if the caller had chosen it.
DialContext ==
  \/ userURI # NoRelay /\ NewClient(userURI)
  \/ userURI = NoRelay /\ \E fastest \in Relays : NewClient(fastest)

EstablishInit ==
  /\ userURI \in MaybeRelay /\ hint \in MaybeRelay /\ configured \in MaybeRelay
  /\ isFixed \in BOOLEAN
  /\ \/ entry = "client" /\ NewClient(userURI)
     \/ entry = "dial" /\ DialContext
  /\ relayURI = configured
  /\ stage = "idle" /\ attempt = 0 /\ dialled = {}
  /\ conns = {} /\ relayConn = NoSocket /\ tunnelConn = NoSocket
  /\ callerDone = FALSE
  /\ up = Relays
  /\ home \in Relays
  /\ knows = {home}
  /\ troubles = 0 /\ moves = 0

-----------------------------------------------------------------------------
(* How a step of the call ends. *)

\* Trouble of the network, as long as there is some left.
Trouble == /\ troubles < MaxTroubles
           /\ troubles' = troubles + 1
           /\ UNCHANGED <<callerDone, up, knows, home, moves>>

\* A step that fails does so because of its reason or by bad luck.
FailsIf(reason) == \/ reason /\ UNCHANGED world
                   \/ Trouble

\* Connections are opened one at a time, and what a function held goes out of
\* scope when the connection is closed and it moves on or returns.
OpenRelayConn ==
  \E s \in Sockets \ conns :
    /\ conns' = conns \cup {s}
    /\ relayConn' = s /\ UNCHANGED tunnelConn

OpenTunnelConn ==
  \E s \in Sockets \ conns :
    /\ conns' = conns \cup {s}
    /\ tunnelConn' = s /\ UNCHANGED relayConn

Forget == relayConn' = NoSocket /\ tunnelConn' = NoSocket

Close(s) == conns' = conns \ {s} /\ Forget

\* The call goes on with another stage; the relay stays as it is.
Proceed(next) == stage' = next /\ UNCHANGED <<relayURI, attempt>>

\* Without a session Run's goroutines will call again; DialContext, which calls
\* only once, is over.
AtRest == IF entry = "dial" THEN "over" ELSE "idle"

\* The call returns an error.
ReturnError == Proceed(AtRest)

NextAttempt ==
  /\ attempt' = attempt + 1
  /\ stage' = "start"
  /\ UNCHANGED relayURI

-----------------------------------------------------------------------------
(* establishNewSession. *)

\* getSessionWithGen calls it when there is no live session.
Call ==
  /\ stage = "idle"
  /\ stage' = "start" /\ attempt' = 0
  /\ UNCHANGED <<relayURI, sockets, dialled, config, world>>

\* No relay is known: scan, which a fixed configuration refuses.
StartScan ==
  /\ stage = "start" /\ relayURI = NoRelay
  /\ IF isFixed THEN ReturnError ELSE Proceed("scan")
  /\ UNCHANGED <<sockets, dialled, config, world>>

\* The head of the loop over a known relay.
StartAttempt ==
  /\ stage = "start" /\ relayURI # NoRelay
  /\ IF callerDone THEN ReturnError ELSE Proceed("dial")
  /\ UNCHANGED <<sockets, dialled, config, world>>

-----------------------------------------------------------------------------
(* connectToRelay. *)

\* The dial; nothing is open yet when it fails.
DialRelay ==
  /\ stage = "dial"
  /\ dialled' = dialled \cup {relayURI}
  /\ \/ /\ ~callerDone /\ relayURI \in up
        /\ Proceed("tls") /\ OpenRelayConn
        /\ UNCHANGED world
     \/ /\ FailsIf(callerDone \/ relayURI \notin up)
        /\ Proceed("failed") /\ UNCHANGED sockets
  /\ UNCHANGED config

\* The handshake within ten seconds, the relay's identity, and the join request
\* sent: each closes the connection when it fails.
RelayTLS ==
  /\ stage = "tls"
  /\ \/ relayURI \in up /\ Proceed("join") /\ UNCHANGED <<sockets, world>>
     \/ FailsIf(relayURI \notin up) /\ Proceed("failed") /\ Close(relayConn)
  /\ UNCHANGED <<dialled, config>>

\* The answer to the join request, which is waited for without a deadline and
\* without a look at the context: success, or a rejection, another message (a
\* Ping too) or a broken connection.
JoinAnswered ==
  /\ stage = "join"
  /\ \/ relayURI \in up /\ Proceed("invite") /\ UNCHANGED <<sockets, world>>
     \/ FailsIf(relayURI \notin up) /\ Proceed("failed") /\ Close(relayConn)
  /\ UNCHANGED <<dialled, config>>

-----------------------------------------------------------------------------
(* connectToKnownRelay. *)

\* The answer to the connect request, within ten seconds of silence.  The
\* relay's connection is closed with the target's invitation as it is when the
\* relay does not know the target or breaks off.
Invited ==
  /\ stage = "invite"
  /\ \/ relayURI \in up \cap knows /\ Proceed("sdial") /\ UNCHANGED world
     \/ FailsIf(relayURI \notin up \cap knows) /\ Proceed("failed")
  /\ Close(relayConn)
  /\ UNCHANGED <<dialled, config>>

\* The dial of the session; nothing is open when it fails.
DialSession ==
  /\ stage = "sdial"
  /\ \/ /\ ~callerDone /\ relayURI \in up
        /\ Proceed("session") /\ OpenTunnelConn
        /\ UNCHANGED world
     \/ /\ FailsIf(callerDone \/ relayURI \notin up)
        /\ Proceed("failed") /\ UNCHANGED sockets
  /\ UNCHANGED <<dialled, config>>

\* The session request and its answer within five seconds.
SessionJoined ==
  /\ stage = "session"
  /\ \/ relayURI \in up /\ Proceed("bep") /\ UNCHANGED <<sockets, world>>
     \/ FailsIf(relayURI \notin up) /\ Proceed("failed") /\ Close(tunnelConn)
  /\ UNCHANGED <<dialled, config>>

\* Mutants of ConnectFailed: a fixed relay is given up like any other; the relay
\* stays although the call starts over.
ConnectFailedAnyRelay ==
  /\ stage = "failed"
  /\ \/ attempt < MaxAttempts - 1 /\ NextAttempt
     \/ /\ attempt = MaxAttempts - 1
        /\ relayURI' = NoRelay
        /\ stage' = "start" /\ attempt' = 0
  /\ UNCHANGED <<sockets, dialled, config, world>>

ConnectFailedKeepsRelay ==
  /\ stage = "failed"
  /\ \/ attempt < MaxAttempts - 1 /\ NextAttempt
     \/ /\ attempt = MaxAttempts - 1 /\ ~isFixed
        /\ stage' = "start" /\ attempt' = 0
        /\ UNCHANGED relayURI
     \/ attempt = MaxAttempts - 1 /\ isFixed /\ ReturnError
  /\ UNCHANGED <<sockets, dialled, config, world>>

\* connectToKnownRelay returned an error, and its caller closes nothing: another
\* attempt, or the relay is forgotten and the call starts over with a scan.
ConnectFailed ==
  /\ stage = "failed"
  /\ \/ attempt < MaxAttempts - 1 /\ NextAttempt
     \/ /\ attempt = MaxAttempts - 1 /\ ~isFixed
        /\ relayURI' = NoRelay
        /\ stage' = "start" /\ attempt' = 0
     \/ attempt = MaxAttempts - 1 /\ isFixed /\ ReturnError
  /\ UNCHANGED <<sockets, dialled, config, world>>

-----------------------------------------------------------------------------
(* completeBEPHandshake and what its callers do when it fails. *)

\* Within ten seconds, with the device the target names.  It leaves the tunnel's
\* connection to its caller when it fails.
CompleteBEPHandshake(failure) ==
  /\ \/ relayURI = home /\ home \in up /\ Proceed("connected") /\ UNCHANGED world
     \/ FailsIf(relayURI # home \/ home \notin up) /\ Proceed(failure)
  /\ UNCHANGED <<sockets, dialled, config>>

Handshake == stage = "bep" /\ CompleteBEPHandshake("unshaken")

\* Mutant of HandshakeFailed: the caller leaves the closing to the handshake.
HandshakeFailedLeaks ==
  /\ stage = "unshaken"
  /\ UNCHANGED conns /\ Forget
  /\ \/ attempt < MaxAttempts - 1 /\ NextAttempt
     \/ attempt = MaxAttempts - 1 /\ ReturnError
  /\ UNCHANGED <<dialled, config, world>>

\* On a known relay: another attempt, or an error; the relay is kept.
HandshakeFailed ==
  /\ stage = "unshaken"
  /\ Close(tunnelConn)
  /\ \/ attempt < MaxAttempts - 1 /\ NextAttempt
     \/ attempt = MaxAttempts - 1 /\ ReturnError
  /\ UNCHANGED <<dialled, config, world>>

\* scanAndConnect finds a relay that gives access to the target, with a session
\* open on it, or none.  What it opens besides is the business of RelayScan, and
\* so is the connection it loses when it is cancelled.
Scan ==
  /\ stage = "scan"
  /\ dialled' = Relays
  /\ \/ /\ \E r \in up \cap knows : relayURI' = r
        /\ stage' = "scanbep" /\ OpenTunnelConn
        /\ UNCHANGED <<attempt, world>>
     \/ /\ FailsIf(callerDone \/ up \cap knows = {})
        /\ ReturnError /\ UNCHANGED sockets
  /\ UNCHANGED config

ScanHandshake == stage = "scanbep" /\ CompleteBEPHandshake("scanunshaken")

\* After a scan the handshake is tried once, and the relay found is kept.
ScanHandshakeFailed ==
  /\ stage = "scanunshaken"
  /\ Close(tunnelConn)
  /\ ReturnError
  /\ UNCHANGED <<dialled, config, world>>

-----------------------------------------------------------------------------
(* The environment. *)

CancelCaller ==
  /\ ~callerDone
  /\ callerDone' = TRUE
  /\ UNCHANGED <<config, call, up, knows, home, troubles, moves>>

\* The session is lost, and with it its connection.
LoseTunnel ==
  /\ stage = "connected" /\ Trouble
  /\ Proceed(AtRest) /\ Close(tunnelConn)
  /\ UNCHANGED <<dialled, config>>

\* A relay goes down and forgets who had joined it.
RelayDown(r) ==
  /\ r \in up /\ troubles < MaxTroubles
  /\ troubles' = troubles + 1
  /\ up' = up \ {r} /\ knows' = knows \ {r}
  /\ UNCHANGED <<config, call, callerDone, home, moves>>

\* A relay comes back; the server, which keeps to its relay, joins it again.
RelayUp(r) ==
  /\ r \in Relays \ up
  /\ up' = up \cup {r}
  /\ knows' = IF r = home THEN knows \cup {r} ELSE knows
  /\ UNCHANGED <<config, call, callerDone, home, troubles, moves>>

\* The server is started anew and chooses another relay; the one it left
\* notices or goes on believing that it knows the server.
ServerMoves(r) ==
  /\ moves < MaxMoves /\ r \in up \ {home}
  /\ moves' = moves + 1
  /\ home' = r
  /\ \E ghost \in SUBSET {home} : knows' = (knows \ {home}) \cup (knows \cap ghost) \cup {r}
  /\ UNCHANGED <<config, call, callerDone, up, troubles>>

\* A relay finds out that the server is gone.
GhostExpires(r) ==
  /\ r \in knows \ {home}
  /\ knows' = knows \ {r}
  /\ UNCHANGED <<config, call, callerDone, up, home, troubles, moves>>

Establish == \/ StartScan \/ StartAttempt
             \/ DialRelay \/ RelayTLS
             \/ Invited \/ DialSession \/ SessionJoined \/ ConnectFailed
             \/ Handshake \/ HandshakeFailed
             \/ Scan \/ ScanHandshake \/ ScanHandshakeFailed

Environment == \/ CancelCaller \/ LoseTunnel
               \/ \E r \in Relays : \/ RelayDown(r) \/ RelayUp(r)
                                    \/ ServerMoves(r) \/ GhostExpires(r)

EstablishNext == Call \/ Establish \/ JoinAnswered \/ Environment

EstablishSpec == EstablishInit /\ [][EstablishNext]_establishVars

(***************************************************************************)
(* Fairness.  The steps of Establish are the client's own or are bounded   *)
(* by a deadline the code sets.  The answer to the join request is not: it *)
(* may never come, in either specification.  HealingSpec adds what the     *)
(* fallback needs of the world: that goroutines go on calling, that relays *)
(* come back, and that ghosts are found out in the end.                    *)
(***************************************************************************)
EstablishFairSpec == EstablishSpec /\ WF_establishVars(Establish)

HealingSpec ==
  /\ EstablishFairSpec
  /\ WF_establishVars(Call)
  /\ \A r \in Relays : WF_establishVars(RelayUp(r)) /\ WF_establishVars(GhostExpires(r))

-----------------------------------------------------------------------------
(* Properties. *)

\* A relay the caller fixed is never exchanged: no other one is ever dialled,
\* scanned or stored, whatever fails (client.go:65-69, 324-327, 363-370).
FixedRelayKept ==
  isFixed => relayURI = configured /\ dialled \subseteq {configured}

\* No connection leaks, whoever has to close it on which error: an open one is
\* held by a function of the call or by the session, what they hold is open, and
\* a call that rests or starts over holds none (client.go:341-345, 373-375,
\* 735-952).
NoConnLeak ==
  /\ conns = {relayConn, tunnelConn} \ {NoSocket}
  /\ stage \in {"idle", "start", "scan", "over"} => conns = {}
  /\ stage = "connected" => conns = {tunnelConn}

\* The one wait without deadline and without context (client.go:933): a relay
\* that never answers the join request.
JoinNeverAnswered == <>[](stage = "join")

\* A client that is free to look for the server finds it again and again, unless
\* a relay leaves it without an answer: README.md:11 and 57-59 promise the
\* fallback from a hinted relay that fails or does not know the server to a scan
\* of all of them.
FallbackFinds ==
  entry = "client" /\ ~isFixed =>
    []<>(stage = "connected" \/ callerDone) \/ JoinNeverAnswered

\* A call of establishNewSession, which holds muxMu, comes to an end, or it waits
\* for ever for the answer to a join request, the only step client.go:164 ("the
\* establishment logic handles its own timeouts") is wrong about.
EstablishReturns ==
  \/ stage = "start" ~> stage \in {"idle", "connected", "over"}
  \/ JoinNeverAnswered
=============================================================================
