# Formal models of overthing

This directory holds TLA+ models of *overthing*, the Go library that tunnels TCP
through Syncthing's relays: what its goroutines do to the state they share, what
that must guarantee, TLC configurations that check it on small instances, and
proofs, checked by TLAPS, of what matters most. Every module is translated from
the Go source; `PROJECT.json` maps each definition to the lines it models.

1. [The system](#the-system)
2. [The modules](#the-modules)
3. [The runs](#the-runs)
4. [Fairness](#fairness)
5. [The proofs](#the-proofs)
6. [Where the code and its documentation differ](#where-the-code-and-its-documentation-differ)
7. [What is not modelled](#what-is-not-modelled)
8. [The plan](#the-plan)

## The system

A *server* joins one relay of the Syncthing network and waits for invitations.
A *client*, which knows the server's device ID, connects to the relay (given,
hinted at in the ID, or found by asking all relays), gets an invitation there,
joins the session it names, and runs a TLS handshake with the server through it
(the BEP connection). On top of that connection both run yamux: every local
connection at the client becomes a stream, which the server forwards to its
target.

| Component | State | Operations | What is hard | What makes it correct |
| --- | --- | --- | --- | --- |
| Client session management (`client.go` 109-321, 954-975) | `session`, `bepConn`, `sessionGen` under `muxMu`; the context; the goroutines of `Run`, of the maintenance and of each local connection | `getSessionWithGen`, `invalidateSessionIfMatch`, `handleConnection`, `Run`, `Stop` | many goroutines find the session dead at once; a session dies between being read and being used; the lock is held during an establishment | one tunnel at a time, none leaked; nobody tears down a tunnel for the failure of an older one; everybody who waits gets on |
| Client session establishment (`client.go` 54-107, 323-391, 735-952; `helpers.go` 123-145) | `config.RelayURI`, `isFixedRelay`, open connections | `NewClient`, `DialContext`, `establishNewSession`, `connectToKnownRelay`, `connectToRelay`, `completeBEPHandshake` | retries, fallback by recursion, relays that go down, hang or know a server that is gone | a fixed relay is kept, any other is given up in the end; no connection leaks; every call returns, but for one wait |
| Client relay scan (`client.go` 453-733) | the flag `found`, the channel `results`, a semaphore | `scanAndConnect`, `tryRelayAndConnect` | hundreds of probes race for one place in a channel while the caller may leave | one connection is handed over, the others are closed; a failure is a real one |
| Client relay-list cache (`client.go` 393-451) | `relayCache`, `relayCacheTime` of the process | read, fetch, fall back, store, shuffle | shared by all clients, shuffled outside the lock, stale data as a fallback | no list is damaged unless two clients meet in a shuffle; a list that was there is not lost; stale is not fresh |
| Server (`server.go`) | `streamSem`, `activeConns`, the relay connection, one goroutine per tunnel and per stream | `Run`, `runSession`, `handleTunnel`, `handleStream` | the semaphore is shared by all tunnels; a tunnel can die or be cancelled at any place | exact accounting, paired callbacks, complete shutdown |
| Client and server lifecycle (`client.go` 109-150, 221-230; `server.go` 57-127) | `running`, `cancel` under `mu`, `listener` written without it, a goroutine that closes the listener | `Run`, `Stop`, again and again | `Stop` before, during and after `Run`, a second `Run`, what an earlier `Run` leaves behind | a `Stop` ends the `Run` it meets and no other |
| Bidirectional copy (`copy.go`) | two loops per copy, two copies per local connection, the stream between | `CopyBidirectional` | each direction ends on its own, some connections have no half-close, everything may break | an end is not told before the data, and not swallowed; both copies return |
| Relay discovery (`discovery.go` 217-426) | results channel, one goroutine per resolver strategy | `Discover` | a race with failures first, hanging endpoints, one deadline for four requests | fails only if nothing could succeed; unverified only as a last resort |
| Relay pre-filter (`discovery.go` 491-613) | pending and successful relays per round | `tcpPreFilter` | rounds of goroutines, retries with growing timeouts | the fastest are kept, once |
| Relay ranking (`discovery.go` 669-747, 805-938) | `available`, `tested`, `stopped`, a semaphore | `TestAllAndSort`, `TestLatency` | early stop, cancellation and results interleave | an early stop gives relays, an error is a real one |
| Selection of a relay (`helpers.go` 75-117, `discovery.go` 749-799) | none of its own | `discoverRelay`, `FindFastestN`, `FindFastest` | three phases under one context, each of which may lose relays | the best of the wanted relays that answered, or none for a reason |
| Identities and relay hints (`identity.go`, `tunnel.go`) | the identity file | `LoadOrGenerateIdentity`; the codec of device IDs, hints and check digits | crashes and other processes while the file is written in place; forms told apart by length | one identity per file; an ID is read as what it is or refused |
| Relay wire protocol (`wire.go`) | pools of buffers shared by all connections | `ReadMessage`, `WriteMessage`, `DecodeSessionInvitation` | lengths from the wire, padding, missing fields, buffers given back | messages arrive intact and in order; an invitation is understood or refused |
| Dialers (`dialer.go`), socket options, logging, configuration, embedded list, command line, examples | none of interest | | | |

**How they interact.** The goroutines of the client call `getSession`, which
calls the establishment under `muxMu`; the establishment calls the scan when no
relay is known; the scan takes the list from the cache, or calls the discovery.
The server's `Run` and the client's `DialContext` call `discoverRelay`, which
runs discovery, pre-filter and ranking one after the other. Client and server
meet only through a relay; each local connection then passes through a copy at
either end. What is said to a relay goes through the wire protocol. The users of
the library see the callbacks of the configurations, and the device ID that the
server announces and a person carries to the client.

## The modules

Each component has a module; the module `MC...` next to it makes it an instance
for TLC and has a `.cfg` of the same name; `..._proofs` holds theorems and their
proofs. Operators named "Mutant of X" are variants of X with a bug it might have
had; no specification uses them.

### `SingleTunnel`, the promise of the client

There is at most one open tunnel, a tunnel is opened only when there is none,
and each one opened has the next generation. Two variables and two actions.

### `ClientSession`

Variables: `ctxDone`, `listener` and `run` for `Run`; `muxMu` (who holds the
write lock), `session` and `sessionGen` for the fields of `Client`; `mux`, the
life of each yamux session (unborn, open, closed); `pc` and `held`, where each
goroutine is and which session and generation it was given.

One action per stretch of code between two points where others can interfere:
`Check` (the loop's look at the context), `ReadSession` (under the read lock),
`LockSession` (the second look under the write lock, with the closing of a dead
session), `EstablishOk` and `EstablishFail` (the lock is held in between),
`OpenOk` and `OpenFail` of a stream, `Invalidate`, the two ends of a wait
(`BackoffTimer`, `BackoffCancelled`), the maintenance's `WatchLost` and
`WatchCancelled`, and `Accept`, `CopyEnds`, `CloseListener`, `RunReturns`,
`Cancel`. `LoseSession`, a session ending of its own, is the network's.

### `ClientEstablish`

One call of `establishNewSession` at a time, as `muxMu` has it. `stage` says how
far it is: an attempt is `DialRelay`, `RelayTLS`, `JoinAnswered` (`connectToRelay`),
`Invited`, `DialSession`, `SessionJoined` (`connectToKnownRelay`) and `Handshake`,
each of which succeeds or fails; what follows a failure, another attempt, a return
or the fallback, are actions of the caller (`ConnectFailed`, `HandshakeFailed`,
`ScanHandshakeFailed`). `conns` is the set of open connections, `relayConn` and
`tunnelConn` are those that a function of the call has in a variable. The two are
separate on purpose: a connection is taken from `conns` only by a `Close` where the
code has one, on the failure of each stage after the dial, in `Invited` in any
case, and after a failed handshake in its caller, not in `completeBEPHandshake`; a
return that forgets to close leaves it in `conns` with nobody to hold it.
`JoinAnswered` is not among the steps that must come (`Establish`).
The relays are part of the state: `up`, `knows` (which relays believe the server
is there) and `home` (where it is), so that a relay can hand out invitations
nobody answers. The initial states are all that `NewClient` and `DialContext`
make of a relay URI and a hint. Trouble and moves of the server are bounded by
`MaxTroubles` and `MaxMoves`.

### `RelayScan`

The launching loop, one goroutine per relay, the closer of `results` and the
select of the caller. `lucky` is the set of relays that would lead to the
target. A probe is one step; `tryRelayAndConnect` closes what it opened when it
fails.

### `RelayCache`

`relayCache` and `relayCacheTime` with any number of clients. A list is a
sequence; `owner` is the client whose slice is in the cache while it shuffles
it, and a copy or a swap goes element by element, so that a copy can meet a
shuffle: Go defines nothing for that, and the model lets the copier read either
of the two elements or neither (`Torn`). A fetch has two tries, a failure falls
back on what is in the cache, of whatever age, and stores it with the present
time. `origin` and `raced` record the history of each list: when it was fetched,
and whether it was copied while it was shuffled.

### `ServerTunnels`

`Run` with `runSession`, `handleTunnel` and `handleStream` as processes with a
place each, `streamSem` and `activeConns` as counters, and the goroutines that
close connections on a cancellation as actions. A slot of `Tunnels` or
`Streams` is used again after its goroutine has ended.

### `Lifecycle`

`Run` and `Stop` of a client or a server as calls with a place each: `running`
and `cancel` under `mu`, `field` for `c.listener`, which `Run` writes without the
lock while `Stop` reads it (`writing`: the read may then give the old listener,
the new one or one that cannot be closed), the listeners that are open, the
goroutine that waits to close them, and the contexts that are done. A client
opens its own listener or is given one (which serves one `Run`); a server has
none. A server's `Run` chooses a relay once (`ChooseRelay`); then its sessions begin
(`BeginSession`, after a look at the context) and wait for the relay's answer to the
join request (`JoinAnswered`), where neither the context nor a clock is watched;
anywhere else it ends once the context is done (`ServerStops`). `targets` and
`recalled` record which `Run`s a `Stop` met, and which were cancelled by their
caller. The sessions of a client and the maintenance of an earlier `Run` are not in
this module.

### `TunnelPath`

The data of one local connection through three links (application to client,
the stream, server to target) and two copies of two loops each. A link counts
the chunks in flight per direction, and knows which writer has ended (`fin`),
who has closed it and whether it is broken; what `HalfClose` and `FullClose` do
depends on its kind, as `CopyBidirectional` asks for `CloseWrite` and makes do
with `Close`. A loop is `ReadChunk`, `WriteChunk`, `ReadEnd`, `WriteFail`; `Return`
is the end of a copy with the deferred closes of its caller. The stream's timer
(`StreamCloseTimeout`) and the loss of the tunnel are the environment's.

### `RelayDiscovery`

One goroutine per strategy with its place, the endpoint it asks and the time its
requests have left; the channel is the set of strategies whose result is in it.
What each endpoint would answer to each strategy is chosen initially: a list, a
certificate that cannot be verified, an error, or nothing. Time advances only
when a request hangs, by the timeout `discoveryAttemptTimeout` gives it.

### `RelayPreFilter`, `RelayRanking` and their composition `RelaySelection`

The two phases of `TestAllAndSort`. In the first every relay has a delay, a
round ends when each of its goroutines has ended, and `lost` remembers which
answers the network lost; `Patience` is the timeout of a round. In the second, `probes` holds what the probes of a
relay came to; `Succeeded`, `Latency`, `Jitter` and `Score` are what
`TestLatency` and `Relay.Score` make of them. A test is counted before the lock
is taken, as in the code, and both looks at `stopped` are separate steps.

`RelaySelection` is `discoverRelay`: it instantiates both, runs one after the
other under one context that may be cancelled at any time, hands the relays the
first keeps to the second, and takes the first of the result that the caller
does not ignore. The discovery is one step in it, whose return is
`RelayDiscovery!DiscoveryEnds`.

### `DeviceID`, `DeviceIDEntry` and `IdentityStore`

`DeviceID` is the codec of `identity.go` as operators on sequences of characters:
`EncodeBase63`, `DecodeBase63`, `StandardID` with its `CheckDigit`,
`JoinRelayHint`, `SplitRelayHint`, `DeviceIDFromString`. Bytes are one number, as
the code's `big.Int` has them. Sizes are constants, and their assumption
(`DeviceIDAssumption`) lists what the code relies on: that the digits are enough
for the numbers (of an IPv4 address only with one more than the code pads to),
and that a form can be told by its length.

`DeviceIDEntry` is the way of an ID from the server that announces it, through a
person who copies it with dashes, in lower case or with a typo, into `NewClient`.

`IdentityStore` is `LoadOrGenerateIdentity` with processes that start, crash and
start again: reading, drawing a seed, truncating the file and writing it are
separate steps, a write may stop anywhere, and what has not reached the disk is
lost when the power fails. The file is truncated when it is opened and not when it
is written, so a write that stops early covers the beginning of what another process
has written meanwhile (`Overwritten`). `trouble` records what the code does not guard
against (an overlap of two makers, a read error, a power loss).

### `RelayWire`

Goroutines that each ask a relay for an invitation, over connections of bytes
that arrive in pieces and may end between any two, with the pools of buffers
they share. A buffer is an identity with contents: giving it back too early is
visible. `PutUint`, `XDRBytes`, `InvitationBody` and the decoder are operators on
sequences of bytes. The bodies of invitations a relay may send are given by
`GoodMessage`: whole, or cut short.

## The runs

There is one run per question, twelve in all, and all pass. The largest, `cache`
and `selection`, take a few minutes with two workers, the others less.

| Run | Instance | Why that is enough | What it shows |
| --- | --- | --- | --- |
| `client` | 2 handlers, the maintenance, 2 sessions | 3 goroutines contend for the lock, and a session is replaced while others hold the old one, which is what every hazard of the component needs | `SingleLiveSession`, `OnlyFailedOpenDropsLiveSession`, `RefinesSingleTunnel` (all proved for every number); `CancelTerminates`, `TunnelRestored`, `HandlerServed` |
| `establish` | 2 relays, 2 connections, 3 attempts, 4 troubles, 2 moves of the server | 4 troubles are one more than it takes to exhaust a relay; 2 moves bring the server back to the relay it left; with 2 connections one that is not closed is open beside the next one | `FixedRelayKept`, `NoConnLeak` (proved); `FallbackFinds`, `EstablishReturns` |
| `scan` | 4 relays, 2 tokens | more relays than tokens, and two successes at once beside a waiting and an unlaunched one | `NoConnLeak`, `NotFoundIsHonest`, `NoSendOnClosed` (proved); `ScanEnds` |
| `cache` | 2 clients, a list of 3, a TTL of 1, the clock to 2, 3 scans | a client copies what the other shuffles and a third scan copies the copy; a list can be fresh, old and stored anew | `ListsIntact`, `FilledCacheServes`, `StaleOnlyAfterFailure` (proved) |
| `server` | 2 tunnels, 2 streams, 1 token | each tunnel can wait for the other's stream | `SlotsAccounted`, `CallbacksPaired` (proved); `ShutdownCompletes`, `LostTunnelEnds` |
| `lifecycle` | 3 calls of `Run`, 2 of `Stop`, all three kinds of owner | a `Run` can follow one that ended and refuse a third, with a `Stop` for each | `UndisturbedRunServes` (proved); `StopEndsRun` |
| `path` | 1 chunk up and 2 down, links that hold 1 chunk; ends that half-close on streams that can be read on, and a pipe as target on streams that cannot | an answer longer than a link holds is still under way when the request ends | `EndMeansComplete` (proved, for all settings); `EndIsPassedOn`, `PathReleased` |
| `discovery` | 2 strategies, 2 endpoints, 15 s and 10 s in units of 2.5 s | the code's own numbers; all combinations of answers | `FailureIsHonest`, `InsecureOnlyAsLastResort` (proved); `DiscoveryEnds` |
| `selection` | 3 relays with delays within the first, the second, the third and no timeout, 2 tokens in each phase, 2 retries, 2 probes of 2 latencies, 2 relays to return, early stop after 2 | a relay waits while two are tested; it takes all rounds, or not; a stable and an unstable relay change places by their score | `FastestKept`, `EnoughOrExhausted`, `EarlyStopSucceeds`, `SelectionIsHonest` (proved for every number of all of these); `SelectionEnds` |
| `identity` | 2 processes, 4 starts, 4 seeds (the least that has one, two and all digits, and the greatest), a file that is absent, legacy, empty or cut | a process crashes while writing, starts again and meets another | `StableIdentity`, `AnnouncedWasGenerated` (proved) |
| `deviceid` | alphabets of 9 and 4 characters, IDs of 11 bits, addresses of 5 and 10 bits; the keys and addresses on both sides of every length | the sizes keep the proportions of the real ones: 9 does not divide the key space, an address may need a digit more than it has, and each form has its own length | `CleanCopyUnderstood`, `TypoNoticed` (proved for alphabets and IDs of every size) |
| `wire` | 2 goroutines, numbers of 2 bytes, a small buffer of 16 bytes, messages up to 18, one connection that ends early | messages with and without padding on both sides of both limits; a buffer can be used by the other goroutine | `MessagesIntact`, `InvitationUnderstood` |

The type invariants (`TypeOK` in each module) hold on the same instances, and
are proved for all modules with theorems; no run lists them, as the other properties and the
proofs rest on them. Deadlock is not checked: all of these systems may stop,
after a cancellation, when a call has returned, or when the bounded environment
has no more trouble to make. That nothing stops too early is what the liveness
properties are for. `RelayCache`, `IdentityStore`, `DeviceIDEntry` and `RelayWire`
have none: what they do between two waits is straight-line code with bounded
loops.

`cache` and `wire` use symmetry, in the clients and the goroutines; both check
safety only.

Every property has a mutant in `PROJECT.json`: a change of the code, such as a
dropped guard, a missing release or a swapped order, under which the run finds
it violated.

## Fairness

* **Goroutines run.** Steps of a goroutine that stay enabled are weakly fair.
* **Locks and channels do not starve.** Acquiring `muxMu` and sending to a
  semaphore are only intermittently enabled. Go's `RWMutex` lets neither readers
  nor writers starve, and senders on a channel are queued: strong fairness for
  the goroutines of `ClientSession`, the workers of `RelayScan` and the admission
  in `ServerTunnels`. In the phases of `RelaySelection` a token that is free stays
  free until some waiting worker takes it, and there are finitely many workers, so
  weak fairness is enough. In `Lifecycle`, `mu` is held by finitely many `Stop`s,
  each for two steps.
* **What has a timeout ends.** Dials, handshakes, probes and requests are
  bounded by deadlines the code sets, so the steps that stand for them are
  fair, and so is the timer of a half-closed stream (`StreamTimeout`). The answer
  to a join request is not bounded, and neither `ClientEstablish` nor `Lifecycle`
  assumes it: `JoinAnswered` is fair in none of their specifications, and
  `EstablishReturns`, `FallbackFinds` and `StopEndsRun` name a call that waits there
  for ever (`JoinNeverAnswered`, `pc[r] = "join"`) as their one exception. All other
  steps of an establishment and of a `Run` are fair.
* **Where an answered join is assumed.** `ServerTunnels` assumes that the relay
  answers or breaks off (`WF_vars(Join)`), and `ClientSession`, in which an
  establishment is one step, that it comes back: `ShutdownCompletes` and
  `CancelTerminates` say nothing of a server or client that waits for such an answer.
* **What the world must do.** `FallbackFinds` needs relays to come back and to find
  out ghosts, and goroutines to call again (`HealingSpec`); `EstablishReturns` is
  checked under the same specification and needs none of it. `HandlerServed` and
  `TunnelRestored` need establishments not to fail for ever. `ShutdownCompletes` and
  `LostTunnelEnds` need the target of a stream whose tunnel is gone to close its side,
  and `LostTunnelEnds` is stated for a semaphore that has room again and again. `EndIsPassedOn` and
  `PathReleased` need the application and the target to read what there is.
* **What the world need not do.** Connections, losses, streams ending and
  cancellations are never assumed to happen.

## The proofs

TLAPS checks them for every value of the constants that satisfies the modules'
assumptions, which TLC evaluates on the instances: distinct names, positive
limits, finite sets of relays and goroutines, a list without repetitions, for
the identities that the lengths of the forms are apart and long enough for what
they hold (`DeviceIDAssumption`; of the real sizes, 43, 51, 52 and 68 characters
against 56, 66 and 85 and three dashes more), and for the discovery that
the caller's deadline leaves time for every endpoint (`TimeAssumption`: 15 s are
more than one request of 10 s and two moments; the instance meets it exactly).
`RelayWire` assumes that a header fits a small buffer and a small buffer a large
one (12 and 128 bytes, 4 MB), that requests fit a small buffer (48 bytes do), that
lengths and ports fit a word, and that what a relay sends for an invitation is
whole or ends before its address does (`WireAssumption`, `MessageAssumption`).

Each specification has an inductive invariant (`IInv`, or one with the name of
what it is about), a lemma per action or group of actions that preserves it, and
the theorems. `Client_proofs`, `Server_proofs` and `RelayList_proofs` extend two
components each, and `Identity_proofs` the identity file and the way of an ID, which
is why `ClientEstablish`, `Lifecycle`, `RelayDiscovery` and `DeviceIDEntry` name
their specifications `EstablishSpec`, `LifecycleSpec`, `DiscoverySpec` and
`EntrySpec`.

**`Client_proofs`, the session management.** The inductive invariant is
`IInv == TypeOK /\ OneEstablisher /\ SingleLiveSession /\ HeldGenIdentifiesSession`.
None of its parts is inductive alone: that an establishment does not open a
second session rests on there being no current session while the write lock is
held (`OneEstablisher`); that invalidating by generation leaves no session open
behind rests on open sessions being current; that a generation remembered does
not name a later session rests on generations only growing, and only while the
lock is held. Theorems: `TypeCorrect`, `EstablishmentIsExclusive`,
`NoSecondSession`, `GenerationsIdentifySessions`, `OnlyFailedOpenDrops` (an action
property, from `IInv` and the lemma `CloserFailedOnIt`) and `ClientIsSingleTunnel`,
the refinement of `SingleTunnel`: an `EstablishOk` maps to `Establish`, a step that
closes the open session to `Drop`, any other to a stutter.

**`Client_proofs`, the establishment.** `FixedRelayIsKept` needs the strengthening
`FixedInv`: a client with a fixed relay has one, and is never in a scan.
`NoConnectionLeaks` needs to know which connection is held where: the relay's from
its handshake to the invitation (`RelayStages`), the tunnel's from the session's
dial on (`TunnelStages`), and neither anywhere else. With that, `HeldConn`, the open
connections are at every stage those that are held, and a step that drops one has
closed it; `SocketMoves` says what opening and closing do to the three variables.
`EstablishTypeCorrect` has a case per action (`EstablishTypeStep`).

**`RelayScan_proofs`.** `NoConnectionLeaks`, `MissingIsMissing`, `ClosedAfterSends`
and `TypeCorrect`. That a scan which reports a missing device has tried every
relay rests on following the one success that set the flag: it is with its
goroutine, in the channel, or with the caller (`Claim`), each open connection is
accounted for (`Open`), and the channel is closed only when all that was listed
has been launched and has ended (`Launch`, `Ending`). The semaphore counts the
goroutines past it (`Tokens`).

**`RelayList_proofs`, the cache.** `ListsStayIntact`, `CacheServes`, `OnlyFailureStales` and
`TypeCorrect`. What the runs check says nothing of a list that is half copied
or half shuffled, nor of whose slice the cached one is. `Owned` says that the
cached list of an owner is that owner's; `InBounds` that every index in use is
one; `Whole` that a copy that met no shuffle is what the cache begins with; `Dated`
that without a failed fetch a list is as old as the time it was stored at. Lemmas
about sequences (`SwapKeeps`, `CopyIsWhole`) say that exchanging two elements and
copying all of them keep what is in a list.

**`RelayList_proofs`, the discovery.** `InsecureIsLastResort`, `FailuresAreHonest`
and `DiscoveryTypeCorrect`. A strategy that has passed an endpoint was refused there
(`SecureInv`, `InsecureInv`); a failed strategy is one that no endpoint would have
answered (`HonestInv`). That holds only if none runs out of time on the way: what is
left always covers a capped request for each endpoint but the last, and a moment
for that one (`Budget`), which is where `TimeAssumption` is needed.

**`RelaySelection_proofs`.** `PreFilterKeepsFastest`, `PreFilterPersists`,
`EarlyStopIsSound`, `SelectionKeepsPromise` and `TypeCorrect`, of the two phases as
`RelaySelection` composes them. `FilterInv` follows the answers through the rounds:
what is pending was asked and did not answer within the timeout of any round so
far (`Complete`), what succeeded answered with its own delay in one round
(`Answers`, `Times`). `RankInv` says that what is tested is what its probes came to
(`Tests`), that the flag is set by a test that had enough before it (`StopInv`),
and that the result is in the order of the scores (`BestFirst`). `OutcomeInv` and
`PhaseInv` tie the phases together: the ranking runs on what the pre-filter kept.
The timeout of a round is a recursive function (`Patience`); that it doubles is
proved from its definition (`PatienceDoubles`): its finite approximations exist and
agree, by a least counterexample. That minima exist and that sorting permutes is
proved the same way.

**`Server_proofs`, the tunnels.** `SlotsAreAccounted`, `CallbacksArePaired` and
`TypeCorrect`. The tokens are the streams past the semaphore, the counter is the
streams that have a slot, and a tunnel at the semaphore has exactly one stream
there (`Tokens`, `Count`, `Admissions`): the last is what keeps the two counts in
step when a tunnel gives up waiting.

**`Server_proofs`, the lifecycle.** `UndisturbedRunsServe` and
`LifecycleTypeCorrect`. One `Run` at a time is under way and is the one `Stop`
would cancel (`OneRun`); a `Stop` between its two steps has told it
(`StopExcludes`); nothing else is ever cancelled (`DoneForReason`); and what a
`Run` leaves behind shows how far it has come (`Traces`), so that a listener found
in the field is an earlier `Run`'s or that of one which was told (`Listening`, which
also says that only a server is ever at a relay).

**`TunnelPath_proofs`.** `EndsAreComplete` and `TypeCorrect`. The chunks of a
direction are with the sink, in the three links or in the two loops, and only a
write that fails loses one (`Carriage`). In a direction that nothing disturbs none
fails, and each loop ends only after what feeds it has ended and is drained
(`Flow`). A loop that ends early would have to find its source closed by the other
direction of the same copy: who can have closed what is in `OwnEnd` and
`LocalClosed`.

**`Identity_proofs`, the codec.** `CleanCopyIsUnderstood`, `TyposAreNoticed` and
`EntryTypeCorrect`, for alphabets, keys, groups and addresses of any size that
`DeviceIDAssumption` admits. The inductive invariant `EntryInv` says of the text
under way what it will be taken for when it is entered (`Expected`): itself
(`AsIt`), or nothing (`Refused`). Under it lie four arguments.
A number is read back from its digits (`FixedRead`, `CompactRead`,
`LettersRead`, `StandardRead`): the recursive functions of the codec satisfy
their equations (`StepsExist`), and the digits come off in the order they were put
on. The parser takes a text for the form it has (`SizesApart`, `ReadAsCompact`,
`ReadAsStandard`, `CompactHinted`, `AnyHinted`), by the lengths of the assumption,
in the order in which `SplitRelayHint` tries them. Dashes and lower case are undone
in the ID, and not in its hint (`DashedRead`, `LowerRead`). And the check digits
tell a typo: different letters add differently to the sum (`AddendsApart`), and so
do neighbours that have changed places, unless they are the first and the last
letter of the alphabet (`TwiceOfTwo`), always by less than the alphabet's size
(`WrongInChunk`, `SwappedInChunk`); for this the number of letters must be even.
The rest of the ID, with the hint behind it, keeps its place (`WrongLetter`,
`SwappedLetters`, `SubstitutionRead`, `TranspositionRead`).

**`Identity_proofs`, the identity file.** `IdentityIsStable`,
`NoIdentityFromTornFile` and `TypeCorrect`. Without trouble from outside one start
at most makes the identity (`OneMaker`), it does so only while the file holds none
(`MadeWhenMissing`), and what was announced is in the file (`AnnouncedIsSaved`).
As long as no two starts have made the file at once, a process that is about to
write finds it as it was truncated (`Cleared`, `WInv`), so that what is written is
all there is (`WrittenAlone`).
That a seed written whole is read again, and one cut short is not, is the codec's
`CompactRead`.

**`RelayWire_proofs`.** `MessagesAreIntact`, `InvitationsAreUnderstood` and
`TypeCorrect`. What a relay sends is one stream of bytes (`Stream`), and the
inductive invariant says where each of them is: the messages read are the first
of the stream (`Kept`), the buffer holds what comes next (`Buffered`), then what is
on the way (`Arriving`), up to what has been sent, while the connection lasts. That
a reader never finds the middle of a message where a header should be rests on
the length in the last header being that of the message (`Announced`), and that
its buffer still holds what it put there on no two goroutines having the same one
(`Exclusive`). The other way the relay has got the request and a pong for each of
the first pings, or fewer (`Written`). The functions that take a number apart and
put it together, and the joining of messages, are recursive; their equations are
proved from their definitions as for `Patience`, and from them that a word is read
as it was written (`WordRead`), that a header is (`HeaderRead`), that opaque data is
read with its padding skipped or refused when it is cut short (`OpaqueRead`,
`OpaqueCut`), and so an invitation (`WholeInvitation`, `CutInvitation`).

Left to TLC: the liveness properties, which need fairness and `ENABLED`. Every
safety invariant and action property of a run is stated by a theorem.

## Where the code and its documentation differ

* `OnTunnelLost` is not called for a loss that `getSessionWithGen` finds
  (`client.go` 297-304): only `invalidateSessionIfMatch` does, after a failed `Open`.
  `config.go` 115: "OnTunnelLost is called when the tunnel connection is lost."
* The wait for the join response has no timeout and does not look at the context
  (`client.go` 933; comment at 164: "The establishment logic handles its own
  timeouts"). The server has the same wait (`server.go` 274), before the goroutine
  that would close the connection is started (146), so that a `Stop` does not end it.
  `EstablishReturns` and `StopEndsRun` name this wait as the only exception.
* `DialContext` asks for a relay before it looks for a hint, and the relay found
  counts as given (`helpers.go` 126). `config.go` 93: "If empty and TargetID contains
  a hint, uses the hinted relay."
* A tunnel waiting for a token does not notice its loss (`server.go` 359), so
  `OnDisconnect` may come any time after it. `config.go` 57: "OnDisconnect is called
  when a client disconnects."
* The relays are ordered by latency plus twice the jitter (`discovery.go` 929).
  Line 749: "returns the one with lowest latency".
* `LoadOrGenerateIdentity` makes a new identity and writes over the file after any
  error of reading it (`identity.go` 211-228), one of permission or format too.
  `tunnel.go` 69-71: "generates a new one and saves it if the file doesn't exist". A
  `readError` is therefore one of the troubles that `StableIdentity` exempts. Line
  73 says base64url where the code uses its own Base63.

Found on the way:

* After a client has reconnected, the `OnDisconnect` of its old tunnel may come
  after the `OnConnect` of the new one.
* A connection that a probe has put into `results` stays open when the caller is
  cancelled at that moment (`NoConnLeak` names this one exception), and `Run`,
  cancelled, leaves the session open to the other side.
* After a failed fetch the stale list is stored with the present time and counts
  as fresh for a whole TTL (`StaleOnlyAfterFailure` says that only then it does). A
  list that is copied while another client shuffles the cached slice may have a
  relay twice and miss another (`ListsIntact` exempts exactly these).
* Whether a slow answer survives the end of its request depends on the kind of
  connection at the ends, and on the stream's timer of 30 seconds
  (`Undisturbed` in `TunnelPath`); the loops cannot tell an error from an end.
* A relay hint has eight digits, which 63 letters make less than 2^48: from
  within 225.x.x.x on the server announces an ID with nine, which no client accepts
  (`Recognised` in `DeviceIDEntry`).
* The check digits miss a transposition of a check digit with the letter before
  it or after it, and of the first and the last letter of the alphabet
  (`Swappable`); all single substitutions are noticed.
* Two processes that make the identity file at once may leave a mixture: a write that
  is cut short covers only the beginning of the other's seed, and if enough of it is
  there the file is read as an identity that nobody has generated
  (`AnnouncedWasGenerated` exempts exactly this overlap).
* FastOptions' early stop asks for 250 tests while the pre-filter passes on 30
  relays.

## What is not modelled

* yamux, TLS and the relays are external: a session lives and dies, a handshake
  succeeds or fails, a relay knows the server or not.
* `WriteMessage`'s path for messages over 128 bytes (`wire.go` 66-102): no caller
  sends one.
* `FindFastest`'s cache of five minutes: nothing in the program calls it. A server
  keeps the relay it has discovered for as long as it runs, and its
  `AllowedClientIDs` are compared as they are written; neither changes any state.
* The cryptography of identities: the ID is taken as some function of the seed.
* The answer to a request in the discovery comes at once or not at all: one that is
  slow but in time is not told from one that is quick.
* A loss of the tunnel in `TunnelPath` is seen at both ends at once; a peer that
  falls silent, which without keepalive is noticed by a write that times out, is left
  out, as is `yamux.Client` failing on a faulty configuration.
* Builds with 32-bit integers: `wire.go` 175 turns a length into an `int`, which is
  taken to hold it.
* Durations, except where they decide something: the shares of the deadline in
  the discovery, the timeouts of the pre-filter, the latencies of the ranking,
  the TTL of the cache.
* The callbacks of `Options`, diagnostics counters, logging, and the parsing of
  URLs and of the relay list.
* Dialers, socket options, configuration, embedded list, command line and
  examples: no shared state and no protocol.

## The plan

Modelled and checked: all components but those listed above. What is left, most
important first:

1. `ClientSession` over `ClientEstablish`: the step between `LockSession` and
   `EstablishOk` refined to the stages of an establishment.
2. Client and server around one relay: a session is established at both ends or
   at one, and what the other end sees of it.
3. `DialContext` and the server's `Run` over `RelaySelection`, with a relay that
   disappears between its selection and its use.
