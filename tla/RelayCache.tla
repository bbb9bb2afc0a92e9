------------------------------ MODULE RelayCache ------------------------------
(***************************************************************************)
(* The list of relays that all clients of a process share (src/client.go,  *)
(* scanAndConnect): a scan copies the list while it is fresh, or fetches   *)
(* one, falls back on the old one when that fails, stores what it has with *)
(* the present time, and shuffles it.                                      *)
(*                                                                         *)
(* What a scan stores is the slice it goes on to shuffle, without the      *)
(* lock: while it does, the list in the cache is its own, and another scan *)
(* that copies it element by element may find it between two assignments   *)
(* of a swap.  A relay that is read while it is assigned is any of the two *)
(* or neither (Torn): Go defines nothing for it.                           *)
(***************************************************************************)
EXTENDS Naturals, SequencesExt

CONSTANTS
  Clients, NoClient,
  Pool,     \* the list of the relay pool
  TTL,      \* relayCacheTTL
  MaxTime,  \* bound: the clock
  MaxScans  \* bound: scans of all clients together

ASSUME CacheAssumption ==
  /\ NoClient \notin Clients /\ {TTL, MaxTime, MaxScans} \subseteq Nat
  /\ Pool \in Seq(Range(Pool)) /\ Pool # <<>> /\ IsInjective(Pool)

Torn == "torn"
Elements == Range(Pool) \cup {Torn}

\* A fetched list counts as new when it is first stored.
JustFetched == MaxTime + 1

VARIABLES
  now,
  cached,    \* relayCache, <<>> for none,
  storedAt,  \* relayCacheTime,
  owner,     \* and the client whose slice it is as long as that client shuffles
  pc,        \* per client: where its scan is
  list,      \* its relays
  pos,       \* how far it is in copying, or in shuffling
  other,     \* the index a swap exchanges with pos
  tries,     \* fetches left
  scans,     \* scans begun
  \* History of the lists: when it was first stored, per client and in the cache,
  \* who has copied one that was shuffled meanwhile, whether a fetch has failed,
  \* and whose scan began with a list in the cache.
  origin, cachedOrigin, raced, cachedRaced, failed, hadCache

cache == <<cached, storedAt, owner, cachedOrigin, cachedRaced>>
history == <<origin, raced, failed, hadCache>>
vars == <<now, cache, pc, list, pos, other, tries, scans, history>>

TypeOK ==
  /\ now \in 0..MaxTime /\ storedAt \in 0..MaxTime /\ owner \in Clients \cup {NoClient}
  /\ cached \in Seq(Elements) /\ list \in [Clients -> Seq(Elements)]
  /\ pc \in [Clients -> {"idle", "check", "fetch", "fallback", "copyFresh", "copyStale", "store",
                          "shuffle", "swap", "scan", "failed"}]
  /\ pos \in [Clients -> Nat] /\ other \in [Clients -> Nat]
  /\ tries \in [Clients -> 0..2] /\ scans \in 0..MaxScans
  /\ origin \in [Clients -> Nat] /\ cachedOrigin \in Nat
  /\ raced \subseteq Clients /\ hadCache \subseteq Clients
  /\ cachedRaced \in BOOLEAN /\ failed \in BOOLEAN

Init ==
  /\ now = 0 /\ cached = <<>> /\ storedAt = 0 /\ owner = NoClient
  /\ pc = [c \in Clients |-> "idle"]
  /\ list = [c \in Clients |-> <<>>]
  /\ pos = [c \in Clients |-> 0] /\ other = [c \in Clients |-> 0]
  /\ tries = [c \in Clients |-> 0] /\ scans = 0
  /\ origin = [c \in Clients |-> 0] /\ cachedOrigin = 0
  /\ raced = {} /\ cachedRaced = FALSE
  /\ failed = FALSE /\ hadCache = {}

-----------------------------------------------------------------------------

Goto(c, place) == pc' = [pc EXCEPT ![c] = place]

Begin(c) ==
  /\ pc[c] \in {"idle", "scan", "failed"} /\ scans < MaxScans
  /\ scans' = scans + 1
  /\ hadCache' = IF cached # <<>> THEN hadCache \cup {c} ELSE hadCache \ {c}
  /\ list' = [list EXCEPT ![c] = <<>>]
  /\ raced' = raced \ {c}
  /\ Goto(c, "check")
  /\ UNCHANGED <<now, cache, pos, other, tries, origin, failed>>

\* Copying starts, under the read lock, with a slice of the cached length.
StartCopy(c, place) ==
  /\ pos' = [pos EXCEPT ![c] = 1]
  /\ origin' = [origin EXCEPT ![c] = cachedOrigin]
  /\ raced' = IF cachedRaced THEN raced \cup {c} ELSE raced
  /\ Goto(c, place)

\* Mutant of Check: the age of the list is not looked at.
CheckAnyAge(c) ==
  /\ pc[c] = "check"
  /\ \/ /\ cached # <<>> /\ StartCopy(c, "copyFresh")
        /\ UNCHANGED tries
     \/ /\ cached = <<>>
        /\ tries' = [tries EXCEPT ![c] = 2]
        /\ Goto(c, "fetch") /\ UNCHANGED <<pos, origin, raced>>
  /\ UNCHANGED <<now, cache, list, other, scans, failed, hadCache>>

Check(c) ==
  /\ pc[c] = "check"
  /\ \/ /\ cached # <<>> /\ now - storedAt < TTL
        /\ StartCopy(c, "copyFresh")
        /\ UNCHANGED tries
     \/ /\ cached = <<>> \/ now - storedAt >= TTL
        /\ tries' = [tries EXCEPT ![c] = 2]
        /\ Goto(c, "fetch") /\ UNCHANGED <<pos, origin, raced>>
  /\ UNCHANGED <<now, cache, list, other, scans, failed, hadCache>>

FetchOk(c) ==
  /\ pc[c] = "fetch"
  /\ list' = [list EXCEPT ![c] = Pool]
  /\ origin' = [origin EXCEPT ![c] = JustFetched]
  /\ tries' = [tries EXCEPT ![c] = 0]
  /\ Goto(c, "store")
  /\ UNCHANGED <<now, cache, pos, other, scans, raced, failed, hadCache>>

\* Mutant of FetchFails: there is no way back to the old list.
FetchFailsStores(c) ==
  /\ pc[c] = "fetch"
  /\ tries' = [tries EXCEPT ![c] = @ - 1]
  /\ failed' = TRUE
  /\ Goto(c, IF tries'[c] > 0 THEN "fetch" ELSE "store")
  /\ UNCHANGED <<now, cache, list, pos, other, scans, origin, raced, hadCache>>

FetchFails(c) ==
  /\ pc[c] = "fetch"
  /\ tries' = [tries EXCEPT ![c] = @ - 1]
  /\ failed' = TRUE
  /\ Goto(c, IF tries'[c] > 0 THEN "fetch" ELSE "fallback")
  /\ UNCHANGED <<now, cache, list, pos, other, scans, origin, raced, hadCache>>

Fallback(c) ==
  /\ pc[c] = "fallback"
  /\ \/ cached # <<>> /\ StartCopy(c, "copyStale")
     \/ cached = <<>> /\ Goto(c, "failed") /\ UNCHANGED <<pos, origin, raced>>
  /\ UNCHANGED <<now, cache, list, other, tries, scans, failed, hadCache>>

\* The owner of the cached slice is shuffling it.
Shuffled == owner # NoClient

\* What a read of element i gives: while the owner assigns it, anything.
Read(i) ==
  IF Shuffled /\ pc[owner] = "swap" /\ i \in {pos[owner], other[owner]}
    THEN {cached[i], list[owner][other[owner]], list[owner][pos[owner]], Torn}
    ELSE {cached[i]}

\* copy copies one element after the other.  The read lock keeps the slice from
\* being replaced, and not its elements from being changed.
CopyElement(c) ==
  /\ pc[c] \in {"copyFresh", "copyStale"}
  /\ \E r \in Read(pos[c]) : list' = [list EXCEPT ![c] = Append(@, r)]
  /\ raced' = IF Shuffled THEN raced \cup {c} ELSE raced
  /\ IF pos[c] < Len(cached)
       THEN pos' = [pos EXCEPT ![c] = @ + 1] /\ UNCHANGED pc
       ELSE Goto(c, IF pc[c] = "copyFresh" THEN "shuffle" ELSE "store") /\ UNCHANGED pos
  /\ UNCHANGED <<now, cache, other, tries, scans, origin, failed, hadCache>>

\* A scan holds the read lock.
Copying == \E c \in Clients : pc[c] \in {"copyFresh", "copyStale"}

Store(c) ==
  /\ pc[c] = "store" /\ ~Copying
  /\ cached' = list[c] /\ storedAt' = now /\ owner' = c
  /\ cachedOrigin' = Min({origin[c], now}) /\ cachedRaced' = (c \in raced)
  /\ pos' = [pos EXCEPT ![c] = Len(list[c])]
  /\ Goto(c, "shuffle")
  /\ UNCHANGED <<now, list, other, tries, scans, history>>

\* rand.Shuffle goes down the list and exchanges each relay with one before it,
\* or with itself.
BeginSwap(c) ==
  /\ pc[c] = "shuffle" /\ pos[c] > 1
  /\ \E i \in 1..pos[c] : other' = [other EXCEPT ![c] = i]
  /\ Goto(c, "swap")
  /\ UNCHANGED <<now, cache, list, pos, tries, scans, history>>

\* What follows an assignment to the list of c, for the cache too when it is the
\* same slice.
Assign(c, l) ==
  /\ list' = [list EXCEPT ![c] = l]
  /\ cached' = IF owner = c THEN l ELSE cached

\* Mutant of EndSwap: the second assignment uses what the first has changed.
EndSwapInPlace(c) ==
  /\ pc[c] = "swap"
  /\ Assign(c, [list[c] EXCEPT ![pos[c]] = list[c][other[c]]])
  /\ pos' = [pos EXCEPT ![c] = @ - 1] /\ other' = [other EXCEPT ![c] = 0]
  /\ Goto(c, "shuffle")
  /\ UNCHANGED <<now, storedAt, owner, cachedOrigin, cachedRaced, tries, scans, history>>

EndSwap(c) ==
  /\ pc[c] = "swap"
  /\ Assign(c, [list[c] EXCEPT ![pos[c]] = list[c][other[c]], ![other[c]] = list[c][pos[c]]])
  /\ pos' = [pos EXCEPT ![c] = @ - 1] /\ other' = [other EXCEPT ![c] = 0]
  /\ Goto(c, "shuffle")
  /\ UNCHANGED <<now, storedAt, owner, cachedOrigin, cachedRaced, tries, scans, history>>

\* The list is scanned; RelayScan has the rest.
EndShuffle(c) ==
  /\ pc[c] = "shuffle" /\ pos[c] <= 1
  /\ owner' = IF owner = c THEN NoClient ELSE owner
  /\ pos' = [pos EXCEPT ![c] = 0]
  /\ Goto(c, "scan")
  /\ UNCHANGED <<now, cached, storedAt, cachedOrigin, cachedRaced, list, other, tries, scans, history>>

TimePasses ==
  /\ now < MaxTime /\ now' = now + 1
  /\ UNCHANGED <<cache, pc, list, pos, other, tries, scans, history>>

Next ==
  \/ \E c \in Clients :
       \/ Begin(c) \/ Check(c) \/ FetchOk(c) \/ FetchFails(c) \/ Fallback(c)
       \/ CopyElement(c) \/ Store(c) \/ BeginSwap(c) \/ EndSwap(c) \/ EndShuffle(c)
  \/ TimePasses

Spec == Init /\ [][Next]_vars

-----------------------------------------------------------------------------
(* Properties. *)

Intact(l) == Len(l) = Len(Pool) /\ Range(l) = Range(Pool)

\* Every list that is scanned, and the one in the cache, has each relay of the
\* pool once, except for what was copied, at first or second hand, from a slice
\* that its owner was shuffling (client.go:396-451).
ListsIntact ==
  /\ \A c \in Clients : pc[c] \in {"shuffle", "scan"} /\ c \notin raced => Intact(list[c])
  /\ cached # <<>> /\ ~cachedRaced => Intact(cached)

\* Once there is a list, scans begin whatever becomes of the fetches, and with
\* some relays: the cache is never emptied and its list never given up (client.go:425-444).
FilledCacheServes ==
  \A c \in hadCache :
    pc[c] # "failed" /\ (pc[c] \in {"shuffle", "swap", "scan"} => list[c] # <<>>)

\* As long as fetches succeed no scan takes a list from the cache that was
\* stored longer ago than the TTL, in whichever order scans store and check; a
\* list that survives a failure counts as new (client.go:399, 441-443).
StaleOnlyAfterFailure ==
  [][\A c \in Clients : pc[c] = "check" /\ pc'[c] = "copyFresh" =>
       now - cachedOrigin < TTL \/ failed]_vars
=============================================================================
