----------------------------- MODULE TunnelPath -----------------------------
(***************************************************************************)
(* The way of the data of one local connection: the application, the       *)
(* client's CopyBidirectional (src/client.go, handleConnection), the yamux *)
(* stream, the server's CopyBidirectional (src/server.go, handleStream)    *)
(* and the target.  Each of the two copies (src/pkg/network/copy.go) has   *)
(* one loop per direction.                                                 *)
(*                                                                         *)
(* Data is counted in chunks, what one Read returns.  Connections are      *)
(* external.  A TCP connection can be half-closed and is reset when it is  *)
(* closed with data unread; a pipe (net.Pipe and other connections without *)
(* CloseWrite) has only Close; the Close of a yamux stream is a half-close *)
(* with a timer (StreamCloseTimeout): when the peer has not closed its     *)
(* half by then the stream is torn down.  Whether a stream half-closed     *)
(* here can still be read depends on the version of yamux: both are        *)
(* modelled.                                                               *)
(***************************************************************************)
EXTENDS Naturals

CONSTANTS
  MaxChunks,   \* bound: what the source of each direction sends
  Window,      \* how many chunks a connection holds in one direction
  Settings     \* what the application's and the target's connections are, and
               \* whether a half-closed stream can be read

ASSUME PathAssumption ==
  /\ MaxChunks \in [{"up", "down"} -> Nat] /\ Window \in Nat \ {0}
  /\ Settings \subseteq [app : {"tcp", "pipe"}, target : {"tcp", "pipe"}, halfReads : BOOLEAN]

App == 0        Client == 1        Server == 2        Target == 3
Nodes == {App, Client, Server, Target}
Dirs == {"up", "down"}

\* Link k joins node k and node k + 1; link 1 is the stream.
Links == {0, 1, 2}
Other(d) == IF d = "up" THEN "down" ELSE "up"

VARIABLES
  kind,      \* what each link is: "tcp", "pipe" or "stream"
  halfReads, \* a stream half-closed here can still be read
  inflight,  \* per link and direction: the chunks written and not yet read
  fin,       \* per link and direction: the writer has ended
  closed,    \* per link: the nodes whose end is closed outright
  dead,      \* the links that are broken
  timedOut,  \* the timer of a half-closed stream has run out
  pc,        \* per copying node and direction: where the loop is
  copying,   \* the nodes whose CopyBidirectional has not returned
  sent,      \* per direction: the chunks its source has sent,
  rcvd,      \* the chunks its sink has received,
  sawEnd     \* and whether the sink was told that no more will come

links == <<inflight, fin, closed, dead>>
ends == <<sent, rcvd, sawEnd>>
vars == <<kind, halfReads, links, timedOut, pc, copying, ends>>

Copiers == {Client, Server}

TypeOK ==
  /\ kind \in [Links -> {"tcp", "pipe", "stream"}] /\ halfReads \in BOOLEAN
  /\ inflight \in [Links -> [Dirs -> 0..Window]]
  /\ fin \in [Links -> [Dirs -> BOOLEAN]]
  /\ closed \in [Links -> SUBSET Nodes]
  /\ dead \subseteq Links /\ timedOut \in BOOLEAN
  /\ pc \in [Copiers -> [Dirs -> {"read", "write", "done"}]]
  /\ copying \subseteq Copiers
  /\ \A d \in Dirs : {sent[d], rcvd[d]} \subseteq 0..MaxChunks[d]
  /\ sawEnd \in [Dirs -> BOOLEAN]

Init ==
  /\ \E s \in Settings :
       /\ kind = [k \in Links |-> CASE k = 0 -> s.app [] k = 1 -> "stream" [] k = 2 -> s.target]
       /\ halfReads = s.halfReads
  /\ inflight = [c \in Links |-> [d \in Dirs |-> 0]]
  /\ fin = [c \in Links |-> [d \in Dirs |-> FALSE]]
  /\ closed = [k \in Links |-> {}]
  /\ dead = {} /\ timedOut = FALSE
  /\ pc = [l \in Copiers |-> [d \in Dirs |-> "read"]]
  /\ copying = Copiers
  /\ sent = [d \in Dirs |-> 0] /\ rcvd = [d \in Dirs |-> 0]
  /\ sawEnd = [d \in Dirs |-> FALSE]

-----------------------------------------------------------------------------
(* Connections. *)

\* The link a node reads from, or writes to, in a direction.
In(n, d) == IF d = "up" THEN n - 1 ELSE n
Out(n, d) == IF d = "up" THEN n ELSE n - 1

\* The node at the far end of link k.
Peer(k, n) == 2 * k + 1 - n

\* The direction in which node n writes to link k.
Writes(k, n) == IF n = k THEN "up" ELSE "down"

\* Read returns data; it may when the link breaks at that moment, or not.
Readable(n, d) == n \notin closed[In(n, d)] /\ inflight[In(n, d)][d] > 0

\* Read returns EOF or an error.
ReadEnds(n, d) ==
  LET k == In(n, d) IN
  \/ n \in closed[k] \/ k \in dead
  \/ /\ inflight[k][d] = 0
     /\ fin[k][d] \/ (kind[k] = "stream" /\ ~halfReads /\ fin[k][Other(d)])

WriteFails(n, d) ==
  LET k == Out(n, d) IN
  k \in dead \/ fin[k][d] \/ Peer(k, n) \in closed[k]

\* Node n ends its half of link k.
HalfClose(k, n) ==
  /\ fin' = [fin EXCEPT ![k][Writes(k, n)] = TRUE]
  /\ UNCHANGED <<closed, dead>>

\* Node n closes link k.  With data unread, TCP resets the connection, which
\* may take with it what n has sent; what was written to a pipe has been read
\* when the writer goes on to close it.
FullClose(k, n) ==
  /\ kind[k] = "pipe" /\ closed[k] = {} /\ k \notin dead => inflight[k][Writes(k, n)] = 0
  /\ fin' = [fin EXCEPT ![k][Writes(k, n)] = TRUE]
  /\ closed' = [closed EXCEPT ![k] = @ \cup {n}]
  /\ dead' = IF kind[k] = "tcp" /\ inflight[k][Writes(k, Peer(k, n))] > 0
               THEN dead \cup {k} ELSE dead

-----------------------------------------------------------------------------
(* A loop of CopyBidirectional. *)

Goto(n, d, place) == pc' = [pc EXCEPT ![n][d] = place]

\* src.Read returns data.
ReadChunk(n, d) ==
  /\ pc[n][d] = "read" /\ Readable(n, d)
  /\ inflight' = [inflight EXCEPT ![In(n, d)][d] = @ - 1]
  /\ Goto(n, d, "write")
  /\ UNCHANGED <<kind, halfReads, fin, closed, dead, timedOut, copying, ends>>

\* Mutants of EndLoop: dst is not told; dst is closed outright, whatever it is.
EndLoopSilently(n, d) ==
  /\ Goto(n, d, "done")
  /\ UNCHANGED <<kind, halfReads, links, timedOut, copying, ends>>

EndLoopCloses(n, d) ==
  /\ FullClose(Out(n, d), n)
  /\ Goto(n, d, "done")
  /\ UNCHANGED <<kind, halfReads, inflight, timedOut, copying, ends>>

\* How a loop ends: dst.CloseWrite, or dst.Close when dst cannot half-close (the
\* Close of a stream is a half-close).
EndLoop(n, d) ==
  /\ IF kind[Out(n, d)] = "pipe" THEN FullClose(Out(n, d), n)
                                 ELSE HalfClose(Out(n, d), n)
  /\ Goto(n, d, "done")
  /\ UNCHANGED <<kind, halfReads, inflight, timedOut, copying, ends>>

\* src.Read returns EOF or an error: the loop makes no difference between them.
ReadEnd(n, d) == pc[n][d] = "read" /\ ReadEnds(n, d) /\ EndLoop(n, d)

\* dst.Write takes the chunk, when there is room for it.
WriteChunk(n, d) ==
  /\ pc[n][d] = "write" /\ ~WriteFails(n, d)
  /\ inflight[Out(n, d)][d] < Window
  /\ inflight' = [inflight EXCEPT ![Out(n, d)][d] = @ + 1]
  /\ Goto(n, d, "read")
  /\ UNCHANGED <<kind, halfReads, fin, closed, dead, timedOut, copying, ends>>

\* Mutant of WriteFail: the loop tries the same chunk again.
WriteFailRetries(n, d) ==
  /\ pc[n][d] = "write" /\ WriteFails(n, d)
  /\ UNCHANGED vars

\* dst.Write fails, and the chunk is lost.
WriteFail(n, d) == pc[n][d] = "write" /\ WriteFails(n, d) /\ EndLoop(n, d)

\* The link of a node that is not the stream.
Local(n) == IF n = Client THEN 0 ELSE 2

\* wg.Wait returns and the deferred calls close both connections: the local one
\* outright, the stream, which its loop has closed already, once more.
Return(n) ==
  /\ n \in copying /\ \A d \in Dirs : pc[n][d] = "done"
  /\ copying' = copying \ {n}
  /\ FullClose(Local(n), n)
  /\ UNCHANGED <<kind, halfReads, inflight, timedOut, pc, ends>>

-----------------------------------------------------------------------------
(* The application and the target. *)

Source(d) == IF d = "up" THEN App ELSE Target
Sink(d) == Source(Other(d))
FirstLink(d) == Out(Source(d), d)
LastLink(d) == In(Sink(d), d)

Send(d) ==
  /\ sent[d] < MaxChunks[d]
  /\ ~WriteFails(Source(d), d) /\ Source(d) \notin closed[FirstLink(d)]
  /\ inflight[FirstLink(d)][d] < Window
  /\ inflight' = [inflight EXCEPT ![FirstLink(d)][d] = @ + 1]
  /\ sent' = [sent EXCEPT ![d] = @ + 1]
  /\ UNCHANGED <<kind, halfReads, fin, closed, dead, timedOut, pc, copying, rcvd, sawEnd>>

\* The source has sent all it wants and ends its half, or closes.
Finish(d) ==
  /\ Source(d) \notin closed[FirstLink(d)]
  /\ \/ /\ kind[FirstLink(d)] = "tcp" /\ ~fin[FirstLink(d)][d]
        /\ HalfClose(FirstLink(d), Source(d))
     \/ FullClose(FirstLink(d), Source(d))
  /\ UNCHANGED <<kind, halfReads, inflight, timedOut, pc, copying, ends>>

Receive(d) ==
  /\ Readable(Sink(d), d)
  /\ inflight' = [inflight EXCEPT ![LastLink(d)][d] = @ - 1]
  /\ rcvd' = [rcvd EXCEPT ![d] = @ + 1]
  /\ UNCHANGED <<kind, halfReads, fin, closed, dead, timedOut, pc, copying, sent, sawEnd>>

SeeEnd(d) ==
  /\ ~sawEnd[d] /\ Sink(d) \notin closed[LastLink(d)] /\ ReadEnds(Sink(d), d)
  /\ sawEnd' = [sawEnd EXCEPT ![d] = TRUE]
  /\ UNCHANGED <<kind, halfReads, links, timedOut, pc, copying, sent, rcvd>>

-----------------------------------------------------------------------------
(* Trouble. *)

\* The tunnel is lost, and the stream with it.
LoseTunnel ==
  /\ 1 \notin dead
  /\ dead' = dead \cup {1}
  /\ UNCHANGED <<kind, halfReads, inflight, fin, closed, timedOut, pc, copying, ends>>

\* The stream was closed here and the peer has not closed its half in time: it
\* is torn down, for the peer too.
StreamTimeout(n) ==
  /\ fin[1][Writes(1, n)] /\ ~fin[1][Writes(1, Peer(1, n))] /\ 1 \notin dead
  /\ closed' = [closed EXCEPT ![1] = @ \cup {n}]
  /\ dead' = dead \cup {1}
  /\ timedOut' = TRUE
  /\ UNCHANGED <<kind, halfReads, inflight, fin, pc, copying, ends>>

Loop(n, d) == \/ ReadChunk(n, d) \/ ReadEnd(n, d)
              \/ WriteChunk(n, d) \/ WriteFail(n, d)

Next ==
  \/ \E n \in Copiers : Return(n) \/ StreamTimeout(n) \/ \E d \in Dirs : Loop(n, d)
  \/ \E d \in Dirs : Send(d) \/ Finish(d) \/ Receive(d) \/ SeeEnd(d)
  \/ LoseTunnel

Spec == Init /\ [][Next]_vars

\* The loops run, the timer runs out, and the ends read what there is.  That
\* they send, finish, or that something breaks is not assumed.
FairSpec ==
  /\ Spec
  /\ \A n \in Copiers :
       /\ WF_vars(Return(n)) /\ WF_vars(StreamTimeout(n))
       /\ \A d \in Dirs : WF_vars(Loop(n, d))
  /\ \A d \in Dirs : WF_vars(Receive(d)) /\ WF_vars(SeeEnd(d))

-----------------------------------------------------------------------------
(* Properties. *)

\* Nothing keeps the data of a direction from arriving: no connection broke, no
\* timer ran out, the sink is still there, and if one of the connections cannot
\* end its two directions apart then the other direction has not ended.
Undisturbed(d) ==
  /\ dead = {} /\ ~timedOut
  /\ Sink(d) \notin closed[LastLink(d)]
  /\ \/ halfReads /\ \A k \in Links : kind[k] # "pipe"
     \/ ~fin[FirstLink(Other(d))][Other(d)]

\* A sink that is told the data has ended has all of it, through both copies
\* and the stream, in whichever order the two directions end (copy.go:27-63).
EndMeansComplete ==
  \A d \in Dirs : sawEnd[d] /\ Undisturbed(d) =>
    fin[FirstLink(d)][d] /\ rcvd[d] = sent[d]

\* When a source ends, or a connection breaks anywhere on the way, each end that
\* still listens learns that nothing more will come: the loops turn every error
\* into an end, even while the other direction is idle (copy.go:32-58).
EndIsPassedOn ==
  \A d \in Dirs :
    fin[FirstLink(d)][d] \/ dead # {}
      ~> sawEnd[d] \/ Sink(d) \in closed[LastLink(d)]

\* Once both ends have ended, both copies return, so that handleConnection and
\* handleStream close what they have opened and the server gets its token back
\* (copy.go:60-64, client.go:232-271, server.go:466-487).
PathReleased ==
  (\A d \in Dirs : fin[FirstLink(d)][d]) ~> copying = {}
=============================================================================
