-------------------------- MODULE TunnelPath_proofs --------------------------
(***************************************************************************)
(* Proofs for TunnelPath, for any number of chunks, any window and any     *)
(* settings.                                                               *)
(*                                                                         *)
(* The argument: the chunks of a direction are with its sink, in one of    *)
(* the three links or in one of the two loops; only a write that fails     *)
(* loses one (Carriage).  As long as nothing disturbs a direction none     *)
(* fails, and each of its loops ends after what feeds it has ended and is  *)
(* drained (Flow).  A loop that ends early would have to find its source   *)
(* closed by the other direction of the same copy: OwnEnd and LocalClosed  *)
(* say who can have closed what.                                           *)
(***************************************************************************)
EXTENDS TunnelPath, TLAPS

Near(d) == IF d = "up" THEN Client ELSE Server   \* the copier next to the source
Far(d) == IF d = "up" THEN Server ELSE Client    \* and the one next to the sink

Types ==
  /\ kind \in [Links -> {"tcp", "pipe", "stream"}] /\ halfReads \in BOOLEAN
  /\ inflight \in [Links -> [Dirs -> 0..Window]]
  /\ fin \in [Links -> [Dirs -> BOOLEAN]]
  /\ closed \in [Links -> SUBSET Nodes]
  /\ dead \subseteq Links /\ timedOut \in BOOLEAN
  /\ pc \in [Copiers -> [Dirs -> {"read", "write", "done"}]]
  /\ copying \subseteq Copiers
  /\ sent \in [Dirs -> Nat] /\ rcvd \in [Dirs -> Nat]
  /\ sawEnd \in [Dirs -> BOOLEAN]

\* The stream is a stream, and is closed outright by its timer only.
Stream ==
  /\ kind[1] = "stream" /\ kind[0] # "stream" /\ kind[2] # "stream"
  /\ closed[1] = {} \/ timedOut

\* Only the loop that writes to a link ends its half.
OwnEnd == \A n \in Copiers, d \in Dirs : fin[Out(n, d)][d] => pc[n][d] = "done"

\* A copy closes its local link when its writing loop cannot end its half alone,
\* or when both loops have ended.
LocalClosed ==
  \A d \in Dirs : Near(d) \in closed[FirstLink(d)] =>
    /\ pc[Near(d)][Other(d)] = "done"
    /\ kind[FirstLink(d)] = "pipe" \/ pc[Near(d)][d] = "done"

Held(n, d) == IF pc[n][d] = "write" THEN 1 ELSE 0

\* The chunks of a direction that are not lost.
Carried(d) == rcvd[d] + (inflight[0][d] + inflight[1][d] + inflight[2][d])
                      + (Held(Client, d) + Held(Server, d))

Carriage == \A d \in Dirs : Carried(d) <= sent[d] /\ sent[d] <= MaxChunks[d]

\* The source has ended and its copy has taken all it sent.
Drained(d) == fin[FirstLink(d)][d] /\ inflight[FirstLink(d)][d] = 0

\* A direction that nothing disturbs.
Flow(d) ==
  /\ Carried(d) = sent[d]
  /\ pc[Near(d)][d] = "done" => Drained(d)
  /\ pc[Far(d)][d] = "done" => pc[Near(d)][d] = "done" /\ inflight[1][d] = 0
  /\ sawEnd[d] => pc[Far(d)][d] = "done" /\ inflight[LastLink(d)][d] = 0
  /\ kind[FirstLink(d)] = "pipe" /\ closed[FirstLink(d)] # {} => Drained(d)
  /\ ~fin[FirstLink(Other(d))][Other(d)] /\ pc[Far(d)][Other(d)] = "done" => pc[Far(d)][d] = "done"

Flows == \A d \in Dirs : Undisturbed(d) => Flow(d)

IInv == Types /\ Stream /\ OwnEnd /\ LocalClosed /\ Carriage /\ Flows

USE PathAssumption DEF App, Client, Server, Target, Nodes, Dirs, Links, Copiers, Other

-----------------------------------------------------------------------------
(* Types. *)

LEMMA Places ==
  ASSUME NEW n \in Copiers, NEW d \in Dirs
  PROVE  /\ In(n, d) \in Links /\ Out(n, d) \in Links /\ In(n, d) # Out(n, d)
         /\ FirstLink(d) \in Links /\ LastLink(d) \in Links
         /\ Local(n) \in Links /\ Other(d) \in Dirs
BY DEF In, Out, FirstLink, LastLink, Source, Sink, Local

\* However a node ends its half or closes a link, what is closed stays closed.
Grows ==
  /\ \A k \in Links : closed[k] \subseteq closed'[k]
  /\ \A k \in Links, d \in Dirs : fin[k][d] => fin'[k][d]
  /\ dead \subseteq dead'

LEMMA Closing ==
  ASSUME Types, NEW k \in Links, NEW n \in Nodes, HalfClose(k, n) \/ FullClose(k, n)
  PROVE  /\ fin' \in [Links -> [Dirs -> BOOLEAN]] /\ closed' \in [Links -> SUBSET Nodes]
         /\ dead' \subseteq Links /\ Grows
<1>1. Writes(k, n) \in Dirs
  BY DEF Writes
<1>2. CASE HalfClose(k, n)
  BY <1>1, <1>2 DEF Types, HalfClose, Grows
<1>3. CASE FullClose(k, n)
  <2>1. fin' \in [Links -> [Dirs -> BOOLEAN]] /\ closed' \in [Links -> SUBSET Nodes]
    BY <1>1, <1>3 DEF Types, FullClose
  <2>2. dead' \subseteq Links /\ dead \subseteq dead'
    BY <1>3 DEF Types, FullClose
  <2> QED BY <1>1, <1>3, <2>1, <2>2 DEF Types, FullClose, Grows
<1> QED BY <1>2, <1>3

LEMMA CalmBefore ==
  ASSUME Types, Grows, kind' = kind, halfReads' = halfReads, timedOut' = timedOut,
         NEW c \in Dirs, Undisturbed(c)'
  PROVE  Undisturbed(c)
BY Places DEF Types, Grows, Undisturbed, Sink, Source

-----------------------------------------------------------------------------
(* The loops. *)

LEMMA ReadChunkKeeps ==
  ASSUME IInv, NEW n \in Copiers, NEW d \in Dirs, ReadChunk(n, d)
  PROVE  IInv'
<1>1. Types'
  BY Places DEF IInv, Types, ReadChunk, Readable, Goto, ends
<1>2. Stream' /\ OwnEnd' /\ LocalClosed'
  BY DEF IInv, Stream, OwnEnd, LocalClosed, ReadChunk, Goto
<1>3. Carriage'
  BY DEF IInv, Types, Carriage, Carried, Held, In, ReadChunk, Goto, ends
<1>4. ASSUME NEW c \in Dirs, Undisturbed(c)' PROVE Flow(c)'
  <2>1. Undisturbed(c) /\ Flow(c)
    BY <1>4 DEF IInv, Flows, Undisturbed, ReadChunk
  <2>2. Carried(c)' = sent'[c]
    BY <2>1 DEF IInv, Types, Flow, Carried, Held, In, ReadChunk, Goto, ends
  <2> QED
    BY <2>1, <2>2 DEF Flow, Drained, ReadChunk, Readable, Goto, ends
<1> QED BY <1>1, <1>2, <1>3, <1>4 DEF IInv, Flows

LEMMA ReadEndKeeps ==
  ASSUME IInv, NEW n \in Copiers, NEW d \in Dirs, ReadEnd(n, d)
  PROVE  IInv'
<1>1. Types'
  BY Closing, Places DEF IInv, Types, ReadEnd, EndLoop, Goto, ends
<1>2. Stream' /\ OwnEnd' /\ LocalClosed'
  BY DEF IInv, Types, Stream, OwnEnd, LocalClosed, Out, FirstLink, Source, ReadEnd,
         EndLoop, HalfClose, FullClose, Writes, Goto
<1>3. Carriage'
  BY DEF IInv, Carriage, Carried, Held, ReadEnd, EndLoop, Goto, ends
<1>4. ASSUME NEW c \in Dirs, Undisturbed(c)' PROVE Flow(c)'
  <2>1. Undisturbed(c) /\ Flow(c)
    BY <1>4, Closing, CalmBefore, Places DEF IInv, Flows, ReadEnd, EndLoop
  <2>2. Carried(c)' = sent'[c]
    BY <2>1 DEF Flow, Carried, Held, ReadEnd, EndLoop, Goto, ends
  <2> QED
    BY <2>1, <2>2 DEF IInv, Types, Flow, Drained, Near, Far, In, Out, OwnEnd,
                      LocalClosed, Stream, Undisturbed, FirstLink, Source, ReadEnd,
                      ReadEnds, EndLoop, HalfClose, FullClose, Goto, ends
<1> QED BY <1>1, <1>2, <1>3, <1>4 DEF IInv, Flows

LEMMA WriteChunkKeeps ==
  ASSUME IInv, NEW n \in Copiers, NEW d \in Dirs, WriteChunk(n, d)
  PROVE  IInv'
<1>1. Types'
  BY Places DEF IInv, Types, WriteChunk, Goto, ends
<1>2. Stream' /\ OwnEnd' /\ LocalClosed'
  BY DEF IInv, Stream, OwnEnd, LocalClosed, WriteChunk, Goto
<1>3. Carriage'
  BY DEF IInv, Types, Carriage, Carried, Held, WriteChunk, Goto, ends
<1>4. ASSUME NEW c \in Dirs, Undisturbed(c)' PROVE Flow(c)'
  <2>1. Undisturbed(c) /\ Flow(c)
    BY <1>4 DEF IInv, Flows, Undisturbed, WriteChunk
  <2>2. Carried(c)' = sent'[c]
    BY <2>1 DEF IInv, Types, Flow, Carried, Held, Out, WriteChunk, Goto, ends
  <2> QED
    BY <2>1, <2>2 DEF Flow, Drained, Near, Far, WriteChunk, WriteFails, Goto, ends
<1> QED BY <1>1, <1>2, <1>3, <1>4 DEF IInv, Flows

LEMMA WriteFailKeeps ==
  ASSUME IInv, NEW n \in Copiers, NEW d \in Dirs, WriteFail(n, d)
  PROVE  IInv'
<1>1. Types'
  BY Closing, Places DEF IInv, Types, WriteFail, EndLoop, Goto, ends
<1>2. Stream' /\ OwnEnd' /\ LocalClosed'
  BY DEF IInv, Types, Stream, OwnEnd, LocalClosed, Out, FirstLink, Source, WriteFail,
         EndLoop, HalfClose, FullClose, Writes, Goto
<1>3. Carriage'
  BY DEF IInv, Types, Carriage, Carried, Held, WriteFail, EndLoop, Goto, ends
<1>4. ASSUME NEW c \in Dirs, Undisturbed(c)' PROVE Flow(c)'
  <2>1. Undisturbed(c) /\ Flow(c)
    BY <1>4, Closing, CalmBefore, Places DEF IInv, Flows, WriteFail, EndLoop
  <2>2. Carried(c)' = sent'[c]
    BY <2>1 DEF IInv, Flow, Carried, Held, In, Out, Undisturbed, OwnEnd, Stream,
                LastLink, Source, Sink, WriteFail, WriteFails, EndLoop, Peer, Goto, ends
  <2> QED
    BY <2>1, <2>2 DEF IInv, Types, Flow, Drained, Far, In, Out, OwnEnd, Stream,
                      Undisturbed, FirstLink, LastLink, Source, Sink, WriteFail,
                      WriteFails, EndLoop, HalfClose, FullClose, Peer, Goto, ends
<1> QED BY <1>1, <1>2, <1>3, <1>4 DEF IInv, Flows

LEMMA ReturnKeeps ==
  ASSUME IInv, NEW n \in Copiers, Return(n)
  PROVE  IInv'
<1>1. Types'
  BY Closing, Places DEF IInv, Types, Return, ends
<1>2. Stream' /\ OwnEnd' /\ LocalClosed'
  BY DEF IInv, Stream, OwnEnd, LocalClosed, Out, Return, Local, FullClose
<1>3. Carriage'
  BY DEF IInv, Types, Carriage, Carried, Held, Return, ends
<1>4. ASSUME NEW c \in Dirs, Undisturbed(c)' PROVE Flow(c)'
  <2>1. Undisturbed(c) /\ Flow(c)
    BY <1>4, Closing, CalmBefore, Places DEF IInv, Flows, Return
  <2>2. Carried(c)' = sent'[c]
    BY <2>1 DEF Flow, Carried, Held, Return, ends
  <2> QED
    BY <2>1, <2>2 DEF Flow, Drained, Near, Out, FirstLink, Source, Return, Local,
                      FullClose, ends
<1> QED BY <1>1, <1>2, <1>3, <1>4 DEF IInv, Flows

-----------------------------------------------------------------------------
(* The ends and the stream. *)

LEMMA SendKeeps ==
  ASSUME IInv, NEW d \in Dirs, Send(d)
  PROVE  IInv'
<1>1. Types'
  BY Places DEF IInv, Types, Send
<1>2. Stream' /\ OwnEnd' /\ LocalClosed'
  BY DEF IInv, Stream, OwnEnd, LocalClosed, Send
<1>3. Carriage'
  BY DEF IInv, Types, Carriage, Carried, Held, Send
<1>4. ASSUME NEW c \in Dirs, Undisturbed(c)' PROVE Flow(c)'
  <2>1. Undisturbed(c) /\ Flow(c)
    BY <1>4 DEF IInv, Flows, Undisturbed, Send
  <2>2. Carried(c)' = sent'[c]
    BY <2>1 DEF IInv, Types, Flow, Carried, Held, Out, FirstLink, Source, Send
  <2> QED
    BY <2>1, <2>2 DEF Flow, Drained, FirstLink, Send, WriteFails
<1> QED BY <1>1, <1>2, <1>3, <1>4 DEF IInv, Flows

LEMMA FinishKeeps ==
  ASSUME IInv, NEW d \in Dirs, Finish(d)
  PROVE  IInv'
<1>1. Types'
  BY Closing, Places DEF IInv, Types, Finish, ends, Source
<1>2. Stream' /\ OwnEnd' /\ LocalClosed'
  BY DEF IInv, Types, Stream, OwnEnd, LocalClosed, Near, Out, FirstLink, Source, Finish,
         HalfClose, FullClose, Writes
<1>3. Carriage'
  BY DEF IInv, Carriage, Carried, Held, Finish, ends
<1>4. ASSUME NEW c \in Dirs, Undisturbed(c)' PROVE Flow(c)'
  <2>1. Undisturbed(c) /\ Flow(c)
    BY <1>4, Closing, CalmBefore, Places DEF IInv, Flows, Finish, Source
  <2>2. Carried(c)' = sent'[c]
    BY <2>1 DEF Flow, Carried, Held, Finish, ends
  <2> QED
    BY <2>1, <2>2 DEF IInv, Types, Flow, Drained, Out, Undisturbed, FirstLink, Source,
                      Finish, HalfClose, FullClose, Writes, ends
<1> QED BY <1>1, <1>2, <1>3, <1>4 DEF IInv, Flows

LEMMA ReceiveKeeps ==
  ASSUME IInv, NEW d \in Dirs, Receive(d)
  PROVE  IInv'
<1>1. Types'
  BY Places DEF IInv, Types, Receive, Readable, LastLink
<1>2. Stream' /\ OwnEnd' /\ LocalClosed'
  BY DEF IInv, Stream, OwnEnd, LocalClosed, Receive
<1>3. Carriage'
  BY DEF IInv, Types, Carriage, Carried, Held, In, LastLink, Source, Sink, Receive
<1>4. ASSUME NEW c \in Dirs, Undisturbed(c)' PROVE Flow(c)'
  <2>1. Undisturbed(c) /\ Flow(c)
    BY <1>4 DEF IInv, Flows, Undisturbed, Receive
  <2>2. Carried(c)' = sent'[c]
    BY <2>1 DEF IInv, Types, Flow, Carried, Held, In, LastLink, Source, Sink, Receive
  <2> QED
    BY <2>1, <2>2 DEF Flow, Drained, LastLink, Receive, Readable
<1> QED BY <1>1, <1>2, <1>3, <1>4 DEF IInv, Flows

LEMMA SeeEndKeeps ==
  ASSUME IInv, NEW d \in Dirs, SeeEnd(d)
  PROVE  IInv'
<1>1. Types'
  BY DEF IInv, Types, SeeEnd, links
<1>2. Stream' /\ OwnEnd' /\ LocalClosed'
  BY DEF IInv, Stream, OwnEnd, LocalClosed, SeeEnd, links
<1>3. Carriage'
  BY DEF IInv, Carriage, Carried, Held, SeeEnd, links
<1>4. ASSUME NEW c \in Dirs, Undisturbed(c)' PROVE Flow(c)'
  <2>1. Undisturbed(c) /\ Flow(c)
    BY <1>4 DEF IInv, Flows, Undisturbed, SeeEnd, links
  <2>2. Carried(c)' = sent'[c]
    BY <2>1 DEF Flow, Carried, Held, SeeEnd, links
  <2> QED
    BY <2>1, <2>2 DEF IInv, Flow, Drained, Far, In, Out, OwnEnd, Undisturbed, FirstLink,
                      LastLink, Source, Sink, SeeEnd, ReadEnds, links
<1> QED BY <1>1, <1>2, <1>3, <1>4 DEF IInv, Flows

LEMMA LoseTunnelKeeps ==
  ASSUME IInv, LoseTunnel
  PROVE  IInv'
<1>1. Types'
  BY Places DEF IInv, Types, LoseTunnel, ends
<1>2. Stream' /\ OwnEnd' /\ LocalClosed'
  BY DEF IInv, Stream, OwnEnd, LocalClosed, LoseTunnel
<1>3. Carriage'
  BY DEF IInv, Carriage, Carried, Held, LoseTunnel, ends
<1>4. ASSUME NEW c \in Dirs, Undisturbed(c)' PROVE Flow(c)'
  BY <1>4 DEF Undisturbed, LoseTunnel
<1> QED BY <1>1, <1>2, <1>3, <1>4 DEF IInv, Flows

LEMMA StreamTimeoutKeeps ==
  ASSUME IInv, NEW n \in Copiers, StreamTimeout(n)
  PROVE  IInv'
<1>1. Types'
  BY DEF IInv, Types, StreamTimeout, ends
<1>2. Stream' /\ OwnEnd' /\ LocalClosed'
  BY DEF IInv, Stream, OwnEnd, LocalClosed, Out, FirstLink, Source, StreamTimeout
<1>3. Carriage'
  BY DEF IInv, Carriage, Carried, Held, StreamTimeout, ends
<1>4. ASSUME NEW c \in Dirs, Undisturbed(c)' PROVE Flow(c)'
  BY <1>4 DEF Undisturbed, StreamTimeout
<1> QED BY <1>1, <1>2, <1>3, <1>4 DEF IInv, Flows

-----------------------------------------------------------------------------
(* The theorems. *)

LEMMA Start == Init => IInv
<1> SUFFICES ASSUME Init PROVE IInv
  OBVIOUS
<1>1. Types /\ Stream
  <2>1. PICK s \in Settings :
          /\ kind = [k \in Links |-> CASE k = 0 -> s.app [] k = 1 -> "stream" [] k = 2 -> s.target]
          /\ halfReads = s.halfReads
    BY DEF Init
  <2>2. {s.app, s.target} \subseteq {"tcp", "pipe"} /\ s.halfReads \in BOOLEAN
    OBVIOUS
  <2>3. kind \in [Links -> {"tcp", "pipe", "stream"}] /\ halfReads \in BOOLEAN /\ Stream
    BY <2>1, <2>2 DEF Init, Stream
  <2>4. 0 \in 0..Window
    OBVIOUS
  <2>5. inflight \in [Links -> [Dirs -> 0..Window]] /\ fin \in [Links -> [Dirs -> BOOLEAN]]
    BY <2>4 DEF Init
  <2>6. pc \in [Copiers -> [Dirs -> {"read", "write", "done"}]] /\ closed \in [Links -> SUBSET Nodes]
    BY DEF Init
  <2>7. sent \in [Dirs -> Nat] /\ rcvd \in [Dirs -> Nat] /\ sawEnd \in [Dirs -> BOOLEAN]
    BY DEF Init
  <2> QED BY <2>3, <2>5, <2>6, <2>7 DEF Init, Types
<1>2. OwnEnd /\ LocalClosed /\ Carriage
  BY Places DEF Init, OwnEnd, LocalClosed, Carriage, Carried, Held
<1>3. Flows
  BY Places DEF Init, Flows, Flow, Carried, Held, Near, Far
<1> QED BY <1>1, <1>2, <1>3 DEF IInv

LEMMA Step == IInv /\ [Next]_vars => IInv'
<1> SUFFICES ASSUME IInv, [Next]_vars PROVE IInv'
  OBVIOUS
<1>1. CASE UNCHANGED vars
  BY <1>1 DEF vars, links, ends, IInv, Types, Stream, OwnEnd, LocalClosed, Carriage, Carried, Held,
              Flows, Flow, Undisturbed, Drained
<1>2. CASE Next
  <2>1. ASSUME NEW n \in Copiers, NEW d \in Dirs, Loop(n, d) PROVE IInv'
    BY <2>1, ReadChunkKeeps, ReadEndKeeps, WriteChunkKeeps, WriteFailKeeps DEF Loop
  <2>2. ASSUME NEW n \in Copiers, Return(n) \/ StreamTimeout(n) PROVE IInv'
    BY <2>2, ReturnKeeps, StreamTimeoutKeeps
  <2>3. ASSUME NEW d \in Dirs, Send(d) \/ Finish(d) \/ Receive(d) \/ SeeEnd(d) PROVE IInv'
    BY <2>3, SendKeeps, FinishKeeps, ReceiveKeeps, SeeEndKeeps
  <2> QED BY <1>2, <2>1, <2>2, <2>3, LoseTunnelKeeps DEF Next
<1> QED BY <1>1, <1>2

LEMMA Inductive == Spec => []IInv
BY Start, Step, PTL DEF Spec

\* The variables keep their types, and no sink receives more than its source was to
\* send (copy.go:27-63).
THEOREM TypeCorrect == Spec => []TypeOK
<1>1. IInv => TypeOK
  BY DEF IInv, Types, Carriage, Carried, Held, TypeOK
<1> QED BY <1>1, Inductive, PTL

\* In an undisturbed direction the end comes after all the data, whatever the order
\* in which the two directions and the two copies end (copy.go:27-63).
THEOREM EndsAreComplete == Spec => []EndMeansComplete
<1>1. IInv => EndMeansComplete
  <2> SUFFICES ASSUME IInv, NEW d \in Dirs, sawEnd[d], Undisturbed(d)
               PROVE  fin[FirstLink(d)][d] /\ rcvd[d] = sent[d]
    BY DEF EndMeansComplete
  <2>1. Flow(d)
    BY DEF IInv, Flows
  <2>2. Drained(d) /\ inflight[1][d] = 0 /\ inflight[LastLink(d)][d] = 0
    BY <2>1 DEF Flow
  <2>3. Held(Client, d) = 0 /\ Held(Server, d) = 0
    BY <2>1 DEF Flow, Held, Near, Far
  <2>4. \A k \in Links : inflight[k][d] = 0
    BY <2>2 DEF Drained, FirstLink, LastLink, Source, Sink, In, Out
  <2>5. Carried(d) = rcvd[d]
    BY <2>3, <2>4 DEF IInv, Types, Carried
  <2> QED BY <2>1, <2>2, <2>5 DEF Flow, Drained
<1> QED BY <1>1, Inductive, PTL
=============================================================================
