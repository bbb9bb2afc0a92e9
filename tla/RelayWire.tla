------------------------------ MODULE RelayWire ------------------------------
(***************************************************************************)
(* The relay protocol on the wire (src/pkg/protocol/wire.go): goroutines   *)
(* that each talk to a relay over a connection of their own, as the probes *)
(* of a scan do (src/client.go), and share the pools of        *)
(* buffers.  One sends a request, answers pings and waits for an           *)
(* invitation, which it decodes.  Bytes come in pieces, and a connection   *)
(* may end between any two.                                                *)
(*                                                                         *)
(* Bytes are numbers below 256.  Sizes are constants so that messages      *)
(* around every limit are short; the real ones are given beside them.      *)
(***************************************************************************)
EXTENDS Naturals, SequencesExt

CONSTANTS
  Goroutines,
  WordLen,    \* 4, the bytes of a number and what opaque data is padded to
  SmallCap,   \* 128, the capacity of a buffer of the small pool
  MaxMessage, \* 4 MB, the same of the large pool
  Magic,
  Piece,      \* bound: how many bytes one Read returns
  MaxCuts,    \* bound: how many connections end early
  Keys,       \* what a request carries: the target's device ID or a session key
  Sendings,   \* the sequences of messages a relay may send
  Invitations \* the invitations in them

HeaderLen == 3 * WordLen
Pools == {"header", "small", "large"}
Capacity == [header |-> HeaderLen, small |-> SmallCap, large |-> MaxMessage]

Byte == 0..255
MaxPort == 65535
Port == 0..MaxPort

ASSUME WireAssumption ==
  /\ {WordLen, SmallCap, MaxMessage, Piece} \subseteq Nat \ {0} /\ MaxCuts \in Nat
  /\ HeaderLen < SmallCap /\ SmallCap < MaxMessage

MessageTypes == {"ping", "pong", "connectRequest", "sessionInvitation", "response"}
TypeNumber == [ping |-> 0, pong |-> 1, connectRequest |-> 5, response |-> 4, sessionInvitation |-> 6]

VARIABLES
  key,      \* per goroutine: what its request carries
  sending,  \* what its relay will send
  pc,       \* where it is
  outbox,   \* the message it writes
  buf,      \* the buffer it holds, or NoBuffer
  filled,   \* how many bytes it has read into its buffer
  head,     \* the type and the length in the header it has read
  sent,     \* how many messages its relay has sent
  incoming, \* the bytes on the way from its relay
  cut,      \* whether its connection has ended
  wire,     \* the bytes its relay has got
  received, \* the messages it has read
  decoded,  \* the invitations it has decoded, or Malformed, each with its bytes
  idle,     \* per pool: the buffers in it
  content   \* what is in each buffer

conn == <<sent, incoming, cut, wire>>
pools == <<idle, content>>
vars == <<key, sending, pc, outbox, buf, filled, head, conn, received, decoded, pools>>

\* A pool makes a new buffer when it is empty; no goroutine holds two.
Buffers == Pools \X Goroutines
NoBuffer == <<"none">>

\* A new buffer.  What is left in one that is given back is never read, as it is
\* filled before: it is taken for new.
Blank(b) == [i \in 1..Capacity[b[1]] |-> 0]
NoHead == [type |-> "none", length |-> 0]

-----------------------------------------------------------------------------
(* Numbers, opaque data and messages as bytes. *)

\* n without its last bytes, for any number of them up to a word.
Shifted(n) == LET rest[k \in 0..WordLen] == IF k = 0 THEN n ELSE rest[k - 1] \div 256 IN rest

PutUint(n) == [i \in 1..WordLen |-> Shifted(n)[WordLen - i] % 256]

\* What the first bytes of a number come to, for any number of them.
Values(bytes) ==
  LET value[i \in 0..Len(bytes)] == IF i = 0 THEN 0 ELSE 256 * value[i - 1] + bytes[i] IN value

Uint(bytes) == Values(bytes)[Len(bytes)]

\* A word is enough for n.
Fits(n) == n \in Nat /\ Shifted(n)[WordLen] = 0

Padding(l) == (WordLen - (l % WordLen)) % WordLen

XDRBytes(b) == PutUint(Len(b)) \o b \o [i \in 1..Padding(Len(b)) |-> 0]

Header(type, len) == PutUint(Magic) \o PutUint(TypeNumber[type]) \o PutUint(len)
Framed(msg) == Header(msg.type, Len(msg.body)) \o msg.body

\* What the relay sends for an invitation (external: its XDR, which may end
\* before the port or the flag).
InvitationBody(inv) ==
  XDRBytes(inv.from) \o XDRBytes(inv.key) \o XDRBytes(inv.address)
    \o (IF inv.fields > 0 THEN PutUint(inv.port) ELSE <<>>)
    \o (IF inv.fields > 1 THEN PutUint(IF inv.serverSocket THEN 1 ELSE 0) ELSE <<>>)

Malformed == [from |-> <<>>, malformed |-> TRUE]

Messages == [type : MessageTypes, body : Seq(Byte)]

\* A request fits a small buffer.
GoodKey(k) == k \in Seq(Byte) /\ HeaderLen + Len(XDRBytes(k)) <= SmallCap

GoodInvitation(inv) ==
  /\ inv \in [from : Seq(Byte), key : Seq(Byte), address : Seq(Byte),
              port : Port, serverSocket : BOOLEAN, fields : 0..2]
  /\ Fits(Len(inv.from)) /\ Fits(Len(inv.key)) /\ Fits(Len(inv.address)) /\ Fits(inv.port)

\* The body ends before the address does.
CutShort(body, inv) ==
  \E n \in 0..(Len(XDRBytes(inv.from) \o XDRBytes(inv.key)) + WordLen + Len(inv.address) - 1) :
    body = SubSeq(InvitationBody(inv), 1, n)

\* What a relay may send: its invitations are whole or cut short.
GoodMessage(msg) ==
  /\ msg \in Messages /\ Fits(Len(msg.body))
  /\ msg.type = "sessionInvitation" =>
       \E inv \in Invitations : msg.body = InvitationBody(inv) \/ CutShort(msg.body, inv)

GoodSending(s) == s \in Seq(Messages) /\ \A i \in DOMAIN s : GoodMessage(s[i])

ASSUME MessageAssumption ==
  /\ Fits(Magic)
  /\ \A k \in Keys : GoodKey(k)
  /\ \A inv \in Invitations : GoodInvitation(inv)
  /\ \A s \in Sendings : GoodSending(s)

\* Mutant of ReadOpaque: the padding is not skipped.
ReadOpaqueUnpadded(data, offset) ==
  LET l == Uint(SubSeq(data, offset + 1, offset + WordLen)) IN
  IF offset + WordLen > Len(data) \/ offset + WordLen + l > Len(data)
    THEN [ok |-> FALSE, val |-> <<>>, offset |-> offset]
    ELSE [ok |-> TRUE, val |-> SubSeq(data, offset + WordLen + 1, offset + WordLen + l),
          offset |-> offset + WordLen + l]

\* readOpaque, from an offset on.  The length is an int made from 32 bits and does
\* not overflow here, as on machines with 64 bits (wire.go:175).
ReadOpaque(data, offset) ==
  LET l == Uint(SubSeq(data, offset + 1, offset + WordLen)) IN
  IF offset + WordLen > Len(data) \/ offset + WordLen + l > Len(data)
    THEN [ok |-> FALSE, val |-> <<>>, offset |-> offset]
    ELSE [ok |-> TRUE, val |-> SubSeq(data, offset + WordLen + 1, offset + WordLen + l),
          offset |-> offset + WordLen + l + Padding(l)]

DecodeInvitation(data) ==
  LET from == ReadOpaque(data, 0)
      invKey == ReadOpaque(data, from.offset)
      address == ReadOpaque(data, invKey.offset)
      number(i) == Uint(SubSeq(data, address.offset + i * WordLen + 1, address.offset + (i + 1) * WordLen))
      has(i) == address.offset + (i + 1) * WordLen <= Len(data)
  IN IF ~(from.ok /\ invKey.ok /\ address.ok) THEN Malformed
     ELSE [from |-> from.val, key |-> invKey.val, address |-> address.val,
           port |-> IF has(0) THEN number(0) % 65536 ELSE 0,
           serverSocket |-> has(1) /\ number(1) = 1]

-----------------------------------------------------------------------------

TypeOK ==
  /\ key \in [Goroutines -> Keys] /\ sending \in [Goroutines -> Sendings]
  /\ pc \in [Goroutines -> {"write", "send", "getHeader", "header", "getBody", "body",
                             "handle", "done", "failed"}]
  /\ buf \in [Goroutines -> Buffers \cup {NoBuffer}]
  /\ filled \in [Goroutines -> 0..MaxMessage] /\ cut \in [Goroutines -> BOOLEAN]
  /\ idle \subseteq Buffers

Init ==
  /\ key \in [Goroutines -> Keys] /\ sending \in [Goroutines -> Sendings]
  /\ pc = [g \in Goroutines |-> "write"]
  /\ outbox = [g \in Goroutines |-> [type |-> "connectRequest", body |-> XDRBytes(key[g])]]
  /\ buf = [g \in Goroutines |-> NoBuffer]
  /\ filled = [g \in Goroutines |-> 0] /\ head = [g \in Goroutines |-> NoHead]
  /\ sent = [g \in Goroutines |-> 0]
  /\ incoming = [g \in Goroutines |-> <<>>] /\ cut = [g \in Goroutines |-> FALSE]
  /\ wire = [g \in Goroutines |-> <<>>]
  /\ received = [g \in Goroutines |-> <<>>]
  /\ decoded = [g \in Goroutines |-> <<>>]
  /\ idle = Buffers /\ content = [b \in Buffers |-> Blank(b)]

-----------------------------------------------------------------------------
(* The pools. *)

\* Mutant of Take: the buffer is given back before it is used.
TakeShared(g, pool) ==
  \E b \in {b \in idle : b[1] = pool} :
    buf' = [buf EXCEPT ![g] = b] /\ UNCHANGED idle

Take(g, pool) ==
  \E b \in {b \in idle : b[1] = pool} :
    buf' = [buf EXCEPT ![g] = b] /\ idle' = idle \ {b}

Put(g) ==
  /\ idle' = idle \cup {buf[g]} /\ buf' = [buf EXCEPT ![g] = NoBuffer]
  /\ content' = [content EXCEPT ![buf[g]] = Blank(buf[g])]

First(s, n) == SubSeq(s, 1, n)
After(s, n) == SubSeq(s, n + 1, Len(s))

\* What is in buffer b when bytes are put behind the first n.
Filling(b, n, bytes) ==
  content' = [content EXCEPT ![b] = First(@, n) \o bytes \o After(@, n + Len(bytes))]

Goto(g, place) == pc' = [pc EXCEPT ![g] = place]

-----------------------------------------------------------------------------
(* WriteMessage.  All messages the program writes fit a small buffer. *)

WriteMessage(g) ==
  /\ pc[g] = "write"
  /\ Take(g, "small")
  /\ Filling(buf'[g], 0, Framed(outbox[g]))
  /\ Goto(g, "send")
  /\ UNCHANGED <<key, sending, outbox, filled, head, conn, received, decoded>>

\* Write sends the buffer, or a part of it when the connection ends; the error
\* stops a request, while that of a pong is not looked at.
Send(g) ==
  /\ pc[g] = "send"
  /\ \/ /\ ~cut[g]
        /\ wire' = [wire EXCEPT ![g] = @ \o First(content[buf[g]], Len(Framed(outbox[g])))]
        /\ Goto(g, "getHeader")
     \/ /\ cut[g]
        /\ UNCHANGED wire
        /\ Goto(g, IF outbox[g].type = "pong" THEN "getHeader" ELSE "failed")
  /\ Put(g)
  /\ UNCHANGED <<key, sending, outbox, filled, head, sent, incoming, cut, received, decoded>>

-----------------------------------------------------------------------------
(* ReadMessage. *)

GetHeader(g) ==
  /\ pc[g] = "getHeader"
  /\ Take(g, "header")
  /\ filled' = [filled EXCEPT ![g] = 0]
  /\ Goto(g, "header")
  /\ UNCHANGED <<key, sending, outbox, head, conn, received, decoded, content>>

\* How many bytes io.ReadFull is to read.
Need(g) == IF pc[g] = "header" THEN HeaderLen ELSE head[g].length

Reading(g) == pc[g] \in {"header", "body"} /\ filled[g] < Need(g)

\* io.ReadFull gets a piece.
ReadSome(g) ==
  /\ Reading(g) /\ incoming[g] # <<>>
  /\ LET n == Min({Piece, Need(g) - filled[g], Len(incoming[g])}) IN
     /\ Filling(buf[g], filled[g], First(incoming[g], n))
     /\ incoming' = [incoming EXCEPT ![g] = After(@, n)]
     /\ filled' = [filled EXCEPT ![g] = @ + n]
  /\ UNCHANGED <<key, sending, pc, outbox, buf, head, sent, cut, wire, received, decoded, idle>>

\* io.ReadFull fails: the connection has ended.
ReadFails(g) ==
  /\ Reading(g) /\ incoming[g] = <<>> /\ cut[g]
  /\ Put(g)
  /\ Goto(g, "failed")
  /\ UNCHANGED <<key, sending, outbox, filled, head, conn, received, decoded>>

\* The header is taken apart and its buffer given back.
ParseHeader(g) ==
  /\ pc[g] = "header" /\ filled[g] = HeaderLen
  /\ LET word(i) == Uint(SubSeq(content[buf[g]], i * WordLen + 1, (i + 1) * WordLen))
         type == CHOOSE t \in MessageTypes : TypeNumber[t] = word(1)
     IN IF word(0) = Magic /\ word(2) <= MaxMessage
          THEN /\ head' = [head EXCEPT ![g] = [type |-> type, length |-> word(2)]]
               /\ Goto(g, IF word(2) > 0 THEN "getBody" ELSE "handle")
               /\ received' = IF word(2) > 0 THEN received
                    ELSE [received EXCEPT ![g] = Append(@, [type |-> type, body |-> <<>>])]
          ELSE Goto(g, "failed") /\ UNCHANGED <<head, received>>
  /\ Put(g)
  /\ UNCHANGED <<key, sending, outbox, filled, conn, decoded>>

GetBody(g) ==
  /\ pc[g] = "getBody"
  /\ Take(g, IF head[g].length <= SmallCap THEN "small" ELSE "large")
  /\ filled' = [filled EXCEPT ![g] = 0]
  /\ Goto(g, "body")
  /\ UNCHANGED <<key, sending, outbox, head, conn, received, decoded, content>>

\* The body is copied and its buffer given back.
CopyBody(g) ==
  /\ pc[g] = "body" /\ filled[g] = head[g].length
  /\ received' = [received EXCEPT ![g] =
       Append(@, [type |-> head[g].type, body |-> First(content[buf[g]], head[g].length)])]
  /\ Put(g)
  /\ Goto(g, "handle")
  /\ UNCHANGED <<key, sending, outbox, filled, head, conn, decoded>>

Handling(g, type) == pc[g] = "handle" /\ Last(received[g]).type = type

HandlePing(g) ==
  /\ Handling(g, "ping")
  /\ outbox' = [outbox EXCEPT ![g] = [type |-> "pong", body |-> <<>>]]
  /\ Goto(g, "write")
  /\ UNCHANGED <<key, sending, buf, filled, head, conn, received, decoded, pools>>

\* A response other than success ends the wait.
HandleResponse(g) ==
  /\ Handling(g, "response")
  /\ LET body == Last(received[g]).body
         rejected == Len(body) >= WordLen /\ Uint(First(body, WordLen)) # 0
     IN Goto(g, IF rejected THEN "failed" ELSE "getHeader")
  /\ UNCHANGED <<key, sending, outbox, buf, filled, head, conn, received, decoded, pools>>

\* An invitation from another device than the target is passed over.
HandleInvitation(g) ==
  /\ Handling(g, "sessionInvitation")
  /\ LET body == Last(received[g]).body
         inv == DecodeInvitation(body)
     IN /\ decoded' = [decoded EXCEPT ![g] = Append(@, [body |-> body, inv |-> inv])]
        /\ \/ inv = Malformed /\ Goto(g, "failed")
           \/ inv # Malformed /\ inv.from # key[g] /\ Goto(g, "getHeader")
           \/ inv # Malformed /\ inv.from = key[g] /\ Goto(g, "done")
  /\ UNCHANGED <<key, sending, outbox, buf, filled, head, conn, received, pools>>

HandleUnexpected(g) ==
  /\ pc[g] = "handle" /\ Last(received[g]).type \notin {"ping", "response", "sessionInvitation"}
  /\ Goto(g, "failed")
  /\ UNCHANGED <<key, sending, outbox, buf, filled, head, conn, received, decoded, pools>>

-----------------------------------------------------------------------------
(* The relay and the connection. *)

Request(g) == [type |-> "connectRequest", body |-> XDRBytes(key[g])]

RelaySends(g) ==
  /\ ~cut[g] /\ sent[g] < Len(sending[g])
  /\ Len(wire[g]) >= Len(Framed(Request(g)))
  /\ sent' = [sent EXCEPT ![g] = @ + 1]
  /\ incoming' = [incoming EXCEPT ![g] = @ \o Framed(sending[g][sent'[g]])]
  /\ UNCHANGED <<key, sending, pc, outbox, buf, filled, head, cut, wire, received, decoded, pools>>

\* The connection ends, with what has come so far or with less.
Cut(g) ==
  /\ ~cut[g] /\ Quantify(Goroutines, LAMBDA h : cut[h]) < MaxCuts
  /\ cut' = [cut EXCEPT ![g] = TRUE]
  /\ \E n \in 0..Len(incoming[g]) : incoming' = [incoming EXCEPT ![g] = First(@, n)]
  /\ UNCHANGED <<key, sending, pc, outbox, buf, filled, head, sent, wire, received, decoded, pools>>

Next ==
  \E g \in Goroutines :
    \/ WriteMessage(g) \/ Send(g)
    \/ GetHeader(g) \/ ReadSome(g) \/ ReadFails(g) \/ ParseHeader(g)
    \/ GetBody(g) \/ CopyBody(g)
    \/ HandlePing(g) \/ HandleResponse(g) \/ HandleInvitation(g) \/ HandleUnexpected(g)
    \/ RelaySends(g) \/ Cut(g)

Spec == Init /\ [][Next]_vars

-----------------------------------------------------------------------------
(* Properties. *)

\* What a goroutine reads is what its own relay sent, message by message, and
\* what a relay gets is the request and then pongs, in whatever pieces the bytes
\* come, whoever used the buffers meanwhile, and up to the largest message that
\* is accepted: none outgrows the buffer it is read into (wire.go:45-64, 105-157).
MessagesIntact ==
  \A g \in Goroutines :
    LET pongs == FlattenSeq([i \in 1..Len(sending[g]) |-> Header("pong", 0)])
    IN /\ IsPrefix(received[g], sending[g])
       /\ IsPrefix(wire[g], Framed(Request(g)) \o pongs)
       /\ pc[g] \in {"header", "body"} => Need(g) <= Capacity[buf[g][1]]

\* An invitation is understood as the relay meant it, with opaque data of every
\* length and with the last fields or without, and one that is cut short is
\* refused (wire.go:168-219).
InvitationUnderstood ==
  \A g \in Goroutines : \A d \in Range(decoded[g]) :
    LET meant == {inv \in Invitations : InvitationBody(inv) = d.body}
    IN \/ d.inv = Malformed /\ meant = {}
       \/ \E inv \in meant :
            d.inv = [from |-> inv.from, key |-> inv.key, address |-> inv.address,
                     port |-> IF inv.fields > 0 THEN inv.port ELSE 0,
                     serverSocket |-> inv.fields > 1 /\ inv.serverSocket]
=============================================================================
