---------------------------- MODULE IdentityStore ----------------------------
(***************************************************************************)
(* LoadOrGenerateIdentity (src/pkg/security/identity.go): servers and      *)
(* clients that start with the same identity file, crash and start again.  *)
(* The file is read, and when that gives no identity, for whatever reason, *)
(* a new seed is drawn and os.WriteFile truncates the file and writes it:  *)
(* nothing is locked, renamed or synced.  Each process writes from the     *)
(* start of the file what it has to write, over whatever is there by then. *)
(*                                                                         *)
(* A text is a string of DeviceID without the newline that ends it, a PEM  *)
(* file (the legacy format) is the key of its certificate.                 *)
(***************************************************************************)
EXTENDS DeviceID, FiniteSets

CONSTANTS
  Procs,        \* the processes that use the file
  Seeds,        \* the seeds that may be drawn
  DeviceKey,    \* external: the hash of the certificate made from a seed
  InitialFiles, \* what the file may be before the first start
  MaxStarts     \* bound: starts of all processes together

Absent == [type |-> "absent"]
Text(s) == [type |-> "text", text |-> s]
Pem(key) == [type |-> "pem", key |-> key]

ASSUME StoreAssumption ==
  /\ Seeds \subseteq 0..KeySpace - 1 /\ MaxStarts \in Nat
  /\ DeviceKey \in [0..KeySpace - 1 -> 0..KeySpace - 1]
  /\ \A f \in InitialFiles :
       IF f.type = "text" THEN f = Text(f.text)
       ELSE IF f.type = "pem" THEN f = Pem(f.key) /\ f.key \in 0..KeySpace - 1
       ELSE f = Absent

VARIABLES
  file,
  dirty,     \* the file's content has not reached the disk yet
  pc,        \* per process: where its start is
  seed,      \* the seed it has drawn
  drawn,     \* all seeds ever drawn
  starts,
  announced, \* the identities any process has run with
  trouble    \* what went wrong that the code does not guard against

vars == <<file, dirty, pc, seed, drawn, starts, announced, trouble>>

None == Rejected

TypeOK ==
  /\ file.type \in {"absent", "text", "pem"} /\ dirty \in BOOLEAN
  /\ pc \in [Procs -> {"down", "load", "generate", "open", "write", "running"}]
  /\ seed \in [Procs -> Seeds \cup {None}] /\ drawn \subseteq Seeds
  /\ starts \in 0..MaxStarts
  /\ trouble \subseteq {"overlap", "readError", "powerLoss"}

Init ==
  /\ file \in InitialFiles /\ dirty = FALSE
  /\ pc = [p \in Procs |-> "down"]
  /\ seed = [p \in Procs |-> None] /\ drawn = {}
  /\ starts = 0 /\ announced = {} /\ trouble = {}

\* LoadIdentity, once the file is read: the identity in it, or None.
Identity(f) ==
  IF f.type = "text" /\ DecodeBase63(f.text) # Rejected THEN DeviceKey[DecodeBase63(f.text)]
  ELSE IF f.type = "pem" THEN f.key
  ELSE None

Goto(p, place) == pc' = [pc EXCEPT ![p] = place]

\* Another start has found no identity and has not saved its own yet.
Generating(p) == \E q \in Procs \ {p} : pc[q] \in {"generate", "open", "write"}

Start(p) ==
  /\ pc[p] = "down" /\ starts < MaxStarts
  /\ starts' = starts + 1
  /\ Goto(p, "load")
  /\ UNCHANGED <<file, dirty, seed, drawn, announced, trouble>>

\* os.ReadFile gives an identity, or nothing that is one.
Load(p) ==
  /\ pc[p] = "load"
  /\ \/ /\ Identity(file) # None
        /\ announced' = announced \cup {Identity(file)}
        /\ Goto(p, "running") /\ UNCHANGED trouble
     \/ /\ Identity(file) = None
        /\ Goto(p, "generate")
        /\ trouble' = IF Generating(p) THEN trouble \cup {"overlap"} ELSE trouble
        /\ UNCHANGED announced
  /\ UNCHANGED <<file, dirty, seed, drawn, starts>>

\* os.ReadFile fails, whatever is there; a file that is absent is no trouble.
LoadFails(p) ==
  /\ pc[p] = "load" /\ file # Absent
  /\ Goto(p, "generate")
  /\ trouble' = trouble \cup {"readError"} \cup (IF Generating(p) THEN {"overlap"} ELSE {})
  /\ UNCHANGED <<file, dirty, seed, drawn, starts, announced>>

\* Random seeds are taken never to repeat.
Generate(p) ==
  /\ pc[p] = "generate"
  /\ \E s \in Seeds \ drawn :
       /\ seed' = [seed EXCEPT ![p] = s]
       /\ drawn' = drawn \cup {s}
  /\ Goto(p, "open")
  /\ UNCHANGED <<file, dirty, starts, announced, trouble>>

\* os.WriteFile opens the file and truncates it, or cannot.
OpenFile(p) ==
  /\ pc[p] = "open"
  /\ \/ file' = Text(<<>>) /\ dirty' = TRUE /\ Goto(p, "write")
     \/ Goto(p, "down") /\ UNCHANGED <<file, dirty>>
  /\ UNCHANGED <<seed, drawn, starts, announced, trouble>>

\* A text written at the start of the file, which was truncated when it was opened
\* and not since: what another process has written behind it stays.
Overwritten(s) == Text(s \o After(file.text, Len(s)))

WriteSeed(p) ==
  /\ pc[p] = "write"
  /\ file' = Overwritten(EncodeBase63(seed[p])) /\ dirty' = TRUE
  /\ announced' = announced \cup {DeviceKey[seed[p]]}
  /\ Goto(p, "running")
  /\ UNCHANGED <<seed, drawn, starts, trouble>>

\* Mutant of WriteFails: the error is ignored.
WriteFailsIgnored(p) ==
  /\ pc[p] = "write"
  /\ announced' = announced \cup {DeviceKey[seed[p]]}
  /\ Goto(p, "running")
  /\ UNCHANGED <<file, dirty, seed, drawn, starts, trouble>>

\* The disk is full: a part of the seed is written, or only the newline behind it is
\* not, and the start fails.
WriteFails(p) ==
  /\ pc[p] = "write"
  /\ \E n \in 0..CompactLen : file' = Overwritten(First(EncodeBase63(seed[p]), n))
  /\ dirty' = TRUE
  /\ Goto(p, "down")
  /\ UNCHANGED <<seed, drawn, starts, announced, trouble>>

\* The process stops or is killed, anywhere.
Crash(p) ==
  /\ pc[p] # "down"
  /\ Goto(p, "down")
  /\ UNCHANGED <<file, dirty, seed, drawn, starts, announced, trouble>>

\* The system writes the file to the disk in its own time, and loses what it
\* has not written when the power fails.
Sync ==
  /\ dirty /\ dirty' = FALSE
  /\ UNCHANGED <<file, pc, seed, drawn, starts, announced, trouble>>

PowerLoss ==
  /\ dirty /\ file' = Text(<<>>) /\ dirty' = FALSE
  /\ pc' = [p \in Procs |-> "down"]
  /\ trouble' = trouble \cup {"powerLoss"}
  /\ UNCHANGED <<seed, drawn, starts, announced>>

Next ==
  \/ \E p \in Procs :
       \/ Start(p) \/ Load(p) \/ LoadFails(p) \/ Generate(p)
       \/ OpenFile(p) \/ WriteSeed(p) \/ WriteFails(p) \/ Crash(p)
  \/ Sync \/ PowerLoss

Spec == Init /\ [][Next]_vars

-----------------------------------------------------------------------------
(* Properties. *)

\* All starts with a file run with one identity, wherever any of them crashes
\* or fails to write it, unless two of them make the file at the same time, a
\* read fails or the power goes before the file is on the disk
\* (identity.go:211-232).
StableIdentity == trouble = {} => Cardinality(announced) <= 1

\* No process ever runs with an identity that nobody generated: a file that is
\* torn or empty is not taken for one, whatever the starts, the crashes, the failed
\* reads and the failed writes, unless two starts make the file at the same time: a
\* write that is cut off over the other's seed leaves a mixture of the two
\* (identity.go:241-255, 281-284, decodeBase63).
AnnouncedWasGenerated ==
  "overlap" \notin trouble =>
    announced \subseteq {DeviceKey[s] : s \in drawn} \cup {Identity(f) : f \in InitialFiles}
=============================================================================
