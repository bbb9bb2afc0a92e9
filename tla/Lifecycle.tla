----------------------------- MODULE Lifecycle -----------------------------
(***************************************************************************)
(* Run and Stop of a client (src/client.go) and of a server                *)
(* (src/server.go), called any number of times and at the same time.  Run  *)
(* is refused while another one is under way; Stop cancels the context of  *)
(* the last Run and closes the listener it finds in the client.            *)
(*                                                                         *)
(* Run writes the listener into the client without the lock under which    *)
(* Stop reads it: while it does, Stop may find the listener before, the    *)
(* new one or, as it takes two words, none that can be closed.  A client   *)
(* listens on an address of its own, or is given a listener; a server has  *)
(* neither.  What they do while they run is in ClientSession and           *)
(* ServerTunnels; here a server's sessions only begin and end, as it waits *)
(* at the start of each for a relay that may never answer its join.        *)
(***************************************************************************)
EXTENDS Naturals, FiniteSets

CONSTANTS
  Runs,     \* the calls of Run
  Stops,    \* the calls of Stop
  NoCall, Given, NoListener

ASSUME LifecycleAssumption ==
  /\ IsFiniteSet(Runs) /\ IsFiniteSet(Stops)
  /\ NoCall \notin Runs \cup Stops /\ {Given, NoListener} \cap Runs = {} /\ Given # NoListener

VARIABLES
  kind,     \* "own", "given" or "server"
  pc,       \* where each call of Run is
  stopPc,   \* where each call of Stop is
  mu,       \* the call that holds c.mu, as far as it takes more than one step
  running,
  cancel,   \* the Run whose context c.cancel cancels, or NoCall
  field,    \* c.listener: the Run whose listener it is, Given or NoListener
  writing,  \* the Runs that are just writing it
  open,     \* the listeners that are open
  watcher,  \* the Runs whose goroutine waits to close the listener
  done,     \* the Runs whose context is cancelled
  \* History: the Runs that were under way when a Stop began, and those whose
  \* caller cancelled them.
  targets, recalled

fields == <<running, cancel, field, writing>>
history == <<targets, recalled>>
lifecycleVars == <<kind, pc, stopPc, mu, fields, open, watcher, done, history>>

Listeners == Runs \cup {Given}
Places == {"listen", "assign", "watch", "relay", "join", "serve", "close", "leave"}
Active == {r \in Runs : pc[r] \in Places}

LifecycleTypeOK ==
  /\ kind \in {"own", "given", "server"}
  /\ pc \in [Runs -> Places \cup {"new", "returned", "refused"}]
  /\ stopPc \in [Stops -> {"new", "close", "returned"}]
  /\ mu \in Stops \cup {NoCall} /\ running \in BOOLEAN
  /\ cancel \in Runs \cup {NoCall} /\ field \in Listeners \cup {NoListener}
  /\ open \subseteq Listeners
  /\ {writing, watcher, done, targets, recalled} \subseteq SUBSET Runs

LifecycleInit ==
  /\ kind \in {"own", "given", "server"}
  /\ pc = [r \in Runs |-> "new"] /\ stopPc = [s \in Stops |-> "new"]
  /\ mu = NoCall /\ running = FALSE /\ cancel = NoCall
  /\ field = NoListener /\ writing = {}
  /\ open = IF kind = "given" THEN {Given} ELSE {}
  /\ watcher = {} /\ done = {} /\ targets = {} /\ recalled = {}

-----------------------------------------------------------------------------
(* Run. *)

Goto(r, place) == pc' = [pc EXCEPT ![r] = place]

Listener(r) == IF kind = "given" THEN Given ELSE r

Enter(r) ==
  /\ pc[r] = "new" /\ mu = NoCall
  /\ \/ /\ running /\ Goto(r, "refused")
        /\ UNCHANGED <<running, cancel>>
     \/ /\ ~running /\ running' = TRUE /\ cancel' = r
        /\ Goto(r, IF kind = "server" THEN "relay" ELSE "listen")
  /\ UNCHANGED <<kind, stopPc, mu, field, writing, open, watcher, done, history>>

\* net.Listen finds the address free.
Listen(r) ==
  /\ pc[r] = "listen" /\ open \cap Runs = {}
  /\ open' = IF kind = "given" THEN open ELSE open \cup {r}
  /\ Goto(r, "assign")
  /\ UNCHANGED <<kind, stopPc, mu, fields, watcher, done, history>>

\* net.Listen fails, as the address is in use or for a reason of its own.
ListenFails(r) ==
  /\ pc[r] = "listen" /\ kind = "own"
  /\ Goto(r, "leave")
  /\ UNCHANGED <<kind, stopPc, mu, fields, open, watcher, done, history>>

BeginAssign(r) ==
  /\ pc[r] = "assign" /\ r \notin writing
  /\ writing' = writing \cup {r}
  /\ UNCHANGED <<kind, pc, stopPc, mu, running, cancel, field, open, watcher, done, history>>

EndAssign(r) ==
  /\ pc[r] = "assign" /\ r \in writing
  /\ writing' = writing \ {r} /\ field' = Listener(r)
  /\ Goto(r, "watch")
  /\ UNCHANGED <<kind, stopPc, mu, running, cancel, open, watcher, done, history>>

StartWatcher(r) ==
  /\ pc[r] = "watch"
  /\ watcher' = watcher \cup {r} /\ Goto(r, "serve")
  /\ UNCHANGED <<kind, stopPc, mu, fields, open, done, history>>

\* Mutant of Watcher: it closes the listener that the client has by then.
WatcherOfField(r) ==
  /\ r \in watcher /\ r \in done
  /\ watcher' = watcher \ {r} /\ open' = open \ {field}
  /\ UNCHANGED <<kind, pc, stopPc, mu, fields, done, history>>

\* The goroutine that closes the listener once the context is cancelled.
Watcher(r) ==
  /\ r \in watcher /\ r \in done
  /\ watcher' = watcher \ {r} /\ open' = open \ {Listener(r)}
  /\ UNCHANGED <<kind, pc, stopPc, mu, fields, done, history>>

\* A client's Accept fails and the context is cancelled.
NoticeDone(r) ==
  /\ pc[r] = "serve" /\ r \in done /\ kind # "server"
  /\ Listener(r) \notin open
  /\ Goto(r, "close")
  /\ UNCHANGED <<kind, stopPc, mu, fields, open, watcher, done, history>>

\* A server finds a relay, or none that it can use.
ChooseRelay(r) ==
  /\ pc[r] = "relay"
  /\ \E place \in {"serve", "leave"} : Goto(r, place)
  /\ UNCHANGED <<kind, stopPc, mu, fields, open, watcher, done, history>>

\* A server begins a session, for which it has looked at the context, and has
\* asked the relay to let it join.
BeginSession(r) ==
  /\ pc[r] = "serve" /\ kind = "server" /\ r \notin done
  /\ Goto(r, "join")
  /\ UNCHANGED <<kind, stopPc, mu, fields, open, watcher, done, history>>

\* The relay answers, or the connection breaks.  The server waits for that without
\* a deadline, and the goroutine that closes the connection once the context is
\* cancelled does not run yet.
JoinAnswered(r) ==
  /\ pc[r] = "join"
  /\ Goto(r, "serve")
  /\ UNCHANGED <<kind, stopPc, mu, fields, open, watcher, done, history>>

\* A server finds the context cancelled, between two sessions or in one that has
\* joined.
ServerStops(r) ==
  /\ pc[r] = "serve" /\ kind = "server" /\ r \in done
  /\ Goto(r, "leave")
  /\ UNCHANGED <<kind, stopPc, mu, fields, open, watcher, done, history>>

\* The deferred calls, the last one first.
CloseListener(r) ==
  /\ pc[r] = "close"
  /\ open' = open \ {Listener(r)} /\ Goto(r, "leave")
  /\ UNCHANGED <<kind, stopPc, mu, fields, watcher, done, history>>

LeaveRun(r) ==
  /\ pc[r] = "leave" /\ mu = NoCall
  /\ running' = FALSE /\ Goto(r, "returned")
  /\ UNCHANGED <<kind, stopPc, mu, cancel, field, writing, open, watcher, done, history>>

-----------------------------------------------------------------------------
(* Stop, which holds the lock in both steps. *)

\* Mutant of StopCancel: only the listener is closed.
StopCancelNot(s) ==
  /\ stopPc[s] = "new" /\ mu = NoCall
  /\ mu' = s /\ stopPc' = [stopPc EXCEPT ![s] = "close"]
  /\ targets' = targets \cup Active
  /\ UNCHANGED <<kind, pc, fields, open, watcher, done, recalled>>

StopCancel(s) ==
  /\ stopPc[s] = "new" /\ mu = NoCall
  /\ mu' = s /\ stopPc' = [stopPc EXCEPT ![s] = "close"]
  /\ done' = IF cancel = NoCall THEN done ELSE done \cup {cancel}
  /\ targets' = targets \cup Active
  /\ UNCHANGED <<kind, pc, fields, open, watcher, recalled>>

\* What Stop finds in c.listener.
FieldRead == {field} \cup (IF writing = {} THEN {} ELSE {NoListener} \cup {Listener(r) : r \in writing})

StopClose(s) ==
  /\ stopPc[s] = "close"
  /\ \E l \in FieldRead : open' = open \ {l}
  /\ mu' = NoCall /\ stopPc' = [stopPc EXCEPT ![s] = "returned"]
  /\ UNCHANGED <<kind, pc, fields, watcher, done, history>>

\* The caller of Run cancels the context it gave.
Recall(r) ==
  /\ pc[r] \notin {"returned", "refused"} /\ r \notin recalled
  /\ recalled' = recalled \cup {r} /\ done' = done \cup {r}
  /\ UNCHANGED <<kind, pc, stopPc, mu, fields, open, watcher, targets>>

-----------------------------------------------------------------------------

Run(r) ==
  \/ Enter(r) \/ Listen(r) \/ ListenFails(r) \/ BeginAssign(r) \/ EndAssign(r)
  \/ StartWatcher(r) \/ NoticeDone(r)
  \/ ChooseRelay(r) \/ BeginSession(r) \/ ServerStops(r)
  \/ CloseListener(r) \/ LeaveRun(r)

Stop(s) == StopCancel(s) \/ StopClose(s)

LifecycleNext ==
  \/ \E r \in Runs : Run(r) \/ JoinAnswered(r) \/ Watcher(r) \/ Recall(r)
  \/ \E s \in Stops : Stop(s)

LifecycleSpec == LifecycleInit /\ [][LifecycleNext]_lifecycleVars

\* A call that has been made goes on, and so does the goroutine, but for the answer
\* to the join, which the relay may never give; a server's session that has joined
\* ends once the context is cancelled (ServerTunnels!ShutdownCompletes).  LeaveRun
\* waits for the lock, which each Stop holds for two steps; Stops is finite.
LifecycleFairSpec ==
  /\ LifecycleSpec
  /\ \A r \in Runs : WF_lifecycleVars(pc[r] # "new" /\ Run(r)) /\ WF_lifecycleVars(Watcher(r))
  /\ \A s \in Stops : WF_lifecycleVars(StopClose(s))

-----------------------------------------------------------------------------
(* Properties. *)

\* A Run that was under way when Stop was called returns, whatever Stop found in the
\* client, from every place but one: a server that waits for the answer to its join
\* request watches neither the context nor a clock (server.go:274) and waits on if
\* the relay stays silent (client.go:221-230, server.go:102-127, 137-154).
StopEndsRun ==
  \A r \in Runs : \/ r \in targets ~> pc[r] = "returned"
                  \/ <>[](pc[r] = "join")

\* A Run keeps its context and its listener unless its caller or a Stop that came
\* while it was under way ends it: no Stop, listener or goroutine of an earlier
\* Run reaches it, and the address is free when it comes to listen.  A client that
\* was given a listener has it for one Run (client.go:109-147, 221-230).
UndisturbedRunServes ==
  \A r \in Active \ (targets \cup recalled) :
    /\ r \notin done
    /\ pc[r] = "listen" => open \cap Runs = {}
    /\ pc[r] \in {"assign", "watch", "serve"} =>
         \/ kind = "server" \/ Listener(r) \in open
         \/ kind = "given" /\ \E q \in Runs \ {r} : pc[q] = "returned"

=============================================================================
