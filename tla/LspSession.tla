----------------------------- MODULE LspSession -----------------------------
(***************************************************************************)
(* The life of one language-server session: Serve, handle and initialize   *)
(* of pkg/lspserver.  Requests run on goroutines of their own, which read  *)
(* the session's state first and act on it later; notifications run on the *)
(* read loop; Serve itself waits for exit, for the end of the connection   *)
(* or for its context, whichever it notices.                               *)
(***************************************************************************)
EXTENDS Naturals, Sequences, FiniteSets

CONSTANTS
  Initializes,  \* initialize requests
  Asks,         \* requests the session's own handler serves
  Opens         \* didOpen notifications

Requests == Initializes \cup Asks \cup {"shutdown"}
Messages == Requests \cup Opens \cup {"exit"}

ASSUME SessionAssumption ==
  /\ IsFiniteSet(Messages)
  /\ Initializes \cap Asks = {}
  /\ (Initializes \cup Asks) \cap Opens = {}
  /\ {"shutdown", "exit"} \cap (Initializes \cup Asks \cup Opens) = {}

VARIABLES
  orderly,   \* the client waits for initialize, and for shutdown before exit
  sent,      \* messages the client has sent
  wire,      \* those the read loop has not read yet
  hungUp,    \* the client has closed its end
  st,        \* s.st
  exitCode,  \* s.exitCode
  exited,    \* s.exitCh is closed
  lost,      \* s.conn.Done() is closed
  stopped,   \* Serve's context is done
  gpc,       \* the goroutine of each request
  saw,       \* the state it read when it began
  reply,     \* its response
  docs,      \* documents the store holds
  main,      \* where Serve is
  code       \* what it returned

clientVars  == <<orderly, sent, hungUp>>
sessionVars == <<st, exitCode, exited>>
requestVars == <<gpc, saw, reply>>
serveVars   == <<main, code>>
vars == <<clientVars, wire, sessionVars, lost, stopped, requestVars, docs, serveVars>>

States  == {"new", "running", "shutdown"}
Replies == {"none", "ok", "failed", "notInitialized", "twice", "shuttingDown"}

Init ==
  /\ orderly \in BOOLEAN
  /\ sent = {} /\ wire = <<>> /\ hungUp = FALSE
  /\ st = "new" /\ exitCode = 0 /\ exited = FALSE
  /\ lost = FALSE /\ stopped = FALSE
  /\ gpc = [r \in Requests |-> "none"]
  /\ saw = [r \in Requests |-> "new"]
  /\ reply = [r \in Requests |-> "none"]
  /\ docs = {}
  /\ main = "select" /\ code = 0

Initialized == \E i \in Initializes : reply[i] = "ok"

-----------------------------------------------------------------------------
(* The client.                                                             *)

\* An orderly client sends one initialize at a time, nothing else before its
\* response, shutdown as the last request, and exit after the response to it.
MaySend(m) ==
  /\ m \in Initializes => \A r \in sent \cap Requests : reply[r] # "none"
  /\ m \notin Initializes => Initialized
  /\ "shutdown" \in sent => m = "exit" /\ reply["shutdown"] = "ok"
  /\ m = "exit" => "shutdown" \in sent

Send(m) ==
  /\ ~hungUp /\ m \notin sent /\ "exit" \notin sent
  /\ orderly => MaySend(m)
  /\ sent' = sent \cup {m}
  /\ wire' = Append(wire, m)
  /\ UNCHANGED <<orderly, hungUp, sessionVars, lost, stopped, requestVars, docs, serveVars>>

HangUp ==
  /\ ~hungUp /\ hungUp' = TRUE
  /\ UNCHANGED <<orderly, sent, wire, sessionVars, lost, stopped, requestVars, docs, serveVars>>

-----------------------------------------------------------------------------
(* The read loop.                                                          *)

Take(S) == ~lost /\ wire # <<>> /\ Head(wire) \in S /\ wire' = Tail(wire)

ReadRequest ==
  /\ Take(Requests)
  /\ gpc' = [gpc EXCEPT ![Head(wire)] = "enter"]
  /\ UNCHANGED <<clientVars, sessionVars, lost, stopped, saw, reply, docs, serveVars>>

\* Before initialize a notification is dropped; after shutdown it still counts.
ReadOpen ==
  /\ Take(Opens)
  /\ docs' = IF st = "new" THEN docs ELSE docs \cup {Head(wire)}
  /\ UNCHANGED <<clientVars, sessionVars, lost, stopped, requestVars, serveVars>>

ReadExit ==
  /\ Take({"exit"})
  /\ exitCode' = IF st = "shutdown" THEN 0 ELSE 1
  /\ exited' = TRUE
  /\ UNCHANGED <<clientVars, st, lost, stopped, requestVars, docs, serveVars>>

\* The stream ends, or Serve closed the connection on its return.
Lose ==
  /\ ~lost
  /\ (hungUp /\ wire = <<>>) \/ main = "returned"
  /\ lost' = TRUE
  /\ UNCHANGED <<clientVars, wire, sessionVars, stopped, requestVars, docs, serveVars>>

-----------------------------------------------------------------------------
(* A request on its goroutine: s.mu guards each look at s.st, not the two  *)
(* together.                                                               *)

Enter(r) ==
  /\ gpc[r] = "enter"
  /\ saw' = [saw EXCEPT ![r] = st]
  /\ gpc' = [gpc EXCEPT ![r] = "act"]
  /\ UNCHANGED <<clientVars, wire, sessionVars, lost, stopped, reply, docs, serveVars>>

\* The state changes on the way to the response; the response follows.
Become(r, to) ==
  /\ gpc' = [gpc EXCEPT ![r] = "reply"] /\ st' = to
  /\ UNCHANGED <<clientVars, wire, exitCode, exited, lost, stopped, saw, reply, docs, serveVars>>

Reply(r, what) ==
  /\ gpc' = [gpc EXCEPT ![r] = "done"] /\ reply' = [reply EXCEPT ![r] = what]
  /\ UNCHANGED <<clientVars, wire, sessionVars, lost, stopped, saw, docs, serveVars>>

Refuse(r) ==
  /\ gpc[r] = "act"
  /\ \/ r \in Initializes /\ saw[r] # "new" /\ Reply(r, "twice")
     \/ r \notin Initializes /\ saw[r] = "new" /\ Reply(r, "notInitialized")
     \/ r \in Asks /\ saw[r] = "shutdown" /\ Reply(r, "shuttingDown")

\* Bad parameters, or OnInitialize refuses them: the session stays new.
InitializeFails(r) ==
  /\ gpc[r] = "act" /\ r \in Initializes /\ saw[r] = "new"
  /\ Reply(r, "failed")

\* Variant: the state is left for the initialized notification.
InitializeLate(r) ==
  /\ gpc[r] = "act" /\ r \in Initializes /\ saw[r] = "new"
  /\ Become(r, st)

\* OnInitialize and the capabilities, then the new state.
Initialize(r) ==
  /\ gpc[r] = "act" /\ r \in Initializes /\ saw[r] = "new"
  /\ Become(r, "running")

Shutdown(r) ==
  /\ gpc[r] = "act" /\ r = "shutdown" /\ saw[r] # "new"
  /\ Become(r, "shutdown")

\* Variant: the handler is reached in any state.
AnswerAlways(r) ==
  /\ gpc[r] = "act" /\ r \in Asks
  /\ Reply(r, "ok")

Answer(r) ==
  /\ gpc[r] = "act" /\ r \in Asks /\ saw[r] = "running"
  /\ Reply(r, "ok")

\* Variant: the goroutine ends without a response.
RespondNothing(r) ==
  /\ gpc[r] = "reply" /\ gpc' = [gpc EXCEPT ![r] = "done"]
  /\ UNCHANGED <<clientVars, wire, sessionVars, lost, stopped, saw, reply, docs, serveVars>>

Respond(r) == gpc[r] = "reply" /\ Reply(r, "ok")

-----------------------------------------------------------------------------
(* Serve: the select, the verdict, the return.                             *)

MainTo(to) ==
  /\ main' = to
  /\ UNCHANGED <<clientVars, wire, st, exited, lost, stopped, requestVars, docs>>

NoticeExit == main = "select" /\ exited /\ MainTo("return") /\ UNCHANGED <<exitCode, code>>

NoticeEnd ==
  /\ main = "select" /\ (lost \/ stopped)
  /\ MainTo("mark") /\ UNCHANGED <<exitCode, code>>

\* Variant: the exit code is left as it is.
MarkNothing == main = "mark" /\ MainTo("return") /\ UNCHANGED <<exitCode, code>>

Mark == main = "mark" /\ MainTo("return") /\ exitCode' = 1 /\ UNCHANGED code

Return == main = "return" /\ MainTo("returned") /\ code' = exitCode /\ UNCHANGED exitCode

Stop ==
  /\ ~stopped /\ stopped' = TRUE
  /\ UNCHANGED <<clientVars, wire, sessionVars, lost, requestVars, docs, serveVars>>

-----------------------------------------------------------------------------
Handle(r) ==
  \/ Enter(r) \/ Refuse(r)
  \/ InitializeFails(r) \/ Initialize(r) \/ Shutdown(r) \/ Answer(r)
  \/ Respond(r)

Next ==
  \/ (\E m \in Messages : Send(m)) \/ HangUp
  \/ ReadRequest \/ ReadOpen \/ ReadExit \/ Lose
  \/ \E r \in Requests : Handle(r)
  \/ NoticeExit \/ NoticeEnd \/ Mark \/ Return \/ Stop

Spec == Init /\ [][Next]_vars

-----------------------------------------------------------------------------
(* What must hold.                                                         *)

TypeOK ==
  /\ orderly \in BOOLEAN /\ sent \subseteq Messages /\ hungUp \in BOOLEAN
  /\ wire \in Seq(Messages)
  /\ st \in States /\ exitCode \in {0, 1} /\ exited \in BOOLEAN
  /\ lost \in BOOLEAN /\ stopped \in BOOLEAN
  /\ gpc \in [Requests -> {"none", "enter", "act", "reply", "done"}]
  /\ saw \in [Requests -> States]
  /\ reply \in [Requests -> Replies]
  /\ \A r \in Requests : gpc[r] = "done" <=> reply[r] # "none"
  /\ docs \subseteq Opens
  /\ main \in {"select", "mark", "return", "returned"} /\ code \in {0, 1}

\* The request has taken effect; its response is on its way, or sent.
Granted(r) == gpc[r] = "reply" \/ reply[r] = "ok"

\* The session's own handler is only reached after initialize (Options.Handler),
\* whatever the client sends and however its requests overlap.
AskedOnlyWhenInitialized ==
  \A r \in Asks : reply[r] = "ok" => \E i \in Initializes : Granted(i)

\* A client that waits for the response to initialize loses no document: the
\* session runs before the response is sent, so no didOpen finds it new.
OrderlyOpensKept ==
  orderly => \A o \in sent \cap Opens : o \in docs \/ \E i \in 1 .. Len(wire) : wire[i] = o

\* Serve returns 0 only if shutdown was received before exit (Serve).
ZeroOnlyAfterShutdown ==
  main = "returned" /\ code = 0 => exited /\ Granted("shutdown")

\* The same comment, the other way: to a client that sent exit after the response
\* to shutdown, and whose exit was handled, it returns 0.  The end of the
\* connection, which follows exit closely, may win the select.
ExitCodeAsPrescribed ==
  main = "returned" /\ orderly /\ exited /\ ~stopped => code = 0

=============================================================================
