------------------------------- MODULE Daemon -------------------------------
(***************************************************************************)
(* The broker daemon around the session cache: Listen (pkg/broker/         *)
(* socket.go), Serve and Handler (serve.go) and main (cmd/lspbroker), with *)
(* several daemons of one user that share one socket path, and clients.    *)
(*                                                                         *)
(* A step is one system call on the path or one event of a goroutine.  A   *)
(* daemon is one process; it may be killed at any time, and then leaves    *)
(* its socket file behind.  What Broker proves of ShutdownAll and of late  *)
(* queries is taken from there.                                            *)
(***************************************************************************)
EXTENDS Naturals, FiniteSets

CONSTANTS
  Daemons,   \* processes started on this path
  Clients,   \* connections, one request each
  MaxAlive,  \* bound: daemons that run at one time
  File,      \* a file at the path that is no socket
  None

ASSUME DaemonAssumption ==
  /\ MaxAlive \in Nat
  /\ File \notin Daemons /\ None \notin Daemons /\ File # None

VARIABLES
  path,      \* what stands at the socket path: a daemon's socket, File or None
  pc,        \* where main is
  listening, \* daemons whose listener is open
  stopping,  \* daemons with a goroutine that is about to call stop
  canceled,  \* daemons whose serve context has ended
  to,        \* the daemon a client is connected to
  conn,      \* the state of its connection
  request,   \* where its request is at the daemon
  answer,    \* what it got
  lone       \* history: no daemon was started while another started or ended

pathVars   == <<path, pc, listening, lone>>
stopVars   == <<stopping, canceled>>
clientVars == <<to, conn, request, answer>>
vars == <<pathVars, stopVars, clientVars>>

Methods  == {"query", "shutdown"}
Starting == {"probe", "remove", "bind", "listen"}
Serving  == {"accept"}
Ending   == {"drain", "sessions", "cleanup"}

Init ==
  /\ path \in {None, File}
  /\ pc = [d \in Daemons |-> "off"]
  /\ listening = {} /\ stopping = {} /\ canceled = {}
  /\ to = [c \in Clients |-> None]
  /\ conn = [c \in Clients |-> "none"]
  /\ request = [c \in Clients |-> "none"]
  /\ answer = [c \in Clients |-> "none"]
  /\ lone = TRUE

Goto(d, where) == pc' = [pc EXCEPT ![d] = where]

Mine(d, state) == {c \in Clients : to[c] = d /\ conn[c] = state}

\* The connections in cs end: who has no answer by now gets none.
CloseAll(cs) ==
  /\ conn' = [c \in Clients |-> IF c \in cs THEN "closed" ELSE conn[c]]
  /\ answer' = [c \in Clients |-> IF c \in cs /\ answer[c] = "none" THEN "lost" ELSE answer[c]]

\* The process is over: the kernel closes its listener and its connections.
EndOf(d) ==
  /\ Goto(d, "over")
  /\ listening' = listening \ {d}
  /\ stopping' = stopping \ {d}
  /\ CloseAll(Mine(d, "queued") \cup Mine(d, "open"))
  /\ UNCHANGED <<lone, canceled, to, request>>

-----------------------------------------------------------------------------
(* Listen and clearStaleSocket.                                            *)

Busy(e) == pc[e] \in Starting \cup Ending \/ (pc[e] \in Serving /\ e \in canceled)

\* Start: the stat of clearStaleSocket.
Stat(d) ==
  /\ pc[d] = "off"
  /\ Cardinality({e \in Daemons : pc[e] \notin {"off", "over"}}) < MaxAlive
  /\ lone' = (lone /\ \A e \in Daemons \ {d} : ~Busy(e))
  /\ Goto(d, IF path = None THEN "bind" ELSE IF path = File THEN "over" ELSE "probe")
  /\ UNCHANGED <<path, listening, stopVars, clientVars>>

\* Variant: whatever socket is found is taken for a stale one.
ProbeNothing(d) ==
  /\ pc[d] = "probe"
  /\ Goto(d, "remove")
  /\ UNCHANGED <<path, listening, lone, stopVars, clientVars>>

\* The dial: only a daemon that listens behind the path answers it.
Probe(d) ==
  /\ pc[d] = "probe"
  /\ Goto(d, IF path \in listening THEN "over" ELSE "remove")
  /\ UNCHANGED <<path, listening, lone, stopVars, clientVars>>

\* os.Remove takes away what is at the path by now, and fails if nothing is.
RemoveStale(d) ==
  /\ pc[d] = "remove"
  /\ Goto(d, IF path = None THEN "over" ELSE "bind")
  /\ path' = None
  /\ UNCHANGED <<listening, lone, stopVars, clientVars>>

\* net.Listen: the file exists from bind on, dials are refused until listen.
Bind(d) ==
  /\ pc[d] = "bind"
  /\ IF path = None THEN path' = d /\ Goto(d, "listen") ELSE Goto(d, "over") /\ UNCHANGED path
  /\ UNCHANGED <<listening, lone, stopVars, clientVars>>

OpenListener(d) ==
  /\ pc[d] = "listen"
  /\ Goto(d, "accept")
  /\ listening' = listening \cup {d}
  /\ UNCHANGED <<path, lone, stopVars, clientVars>>

-----------------------------------------------------------------------------
(* Stopping: a signal, or a broker/shutdown whose goroutine calls stop.    *)

Signal(d) ==
  /\ pc[d] \in Serving \cup Ending /\ d \notin canceled
  /\ canceled' = canceled \cup {d}
  /\ UNCHANGED <<pathVars, stopping, clientVars>>

CallStop(d) ==
  /\ d \in stopping
  /\ stopping' = stopping \ {d}
  /\ canceled' = canceled \cup {d}
  /\ UNCHANGED <<pathVars, clientVars>>

\* Variant: nobody watches the context.
CloseListenerNever(d) == FALSE /\ UNCHANGED vars

\* Serve's watcher closes the listener: the runtime unlinks the path, whoever
\* is bound there by now, and then closes the descriptor, which resets the
\* connections that were not accepted.
CloseListener(d) ==
  /\ d \in canceled /\ d \in listening /\ pc[d] \in {"accept", "drain"}
  /\ path' = None
  /\ listening' = listening \ {d}
  /\ CloseAll(Mine(d, "queued"))
  /\ UNCHANGED <<pc, lone, stopVars, to, request>>

\* Accept fails: because the listener is closed, or for a reason of its own
\* (no descriptors).  Serve then waits for the connections.
AcceptFails(d) ==
  /\ pc[d] = "accept"
  /\ Goto(d, "drain")
  /\ UNCHANGED <<path, listening, lone, stopVars, clientVars>>

ServeReturns(d) ==
  /\ pc[d] = "drain" /\ Mine(d, "open") = {}
  /\ Goto(d, "sessions")
  /\ UNCHANGED <<path, listening, lone, stopVars, clientVars>>

\* ShutdownAll, which returns (Broker!ShutdownReturns).
SessionsDown(d) ==
  /\ pc[d] = "sessions"
  /\ Goto(d, "cleanup")
  /\ UNCHANGED <<path, listening, lone, stopVars, clientVars>>

\* The last of main: os.Remove takes away what is at the path by now.
Cleanup(d) ==
  /\ pc[d] = "cleanup"
  /\ path' = None
  /\ EndOf(d)

Crash(d) ==
  /\ pc[d] \notin {"off", "over"}
  /\ EndOf(d)
  /\ UNCHANGED path

-----------------------------------------------------------------------------
(* Connections and requests.                                               *)

\* Variant: a client takes any dial for a success.
DialUnchecked(c, method) ==
  /\ conn[c] = "none"
  /\ to' = [to EXCEPT ![c] = path]
  /\ conn' = [conn EXCEPT ![c] = "queued"]
  /\ request' = [request EXCEPT ![c] = method]
  /\ UNCHANGED <<pathVars, stopVars, answer>>

\* A client dials and writes its request at once.
Dial(c, method) ==
  /\ conn[c] = "none" /\ path \in listening
  /\ to' = [to EXCEPT ![c] = path]
  /\ conn' = [conn EXCEPT ![c] = "queued"]
  /\ request' = [request EXCEPT ![c] = method]
  /\ UNCHANGED <<pathVars, stopVars, answer>>

Accept(c) ==
  /\ conn[c] = "queued" /\ pc[to[c]] = "accept" /\ to[c] \in listening
  /\ conn' = [conn EXCEPT ![c] = "open"]
  /\ UNCHANGED <<pathVars, stopVars, to, request, answer>>

\* serveConn: the context has ended.
CloseConn(c) ==
  /\ conn[c] = "open" /\ to[c] \in canceled
  /\ CloseAll({c})
  /\ UNCHANGED <<pathVars, stopVars, to, request>>

\* serveConn: the peer has gone.
HangUp(c) ==
  /\ conn[c] = "open"
  /\ CloseAll({c})
  /\ UNCHANGED <<pathVars, stopVars, to, request>>

Alive(c) == to[c] # None /\ pc[to[c]] # "over"

\* Handle, on the request's own goroutine: broker/shutdown starts a goroutine
\* for the stop and returns; a query goes on.
Handle(c) ==
  /\ request[c] \in Methods /\ conn[c] = "open"
  /\ request' = [request EXCEPT ![c] = IF @ = "shutdown" THEN "reply" ELSE "running"]
  /\ stopping' = stopping \cup (IF request[c] = "shutdown" THEN {to[c]} ELSE {})
  /\ UNCHANGED <<pathVars, canceled, to, conn, answer>>

\* Query returns (Broker!QueryReturns), also when its connection is closed.
QueryDone(c) ==
  /\ request[c] = "running" /\ Alive(c)
  /\ request' = [request EXCEPT ![c] = "reply"]
  /\ UNCHANGED <<pathVars, stopVars, to, conn, answer>>

Reply(c) ==
  /\ request[c] = "reply" /\ Alive(c)
  /\ request' = [request EXCEPT ![c] = "done"]
  /\ answer' = [answer EXCEPT ![c] = IF conn[c] = "open" THEN "ok" ELSE @]
  /\ UNCHANGED <<pathVars, stopVars, to, conn>>

-----------------------------------------------------------------------------
MainStep(d) ==
  \/ Probe(d) \/ RemoveStale(d) \/ Bind(d) \/ OpenListener(d)
  \/ CallStop(d) \/ CloseListener(d)
  \/ ServeReturns(d) \/ SessionsDown(d) \/ Cleanup(d)

ClientStep(c) == Accept(c) \/ CloseConn(c) \/ Handle(c) \/ QueryDone(c) \/ Reply(c)

Environment ==
  \/ \E d \in Daemons : Stat(d) \/ Signal(d) \/ AcceptFails(d) \/ Crash(d)
  \/ \E c \in Clients : (\E m \in Methods : Dial(c, m)) \/ HangUp(c)

Next ==
  \/ \E d \in Daemons : MainStep(d)
  \/ \E c \in Clients : ClientStep(c)
  \/ Environment

Spec == Init /\ [][Next]_vars

\* Goroutines that can run do; an Accept on a closed listener returns.  Nobody
\* need start or stop a daemon, dial, hang up or crash.
Fairness ==
  /\ \A d \in Daemons : WF_vars(MainStep(d)) /\ WF_vars(d \notin listening /\ AcceptFails(d))
  /\ \A c \in Clients : WF_vars(ClientStep(c))

FairSpec == Spec /\ Fairness

-----------------------------------------------------------------------------
TypeOK ==
  /\ path \in Daemons \cup {File, None}
  /\ pc \in [Daemons -> {"off", "over"} \cup Starting \cup Serving \cup Ending]
  /\ listening \subseteq Daemons /\ stopping \subseteq Daemons /\ canceled \subseteq Daemons
  /\ to \in [Clients -> Daemons \cup {None}]
  /\ conn \in [Clients -> {"none", "queued", "open", "closed"}]
  /\ request \in [Clients -> Methods \cup {"none", "running", "reply", "done"}]
  /\ answer \in [Clients -> {"none", "ok", "lost"}]
  /\ lone \in BOOLEAN

\* A daemon that serves is the one a client reaches through the path, and so the
\* only one (Listen "refuses to steal a socket a live broker is still listening
\* on"), whatever sockets crashed daemons left there.  That holds as long as no
\* daemon is started while another one starts or ends: then the probe is out of
\* date when the file is removed, or the last os.Remove of main takes the
\* successor's socket.
ServingIsReachable ==
  lone => \A d \in Daemons :
            d \in listening /\ pc[d] = "accept" /\ d \notin canceled => path = d

\* A stop, by a signal or by any client, ends the daemon, although connections are
\* open and requests under way; and whoever is being served gets an answer or
\* the end of its connection, also when it is the answer to broker/shutdown that
\* races with the stop.
StopEnds ==
  /\ \A d \in Daemons : d \in stopping \cup canceled ~> pc[d] = "over"
  /\ \A c \in Clients : conn[c] = "open" ~> answer[c] # "none"
=============================================================================
