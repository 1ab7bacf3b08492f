------------------------------- MODULE Broker -------------------------------
(***************************************************************************)
(* The warm-session cache of pkg/broker: Query, ensureSession,             *)
(* startSession, reapIdle, shutdownSession and ShutdownAll, as threads     *)
(* that interleave between their critical sections.                        *)
(*                                                                         *)
(* A query is one goroutine that runs Broker.Query once.  A session object *)
(* is created by exactly one query (the one whose lookup misses), so a     *)
(* session is named by the query that created it: the functions below that *)
(* are indexed by Queries hold per-call state when read as a query and     *)
(* per-session state when read as a session.                               *)
(*                                                                         *)
(* Time is counted in ticks and stops at MaxTime, the only bound of the    *)
(* module apart from the sizes of the constant sets.                       *)
(***************************************************************************)
EXTENDS Naturals, FiniteSets

CONSTANTS
  Queries,      \* Query calls, and the sessions they create
  Keys,         \* projectcontext.Context keys: root and language
  Closers,      \* callers of ShutdownAll
  Reaper,       \* the goroutine of reapLoop
  None,         \* no session
  IdleTimeout,  \* Config.IdleTimeout, in ticks
  MaxTime       \* bound of the clock

ASSUME BrokerAssumption ==
  /\ IsFiniteSet(Queries)
  /\ None \notin Queries
  /\ Reaper \notin Closers
  /\ IdleTimeout \in Nat \ {0}
  /\ MaxTime \in Nat

Workers == Closers \cup {Reaper}   \* the callers of shutdownSession

VARIABLES
  sessions,   \* b.sessions: the session cached for each key
  closed,     \* b.closed
  canceled,   \* b.cancel has run: the lifetime context is done
  ready,      \* s.ready is closed
  initErr,    \* s.initErr is set
  srv,        \* s.srv is set
  inflight,   \* s.inflight
  lastUsed,   \* s.lastUsed
  proc,       \* the language server's process
  conn,       \* the connection to it is open: this side has not called Close
  pc,         \* where each Query call is
  target,     \* the key it resolved to
  held,       \* the session ensureSession found or created for it
  late,       \* it began after ShutdownAll had marked the broker closed
  result,     \* what it returned
  wpc,        \* where the reaper and each ShutdownAll call are
  unseen,     \* sessions the reaper's scan has still to look at
  todo,       \* sessions a worker took out of the cache and has still to stop
  cur,        \* the session it is stopping
  reapNow,    \* reapIdle's argument
  now         \* b.now()

cacheVars   == <<sessions, closed, canceled>>
sessionVars == <<ready, initErr, srv, inflight, lastUsed>>
serverVars  == <<proc, conn>>
callVars    == <<pc, target, held, late, result>>
workVars    == <<wpc, unseen, todo, cur, reapNow>>
vars == <<cacheVars, sessionVars, serverVars, callVars, workVars, now>>

Starting == {"start", "init", "drop", "fail", "publish"}
Serving  == {"sync", "call", "leave"}
CallPCs  == {"idle", "lookup", "await", "guard", "done"} \cup Starting \cup Serving
WorkPCs  == {"idle", "scan", "loop", "settle", "shutdown", "wait", "done"}
Results  == {"none", "badRequest", "closed", "startErr", "failed", "ok"}

Created(s) == held[s] = s
Usable(s)  == conn[s] /\ proc[s] = "running"
Owned(w)   == todo[w] \cup ({cur[w]} \ {None})
Users(s)   == {q \in Queries : held[q] = s /\ pc[q] \in Serving}

\* reapIdle holds b.mu over its whole scan; every other critical section of
\* b.mu is one step.
MuFree == wpc[Reaper] # "scan"

Init ==
  /\ sessions = [k \in Keys |-> None]
  /\ closed = FALSE
  /\ canceled = FALSE
  /\ ready = [s \in Queries |-> FALSE]
  /\ initErr = [s \in Queries |-> FALSE]
  /\ srv = [s \in Queries |-> FALSE]
  /\ inflight = [s \in Queries |-> 0]
  /\ lastUsed = [s \in Queries |-> 0]
  /\ proc = [s \in Queries |-> "none"]
  /\ conn = [s \in Queries |-> FALSE]
  /\ pc = [q \in Queries |-> "idle"]
  /\ target \in [Queries -> Keys]
  /\ held = [q \in Queries |-> None]
  /\ late = [q \in Queries |-> FALSE]
  /\ result = [q \in Queries |-> "none"]
  /\ wpc = [w \in Workers |-> "idle"]
  /\ unseen = {}
  /\ todo = [w \in Workers |-> {}]
  /\ cur = [w \in Workers |-> None]
  /\ reapNow = 0
  /\ now = 0

-----------------------------------------------------------------------------
(* Query, up to the session it will use.                                   *)

Goto(q, to)   == pc' = [pc EXCEPT ![q] = to]
Return(q, r)  == Goto(q, "done") /\ result' = [result EXCEPT ![q] = r]

\* resolveContext accepts the request, or the request is refused (no method,
\* no absolute file, no resolver and no language).
Begin(q) ==
  /\ pc[q] = "idle"
  /\ late' = [late EXCEPT ![q] = closed]
  /\ \/ Goto(q, "lookup") /\ UNCHANGED result
     \/ Return(q, "badRequest")
  /\ UNCHANGED <<cacheVars, sessionVars, serverVars, target, held, workVars, now>>

LookupClosed(q) ==
  /\ pc[q] = "lookup" /\ MuFree
  /\ closed
  /\ Return(q, "closed")
  /\ UNCHANGED <<cacheVars, sessionVars, serverVars, target, held, late, workVars, now>>

LookupHit(q) ==
  /\ pc[q] = "lookup" /\ MuFree
  /\ ~closed /\ sessions[target[q]] # None
  /\ held' = [held EXCEPT ![q] = sessions[target[q]]]
  /\ Goto(q, "await")
  /\ UNCHANGED <<cacheVars, sessionVars, serverVars, target, late, result, workVars, now>>

\* Variant: the miss path does not look at b.closed.
LookupMissWhenClosed(q) ==
  /\ pc[q] = "lookup" /\ MuFree
  /\ sessions[target[q]] = None
  /\ sessions' = [sessions EXCEPT ![target[q]] = q]
  /\ lastUsed' = [lastUsed EXCEPT ![q] = now]
  /\ held' = [held EXCEPT ![q] = q]
  /\ Goto(q, "start")
  /\ UNCHANGED <<closed, canceled, ready, initErr, srv, inflight, serverVars,
                 target, late, result, workVars, now>>

\* The placeholder goes into the map before b.mu is released: it is the
\* single-flight barrier.
LookupMiss(q) ==
  /\ pc[q] = "lookup" /\ MuFree
  /\ ~closed /\ sessions[target[q]] = None
  /\ sessions' = [sessions EXCEPT ![target[q]] = q]
  /\ lastUsed' = [lastUsed EXCEPT ![q] = now]
  /\ held' = [held EXCEPT ![q] = q]
  /\ Goto(q, "start")
  /\ UNCHANGED <<closed, canceled, ready, initErr, srv, inflight, serverVars,
                 target, late, result, workVars, now>>

\* <-s.ready, then s.initErr; neither b.closed nor the cache is looked at again.
Await(q) ==
  /\ pc[q] = "await" /\ ready[held[q]]
  /\ IF initErr[held[q]] THEN Return(q, "startErr")
                         ELSE Goto(q, "guard") /\ UNCHANGED result
  /\ UNCHANGED <<cacheVars, sessionVars, serverVars, target, held, late, workVars, now>>

-----------------------------------------------------------------------------
(* The cold start: startSession, then the end of ensureSession.            *)

\* SpecFor or server.Launch fails: nothing was started.
LaunchFails(q) ==
  /\ pc[q] = "start"
  /\ Goto(q, "drop")
  /\ UNCHANGED <<cacheVars, sessionVars, serverVars, target, held, late, result, workVars, now>>

\* exec refuses to start a command whose context is already done.
Launch(q) ==
  /\ pc[q] = "start" /\ ~canceled
  /\ proc' = [proc EXCEPT ![q] = "running"]
  /\ conn' = [conn EXCEPT ![q] = TRUE]
  /\ Goto(q, "init")
  /\ UNCHANGED <<cacheVars, sessionVars, target, held, late, result, workVars, now>>

Initialized(q) ==
  /\ pc[q] = "init" /\ Usable(q)
  /\ srv' = [srv EXCEPT ![q] = TRUE]
  /\ Goto(q, "publish")
  /\ UNCHANGED <<cacheVars, ready, initErr, inflight, lastUsed, serverVars,
                 target, held, late, result, workVars, now>>

\* Variant: the error path forgets srv.Close.
InitializeFailsUnclosed(q) ==
  /\ pc[q] = "init"
  /\ Goto(q, "drop")
  /\ UNCHANGED <<cacheVars, sessionVars, serverVars, target, held, late, result, workVars, now>>

\* An error reply, a dead server, or initTimeout: srv.Close closes the
\* connection, kills the process and waits for it.
InitializeFails(q) ==
  /\ pc[q] = "init"
  /\ conn' = [conn EXCEPT ![q] = FALSE]
  /\ proc' = [proc EXCEPT ![q] = "exited"]
  /\ Goto(q, "drop")
  /\ UNCHANGED <<cacheVars, sessionVars, target, held, late, result, workVars, now>>

\* Drop the placeholder, unless ShutdownAll has taken it already.
DropPlaceholder(q) ==
  /\ pc[q] = "drop" /\ MuFree
  /\ sessions' = [k \in Keys |-> IF sessions[k] = q THEN None ELSE sessions[k]]
  /\ Goto(q, "fail")
  /\ UNCHANGED <<closed, canceled, sessionVars, serverVars, target, held, late,
                 result, workVars, now>>

\* Variant: the error path returns without closing s.ready.
PublishErrorUnreleased(q) ==
  /\ pc[q] = "fail"
  /\ initErr' = [initErr EXCEPT ![q] = TRUE]
  /\ Return(q, "startErr")
  /\ UNCHANGED <<cacheVars, ready, srv, inflight, lastUsed, serverVars, target, held,
                 late, workVars, now>>

PublishError(q) ==
  /\ pc[q] = "fail"
  /\ initErr' = [initErr EXCEPT ![q] = TRUE]
  /\ ready' = [ready EXCEPT ![q] = TRUE]
  /\ Return(q, "startErr")
  /\ UNCHANGED <<cacheVars, srv, inflight, lastUsed, serverVars, target, held,
                 late, workVars, now>>

PublishReady(q) ==
  /\ pc[q] = "publish"
  /\ ready' = [ready EXCEPT ![q] = TRUE]
  /\ Goto(q, "guard")
  /\ UNCHANGED <<cacheVars, initErr, srv, inflight, lastUsed, serverVars, target,
                 held, late, result, workVars, now>>

-----------------------------------------------------------------------------
(* Query, on the session it holds.                                         *)

\* Variant: the guard refreshes lastUsed only; the deferred release still counts.
GuardUncounted(q) ==
  /\ pc[q] = "guard"
  /\ lastUsed' = [lastUsed EXCEPT ![held[q]] = now]
  /\ Goto(q, "sync")
  /\ UNCHANGED <<cacheVars, ready, initErr, srv, inflight, serverVars, target, held,
                 late, result, workVars, now>>

Guard(q) ==
  /\ pc[q] = "guard"
  /\ inflight' = [inflight EXCEPT ![held[q]] = @ + 1]
  /\ lastUsed' = [lastUsed EXCEPT ![held[q]] = now]
  /\ Goto(q, "sync")
  /\ UNCHANGED <<cacheVars, ready, initErr, srv, serverVars, target, held, late,
                 result, workVars, now>>

\* Variant: an error return that skips the deferred release.
FailUnreleased(q) == Return(q, "failed")

\* A query that fails from here on still runs the deferred step Leave.
Fail(q) == Goto(q, "leave") /\ result' = [result EXCEPT ![q] = "failed"]

\* contentFor may fail to read the file; syncDoc, as far as the session cache
\* sees it, is a notification, which fails when the connection is gone.
Sync(q) ==
  /\ pc[q] = "sync"
  /\ \/ Usable(held[q]) /\ Goto(q, "call") /\ UNCHANGED result
     \/ Fail(q)
  /\ UNCHANGED <<cacheVars, sessionVars, serverVars, target, held, late, workVars, now>>

\* Conn.Call returns a result, or fails because the connection is gone.
Answer(q) ==
  /\ pc[q] = "call"
  /\ IF Usable(held[q])
       THEN Goto(q, "leave") /\ result' = [result EXCEPT ![q] = "ok"]
       ELSE Fail(q)
  /\ UNCHANGED <<cacheVars, sessionVars, serverVars, target, held, late, workVars, now>>

\* The server answers with an error, or the client withdraws the request.
Refuse(q) ==
  /\ pc[q] = "call"
  /\ Fail(q)
  /\ UNCHANGED <<cacheVars, sessionVars, serverVars, target, held, late, workVars, now>>

\* The deferred release.
Leave(q) ==
  /\ pc[q] = "leave"
  /\ inflight' = [inflight EXCEPT ![held[q]] = @ - 1]
  /\ lastUsed' = [lastUsed EXCEPT ![held[q]] = now]
  /\ Goto(q, "done")
  /\ UNCHANGED <<cacheVars, ready, initErr, srv, serverVars, target, held, late,
                 result, workVars, now>>

-----------------------------------------------------------------------------
(* reapIdle: one pass over the cache under b.mu, a look at each session    *)
(* under its own lock, then the orderly shutdowns outside both.            *)

ReapBegin ==
  /\ wpc[Reaper] = "idle"
  /\ wpc' = [wpc EXCEPT ![Reaper] = "scan"]
  /\ unseen' = {sessions[k] : k \in Keys} \ {None}
  /\ reapNow' = now
  /\ UNCHANGED <<cacheVars, sessionVars, serverVars, callVars, todo, cur, now>>

\* Variant: the reaper goes by lastUsed alone.
IdleByClock(s) == reapNow >= lastUsed[s] + IdleTimeout

Idle(s) == inflight[s] = 0 /\ reapNow >= lastUsed[s] + IdleTimeout

\* Variant: the scan does not wait for s.ready.
ReapableUnsettled(s) == srv[s] /\ Idle(s)

Reapable(s) == ready[s] /\ srv[s] /\ Idle(s)

ReapLook(s) ==
  /\ wpc[Reaper] = "scan" /\ s \in unseen
  /\ unseen' = unseen \ {s}
  /\ todo' = IF Reapable(s) THEN [todo EXCEPT ![Reaper] = @ \cup {s}] ELSE todo
  /\ UNCHANGED <<cacheVars, sessionVars, serverVars, callVars, wpc, cur, reapNow, now>>

\* Variant: the picked sessions stay in the map.
ReapDeleteNothing ==
  /\ wpc[Reaper] = "scan" /\ unseen = {}
  /\ wpc' = [wpc EXCEPT ![Reaper] = "loop"]
  /\ UNCHANGED <<cacheVars, sessionVars, serverVars, callVars, unseen, todo, cur, reapNow, now>>

ReapDelete ==
  /\ wpc[Reaper] = "scan" /\ unseen = {}
  /\ sessions' = [k \in Keys |-> IF sessions[k] \in todo[Reaper] THEN None ELSE sessions[k]]
  /\ wpc' = [wpc EXCEPT ![Reaper] = "loop"]
  /\ UNCHANGED <<closed, canceled, sessionVars, serverVars, callVars, unseen, todo,
                 cur, reapNow, now>>

-----------------------------------------------------------------------------
(* ShutdownAll: take every session, then stop them one after the other.    *)

CloseAgain(c) ==
  /\ wpc[c] = "idle" /\ MuFree
  /\ closed
  /\ wpc' = [wpc EXCEPT ![c] = "done"]
  /\ UNCHANGED <<cacheVars, sessionVars, serverVars, callVars, unseen, todo, cur, reapNow, now>>

\* Variant: the sessions are collected and left in the map.
CloseFirstKeeping(c) ==
  /\ wpc[c] = "idle" /\ MuFree
  /\ ~closed
  /\ closed' = TRUE
  /\ todo' = [todo EXCEPT ![c] = {sessions[k] : k \in Keys} \ {None}]
  /\ wpc' = [wpc EXCEPT ![c] = "loop"]
  /\ UNCHANGED <<sessions, canceled, sessionVars, serverVars, callVars, unseen, cur,
                 reapNow, now>>

CloseFirst(c) ==
  /\ wpc[c] = "idle" /\ MuFree
  /\ ~closed
  /\ closed' = TRUE
  /\ todo' = [todo EXCEPT ![c] = {sessions[k] : k \in Keys} \ {None}]
  /\ sessions' = [k \in Keys |-> None]
  /\ wpc' = [wpc EXCEPT ![c] = "loop"]
  /\ UNCHANGED <<canceled, sessionVars, serverVars, callVars, unseen, cur, reapNow, now>>

-----------------------------------------------------------------------------
(* shutdownSession for each session a worker took.                         *)

TakeNext(w) ==
  /\ wpc[w] = "loop"
  /\ \E s \in todo[w] :
       /\ cur' = [cur EXCEPT ![w] = s]
       /\ todo' = [todo EXCEPT ![w] = @ \ {s}]
  /\ wpc' = [wpc EXCEPT ![w] = "settle"]
  /\ UNCHANGED <<cacheVars, sessionVars, serverVars, callVars, unseen, reapNow, now>>

\* Variant: no wait for s.ready.
SettleAtOnce(w) ==
  /\ wpc[w] = "settle"
  /\ wpc' = [wpc EXCEPT ![w] = IF srv[cur[w]] THEN "shutdown" ELSE "loop"]
  /\ cur' = IF srv[cur[w]] THEN cur ELSE [cur EXCEPT ![w] = None]
  /\ UNCHANGED <<cacheVars, sessionVars, serverVars, callVars, unseen, todo, reapNow, now>>

\* ShutdownAll lets a cold start settle first; a session that has no server
\* needs no shutdown.
Settle(w) ==
  /\ wpc[w] = "settle"
  /\ w = Reaper \/ ready[cur[w]]
  /\ wpc' = [wpc EXCEPT ![w] = IF srv[cur[w]] THEN "shutdown" ELSE "loop"]
  /\ cur' = IF srv[cur[w]] THEN cur ELSE [cur EXCEPT ![w] = None]
  /\ UNCHANGED <<cacheVars, sessionVars, serverVars, callVars, unseen, todo, reapNow, now>>

\* Variant: the connection, and with it the server's input, stays open.
CloseConnNever(w) ==
  /\ wpc[w] = "shutdown"
  /\ wpc' = [wpc EXCEPT ![w] = "wait"]
  /\ UNCHANGED <<cacheVars, sessionVars, serverVars, callVars, unseen, todo, cur, reapNow, now>>

\* The shutdown handshake ends, answered or cut off by shutdownTimeout, and
\* the connection is closed whatever its outcome.
CloseConn(w) ==
  /\ wpc[w] = "shutdown"
  /\ conn' = [conn EXCEPT ![cur[w]] = FALSE]
  /\ wpc' = [wpc EXCEPT ![w] = "wait"]
  /\ UNCHANGED <<cacheVars, sessionVars, proc, callVars, unseen, todo, cur, reapNow, now>>

\* cmd.Wait, which no timeout bounds.
WaitExit(w) ==
  /\ wpc[w] = "wait" /\ proc[cur[w]] = "exited"
  /\ cur' = [cur EXCEPT ![w] = None]
  /\ wpc' = [wpc EXCEPT ![w] = "loop"]
  /\ UNCHANGED <<cacheVars, sessionVars, serverVars, callVars, unseen, todo, reapNow, now>>

ReapEnd ==
  /\ wpc[Reaper] = "loop" /\ todo[Reaper] = {}
  /\ wpc' = [wpc EXCEPT ![Reaper] = "idle"]
  /\ UNCHANGED <<cacheVars, sessionVars, serverVars, callVars, unseen, todo, cur, reapNow, now>>

ShutdownDone(c) ==
  /\ wpc[c] = "loop" /\ todo[c] = {}
  /\ canceled' = TRUE
  /\ wpc' = [wpc EXCEPT ![c] = "done"]
  /\ UNCHANGED <<sessions, closed, sessionVars, serverVars, callVars, unseen, todo,
                 cur, reapNow, now>>

-----------------------------------------------------------------------------
(* The language server's process and the clock.                            *)

EndProcess(s) ==
  /\ proc[s] = "running"
  /\ proc' = [proc EXCEPT ![s] = "exited"]
  /\ UNCHANGED <<cacheVars, sessionVars, conn, callVars, workVars, now>>

Exit(s)  == ~conn[s] /\ EndProcess(s)      \* it reads the end of its input
Kill(s)  == canceled /\ EndProcess(s)      \* exec kills it: its context is done
Crash(s) == EndProcess(s)

Tick ==
  /\ now < MaxTime
  /\ now' = now + 1
  /\ UNCHANGED <<cacheVars, sessionVars, serverVars, callVars, workVars>>

-----------------------------------------------------------------------------
Lookup(q) == LookupClosed(q) \/ LookupHit(q) \/ LookupMiss(q)

\* What a query's own goroutine does next, once it has begun and unless it
\* waits for b.mu.
Proceed(q) ==
  \/ Await(q)
  \/ LaunchFails(q) \/ Launch(q) \/ Initialized(q) \/ InitializeFails(q)
  \/ PublishError(q) \/ PublishReady(q)
  \/ Guard(q) \/ Sync(q) \/ Answer(q) \/ Leave(q)

QueryStep(q) == Begin(q) \/ Lookup(q) \/ DropPlaceholder(q) \/ Proceed(q) \/ Refuse(q)

StopStep(w) == TakeNext(w) \/ Settle(w) \/ CloseConn(w) \/ WaitExit(w)

ReapScan == (\E s \in Queries : ReapLook(s)) \/ ReapDelete \/ ReapEnd

CloseStep(c) == CloseAgain(c) \/ CloseFirst(c)

Next ==
  \/ \E q \in Queries : QueryStep(q)
  \/ ReapBegin \/ ReapScan
  \/ \E w \in Workers : StopStep(w)
  \/ \E c \in Closers : CloseStep(c) \/ ShutdownDone(c)
  \/ \E s \in Queries : Exit(s) \/ Kill(s) \/ Crash(s)
  \/ Tick

Spec == Init /\ [][Next]_vars

(***************************************************************************)
(* Fairness.  A goroutine that can run runs (weak fairness); one that      *)
(* waits for b.mu gets it although the reaper takes it again and again     *)
(* (strong fairness: sync.Mutex hands over to a starving waiter).  Answer  *)
(* is the only assumption on a healthy server: it answers or dies.  A kill *)
(* by the operating system is certain; a voluntary exit is a separate      *)
(* assumption, made by FairSpec and not by StubbornSpec.                   *)
(***************************************************************************)
StubbornSpec ==
  /\ Spec
  /\ \A q \in Queries : WF_vars(Proceed(q)) /\ SF_vars(Lookup(q) \/ DropPlaceholder(q))
  /\ WF_vars(ReapScan \/ StopStep(Reaper))
  /\ \A c \in Closers : WF_vars(StopStep(c) \/ ShutdownDone(c))
  /\ \A s \in Queries : WF_vars(Kill(s))

FairSpec == StubbornSpec /\ \A s \in Queries : WF_vars(Exit(s))

-----------------------------------------------------------------------------
(* What must hold.                                                         *)

TypeOK ==
  /\ sessions \in [Keys -> Queries \cup {None}]
  /\ closed \in BOOLEAN /\ canceled \in BOOLEAN
  /\ ready \in [Queries -> BOOLEAN]
  /\ initErr \in [Queries -> BOOLEAN]
  /\ srv \in [Queries -> BOOLEAN]
  /\ inflight \in [Queries -> Nat]
  /\ lastUsed \in [Queries -> Nat]
  /\ proc \in [Queries -> {"none", "running", "exited"}]
  /\ conn \in [Queries -> BOOLEAN]
  /\ pc \in [Queries -> CallPCs]
  /\ target \in [Queries -> Keys]
  /\ held \in [Queries -> Queries \cup {None}]
  /\ late \in [Queries -> BOOLEAN]
  /\ result \in [Queries -> Results]
  /\ wpc \in [Workers -> WorkPCs]
  /\ unseen \in SUBSET Queries
  /\ todo \in [Workers -> SUBSET Queries]
  /\ cur \in [Workers -> Queries \cup {None}]
  /\ reapNow \in Nat /\ now \in Nat

\* The broker owns one warm session per (root, language) (protocol.go, package
\* comment): of two language servers running for one key, a reaper or a
\* ShutdownAll is already stopping at least one.  A failed cold start frees the
\* key only after its process is gone.
OneWarmServer ==
  \A p, q \in Queries :
    /\ p # q /\ target[p] = target[q]
    /\ proc[p] = "running" /\ proc[q] = "running"
    => \E w \in Workers : {p, q} \cap Owned(w) # {}

\* ensureSession hands out what the cache holds without a second look: a
\* settled session in the cache has a server, no error, and a connection that
\* nobody in the broker has begun to close.
CacheIsUsable ==
  \A k \in Keys :
    LET s == sessions[k]
    IN  s # None /\ ready[s] => srv[s] /\ ~initErr[s] /\ conn[s]

\* inflight is exactly the number of queries between the guard and the deferred
\* release, on every error path: a leak would keep a session for ever, a missing
\* count would let the reaper take one in use.
InflightCountsUsers ==
  \A s \in Queries : inflight[s] = Cardinality(Users(s))

\* A server is shut down at most once (Server.Shutdown waits for the process,
\* which may be done only once): no session is in the hands of two workers, and
\* none that a worker is stopping can be looked up.
TeardownsDisjoint ==
  /\ \A v, w \in Workers : v # w => Owned(v) \cap Owned(w) = {}
  /\ \A w \in Workers, k \in Keys :
       sessions[k] \in Owned(w) => w = Reaper /\ wpc[w] = "scan"

\* After ShutdownAll, subsequent Query calls return ErrClosed (broker.go, the
\* comment of ShutdownAll): a call that began after the broker was marked closed
\* is never served and starts no server.
LateQueriesRefused ==
  \A q \in Queries : late[q] => proc[q] = "none" /\ result[q] \in {"none", "badRequest", "closed"}

\* When ShutdownAll has returned, no cold start is under way and every server
\* still running is one that the reaper had taken and the kill will end.
NothingOutlivesShutdown ==
  canceled =>
    \A s \in Queries :
      /\ pc[s] \notin {"start", "init"}
      /\ proc[s] = "running" => s \in Owned(Reaper)

\* The reaper never picks a session while a query is between its guard and its
\* release on it (broker.go, the comment of reapIdle: "not currently serving a
\* query").
GuardedNeverReaped ==
  [][\A s \in todo'[Reaper] \ todo[Reaper] : Users(s) = {}]_vars

\* The cache is a SessionPool: a session's phase is read off its creator's
\* progress and the fields it published.
Phase(s) ==
  IF ~Created(s) THEN "unborn"
  ELSE IF pc[s] = "fail" \/ initErr[s] THEN "failed"
  ELSE IF ~ready[s] THEN "starting"
  ELSE IF conn[s] THEN "warm"
  ELSE "stopped"

Pool == INSTANCE SessionPool WITH
          Sessions <- Queries, owner <- sessions, shut <- closed,
          phase <- [s \in Queries |-> Phase(s)]

\* Every behaviour of the broker is one the abstract pool allows.
PoolSpec == Pool!Spec

\* Every query that reached the cache returns, whatever its server does short of
\* ignoring a request for ever: a waiter on a cold start is released when the
\* start fails, times out or is overtaken by ShutdownAll.
QueryReturns == \A q \in Queries : pc[q] = "lookup" ~> pc[q] = "done"

\* ShutdownAll returns: it waits for cold starts that settle and for servers that
\* exit when their input ends.
ShutdownReturns == \A c \in Closers : wpc[c] = "loop" ~> wpc[c] = "done"

\* What the comment of Query says of its guard ("Guard the session against
\* idle-reap for the duration of this call"): while the broker is open, a query
\* past the guard holds a session nobody has closed.  It does not hold: the
\* reaper may take the session between ensureSession and the guard.
GuardedForTheCall ==
  \A q \in Queries : pc[q] \in Serving /\ ~closed => conn[held[q]]

=============================================================================
