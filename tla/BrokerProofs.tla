---------------------------- MODULE BrokerProofs ----------------------------
(* Theorems about Broker, for every value of its constants. *)
EXTENDS Broker, FiniteSetTheorems, TLAPS

-----------------------------------------------------------------------------
(* The inductive invariant, in named parts.                                *)

\* A call holds a session only after its lookup, the session's creator made it,
\* and it is for the call's own key.
HeldInv ==
  \A q \in Queries :
    /\ pc[q] \in {"idle", "lookup"} => held[q] = None /\ result[q] = "none"
    /\ pc[q] \in Starting => held[q] = q
    /\ pc[q] \in {"await", "guard"} \cup Serving => held[q] # None
    /\ held[q] # None => Created(held[q]) /\ target[held[q]] = target[q]

\* Where a session stands while its creator starts it, and once it has settled.
StartInv ==
  \A s \in Queries :
    /\ ~Created(s) => ~ready[s] /\ ~srv[s] /\ ~conn[s] /\ ~initErr[s] /\ proc[s] = "none"
    /\ Created(s) => (ready[s] <=> pc[s] \notin Starting)
    /\ pc[s] \in {"start", "drop", "fail"} => ~srv[s] /\ ~conn[s] /\ proc[s] # "running"
    /\ pc[s] = "init" => ~srv[s] /\ conn[s] /\ proc[s] # "none"
    /\ pc[s] = "publish" => srv[s] /\ conn[s]
    /\ ~ready[s] => ~initErr[s]
    /\ ready[s] => (srv[s] <=> ~initErr[s])
    /\ initErr[s] => ~conn[s] /\ proc[s] # "running"

\* A call past the barrier holds a session that settled well.
UserInv ==
  \A q \in Queries : pc[q] \in {"guard"} \cup Serving => ready[held[q]] /\ srv[held[q]]

\* What the cache holds: live sessions under their own key, none after closing.
CacheInv ==
  /\ closed => \A k \in Keys : sessions[k] = None
  /\ \A k \in Keys : sessions[k] # None =>
       LET s == sessions[k]
       IN  /\ Created(s) /\ target[s] = k
           /\ pc[s] # "fail" /\ ~initErr[s]
           /\ srv[s] => conn[s]

\* What the workers hold: sessions out of the cache (the reaper's scan excepted),
\* each in one worker's hands.
Busy == {"loop", "settle", "shutdown", "wait"}

WorkInv ==
  /\ wpc[Reaper] # "done"
  /\ \A w \in Workers :
       /\ w # Reaper => wpc[w] # "scan"
       /\ cur[w] # None <=> wpc[w] \in {"settle", "shutdown", "wait"}
       /\ wpc[w] \in {"idle", "done"} => todo[w] = {}
       /\ cur[w] \notin todo[w]
       /\ wpc[w] \in {"shutdown", "wait"} => ready[cur[w]] /\ srv[cur[w]]
  /\ \A c, d \in Closers : wpc[c] \in Busy /\ wpc[d] \in Busy => c = d
  /\ \A c \in Closers : wpc[c] \in Busy => closed /\ ~canceled
  /\ canceled => closed
  /\ wpc[Reaper] # "scan" => unseen = {}
  /\ \A s \in unseen : s \notin todo[Reaper] /\ sessions[target[s]] = s

OwnedInv ==
  /\ \A v, w \in Workers : v # w => Owned(v) \cap Owned(w) = {}
  /\ \A w \in Workers : \A s \in Owned(w) :
       /\ Created(s)
       /\ w = Reaper => ready[s] /\ srv[s]
       /\ sessions[target[s]] = s <=> (w = Reaper /\ wpc[w] = "scan")

\* Nobody loses track of a server: one that runs is in the cache or in a
\* worker's hands, and a cold start under way is in the cache or is waited for.
TrackInv ==
  \A s \in Queries :
    /\ proc[s] = "running" => sessions[target[s]] = s \/ \E w \in Workers : s \in Owned(w)
    /\ pc[s] \in {"start", "init", "drop", "publish"} =>
         sessions[target[s]] = s \/ \E c \in Closers : s \in Owned(c)

LateInv ==
  \A q \in Queries :
    late[q] => /\ closed /\ held[q] = None
               /\ pc[q] \in {"lookup", "done"}
               /\ result[q] \in {"none", "badRequest", "closed"}

IInv ==
  /\ TypeOK /\ HeldInv /\ StartInv /\ UserInv /\ CacheInv /\ WorkInv /\ OwnedInv
  /\ TrackInv /\ LateInv /\ InflightCountsUsers

-----------------------------------------------------------------------------
(* Every step preserves every part.                                        *)

\* Users(s) is finite, and one call more or less counts for one.
LEMMA UsersFinite == \A s : IsFiniteSet(Users(s))
  BY BrokerAssumption, FS_Subset DEF Users

\* A call that joins the users adds one to their number.
LEMMA UsersGrow ==
  ASSUME NEW s, NEW q, q \notin Users(s), Users(s)' = Users(s) \cup {q}
  PROVE  Cardinality(Users(s)') = Cardinality(Users(s)) + 1
  BY UsersFinite, FS_AddElement

\* A call that leaves takes one off.
LEMMA UsersShrink ==
  ASSUME NEW s, NEW q, q \in Users(s), Users(s)' = Users(s) \ {q}
  PROVE  Cardinality(Users(s)') = Cardinality(Users(s)) - 1
  BY UsersFinite, FS_RemoveElement

\* A session in use has a positive count.
LEMMA UsersCounted ==
  ASSUME InflightCountsUsers, TypeOK, NEW s \in Queries, NEW q \in Users(s)
  PROVE  inflight[s] \in Nat \ {0}
  BY UsersFinite, FS_EmptySet DEF InflightCountsUsers, TypeOK

\* A step that moves no call into or out of its guarded section keeps the count.
LEMMA UsersUnchanged ==
  ASSUME InflightCountsUsers, inflight' = inflight,
         \A q \in Queries :
           /\ pc'[q] \in Serving <=> pc[q] \in Serving
           /\ pc[q] \in Serving => held'[q] = held[q]
  PROVE  InflightCountsUsers'
<1>1. ASSUME NEW s \in Queries PROVE Users(s)' = Users(s)
  BY DEF Users
<1> QED
  BY <1>1 DEF InflightCountsUsers

\* Types.  The count of users is what keeps inflight from going below zero.
LEMMA TypeStep == IInv /\ [Next]_vars => TypeOK'
<1> SUFFICES ASSUME IInv, [Next]_vars PROVE TypeOK'
  OBVIOUS
<1>0. [Next]_vars
  OBVIOUS
<1> USE BrokerAssumption DEF Goto, cacheVars, sessionVars, serverVars, callVars,
       workVars, IInv, TypeOK, HeldInv, CallPCs, WorkPCs, Results, Starting, Serving,
       Workers
<1>1. ASSUME NEW q \in Queries, Begin(q) PROVE TypeOK'
  BY <1>1 DEF Begin, Return
<1>2. ASSUME NEW q \in Queries, LookupClosed(q) PROVE TypeOK'
  BY <1>2 DEF LookupClosed, Return
<1>3. ASSUME NEW q \in Queries, LookupHit(q) PROVE TypeOK'
  BY <1>3 DEF LookupHit
<1>4. ASSUME NEW q \in Queries, LookupMiss(q) PROVE TypeOK'
  BY <1>4 DEF LookupMiss
<1>5. ASSUME NEW q \in Queries, Await(q) PROVE TypeOK'
  BY <1>5 DEF Await, Return
<1>6. ASSUME NEW q \in Queries, LaunchFails(q) PROVE TypeOK'
  BY <1>6 DEF LaunchFails
<1>7. ASSUME NEW q \in Queries, Launch(q) PROVE TypeOK'
  BY <1>7 DEF Launch
<1>8. ASSUME NEW q \in Queries, Initialized(q) PROVE TypeOK'
  BY <1>8 DEF Initialized, Usable
<1>9. ASSUME NEW q \in Queries, InitializeFails(q) PROVE TypeOK'
  BY <1>9 DEF InitializeFails
<1>10. ASSUME NEW q \in Queries, DropPlaceholder(q) PROVE TypeOK'
  BY <1>10 DEF DropPlaceholder
<1>11. ASSUME NEW q \in Queries, PublishError(q) PROVE TypeOK'
  BY <1>11 DEF PublishError, Return
<1>12. ASSUME NEW q \in Queries, PublishReady(q) PROVE TypeOK'
  BY <1>12 DEF PublishReady
<1>13. ASSUME NEW q \in Queries, Guard(q) PROVE TypeOK'
  <2>1. held[q] \in Queries
    BY <1>13 DEF Guard
  <2> QED
    BY <1>13, <2>1 DEF Guard
<1>14. ASSUME NEW q \in Queries, Sync(q) PROVE TypeOK'
  BY <1>14 DEF Sync, Fail
<1>15. ASSUME NEW q \in Queries, Answer(q) PROVE TypeOK'
  BY SMTT(30), <1>15 DEF Answer, Fail
<1>16. ASSUME NEW q \in Queries, Refuse(q) PROVE TypeOK'
  BY <1>16 DEF Refuse, Fail
<1>17. ASSUME NEW q \in Queries, Leave(q) PROVE TypeOK'
  <2>1. PICK s \in Queries : s = held[q]
    BY <1>17 DEF Leave
  <2>2. q \in Users(s)
    BY <1>17, <2>1 DEF Leave, Users
  <2>3. inflight[s] \in Nat \ {0}
    BY <2>2, UsersCounted
  <2>4. inflight' = [inflight EXCEPT ![s] = @ - 1]
    BY <1>17, <2>1 DEF Leave
  <2>5. inflight[s] - 1 \in Nat
    BY ONLY <2>3
  <2>6. inflight' \in [Queries -> Nat]
    BY <2>4, <2>5
  <2> QED
    BY <1>17, <2>6 DEF Leave
<1>18. CASE ReapBegin
  BY <1>18 DEF ReapBegin
<1>19. ASSUME NEW s \in Queries, ReapLook(s) PROVE TypeOK'
  BY <1>19 DEF ReapLook, Reapable, Idle
<1>20. CASE ReapDelete
  BY <1>20 DEF ReapDelete
<1>21. CASE ReapEnd
  BY <1>21 DEF ReapEnd
<1>22. ASSUME NEW w \in Workers, TakeNext(w) PROVE TypeOK'
  BY <1>22 DEF TakeNext
<1>23. ASSUME NEW w \in Workers, Settle(w) PROVE TypeOK'
  BY <1>23 DEF Settle
<1>24. ASSUME NEW w \in Workers, CloseConn(w) PROVE TypeOK'
  BY <1>24 DEF CloseConn
<1>25. ASSUME NEW w \in Workers, WaitExit(w) PROVE TypeOK'
  BY <1>25 DEF WaitExit
<1>26. ASSUME NEW c \in Closers, CloseAgain(c) PROVE TypeOK'
  BY <1>26 DEF CloseAgain
<1>27. ASSUME NEW c \in Closers, CloseFirst(c) PROVE TypeOK'
  BY <1>27 DEF CloseFirst
<1>28. ASSUME NEW c \in Closers, ShutdownDone(c) PROVE TypeOK'
  BY <1>28 DEF ShutdownDone
<1>29. ASSUME NEW s \in Queries, EndProcess(s) PROVE TypeOK'
  BY <1>29 DEF EndProcess
<1>30. CASE Tick
  BY <1>30 DEF Tick
<1>31. CASE UNCHANGED vars
  BY <1>31 DEF vars
<1>32. QED
  BY ONLY <1>0, <1>1, <1>2, <1>3, <1>4, <1>5, <1>6, <1>7, <1>8, <1>9, <1>10, <1>11,
     <1>12, <1>13, <1>14, <1>15, <1>16, <1>17, <1>18, <1>19, <1>20, <1>21, <1>22, <1>23,
     <1>24, <1>25, <1>26, <1>27, <1>28, <1>29, <1>30, <1>31 DEF Next, vars, QueryStep,
     Lookup, Proceed, ReapScan, StopStep, CloseStep, Exit, Kill, Crash

\* What each call holds.
LEMMA HeldStep == IInv /\ [Next]_vars => HeldInv'
<1> SUFFICES ASSUME IInv, [Next]_vars PROVE HeldInv'
  OBVIOUS
<1>0. [Next]_vars
  OBVIOUS
<1> USE BrokerAssumption DEF Goto, cacheVars, sessionVars, serverVars, callVars,
       workVars, IInv, TypeOK, HeldInv, CacheInv, Created, CallPCs, WorkPCs, Results,
       Starting, Serving, Workers
<1>1. ASSUME NEW q \in Queries, Begin(q) PROVE HeldInv'
  BY <1>1 DEF Begin, Return
<1>2. ASSUME NEW q \in Queries, LookupClosed(q) PROVE HeldInv'
  BY <1>2 DEF LookupClosed, Return
<1>3. ASSUME NEW q \in Queries, LookupHit(q) PROVE HeldInv'
  BY <1>3 DEF LookupHit
<1>4. ASSUME NEW q \in Queries, LookupMiss(q) PROVE HeldInv'
  BY <1>4 DEF LookupMiss
<1>5. ASSUME NEW q \in Queries, Await(q) PROVE HeldInv'
  BY <1>5 DEF Await, Return
<1>6. ASSUME NEW q \in Queries, LaunchFails(q) PROVE HeldInv'
  BY <1>6 DEF LaunchFails
<1>7. ASSUME NEW q \in Queries, Launch(q) PROVE HeldInv'
  BY <1>7 DEF Launch
<1>8. ASSUME NEW q \in Queries, Initialized(q) PROVE HeldInv'
  BY <1>8 DEF Initialized, Usable
<1>9. ASSUME NEW q \in Queries, InitializeFails(q) PROVE HeldInv'
  BY <1>9 DEF InitializeFails
<1>10. ASSUME NEW q \in Queries, DropPlaceholder(q) PROVE HeldInv'
  BY <1>10 DEF DropPlaceholder
<1>11. ASSUME NEW q \in Queries, PublishError(q) PROVE HeldInv'
  BY <1>11 DEF PublishError, Return
<1>12. ASSUME NEW q \in Queries, PublishReady(q) PROVE HeldInv'
  BY <1>12 DEF PublishReady
<1>13. ASSUME NEW q \in Queries, Guard(q) PROVE HeldInv'
  BY <1>13 DEF Guard
<1>14. ASSUME NEW q \in Queries, Sync(q) PROVE HeldInv'
  BY <1>14 DEF Sync, Fail
<1>15. ASSUME NEW q \in Queries, Answer(q) PROVE HeldInv'
  BY <1>15 DEF Answer, Fail
<1>16. ASSUME NEW q \in Queries, Refuse(q) PROVE HeldInv'
  BY <1>16 DEF Refuse, Fail
<1>17. ASSUME NEW q \in Queries, Leave(q) PROVE HeldInv'
  BY <1>17 DEF Leave
<1>18. CASE ReapBegin
  BY <1>18 DEF ReapBegin
<1>19. ASSUME NEW s \in Queries, ReapLook(s) PROVE HeldInv'
  BY <1>19 DEF ReapLook, Reapable, Idle
<1>20. CASE ReapDelete
  BY <1>20 DEF ReapDelete
<1>21. CASE ReapEnd
  BY <1>21 DEF ReapEnd
<1>22. ASSUME NEW w \in Workers, TakeNext(w) PROVE HeldInv'
  BY <1>22 DEF TakeNext
<1>23. ASSUME NEW w \in Workers, Settle(w) PROVE HeldInv'
  BY <1>23 DEF Settle
<1>24. ASSUME NEW w \in Workers, CloseConn(w) PROVE HeldInv'
  BY <1>24 DEF CloseConn
<1>25. ASSUME NEW w \in Workers, WaitExit(w) PROVE HeldInv'
  BY <1>25 DEF WaitExit
<1>26. ASSUME NEW c \in Closers, CloseAgain(c) PROVE HeldInv'
  BY <1>26 DEF CloseAgain
<1>27. ASSUME NEW c \in Closers, CloseFirst(c) PROVE HeldInv'
  BY <1>27 DEF CloseFirst
<1>28. ASSUME NEW c \in Closers, ShutdownDone(c) PROVE HeldInv'
  BY <1>28 DEF ShutdownDone
<1>29. ASSUME NEW s \in Queries, EndProcess(s) PROVE HeldInv'
  BY <1>29 DEF EndProcess
<1>30. CASE Tick
  BY <1>30 DEF Tick
<1>31. CASE UNCHANGED vars
  BY <1>31 DEF vars
<1>32. QED
  BY ONLY <1>0, <1>1, <1>2, <1>3, <1>4, <1>5, <1>6, <1>7, <1>8, <1>9, <1>10, <1>11,
     <1>12, <1>13, <1>14, <1>15, <1>16, <1>17, <1>18, <1>19, <1>20, <1>21, <1>22, <1>23,
     <1>24, <1>25, <1>26, <1>27, <1>28, <1>29, <1>30, <1>31 DEF Next, vars, QueryStep,
     Lookup, Proceed, ReapScan, StopStep, CloseStep, Exit, Kill, Crash

\* The cold start, step by step.
LEMMA StartStep == IInv /\ [Next]_vars => StartInv'
<1> SUFFICES ASSUME IInv, [Next]_vars PROVE StartInv'
  OBVIOUS
<1>0. [Next]_vars
  OBVIOUS
<1> USE BrokerAssumption DEF Goto, cacheVars, sessionVars, serverVars, callVars,
       workVars, IInv, TypeOK, HeldInv, StartInv, CacheInv, WorkInv, Created, CallPCs,
       WorkPCs, Results, Starting, Serving, Workers
<1>1. ASSUME NEW q \in Queries, Begin(q) PROVE StartInv'
  BY <1>1 DEF Begin, Return
<1>2. ASSUME NEW q \in Queries, LookupClosed(q) PROVE StartInv'
  BY <1>2 DEF LookupClosed, Return
<1>3. ASSUME NEW q \in Queries, LookupHit(q) PROVE StartInv'
  BY <1>3 DEF LookupHit
<1>4. ASSUME NEW q \in Queries, LookupMiss(q) PROVE StartInv'
  BY <1>4 DEF LookupMiss
<1>5. ASSUME NEW q \in Queries, Await(q) PROVE StartInv'
  BY <1>5 DEF Await, Return
<1>6. ASSUME NEW q \in Queries, LaunchFails(q) PROVE StartInv'
  BY <1>6 DEF LaunchFails
<1>7. ASSUME NEW q \in Queries, Launch(q) PROVE StartInv'
  BY <1>7 DEF Launch
<1>8. ASSUME NEW q \in Queries, Initialized(q) PROVE StartInv'
  BY <1>8 DEF Initialized, Usable
<1>9. ASSUME NEW q \in Queries, InitializeFails(q) PROVE StartInv'
  BY <1>9 DEF InitializeFails
<1>10. ASSUME NEW q \in Queries, DropPlaceholder(q) PROVE StartInv'
  BY <1>10 DEF DropPlaceholder
<1>11. ASSUME NEW q \in Queries, PublishError(q) PROVE StartInv'
  BY <1>11 DEF PublishError, Return
<1>12. ASSUME NEW q \in Queries, PublishReady(q) PROVE StartInv'
  BY <1>12 DEF PublishReady
<1>13. ASSUME NEW q \in Queries, Guard(q) PROVE StartInv'
  BY <1>13 DEF Guard
<1>14. ASSUME NEW q \in Queries, Sync(q) PROVE StartInv'
  BY <1>14 DEF Sync, Fail
<1>15. ASSUME NEW q \in Queries, Answer(q) PROVE StartInv'
  BY <1>15 DEF Answer, Fail
<1>16. ASSUME NEW q \in Queries, Refuse(q) PROVE StartInv'
  BY <1>16 DEF Refuse, Fail
<1>17. ASSUME NEW q \in Queries, Leave(q) PROVE StartInv'
  BY <1>17 DEF Leave
<1>18. CASE ReapBegin
  BY <1>18 DEF ReapBegin
<1>19. ASSUME NEW s \in Queries, ReapLook(s) PROVE StartInv'
  BY <1>19 DEF ReapLook, Reapable, Idle
<1>20. CASE ReapDelete
  BY <1>20 DEF ReapDelete
<1>21. CASE ReapEnd
  BY <1>21 DEF ReapEnd
<1>22. ASSUME NEW w \in Workers, TakeNext(w) PROVE StartInv'
  BY <1>22 DEF TakeNext
<1>23. ASSUME NEW w \in Workers, Settle(w) PROVE StartInv'
  BY <1>23 DEF Settle
<1>24. ASSUME NEW w \in Workers, CloseConn(w) PROVE StartInv'
  BY <1>24 DEF CloseConn
<1>25. ASSUME NEW w \in Workers, WaitExit(w) PROVE StartInv'
  BY <1>25 DEF WaitExit
<1>26. ASSUME NEW c \in Closers, CloseAgain(c) PROVE StartInv'
  BY <1>26 DEF CloseAgain
<1>27. ASSUME NEW c \in Closers, CloseFirst(c) PROVE StartInv'
  BY <1>27 DEF CloseFirst
<1>28. ASSUME NEW c \in Closers, ShutdownDone(c) PROVE StartInv'
  BY <1>28 DEF ShutdownDone
<1>29. ASSUME NEW s \in Queries, EndProcess(s) PROVE StartInv'
  BY <1>29 DEF EndProcess
<1>30. CASE Tick
  BY <1>30 DEF Tick
<1>31. CASE UNCHANGED vars
  BY <1>31 DEF vars
<1>32. QED
  BY ONLY <1>0, <1>1, <1>2, <1>3, <1>4, <1>5, <1>6, <1>7, <1>8, <1>9, <1>10, <1>11,
     <1>12, <1>13, <1>14, <1>15, <1>16, <1>17, <1>18, <1>19, <1>20, <1>21, <1>22, <1>23,
     <1>24, <1>25, <1>26, <1>27, <1>28, <1>29, <1>30, <1>31 DEF Next, vars, QueryStep,
     Lookup, Proceed, ReapScan, StopStep, CloseStep, Exit, Kill, Crash

\* Past the barrier.
LEMMA UserStep == IInv /\ [Next]_vars => UserInv'
<1> SUFFICES ASSUME IInv, [Next]_vars PROVE UserInv'
  OBVIOUS
<1>0. [Next]_vars
  OBVIOUS
<1> USE BrokerAssumption DEF Goto, cacheVars, sessionVars, serverVars, callVars,
       workVars, IInv, TypeOK, HeldInv, StartInv, UserInv, Created, CallPCs, WorkPCs,
       Results, Starting, Serving, Workers
<1>1. ASSUME NEW q \in Queries, Begin(q) PROVE UserInv'
  BY <1>1 DEF Begin, Return
<1>2. ASSUME NEW q \in Queries, LookupClosed(q) PROVE UserInv'
  BY <1>2 DEF LookupClosed, Return
<1>3. ASSUME NEW q \in Queries, LookupHit(q) PROVE UserInv'
  BY <1>3 DEF LookupHit
<1>4. ASSUME NEW q \in Queries, LookupMiss(q) PROVE UserInv'
  BY <1>4 DEF LookupMiss
<1>5. ASSUME NEW q \in Queries, Await(q) PROVE UserInv'
  BY <1>5 DEF Await, Return
<1>6. ASSUME NEW q \in Queries, LaunchFails(q) PROVE UserInv'
  BY <1>6 DEF LaunchFails
<1>7. ASSUME NEW q \in Queries, Launch(q) PROVE UserInv'
  BY <1>7 DEF Launch
<1>8. ASSUME NEW q \in Queries, Initialized(q) PROVE UserInv'
  BY <1>8 DEF Initialized, Usable
<1>9. ASSUME NEW q \in Queries, InitializeFails(q) PROVE UserInv'
  BY <1>9 DEF InitializeFails
<1>10. ASSUME NEW q \in Queries, DropPlaceholder(q) PROVE UserInv'
  BY <1>10 DEF DropPlaceholder
<1>11. ASSUME NEW q \in Queries, PublishError(q) PROVE UserInv'
  BY <1>11 DEF PublishError, Return
<1>12. ASSUME NEW q \in Queries, PublishReady(q) PROVE UserInv'
  BY <1>12 DEF PublishReady
<1>13. ASSUME NEW q \in Queries, Guard(q) PROVE UserInv'
  BY <1>13 DEF Guard
<1>14. ASSUME NEW q \in Queries, Sync(q) PROVE UserInv'
  BY <1>14 DEF Sync, Fail
<1>15. ASSUME NEW q \in Queries, Answer(q) PROVE UserInv'
  BY <1>15 DEF Answer, Fail
<1>16. ASSUME NEW q \in Queries, Refuse(q) PROVE UserInv'
  BY <1>16 DEF Refuse, Fail
<1>17. ASSUME NEW q \in Queries, Leave(q) PROVE UserInv'
  BY <1>17 DEF Leave
<1>18. CASE ReapBegin
  BY <1>18 DEF ReapBegin
<1>19. ASSUME NEW s \in Queries, ReapLook(s) PROVE UserInv'
  BY <1>19 DEF ReapLook, Reapable, Idle
<1>20. CASE ReapDelete
  BY <1>20 DEF ReapDelete
<1>21. CASE ReapEnd
  BY <1>21 DEF ReapEnd
<1>22. ASSUME NEW w \in Workers, TakeNext(w) PROVE UserInv'
  BY <1>22 DEF TakeNext
<1>23. ASSUME NEW w \in Workers, Settle(w) PROVE UserInv'
  BY <1>23 DEF Settle
<1>24. ASSUME NEW w \in Workers, CloseConn(w) PROVE UserInv'
  BY <1>24 DEF CloseConn
<1>25. ASSUME NEW w \in Workers, WaitExit(w) PROVE UserInv'
  BY <1>25 DEF WaitExit
<1>26. ASSUME NEW c \in Closers, CloseAgain(c) PROVE UserInv'
  BY <1>26 DEF CloseAgain
<1>27. ASSUME NEW c \in Closers, CloseFirst(c) PROVE UserInv'
  BY <1>27 DEF CloseFirst
<1>28. ASSUME NEW c \in Closers, ShutdownDone(c) PROVE UserInv'
  BY <1>28 DEF ShutdownDone
<1>29. ASSUME NEW s \in Queries, EndProcess(s) PROVE UserInv'
  BY <1>29 DEF EndProcess
<1>30. CASE Tick
  BY <1>30 DEF Tick
<1>31. CASE UNCHANGED vars
  BY <1>31 DEF vars
<1>32. QED
  BY ONLY <1>0, <1>1, <1>2, <1>3, <1>4, <1>5, <1>6, <1>7, <1>8, <1>9, <1>10, <1>11,
     <1>12, <1>13, <1>14, <1>15, <1>16, <1>17, <1>18, <1>19, <1>20, <1>21, <1>22, <1>23,
     <1>24, <1>25, <1>26, <1>27, <1>28, <1>29, <1>30, <1>31 DEF Next, vars, QueryStep,
     Lookup, Proceed, ReapScan, StopStep, CloseStep, Exit, Kill, Crash

\* The contents of the cache.
LEMMA CacheStep == IInv /\ [Next]_vars => CacheInv'
<1> SUFFICES ASSUME IInv, [Next]_vars PROVE CacheInv'
  OBVIOUS
<1>0. [Next]_vars
  OBVIOUS
<1> USE BrokerAssumption DEF Goto, cacheVars, sessionVars, serverVars, callVars,
       workVars, IInv, TypeOK, HeldInv, StartInv, CacheInv, WorkInv, OwnedInv, Owned,
       MuFree, Created, CallPCs, WorkPCs, Results, Starting, Serving, Workers
<1>1. ASSUME NEW q \in Queries, Begin(q) PROVE CacheInv'
  BY <1>1 DEF Begin, Return
<1>2. ASSUME NEW q \in Queries, LookupClosed(q) PROVE CacheInv'
  BY <1>2 DEF LookupClosed, Return
<1>3. ASSUME NEW q \in Queries, LookupHit(q) PROVE CacheInv'
  BY <1>3 DEF LookupHit
<1>4. ASSUME NEW q \in Queries, LookupMiss(q) PROVE CacheInv'
  BY <1>4 DEF LookupMiss
<1>5. ASSUME NEW q \in Queries, Await(q) PROVE CacheInv'
  BY <1>5 DEF Await, Return
<1>6. ASSUME NEW q \in Queries, LaunchFails(q) PROVE CacheInv'
  BY <1>6 DEF LaunchFails
<1>7. ASSUME NEW q \in Queries, Launch(q) PROVE CacheInv'
  BY <1>7 DEF Launch
<1>8. ASSUME NEW q \in Queries, Initialized(q) PROVE CacheInv'
  BY <1>8 DEF Initialized, Usable
<1>9. ASSUME NEW q \in Queries, InitializeFails(q) PROVE CacheInv'
  BY <1>9 DEF InitializeFails
<1>10. ASSUME NEW q \in Queries, DropPlaceholder(q) PROVE CacheInv'
  BY <1>10 DEF DropPlaceholder
<1>11. ASSUME NEW q \in Queries, PublishError(q) PROVE CacheInv'
  BY <1>11 DEF PublishError, Return
<1>12. ASSUME NEW q \in Queries, PublishReady(q) PROVE CacheInv'
  BY <1>12 DEF PublishReady
<1>13. ASSUME NEW q \in Queries, Guard(q) PROVE CacheInv'
  BY <1>13 DEF Guard
<1>14. ASSUME NEW q \in Queries, Sync(q) PROVE CacheInv'
  BY <1>14 DEF Sync, Fail
<1>15. ASSUME NEW q \in Queries, Answer(q) PROVE CacheInv'
  BY <1>15 DEF Answer, Fail
<1>16. ASSUME NEW q \in Queries, Refuse(q) PROVE CacheInv'
  BY <1>16 DEF Refuse, Fail
<1>17. ASSUME NEW q \in Queries, Leave(q) PROVE CacheInv'
  BY <1>17 DEF Leave
<1>18. CASE ReapBegin
  BY <1>18 DEF ReapBegin
<1>19. ASSUME NEW s \in Queries, ReapLook(s) PROVE CacheInv'
  BY <1>19 DEF ReapLook, Reapable, Idle
<1>20. CASE ReapDelete
  BY <1>20 DEF ReapDelete
<1>21. CASE ReapEnd
  BY <1>21 DEF ReapEnd
<1>22. ASSUME NEW w \in Workers, TakeNext(w) PROVE CacheInv'
  BY <1>22 DEF TakeNext
<1>23. ASSUME NEW w \in Workers, Settle(w) PROVE CacheInv'
  BY <1>23 DEF Settle
<1>24. ASSUME NEW w \in Workers, CloseConn(w) PROVE CacheInv'
  BY <1>24 DEF CloseConn
<1>25. ASSUME NEW w \in Workers, WaitExit(w) PROVE CacheInv'
  BY <1>25 DEF WaitExit
<1>26. ASSUME NEW c \in Closers, CloseAgain(c) PROVE CacheInv'
  BY <1>26 DEF CloseAgain
<1>27. ASSUME NEW c \in Closers, CloseFirst(c) PROVE CacheInv'
  BY <1>27 DEF CloseFirst
<1>28. ASSUME NEW c \in Closers, ShutdownDone(c) PROVE CacheInv'
  BY <1>28 DEF ShutdownDone
<1>29. ASSUME NEW s \in Queries, EndProcess(s) PROVE CacheInv'
  BY <1>29 DEF EndProcess
<1>30. CASE Tick
  BY <1>30 DEF Tick
<1>31. CASE UNCHANGED vars
  BY <1>31 DEF vars
<1>32. QED
  BY ONLY <1>0, <1>1, <1>2, <1>3, <1>4, <1>5, <1>6, <1>7, <1>8, <1>9, <1>10, <1>11,
     <1>12, <1>13, <1>14, <1>15, <1>16, <1>17, <1>18, <1>19, <1>20, <1>21, <1>22, <1>23,
     <1>24, <1>25, <1>26, <1>27, <1>28, <1>29, <1>30, <1>31 DEF Next, vars, QueryStep,
     Lookup, Proceed, ReapScan, StopStep, CloseStep, Exit, Kill, Crash

\* The workers' own progress.
LEMMA WorkStep == IInv /\ [Next]_vars => WorkInv'
<1> SUFFICES ASSUME IInv, [Next]_vars PROVE WorkInv'
  OBVIOUS
<1>0. [Next]_vars
  OBVIOUS
<1> USE BrokerAssumption DEF Goto, cacheVars, sessionVars, serverVars, callVars,
       workVars, IInv, TypeOK, HeldInv, StartInv, CacheInv, WorkInv, OwnedInv, Owned,
       Created, MuFree, Busy, CallPCs, WorkPCs, Results, Starting, Serving, Workers
<1>1. ASSUME NEW q \in Queries, Begin(q) PROVE WorkInv'
  BY <1>1 DEF Begin, Return
<1>2. ASSUME NEW q \in Queries, LookupClosed(q) PROVE WorkInv'
  BY <1>2 DEF LookupClosed, Return
<1>3. ASSUME NEW q \in Queries, LookupHit(q) PROVE WorkInv'
  BY <1>3 DEF LookupHit
<1>4. ASSUME NEW q \in Queries, LookupMiss(q) PROVE WorkInv'
  BY <1>4 DEF LookupMiss
<1>5. ASSUME NEW q \in Queries, Await(q) PROVE WorkInv'
  BY <1>5 DEF Await, Return
<1>6. ASSUME NEW q \in Queries, LaunchFails(q) PROVE WorkInv'
  BY <1>6 DEF LaunchFails
<1>7. ASSUME NEW q \in Queries, Launch(q) PROVE WorkInv'
  BY <1>7 DEF Launch
<1>8. ASSUME NEW q \in Queries, Initialized(q) PROVE WorkInv'
  BY <1>8 DEF Initialized, Usable
<1>9. ASSUME NEW q \in Queries, InitializeFails(q) PROVE WorkInv'
  BY <1>9 DEF InitializeFails
<1>10. ASSUME NEW q \in Queries, DropPlaceholder(q) PROVE WorkInv'
  BY <1>10 DEF DropPlaceholder
<1>11. ASSUME NEW q \in Queries, PublishError(q) PROVE WorkInv'
  BY <1>11 DEF PublishError, Return
<1>12. ASSUME NEW q \in Queries, PublishReady(q) PROVE WorkInv'
  BY <1>12 DEF PublishReady
<1>13. ASSUME NEW q \in Queries, Guard(q) PROVE WorkInv'
  BY <1>13 DEF Guard
<1>14. ASSUME NEW q \in Queries, Sync(q) PROVE WorkInv'
  BY <1>14 DEF Sync, Fail
<1>15. ASSUME NEW q \in Queries, Answer(q) PROVE WorkInv'
  BY <1>15 DEF Answer, Fail
<1>16. ASSUME NEW q \in Queries, Refuse(q) PROVE WorkInv'
  BY <1>16 DEF Refuse, Fail
<1>17. ASSUME NEW q \in Queries, Leave(q) PROVE WorkInv'
  BY <1>17 DEF Leave
<1>18. CASE ReapBegin
  BY <1>18 DEF ReapBegin
<1>19. ASSUME NEW s \in Queries, ReapLook(s) PROVE WorkInv'
  BY <1>19 DEF ReapLook, Reapable, Idle
<1>20. CASE ReapDelete
  BY <1>20 DEF ReapDelete
<1>21. CASE ReapEnd
  BY <1>21 DEF ReapEnd
<1>22. ASSUME NEW w \in Workers, TakeNext(w) PROVE WorkInv'
  BY <1>22 DEF TakeNext
<1>23. ASSUME NEW w \in Workers, Settle(w) PROVE WorkInv'
  BY <1>23 DEF Settle
<1>24. ASSUME NEW w \in Workers, CloseConn(w) PROVE WorkInv'
  BY <1>24 DEF CloseConn
<1>25. ASSUME NEW w \in Workers, WaitExit(w) PROVE WorkInv'
  BY <1>25 DEF WaitExit
<1>26. ASSUME NEW c \in Closers, CloseAgain(c) PROVE WorkInv'
  BY <1>26 DEF CloseAgain
<1>27. ASSUME NEW c \in Closers, CloseFirst(c) PROVE WorkInv'
  BY <1>27 DEF CloseFirst
<1>28. ASSUME NEW c \in Closers, ShutdownDone(c) PROVE WorkInv'
  BY <1>28 DEF ShutdownDone
<1>29. ASSUME NEW s \in Queries, EndProcess(s) PROVE WorkInv'
  BY <1>29 DEF EndProcess
<1>30. CASE Tick
  BY <1>30 DEF Tick
<1>31. CASE UNCHANGED vars
  BY <1>31 DEF vars
<1>32. QED
  BY ONLY <1>0, <1>1, <1>2, <1>3, <1>4, <1>5, <1>6, <1>7, <1>8, <1>9, <1>10, <1>11,
     <1>12, <1>13, <1>14, <1>15, <1>16, <1>17, <1>18, <1>19, <1>20, <1>21, <1>22, <1>23,
     <1>24, <1>25, <1>26, <1>27, <1>28, <1>29, <1>30, <1>31 DEF Next, vars, QueryStep,
     Lookup, Proceed, ReapScan, StopStep, CloseStep, Exit, Kill, Crash

\* What the workers hold.
LEMMA OwnedStep == IInv /\ [Next]_vars => OwnedInv'
<1> SUFFICES ASSUME IInv, [Next]_vars PROVE OwnedInv'
  OBVIOUS
<1>0. [Next]_vars
  OBVIOUS
<1> USE BrokerAssumption DEF Goto, cacheVars, sessionVars, serverVars, callVars,
       workVars, IInv, TypeOK, HeldInv, StartInv, CacheInv, WorkInv, OwnedInv, Owned,
       Created, MuFree, Busy, CallPCs, WorkPCs, Results, Starting, Serving, Workers
<1>1. ASSUME NEW q \in Queries, Begin(q) PROVE OwnedInv'
  BY <1>1 DEF Begin, Return
<1>2. ASSUME NEW q \in Queries, LookupClosed(q) PROVE OwnedInv'
  BY <1>2 DEF LookupClosed, Return
<1>3. ASSUME NEW q \in Queries, LookupHit(q) PROVE OwnedInv'
  BY <1>3 DEF LookupHit
<1>4. ASSUME NEW q \in Queries, LookupMiss(q) PROVE OwnedInv'
  BY <1>4 DEF LookupMiss
<1>5. ASSUME NEW q \in Queries, Await(q) PROVE OwnedInv'
  BY <1>5 DEF Await, Return
<1>6. ASSUME NEW q \in Queries, LaunchFails(q) PROVE OwnedInv'
  BY <1>6 DEF LaunchFails
<1>7. ASSUME NEW q \in Queries, Launch(q) PROVE OwnedInv'
  BY <1>7 DEF Launch
<1>8. ASSUME NEW q \in Queries, Initialized(q) PROVE OwnedInv'
  BY <1>8 DEF Initialized, Usable
<1>9. ASSUME NEW q \in Queries, InitializeFails(q) PROVE OwnedInv'
  BY <1>9 DEF InitializeFails
<1>10. ASSUME NEW q \in Queries, DropPlaceholder(q) PROVE OwnedInv'
  BY <1>10 DEF DropPlaceholder
<1>11. ASSUME NEW q \in Queries, PublishError(q) PROVE OwnedInv'
  BY <1>11 DEF PublishError, Return
<1>12. ASSUME NEW q \in Queries, PublishReady(q) PROVE OwnedInv'
  BY <1>12 DEF PublishReady
<1>13. ASSUME NEW q \in Queries, Guard(q) PROVE OwnedInv'
  BY <1>13 DEF Guard
<1>14. ASSUME NEW q \in Queries, Sync(q) PROVE OwnedInv'
  BY <1>14 DEF Sync, Fail
<1>15. ASSUME NEW q \in Queries, Answer(q) PROVE OwnedInv'
  BY <1>15 DEF Answer, Fail
<1>16. ASSUME NEW q \in Queries, Refuse(q) PROVE OwnedInv'
  BY <1>16 DEF Refuse, Fail
<1>17. ASSUME NEW q \in Queries, Leave(q) PROVE OwnedInv'
  BY <1>17 DEF Leave
<1>18. CASE ReapBegin
  BY <1>18 DEF ReapBegin
<1>19. ASSUME NEW s \in Queries, ReapLook(s) PROVE OwnedInv'
  BY <1>19 DEF ReapLook, Reapable, Idle
<1>20. CASE ReapDelete
  BY <1>20 DEF ReapDelete
<1>21. CASE ReapEnd
  BY <1>21 DEF ReapEnd
<1>22. ASSUME NEW w \in Workers, TakeNext(w) PROVE OwnedInv'
  BY <1>22 DEF TakeNext
<1>23. ASSUME NEW w \in Workers, Settle(w) PROVE OwnedInv'
  BY <1>23 DEF Settle
<1>24. ASSUME NEW w \in Workers, CloseConn(w) PROVE OwnedInv'
  BY <1>24 DEF CloseConn
<1>25. ASSUME NEW w \in Workers, WaitExit(w) PROVE OwnedInv'
  BY <1>25 DEF WaitExit
<1>26. ASSUME NEW c \in Closers, CloseAgain(c) PROVE OwnedInv'
  BY <1>26 DEF CloseAgain
<1>27. ASSUME NEW c \in Closers, CloseFirst(c) PROVE OwnedInv'
  BY <1>27 DEF CloseFirst
<1>28. ASSUME NEW c \in Closers, ShutdownDone(c) PROVE OwnedInv'
  BY <1>28 DEF ShutdownDone
<1>29. ASSUME NEW s \in Queries, EndProcess(s) PROVE OwnedInv'
  BY <1>29 DEF EndProcess
<1>30. CASE Tick
  BY <1>30 DEF Tick
<1>31. CASE UNCHANGED vars
  BY <1>31 DEF vars
<1>32. QED
  BY ONLY <1>0, <1>1, <1>2, <1>3, <1>4, <1>5, <1>6, <1>7, <1>8, <1>9, <1>10, <1>11,
     <1>12, <1>13, <1>14, <1>15, <1>16, <1>17, <1>18, <1>19, <1>20, <1>21, <1>22, <1>23,
     <1>24, <1>25, <1>26, <1>27, <1>28, <1>29, <1>30, <1>31 DEF Next, vars, QueryStep,
     Lookup, Proceed, ReapScan, StopStep, CloseStep, Exit, Kill, Crash

\* No server is lost sight of.
LEMMA TrackStep == IInv /\ [Next]_vars => TrackInv'
<1> SUFFICES ASSUME IInv, [Next]_vars PROVE TrackInv'
  OBVIOUS
<1>0. [Next]_vars
  OBVIOUS
<1> USE BrokerAssumption DEF Goto, cacheVars, sessionVars, serverVars, callVars,
       workVars, IInv, TypeOK, HeldInv, StartInv, CacheInv, WorkInv, OwnedInv, TrackInv,
       Owned, Created, MuFree, Busy, CallPCs, WorkPCs, Results, Starting, Serving,
       Workers
<1>1. ASSUME NEW q \in Queries, Begin(q) PROVE TrackInv'
  BY <1>1 DEF Begin, Return
<1>2. ASSUME NEW q \in Queries, LookupClosed(q) PROVE TrackInv'
  BY <1>2 DEF LookupClosed, Return
<1>3. ASSUME NEW q \in Queries, LookupHit(q) PROVE TrackInv'
  BY <1>3 DEF LookupHit
<1>4. ASSUME NEW q \in Queries, LookupMiss(q) PROVE TrackInv'
  BY <1>4 DEF LookupMiss
<1>5. ASSUME NEW q \in Queries, Await(q) PROVE TrackInv'
  BY <1>5 DEF Await, Return
<1>6. ASSUME NEW q \in Queries, LaunchFails(q) PROVE TrackInv'
  BY <1>6 DEF LaunchFails
<1>7. ASSUME NEW q \in Queries, Launch(q) PROVE TrackInv'
  BY <1>7 DEF Launch
<1>8. ASSUME NEW q \in Queries, Initialized(q) PROVE TrackInv'
  BY <1>8 DEF Initialized, Usable
<1>9. ASSUME NEW q \in Queries, InitializeFails(q) PROVE TrackInv'
  BY <1>9 DEF InitializeFails
<1>10. ASSUME NEW q \in Queries, DropPlaceholder(q) PROVE TrackInv'
  BY <1>10 DEF DropPlaceholder
<1>11. ASSUME NEW q \in Queries, PublishError(q) PROVE TrackInv'
  BY <1>11 DEF PublishError, Return
<1>12. ASSUME NEW q \in Queries, PublishReady(q) PROVE TrackInv'
  BY <1>12 DEF PublishReady
<1>13. ASSUME NEW q \in Queries, Guard(q) PROVE TrackInv'
  BY <1>13 DEF Guard
<1>14. ASSUME NEW q \in Queries, Sync(q) PROVE TrackInv'
  BY <1>14 DEF Sync, Fail
<1>15. ASSUME NEW q \in Queries, Answer(q) PROVE TrackInv'
  BY <1>15 DEF Answer, Fail
<1>16. ASSUME NEW q \in Queries, Refuse(q) PROVE TrackInv'
  BY <1>16 DEF Refuse, Fail
<1>17. ASSUME NEW q \in Queries, Leave(q) PROVE TrackInv'
  BY <1>17 DEF Leave
<1>18. CASE ReapBegin
  BY <1>18 DEF ReapBegin
<1>19. ASSUME NEW s \in Queries, ReapLook(s) PROVE TrackInv'
  BY <1>19 DEF ReapLook, Reapable, Idle
<1>20. CASE ReapDelete
  BY <1>20 DEF ReapDelete
<1>21. CASE ReapEnd
  BY <1>21 DEF ReapEnd
<1>22. ASSUME NEW w \in Workers, TakeNext(w) PROVE TrackInv'
  BY <1>22 DEF TakeNext
<1>23. ASSUME NEW w \in Workers, Settle(w) PROVE TrackInv'
  BY <1>23 DEF Settle
<1>24. ASSUME NEW w \in Workers, CloseConn(w) PROVE TrackInv'
  BY <1>24 DEF CloseConn
<1>25. ASSUME NEW w \in Workers, WaitExit(w) PROVE TrackInv'
  BY <1>25 DEF WaitExit
<1>26. ASSUME NEW c \in Closers, CloseAgain(c) PROVE TrackInv'
  BY <1>26 DEF CloseAgain
<1>27. ASSUME NEW c \in Closers, CloseFirst(c) PROVE TrackInv'
  BY <1>27 DEF CloseFirst
<1>28. ASSUME NEW c \in Closers, ShutdownDone(c) PROVE TrackInv'
  BY <1>28 DEF ShutdownDone
<1>29. ASSUME NEW s \in Queries, EndProcess(s) PROVE TrackInv'
  BY <1>29 DEF EndProcess
<1>30. CASE Tick
  BY <1>30 DEF Tick
<1>31. CASE UNCHANGED vars
  BY <1>31 DEF vars
<1>32. QED
  BY ONLY <1>0, <1>1, <1>2, <1>3, <1>4, <1>5, <1>6, <1>7, <1>8, <1>9, <1>10, <1>11,
     <1>12, <1>13, <1>14, <1>15, <1>16, <1>17, <1>18, <1>19, <1>20, <1>21, <1>22, <1>23,
     <1>24, <1>25, <1>26, <1>27, <1>28, <1>29, <1>30, <1>31 DEF Next, vars, QueryStep,
     Lookup, Proceed, ReapScan, StopStep, CloseStep, Exit, Kill, Crash

\* Calls that began after closing.
LEMMA LateStep == IInv /\ [Next]_vars => LateInv'
<1> SUFFICES ASSUME IInv, [Next]_vars PROVE LateInv'
  OBVIOUS
<1>0. [Next]_vars
  OBVIOUS
<1> USE BrokerAssumption DEF Goto, cacheVars, sessionVars, serverVars, callVars,
       workVars, IInv, TypeOK, HeldInv, StartInv, LateInv, Created, CallPCs, WorkPCs,
       Results, Starting, Serving, Workers
<1>1. ASSUME NEW q \in Queries, Begin(q) PROVE LateInv'
  BY <1>1 DEF Begin, Return
<1>2. ASSUME NEW q \in Queries, LookupClosed(q) PROVE LateInv'
  BY <1>2 DEF LookupClosed, Return
<1>3. ASSUME NEW q \in Queries, LookupHit(q) PROVE LateInv'
  BY <1>3 DEF LookupHit
<1>4. ASSUME NEW q \in Queries, LookupMiss(q) PROVE LateInv'
  BY <1>4 DEF LookupMiss
<1>5. ASSUME NEW q \in Queries, Await(q) PROVE LateInv'
  BY <1>5 DEF Await, Return
<1>6. ASSUME NEW q \in Queries, LaunchFails(q) PROVE LateInv'
  BY <1>6 DEF LaunchFails
<1>7. ASSUME NEW q \in Queries, Launch(q) PROVE LateInv'
  BY <1>7 DEF Launch
<1>8. ASSUME NEW q \in Queries, Initialized(q) PROVE LateInv'
  BY <1>8 DEF Initialized, Usable
<1>9. ASSUME NEW q \in Queries, InitializeFails(q) PROVE LateInv'
  BY <1>9 DEF InitializeFails
<1>10. ASSUME NEW q \in Queries, DropPlaceholder(q) PROVE LateInv'
  BY <1>10 DEF DropPlaceholder
<1>11. ASSUME NEW q \in Queries, PublishError(q) PROVE LateInv'
  BY <1>11 DEF PublishError, Return
<1>12. ASSUME NEW q \in Queries, PublishReady(q) PROVE LateInv'
  BY <1>12 DEF PublishReady
<1>13. ASSUME NEW q \in Queries, Guard(q) PROVE LateInv'
  BY <1>13 DEF Guard
<1>14. ASSUME NEW q \in Queries, Sync(q) PROVE LateInv'
  BY <1>14 DEF Sync, Fail
<1>15. ASSUME NEW q \in Queries, Answer(q) PROVE LateInv'
  BY <1>15 DEF Answer, Fail
<1>16. ASSUME NEW q \in Queries, Refuse(q) PROVE LateInv'
  BY <1>16 DEF Refuse, Fail
<1>17. ASSUME NEW q \in Queries, Leave(q) PROVE LateInv'
  BY <1>17 DEF Leave
<1>18. CASE ReapBegin
  BY <1>18 DEF ReapBegin
<1>19. ASSUME NEW s \in Queries, ReapLook(s) PROVE LateInv'
  BY <1>19 DEF ReapLook, Reapable, Idle
<1>20. CASE ReapDelete
  BY <1>20 DEF ReapDelete
<1>21. CASE ReapEnd
  BY <1>21 DEF ReapEnd
<1>22. ASSUME NEW w \in Workers, TakeNext(w) PROVE LateInv'
  BY <1>22 DEF TakeNext
<1>23. ASSUME NEW w \in Workers, Settle(w) PROVE LateInv'
  BY <1>23 DEF Settle
<1>24. ASSUME NEW w \in Workers, CloseConn(w) PROVE LateInv'
  BY <1>24 DEF CloseConn
<1>25. ASSUME NEW w \in Workers, WaitExit(w) PROVE LateInv'
  BY <1>25 DEF WaitExit
<1>26. ASSUME NEW c \in Closers, CloseAgain(c) PROVE LateInv'
  BY <1>26 DEF CloseAgain
<1>27. ASSUME NEW c \in Closers, CloseFirst(c) PROVE LateInv'
  BY <1>27 DEF CloseFirst
<1>28. ASSUME NEW c \in Closers, ShutdownDone(c) PROVE LateInv'
  BY <1>28 DEF ShutdownDone
<1>29. ASSUME NEW s \in Queries, EndProcess(s) PROVE LateInv'
  BY <1>29 DEF EndProcess
<1>30. CASE Tick
  BY <1>30 DEF Tick
<1>31. CASE UNCHANGED vars
  BY <1>31 DEF vars
<1>32. QED
  BY ONLY <1>0, <1>1, <1>2, <1>3, <1>4, <1>5, <1>6, <1>7, <1>8, <1>9, <1>10, <1>11,
     <1>12, <1>13, <1>14, <1>15, <1>16, <1>17, <1>18, <1>19, <1>20, <1>21, <1>22, <1>23,
     <1>24, <1>25, <1>26, <1>27, <1>28, <1>29, <1>30, <1>31 DEF Next, vars, QueryStep,
     Lookup, Proceed, ReapScan, StopStep, CloseStep, Exit, Kill, Crash

\* The counter.  Only Guard and Leave change the set of users, by one call each.
LEMMA InflightStep == IInv /\ [Next]_vars => InflightCountsUsers'
<1> SUFFICES ASSUME IInv, [Next]_vars PROVE InflightCountsUsers'
  OBVIOUS
<1>0. [Next]_vars
  OBVIOUS
<1> USE BrokerAssumption DEF Goto, cacheVars, sessionVars, serverVars, callVars,
       workVars, IInv, TypeOK, HeldInv, InflightCountsUsers, CallPCs, WorkPCs, Results,
       Starting, Serving, Workers
<1>1. ASSUME NEW q \in Queries, Begin(q) PROVE InflightCountsUsers'
  BY <1>1, UsersUnchanged DEF Begin, Return
<1>2. ASSUME NEW q \in Queries, LookupClosed(q) PROVE InflightCountsUsers'
  BY <1>2, UsersUnchanged DEF LookupClosed, Return
<1>3. ASSUME NEW q \in Queries, LookupHit(q) PROVE InflightCountsUsers'
  BY <1>3, UsersUnchanged DEF LookupHit
<1>4. ASSUME NEW q \in Queries, LookupMiss(q) PROVE InflightCountsUsers'
  BY <1>4, UsersUnchanged DEF LookupMiss
<1>5. ASSUME NEW q \in Queries, Await(q) PROVE InflightCountsUsers'
  BY <1>5, UsersUnchanged DEF Await, Return
<1>6. ASSUME NEW q \in Queries, LaunchFails(q) PROVE InflightCountsUsers'
  BY <1>6, UsersUnchanged DEF LaunchFails
<1>7. ASSUME NEW q \in Queries, Launch(q) PROVE InflightCountsUsers'
  BY <1>7, UsersUnchanged DEF Launch
<1>8. ASSUME NEW q \in Queries, Initialized(q) PROVE InflightCountsUsers'
  BY <1>8, UsersUnchanged DEF Initialized, Usable
<1>9. ASSUME NEW q \in Queries, InitializeFails(q) PROVE InflightCountsUsers'
  BY <1>9, UsersUnchanged DEF InitializeFails
<1>10. ASSUME NEW q \in Queries, DropPlaceholder(q) PROVE InflightCountsUsers'
  BY <1>10, UsersUnchanged DEF DropPlaceholder
<1>11. ASSUME NEW q \in Queries, PublishError(q) PROVE InflightCountsUsers'
  BY <1>11, UsersUnchanged DEF PublishError, Return
<1>12. ASSUME NEW q \in Queries, PublishReady(q) PROVE InflightCountsUsers'
  BY <1>12, UsersUnchanged DEF PublishReady
<1>13. ASSUME NEW q \in Queries, Guard(q) PROVE InflightCountsUsers'
  <2>1. PICK s \in Queries : s = held[q]
    BY <1>13 DEF Guard
  <2>2. q \notin Users(s) /\ Users(s)' = Users(s) \cup {q}
    BY <1>13, <2>1 DEF Guard, Users
  <2>3. \A t \in Queries \ {s} : Users(t)' = Users(t)
    BY <1>13, <2>1 DEF Guard, Users
  <2>4. inflight' = [inflight EXCEPT ![s] = @ + 1]
    BY <1>13, <2>1 DEF Guard
  <2> QED
    BY <2>2, <2>3, <2>4, UsersGrow
<1>14. ASSUME NEW q \in Queries, Sync(q) PROVE InflightCountsUsers'
  BY <1>14, UsersUnchanged DEF Sync, Fail
<1>15. ASSUME NEW q \in Queries, Answer(q) PROVE InflightCountsUsers'
  BY <1>15, UsersUnchanged DEF Answer, Fail
<1>16. ASSUME NEW q \in Queries, Refuse(q) PROVE InflightCountsUsers'
  BY <1>16, UsersUnchanged DEF Refuse, Fail
<1>17. ASSUME NEW q \in Queries, Leave(q) PROVE InflightCountsUsers'
  <2>1. PICK s \in Queries : s = held[q]
    BY <1>17 DEF Leave
  <2>2. q \in Users(s) /\ Users(s)' = Users(s) \ {q}
    BY <1>17, <2>1 DEF Leave, Users
  <2>3. \A t \in Queries \ {s} : Users(t)' = Users(t)
    BY <1>17, <2>1 DEF Leave, Users
  <2>4. inflight' = [inflight EXCEPT ![s] = @ - 1]
    BY <1>17, <2>1 DEF Leave
  <2> QED
    BY <2>2, <2>3, <2>4, UsersShrink
<1>18. CASE ReapBegin
  BY <1>18, UsersUnchanged DEF ReapBegin
<1>19. ASSUME NEW s \in Queries, ReapLook(s) PROVE InflightCountsUsers'
  BY <1>19, UsersUnchanged DEF ReapLook, Reapable, Idle
<1>20. CASE ReapDelete
  BY <1>20, UsersUnchanged DEF ReapDelete
<1>21. CASE ReapEnd
  BY <1>21, UsersUnchanged DEF ReapEnd
<1>22. ASSUME NEW w \in Workers, TakeNext(w) PROVE InflightCountsUsers'
  BY <1>22, UsersUnchanged DEF TakeNext
<1>23. ASSUME NEW w \in Workers, Settle(w) PROVE InflightCountsUsers'
  BY <1>23, UsersUnchanged DEF Settle
<1>24. ASSUME NEW w \in Workers, CloseConn(w) PROVE InflightCountsUsers'
  BY <1>24, UsersUnchanged DEF CloseConn
<1>25. ASSUME NEW w \in Workers, WaitExit(w) PROVE InflightCountsUsers'
  BY <1>25, UsersUnchanged DEF WaitExit
<1>26. ASSUME NEW c \in Closers, CloseAgain(c) PROVE InflightCountsUsers'
  BY <1>26, UsersUnchanged DEF CloseAgain
<1>27. ASSUME NEW c \in Closers, CloseFirst(c) PROVE InflightCountsUsers'
  BY <1>27, UsersUnchanged DEF CloseFirst
<1>28. ASSUME NEW c \in Closers, ShutdownDone(c) PROVE InflightCountsUsers'
  BY <1>28, UsersUnchanged DEF ShutdownDone
<1>29. ASSUME NEW s \in Queries, EndProcess(s) PROVE InflightCountsUsers'
  BY <1>29, UsersUnchanged DEF EndProcess
<1>30. CASE Tick
  BY <1>30, UsersUnchanged DEF Tick
<1>31. CASE UNCHANGED vars
  BY <1>31, UsersUnchanged DEF vars
<1>32. QED
  BY ONLY <1>0, <1>1, <1>2, <1>3, <1>4, <1>5, <1>6, <1>7, <1>8, <1>9, <1>10, <1>11,
     <1>12, <1>13, <1>14, <1>15, <1>16, <1>17, <1>18, <1>19, <1>20, <1>21, <1>22, <1>23,
     <1>24, <1>25, <1>26, <1>27, <1>28, <1>29, <1>30, <1>31 DEF Next, vars, QueryStep,
     Lookup, Proceed, ReapScan, StopStep, CloseStep, Exit, Kill, Crash

-----------------------------------------------------------------------------
(* Initiality, and the invariant.                                          *)

\* The initial states satisfy every part.
LEMMA IInvInit == Init => IInv
<1> SUFFICES ASSUME Init PROVE IInv
  OBVIOUS
<1> USE BrokerAssumption DEF Init
<1>1. TypeOK
  BY DEF TypeOK, CallPCs, WorkPCs, Results, Workers
<1>2. HeldInv /\ StartInv /\ UserInv /\ LateInv
  BY DEF HeldInv, StartInv, UserInv, LateInv, Starting, Serving, Created
<1>3. CacheInv
  BY DEF CacheInv
<1>4. WorkInv
  BY DEF WorkInv, Workers, Busy
<1>5. OwnedInv /\ TrackInv
  BY DEF OwnedInv, TrackInv, Owned, Workers
<1>6. InflightCountsUsers
  <2>1. \A s \in Queries : Users(s) = {}
    BY DEF Users, Serving
  <2> QED
    BY <2>1, FS_EmptySet DEF InflightCountsUsers
<1> QED
  BY <1>1, <1>2, <1>3, <1>4, <1>5, <1>6 DEF IInv

\* The inductive invariant holds in every reachable state.
THEOREM Invariance == Spec => []IInv
<1>1. IInv /\ [Next]_vars => IInv'
  BY ONLY TypeStep, HeldStep, StartStep, UserStep, CacheStep, WorkStep, OwnedStep,
     TrackStep, LateStep, InflightStep DEF IInv
<1> QED
  BY IInvInit, <1>1, PTL DEF Spec

-----------------------------------------------------------------------------
(* What follows from it.                                                   *)

\* Every variable keeps its type; in particular the in-flight counter never goes
\* below zero.
THEOREM TypeCorrect == Spec => []TypeOK
<1>1. IInv => TypeOK
  BY DEF IInv
<1> QED
  BY Invariance, <1>1, PTL

\* Two running servers of one key: the cache holds at most one of them, so a
\* worker holds the other.
THEOREM OneServerPerKey == Spec => []OneWarmServer
<1>1. IInv => OneWarmServer
  <2> SUFFICES ASSUME IInv, NEW p \in Queries, NEW q \in Queries, p # q,
                      target[p] = target[q], proc[p] = "running", proc[q] = "running"
               PROVE  \E w \in Workers : {p, q} \cap Owned(w) # {}
    BY DEF OneWarmServer
  <2>1. ~(sessions[target[p]] = p /\ sessions[target[q]] = q)
    OBVIOUS
  <2> QED
    BY <2>1 DEF IInv, TrackInv
<1> QED
  BY Invariance, <1>1, PTL

\* A settled session in the cache is one a query can be served on.
THEOREM CacheUsable == Spec => []CacheIsUsable
<1>1. IInv => CacheIsUsable
  <2> SUFFICES ASSUME IInv, NEW k \in Keys, sessions[k] # None, ready[sessions[k]]
               PROVE  srv[sessions[k]] /\ ~initErr[sessions[k]] /\ conn[sessions[k]]
    BY DEF CacheIsUsable
  <2>1. sessions[k] \in Queries
    BY DEF IInv, TypeOK
  <2> QED
    BY <2>1 DEF IInv, CacheInv, StartInv
<1> QED
  BY Invariance, <1>1, PTL

\* The in-flight counter is exact.
THEOREM InflightExact == Spec => []InflightCountsUsers
<1>1. IInv => InflightCountsUsers
  BY DEF IInv
<1> QED
  BY Invariance, <1>1, PTL

\* No session is stopped twice, none that is being stopped can be looked up.
THEOREM OneTeardown == Spec => []TeardownsDisjoint
<1>1. IInv => TeardownsDisjoint
  <2> SUFFICES ASSUME IInv PROVE TeardownsDisjoint
    OBVIOUS
  <2>1. ASSUME NEW w \in Workers, NEW k \in Keys, sessions[k] \in Owned(w)
        PROVE  w = Reaper /\ wpc[w] = "scan"
    <3>1. sessions[k] \in Queries
      BY <2>1, BrokerAssumption DEF IInv, TypeOK, Owned
    <3>2. target[sessions[k]] = k
      BY <3>1, BrokerAssumption DEF IInv, CacheInv
    <3> QED
      BY <2>1, <3>2 DEF IInv, OwnedInv
  <2> QED
    BY <2>1 DEF TeardownsDisjoint, IInv, OwnedInv
<1> QED
  BY Invariance, <1>1, PTL

\* A query that begins after ShutdownAll closed the broker starts no server and
\* gets nothing but an error.
THEOREM LateRefused == Spec => []LateQueriesRefused
<1>1. IInv => LateQueriesRefused
  BY BrokerAssumption DEF IInv, LateInv, StartInv, Created, LateQueriesRefused
<1> QED
  BY Invariance, <1>1, PTL

\* ShutdownAll returns to a broker with no cold start under way, and with no
\* running server but those the reaper is stopping.
THEOREM ShutdownLeavesNothing == Spec => []NothingOutlivesShutdown
<1>1. IInv => NothingOutlivesShutdown
  <2> SUFFICES ASSUME IInv, canceled, NEW s \in Queries
               PROVE  /\ pc[s] \notin {"start", "init"}
                      /\ proc[s] = "running" => s \in Owned(Reaper)
    BY DEF NothingOutlivesShutdown
  <2>1. sessions[target[s]] # s
    BY BrokerAssumption DEF IInv, TypeOK, WorkInv, CacheInv
  <2>2. ASSUME NEW c \in Closers PROVE Owned(c) = {}
    <3>1. wpc[c] \in {"idle", "done"} /\ c \in Workers
      BY BrokerAssumption DEF IInv, TypeOK, WorkInv, WorkPCs, Workers, Busy
    <3> QED
      BY <3>1 DEF IInv, WorkInv, Owned
  <2> QED
    BY <2>1, <2>2 DEF IInv, TrackInv, Workers
<1> QED
  BY Invariance, <1>1, PTL

\* The reaper picks no session that a query is using.
THEOREM ReaperSparesUsers == Spec => GuardedNeverReaped
<1>1. IInv /\ [Next]_vars =>
        [\A s \in todo'[Reaper] \ todo[Reaper] : Users(s) = {}]_vars
  <2> SUFFICES ASSUME IInv, Next, NEW s \in todo'[Reaper] \ todo[Reaper]
               PROVE  Users(s) = {}
    OBVIOUS
  <2>0. Next
    OBVIOUS
  <2>1. ReapLook(s)
    <3> USE DEF IInv, TypeOK, Workers, cacheVars, sessionVars, serverVars, callVars, workVars
    <3>1. ASSUME NEW q \in Queries, QueryStep(q) PROVE UNCHANGED todo
      BY <3>1 DEF QueryStep, Begin, Lookup, LookupClosed, LookupHit, LookupMiss,
         DropPlaceholder, Proceed, Await, LaunchFails, Launch, Initialized, InitializeFails,
         PublishError, PublishReady, Guard, Sync, Answer, Refuse, Leave
    <3>2. ASSUME NEW w \in Workers, StopStep(w) PROVE todo'[Reaper] \subseteq todo[Reaper]
      BY <3>2 DEF StopStep, TakeNext, Settle, CloseConn, WaitExit
    <3>3. ASSUME NEW c \in Closers, CloseStep(c) \/ ShutdownDone(c)
          PROVE  todo'[Reaper] = todo[Reaper]
      BY <3>3, BrokerAssumption DEF CloseStep, CloseAgain, CloseFirst, ShutdownDone
    <3>4. ASSUME NEW r \in Queries, EndProcess(r) PROVE UNCHANGED todo
      BY <3>4 DEF EndProcess
    <3>5. ASSUME ReapBegin \/ ReapDelete \/ ReapEnd \/ Tick PROVE UNCHANGED todo
      BY <3>5 DEF ReapBegin, ReapDelete, ReapEnd, Tick
    <3>6. ASSUME NEW r \in Queries, ReapLook(r) PROVE r = s
      BY <3>6 DEF ReapLook
    <3> QED
      BY <2>0, <3>1, <3>2, <3>3, <3>4, <3>5, <3>6 DEF Next, ReapScan, Exit, Kill, Crash
  <2>2. s \in Queries /\ inflight[s] = 0
    BY <2>1 DEF ReapLook, Reapable, Idle, IInv, TypeOK, Workers
  <2> QED
    BY <2>2, UsersFinite, FS_EmptySet DEF IInv, InflightCountsUsers
<1> QED
  BY Invariance, <1>1, PTL DEF Spec, GuardedNeverReaped

-----------------------------------------------------------------------------
(* The broker implements SessionPool.                                      *)

\* Only s changes its phase.
LEMMA PhaseChange ==
  ASSUME NEW s \in Queries, NEW from, NEW to, Phase(s) = from, Phase(s)' = to,
         \A t \in Queries \ {s} : Phase(t)' = Phase(t)
  PROVE  Pool!Become(s, from, to)
  BY DEF Pool!Become

\* A step that changes none of what Phase reads leaves the pool alone.
LEMMA PoolStutter ==
  ASSUME UNCHANGED <<sessions, closed>>,
         \A s \in Queries : Phase(s)' = Phase(s)
  PROVE  UNCHANGED Pool!vars
  BY DEF Pool!vars

\* One step of the broker is one step of the pool, or none.
LEMMA PoolStep == IInv /\ IInv' /\ [Next]_vars => [Pool!Next]_(Pool!vars)
<1> SUFFICES ASSUME IInv, IInv', [Next]_vars PROVE [Pool!Next]_(Pool!vars)
  OBVIOUS
<1>0. [Next]_vars
  OBVIOUS
<1> USE BrokerAssumption DEF Goto, cacheVars, sessionVars, serverVars, callVars, workVars,
       IInv, TypeOK, HeldInv, StartInv, CacheInv, WorkInv, OwnedInv, Owned, Created, Busy,
       Phase, Starting, Workers
<1>1. ASSUME NEW q \in Queries, Begin(q) PROVE [Pool!Next]_(Pool!vars)
  BY <1>1, PoolStutter DEF Begin, Return
<1>2. ASSUME NEW q \in Queries, LookupClosed(q) PROVE [Pool!Next]_(Pool!vars)
  BY <1>2, PoolStutter DEF LookupClosed, Return
<1>3. ASSUME NEW q \in Queries, LookupHit(q) PROVE [Pool!Next]_(Pool!vars)
  BY <1>3, PoolStutter DEF LookupHit
<1>4. ASSUME NEW q \in Queries, LookupMiss(q) PROVE [Pool!Next]_(Pool!vars)
  <2>1. Phase(q) = "unborn" /\ Phase(q)' = "starting"
    BY <1>4 DEF LookupMiss
  <2>2. \A s \in Queries \ {q} : Phase(s)' = Phase(s)
    BY <1>4 DEF LookupMiss
  <2>3. Pool!Become(q, "unborn", "starting")
    BY <2>1, <2>2, PhaseChange
  <2>4. target[q] \in Keys /\ Pool!Activate(q, target[q])
    BY <1>4, <2>3 DEF LookupMiss, MuFree, Pool!Activate
  <2> QED
    BY <2>4 DEF Pool!Next
<1>5. ASSUME NEW q \in Queries, Await(q) PROVE [Pool!Next]_(Pool!vars)
  BY <1>5, PoolStutter DEF Await, Return
<1>6. ASSUME NEW q \in Queries, LaunchFails(q) PROVE [Pool!Next]_(Pool!vars)
  BY <1>6, PoolStutter DEF LaunchFails
<1>7. ASSUME NEW q \in Queries, Launch(q) PROVE [Pool!Next]_(Pool!vars)
  BY <1>7, PoolStutter DEF Launch
<1>8. ASSUME NEW q \in Queries, Initialized(q) PROVE [Pool!Next]_(Pool!vars)
  BY <1>8, PoolStutter DEF Initialized, Usable
<1>9. ASSUME NEW q \in Queries, InitializeFails(q) PROVE [Pool!Next]_(Pool!vars)
  BY <1>9, PoolStutter DEF InitializeFails
<1>10. ASSUME NEW q \in Queries, DropPlaceholder(q) PROVE [Pool!Next]_(Pool!vars)
  <2>1. Phase(q) = "starting" /\ Phase(q)' = "failed"
    BY <1>10 DEF DropPlaceholder
  <2>2. \A s \in Queries \ {q} : Phase(s)' = Phase(s)
    BY <1>10 DEF DropPlaceholder
  <2>3. Pool!Become(q, "starting", "failed")
    BY <2>1, <2>2, PhaseChange
  <2>4. Pool!Fail(q)
    BY <1>10, <2>3 DEF DropPlaceholder, MuFree, Pool!Fail
  <2> QED
    BY <2>4 DEF Pool!Next
<1>11. ASSUME NEW q \in Queries, PublishError(q) PROVE [Pool!Next]_(Pool!vars)
  BY <1>11, PoolStutter DEF PublishError, Return
<1>12. ASSUME NEW q \in Queries, PublishReady(q) PROVE [Pool!Next]_(Pool!vars)
  <2>1. Phase(q) = "starting" /\ Phase(q)' = "warm"
    <3>1. conn[q] /\ ~initErr[q] /\ ~ready[q] /\ held[q] = q
      BY <1>12 DEF PublishReady
    <3> QED
      BY <1>12, <3>1 DEF PublishReady
  <2>2. \A s \in Queries \ {q} : Phase(s)' = Phase(s)
    BY <1>12 DEF PublishReady
  <2>3. Pool!Become(q, "starting", "warm")
    BY <2>1, <2>2, PhaseChange
  <2>4. Pool!Warm(q)
    BY <1>12, <2>3 DEF PublishReady, Pool!Warm
  <2> QED
    BY <2>4 DEF Pool!Next
<1>13. ASSUME NEW q \in Queries, Guard(q) PROVE [Pool!Next]_(Pool!vars)
  BY <1>13, PoolStutter DEF Guard
<1>14. ASSUME NEW q \in Queries, Sync(q) PROVE [Pool!Next]_(Pool!vars)
  BY <1>14, PoolStutter DEF Sync, Fail
<1>15. ASSUME NEW q \in Queries, Answer(q) PROVE [Pool!Next]_(Pool!vars)
  BY <1>15, PoolStutter DEF Answer, Fail
<1>16. ASSUME NEW q \in Queries, Refuse(q) PROVE [Pool!Next]_(Pool!vars)
  BY <1>16, PoolStutter DEF Refuse, Fail
<1>17. ASSUME NEW q \in Queries, Leave(q) PROVE [Pool!Next]_(Pool!vars)
  BY <1>17, PoolStutter DEF Leave
<1>18. CASE ReapBegin
  BY <1>18, PoolStutter DEF ReapBegin
<1>19. ASSUME NEW s \in Queries, ReapLook(s) PROVE [Pool!Next]_(Pool!vars)
  BY <1>19, PoolStutter DEF ReapLook, Reapable, Idle
<1>20. CASE ReapDelete
  <2>1. Pool!Evict(todo[Reaper])
    BY <1>20 DEF ReapDelete, Pool!Evict
  <2> QED
    BY <2>1 DEF Pool!Next
<1>21. CASE ReapEnd
  BY <1>21, PoolStutter DEF ReapEnd
<1>22. ASSUME NEW w \in Workers, TakeNext(w) PROVE [Pool!Next]_(Pool!vars)
  BY <1>22, PoolStutter DEF TakeNext
<1>23. ASSUME NEW w \in Workers, Settle(w) PROVE [Pool!Next]_(Pool!vars)
  BY <1>23, PoolStutter DEF Settle
<1>24. ASSUME NEW w \in Workers, CloseConn(w) PROVE [Pool!Next]_(Pool!vars)
  <2>1. PICK s \in Queries : s = cur[w]
    BY <1>24 DEF CloseConn
  <2>2. CASE conn[s]
    <3>1. ready[s] /\ srv[s] /\ Created(s) /\ s \in Owned(w) /\ wpc[w] # "scan"
      BY <1>24, <2>1 DEF CloseConn
    <3>2. Phase(s) = "warm" /\ Phase(s)' = "stopped"
      BY <1>24, <2>1, <2>2, <3>1 DEF CloseConn
    <3>3. \A t \in Queries \ {s} : Phase(t)' = Phase(t)
      BY <1>24, <2>1 DEF CloseConn
    <3>4. Pool!Become(s, "warm", "stopped")
      BY <3>2, <3>3, PhaseChange
    <3>5. \A k \in Keys : sessions[k] # s
      BY <3>1
    <3>6. Pool!Stop(s)
      BY <1>24, <3>4, <3>5 DEF CloseConn, Pool!Stop, Pool!Cached
    <3> QED
      BY <3>6 DEF Pool!Next
  <2>3. CASE ~conn[s]
    BY <1>24, <2>1, <2>3, PoolStutter DEF CloseConn
  <2> QED
    BY <2>2, <2>3
<1>25. ASSUME NEW w \in Workers, WaitExit(w) PROVE [Pool!Next]_(Pool!vars)
  BY <1>25, PoolStutter DEF WaitExit
<1>26. ASSUME NEW c \in Closers, CloseAgain(c) PROVE [Pool!Next]_(Pool!vars)
  BY <1>26, PoolStutter DEF CloseAgain
<1>27. ASSUME NEW c \in Closers, CloseFirst(c) PROVE [Pool!Next]_(Pool!vars)
  <2>1. Pool!ShutAll
    BY <1>27 DEF CloseFirst, Pool!ShutAll
  <2> QED
    BY <2>1 DEF Pool!Next
<1>28. ASSUME NEW c \in Closers, ShutdownDone(c) PROVE [Pool!Next]_(Pool!vars)
  BY <1>28, PoolStutter DEF ShutdownDone
<1>29. ASSUME NEW s \in Queries, EndProcess(s) PROVE [Pool!Next]_(Pool!vars)
  BY <1>29, PoolStutter DEF EndProcess
<1>30. CASE Tick
  BY <1>30, PoolStutter DEF Tick
<1>31. CASE UNCHANGED vars
  BY <1>31, PoolStutter DEF vars
<1>32. QED
  BY ONLY <1>0, <1>1, <1>2, <1>3, <1>4, <1>5, <1>6, <1>7, <1>8, <1>9, <1>10, <1>11,
     <1>12, <1>13, <1>14, <1>15, <1>16, <1>17, <1>18, <1>19, <1>20, <1>21, <1>22, <1>23,
     <1>24, <1>25, <1>26, <1>27, <1>28, <1>29, <1>30, <1>31 DEF Next, vars, QueryStep,
     Lookup, Proceed, ReapScan, StopStep, CloseStep, Exit, Kill, Crash

\* Every behaviour of the broker is, seen through Phase, a behaviour of the pool.
THEOREM BrokerImplementsPool == Spec => PoolSpec
<1>1. Init => Pool!Init
  BY BrokerAssumption DEF Init, Pool!Init, Phase, Created
<1> QED
  BY <1>1, PoolStep, Invariance, PTL DEF Spec, PoolSpec, Pool!Spec

=============================================================================
