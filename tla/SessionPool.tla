----------------------------- MODULE SessionPool -----------------------------
(***************************************************************************)
(* What the broker promises of its warm sessions, without threads, locks   *)
(* or server processes (pkg/broker, package comment: connect, lazily       *)
(* activate the right server, keep it warm, idle-reap, shutdown-all).      *)
(*                                                                         *)
(* Every session is born as the only owner of its key, starts once, and    *)
(* leaves the cache before its server is stopped, never to come back.      *)
(***************************************************************************)
CONSTANTS Sessions, Keys, None

Phases == {"unborn", "starting", "failed", "warm", "stopped"}

VARIABLES
  owner,   \* the session cached for each key
  phase,   \* the life of each session
  shut     \* ShutdownAll has begun

vars == <<owner, phase, shut>>

Cached(s) == \E k \in Keys : owner[k] = s

Init ==
  /\ owner = [k \in Keys |-> None]
  /\ phase = [s \in Sessions |-> "unborn"]
  /\ shut = FALSE

Become(s, from, to) == phase[s] = from /\ phase' = [phase EXCEPT ![s] = to]

Activate(s, k) ==
  /\ ~shut /\ owner[k] = None
  /\ Become(s, "unborn", "starting")
  /\ owner' = [owner EXCEPT ![k] = s]
  /\ UNCHANGED shut

Warm(s) == Become(s, "starting", "warm") /\ UNCHANGED <<owner, shut>>

\* A cold start that fails leaves nothing behind for its key.
Fail(s) ==
  /\ Become(s, "starting", "failed")
  /\ owner' = [k \in Keys |-> IF owner[k] = s THEN None ELSE owner[k]]
  /\ UNCHANGED shut

\* Only settled sessions are reaped, and they leave the cache first.
Evict(S) ==
  /\ \A s \in S : phase[s] = "warm"
  /\ owner' = [k \in Keys |-> IF owner[k] \in S THEN None ELSE owner[k]]
  /\ UNCHANGED <<phase, shut>>

Stop(s) == ~Cached(s) /\ Become(s, "warm", "stopped") /\ UNCHANGED <<owner, shut>>

ShutAll ==
  /\ ~shut /\ shut' = TRUE
  /\ owner' = [k \in Keys |-> None]
  /\ UNCHANGED phase

Next ==
  \/ \E s \in Sessions, k \in Keys : Activate(s, k)
  \/ \E s \in Sessions : Warm(s) \/ Fail(s) \/ Stop(s)
  \/ \E S \in SUBSET Sessions : Evict(S)
  \/ ShutAll

Spec == Init /\ [][Next]_vars

=============================================================================
