------------------------------- MODULE Doctor -------------------------------
(***************************************************************************)
(* cmd/lspdoctor: its checks of the host, the end-to-end probe, and its    *)
(* exit code.                                                              *)
(*                                                                         *)
(* A host is [binary, systemctl, unit, socket, pyright, fixture, polls,    *)
(* references]: which programs are on the PATH, the state of the systemd   *)
(* unit, how a socket path answers ("none": nobody listens, "silent": the  *)
(* dial works and no status comes back, "answers"), whether the fixture    *)
(* can be written, the answers to the documentSymbol polls that fit into   *)
(* the timeout, and those to references by position.  An environment is    *)
(* its XDG_RUNTIME_DIR; Unset is not the same as empty.                    *)
(***************************************************************************)
EXTENDS ClientReads

Unset == "unset"
UserRun == "/run/user/uid"

\* broker.DefaultSocketPath.
DefaultSocketPath(xdg) == IF xdg \in {Unset, ""} THEN "tmp" ELSE xdg

\* Variant: the value stays.
setForDurationForever(orig, value) == [during |-> value, after |-> value]

\* setForDuration: the value for the duration, and what the environment is afterwards.
setForDuration(orig, value) == [during |-> value, after |-> IF orig # Unset THEN orig ELSE Unset]

\* The path that the consumers of the broker dial, whatever the doctor's own environment is.
consumerSocketPath(xdg) == DefaultSocketPath(setForDuration(xdg, UserRun).during)

-----------------------------------------------------------------------------
(* The checks, each [check, status].                                       *)

Result(check, status) == [check |-> check, status |-> status]

checkBinary(host) == Result("binary", IF host.binary THEN "PASS" ELSE "FAIL")

checkService(host) ==
  Result("service", CASE ~host.systemctl -> "SKIP"
                      [] host.systemctl /\ host.unit = "active" -> "PASS"
                      [] OTHER -> "WARN")

dialStatus(host, path) == host.socket[path] = "answers"

\* Whether the consumer's path answers is judged; whether the other one does is only told.
checkReachability(host, path) == Result("consumer", IF dialStatus(host, path) THEN "PASS" ELSE "FAIL")
checkReachabilityInfo == Result("default", "INFO")

checkDivergence(consumer, default, consumerReachable, defaultReachable) ==
  Result("divergence",
         CASE consumer = default -> "PASS"
           [] consumer # default /\ defaultReachable /\ ~consumerReachable -> "FAIL"
           [] consumer # default /\ defaultReachable /\ consumerReachable -> "WARN"
           [] OTHER -> "PASS")

-----------------------------------------------------------------------------
(* The probe.                                                              *)

NoRange == "no range"

\* The same reading of the two shapes as Client.DocumentSymbol, on the top level only.
findSelectionRange(raw, want) ==
  LET shape == raw.elems[1].shape
      named == {i \in DOMAIN raw.elems : raw.elems[i].name = want}
  IN CASE raw.k # "array" \/ raw.elems = <<>> -> NoRange
       [] raw.k = "array" /\ raw.elems # <<>> ->
            IF Decoded(raw.elems).err \/ named = {} THEN NoRange ELSE As(shape, raw.elems[Min(named)]).range

\* Polls until a query fails or greet is found; the timeout ends the polls as well.
pollSelectionRange(polls) ==
  LET ends == {i \in DOMAIN polls : polls[i].k = "error" \/ findSelectionRange(polls[i], "greet") # NoRange}
  IN IF ends = {} \/ polls[Min(ends)].k = "error" THEN NoRange ELSE findSelectionRange(polls[Min(ends)], "greet")

probeEndToEnd(host, path) ==
  LET at   == pollSelectionRange(host.polls)
      refs == References(host.references[at])
  IN Result("probe", CASE ~host.pyright -> "SKIP"
                       [] host.pyright /\ ~host.fixture -> "WARN"
                       [] host.pyright /\ host.fixture /\ host.socket[path] = "none" -> "SKIP"
                       [] host.pyright /\ host.fixture /\ host.socket[path] # "none" ->
                            IF at = NoRange \/ refs.err \/ refs.of = <<>> THEN "FAIL" ELSE "PASS")

-----------------------------------------------------------------------------
(* The report and the exit code.                                           *)

collectResults(host, xdg, probe) ==
  LET consumer == consumerSocketPath(xdg)
      default  == DefaultSocketPath(setForDuration(xdg, UserRun).after)
      differ   == default # consumer
  IN <<checkBinary(host), checkService(host), checkReachability(host, consumer)>>
     \o (IF differ THEN <<checkReachabilityInfo>> ELSE <<>>)
     \o <<checkDivergence(consumer, default, dialStatus(host, consumer),
                          IF differ THEN dialStatus(host, default) ELSE dialStatus(host, consumer))>>
     \o (IF probe THEN <<probeEndToEnd(host, consumer)>> ELSE <<>>)

FailedChecks(results) == {r.check : r \in {s \in ToSet(results) : s.status = "FAIL"}}

run(results, enforce) == ~(enforce /\ FailedChecks(results) # {})

-----------------------------------------------------------------------------
(* What is checked.                                                        *)

\* The doctor finds a symbol where the client library finds it, or neither does.
ReadsLikeClient(raw) ==
  LET r     == DocumentSymbol(raw)
      all   == r.flat \o r.tree
      named == {i \in DOMAIN all : all[i].name = "greet"}
  IN raw.k # "error" => findSelectionRange(raw, "greet") = IF r.err \/ named = {} THEN NoRange ELSE all[Min(named)].range

\* An enforced success means that the consumers have a broker: the binary is there, their
\* own path answers, and a probe that could run got real references.  A broker that answers
\* only where nobody dials is named as such; no other check fails because of it.
SuccessIsReal(host, xdg, probe) ==
  LET results == collectResults(host, xdg, probe)
      ok      == host.binary /\ host.socket[UserRun] = "answers"
      lost    == host.socket[UserRun] # "answers" /\ host.socket[DefaultSocketPath(xdg)] = "answers"
  IN /\ run(results, TRUE) => ok
     /\ "divergence" \in FailedChecks(results) <=> lost
     /\ ok /\ ~run(results, TRUE) => FailedChecks(results) = {"probe"}
     /\ run(results, TRUE) /\ probe /\ host.pyright /\ host.fixture =>
          \E i \in DOMAIN host.polls, r \in DOMAIN host.references :
            /\ host.polls[i].k = "array" /\ \E s \in ToSet(host.polls[i].elems) : s.name = "greet"
            /\ References(host.references[r]).of # <<>>

\* Where the consumers dial, and what the doctor says of it, depends on nothing in the
\* environment it is called from, which it leaves as it was.
EnvironmentBlind(host, xdg, other) ==
  LET about(x) == {r \in ToSet(collectResults(host, x, TRUE)) : r.check \notin {"default", "divergence"}}
  IN about(xdg) = about(other) /\ setForDuration(xdg, UserRun).after = xdg
=============================================================================
