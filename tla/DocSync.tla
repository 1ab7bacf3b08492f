------------------------------ MODULE DocSync -------------------------------
(***************************************************************************)
(* One warm session's documents: Query and syncDoc of pkg/broker at one    *)
(* end, the document store of pkg/lspserver at the other, and between them *)
(* what module Conn establishes of a connection: frames arrive in the      *)
(* order they were written, notifications are handled in that order on the *)
(* read loop, and a request is handed to a goroutine of its own.           *)
(*                                                                         *)
(* Every query brings a text of its own, so a text is named by its query.  *)
(***************************************************************************)
EXTENDS Naturals, Sequences, FiniteSets

CONSTANTS
  Queries,  \* Query calls on this session
  Docs,     \* document URIs
  Of,       \* the document of each query
  Shared,   \* documents whose queries may overlap
  Nothing,  \* the text of a document that is not open
  None      \* no answer

ASSUME DocSyncAssumption ==
  /\ Of \in [Queries -> Docs]
  /\ Shared \subseteq Docs
  /\ None \notin Queries /\ Nothing \notin Queries

VARIABLES
  opened,  \* s.opened: the last version given out for each document, 0 if none
  qpc,     \* where each Query is
  ver,     \* the version syncDoc gave its text
  wire,    \* frames on their way to the server
  down,    \* the server is gone
  store,   \* Store.docs: version and text of each open document
  hpc,     \* the handler of each forwarded request
  used,    \* the text its handler found
  answer   \* the text the query's answer is about

brokerVars == <<opened, qpc, ver, answer>>
serverVars == <<store, hpc, used>>
vars == <<brokerVars, wire, down, serverVars>>

Syncs  == {"didOpen", "didChange"}
Frames ==
  [kind : Syncs, query : Queries, version : Nat \ {0}]
    \cup [kind : {"request"}, query : Queries]

Absent == [version |-> 0, text |-> Nothing]

Init ==
  /\ opened = [d \in Docs |-> 0]
  /\ qpc = [q \in Queries |-> "idle"]
  /\ ver = [q \in Queries |-> 0]
  /\ wire = <<>>
  /\ down = FALSE
  /\ store = [d \in Docs |-> Absent]
  /\ hpc = [q \in Queries |-> "none"]
  /\ used = [q \in Queries |-> None]
  /\ answer = [q \in Queries |-> None]

-----------------------------------------------------------------------------
(* The broker's side.                                                      *)

Goto(q, to)   == qpc' = [qpc EXCEPT ![q] = to]
UnderWay(q)   == qpc[q] \notin {"idle", "done"}

\* Query, on the session ensureSession gave it.
Begin(q) ==
  /\ qpc[q] = "idle"
  /\ Of[q] \notin Shared => \A p \in Queries : Of[p] = Of[q] => ~UnderWay(p)
  /\ Goto(q, "content")
  /\ UNCHANGED <<opened, ver, answer, wire, down, serverVars>>

\* Variant: the file is read after the version was taken.
ContentFailsLate(q) ==
  /\ qpc[q] = "sync"
  /\ Goto(q, "done")
  /\ UNCHANGED <<opened, ver, answer, wire, down, serverVars>>

\* contentFor cannot read the file.
ContentFails(q) ==
  /\ qpc[q] = "content"
  /\ Goto(q, "done")
  /\ UNCHANGED <<opened, ver, answer, wire, down, serverVars>>

\* Variant: an open document is not sent again.
AssignOnce(q) ==
  /\ qpc[q] = "content"
  /\ IF opened[Of[q]] = 0
       THEN /\ ver' = [ver EXCEPT ![q] = 1] /\ opened' = [opened EXCEPT ![Of[q]] = 1]
            /\ Goto(q, "sync")
       ELSE Goto(q, "call") /\ UNCHANGED <<ver, opened>>
  /\ UNCHANGED <<answer, wire, down, serverVars>>

\* Variant: a change does not record the version it used.
AssignUnrecorded(q) ==
  /\ qpc[q] = "content"
  /\ ver' = [ver EXCEPT ![q] = opened[Of[q]] + 1]
  /\ opened' = IF opened[Of[q]] = 0 THEN [opened EXCEPT ![Of[q]] = 1] ELSE opened
  /\ Goto(q, "sync")
  /\ UNCHANGED <<answer, wire, down, serverVars>>

\* Variant: the version is read before it is bumped.
AssignStale(q) ==
  /\ qpc[q] = "content"
  /\ ver' = [ver EXCEPT ![q] = opened[Of[q]]]
  /\ opened' = [opened EXCEPT ![Of[q]] = @ + 1]
  /\ Goto(q, "sync")
  /\ UNCHANGED <<answer, wire, down, serverVars>>

\* syncDoc under s.mu: the next version, whether the document is new or not.
Assign(q) ==
  /\ qpc[q] = "content"
  /\ ver' = [ver EXCEPT ![q] = opened[Of[q]] + 1]
  /\ opened' = [opened EXCEPT ![Of[q]] = @ + 1]
  /\ Goto(q, "sync")
  /\ UNCHANGED <<answer, wire, down, serverVars>>

\* syncDoc after it released s.mu: the first version opens the document.
SendSync(q) ==
  /\ qpc[q] = "sync" /\ ~down
  /\ wire' = Append(wire, [kind |-> IF ver[q] = 1 THEN "didOpen" ELSE "didChange",
                           query |-> q, version |-> ver[q]])
  /\ Goto(q, "call")
  /\ UNCHANGED <<opened, ver, answer, down, serverVars>>

SendRequest(q) ==
  /\ qpc[q] = "call" /\ ~down
  /\ wire' = Append(wire, [kind |-> "request", query |-> q])
  /\ Goto(q, "wait")
  /\ UNCHANGED <<opened, ver, answer, down, serverVars>>

Return(q) ==
  /\ qpc[q] = "wait" /\ hpc[q] = "done" /\ ~down
  /\ answer' = [answer EXCEPT ![q] = used[q]]
  /\ Goto(q, "done")
  /\ UNCHANGED <<opened, ver, wire, down, serverVars>>

\* The request's context ends: the handler goes on without it.
Withdraw(q) ==
  /\ qpc[q] = "wait"
  /\ Goto(q, "done")
  /\ UNCHANGED <<opened, ver, answer, wire, down, serverVars>>

\* A write or the call fails on a server that is gone; the version stays used.
Fail(q) ==
  /\ down /\ qpc[q] \in {"sync", "call", "wait"}
  /\ Goto(q, "done")
  /\ UNCHANGED <<opened, ver, answer, wire, down, serverVars>>

-----------------------------------------------------------------------------
(* The server's side.                                                      *)

Take(kind) ==
  /\ ~down /\ wire # <<>> /\ Head(wire).kind = kind
  /\ wire' = Tail(wire)

\* Store.Open, by way of didOpen: any previous snapshot is replaced.
DidOpen ==
  /\ Take("didOpen")
  /\ LET f == Head(wire)
     IN  store' = [store EXCEPT ![Of[f.query]] = [version |-> f.version, text |-> f.query]]
  /\ UNCHANGED <<brokerVars, down, hpc, used>>

\* Variant: the snapshot gets the new version and keeps the old text.
DidChangeVersionOnly ==
  /\ Take("didChange")
  /\ LET f == Head(wire)
         d == Of[f.query]
     IN  store' = IF store[d] = Absent THEN store ELSE [store EXCEPT ![d].version = f.version]
  /\ UNCHANGED <<brokerVars, down, hpc, used>>

\* Store.Apply, by way of didChange, of a change without a range: it replaces the
\* snapshot of an open document, and is dropped for any other.  Versions are not
\* compared.
DidChange ==
  /\ Take("didChange")
  /\ LET f == Head(wire)
         d == Of[f.query]
     IN  store' = IF store[d] = Absent THEN store
                  ELSE [store EXCEPT ![d] = [version |-> f.version, text |-> f.query]]
  /\ UNCHANGED <<brokerVars, down, hpc, used>>

ReadRequest ==
  /\ Take("request")
  /\ hpc' = [hpc EXCEPT ![Head(wire).query] = "run"]
  /\ UNCHANGED <<brokerVars, down, store, used>>

\* The handler takes the current snapshot, whenever it comes to run, and answers
\* from it.
HandlerReads(q) ==
  /\ hpc[q] = "run" /\ ~down
  /\ used' = [used EXCEPT ![q] = store[Of[q]].text]
  /\ hpc' = [hpc EXCEPT ![q] = "done"]
  /\ UNCHANGED <<brokerVars, wire, down, store>>

Crash ==
  /\ ~down /\ down' = TRUE
  /\ UNCHANGED <<brokerVars, wire, serverVars>>

-----------------------------------------------------------------------------
QueryStep(q) ==
  \/ Begin(q) \/ ContentFails(q) \/ Assign(q) \/ SendSync(q) \/ SendRequest(q)
  \/ Return(q) \/ Withdraw(q) \/ Fail(q)

ServerStep == DidOpen \/ DidChange \/ ReadRequest \/ \E q \in Queries : HandlerReads(q)

Next == (\E q \in Queries : QueryStep(q)) \/ ServerStep \/ Crash

Spec == Init /\ [][Next]_vars

-----------------------------------------------------------------------------
(* What must hold.                                                         *)

TypeOK ==
  /\ opened \in [Docs -> Nat]
  /\ qpc \in [Queries -> {"idle", "content", "sync", "call", "wait", "done"}]
  /\ ver \in [Queries -> Nat]
  /\ wire \in Seq(Frames)
  /\ down \in BOOLEAN
  /\ store \in [Docs -> [version : Nat, text : Queries \cup {Nothing}]]
  /\ hpc \in [Queries -> {"none", "run", "done"}]
  /\ used \in [Queries -> Queries \cup {Nothing, None}]
  /\ answer \in [Queries -> Queries \cup {Nothing, None}]

\* However queries overlap, no version of a document is given out twice, so one
\* didOpen is sent for it, and no version is skipped (syncDoc: opens the document
\* on first sight, bumping the version each time).
VersionsGivenOnce ==
  /\ \A d \in Docs : {ver[q] : q \in {p \in Queries : Of[p] = d}} \ {0} = 1 .. opened[d]
  /\ \A p, q \in Queries : p # q /\ Of[p] = Of[q] /\ ver[p] = ver[q] => ver[p] = 0

\* Whatever order the notifications arrive in, what the server takes for version
\* v of a document is the text the broker gave version v, of that document.
VersionNamesText ==
  \A d \in Docs :
    store[d] # Absent =>
      /\ store[d].text \in Queries
      /\ Of[store[d].text] = d
      /\ ver[store[d].text] = store[d].version

\* The document's content is synced before the method is forwarded, so a server
\* answers against it (the comment of Query): for a document whose queries take
\* turns, even those given up by their callers.
TurnsAnswerOwnText ==
  \A q \in Queries : Of[q] \notin Shared => answer[q] \in {None, q}

\* When the queries of a document take turns, the server has caught up with the
\* broker as soon as nothing is on its way.
TurnsLeaveServerCurrent ==
  ~down /\ wire = <<>> =>
    \A d \in Docs \ Shared :
      (\A q \in Queries : Of[q] = d => ~UnderWay(q)) => store[d].version = opened[d]

\* The comment of Query without the proviso: the answer to a query that supplied
\* its text is about that text.  Overlapping queries on one document break it.
AnswersOwnText == \A q \in Queries : answer[q] \in {None, q}

=============================================================================
