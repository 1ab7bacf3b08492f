# lspbridge: a verification project

TLA+ models of lspbridge, TLC configurations that check them on small
instances, and TLAPS proofs of theorems about them for every value of their
constants. Paths are relative to the repository (`src/`).

## 1. The system

`lspbroker` is a daemon. Clients connect to it over a unix socket and send
`broker/query`; for each *(workspace root, language)* the daemon starts a
language server, keeps it warm, synchronises the document the query is about
and forwards the request. The repository also holds two language servers of its
own (`gts-lsp`, on tree-sitter, and `org-lsp`) and tools around them.

```
 lspbridge clients --socket--> Broker daemon --+--> Broker session cache
                                               |        |  syncDoc, Call
                                               |     JSON-RPC connection (pkg/jsonrpc.Conn)
                                               |        |  stdin/stdout pipes
                                               +-->  language server: LSP session, document store
```

### Inventory

| component | code | state | operations | modelled in |
|---|---|---|---|---|
| Broker session cache | `pkg/broker/broker.go`, `pkg/server/server.go` | `sessions`, `closed`, the lifetime context; per session `ready`, `initErr`, `srv`, `inflight`, `lastUsed`, `opened` | `Query`, `ensureSession`, `startSession`, `reapIdle`, `ShutdownAll`, `Server.Launch/Initialize/Shutdown` | `Broker`, `SessionPool` |
| JSON-RPC connection | `pkg/jsonrpc/conn.go` | `pending`, `inflight`, `closed`, `closeErr`, the write lock | `Call`, `Notify`, `Close`, `readLoop`, `deliver`, `handleInbound`, `serveRequest`, `cancelInbound`, `fail` | `Conn`, `Rpc` |
| Document synchronisation | `broker.go` `syncDoc`, `pkg/lspserver/docstore.go` | `s.opened` at one end, `Store.docs` at the other | `syncDoc`, `Store.Open`, `Store.Apply`, `Store.Get` | `DocSync` |
| LSP session lifecycle | `pkg/lspserver/server.go` | `st`, `exitCode`, `exitCh`, the documents | `Serve`, `handle`, `initialize`, `shutdown`, `exit`, `didOpen` | `LspSession` |
| Broker daemon and socket | `pkg/broker/serve.go`, `socket.go`, `client.go`, `cmd/lspbroker` | the socket file, open connections, the serve context | `Listen` with the stale-socket probe, `Serve`, `Handler.Handle`, signals, the end of `main` | `Daemon` |
| Diagnostics collector | `pkg/lsp/diagnostics.go` | latest batch per document | `Handle`, `Diagnostics`, `Wait` | `ClientReads` |
| gts-lsp server | `gtslsp/gts` | documents, parse trees, debounce timers, validator results, the engines of each grammar | hooks, validator runs, publishing; the requests | `GtsServer` (diagnostics), `GtsFeatures` (requests, engines) |
| External validators | `gtslsp/validate` | the schema cache | choose, run a tool, place its findings, sync schemas | `Validators`; when they run in `GtsServer` |
| org-lsp server | `org-lsp/pkg/orglsp`, `cmd/org-lsp` | buffers, mtime-keyed index | outline, folds, lint, index refresh; lifecycle | `OrgText` (all but lifecycle and buffers) |
| gts fallback | `pkg/gtsfallback` | detection cache | `Detect`, `Supports`, `SpecFor` | `Resolution` |
| Project context | `pkg/projectcontext` | none | `FindUp`, the resolvers, `Chain` | `Resolution` |
| Server presets | `pkg/server/*.go` | none | what to run for a language | `Resolution` |
| Workspace edits | `pkg/wsedit`, `pkg/lsp/workspaceedit.go` | a plan of file edits | fold, convert, check for overlap, sort, apply | `TextEdits` |
| Positions, ranged edits | `pkg/lspserver/position.go`, `docstore.go` | none | offset/position conversion, ranged `Apply` | `TextEdits` |
| LSP reads | `pkg/lsp/reads.go` | none | decode a result of several shapes | `ClientReads` |
| lspdoctor | `cmd/lspdoctor` | its environment | checks, end-to-end probe, verdict | `Doctor` |
| lspgen | `cmd/lspgen` | none | metaModel to Go types | `Lspgen` |
| gotmpl grammar, fake server, packaging | see `PROJECT.json` | none | generate tables, test double, installers | not modelled |

### Where the components meet

* Queries, the reaper (`reapLoop`) and `ShutdownAll` are goroutines over
  `b.mu`. A query leaves the lock between its lookup, its cold start, its guard
  (`inflight`) and its release, so the others run in between.
* A session in the cache owns a server process and a `Conn`. Closing the
  connection is how a session ends: the process sees the end of its input.
* Each `Conn` has one read loop. Notifications and responses are handled on the
  loop, a request on a goroutine of its own. That asymmetry orders everything
  above it: what a request sees of the document notifications sent before it.
* `syncDoc` gives out versions under `s.mu` and writes the notification after
  releasing it; the store applies whatever arrives, in order of arrival.
* In the server, `initialize`, `shutdown` and every query run on goroutines,
  `exit` and the document notifications on the read loop, and `Serve` waits for
  the exit and for the end of the connection at once.

### What is hard

Interleaving between critical sections (a reaper between lookup and guard, a
shutdown between a cold start and its publication); single flight with failure;
teardown exactly once; a read loop that must never block; cancellation racing
the answer; document notifications that overtake each other; events that become
ready together. `PROJECT.json` lists each hazard with its line and the
properties about it. For each component the properties that make it correct:

* *cache*: one warm server per key, one teardown per server, no use of a failed
  or closed session out of the cache, an exact in-flight count, nothing left
  after shutdown, nobody waits for ever;
* *connection*: every call returns once, the loop never blocks, wire order for
  notifications, cancellations reach exactly the handler they name;
* *documents*: a version is given once and names one text, a query is answered
  about its own text, the server catches up with the broker;
* *gts-lsp*: what was saved is validated, what the client shows is not stale, a
  missing validator is announced once;
* *daemon*: the daemon that serves is the one the path leads to, a stop ends it,
  whoever is being served gets an answer or the end of its connection;
* *algorithms*: positions and edits mean the same to both ends, a file has one
  session, what is said of a text is exact, a finding is put where its cause is, a
  validator that did not validate a document does not make it look valid (helm's
  second opinion by kubeconform excepted), answers arrive complete;
* *LSP session*: no handler before initialize, no document of an orderly client
  dropped, the exit code the protocol prescribes.

## 2. Modules

| module | extends | content |
|---|---|---|
| `SessionPool` | | the abstract promise of the cache: a session is born as the only owner of its key, starts once, leaves the cache before its server stops, never comes back |
| `Broker` | | the detailed cache; `Pool == INSTANCE SessionPool WITH ...` is the refinement mapping, read off the creator's progress and the published fields (`Phase`) |
| `BrokerProofs` | `Broker`, `TLAPS` | safety and refinement theorems |
| `Rpc` | | the abstract promise of a connection: a call is answered at most once, by a handler that read it; a handler is canceled only after its caller withdrew |
| `Conn` | | both ends of a connection over bounded pipes; `Users == INSTANCE Rpc WITH ...` is the refinement mapping (`CallPhase`, `ServicePhase`) |
| `ConnProofs` | `Conn`, `TLAPS` | safety and refinement theorems |
| `DocSync` | | broker end and server end of document synchronisation, over an ordered wire |
| `DocSyncProofs` | `DocSync`, `TLAPS` | safety theorems |
| `LspSession` | | one server session from `initialize` to the exit code |
| `LspSessionProofs` | `LspSession`, `TLAPS` | safety theorems |
| `GtsServer` | | the diagnostics of one document in gts-lsp: hooks, timers, validator runs, publications |
| `GtsServerProofs` | `GtsServer`, `TLAPS` | safety theorems |
| `Daemon` | | daemons on one socket path, their clients, stops and crashes |
| `DaemonProofs` | `Daemon`, `TLAPS` | safety theorems |
| `TextEdits` | | positions in UTF-16, ranged and full changes, plans of edits |
| `TextProofs` | `TextEdits`, `TLAPS` | facts about numbers, folds and sequences; theorems about positions and plans |
| `Resolution` | | which language, project root and server a file gets; the detection cache |
| `OrgText` | | the scan of an Org document, its alignment with the parser's lists, outline, folds, lint, the workspace index |
| `GtsFeatures` | `TextEdits` | what gts-lsp answers from a tree; the engines of a grammar |
| `Validators` | | the external validators of gts-lsp and their schema cache |
| `ClientReads` | | results of several shapes; the diagnostics collector |
| `Doctor` | `ClientReads` | the checks of lspdoctor over a host |
| `Lspgen` | | from a metaModel and an allowlist to types |
| `MCBroker`, `MCConn`, `MCDocSync`, `MCLspSession`, `MCGtsServer`, `MCDaemon` | the above | instances for TLC |
| `Library` | `TextEdits`, `Resolution`, `Validators`, `Doctor` | inputs for their algorithms, as constants, built for one subject at a time, and what is meant to hold of the results |
| `LibraryProofs` | `TextProofs`, `Library`, `OrgText`; an instance of `GtsFeatures` | theorems about their operators and about `Library`; the Org index and the engines of a grammar as state machines |
| `MCLibrary` | `Library`; instances of `OrgText`, `GtsFeatures`, `Lspgen` | small sets for the constants, inputs for the other three, and what is checked of these |

`PROJECT.json` maps every definition to the source lines it stands for. Names
ending in a deviation (`GuardUncounted`, `AssignStale`, `DeliverUnbuffered`, ...) are
*variants*: plausible mistakes in the action after them, used only to show that a
property notices them. No variant is reachable from a `Next`.

### Broker

A session object is made by exactly one query (the one whose lookup misses), so
sessions are named by their creators. One action is one critical section or one
blocking call: `LookupClosed/LookupHit/LookupMiss` (`ensureSession` under
`b.mu`), `Await` (`<-s.ready`), `LaunchFails/Launch`, `Initialized`/
`InitializeFails` (`startSession`), `DropPlaceholder` and `PublishError` (two
sections: the placeholder goes first), `PublishReady`, `Guard`, `Sync`, `Fail`,
`Answer`, `Refuse`, `Leave`. The reaper is `ReapBegin`, one `ReapLook` per session
in the order of a Go map (any), `ReapDelete`, and the stop of each session;
`ShutdownAll` is `CloseAgain` or `CloseFirst`, the stops, and `ShutdownDone`,
which cancels the lifetime context. `TakeNext`, `Settle`, `CloseConn` and
`WaitExit` are `shutdownSession` with `Server.Shutdown`. The reaper holds `b.mu` for a
scan of several steps, so `MuFree` guards the others' critical sections. The
process may exit when its input ends, be killed when the context is cancelled,
or crash at any time.

### Conn

Two `Conn`s, `client` and `server`. The pipe of each direction holds `Capacity`
frames; a writer waits while it is full (the write lock is then held, so the
other writers of that end wait too). The loop reads responses (`ReadResponse`,
`Deliver`), requests (`ReadRequest`, which registers the cancellation before the
next frame), cancellations and notifications; a notification handler may itself
write (`Echoed`), as `didChange` does when it publishes diagnostics. `Call`'s
select is `ReturnAnswer`, `ReturnWithdrawn` and `ReturnClosed`, in any order when
several are ready.

`Rpc` knows neither frames nor pipes: of a call it has how far its caller and its
handler are. `CallPhase` and `ServicePhase` read that off the call's program counter
and off where its frames are.

### DocSync

Every query brings its own text, so a text is named by its query. `Assign` is
what `syncDoc` does under `s.mu`, `SendSync` the write after it, `SendRequest`
the forwarded request. At the server `DidOpen` and `DidChange` run on the read
loop; `ReadRequest` starts a goroutine that takes the snapshot whenever it runs
(`HandlerReads`). The wire delivers in order of writing: that is what `Conn`'s
`WireOrder` says and `ConnProofs` proves, and the module relies on it instead of composing all of
`Conn`. Documents in `Shared` are those whose queries overlap; for the others a
query begins only when the previous one on the document has returned (also
when it returned because its caller gave up, while its request still runs).

### LspSession

A client that is orderly (waits for the responses to `initialize` and
`shutdown`) or careless sends any of its messages once. `handle` runs on one
goroutine per request: `Enter` reads the state under the lock, then the handler
acts, then the response is written; so two `initialize` requests can both find
the session new. `NoticeExit` and `NoticeEnd` are the two cases of `Serve`'s
select.

### GtsServer

A docState is made by one `didOpen`; a text is named by its version, and a
validator's results by the text it was given. The hooks run on the read loop
(`DidOpen`, `DidChange`, `DidSave`, `DidClose`, `Clear`, `Schedule`), the timer's
goroutine is `Fire`, `Check`, `Snapshot`, then `Missing` or `Validated` for each
validator in any order, and `Finish`. Both publish in three steps (`ReadSyntax`
under the language's lock, `ReadExt` under the server's, `Write` under neither).
The history variables say what the client ought to see. `due` is the text that each
validator was last given, as the open document stood (0: it was found missing since);
`tangled` has the validators that still owed the answer about an older text when they were given
this one; `overlap` says whether another publication joined the last one that
began alone. A client may be left with something else only for one of the last two reasons:
with an older version or the diagnostics of a closed document if publications
overlapped, with the answer about an older text if a validator is tangled, since the slower of
two runs writes last (`server.go:319`). The model has both, and the next
publication, or the next run that finds the validator free, sets it right.

### Daemon

Each daemon is one process that starts once. `Stat`, `Probe`, `RemoveStale`,
`Bind`, `OpenListener` are the system calls of `Listen`: between two of them
other daemons run, and `os.Remove` takes away whatever is at the path by then.
`net.Listen` is two steps because the file exists before the socket listens.
A stop is a `Signal`, or a `broker/shutdown` whose goroutine calls `CallStop`
while its answer is still to be written (`Reply`). `CloseListener` is the watcher of
`Serve`; closing a Go unix listener unlinks the path again. `AcceptFails`,
`ServeReturns`, `SessionsDown`, `Cleanup` are the end of `Serve` and of `main`. `Crash`
leaves the socket file behind. Of the session cache only what `Broker` shows
is used: queries return and `ShutdownAll` returns. The history variable
`lone` says that no daemon was started while another started or ended.

### The algorithms

`Library` builds an input for one subject at a time, step by step (a text by a rune, a plan by
an edit, a report of a tool by a resource, a sync by a request, the detection cache by a probe), and its invariants compare what
the operators give for it with what they are meant to give. What the inputs are is
said by its `ASSUME`s (a text and what an edit puts into it is UTF-8, a document's nodes lead to nodes, a tree has a set of files in each
directory), so that the theorems of section 5 are about all of them; `MCLibrary` gives the
constants small sets, and adds the inputs of the three modules that `Library` leaves
out (a tree by a node, an Org document by a line, a metaModel by a property). The operators carry the
names of the functions they stand for.

* `TextEdits`: a text is a sequence of bytes, a rune of *n* bytes its first
  byte and *n*-1 continuations, so that offsets, runes and UTF-16 units differ.
  `EditsMeanTheSame` compares `OffsetAt`/`PositionAt` of the server with
  `ByteOffset` of the write path, a plan of edits with the edits made at once, and
  the written text with what the server has after the same edits came as changes. The last holds
  where carriage returns are only in line ends (`WholeLineEnds`). With one that stands alone it does
  not: in the text `\r`, a plan that inserts `\n` and `x` behind it writes `\rx\n`, but once the
  client has reported the first, `\r\n` is a line end for the server, and the position of
  the second is in front of it (`x\r\n`). Neither package claims the case.
  `SortDescending` is what a stable sort gives: the *k*-th edit is the one with
  *k*-1 edits that go before it.
* `Resolution`: a tree is the set of marker files of each directory on the way up.
  `OneSessionPerFile` compares the chain with a direct definition of the nearest
  marker; overlapping detections of one file are two steps each (`DetectLook`,
  `DetectStore`).
* `OrgText`: a line is its kind, level and words; the parser's lists lack
  positions and what is encrypted, and the code finds them again by searching: a heading by
  its rendered title, a block by the beginning of its parameters, a link by its target on any
  line, prose too. A title may be rendered as another than it is spelt, a line may have
  two links. For Org documents `FeaturesExact` compares the found lines with those they came from in the
  documents where no line can be taken for an entry that comes before it (`TitlesTold`,
  `BlocksTold`, `LinksTold`), and requires that outline and folds nest. The other
  documents are disagreement 5 below.
  Of the index it requires that an answer is no older than the query *as far as modification times
  tell* (`NoStaleAnswer`): a write may leave any time, a former one too, and the index
  then answers with what it has of that time, as the repository's own test asserts
  (`workspace_test.go:81-120`).
* `GtsFeatures`: a tree is a sequence of nodes, parents first. For trees `FeaturesExact`
  decodes the tokens again and compares rune by rune, looks for each error in the
  reports, requires folds and selections to nest, and grammars' engines to answer
  alike whichever was used first. Loading a grammar may fail or panic: then the call that
  panics returns no error and only the later ones do (`LoadFails`, `lang.go:120-138`), so
  the first answer about its features is allowed to differ.
* `Validators`: `FindingsInPlace` requires each finding in the document it is
  about and on the deepest node its path reaches, helm's findings once each, and
  that a clean answer of yamllint, taplo, hadolint, check-jsonschema or kubeconform means a tool
  that ran and was understood. Of helm that is not so, and not required: without
  kubeconform, or with output of it that is not understood, the rendered manifests are
  not validated and nobody is told (`helm.go:182-187`), nor of a resource that it
  skips. `RenderedAtHome` says exactly when a chart that lints and renders gets a diagnostic.
  A path is a sequence of parts, and whatever ends in the template's own path is taken
  for the template (`Named`, `helm.go:192`), in lint's findings after they were cut (`Cut`).
* `ClientReads`, `Doctor`: `AnswersAndVerdicts` requires that no element of an
  answer is lost under either shape, that `Wait` returns the newest batch, that the doctor's
  verdict does not depend on its environment and success means a server answered.
* `Lspgen`: `TypesComplete` requires that generated types are complete, have the fields that the
  allowlist asks for and contain no cycle by value.

## 3. Runs

| run | checks | shows |
|---|---|---|
| `broker` | `TypeOK`, `OneWarmServer`, `CacheIsUsable`, `InflightCountsUsers`, `LateQueriesRefused`, `GuardedNeverReaped`, `TeardownsDisjoint`, `NothingOutlivesShutdown`, `PoolSpec` | two queries for one key or two, the reaper, two callers of `ShutdownAll`, a session that is reaped and started again; each step is a step of `SessionPool` |
| `broker_live` | `QueryReturns`, `ShutdownReturns` | with servers that answer or die and that exit at the end of their input, nobody waits for ever |
| `broker_stubborn` | `ShutdownReturns`, violated | finding 1 |
| `broker_guard` | `GuardedForTheCall`, violated | finding 2 |
| `conn` | `TypeOK`, `DeliverNeverBlocks`, `WireOrder`, `RpcSpec`, `CancelNotLost`, `CallReturns`, `LoopEnds` | each step is a step of `Rpc` or none; a call each way, notifications that publish back, a caller that gives up, an owner that closes, pipes of one frame; with full pipes both ways calls return and `Close` ends the loop |
| `docsync` | `TypeOK`, `VersionsGivenOnce`, `VersionNamesText`, `TurnsAnswerOwnText`, `TurnsLeaveServerCurrent` | two overlapping queries on one document, two in turn on another, failing reads, withdrawals, a server that dies |
| `docsync_shared` | `AnswersOwnText`, violated | finding 3 |
| `lsp_session` | `TypeOK`, `AskedOnlyWhenInitialized`, `OrderlyOpensKept`, `ZeroOnlyAfterShutdown` | two `initialize`, a request, a document, shutdown and exit, with overlapping goroutines |
| `lsp_exit` | `ExitCodeAsPrescribed`, violated | finding 4 |
| `gts` | `TypeOK`, `AnnouncedOnce`, `StaleOnlyByOverlap`, `SavedIsValidated` | a document opened, edited, saved, closed and opened again while validator runs overlap; the client shows what each validator said last of the text it was given last, unless publications overlapped or it was given the text while an older run waited |
| `daemon` | `TypeOK`, `ServingIsReachable`, `StopEnds` | three daemons on one path, two at a time, started, signalled, stopped by a client, killed, started again over the socket left behind |
| `library` | `EditsMeanTheSame`, `OneSessionPerFile`, `FeaturesExact`, `FindingsInPlace`, `AnswersAndVerdicts`, `TypesComplete` | the algorithms against reference definitions |

### Bounds

* `Broker`: the clock stops at `MaxTime`; everything else is bounded by the
  constant sets. Two queries on one key are a starter and a waiter or late
  caller, or a reaped session's user and its successor; on two keys they let a
  worker hold two sessions at once. Two closers race for `closed`. With `MaxTime = IdleTimeout = 1` a session
  is used, ages, is reaped and has a successor; what a longer clock or more of
  anything could add, the theorems of section 5 cover. Queries, keys and closers
  are interchangeable, so symmetry is used in the safety run, and never in a
  liveness run.
* `Conn`: `Capacity = 1` is the tightest pipe and the one where blocking
  shows; two notifications and two calls give every pair of neighbours on the wire.
  `MaxBegun = 3` lets any three of them happen in one behaviour.
* `DocSync`: two queries per document suffice to overtake, and four in all give one
  document that is shared and one that is not.
* `LspSession`: two `initialize` requests are the fewest that race.
* `Daemon`: `MaxAlive = 2` of three daemons are two that race, with the socket of a
  third, crashed one between them. The one client brings a query or the shutdown; the stop
  that meets its query is then a signal, which ends the same context.
* The index of `MCLibrary`: two queries and four contents with two times, so that a former time comes
  back while another query is between its `Stat` and its read.
* `MCLibrary`: texts of four runes of one, two and four bytes with both line ends; two edits
  (a third adds no new pair of neighbours); three directories; four Org lines (a
  block, what closes it, and what stands between or around); trees of three nodes; two
  tokens; one tool report of one resource with one error among two manifests; three
  fetches; three notifications; two properties. `MaxBody = 1` chunk stands for the
  64 MiB at which a fetched schema is cut.
* `GtsServer`: two docStates are a document that is opened anew, two versions an
  edit, two `Runs` the fewest that overlap, on one docState (a save during the first
  run) or on both. One validator suffices: the validators of a run meet only in the
  map of results and in `warned`, as those of two runs do.

In `Conn`, `DocSync`, `LspSession`, `GtsServer` and `Daemon` a finished session has no next
step, nor has a complete input of `MCLibrary`, so those runs do not report deadlock; where stopping early would be wrong a liveness
property or an invariant says so. In `Broker` time may stop, but the reaper goes on:
deadlock is checked.

### Fairness

`Broker`: a goroutine that can run does (`WF`); one that waits for `b.mu` gets
it in the end (`SF`: Go's mutex hands over to a starving waiter). A healthy
server answers or dies. That a process exits when its input ends is assumed in
`FairSpec` only; `StubbornSpec` drops it, and keeps that a kill is certain. The
clock and the reaper's start are not fair, and queries need not be made.

`Conn`: `WF_vars(Run)`. A behaviour of an instance is finite except for
stuttering (each call and note happens once, and what the environment may add
is bounded too), so progress of *some* step while one is enabled is progress of
every goroutine that can run; `Ask` (starting a call, giving up, closing) is not
fair.

`GtsServer`: `WF_vars(Run)`, for the same reason: goroutines that can run do,
timers fire, and `validatorTimeout` ends each `Validate`. Hooks and the end of the
connection are not fair.

`Daemon`: `WF` for each daemon's own steps and each connection's goroutines, and for
an `Accept` on a closed listener. Nobody need start, stop, dial, hang up or crash.

`DocSync`, `LspSession` and `MCLibrary` are checked for safety only.

## 4. Findings

Each is a counterexample of the run named, against a comment of the code.

1. **`broker_stubborn`**: `shutdownTimeout` (`broker.go:31`) does not bound
   `shutdownSession`: `Server.Shutdown` ends in an unbounded `cmd.Wait`
   (`server.go:82`), and the cancellation that would kill the process comes after
   the loop. A server that ignores `exit` holds `ShutdownAll` and the reaper.
2. **`broker_guard`**: the in-flight guard (`broker.go:180`) is taken after
   `ensureSession` released the lock. The reaper can pick the session in
   between, and the query runs on a connection the broker closes.
3. **`docsync_shared`**: with two overlapping queries on one document the
   `didChange` of one overtakes the `didOpen` of the other, or replaces its text
   before its request is served (`broker.go:163`, `broker.go:354`).
4. **`lsp_exit`**: `Serve` may notice the end of the connection before the exit
   it has handled, and return 1 after an orderly shutdown (`server.go:82`).

Two more comments do not hold, and the counterexamples are small enough to be constants: `MCLibrary`
asserts them as `ASSUME`s, which TLC evaluates in the run `library`.

5. **Org alignment**: `lineindex.go:33-36` says that the alignment "never misaligns *later*
   entries because of one bad match", and `lineindex.go:98-113` that a failed search "never desyncs later
   headings any worse than the one already-ambiguous entry". That promise is `LaterInPlace`. It is false for headings
   (`HeadingsShift`: a title that is rendered as what a later heading says takes that
   heading's line, and each later one is shifted) and for links (`LinksShift`: the second link
   on a line is looked for behind it, and prose that names its target takes the
   place of the links between).
6. **Charts with subcharts**: `helm.go:146-147` skips "another template's finding", but a template of the
   same name in a subchart passes for this one (`SubchartShows`).

### Observations

Met while modelling; the models have them, and the properties are stated around them.

* *Sessions.* One TypeScript process is meant to serve the whole JS/TS family
  (`broker.go:41`), but the key of a session includes the language. A daemon that is started
  while another ends can lose its socket to it (`socket.go:30`, `cmd/lspbroker/main.go:80`): without
  `lone`, `ServingIsReachable` is violated. The answer to `broker/shutdown` may be lost to
  the stop (`serve.go:43`). A call that the end of the stream interrupts gets the reader's
  error instead of `ErrClosed` (`conn.go:13`). Two detections of one file can both
  probe, and the later result replaces the earlier; failures are kept too.
* *Edits.* Insertions at one offset come out in the reverse of their order
  (`plan.go`); an edit that has both `changes` and `documentChanges` is made twice.
* *Org.* A heading that skips a level below a source block is nested under the block. Links or
  blocks inside an encrypted subtree, and what disagreement 5 says, make later entries take other
  lines; a file whose modification time comes back is answered with its old content; `#+begin` or heading lines inside a source block are counted by the scan.
* *gts-lsp.* A node that ends at column 0 folds the line behind it. When an outliner cannot be
  built, the first use of the tags still gets the tagger and later ones do not. A grammar whose load
  panics counts as loaded for the first who asks. The results of an older validator run can replace those of a newer one. A parser
  that returns neither tree nor error leaves a document that looks clean.
* *Validators.* Two manifests of one kind and name are confused; a chart looks valid when
  kubeconform is not installed or fails; the cache of Kubernetes schemas ignores the
  ref; a schema above 64 MiB is cut and cached; output lines of an unknown form are passed over.
* *Clients.* Markup takes its kind from the first element; the collector has no versions, and an
  empty batch between two looks hides the one before it; the doctor searches only
  top-level symbols.
* *Generator.* A property that is defined twice along `extends` becomes two fields of one name,
  unless the allowlist selects fields; a cyclic `extends` would not terminate.

## 5. Proofs

The proof modules of the state machines follow one argument: an inductive invariant
`IInv` in named parts; `Init => IInv`; one lemma per part (or per action where the parts
lean on each other) for `IInv /\ [Next]_vars`, with one step per action; `PTL` for the
temporal conclusion; corollaries.

**`BrokerProofs`**, from `BrokerAssumption` (finitely many queries, `None` not one of
them, the reaper no closer, a positive `IdleTimeout`). `TypeOK` alone is not
inductive: `inflight[s] - 1` stays in `Nat` only because `InflightCountsUsers`.
The parts are `HeldInv` (what a call holds is for its key), `StartInv` (how the
published fields follow the creator's progress), `UserInv` (who passed the
barrier holds a settled session), `CacheInv` (what the cache may hold),
`WorkInv` (the workers' progress, one closer at a time), `OwnedInv` (a worker's sessions
are out of the cache and in nobody else's hands), `TrackInv` (a running server is
starting, cached or owned: none is lost), `LateInv`, and
`InflightCountsUsers` (cardinality facts of `FiniteSetTheorems`, one call at a
time). Results: `TypeCorrect`, `OneServerPerKey`, `CacheUsable`, `InflightExact`,
`OneTeardown`, `LateRefused`, `ShutdownLeavesNothing`, the action property
`ReaperSparesUsers`, and `BrokerImplementsPool` (the refinement: `PhaseChange` and
`PoolStutter` reduce each step to one step of the pool or none).

**`DocSyncProofs`**, from `DocSyncAssumption`. The frames on the wire are followed by
position; `Put` and `Took` say how positions move when a frame is written or read.
`VersionsGivenOnce` is inductive with `QueryInv`; `VersionNamesText` needs
`FrameInv` (a frame carries the version its query was given). That queries in
turn are answered about their own text needs `TurnInv` (the query under way has
the latest version), `ArriveInv` (no text of theirs is dropped, the latest one
*settles*: it is in the store with nothing behind it, or last on the wire) and
`HandlerInv` (a request is behind every text of its document). Results:
`TypeCorrect`, `SyncGivesVersionsOnce`, `StoreHasTheVersionsText`,
`TurnsAreAnsweredInOrder`, `TurnsCatchUp`. They hold for any number of queries and
documents and for wires of any length.

**`LspSessionProofs`**, from `SessionAssumption`. `WireInv` (a message is on the
wire at most once, and a request there is not served yet), `RunInv` (the session is
out of `new` exactly when an `initialize` took effect), `OpenInv`, `ExitInv`.
Results: `TypeCorrect`, `HandlerAfterInitialize`, `OrderlyClientKeepsDocuments`,
`ZeroMeansShutdown`.

**`ConnProofs`**, from `ConnAssumption` (calls, notes and ends that are kept apart, a
positive `Capacity`). `DeliverNeverBlocks` is not inductive by itself: that a
call's channel is free when its response arrives follows only if the response
exists once. So `CallInv` follows each call: its request is in one place
(`RequestInv`), its response is in one place and only after it was served
(`AnswerInv`), its cancellation only after it was withdrawn and behind its request
(`CancelInv`). `WireInv` says that a frame is on a wire once and is addressed to
the end that reads it. For the order, `NoteInv` numbers the notifications of an end as they are
written and says that those on the wire are in that order and follow those that were read;
`BeforeInv` says the same of the notifications in front of a request. The lemmas
`Put` and `Got` say how positions move when a frame is written or read. Results:
`TypeCorrect`, `DeliveryNeverBlocks`, `NotificationsInOrder`, `CanceledOnlyWithdrawn`,
`CancelReaches`.

For the refinement of `Rpc`, `RpcInv` adds to that invariant: a connection goes down only after an
owner closed one, its own where the error says so (`OwnersInv`), a call that could
not be written is not served (`UnsentInv`), and a cancellation is sent once
(`CancelOnce`). `CallTurns`, `ServiceTurns` and
`RestStays` reduce each step to one step of a call, one of a handler, or a stutter.
Result: `ConnImplementsRpc`.

**`GtsServerProofs`**, from `GtsAssumption`. `PlaceInv` (who is about a docState has one that was opened) and
`WarnedInv` (a validator was announced once if it is in `warned`, else never) hold always.
So does `GivenInv`: a validator that is not tangled owes the answer about the text it was last given to one
run, or what is on record is its answer about it, so no older run can still write. As
long as no publication was joined by another, `AloneInv` says what the one that is
under way has read and still holds, and that what it will not show is left to a
run that has results; when nothing is under way, the client shows what is on record
(`Right`), and by `GivenInv` that is what is due. Results: `TypeCorrect`, `MissingAnnouncedOnce`, `StaleOnlyAfterOverlap`.

**`DaemonProofs`**, from `DaemonAssumption`. `ListenerInv`: a daemon that accepts has its
listener until it is stopped. As long as `lone` holds, two daemons run together only
while the younger one looks at the path (`PairInv`), a daemon that serves is the one
the path leads to, and the younger one finds there that one or nothing and can no longer
take it away (`PathInv`). Results: `TypeCorrect`,
`ServingReachable`, `OneDaemonServes`, and the action property `ServingSocketStays`.

**`TextProofs`**, and `LibraryProofs` after it, take the least counterexample where an induction would be used
(`LeastNumber`, from the well-foundedness of the naturals). The same gives each fold a *trace*:
a function that starts with the fold's start and whose next value is the operator's, for each
element (`FoldTraced`; `FlattenTraced` for sequences that are joined). What the operator keeps
in one step then holds at the end of the fold, again by the least step at which it would not.
Results, for any text in UTF-8 (`WellFormed`):

* `PositionsMeanTheSame`: `PositionsAgree`. `LineStarts` lists the offsets behind the newlines in
  their order (`Starts`), since a newline raises the number of those before it by one; UTF-16 units grow
  with each rune, so that `Advance` ends where `PositionAt` began, and `LineEnd` is the line break of the server.
* `EditsMakeOneText`: `EditsAgree`, in four parts. An order by rank is a permutation, and here a
  descending one, so that edits overlap exactly if neighbours do (`PlanIsExact`, with `NeighboursSuffice`).
  Behind each step of `PlanApply` the text is that of the edits so far made at once: the
  edits that are done lie behind the next one, so its range is still there
  (`OneByOneIsAtOnce`). The server's text after the same changes is that text: what an edit
  leaves in front of it has the line starts, runes and positions it had (`SpliceKeeps`,
  `Between`), unless it makes a line end out of a carriage return (`Clear`). Both wire forms
  fold to one list (`WireFormsFold`).

**`LibraryProofs`**. The invariants of `Library` are theorems, for any values of its constants:

* `EditsKeepTheirMeaning`: `EditsMeanTheSame`, from `EditsAssumption`.
* `FilesHaveOneSession`: `OneSessionPerFile`, from `ProjectsAssumption` and `DetectionAssumption`.
* `FindingsStayInPlace`: `FindingsInPlace`, from `FindingsAssumption` and `SchemasAssumption`.
* `AnswersAreRead`: `AnswersAndVerdicts`, from `AnswersAssumption`. Its one condition on a host is that
  it has an answer to `references` for each range that its symbols may have, as a server
  has to any position.

The inductive invariant is `LibraryInv`: for each subject, that its input is one of the
constants' or a sequence of them, as far as it is built, and its texts are whole runes; and for the detection cache `DetectionInv`, since
`DetectSteady` is not inductive: the cache has the last answer of each file, and a probe began
when there was none. TLC finds `LibraryInv` to hold on the instance of the run `library`. `LibraryStarts` and `LibraryKeeps` are its two halves. What the theorems rest on, besides `TextProofs`:

* Where a file belongs: `ProjectHasOneContext`, for any chain of resolvers; `ResolutionIsSound`, `ServerIsSound`
  (`ResolutionSound`, `SpecSound`); `DetectionIsSteady`, for any number of callers and files.
* Findings of a tool: `LanguageIsFound`, `OneLinterTakes` (`NameBeforeClient`, `OneLinter`);
  `DiagnosticsInDocument` (`PlacesInDocument`: a place outside of the document still ends up in it);
  `PrefixIsLocated` (`LocatesPrefix`: the walk along a path has a trace, and stays where it was once it
  leads nowhere); `FindingsInOwnDocument` and `RenderedIsAtHome` (`FindingsAtHome`, `RenderedAtHome`: a
  resource whose name is unique is found in its own document or chunk, and a chart that lints and
  renders gets a diagnostic exactly for what its template, or one of its name, made); `HelmMergesErrors`
  (`HelmMerged`: a line is in `seen` exactly if a finding of it was added); `CleanWasValidated`
  (`CleanMeansValid`).
* The schema cache: `SyncKeepsSchemas` (`SyncKeepsGood`): each request of a sync either leaves the cache or
  puts a whole body at the place of its URL, so by the trace nothing else is ever in it.
* Answers: `AnswersArrive`, `DoctorReads` (`SymbolsArrive`, `LocationsAgree`, `ReadsLikeClient`); `HoverIsComplete`
  (`HoverKeepsText`, of the parts that are joined); `WaitEndsWithNewest` (`WaitIsNewest`: after each notification
  the collector has the newest batch of each document).
* The doctor: `DoctorIsBlind`, `SuccessMeansServed` (`EnvironmentBlind`, `SuccessIsReal`), from what the report
  contains (`DoctorReports`), whatever its order, and from when a check fails (`CheckVerdicts`).

Of the modules that `Library` leaves out:

* `SubtreesNest`, of the Org folds and outline, and `IndexIsCurrent`, which is `NoStaleAnswer` for any number of
  queries and writes and any times they leave (`IndexInv`: a content is never older than the first one that
  had the time it is kept under, since the file is read after its time is).
* `EnginesAreSteady`, which is `EnginesSteady` for any grammar, also one whose load fails or panics, after any uses in any order, from
  `AsMade` (an engine that was asked for is there exactly if it can be built); `WordsAgree` and
  `CapturesInLegend`, which are `NamesAgree` and `InLegend` for every text and capture.

**Only model-checked**: liveness (`QueryReturns`, `ShutdownReturns`, `CallReturns`,
`LoopEnds`, `SavedIsValidated`, `StopEnds`: outside the prover's reach, as is anything about
`ENABLED`); of `MCLibrary`, of `FeaturesExact` the alignment and scan of `OrgText` and the
walks, tokens and completion of `GtsFeatures`, and `TypesComplete`, as `Lspgen` is recursive, which the
prover does not take; and the four violations.

## 6. What is not modelled

* Message contents other than what the properties tell apart: results, text, URIs,
  framing headers, frames that do not decode.
* `Status` (a read), flags, logging, the wording of messages.
* In `DocSync`: ranged changes (see `TextEdits`) and `didClose`, which the broker never sends.
* In `GtsServer`: more than one document (they share only `warned` and locks), a client
  that opens a document twice, the parse trees (see `GtsFeatures`).
* External: the tree-sitter parser, its trees and queries, the Org parser, the YAML and URL
  parsers, the external tools, the file system's own errors.
* gts-lsp's hover and outline trees; org-lsp's dispatch, buffers and `main` (its exit
  channel and the notifier that is set after the loop starts); requests that decode a
  single shape; the text of generated files.
* In `LspSession`: `didSave`, `didClose` and the document hooks.
* Memory: the modules assume the atomicity of the code's own locks and channels.
* The components marked `not_modelled` in `PROJECT.json`, with the reason there.

## 7. Plan

1. Done: the state machines of section 2, their refinements of `SessionPool` and `Rpc`, the
   algorithms, and the proofs of section 5.
2. Theorems that are left: the parts of `FeaturesExact` that are folds with a
   stack or an accumulated text (`FoldsPair`, `FoldsNest`, `TokensExact`). They have traces
   like the others; what is missing is what one step keeps.
3. If a run becomes free: org-lsp's lifecycle (`cmd/org-lsp`), which repeats that
   of `LspSession` without its states.
