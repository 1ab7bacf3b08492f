------------------------------ MODULE Library -------------------------------
(***************************************************************************)
(* The algorithms of TextEdits, Resolution, Validators, ClientReads and    *)
(* Doctor on whatever they are given: a behaviour picks a subject and      *)
(* builds an input for it, and each invariant says of one group of         *)
(* subjects that the results are right for every input on the way.  The    *)
(* inputs are CONSTANTS: small sets for TLC, any for the theorems in       *)
(* LibraryProofs.                                                          *)
(***************************************************************************)
EXTENDS TextEdits, Resolution, Validators, Doctor

CONSTANTS Runes, Positions,    \* what a text grows by, and the positions asked of it
          EditTexts, Edits,    \* texts, and the edits of them
          Projects,            \* files with the directories above them, [tree, file]
          Detected, Asked,     \* what gts-lsp may say of a file, and what a query may
          ServerQueries,       \* [lang, installed, first, second]
          Callers, Probed, Languages,  \* of the detection cache
          Documents, Sources,  \* for Applies, and [hook, name, shebang, id] for Detect
          Registered,          \* the languages with a grammar
          Places,              \* [lines, line, col]
          Manifests, Pointers, \* the documents of a text, and [segs, extra] into the first
          Resources, Chunks, Here, Template,  \* for kubeconform and helm
          LintFindings, RenderErrors,
          Urls, Cached, Gets,  \* the schema cache, and the requests of a sync
          Replies, Hovers, Notes, Uris, Hosts, Environments,
          MaxLength            \* bounds: what is built for a subject is no longer

VARIABLES subject, in

-----------------------------------------------------------------------------
(* What the inputs are.                                                    *)

\* A document: every value of a mapping or a sequence is one of its nodes.
IsYaml(yaml) ==
  /\ "root" \in DOMAIN yaml /\ "none" \notin DOMAIN yaml
  /\ \A n \in DOMAIN yaml : \A k \in DOMAIN yaml[n].items : yaml[n].items[k].to \in DOMAIN yaml

Statuses == {"statusValid", "statusInvalid", "statusError", "statusSkipped"}
Resource(Name, Err) == [kind : Name, name : Name, errors : Seq(Err), status : Statuses]
SchemaError == [segs : Seq(STRING), extra : STRING]

\* What helm says of a template: of one of its lines, or of a place without a line (-1).
Severities  == {"INFO", "WARNING", "ERROR"}
HelmFinding == [sev : Severities, file : Seq(STRING), line : {-1} \cup Nat]
HelmError   == [sev : {"ERROR"}, file : Seq(STRING), line : Nat]

\* A chart that lints and renders, whose resources a run of kubeconform reports, if there is one;
\* and one that nothing validates once helm has spoken.
ChartThatLints(result) ==
  [ran |-> result.ran, lint |-> <<>>, errors |-> <<>>, kubeconform |-> result.readable, resources |-> result.report, chunks |-> Chunks]
ChartWithFindings(found) ==
  [ran |-> TRUE, lint |-> found.lint, errors |-> found.errors, kubeconform |-> FALSE, resources |-> <<>>, chunks |-> <<>>]

\* A request of a sync, with what comes back, and the cache.
GetOf(Url, Body)   == [url : Url, body : Seq(Body), outcome : STRING]
CacheOf(Url, Body) == UNION {[P -> Seq(Body)] : P \in SUBSET {cachePathForURL(u) : u \in Url}}

\* The kinds of JSON values, and no value at all; symbols, parts of a hover, notifications.
Kinds  == {"absent", "null", "array", "object", "string", "number"}
Symbol == [shape : STRING, name : STRING, range : STRING]
HoverPart(Text)   == [k : STRING, kind : STRING, value : Text]
NoteOf(Uri, Diag) == [method : STRING, wellFormed : BOOLEAN, uri : Uri, diags : Seq(Diag)]

\* What is a sequence, whatever its elements are.
IsSeq(s) == Len(s) \in Nat /\ DOMAIN s = 1 .. Len(s)

\* Runes are never cut, neither in a text nor in what an edit puts there.
ASSUME EditsAssumption ==
  /\ \A t \in Runes \cup EditTexts : t \in Seq(STRING) /\ WellFormed(t)
  /\ Positions \subseteq [line : Int, char : Int]
  /\ \A e \in Edits : e \in TextEdit(STRING) /\ WellFormed(e.new)

ASSUME ProjectsAssumption ==
  /\ \A p \in Projects : /\ p.tree \in Seq(SUBSET STRING)
                         /\ p.file \in [dir : 1 .. Len(p.tree), ext : STRING]
  /\ Detected \subseteq STRING /\ Asked \subseteq STRING

\* "none" is the file of a caller that probes nothing.
ASSUME DetectionAssumption == Idle.file \notin Probed

ASSUME FindingsAssumption ==
  /\ \A p \in Places : p.lines \in Seq(Seq(Nat)) /\ p.lines # <<>> /\ p.line \in Int /\ p.col \in Int
  /\ IsSeq(Manifests) /\ Manifests # <<>> /\ \A i \in DOMAIN Manifests : IsYaml(Manifests[i].yaml)
  /\ \A s \in Pointers : s.segs \in Seq(STRING)
  /\ Resources \subseteq Resource(STRING, SchemaError) /\ IsSeq(Chunks) /\ IsSeq(Template)
  /\ LintFindings \subseteq HelmFinding /\ RenderErrors \subseteq HelmError

ASSUME SchemasAssumption ==
  /\ Gets \subseteq GetOf(Urls, STRING)
  /\ DOMAIN Cached \subseteq {cachePathForURL(u) : u \in Urls} /\ Cached \in [DOMAIN Cached -> Seq(STRING)]

\* A symbol that a poll finds is at a place that references can be asked for.
ASSUME AnswersAssumption ==
  /\ Replies \subseteq [k : Kinds, elems : Seq(Symbol)]
  /\ \A h \in Hovers : h.elems \in Seq(HoverPart(STRING))
  /\ Notes \subseteq NoteOf(STRING, STRING)
  /\ \A h \in Hosts :
       /\ h.polls \in Seq([k : Kinds \cup {"error"}, elems : Seq(Symbol)])
       /\ \A i \in DOMAIN h.polls : findSelectionRange(h.polls[i], "greet") \in DOMAIN h.references \cup {NoRange}

-----------------------------------------------------------------------------
(* The subjects.                                                           *)

LibraryInit ==
  \/ subject = "text" /\ in = <<>>
  \/ subject = "edits" /\ in \in [text : EditTexts, edits : {<<>>}]
  \/ subject = "file" /\ in \in Projects
  \/ subject = "spec" /\ in \in ServerQueries
  \/ subject = "detect" /\ in = NewFallback(Callers)
  \/ subject = "document" /\ in \in Documents
  \/ subject = "language" /\ in \in Sources
  \/ subject = "place" /\ in \in Places
  \/ subject = "yaml" /\ in \in Pointers
  \/ subject = "tool" /\ in \in [ran : BOOLEAN, exit : {0, 1}, readable : BOOLEAN, report : {<<>>}]
  \/ subject = "chart" /\ in = [lint |-> <<>>, errors |-> <<>>]
  \/ subject = "sync" /\ in = <<>>
  \/ subject = "answer" /\ in \in Replies
  \/ subject = "hover" /\ in \in Hovers
  \/ subject = "notes" /\ in = <<>>
  \/ subject = "host" /\ in \in Hosts

Picked(s) == subject = s /\ UNCHANGED subject

GrowText  == Picked("text") /\ Len(in) < MaxLength["text"] /\ \E r \in Runes : in' = in \o r
AddEdit   == Picked("edits") /\ Len(in.edits) < MaxLength["edits"] /\ \E e \in Edits : in' = [in EXCEPT !.edits = Append(@, e)]

\* Any callers ask for the language of any file, and each probe ends with any answer.
Look      == Picked("detect") /\ Len(in.given) < MaxLength["detect"]
               /\ \E c \in Callers, f \in Probed : in.flight[c] = Idle /\ in' = DetectLook(in, c, f)
Store     == Picked("detect") /\ \E c \in Callers, l \in Languages : in.flight[c] # Idle /\ in' = DetectStore(in, c, l)
AddReport == Picked("tool") /\ Len(in.report) < MaxLength["tool"]
               /\ \E r \in Resources : in' = [in EXCEPT !.report = Append(@, r)]
AddFound  == Picked("chart") /\ Len(in.lint) < MaxLength["chart"] /\ in.errors = <<>>
               /\ \E f \in LintFindings : in' = [in EXCEPT !.lint = Append(@, f)]
AddBroken == Picked("chart") /\ Len(in.errors) < MaxLength["chart"]
               /\ \E f \in RenderErrors : in' = [in EXCEPT !.errors = Append(@, f)]
AddGet    == Picked("sync") /\ Len(in) < MaxLength["sync"] /\ \E g \in Gets : in' = Append(in, g)
AddNote   == Picked("notes") /\ Len(in) < MaxLength["notes"] /\ \E n \in Notes : in' = Append(in, n)

LibraryNext == GrowText \/ AddEdit \/ Look \/ Store \/ AddReport \/ AddFound \/ AddBroken \/ AddGet \/ AddNote

LibrarySpec == LibraryInit /\ [][LibraryNext]_<<subject, in>>

-----------------------------------------------------------------------------
(* What is checked.                                                        *)

\* The server and the write path understand the same position alike and never split a
\* rune, a plan of edits is the edits made at once or is refused, and a client that sends
\* the same edits leaves the server with the text that was written.
EditsMeanTheSame ==
  /\ subject = "text" => PositionsAgree(in, Positions)
  /\ subject = "edits" => EditsAgree(in.text, in.edits)

\* A file has one session: one preset claims it, every directory between it and its root
\* leads to the same root, a dedicated server wins over gts-lsp, and the language that
\* gts-lsp detects for it changes only if two probes overlap.
OneSessionPerFile ==
  /\ subject = "file" => \A d \in Detected, l \in Asked : ResolutionSound(in.tree, in.file, d, l)
  /\ subject = "spec" => SpecSound(in.lang, in.installed, in.first, in.second)
  /\ subject = "detect" => DetectSteady(in)

\* A finding of an external tool is reported once, by the tool that is meant for the
\* document, where its cause is as far as the report tells; yamllint, taplo, hadolint,
\* check-jsonschema and kubeconform never let a document look valid that they did not
\* validate; a failed sync keeps the schemas there are.
FindingsInPlace ==
  /\ subject = "document" => OneLinter(in)
  /\ subject = "language" => NameBeforeClient(in.hook, in.name, in.shebang, in.id, Registered)
  /\ subject = "place" => PlacesInDocument(in.lines, in.line, in.col)
  /\ subject = "yaml" => LocatesPrefix(Manifests[1].yaml, in.segs, in.extra)
  /\ subject = "tool" =>
       /\ CleanMeansValid(Manifests, in)
       /\ \A r \in ToSet(in.report), i \in 1 .. Len(Manifests) + 1 : FindingsAtHome(Manifests, r, i)
       /\ RenderedAtHome(ChartThatLints(in), Here, Template)
  /\ subject = "chart" => HelmMerged(ChartWithFindings(in), Here, Template)
  /\ subject = "sync" => SyncKeepsGood(Cached, in)

\* What a server answers reaches the caller complete, under either shape and for the doctor
\* as for the client; and the doctor's verdict is that of the consumers of the broker,
\* whatever environment it runs in.
AnswersAndVerdicts ==
  /\ subject = "answer" => ReadsLikeClient(in) /\ SymbolsArrive(in) /\ LocationsAgree(in)
  /\ subject = "hover" => HoverKeepsText(in)
  /\ subject = "notes" => \A u \in Uris : WaitIsNewest(in, u)
  /\ subject = "host" => \A x \in Environments, y \in Environments : EnvironmentBlind(in, x, y) /\ \A p \in BOOLEAN : SuccessIsReal(in, x, p)
=============================================================================
