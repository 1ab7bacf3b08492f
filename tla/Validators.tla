----------------------------- MODULE Validators -----------------------------
(***************************************************************************)
(* The external validators of gts-lsp (gtslsp/validate): which of them     *)
(* take a document, where a finding is put in it, how the findings about a *)
(* Helm chart are merged, and the schema cache.  When they run and what    *)
(* becomes of their results is in GtsServer.                               *)
(*                                                                         *)
(* A document is [dirs, name, ext, language, k8s, schema]: dirs are the    *)
(* directories above it, the nearest first, each [templates, chart] (is it *)
(* named templates, does it hold a Chart.yaml).  The tools, and the YAML   *)
(* and URL parsers, are external.  Lines are counted from 0.               *)
(***************************************************************************)
EXTENDS Integers, SequencesExt

-----------------------------------------------------------------------------
(* The language of a document and its validators.                          *)

\* Hooks.Detect: a hook may name a grammar that is not registered; then the file name,
\* the #! line and the client's languageId decide, in that order.
Detect(hook, byName, byShebang, languageId, registered) ==
  LET known(l) == IF l \in registered THEN l ELSE "none"
      answers  == <<known(hook), byName, byShebang, known(languageId)>>
      claims   == {i \in DOMAIN answers : answers[i] # "none"}
  IN IF claims = {} THEN "none" ELSE answers[Min(claims)]

\* The nearest directory with a Chart.yaml, and whether a templates directory is met on the way.
chartRoot(doc) ==
  LET charts == {i \in DOMAIN doc.dirs : doc.dirs[i].chart}
      root   == Min(charts)
  IN IF charts = {} THEN [dir |-> 0, inTemplates |-> FALSE]
     ELSE [dir |-> root, inTemplates |-> \E i \in 1 .. root : doc.dirs[i].templates]

isHelmTemplate(doc) == chartRoot(doc).inTemplates
isYAML(doc) == doc.language = "yaml" \/ doc.ext = ".yaml"
isJSON(doc) == doc.language = "json" \/ doc.ext = ".json"

CheckJSONSchemaApplies(doc) == (isYAML(doc) \/ isJSON(doc)) /\ ~isHelmTemplate(doc) /\ doc.schema # "none"
KubeconformApplies(doc) == isYAML(doc) /\ ~isHelmTemplate(doc) /\ doc.k8s
HelmApplies(doc) == isHelmTemplate(doc) /\ doc.ext \in {".yaml", ".tpl"}
HadolintApplies(doc) == doc.language = "dockerfile" \/ (doc.language = "none" /\ doc.name = "dockerfile")

Applies(v, doc) ==
  CASE v = "yamllint"         -> isYAML(doc) /\ ~isHelmTemplate(doc)
    [] v = "check-jsonschema" -> CheckJSONSchemaApplies(doc)
    [] v = "kubeconform"      -> KubeconformApplies(doc)
    [] v = "helm"             -> HelmApplies(doc)
    [] v = "taplo"            -> doc.language = "toml" \/ doc.ext = ".toml"
    [] v = "hadolint"         -> HadolintApplies(doc)

-----------------------------------------------------------------------------
(* Places.  A line is the sequence of its runes' widths in UTF-16 units.   *)

Width(line) == FoldLeft(LAMBDA a, b : a + b, 0, line)

\* Columns of findings are runes, those of diagnostics units.
utf16Col(line, col) == Width(SubSeq(line, 1, IF col < 0 THEN 0 ELSE Min({col, Len(line)})))

\* From a column to the end of its line; a line outside the document is its nearest.
mkDiag(lines, line, col) ==
  LET l == IF line >= Len(lines) THEN Len(lines) - 1 ELSE IF line < 0 THEN 0 ELSE line
      s == utf16Col(lines[l + 1], col)
  IN [line |-> l, start |-> s, end |-> Max({Width(lines[l + 1]), s + 1})]

\* A YAML document is a function from node names to nodes: [kind, line, items], items
\* the values of a mapping by key, or of a sequence by index, each with the line of its
\* key; its root is "root".  An alias is a node without items.
Step(yaml, node, seg) == IF seg \in DOMAIN yaml[node].items THEN yaml[node].items[seg] ELSE [to |-> "none", line |-> -1]

\* The place of the deepest node that the segments reach, keys before values.
locate(yaml, segs) ==
  LET walk(at, s) ==
        IF ~at.found THEN at
        ELSE LET next == Step(yaml, at.node, s)
             IN IF next.to = "none" THEN [at EXCEPT !.found = FALSE] ELSE [node |-> next.to, line |-> next.line, found |-> TRUE]
  IN FoldLeft(walk, [node |-> "root", line |-> yaml["root"].line, found |-> TRUE], segs)

\* childKey: the segments with the key behind them, if what they reach has it.
childKey(yaml, segs, key) ==
  LET at == locate(yaml, segs)
  IN IF at.found /\ yaml[at.node].kind = "map" /\ key \in DOMAIN yaml[at.node].items THEN Append(segs, key) ELSE segs

\* A message about an additional key is put on that key ("": the message names none).
refineExtra(yaml, segs, extra) == IF extra = "" THEN segs ELSE childKey(yaml, segs, extra)

\* findDoc and matchChunk: the first document of this kind and name, else the one in
\* the same place, 0 if there is none.
findDoc(docs, r, idx) ==
  LET named == {i \in DOMAIN docs : docs[i].kind = r.kind /\ docs[i].name = r.name}
  IN IF named # {} THEN Min(named) ELSE IF idx \in DOMAIN docs THEN idx ELSE 0

\* The line of a template that most likely made a rendered field: one that declares the
\* last of its keys (an index is no key), better one with an action.  Lines are [key, action].
templateLine(lines, segs) ==
  LET keys     == SelectSeq(segs, LAMBDA s : s \notin {"0", "1"})
      declared == {i \in DOMAIN lines : keys # <<>> /\ lines[i].key = Last(keys)}
      acting   == {i \in declared : lines[i].action}
  IN IF declared = {} THEN 0 ELSE Min(IF acting # {} THEN acting ELSE declared) - 1

-----------------------------------------------------------------------------
(* Results.  A run of a tool is [ran, exit, readable, report]: did it run to   *)
(* its end in time, does its output have the promised form, and the output.*)
(* A diagnostic is [line, sev]; what a validator answers is [failed, diags]*)

Failed == [failed |-> TRUE, diags |-> <<>>]
Found(diags) == [failed |-> FALSE, diags |-> diags]

\* kubeconform reports a resource as [kind, name, status, errors], an error [segs, extra];
\* docs are the documents of the text, [kind, name, yaml].
ResourceDiags(docs, r, idx) ==
  LET d     == findDoc(docs, r, idx)
      start == IF d = 0 THEN 0 ELSE docs[d].yaml["root"].line
      at(e) == IF d = 0 THEN 0 ELSE locate(docs[d].yaml, refineExtra(docs[d].yaml, e.segs, e.extra)).line
  IN CASE r.status = "statusInvalid" /\ r.errors # <<>> -> [i \in DOMAIN r.errors |-> [line |-> at(r.errors[i]), sev |-> "error"]]
       [] r.status = "statusInvalid" /\ r.errors = <<>> -> <<[line |-> start, sev |-> "error"]>>
       [] r.status = "statusError"   -> <<[line |-> start, sev |-> "error"]>>
       [] r.status = "statusSkipped" -> <<[line |-> start, sev |-> "information"]>>
       [] OTHER -> <<>>

Kubeconform(docs, run) ==
  IF ~run.ran \/ ~run.readable THEN Failed
  ELSE Found(FlattenSeq([i \in DOMAIN run.report |-> ResourceDiags(docs, run.report[i], i)]))

\* A line of another form is passed over.
Yamllint(run) == IF run.ran THEN Found(run.report) ELSE Failed

\* So is an entry that no position follows (line -1).
Taplo(run) ==
  IF run.ran THEN Found(FlattenSeq([i \in DOMAIN run.report |-> IF run.report[i].line = -1 THEN <<>> ELSE <<run.report[i]>>]))
  ELSE Failed

\* A level without a severity of its own is an information.
Hadolint(run) ==
  LET known == {"error", "warning", "style"}
  IN IF ~run.ran \/ ~run.readable THEN Failed
     ELSE Found([i \in DOMAIN run.report |->
                  [run.report[i] EXCEPT !.sev = IF @ \in known THEN @ ELSE "information"]])

\* CheckJSONSchema with a schema that is there: with exit code 0 nobody reads the output.
CheckJSONSchema(run) ==
  CASE ~run.ran -> Failed
    [] run.ran /\ run.exit = 0 -> Found(<<>>)
    [] OTHER -> IF run.readable THEN Found(run.report) ELSE Failed

-----------------------------------------------------------------------------
(* Helm.Validate.  A path is the sequence of its parts, from the directory *)
(* of the chart on; rel is that of the document.  A finding of helm names  *)
(* a template and a line of it, or only a place (line -1).  chart has what *)
(* the tools say: whether both runs of helm came to their end, the lint    *)
(* findings [sev, file, line], the errors of the rendering, empty if it    *)
(* succeeds, its chunks [source, kind, name], and the resources of         *)
(* kubeconform, if that is installed and was understood.                   *)

\* A template of the name of this one, here or further down: in a subchart.
Named(path, rel) == IsSuffix(rel, path)

\* parseHelmMessage cuts what stands before the first templates directory off.
Cut(path) == SubSeq(path, Min({i \in DOMAIN path : path[i] = "templates"}), Len(path))

\* Is a finding about this template, as far as the code can tell?
About(f, rel) == IF f.line = -1 THEN f.file \in {rel, <<"templates">>} ELSE Named(Cut(f.file), rel)

AddLint(out, f, rel) ==
  IF f.sev = "INFO" \/ ~About(f, rel) THEN out
  ELSE [diags |-> Append(out.diags, [line |-> Max({f.line, 0}), sev |-> f.sev]),
        seen  |-> out.seen \cup (IF f.sev = "ERROR" /\ f.line # -1 THEN {f.line} ELSE {})]

\* Variant: what lint has reported on a line is reported again.
AddRenderingAgain(out, f, rel) ==
  IF ~About(f, rel) THEN out ELSE [out EXCEPT !.diags = Append(@, [line |-> f.line, sev |-> "ERROR"])]

\* An error of the rendering, unless lint has reported one on its line.
AddRendering(out, f, rel) ==
  IF ~About(f, rel) \/ f.line \in out.seen THEN out
  ELSE [out EXCEPT !.diags = Append(@, [line |-> f.line, sev |-> "ERROR"])]

\* A resource of the rendered chart, put on the line of this template that likely made it.
\* One that kubeconform skipped is passed over.
RenderedDiags(chart, r, idx, rel, lines) ==
  LET c == findDoc(chart.chunks, r, idx)
  IN CASE c = 0 -> <<>>
       [] c # 0 /\ ~Named(chart.chunks[c].source, rel) -> <<>>
       [] OTHER -> IF r.status = "statusInvalid"
                   THEN [i \in DOMAIN r.errors |-> [line |-> templateLine(lines, r.errors[i].segs), sev |-> "ERROR"]]
                   ELSE IF r.status = "statusError" THEN <<[line |-> 0, sev |-> "ERROR"]>> ELSE <<>>

HelmValidate(chart, rel, lines) ==
  LET lint   == FoldLeft(LAMBDA out, f : AddLint(out, f, rel), [diags |-> <<>>, seen |-> {}], chart.lint)
      broken == FoldLeft(LAMBDA out, f : AddRendering(out, f, rel), lint, chart.errors)
      ok     == FlattenSeq([i \in DOMAIN chart.resources |-> RenderedDiags(chart, chart.resources[i], i, rel, lines)])
  IN IF chart.errors # <<>> THEN broken.diags ELSE IF chart.kubeconform THEN lint.diags \o ok ELSE lint.diags

\* Without kubeconform, or with output of it that is not understood, nobody is told that the
\* manifests were not validated.
Helm(chart, rel, lines) == IF chart.ran THEN Found(HelmValidate(chart, rel, lines)) ELSE Failed

-----------------------------------------------------------------------------
(* The schema cache: the files of the cache directory by name.  A URL is   *)
(* [host, ref, dir, file], ref the branch or tag of its repository.        *)

cachePathForURL(u) == IF u.host = "kubernetes-json-schema" THEN <<"k8s", u.dir, u.file>>
                      ELSE <<u.host, u.ref, u.dir, u.file>>

\* resolveSchema: what CheckJSONSchema says of a schema at a URL before it runs the tool.
\* It never fetches.
SchemaVerdict(cache, u) == IF cachePathForURL(u) \in DOMAIN cache THEN "validate" ELSE "not cached"

\* Bound: a body is a sequence of chunks, and this many are 64 MiB.
MaxBody == 1

\* The body, as far as MaxBody, is written to a file of its own, which is renamed over the
\* cached one at its end; whatever ends the step earlier leaves the cache as it was.
syncOne(cache, u, body, outcome) ==
  LET path == cachePathForURL(u)
  IN IF outcome # "ok" THEN cache
     ELSE [p \in DOMAIN cache \cup {path} |-> IF p = path THEN SubSeq(body, 1, Min({MaxBody, Len(body)})) ELSE cache[p]]

\* SyncWithReport: each URL on its own; one that fails does not stop the others.
SyncWithReport(cache, gets) ==
  FoldLeft(LAMBDA all, g : [cache  |-> syncOne(all.cache, g.url, g.body, g.outcome),
                            failed |-> IF g.outcome = "ok" THEN all.failed ELSE all.failed \cup {g.url}],
           [cache |-> cache, failed |-> {}], gets)

-----------------------------------------------------------------------------
(* What is checked.                                                        *)

\* The client's languageId is the last resort, and a document gets no language that no
\* grammar is registered for, except one that the grammars themselves name.
NameBeforeClient(hook, byName, byShebang, languageId, registered) ==
  LET l(id) == Detect(hook, byName, byShebang, id, registered)
  IN /\ l(languageId) \in registered \cup {byName, byShebang, "none"}
     /\ l(languageId) # l("none") => l("none") = "none"

\* A YAML file is linted either as text or as a template of its chart, never as both;
\* a manifest is validated once, as itself or as rendered; a source file that a
\* grammar claims is no Dockerfile, whatever it is called.
OneLinter(doc) ==
  /\ doc.ext = ".yaml" => (Applies("helm", doc) <=> ~Applies("yamllint", doc))
  /\ ~(Applies("helm", doc) /\ (Applies("kubeconform", doc) \/ Applies("check-jsonschema", doc)))
  /\ doc.language \notin {"none", "dockerfile"} => ~Applies("hadolint", doc)

\* A diagnostic lies in the document, is not empty, and begins where the finding does.
PlacesInDocument(lines, line, col) ==
  LET d == mkDiag(lines, line, col)
  IN /\ d.line \in 0 .. Len(lines) - 1 /\ d.start < d.end /\ d.start <= Width(lines[d.line + 1])
     /\ line \in 0 .. Len(lines) - 1 /\ col \in 0 .. Len(lines[line + 1]) =>
          d.line = line /\ d.start = Width(SubSeq(lines[line + 1], 1, col))

\* Segments that lead nowhere are put where their longest prefix that leads somewhere is.
LocatesPrefix(yaml, segs, extra) ==
  LET known == {n \in 0 .. Len(segs) : locate(yaml, SubSeq(segs, 1, n)).found}
      best  == SubSeq(segs, 1, Max(known))
      fine  == refineExtra(yaml, segs, extra)
  IN /\ known = 0 .. Max(known)
     /\ locate(yaml, segs).line = locate(yaml, best).line
     /\ fine # segs => locate(yaml, fine).found /\ Last(fine) = extra /\ Front(fine) = segs

\* With these five validators a document that was not validated never looks valid: without a
\* diagnostic the tool ran to its end and had nothing to report, hadolint and kubeconform
\* were understood, and kubeconform found every resource valid.  (With helm it may.)
CleanMeansValid(docs, run) ==
  LET clean(out) == ~out.failed /\ out.diags = <<>>
      entries    == [run EXCEPT !.report = [i \in DOMAIN @ |-> [line |-> i, sev |-> @[i].status]]]
  IN /\ clean(Yamllint(entries)) \/ clean(Taplo(entries)) => run.ran /\ run.report = <<>>
     /\ clean(Hadolint(entries)) => run.ran /\ run.readable /\ run.report = <<>>
     /\ clean(CheckJSONSchema(entries)) => run.ran /\ (run.exit = 0 \/ (run.readable /\ run.report = <<>>))
     /\ clean(Kubeconform(docs, run)) =>
          run.ran /\ run.readable /\ \A i \in DOMAIN run.report : run.report[i].status = "statusValid"

\* Where names are unique, the findings about a resource are put into its own document,
\* whatever the order of the report.
FindingsAtHome(docs, r, idx) ==
  LET names == {<<docs[i].kind, docs[i].name>> : i \in DOMAIN docs}
      keys(node) == {node.items[k].line : k \in DOMAIN node.items}
      lines(i) == UNION {keys(docs[i].yaml[n]) \cup {docs[i].yaml[n].line} : n \in DOMAIN docs[i].yaml}
  IN Cardinality(names) = Len(docs) =>
       \A i \in DOMAIN docs : docs[i].kind = r.kind /\ docs[i].name = r.name =>
         \A d \in ToSet(ResourceDiags(docs, r, idx)) : d.line \in lines(i)

\* Every error that names a line of this template, or of one of its name, is reported, and one
\* that lint has reported is not repeated by the rendering; none about other templates is.
HelmMerged(chart, rel, lines) ==
  LET out == HelmValidate(chart, rel, lines)
      at(fs, l) == {i \in DOMAIN fs : About(fs[i], rel) /\ fs[i].line = l /\ fs[i].sev = "ERROR"}
      loose == {i \in DOMAIN chart.lint : chart.lint[i].line = -1}
  IN loose = {} /\ chart.resources = <<>> =>
       \A l \in DOMAIN lines :
         LET reported == Cardinality({i \in DOMAIN out : out[i].line = l - 1 /\ out[i].sev = "ERROR"})
             byLint   == Cardinality(at(chart.lint, l - 1))
         IN reported = IF byLint # 0 THEN byLint ELSE Cardinality(at(chart.errors, l - 1))

\* Where names are unique, the answer about a chart that lints and renders is a failure exactly
\* if helm did not come to its end, and has a diagnostic exactly if kubeconform was heard and
\* found fault with a resource of this template, or of one of its name in a subchart.
RenderedAtHome(chart, rel, lines) ==
  LET out   == Helm(chart, rel, lines)
      names == {<<chart.chunks[i].kind, chart.chunks[i].name>> : i \in DOMAIN chart.chunks}
      made(r) == \E i \in DOMAIN chart.chunks :
                   /\ chart.chunks[i].kind = r.kind /\ chart.chunks[i].name = r.name
                   /\ Named(chart.chunks[i].source, rel)
      bad(r) == r.status = "statusError" \/ (r.status = "statusInvalid" /\ r.errors # <<>>)
  IN (/\ chart.lint = <<>> /\ chart.errors = <<>> /\ Cardinality(names) = Len(chart.chunks)
      /\ \A r \in ToSet(chart.resources) : <<r.kind, r.name>> \in names)
     => /\ out.failed <=> ~chart.ran
        /\ out.diags # <<>> <=> chart.ran /\ chart.kubeconform /\ \E r \in ToSet(chart.resources) : bad(r) /\ made(r)

\* A sync that fails for a URL leaves a schema that was cached; one that succeeds makes the
\* validation find it; what is cached is always a body that was received completely, if it
\* is no longer than the limit.
SyncKeepsGood(cache, gets) ==
  LET after == SyncWithReport(cache, gets)
  IN /\ DOMAIN cache \subseteq DOMAIN after.cache
     /\ \A g \in ToSet(gets) : g.url \notin after.failed => SchemaVerdict(after.cache, g.url) = "validate"
     /\ \A p \in DOMAIN after.cache :
          \/ p \in DOMAIN cache /\ after.cache[p] = cache[p]
          \/ \E g \in ToSet(gets) : cachePathForURL(g.url) = p /\ g.outcome = "ok" /\ IsPrefix(after.cache[p], g.body)
                                  /\ (Len(g.body) <= MaxBody => after.cache[p] = g.body)
=============================================================================
