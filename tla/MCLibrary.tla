----------------------------- MODULE MCLibrary ------------------------------
(***************************************************************************)
(* The algorithms that keep no state between calls, or little, over        *)
(* bounded inputs: those of Library, and in the same way those of OrgText, *)
(* GtsFeatures and Lspgen.                                                 *)
(***************************************************************************)
EXTENDS Library

O == INSTANCE OrgText
G == INSTANCE GtsFeatures
L == INSTANCE Lspgen

UpTo(n, S) == UNION {[1 .. m -> S] : m \in 0 .. n}

-----------------------------------------------------------------------------
(* Inputs.                                                                 *)

\* Texts of runes of one, two and four bytes and both line ends, and the positions around them.
MCRunes     == {<<"a">>, <<"2", "~">>, <<"4", "~", "~", "~">>, <<"n">>, <<"r">>}
MCPositions == [line : -1 .. 2, char : -1 .. 3]

MCEditTexts == {<<"a", "n", "4", "~", "~", "~">>, <<"2", "~", "a", "a">>, <<"r", "n">>}
EditPlace   == [line : 0 .. 1, char : 0 .. 2]
MCEdits     == [start : EditPlace, end : EditPlace, new : {<<>>, <<"x">>, <<"n">>}]

\* What may lie in each of the three directories above a file.
Marks(ext) == CASE ext = ".tsx"  -> {"tsconfig.json", "package.json", ".git"}
                [] ext = ".html" -> {"angular.json", "package.json", ".git"}
                [] ext = ".cpp"  -> {"compile_commands.json", "package.json", ".git"}
                [] OTHER         -> {"tsconfig.json", ".git"}
MCProjects == UNION {[tree : [1 .. 3 -> SUBSET Marks(e)], file : [dir : 1 .. 3, ext : {e}]] : e \in {".tsx", ".html", ".cpp", ".sh", ".zz"}}
MCServerQueries == [lang : {"python", "javascript", "shellscript", "zz"},
                    installed : SUBSET {"pyright-langserver", "typescript-language-server", "gts-lsp"},
                    first : SUBSET {"python", "bash"}, second : SUBSET {"python", "bash"}]

\* Org lines: two levels, titles that contain one another or are rendered as another,
\* languages that begin with one another, lines that name a link's target.
Line(k, l, t, f) == [kind |-> k, level |-> l, text |-> t, flag |-> f]
OrgLines ==
  {Line("heading", l, t, "") : l \in 1 .. 2, t \in {{"a"}, {"a", "b"}}}
  \cup {Line("heading", 1, {}, ""), Line("heading", 1, {"a"}, "crypt"), Line("heading", 2, {"markup"}, "")}
  \cup {Line("begin", 0, {"c"}, "SRC"), Line("begin", 0, {"c", "pp"}, "SRC"), Line("begin", 0, {}, "Q")}
  \cup {Line("end", 0, {}, n) : n \in {"SRC", "Q"}} \cup {Line("drawer", 0, {}, ""), Line(":END:", 0, {}, "")}
  \cup {Line("link", 1, {"u"}, "broken"), Line("link", 1, {"u", "v"}, ""), Line("link", 2, {"u"}, "broken")}
  \cup {Line("plain", 0, {"u"}, "")}

\* One bad match misplaces what follows: a title that is rendered as the next heading's,
\* and a second link on a line whose target a later sentence names.
Heading(t) == Line("heading", 1, t, "")
ASSUME HeadingsShift == ~O!LaterInPlace(<<Heading({"markup"}), Heading({"b"}), Heading({"a"})>>)
ASSUME LinksShift    == ~O!LaterInPlace(<<Line("link", 2, {"u"}, ""), Line("link", 1, {"w"}, ""), Line("plain", 0, {"u"}, "")>>)

\* Parsed texts, and the nodes that a tree can grow by.
ParsedTexts == {<<"a", "n", "a", "n", "}", "}">>, <<"4", "~", "~", "~", "n", "r", "n", "a">>, <<"a", "n", "n", "}", "a", "a">>}
Offsets(text) == {o \in 0 .. Len(text) : Boundary(text, o)}
Root(text)    == [up |-> 0, start |-> 0, end |-> Len(text), named |-> TRUE, flag |-> ""]
Fits(tree, n) ==
  LET up == tree[n.up]
  IN /\ up.start <= n.start /\ n.start <= n.end /\ n.end <= up.end /\ up.flag # "missing"
     /\ \A m \in DOMAIN tree : tree[m].up = n.up => tree[m].end <= n.start
     /\ n.flag # "" => n.named
     /\ IF n.flag = "missing" THEN n.start = n.end ELSE n.named \/ n.start < n.end
Nodes(text, tree) ==
  {n \in [up : {Len(tree)} \cup G!Ancestors(tree)[Len(tree)], start : Offsets(text), end : Offsets(text),
          named : BOOLEAN, flag : {"", "error", "missing"}] : Fits(tree, n)}
Tokens(text) == {t \in [start : Offsets(text), end : Offsets(text), type : {"x", "y"}] : t.start <= t.end}
Grammars     == [load : {"ok", "error", "panic"}, query : BOOLEAN, tagger : BOOLEAN, outliner : {"ok", "error", "empty"}, highlighter : BOOLEAN]

Heads == G!Keywordish \cup G!TokenTypes \cup
         {"character", "text", "markup", "float", "constructor", "field", "attribute", "annotation", "constant",
          "module", "tag", "symbol", "escape", "identifier", "spell"}
Scopes == {"operator", "regex", "title", "italic", "warning", "macro", "member", "parameter", "enum", "variant",
             "numeric", "boolean", "delimiter"}
Parts    == {{p, q} : p \in Scopes, q \in Scopes} \cup {{}}
Labels == {<<"a">>, <<"a", "b">>, <<"a", "c">>, <<"b">>}
Tags   == UpTo(2, [name : Labels, def : BOOLEAN])

\* Documents of a repository with a chart, and what the tools say of them.
Dir         == [templates : BOOLEAN, chart : BOOLEAN]
Ids         == {"none", "yaml", "json", "toml", "dockerfile", "go"}
MCDocuments == [dirs : [1 .. 2 -> Dir], name : {"dockerfile", "x"}, ext : {"", ".yaml", ".json", ".toml", ".tpl"},
                language : Ids, k8s : BOOLEAN, schema : {"none", "s"}]
MCSources   == [hook : Ids, name : {"none", "go", "zig"}, shebang : {"none", "sh"}, id : Ids]
MCPlaces    == [lines : [1 .. 2 -> UpTo(2, {1, 2})], line : -1 .. 2, col : -1 .. 3]
Item(n, l) == [to |-> n, line |-> l]
Yaml == [n \in {"root", "x", "y", "z"} |->
           CASE n = "root" -> [kind |-> "map", line |-> 1, items |-> [k \in {"a", "b"} |-> IF k = "a" THEN Item("x", 2) ELSE Item("y", 5)]]
             [] n = "x" -> [kind |-> "map", line |-> 3, items |-> [k \in {"c", "d"} |-> Item("z", IF k = "c" THEN 3 ELSE 4)]]
             [] n = "y" -> [kind |-> "seq", line |-> 6, items |-> [k \in {"0", "1"} |-> Item(IF k = "0" THEN "x" ELSE "z", 6)]]
             [] OTHER   -> [kind |-> "scalar", line |-> 3, items |-> <<>>]]
Small == [n \in {"root", "z"} |->
            IF n = "root" THEN [kind |-> "map", line |-> 10, items |-> [k \in {"c"} |-> Item("z", 11)]]
            ELSE [kind |-> "scalar", line |-> 11, items |-> <<>>]]
MCManifests == <<[kind |-> "K", name |-> "n", yaml |-> Yaml], [kind |-> "K", name |-> "m", yaml |-> Small]>>
MCSegments  == [segs : UpTo(3, {"a", "b", "c", "0", "1", "q"}), extra : {"", "a", "c", "d"}]
Errors      == UpTo(1, [segs : {<<>>, <<"a">>, <<"a", "c">>, <<"c">>, <<"b", "1">>}, extra : {"", "d", "q"}])
MCResources == [kind : {"K", "L"}, name : {"n", "m", "o"}, errors : Errors, status : Statuses]

MCHere         == <<"templates", "a">>
InSubchart     == <<"charts", "sub", "templates", "a">>
Templates      == {MCHere, <<"templates", "b">>, InSubchart}
MCLintFindings == [sev : Severities, file : Templates, line : 0 .. 1]
                  \cup [sev : {"ERROR", "WARNING"}, file : {MCHere, <<"templates">>, <<"values">>}, line : {-1}]
MCRenderErrors == [sev : {"ERROR"}, file : Templates, line : 0 .. 1]
MCTemplate     == <<[key |-> "c", action |-> FALSE], [key |-> "c", action |-> TRUE]>>
MCChunks       == <<[source |-> MCHere, kind |-> "K", name |-> "n"], [source |-> <<"templates", "b">>, kind |-> "K", name |-> "m"],
                    [source |-> InSubchart, kind |-> "L", name |-> "n"]>>

\* A template is given the errors of one of its name in a subchart, as if they were its own.
ASSUME SubchartShows ==
  HelmValidate([lint |-> <<[sev |-> "ERROR", file |-> InSubchart, line |-> 1]>>, errors |-> <<>>, kubeconform |-> FALSE,
                resources |-> <<>>, chunks |-> <<>>], MCHere, MCTemplate) # <<>>
MCUrls         == [host : {"kubernetes-json-schema", "h"}, ref : {"r", "s"}, dir : {"d"}, file : {"f"}]
MCCached       == [p \in {<<"h", "r", "d", "f">>} |-> <<"x">>]
MCGets         == [url : MCUrls, body : {<<"x">>, <<"y", "x">>}, outcome : {"ok", "cut"}]

\* JSON answers, notifications, and the hosts that the doctor may meet.
Json(k, elems) == [k |-> k, elems |-> elems]
Junk    == [shape |-> "junk", name |-> "", range |-> Zero]
Symbols == [shape : {"flat", "tree"}, name : {"greet", "main"}, range : {"r1", "r2"}]
MCReplies  == {Json("array", s) : s \in UpTo(3, Symbols \cup {Junk})} \cup {Json(k, <<>>) : k \in {"absent", "null", "string", "number"}}
Contents   == [k : {"object"}, kind : {"", "markdown", "plaintext"}, value : {"v", "w"}] \cup [k : {"string", "null"}, kind : {""}, value : {"v"}]
MCHovers   == {Json("array", c) : c \in UpTo(3, Contents)}
MCNotes    == [method : {"publishDiagnostics", "other"}, wellFormed : BOOLEAN, uri : {"a", "b"}, diags : {<<>>, <<"d">>, <<"e">>}]
Outline    == <<[shape |-> "tree", name |-> "main", range |-> "r2"], [shape |-> "tree", name |-> "greet", range |-> "r1"]>>
Polls      == {Json("array", <<>>), Json("error", <<>>), Json("array", Outline)}
Locations  == {Json("null", <<>>), Json("array", <<>>), Json("array", <<[shape |-> "flat", name |-> "", range |-> "r1"]>>)}
MCHosts    == [binary : BOOLEAN, systemctl : BOOLEAN, unit : {"failed"}, pyright : BOOLEAN, fixture : BOOLEAN,
               socket : [{UserRun, "tmp", "/other"} -> {"none", "silent", "answers"}],
               polls : UpTo(2, Polls), references : {[r \in {"r1", "r2"} |-> p] : p \in Locations}]
MCEnvironments == {Unset, "", UserRun, "/other"}
MCMaxLength    == [s \in {"text", "edits", "detect", "tool", "chart", "sync", "notes"} |->
                     CASE s \in {"text", "detect"} -> 4 [] s = "edits" -> 2 [] s = "tool" -> 1 [] s = "chart" -> 2 [] OTHER -> 3]

\* A metaModel of two structures and an enumeration, and two ways to ask for them.
Types == {L!anyType("base", "string", d) : d \in 0 .. 1} \cup {L!anyType("reference", n, d) : n \in {"A", "B", "N", "X"}, d \in 0 .. 1}
         \cup {L!anyType("or", "A", 0)}
Properties == {L!property(n, t, o) : n \in {"p", "q"}, t \in Types, o \in BOOLEAN}
Allowed == {[structs |-> <<L!structConfig("A", TRUE, <<>>, <<>>), L!structConfig("B", TRUE, <<>>, <<>>)>>, enums |-> <<"N">>,
             external |-> [x \in {"X"} |-> "struct"]],
            [structs |-> <<L!structConfig("B", FALSE, <<"q", "p">>, [p \in {"p"} |-> "string"]), L!structConfig("A", TRUE, <<>>, <<>>)>>,
             enums |-> <<"N">>, external |-> [x \in {"Y"} |-> "struct"]]}
Models  == {[structs |-> [s \in {"A", "B"} |-> L!structure(IF s = "A" THEN <<>> ELSE up, <<>>)],
             enums |-> [n \in {"N"} |-> base]] : up \in {<<>>, <<"A">>}, base \in {"uinteger", "other"}}

-----------------------------------------------------------------------------
(* The subjects.                                                           *)

Init ==
  \/ LibraryInit
  \/ subject = "org" /\ in = <<>>
  \/ subject = "index" /\ in = O!NewIndex({1, 2})
  \/ subject = "tree" /\ in \in {[text |-> t, tree |-> <<Root(t)>>] : t \in ParsedTexts}
  \/ subject = "tokens" /\ in \in [text : ParsedTexts, toks : {<<>>}]
  \/ subject = "grammar" /\ in \in [lang : {G!Unused}, made : Grammars]
  \/ subject = "capture" /\ in \in [head : Heads, parts : Parts]
  \/ subject = "names" /\ in \in [docs : {<<t, u>> : t \in Tags, u \in UpTo(1, [name : {<<"a">>}, def : BOOLEAN])}, max : 1 .. 3]
  \/ subject = "model" /\ in \in [model : Models, allow : Allowed]

GrowOrg    == Picked("org") /\ Len(in) < 4 /\ \E l \in OrgLines : in' = Append(in, l)
WriteFile  == Picked("index") /\ O!Disk(in) < 4 /\ \E time \in 0 .. 1 : in' = O!Write(in, time)
Query      == Picked("index") /\ \E q \in {1, 2} : in' = O!indexFile(in, q)
GrowTree   == Picked("tree") /\ Len(in.tree) < 3 /\ \E n \in Nodes(in.text, in.tree) : in' = [in EXCEPT !.tree = Append(@, n)]
AddToken   == Picked("tokens") /\ Len(in.toks) < 2 /\ \E k \in Tokens(in.text) : in' = [in EXCEPT !.toks = Append(@, k)]
UseGrammar == Picked("grammar") /\ \E l \in {G!load(in.lang), G!highlighter(in.lang, in.made), G!tagEngines(in.lang, in.made),
                                             G!Keywords(in.lang, in.made), G!AfterFeatures(in.lang, in.made)} : in' = [in EXCEPT !.lang = l]
AddProp    == Picked("model") /\ Len(in.model.structs["A"].props \o in.model.structs["B"].props) < 2
                /\ \E s \in {"A", "B"}, p \in Properties : in' = [in EXCEPT !.model.structs[s].props = Append(@, p)]

Next ==
  \/ LibraryNext \/ GrowOrg \/ WriteFile \/ Query \/ GrowTree \/ AddToken
  \/ UseGrammar \/ AddProp

-----------------------------------------------------------------------------
(* What is checked.                                                        *)

\* What the two language servers say of a text is exact.  org-lsp: every answer is put on
\* the lines it is about in the documents where no line can be taken for another, folds and
\* the outline nest, and the index answers with what was replaced before the query only if
\* the modification time did not tell.  gts-lsp: each error once, folds and selections that nest,
\* tokens that decode to what was highlighted, names that do not depend on the cursor, and
\* features that do not depend on what was asked first, as long as the grammar can be read.
FeaturesExact ==
  /\ subject = "org" => O!Aligned(in) /\ O!Nested(in) /\ O!FoldsPair(in) /\ O!LintExact(in)
  /\ subject = "index" => O!NoStaleAnswer(in)
  /\ subject = "tree" => /\ \A max \in 1 .. 2 : G!ErrorsReportedOnce(in.tree, max)
                         /\ G!FoldsNest(in.text, in.tree)
                         /\ \A p \in [line : 0 .. 2, char : 0 .. 2] : G!SelectionsGrow(in.text, in.tree, p)
  /\ subject = "tree" => \A p, q \in {[tree |-> t, stopped |-> s, failed |-> f] : t \in {in.tree, <<Root(in.text)>>, <<>>}, s \in BOOLEAN, f \in BOOLEAN} :
                           G!CleanIsParsed(p, q, 2)
  /\ subject = "text" => \A n \in Labels : G!NamesAgree(in, <<>>, n)
  /\ subject = "tokens" => G!TokensExact(in.text, in.toks)
  /\ subject = "grammar" => G!EnginesSteady(in.lang, in.made)
  /\ subject = "capture" => G!InLegend(in.head, in.parts)
  /\ subject = "names" =>
       /\ \A n \in Labels : G!NamesAgree(<<>>, in.docs, n)
       /\ \A p \in {<<>>, <<"a">>} : G!CompletionSound(in.docs[1], <<<<"b">>, <<"a", "b">>>>, <<<<"a", "c">>>>, p, in.max)

\* The types that lspgen writes have the fields that were asked for, and compile.
TypesComplete == subject = "model" => L!TypesCompile(in.model, in.allow) /\ L!FieldsAsked(in.model, in.allow)
=============================================================================
