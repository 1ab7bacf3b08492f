----------------------------- MODULE Resolution -----------------------------
(***************************************************************************)
(* How a file finds its session: the resolvers of pkg/projectcontext, the  *)
(* gts-lsp fallback of pkg/gtsfallback, and what the broker makes of them  *)
(* (DefaultSpecFor, resolveContext).                                       *)
(*                                                                         *)
(* A tree is the chain of directories above a file: tree[i] are the files  *)
(* in its i-th directory, 1 the deepest, Len(tree) the root of the file    *)
(* system.  A file is [dir, ext], a context [root, lang, config], and      *)
(* Nothing stands for "no match".  The language server binaries and the    *)
(* answers of gts-lsp are external.                                        *)
(***************************************************************************)
EXTENDS Naturals, SequencesExt

NoFile  == "no file"
Nothing == [root |-> 0, lang |-> "none", config |-> NoFile]

\* Variant: a more specific marker further up wins over a nearer one.
FindUpSpecific(tree, start, markers) ==
  LET found == {f \in (DOMAIN markers) \X (start .. Len(tree)) : markers[f[1]] \in tree[f[2]]}
  IN IF found = {} THEN 0
     ELSE (CHOOSE f \in found : \A g \in found : f[1] < g[1] \/ (f[1] = g[1] /\ f[2] <= g[2]))[2]

\* The nearest directory that holds any of the markers, 0 if none does.
FindUp(tree, start, markers) ==
  LET found == {d \in start .. Len(tree) : tree[d] \cap ToSet(markers) # {}}
  IN IF found = {} THEN 0 ELSE Min(found)

\* The first of the markers in a directory.
MarkerAt(tree, dir, markers) ==
  LET here == {i \in DOMAIN markers : markers[i] \in tree[dir]}
  IN IF here = {} THEN NoFile ELSE markers[Min(here)]

-----------------------------------------------------------------------------
(* MarkerResolver and its presets.                                         *)

Preset(lang, exts, markers) ==
  [lang |-> [e \in exts |-> lang], markers |-> markers, mandatory |-> FALSE]

React(preset, ext, lang) == [preset EXCEPT !.lang[ext] = lang]

nodeMarkers == <<"tsconfig.json", "jsconfig.json", "package.json">>
cMarkers    == <<"compile_commands.json">>

PythonResolver == Preset("python", {".py", ".pyi"},
                         <<"pyrightconfig.json", "pyproject.toml", "setup.py", "setup.cfg">>)
TypeScriptResolver == React(Preset("typescript", {".ts", ".tsx", ".mts", ".cts"}, nodeMarkers),
                            ".tsx", "typescriptreact")
JavaScriptResolver == React(Preset("javascript", {".js", ".mjs", ".cjs", ".jsx"}, nodeMarkers),
                            ".jsx", "javascriptreact")
RustResolver    == Preset("rust", {".rs"}, <<"Cargo.toml">>)
DartResolver    == Preset("dart", {".dart"}, <<"pubspec.yaml">>)
AngularResolver == [Preset("html", {".html"}, <<"angular.json">>) EXCEPT !.mandatory = TRUE]
CResolver       == Preset("c", {".c", ".h"}, cMarkers)
CppResolver     == Preset("cpp", {".cc", ".cpp", ".cxx", ".c++", ".hh", ".hpp", ".hxx", ".h++"}, cMarkers)
BashResolver    == Preset("shellscript", {".sh", ".bash"}, <<".git">>)

DefaultChain == <<PythonResolver, TypeScriptResolver, JavaScriptResolver, RustResolver, DartResolver,
                  AngularResolver, CResolver, CppResolver, BashResolver>>

Resolve(r, tree, file) ==
  LET found == FindUp(tree, file.dir, r.markers)
      root  == IF found = 0 THEN file.dir ELSE found
  IN IF file.ext \notin DOMAIN r.lang \/ (found = 0 /\ r.mandatory) THEN Nothing
     ELSE [root |-> root, lang |-> r.lang[file.ext], config |-> MarkerAt(tree, root, r.markers)]

\* FallbackResolver, with the language gts-lsp detects ("none": it declines).
ResolveFallback(detected, tree, file) ==
  LET found == FindUp(tree, file.dir, <<".git">>)
  IN IF detected = "none" THEN Nothing
     ELSE IF found = 0 THEN [root |-> file.dir, lang |-> detected, config |-> NoFile]
     ELSE [root |-> found, lang |-> detected, config |-> MarkerAt(tree, found, <<".git">>)]

\* Chain.Resolve: the first match, the fallback last.
ResolveChain(chain, detected, tree, file) ==
  LET claims == {i \in DOMAIN chain : Resolve(chain[i], tree, file) # Nothing}
  IN IF claims = {} THEN ResolveFallback(detected, tree, file)
     ELSE Resolve(chain[Min(claims)], tree, file)

\* Broker.resolveContext: the query may name the language itself ("none": it does not).
ResolveContext(chain, detected, tree, file, language) ==
  LET pc == ResolveChain(chain, detected, tree, file)
  IN IF pc = Nothing
       THEN IF language = "none" THEN Nothing ELSE [root |-> file.dir, lang |-> language, config |-> NoFile]
       ELSE IF language = "none" THEN pc ELSE [pc EXCEPT !.lang = language]

-----------------------------------------------------------------------------
(* The server of a context.                                                *)

\* A command that is not on the PATH is an error.
NoSpec == [command |-> "none", args |-> <<>>, dir |-> 0]
Spec(command, args, dir, installed) ==
  IF command \in installed THEN [command |-> command, args |-> args, dir |-> dir] ELSE NoSpec

PyrightSpec(dir, installed) == Spec("pyright-langserver", <<"--stdio">>, dir, installed)
TypeScriptLanguageServerSpec(dir, installed) == Spec("typescript-language-server", <<"--stdio">>, dir, installed)
RustAnalyzerSpec(dir, installed) == Spec("rust-analyzer", <<>>, dir, installed)
DartAnalysisServerSpec(dir, installed) == Spec("dart", <<"language-server", "--protocol=lsp">>, dir, installed)
AngularLanguageServerSpec(dir, installed) ==
  Spec("ngserver", <<"--stdio", "--tsProbeLocations", dir, "--ngProbeLocations", dir>>, dir, installed)
BashLanguageServerSpec(dir, installed) == Spec("bash-language-server", <<"start">>, dir, installed)
GtsLspSpec(dir, installed) == Spec("gts-lsp", <<>>, dir, installed)

\* The directory of the compile commands is named if they are there when the server starts.
ClangdSpec(tree, dir, installed) ==
  Spec("clangd", IF "compile_commands.json" \in tree[dir] THEN <<dir>> ELSE <<>>, dir, installed)

\* DefaultSpecFor: the preset for the language of the context, if there is one.
DefaultSpecFor(pc, tree, installed) ==
  CASE pc.lang = "python" -> PyrightSpec(pc.root, installed)
    [] pc.lang \in {"typescript", "typescriptreact", "javascript", "javascriptreact"} ->
         TypeScriptLanguageServerSpec(pc.root, installed)
    [] pc.lang = "rust" -> RustAnalyzerSpec(pc.root, installed)
    [] pc.lang = "dart" -> DartAnalysisServerSpec(pc.root, installed)
    [] pc.lang = "html" -> AngularLanguageServerSpec(pc.root, installed)
    [] pc.lang \in {"c", "cpp"} -> ClangdSpec(tree, pc.root, installed)
    [] pc.lang = "shellscript" -> BashLanguageServerSpec(pc.root, installed)
    [] OTHER -> NoSpec

Alias(lang) == IF lang = "shellscript" THEN "bash" ELSE lang

\* Fallback.SpecFor: gts-lsp steps in only where the dedicated server is missing.
SpecFor(pc, tree, installed, langs) ==
  LET dedicated == DefaultSpecFor(pc, tree, installed)
  IN IF dedicated # NoSpec \/ Alias(pc.lang) \notin langs THEN dedicated ELSE GtsLspSpec(pc.root, installed)

-----------------------------------------------------------------------------
(* The answers of gts-lsp, cached for the life of the process, failures    *)
(* included: the language of each file, and once the languages it knows.   *)
(* A probe is a run of the binary; its outcome is "none" if it fails or    *)
(* times out.  given is the history of the answers, each with the number   *)
(* of answers that there were when its look-up or its probe began.         *)

Idle == [file |-> "none", begun |-> 0]
NewFallback(callers) == [detect |-> <<>>, flight |-> [c \in callers |-> Idle], given |-> <<>>, langs |-> {}, langsOK |-> FALSE]

Answer(fb, file, lang, begun) == [fb EXCEPT !.given = Append(@, [file |-> file, lang |-> lang, begun |-> begun])]

\* Detect, up to the unlock: the cached answer, or a probe that runs without the lock.
DetectLook(fb, c, file) ==
  IF file \in DOMAIN fb.detect THEN Answer(fb, file, fb.detect[file], Len(fb.given))
  ELSE [fb EXCEPT !.flight[c] = [file |-> file, begun |-> Len(fb.given)]]

\* Detect, from the end of its probe: whatever another caller has stored is overwritten.
DetectStore(fb, c, outcome) ==
  LET f == fb.flight[c]
      stored == [x \in {f.file} \cup DOMAIN fb.detect |-> IF x = f.file THEN outcome ELSE fb.detect[x]]
  IN Answer([fb EXCEPT !.detect = stored, !.flight[c] = Idle], f.file, outcome, f.begun)

\* Supports keeps the lock while it fetches the languages.
Supports(fb, outcome) == IF fb.langsOK THEN fb ELSE [fb EXCEPT !.langsOK = TRUE, !.langs = outcome]

-----------------------------------------------------------------------------
(* What is checked.                                                        *)

Presets == {"pyright-langserver", "typescript-language-server", "rust-analyzer", "dart", "ngserver", "clangd",
            "bash-language-server"}

\* A file is claimed by at most one preset, under a language that has a server, which
\* is started in the root, clangd with the compile commands the resolver has found;
\* its root is the nearest directory with a marker of that preset, however
\* specific the markers further up are; and whatever lies between the file and
\* that root resolves to the same root: a project has one session, also for files
\* in its subdirectories.  The fallback and a language named by the query never
\* displace a preset's root.
ResolutionSound(tree, file, detected, language) ==
  LET pc      == ResolveContext(DefaultChain, detected, tree, file, language)
      claims  == {i \in DOMAIN DefaultChain : Resolve(DefaultChain[i], tree, file) # Nothing}
      preset  == DefaultChain[CHOOSE i \in claims : TRUE]
      marks   == IF claims = {} THEN {".git"} ELSE ToSet(preset.markers)
      spec    == DefaultSpecFor(pc, tree, Presets)
      between == {[file EXCEPT !.dir = d] : d \in file.dir .. pc.root}
  IN /\ Cardinality(claims) <= 1
     /\ claims # {} /\ language = "none" =>
          spec # NoSpec /\ spec.dir = pc.root /\ (spec.command = "clangd" => (spec.args # <<>> <=> pc.config # NoFile))
     /\ pc = Nothing <=> claims = {} /\ detected = "none" /\ language = "none"
     /\ pc # Nothing /\ (claims # {} \/ detected # "none") =>
          /\ \A d \in file.dir .. pc.root - 1 : tree[d] \cap marks = {}
          /\ tree[pc.root] \cap marks = {} => pc.root = file.dir /\ \A d \in DOMAIN tree : d >= pc.root => tree[d] \cap marks = {}
          /\ pc.config # NoFile => \A f \in between : ResolveContext(DefaultChain, detected, tree, f, language) = pc

\* A dedicated server wins whenever it is installed; gts-lsp serves only a language
\* it had a grammar for when it was first asked; and no other error takes the place of
\* the original one.
SpecSound(lang, installed, first, second) ==
  LET langs == Supports(Supports(NewFallback({}), first), second).langs
      pc    == [root |-> 1, lang |-> lang, config |-> NoFile]
      own   == DefaultSpecFor(pc, <<{}>>, installed)
      spec  == SpecFor(pc, <<{}>>, installed, langs)
  IN /\ own # NoSpec => spec = own
     /\ spec.command = "gts-lsp" => "gts-lsp" \in installed /\ Alias(lang) \in first
     /\ spec = NoSpec => ~("gts-lsp" \in installed /\ Alias(lang) \in first)

\* The language of a file does not change between two answers, and with it the session the
\* file is served by, unless a probe that was under way at the first of them ended between
\* the two.
DetectSteady(fb) ==
  \A i \in DOMAIN fb.given, j \in DOMAIN fb.given :
    i < j /\ fb.given[i].file = fb.given[j].file /\ fb.given[i].lang # fb.given[j].lang =>
      \E k \in i + 1 .. j : fb.given[k].file = fb.given[j].file /\ fb.given[k].begun < i
=============================================================================
