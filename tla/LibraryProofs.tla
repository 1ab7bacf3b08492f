---------------------------- MODULE LibraryProofs ----------------------------
(***************************************************************************)
(* Theorems about the algorithms that MCLibrary checks on small inputs,    *)
(* for every input: the root, language and server of a file in Resolution, *)
(* the subtrees of an Org document, the words and token types of gts-lsp,  *)
(* the findings of the linters and the schema cache (Validators), what the *)
(* client library reads (ClientReads), the verdict of lspdoctor (Doctor),  *)
(* and as state machines the cache of detected languages, the Org index    *)
(* and the engines of a grammar.  Four theorems of Library's specification *)
(* put them together, with those of TextProofs.                            *)
(***************************************************************************)
EXTENDS TextProofs, Library, OrgText

Gts == INSTANCE GtsFeatures

-----------------------------------------------------------------------------
(* The root, language and server of a file (Resolution).                   *)

\* A directory has one of some markers.
Marked(tree, d, markers) == tree[d] \cap ToSet(markers) # {}

\* FindUp returns the nearest directory with a marker, or 0 if there is none.
LEMMA NearestMarker ==
  ASSUME NEW tree, Len(tree) \in Nat, NEW start \in Nat \ {0}, NEW markers,
         NEW r, r = FindUp(tree, start, markers)
  PROVE  \/ /\ r = 0
            /\ \A d \in start .. Len(tree) : ~Marked(tree, d, markers)
         \/ /\ r \in start .. Len(tree)
            /\ Marked(tree, r, markers)
            /\ \A d \in start .. Len(tree) : d < r => ~Marked(tree, d, markers)
<1> DEFINE found == {d \in start .. Len(tree) : tree[d] \cap ToSet(markers) # {}}
<1>1. /\ found \in SUBSET Nat
      /\ \A d : d \in found <=> d \in start .. Len(tree) /\ Marked(tree, d, markers)
  BY DEF Marked
<1>2. r = IF found = {} THEN 0 ELSE Min(found)
  BY DEF FindUp
<1> HIDE DEF found
<1>3. CASE found = {}
  BY <1>1, <1>2, <1>3
<1>4. CASE found # {}
  <2>1. r \in found /\ \A y \in found : r <= y
    BY <1>1, <1>2, <1>4, SmallestOf
  <2>2. \A d \in start .. Len(tree) : d < r => d \notin found
    BY <1>1, <2>1
  <2> QED
    BY <1>1, <2>1, <2>2
<1> QED
  BY <1>3, <1>4

\* Seen from any directory between a file and the nearest marked one, that one is nearest.
LEMMA SameFromBetween ==
  ASSUME NEW tree, Len(tree) \in Nat, NEW start \in Nat \ {0}, NEW markers,
         FindUp(tree, start, markers) # 0,
         NEW d \in start .. FindUp(tree, start, markers)
  PROVE  FindUp(tree, d, markers) = FindUp(tree, start, markers)
<1> DEFINE r == FindUp(tree, start, markers)
           s == FindUp(tree, d, markers)
<1>1. /\ r \in start .. Len(tree)
      /\ Marked(tree, r, markers)
      /\ \A x \in start .. Len(tree) : x < r => ~Marked(tree, x, markers)
  BY NearestMarker
<1>2. d \in Nat \ {0} /\ start <= d /\ d <= r
  BY <1>1
<1>3. \/ /\ s = 0
         /\ \A x \in d .. Len(tree) : ~Marked(tree, x, markers)
      \/ /\ s \in d .. Len(tree)
         /\ Marked(tree, s, markers)
         /\ \A x \in d .. Len(tree) : x < s => ~Marked(tree, x, markers)
  BY <1>2, NearestMarker
<1> HIDE DEF r, s
<1>4. r \in d .. Len(tree)
  BY <1>1, <1>2
<1>5. s \in d .. Len(tree) /\ Marked(tree, s, markers) /\ ~(r < s)
  BY <1>1, <1>3, <1>4
<1>6. s \in start .. Len(tree)
  BY <1>2, <1>5
<1>7. ~(s < r)
  BY <1>1, <1>5, <1>6
<1>8. s = r
  BY <1>4, <1>5, <1>7
<1> QED
  BY <1>8 DEF r, s

\* Where nothing is marked from a file up, nothing is from higher up.
LEMMA NothingFromAbove ==
  ASSUME NEW tree, Len(tree) \in Nat, NEW start \in Nat \ {0}, NEW markers,
         FindUp(tree, start, markers) = 0, NEW d \in Nat, d >= start
  PROVE  FindUp(tree, d, markers) = 0
<1>1. \A x \in start .. Len(tree) : ~Marked(tree, x, markers)
  BY NearestMarker
<1>2. d \in Nat \ {0} /\ \A x \in d .. Len(tree) : x \in start .. Len(tree)
  OBVIOUS
<1>3. \A x \in d .. Len(tree) : ~Marked(tree, x, markers)
  BY <1>1, <1>2
<1> DEFINE s == FindUp(tree, d, markers)
<1>4. s = 0 \/ (s \in d .. Len(tree) /\ Marked(tree, s, markers))
  BY <1>2, NearestMarker
<1> QED
  BY <1>3, <1>4

\* A directory has a first marker exactly if it is marked.
LEMMA MarkerOfMarked ==
  ASSUME NEW tree, NEW d, NEW markers, ~Marked(tree, d, markers)
  PROVE  MarkerAt(tree, d, markers) = NoFile
BY DEF MarkerAt, Marked, ToSet

\* A context with a configuration file was found by a marker.
LEMMA ResolveParts ==
  ASSUME NEW tree, Len(tree) \in Nat, NEW file \in [dir : Nat \ {0}, ext : STRING], NEW r,
         NEW found, found = FindUp(tree, file.dir, r.markers)
  PROVE  /\ Resolve(r, tree, file) # Nothing <=> file.ext \in DOMAIN r.lang /\ ~(found = 0 /\ r.mandatory)
         /\ Resolve(r, tree, file) # Nothing =>
              Resolve(r, tree, file) = [root   |-> IF found = 0 THEN file.dir ELSE found,
                                        lang   |-> r.lang[file.ext],
                                        config |-> MarkerAt(tree, IF found = 0 THEN file.dir ELSE found, r.markers)]
<1>1. found \in Nat
  BY NearestMarker
<1>2. (IF found = 0 THEN file.dir ELSE found) # 0
  OBVIOUS
<1>3. \A l, c : [root |-> IF found = 0 THEN file.dir ELSE found, lang |-> l, config |-> c] # Nothing
  BY <1>2 DEF Nothing
<1> QED
  BY <1>3 DEF Resolve

\* What a resolver answers, if it answers.
Context(x) == \E a \in Nat : \E l, c : x = [root |-> a, lang |-> l, config |-> c]

\* Where a resolver has found a root by a marker, it finds the same from in between.
LEMMA OneResolverKeeps ==
  ASSUME NEW tree, Len(tree) \in Nat, NEW file \in [dir : Nat \ {0}, ext : STRING], file.dir <= Len(tree), NEW r,
         NEW f \in [dir : Nat \ {0}, ext : STRING], f.ext = file.ext, file.dir <= f.dir
  PROVE  /\ Resolve(r, tree, f) # Nothing => Resolve(r, tree, file) # Nothing
         /\ Context(Resolve(r, tree, file))
         /\ Resolve(r, tree, file) # Nothing /\ Resolve(r, tree, file).config # NoFile /\ f.dir <= Resolve(r, tree, file).root
              => Resolve(r, tree, f) = Resolve(r, tree, file)
<1> DEFINE m == FindUp(tree, file.dir, r.markers)
           n == FindUp(tree, f.dir, r.markers)
<1>2. /\ Resolve(r, tree, file) # Nothing <=> file.ext \in DOMAIN r.lang /\ ~(m = 0 /\ r.mandatory)
      /\ Resolve(r, tree, file) # Nothing =>
           Resolve(r, tree, file) = [root   |-> IF m = 0 THEN file.dir ELSE m,
                                     lang   |-> r.lang[file.ext],
                                     config |-> MarkerAt(tree, IF m = 0 THEN file.dir ELSE m, r.markers)]
  BY ResolveParts
<1>3. /\ Resolve(r, tree, f) # Nothing <=> file.ext \in DOMAIN r.lang /\ ~(n = 0 /\ r.mandatory)
      /\ Resolve(r, tree, f) # Nothing =>
           Resolve(r, tree, f) = [root   |-> IF n = 0 THEN f.dir ELSE n,
                                  lang   |-> r.lang[file.ext],
                                  config |-> MarkerAt(tree, IF n = 0 THEN f.dir ELSE n, r.markers)]
  BY ResolveParts
<1>4. m = 0 => n = 0
  BY NothingFromAbove
<1>5. m # 0 /\ f.dir <= m => n = m
  <2> SUFFICES ASSUME m # 0, f.dir <= m PROVE n = m
    OBVIOUS
  <2>1. m \in Nat
    BY NearestMarker
  <2>2. f.dir \in file.dir .. m
    BY <2>1
  <2> QED
    BY <2>2, SameFromBetween
<1>6. m = 0 => MarkerAt(tree, file.dir, r.markers) = NoFile
  <2> SUFFICES ASSUME m = 0 PROVE MarkerAt(tree, file.dir, r.markers) = NoFile
    OBVIOUS
  <2>1. file.dir \in file.dir .. Len(tree)
    OBVIOUS
  <2>2. ~Marked(tree, file.dir, r.markers)
    BY <2>1, NearestMarker
  <2> QED
    BY <2>2, MarkerOfMarked
<1>0. m \in Nat
  BY NearestMarker
<1> HIDE DEF m, n
<1>7. Context(Resolve(r, tree, file))
  <2>1. CASE Resolve(r, tree, file) = Nothing
    BY <2>1 DEF Context, Nothing
  <2>2. CASE Resolve(r, tree, file) # Nothing
    <3>1. (IF m = 0 THEN file.dir ELSE m) \in Nat
      BY <1>0
    <3> QED
      BY <1>2, <2>2, <3>1 DEF Context
  <2> QED
    BY <2>1, <2>2
<1> QED
  BY <1>2, <1>3, <1>4, <1>5, <1>6, <1>7

\* And so does the fallback on .git.
LEMMA FallbackKeeps ==
  ASSUME NEW tree, Len(tree) \in Nat, NEW file \in [dir : Nat \ {0}, ext : STRING], NEW detected,
         NEW f \in [dir : Nat \ {0}, ext : STRING], f.ext = file.ext, file.dir <= f.dir, NEW pc, pc = ResolveFallback(detected, tree, file)
  PROVE  /\ Context(pc)
         /\ pc.config # NoFile /\ f.dir <= pc.root => ResolveFallback(detected, tree, f) = pc
<1> DEFINE m == FindUp(tree, file.dir, <<".git">>)
           n == FindUp(tree, f.dir, <<".git">>)
<1>2. m # 0 /\ f.dir <= m => n = m
  <2> SUFFICES ASSUME m # 0, f.dir <= m PROVE n = m
    OBVIOUS
  <2>1. m \in Nat
    BY NearestMarker
  <2>2. f.dir \in file.dir .. m
    BY <2>1
  <2> QED
    BY <2>2, SameFromBetween
<1>3. /\ pc = IF detected = "none" THEN Nothing
              ELSE IF m = 0 THEN [root |-> file.dir, lang |-> detected, config |-> NoFile]
              ELSE [root |-> m, lang |-> detected, config |-> MarkerAt(tree, m, <<".git">>)]
      /\ ResolveFallback(detected, tree, f) =
              IF detected = "none" THEN Nothing
              ELSE IF n = 0 THEN [root |-> f.dir, lang |-> detected, config |-> NoFile]
              ELSE [root |-> n, lang |-> detected, config |-> MarkerAt(tree, n, <<".git">>)]
  BY DEF ResolveFallback
<1>4. m \in Nat
  BY NearestMarker
<1> HIDE DEF m, n
<1>5. Context(pc)
  BY <1>3, <1>4 DEF Context, Nothing
<1>6. pc.config # NoFile /\ f.dir <= pc.root => m # 0 /\ pc.root = m /\ detected # "none"
  BY <1>3, <1>4 DEF Nothing
<1> QED
  BY <1>2, <1>3, <1>5, <1>6

\* And so does a chain of resolvers, whatever those before the one that answers.
LEMMA ChainKeeps ==
  ASSUME NEW chain, DOMAIN chain \in SUBSET Nat, NEW detected,
         NEW tree, Len(tree) \in Nat, NEW file \in [dir : Nat \ {0}, ext : STRING], file.dir <= Len(tree),
         NEW f \in [dir : Nat \ {0}, ext : STRING], f.ext = file.ext, file.dir <= f.dir, NEW pc, pc = ResolveChain(chain, detected, tree, file)
  PROVE  /\ Context(pc)
         /\ pc.config # NoFile /\ f.dir <= pc.root => ResolveChain(chain, detected, tree, f) = pc
<1> DEFINE x(r) == Resolve(r, tree, file)
           y(r) == Resolve(r, tree, f)
<1>0. \A r : /\ y(r) # Nothing => x(r) # Nothing
             /\ Context(x(r))
             /\ x(r) # Nothing /\ x(r).config # NoFile /\ f.dir <= x(r).root => y(r) = x(r)
  BY OneResolverKeeps
<1> DEFINE claims(g) == {i \in DOMAIN chain : Resolve(chain[i], tree, g) # Nothing}
<1>1. /\ claims(f) \subseteq claims(file)
      /\ claims(f) \in SUBSET Nat /\ claims(file) \in SUBSET Nat
  BY <1>0
<1>2. /\ pc = IF claims(file) = {} THEN ResolveFallback(detected, tree, file)
              ELSE Resolve(chain[Min(claims(file))], tree, file)
      /\ ResolveChain(chain, detected, tree, f) =
              IF claims(f) = {} THEN ResolveFallback(detected, tree, f)
              ELSE Resolve(chain[Min(claims(f))], tree, f)
  BY DEF ResolveChain
<1>3. \A g, i : i \in claims(g) <=> i \in DOMAIN chain /\ Resolve(chain[i], tree, g) # Nothing
  OBVIOUS
<1>r. \A p : p = ResolveFallback(detected, tree, file) =>
        Context(p) /\ (p.config # NoFile /\ f.dir <= p.root => ResolveFallback(detected, tree, f) = p)
  BY FallbackKeeps
<1> HIDE DEF claims
<1>4. CASE claims(file) = {}
  <2>1. claims(f) = {}
    BY <1>1, <1>4
  <2> QED
    BY <1>2, <1>4, <1>r, <2>1
<1>5. CASE claims(file) # {}
  <2> DEFINE i == Min(claims(file))
  <2>1. i \in claims(file) /\ \A j \in claims(file) : i <= j
    BY <1>1, <1>5, SmallestOf
  <2>2. pc = Resolve(chain[i], tree, file) /\ pc # Nothing
    BY <1>2, <1>3, <1>5, <2>1
  <2>3. Context(pc)
    BY <1>0, <2>2
  <2>4. ASSUME pc.config # NoFile, f.dir <= pc.root PROVE ResolveChain(chain, detected, tree, f) = pc
    <3>1. Resolve(chain[i], tree, f) = pc
      BY <1>0, <2>2, <2>4
    <3>2. i \in claims(f)
      BY <1>3, <2>1, <2>2, <3>1
    <3>3. Min(claims(f)) \in claims(f) /\ \A j \in claims(f) : Min(claims(f)) <= j
      BY <1>1, <3>2, SmallestOf
    <3>4. Min(claims(f)) = i
      <4>1. Min(claims(f)) <= i /\ i <= Min(claims(f))
        BY <1>1, <2>1, <3>2, <3>3
      <4>2. Min(claims(f)) \in Nat /\ i \in Nat
        BY <1>1, <2>1, <3>3
      <4> HIDE DEF i
      <4> QED
        BY <4>1, <4>2
    <3> QED
      BY <1>2, <3>1, <3>2, <3>4
  <2> QED
    BY <2>3, <2>4
<1> QED
  BY <1>4, <1>5

\* Whatever the resolvers and their order, a project has one context: every directory from a
\* file up to the root that a marker gave it leads to the same root, language and
\* configuration, so that the broker keeps one session for it.
THEOREM ProjectHasOneContext ==
  ASSUME NEW chain, DOMAIN chain \in SUBSET Nat, NEW detected, NEW language,
         NEW tree, Len(tree) \in Nat, NEW file \in [dir : Nat \ {0}, ext : STRING], file.dir <= Len(tree),
         NEW pc, pc = ResolveContext(chain, detected, tree, file, language), pc.config # NoFile,
         NEW d \in Nat, file.dir <= d, d <= pc.root
  PROVE  ResolveContext(chain, detected, tree, [file EXCEPT !.dir = d], language) = pc
<1> DEFINE f == [file EXCEPT !.dir = d]
           x == ResolveChain(chain, detected, tree, file)
           y == ResolveChain(chain, detected, tree, f)
<1>1. f \in [dir : Nat \ {0}, ext : STRING] /\ f.ext = file.ext /\ f.dir = d
  OBVIOUS
<1> HIDE DEF f
<1>2. Context(x) /\ (x.config # NoFile /\ d <= x.root => y = x)
  BY <1>1, ChainKeeps
<1>3. /\ pc = IF x = Nothing
                THEN IF language = "none" THEN Nothing ELSE [root |-> file.dir, lang |-> language, config |-> NoFile]
                ELSE IF language = "none" THEN x ELSE [x EXCEPT !.lang = language]
      /\ ResolveContext(chain, detected, tree, f, language) =
              IF y = Nothing
                THEN IF language = "none" THEN Nothing ELSE [root |-> f.dir, lang |-> language, config |-> NoFile]
                ELSE IF language = "none" THEN y ELSE [y EXCEPT !.lang = language]
  BY DEF ResolveContext
<1> HIDE DEF x, y
<1>4. x # Nothing
  BY <1>3 DEF Nothing
<1>5. x.config = pc.config /\ x.root = pc.root
  BY <1>2, <1>3, <1>4 DEF Context
<1>6. ResolveContext(chain, detected, tree, f, language) = pc
  BY <1>2, <1>3, <1>4, <1>5
<1> QED
  BY <1>6 DEF f

\* The extensions each preset claims, in the order of the chain.
Exts == <<{".py", ".pyi"}, {".ts", ".tsx", ".mts", ".cts"}, {".js", ".mjs", ".cjs", ".jsx"}, {".rs"}, {".dart"}, {".html"},
          {".c", ".h"}, {".cc", ".cpp", ".cxx", ".c++", ".hh", ".hpp", ".hxx", ".h++"}, {".sh", ".bash"}>>

\* The chain has nine presets.
LEMMA ChainLength == DOMAIN DefaultChain = 1 .. 9 /\ DOMAIN Exts = 1 .. 9
BY DEF DefaultChain, Exts

\* Each of them maps its extensions to languages.
LEMMA PresetExts == \A i \in 1 .. 9 : DOMAIN DefaultChain[i].lang = Exts[i]
<1>1. DOMAIN PythonResolver.lang = Exts[1]
  BY DEF PythonResolver, Preset, Exts
<1>2. DOMAIN TypeScriptResolver.lang = Exts[2]
  BY DEF TypeScriptResolver, Preset, React, Exts
<1>3. DOMAIN JavaScriptResolver.lang = Exts[3]
  BY DEF JavaScriptResolver, Preset, React, Exts
<1>4. DOMAIN RustResolver.lang = Exts[4]
  BY DEF RustResolver, Preset, Exts
<1>5. DOMAIN DartResolver.lang = Exts[5]
  BY DEF DartResolver, Preset, Exts
<1>6. DOMAIN AngularResolver.lang = Exts[6]
  BY DEF AngularResolver, Preset, Exts
<1>7. DOMAIN CResolver.lang = Exts[7]
  BY DEF CResolver, Preset, Exts
<1>8. DOMAIN CppResolver.lang = Exts[8]
  BY DEF CppResolver, Preset, Exts
<1>9. DOMAIN BashResolver.lang = Exts[9]
  BY DEF BashResolver, Preset, Exts
<1> QED
  BY <1>1, <1>2, <1>3, <1>4, <1>5, <1>6, <1>7, <1>8, <1>9 DEF DefaultChain

\* No extension belongs to two of them.
LEMMA ExtsApart == \A i, j \in 1 .. 9 : \A e : e \in Exts[i] /\ e \in Exts[j] => i = j
BY DEF Exts

\* No file is claimed by two presets.
LEMMA OnePresetClaims ==
  ASSUME NEW tree, Len(tree) \in Nat, NEW file \in [dir : Nat \ {0}, ext : STRING],
         NEW i \in DOMAIN DefaultChain, NEW j \in DOMAIN DefaultChain,
         Resolve(DefaultChain[i], tree, file) # Nothing, Resolve(DefaultChain[j], tree, file) # Nothing
  PROVE  i = j
<1>1. file.ext \in DOMAIN DefaultChain[i].lang
  BY ResolveParts
<1>2. file.ext \in DOMAIN DefaultChain[j].lang
  BY ResolveParts
<1>3. i \in 1 .. 9 /\ j \in 1 .. 9
  BY ChainLength
<1>4. file.ext \in Exts[i] /\ file.ext \in Exts[j]
  BY <1>1, <1>2, <1>3, PresetExts
<1> QED
  BY <1>3, <1>4, ExtsApart

\* A language of a preset is served in the root of the context.
LEMMA SpecOfPreset ==
  ASSUME NEW i \in 1 .. 9, NEW e \in Exts[i], NEW tree, NEW pc, pc.lang = DefaultChain[i].lang[e]
  PROVE  /\ DefaultSpecFor(pc, tree, Presets) # NoSpec
         /\ DefaultSpecFor(pc, tree, Presets).dir = pc.root
         /\ DefaultSpecFor(pc, tree, Presets).command = "clangd" =>
              /\ DefaultChain[i].markers = <<"compile_commands.json">>
              /\ DefaultSpecFor(pc, tree, Presets).args # <<>> <=> "compile_commands.json" \in tree[pc.root]
<1>1. CASE i = 1
  <2>1. pc.lang = "python"
    BY <1>1 DEF Exts, DefaultChain, PythonResolver, Preset
  <2> QED
    BY <2>1 DEF DefaultSpecFor, PyrightSpec, Spec, NoSpec, Presets
<1>2. CASE i = 2
  <2>1. pc.lang \in {"typescript", "typescriptreact"}
    BY <1>2 DEF Exts, DefaultChain, TypeScriptResolver, Preset, React
  <2> QED
    BY <2>1 DEF DefaultSpecFor, TypeScriptLanguageServerSpec, Spec, NoSpec, Presets
<1>3. CASE i = 3
  <2>1. pc.lang \in {"javascript", "javascriptreact"}
    BY <1>3 DEF Exts, DefaultChain, JavaScriptResolver, Preset, React
  <2> QED
    BY <2>1 DEF DefaultSpecFor, TypeScriptLanguageServerSpec, Spec, NoSpec, Presets
<1>4. CASE i = 4
  <2>1. pc.lang = "rust"
    BY <1>4 DEF Exts, DefaultChain, RustResolver, Preset
  <2> QED
    BY <2>1 DEF DefaultSpecFor, RustAnalyzerSpec, Spec, NoSpec, Presets
<1>5. CASE i = 5
  <2>1. pc.lang = "dart"
    BY <1>5 DEF Exts, DefaultChain, DartResolver, Preset
  <2> QED
    BY <2>1 DEF DefaultSpecFor, DartAnalysisServerSpec, Spec, NoSpec, Presets
<1>6. CASE i = 6
  <2>1. pc.lang = "html"
    BY <1>6 DEF Exts, DefaultChain, AngularResolver, Preset
  <2> QED
    BY <2>1 DEF DefaultSpecFor, AngularLanguageServerSpec, Spec, NoSpec, Presets
<1>7. CASE i \in {7, 8}
  <2>1. pc.lang \in {"c", "cpp"} /\ DefaultChain[i].markers = <<"compile_commands.json">>
    BY <1>7 DEF Exts, DefaultChain, CResolver, CppResolver, cMarkers, Preset
  <2>2. DefaultSpecFor(pc, tree, Presets) = ClangdSpec(tree, pc.root, Presets)
    BY <2>1 DEF DefaultSpecFor
  <2> QED
    BY SMTT(30), <2>1, <2>2 DEF ClangdSpec, Spec, NoSpec, Presets
<1>8. CASE i = 9
  <2>1. pc.lang = "shellscript"
    BY <1>8 DEF Exts, DefaultChain, BashResolver, Preset
  <2> QED
    BY <2>1 DEF DefaultSpecFor, BashLanguageServerSpec, Spec, NoSpec, Presets
<1> QED
  BY <1>1, <1>2, <1>3, <1>4, <1>5, <1>6, <1>7, <1>8

\* What the resolver that claims a file finds, and from where.
LEMMA ClaimedContext ==
  ASSUME NEW markers, NEW tree, Len(tree) \in Nat, NEW file \in [dir : Nat \ {0}, ext : STRING], file.dir <= Len(tree),
         NEW root, NEW marks, marks = ToSet(markers),
         root = IF FindUp(tree, file.dir, markers) = 0 THEN file.dir ELSE FindUp(tree, file.dir, markers)
  PROVE  /\ root \in 1 .. Len(tree)
         /\ \A d \in file.dir .. root - 1 : tree[d] \cap marks = {}
         /\ tree[root] \cap marks = {} =>
              root = file.dir /\ \A d \in root .. Len(tree) : tree[d] \cap marks = {}
<1> DEFINE m == FindUp(tree, file.dir, markers)
<1>1. \/ /\ m = 0
         /\ \A d \in file.dir .. Len(tree) : tree[d] \cap marks = {}
      \/ /\ m \in file.dir .. Len(tree)
         /\ tree[m] \cap marks # {}
         /\ \A d \in file.dir .. Len(tree) : d < m => tree[d] \cap marks = {}
  BY NearestMarker DEF Marked
<1> HIDE DEF m
<1>2. CASE m = 0
  <2>1. root = file.dir
    BY <1>2 DEF m
  <2>2. \A d \in file.dir .. root - 1 : FALSE
    BY <2>1
  <2>3. \A d \in file.dir .. Len(tree) : tree[d] \cap marks = {}
    BY <1>1, <1>2
  <2>4. root \in 1 .. Len(tree)
    BY <2>1
  <2>5. \A d \in root .. Len(tree) : tree[d] \cap marks = {}
    <3> SUFFICES ASSUME NEW d \in root .. Len(tree) PROVE tree[d] \cap marks = {}
      OBVIOUS
    <3> QED
      BY <2>1, <2>3
  <2> QED
    BY <2>1, <2>2, <2>4, <2>5
<1>3. CASE m # 0
  BY <1>1, <1>3 DEF m
<1> QED
  BY <1>2, <1>3

\* Of a single marker, MarkerAt tells whether it is there.
LEMMA OnlyMarker ==
  ASSUME NEW tree, NEW dir, NEW marker, marker # NoFile
  PROVE  MarkerAt(tree, dir, <<marker>>) # NoFile <=> marker \in tree[dir]
<1> DEFINE here == {i \in DOMAIN <<marker>> : <<marker>>[i] \in tree[dir]}
<1>1. here = IF marker \in tree[dir] THEN {1} ELSE {}
  OBVIOUS
<1>2. MarkerAt(tree, dir, <<marker>>) = IF here = {} THEN NoFile ELSE <<marker>>[Min(here)]
  BY DEF MarkerAt
<1>3. {1} \in SUBSET Nat /\ {1} # {}
  OBVIOUS
<1> HIDE DEF here
<1>4. here # {} => Min(here) = 1
  BY <1>1, <1>3, SmallestOf
<1> QED
  BY <1>1, <1>2, <1>4

\* What the run `library` checks of small trees holds for every tree: one preset at most claims
\* a file; its root is the nearest directory with a marker of that preset; a server for its
\* language is started there; and what lies between them has the same context.
THEOREM ResolutionIsSound ==
  ASSUME NEW tree \in Seq(SUBSET STRING), NEW file \in [dir : 1 .. Len(tree), ext : STRING],
         NEW detected \in STRING, NEW language \in STRING
  PROVE  ResolutionSound(tree, file, detected, language)
<1> DEFINE pc      == ResolveContext(DefaultChain, detected, tree, file, language)
           x       == ResolveChain(DefaultChain, detected, tree, file)
           claims  == {i \in DOMAIN DefaultChain : Resolve(DefaultChain[i], tree, file) # Nothing}
           one     == CHOOSE i \in claims : TRUE
           preset  == DefaultChain[one]
           marks   == IF claims = {} THEN {".git"} ELSE ToSet(preset.markers)
           spec    == DefaultSpecFor(pc, tree, Presets)
           between == {[file EXCEPT !.dir = d] : d \in file.dir .. pc.root}
<1>1. /\ Len(tree) \in Nat /\ DOMAIN tree = 1 .. Len(tree)
      /\ file \in [dir : Nat \ {0}, ext : STRING] /\ file.dir <= Len(tree)
      /\ DOMAIN DefaultChain \in SUBSET Nat
  BY ChainLength
<1>2. /\ \A i, j \in claims : i = j
      /\ claims \in SUBSET Nat
      /\ \A i \in claims : i \in 1 .. 9 /\ Resolve(DefaultChain[i], tree, file) # Nothing
  BY <1>1, OnePresetClaims, ChainLength
<1>3. Cardinality(claims) <= 1
  <2>1. CASE claims = {}
    <3>1. Cardinality(claims) = 0
      BY <2>1, FS_EmptySet, Zenon
    <3> QED
      BY <3>1
  <2>2. CASE claims # {}
    <3>1. claims = {one}
      BY <1>2, <2>2
    <3> HIDE DEF claims, one
    <3>2. Cardinality(claims) = 1
      BY <3>1, FS_Singleton, Zenon
    <3> QED
      BY <3>2
  <2> QED
    BY <2>1, <2>2
<1>4. /\ pc = IF x = Nothing
                THEN IF language = "none" THEN Nothing ELSE [root |-> file.dir, lang |-> language, config |-> NoFile]
                ELSE IF language = "none" THEN x ELSE [x EXCEPT !.lang = language]
  BY DEF ResolveContext
<1>5. x = IF claims = {} THEN ResolveFallback(detected, tree, file) ELSE Resolve(preset, tree, file)
  <2>1. claims # {} => Min(claims) = one
    BY <1>2, SmallestOf
  <2> QED
    BY <2>1 DEF ResolveChain
<1>6. \A r, m : m = FindUp(tree, file.dir, r.markers) /\ Resolve(r, tree, file) # Nothing =>
           /\ file.ext \in DOMAIN r.lang
           /\ Resolve(r, tree, file) = [root   |-> IF m = 0 THEN file.dir ELSE m,
                                        lang   |-> r.lang[file.ext],
                                        config |-> MarkerAt(tree, IF m = 0 THEN file.dir ELSE m, r.markers)]
  BY <1>1, ResolveParts
<1> DEFINE m == FindUp(tree, file.dir, preset.markers)
           g == FindUp(tree, file.dir, <<".git">>)
<1>7. m \in Nat /\ g \in Nat
  BY <1>1, NearestMarker
<1>8. claims # {} =>
        /\ one \in claims /\ x # Nothing /\ file.ext \in DOMAIN preset.lang
        /\ x = [root   |-> IF m = 0 THEN file.dir ELSE m,
                lang   |-> preset.lang[file.ext],
                config |-> MarkerAt(tree, IF m = 0 THEN file.dir ELSE m, preset.markers)]
  BY <1>2, <1>5, <1>6
<1>9. claims = {} =>
        x = IF detected = "none" THEN Nothing
            ELSE IF g = 0 THEN [root |-> file.dir, lang |-> detected, config |-> NoFile]
            ELSE [root |-> g, lang |-> detected, config |-> MarkerAt(tree, g, <<".git">>)]
  BY <1>5 DEF ResolveFallback
<1>10. \A d \in Nat : pc.config # NoFile /\ file.dir <= d /\ d <= pc.root =>
          ResolveContext(DefaultChain, detected, tree, [file EXCEPT !.dir = d], language) = pc
  <2> SUFFICES ASSUME NEW d \in Nat, pc.config # NoFile, file.dir <= d, d <= pc.root
               PROVE  ResolveContext(DefaultChain, detected, tree, [file EXCEPT !.dir = d], language) = pc
    OBVIOUS
  <2>1. pc = ResolveContext(DefaultChain, detected, tree, file, language)
    OBVIOUS
  <2> HIDE DEF pc
  <2> QED
    BY SMTT(30), <1>1, <2>1, ProjectHasOneContext
<1> HIDE DEF pc, x, claims, one, m, g
<1>11. claims # {} /\ language = "none" =>
         spec # NoSpec /\ spec.dir = pc.root /\ (spec.command = "clangd" => (spec.args # <<>> <=> pc.config # NoFile))
  <2> SUFFICES ASSUME claims # {}, language = "none"
               PROVE  spec # NoSpec /\ spec.dir = pc.root /\ (spec.command = "clangd" => (spec.args # <<>> <=> pc.config # NoFile))
    OBVIOUS
  <2> DEFINE root == IF m = 0 THEN file.dir ELSE m
             config == MarkerAt(tree, root, preset.markers)
  <2>1. root \in Nat \ {0}
    BY <1>1, <1>7
  <2>2. pc = [root |-> root, lang |-> preset.lang[file.ext], config |-> config]
    BY <1>4, <1>8
  <2>3. one \in 1 .. 9 /\ file.ext \in Exts[one]
    BY <1>2, <1>8, PresetExts
  <2>6. pc.lang = DefaultChain[one].lang[file.ext] /\ pc.root = root
    BY <2>2
  <2> HIDE DEF root, config
  <2>4. /\ spec # NoSpec /\ spec.dir = root
        /\ spec.command = "clangd" =>
             /\ preset.markers = <<"compile_commands.json">>
             /\ spec.args # <<>> <=> "compile_commands.json" \in tree[root]
    <3>1. \A i \in 1 .. 9 : \A e \in Exts[i] : pc.lang = DefaultChain[i].lang[e] =>
            /\ DefaultSpecFor(pc, tree, Presets) # NoSpec
            /\ DefaultSpecFor(pc, tree, Presets).dir = pc.root
            /\ DefaultSpecFor(pc, tree, Presets).command = "clangd" =>
                 /\ DefaultChain[i].markers = <<"compile_commands.json">>
                 /\ DefaultSpecFor(pc, tree, Presets).args # <<>> <=> "compile_commands.json" \in tree[pc.root]
      BY SpecOfPreset
    <3> QED
      BY <2>3, <2>6, <3>1
  <2>5. preset.markers = <<"compile_commands.json">> => (config # NoFile <=> "compile_commands.json" \in tree[root])
    <3> SUFFICES ASSUME preset.markers = <<"compile_commands.json">>
                 PROVE  config # NoFile <=> "compile_commands.json" \in tree[root]
      OBVIOUS
    <3>1. "compile_commands.json" # NoFile
      BY DEF NoFile
    <3> QED
      BY <3>1, OnlyMarker DEF config
  <2> QED
    BY <2>2, <2>4, <2>5
<1>12. pc = Nothing <=> claims = {} /\ detected = "none" /\ language = "none"
  BY <1>1, <1>4, <1>7, <1>8, <1>9 DEF Nothing
<1>13. ASSUME pc # Nothing, claims # {} \/ detected # "none"
       PROVE  /\ \A d \in file.dir .. pc.root - 1 : tree[d] \cap marks = {}
              /\ tree[pc.root] \cap marks = {} => pc.root = file.dir /\ \A d \in DOMAIN tree : d >= pc.root => tree[d] \cap marks = {}
              /\ pc.config # NoFile => \A f \in between : ResolveContext(DefaultChain, detected, tree, f, language) = pc
  <2> DEFINE ms == IF claims = {} THEN <<".git">> ELSE preset.markers
             n  == FindUp(tree, file.dir, ms)
  <2>1. marks = ToSet(ms)
    <3>1. ToSet(<<".git">>) = {".git"}
      BY DEF ToSet
    <3> QED
      BY <3>1
  <2>2. n = IF claims = {} THEN g ELSE m
    BY DEF m, g
  <2>3. pc.root = IF n = 0 THEN file.dir ELSE n
    BY <1>4, <1>8, <1>9, <1>13, <2>2 DEF Nothing
  <2>4. pc.root \in Nat
    BY <1>1, <1>7, <2>2, <2>3
  <2> HIDE DEF marks, ms
  <2>5. /\ pc.root \in 1 .. Len(tree)
        /\ \A d \in file.dir .. pc.root - 1 : tree[d] \cap marks = {}
        /\ tree[pc.root] \cap marks = {} => pc.root = file.dir /\ \A d \in pc.root .. Len(tree) : tree[d] \cap marks = {}
    BY <1>1, <2>1, <2>3, ClaimedContext DEF n
  <2>6. pc.config # NoFile => \A f \in between : ResolveContext(DefaultChain, detected, tree, f, language) = pc
    BY <1>1, <1>10, <2>4
  <2> QED
    BY <1>1, <2>5, <2>6
<1> QED
  BY <1>3, <1>11, <1>12, <1>13 DEF ResolutionSound, pc, claims, one, marks

\* Whatever is installed and whatever gts-lsp answers: a dedicated server wins, and gts-lsp serves
\* a language exactly if it is installed, had a grammar when it was first asked, and no
\* dedicated server is there.
THEOREM ServerIsSound ==
  ASSUME NEW lang, NEW installed, NEW first, NEW second
  PROVE  SpecSound(lang, installed, first, second)
<1> DEFINE pc    == [root |-> 1, lang |-> lang, config |-> NoFile]
           langs == Supports(Supports(NewFallback({}), first), second).langs
           own   == DefaultSpecFor(pc, <<{}>>, installed)
<1>1. langs = first
  BY DEF Supports, NewFallback
<1>2. pc.lang = lang /\ pc.root = 1
  OBVIOUS
<1>3. own # NoSpec => own.command # "gts-lsp"
  BY DEF DefaultSpecFor, PyrightSpec, TypeScriptLanguageServerSpec, RustAnalyzerSpec, DartAnalysisServerSpec,
         AngularLanguageServerSpec, ClangdSpec, BashLanguageServerSpec, Spec, NoSpec
<1>4. SpecFor(pc, <<{}>>, installed, langs) =
        IF own # NoSpec \/ Alias(lang) \notin first THEN own ELSE GtsLspSpec(1, installed)
  BY <1>1, <1>2 DEF SpecFor
<1>5. NoSpec.command # "gts-lsp"
  BY DEF NoSpec
<1>6. GtsLspSpec(1, installed) = IF "gts-lsp" \in installed THEN [command |-> "gts-lsp", args |-> <<>>, dir |-> 1] ELSE NoSpec
  BY DEF GtsLspSpec, Spec
<1>7. [command |-> "gts-lsp", args |-> <<>>, dir |-> 1] # NoSpec
  BY DEF NoSpec
<1> DEFINE spec == SpecFor(pc, <<{}>>, installed, langs)
<1> HIDE DEF own, pc, langs
<1>8. own # NoSpec => spec = own
  BY <1>4
<1>9. spec.command = "gts-lsp" => "gts-lsp" \in installed /\ Alias(lang) \in first
  BY <1>3, <1>4, <1>5, <1>6
<1>10. spec = NoSpec => ~("gts-lsp" \in installed /\ Alias(lang) \in first)
  BY <1>4, <1>6, <1>7
<1> QED
  BY <1>8, <1>9, <1>10 DEF SpecSound, own, pc, langs

-----------------------------------------------------------------------------
(* Org documents (OrgText).                                                *)

\* A subtree ends before the next heading that is no deeper, or with the document.
LEMMA SubtreeEnds ==
  ASSUME NEW doc, Len(doc) \in Nat, DOMAIN doc = 1 .. Len(doc), NEW start \in DOMAIN doc, NEW level
  PROVE  /\ endOfSubtree(doc, start, level) \in start + 1 .. Len(doc) + 1
         /\ endOfSubtree(doc, start, level) # Len(doc) + 1 =>
              endOfSubtree(doc, start, level) \in {i \in Lines(doc, "heading") : i > start /\ doc[i].level <= level}
         /\ \A i \in Lines(doc, "heading") : i > start /\ doc[i].level <= level => endOfSubtree(doc, start, level) <= i
<1> DEFINE next == {i \in Lines(doc, "heading") : i > start /\ doc[i].level <= level}
<1>1. next \in SUBSET (start + 1 .. Len(doc)) /\ next \in SUBSET Nat
  BY DEF Lines
<1>2. endOfSubtree(doc, start, level) = IF next = {} THEN Len(doc) + 1 ELSE Min(next)
  BY DEF endOfSubtree
<1>3. CASE next = {}
  <2>1. \A i \in Lines(doc, "heading") : ~(i > start /\ doc[i].level <= level)
    BY <1>3
  <2> QED
    BY <1>2, <1>3, <2>1
<1>4. CASE next # {}
  <2>1. Min(next) \in next /\ \A i \in next : Min(next) <= i
    BY <1>1, <1>4, SmallestOf
  <2>2. endOfSubtree(doc, start, level) = Min(next)
    BY <1>2, <1>4
  <2> QED
    BY <1>1, <2>1, <2>2
<1> QED
  BY <1>3, <1>4

\* The ranges of two headings, in the folds and in the outline, never cross: one ends before the other
\* begins, or lies in it.
THEOREM SubtreesNest ==
  ASSUME NEW doc, Len(doc) \in Nat, DOMAIN doc = 1 .. Len(doc), \A i \in DOMAIN doc : doc[i].level \in Nat,
         NEW g \in Lines(doc, "heading"), NEW h \in Lines(doc, "heading"), g < h
  PROVE  \/ endOfSubtree(doc, g, doc[g].level) <= h
         \/ endOfSubtree(doc, h, doc[h].level) <= endOfSubtree(doc, g, doc[g].level)
<1> DEFINE G == endOfSubtree(doc, g, doc[g].level)
           H == endOfSubtree(doc, h, doc[h].level)
<1>1. g \in 1 .. Len(doc) /\ h \in 1 .. Len(doc) /\ doc[g].level \in Nat /\ doc[h].level \in Nat
  BY DEF Lines
<1>2. /\ G \in g + 1 .. Len(doc) + 1
      /\ G # Len(doc) + 1 => G \in Lines(doc, "heading") /\ doc[G].level <= doc[g].level
      /\ \A i \in Lines(doc, "heading") : i > g /\ doc[i].level <= doc[g].level => G <= i
  BY <1>1, SubtreeEnds
<1>3. /\ H \in h + 1 .. Len(doc) + 1
      /\ \A i \in Lines(doc, "heading") : i > h /\ doc[i].level <= doc[h].level => H <= i
  BY <1>1, SubtreeEnds
<1> HIDE DEF G, H
<1>4. CASE ~(G <= h) /\ G # Len(doc) + 1
  <2>1. ~(doc[h].level <= doc[g].level)
    BY <1>1, <1>2, <1>4
  <2>2. G \in 1 .. Len(doc) /\ doc[G].level \in Nat
    BY <1>1, <1>2, <1>4
  <2>3. G > h /\ doc[G].level <= doc[h].level
    BY <1>1, <1>2, <1>4, <2>1, <2>2
  <2> QED
    BY <1>2, <1>3, <1>4, <2>3 DEF G, H
<1>5. CASE G = Len(doc) + 1
  BY <1>1, <1>3, <1>5 DEF G, H
<1> QED
  BY <1>1, <1>2, <1>4, <1>5 DEF G, H

-----------------------------------------------------------------------------
(* The detected languages (Resolution) as a state machine.                 *)

VARIABLE fb

\* Any number of callers ask for the languages of any files, and probes end with any answer.
DetectionInit == fb = NewFallback(Callers)

DetectionStep(now, next) ==
  \/ \E c \in Callers, f \in Probed : now.flight[c] = Idle /\ next = DetectLook(now, c, f)
  \/ \E c \in Callers, l \in Languages : now.flight[c] # Idle /\ next = DetectStore(now, c, l)
  \/ \E langs \in SUBSET Languages : next = Supports(now, langs)

DetectionNext == DetectionStep(fb, fb')

DetectionSpec == DetectionInit /\ [][DetectionNext]_fb

\* Its types.
FallbackType(now) ==
  now \in [detect  : UNION {[S -> Languages] : S \in SUBSET Probed},
           flight  : [Callers -> {Idle} \cup [file : Probed, begun : Nat]],
          given   : Seq([file : Probed, lang : Languages, begun : Nat]),
          langs   : SUBSET Languages,
          langsOK : BOOLEAN]

\* The answers that callers were given.
Answers == [file : Probed, lang : Languages, begun : Nat]

\* The cached language of a file is that of the last answer about it.
Known(given, detect) ==
  /\ \A i \in 1 .. Len(given) : given[i].file \in DOMAIN detect
  /\ \A f \in DOMAIN detect : \E i \in 1 .. Len(given) :
       /\ given[i].file = f /\ given[i].lang = detect[f]
       /\ \A j \in 1 .. Len(given) : given[j].file = f => j <= i

\* A probe began when there was no answer about its file.
Fresh(given, p) == p.begun <= Len(given) /\ \A i \in 1 .. Len(given) : given[i].file = p.file => p.begun < i

Probing(given, flight) == \A c \in Callers : flight[c] # Idle => Fresh(given, flight[c])

\* DetectSteady, of the answers alone.
Steady(given) ==
  \A i, j \in 1 .. Len(given) :
    i < j /\ given[i].file = given[j].file /\ given[i].lang # given[j].lang =>
      \E k \in i + 1 .. j : given[k].file = given[j].file /\ given[k].begun < i

\* The inductive invariant.
DetectionInv(now) ==
  FallbackType(now) /\ Known(now.given, now.detect) /\ Probing(now.given, now.flight) /\ Steady(now.given)

\* What an answer more does to the list of them.
LEMMA AppendAnswer ==
  ASSUME NEW S, NEW s \in Seq(S), NEW e \in S
  PROVE  /\ Append(s, e) \in Seq(S) /\ Len(s) \in Nat /\ Len(Append(s, e)) = Len(s) + 1
         /\ Append(s, e)[Len(s) + 1] = e
         /\ \A i \in 1 .. Len(s) : Append(s, e)[i] = s[i]
         /\ \A i \in 1 .. Len(Append(s, e)) : i \in 1 .. Len(s) \/ i = Len(s) + 1
OBVIOUS

\* An answer leaves the probes under way fresh.
LEMMA StillFresh ==
  ASSUME NEW g \in Seq(Answers), NEW e \in Answers, NEW p, p.begun \in Nat, Fresh(g, p)
  PROVE  Fresh(Append(g, e), p)
<1> DEFINE h == Append(g, e)
<1>1. /\ Len(g) \in Nat /\ Len(h) = Len(g) + 1
      /\ \A i \in 1 .. Len(g) : h[i] = g[i]
      /\ \A i \in 1 .. Len(h) : i \in 1 .. Len(g) \/ i = Len(g) + 1
  BY AppendAnswer
<1> HIDE DEF h
<1>2. Fresh(h, p)
  BY <1>1 DEF Fresh
<1> QED
  BY <1>2 DEF h

\* An answer that is either what is cached or that of a fresh probe keeps the answers steady.
LEMMA AnswerSteady ==
  ASSUME NEW g \in Seq(Answers), NEW e \in Answers, Steady(g),
         \/ \E l \in 1 .. Len(g) : /\ g[l].file = e.file /\ g[l].lang = e.lang
                                   /\ \A j \in 1 .. Len(g) : g[j].file = e.file => j <= l
         \/ Fresh(g, e)
  PROVE  Steady(Append(g, e))
<1> DEFINE h == Append(g, e)
           n == Len(g) + 1
<1>1. /\ Len(g) \in Nat /\ Len(h) = n /\ h[n] = e /\ n \in Nat
      /\ \A i \in 1 .. Len(g) : h[i] = g[i] /\ i < n
      /\ \A i \in 1 .. Len(h) : i \in 1 .. Len(g) \/ i = n
      /\ \A i \in Nat : i < n => i <= Len(g)
  BY AppendAnswer
<1> SUFFICES ASSUME NEW i \in 1 .. Len(h), NEW j \in 1 .. Len(h),
                    i < j, h[i].file = h[j].file, h[i].lang # h[j].lang
             PROVE  \E k \in i + 1 .. j : h[k].file = h[j].file /\ h[k].begun < i
  BY DEF Steady
<1> HIDE DEF h, n
<1>2. i \in 1 .. Len(g) /\ h[i] = g[i]
  BY <1>1
<1>3. CASE j \in 1 .. Len(g)
  <2>1. PICK k \in i + 1 .. j : g[k].file = g[j].file /\ g[k].begun < i
    BY <1>1, <1>2, <1>3 DEF Steady
  <2>2. k \in 1 .. Len(g)
    BY <1>1, <1>2, <1>3
  <2> QED
    BY <1>1, <1>3, <2>1, <2>2
<1>4. CASE j = n
  <2>1. CASE Fresh(g, e)
    <3>1. e.begun < i
      BY <1>1, <1>2, <1>4, <2>1 DEF Fresh
    <3>2. j \in i + 1 .. j
      BY <1>1, <1>4
    <3> QED
      BY <1>1, <1>4, <3>1, <3>2
  <2>2. CASE \E l \in 1 .. Len(g) : /\ g[l].file = e.file /\ g[l].lang = e.lang
                                    /\ \A x \in 1 .. Len(g) : g[x].file = e.file => x <= l
    <3>1. PICK l \in 1 .. Len(g) : /\ g[l].file = e.file /\ g[l].lang = e.lang
                                   /\ \A x \in 1 .. Len(g) : g[x].file = e.file => x <= l
      BY <2>2
    <3>2. i < l
      BY <1>1, <1>2, <1>4, <3>1
    <3>3. PICK k \in i + 1 .. l : g[k].file = g[l].file /\ g[k].begun < i
      BY <1>1, <1>2, <1>4, <3>1, <3>2 DEF Steady
    <3>4. k \in 1 .. Len(g) /\ k \in i + 1 .. j
      BY <1>1, <1>2, <1>4, <3>3
    <3> QED
      BY <1>1, <1>4, <3>1, <3>3, <3>4
  <2> QED
    BY <2>1, <2>2
<1> QED
  BY <1>1, <1>3, <1>4

\* With the answer, the cache knows the last answer of each file again.
LEMMA AnswerKnown ==
  ASSUME NEW g \in Seq(Answers), NEW e \in Answers, NEW d, NEW c, Known(g, d),
         DOMAIN c = {e.file} \cup DOMAIN d, c[e.file] = e.lang,
         \A x \in DOMAIN d : x # e.file => c[x] = d[x]
  PROVE  Known(Append(g, e), c)
<1> DEFINE h == Append(g, e)
           n == Len(g) + 1
<1>1. /\ Len(g) \in Nat /\ Len(h) = n /\ h[n] = e /\ n \in 1 .. Len(h)
      /\ \A i \in 1 .. Len(g) : h[i] = g[i] /\ i \in 1 .. Len(h) /\ i <= n
      /\ \A i \in 1 .. Len(h) : i \in 1 .. Len(g) \/ i = n
      /\ \A i \in 1 .. Len(h) : i <= n
  BY AppendAnswer
<1> HIDE DEF h, n
<1>2. \A i \in 1 .. Len(h) : h[i].file \in DOMAIN c
  BY <1>1 DEF Known
<1>3. ASSUME NEW f \in DOMAIN c
      PROVE  \E i \in 1 .. Len(h) : /\ h[i].file = f /\ h[i].lang = c[f]
                                    /\ \A j \in 1 .. Len(h) : h[j].file = f => j <= i
  <2>1. CASE f = e.file
    BY <1>1, <2>1
  <2>2. CASE f # e.file
    <3>1. PICK i \in 1 .. Len(g) : /\ g[i].file = f /\ g[i].lang = d[f]
                                   /\ \A j \in 1 .. Len(g) : g[j].file = f => j <= i
      BY <1>3, <2>2 DEF Known
    <3>2. \A j \in 1 .. Len(h) : h[j].file = f => j <= i
      BY <1>1, <2>2, <3>1
    <3>3. c[f] = d[f]
      BY <1>3, <2>2
    <3> QED
      BY <1>1, <3>1, <3>2, <3>3
  <2> QED
    BY <2>1, <2>2
<1>4. Known(h, c)
  BY <1>2, <1>3 DEF Known
<1> QED
  BY <1>4 DEF h

\* Each step of the cache keeps the invariant.
LEMMA DetectionKeeps ==
  ASSUME NEW now, DetectionInv(now), NEW next, DetectionStep(now, next) \/ next = now
  PROVE  DetectionInv(next)
<1> DEFINE given  == now.given
           flight == now.flight
           detect == now.detect
<1> USE DetectionAssumption
<1>0. /\ given \in Seq(Answers) /\ Len(given) \in Nat
      /\ flight \in [Callers -> {Idle} \cup [file : Probed, begun : Nat]]
      /\ detect \in [DOMAIN detect -> Languages] /\ DOMAIN detect \in SUBSET Probed
      /\ now = [detect |-> detect, flight |-> flight, given |-> given, langs |-> now.langs, langsOK |-> now.langsOK]
      /\ now.langs \in SUBSET Languages /\ now.langsOK \in BOOLEAN
      /\ Known(given, detect) /\ Probing(given, flight) /\ Steady(given)
  BY DEF DetectionInv, FallbackType, Answers
<1>1. ASSUME NEW S \in SUBSET Probed, NEW d \in [S -> Languages], NEW p \in [Callers -> {Idle} \cup [file : Probed, begun : Nat]],
             NEW g \in Seq(Answers), NEW langs \in SUBSET Languages, NEW ok \in BOOLEAN,
             next = [detect |-> d, flight |-> p, given |-> g, langs |-> langs, langsOK |-> ok],
             Known(g, d), Probing(g, p), Steady(g)
      PROVE  DetectionInv(next)
  <2>1. d \in UNION {[T -> Languages] : T \in SUBSET Probed}
    OBVIOUS
  <2>2. next.given = g /\ next.detect = d /\ next.flight = p
    BY <1>1
  <2>3. FallbackType(next)
    BY <1>1, <2>1 DEF FallbackType, Answers
  <2>4. Known(next.given, next.detect) /\ Probing(next.given, next.flight) /\ Steady(next.given)
    BY <1>1, <2>2
  <2> QED
    BY <2>3, <2>4 DEF DetectionInv
<1> HIDE DEF given, flight, detect
<1>2. ASSUME NEW c \in Callers, NEW f \in Probed, f \in DOMAIN detect, next = DetectLook(now, c, f)
      PROVE  DetectionInv(next)
  <2> DEFINE e == [file |-> f, lang |-> detect[f], begun |-> Len(given)]
  <2>1. next = [detect |-> detect, flight |-> flight, given |-> Append(given, e), langs |-> now.langs, langsOK |-> now.langsOK]
    BY <1>0, <1>2 DEF DetectLook, Answer, given, detect, flight
  <2>2. e \in Answers /\ e.file = f /\ e.lang = detect[f]
    BY <1>0, <1>2 DEF Answers
  <2> HIDE DEF e
  <2>3. Append(given, e) \in Seq(Answers)
    BY <1>0, <2>2, AppendAnswer
  <2>4. Known(Append(given, e), detect)
    BY <1>0, <1>2, <2>2, AnswerKnown
  <2>5. Probing(Append(given, e), flight)
    BY <1>0, <2>2, StillFresh DEF Probing
  <2>6. Steady(Append(given, e))
    BY SMTT(30), <1>0, <1>2, <2>2, AnswerSteady DEF Known
  <2> QED
    BY <1>0, <1>1, <2>1, <2>3, <2>4, <2>5, <2>6
<1>3. ASSUME NEW c \in Callers, NEW f \in Probed, f \notin DOMAIN detect, next = DetectLook(now, c, f)
      PROVE  DetectionInv(next)
  <2> DEFINE p == [file |-> f, begun |-> Len(given)]
             flights == [flight EXCEPT ![c] = p]
  <2>1. next = [detect |-> detect, flight |-> flights, given |-> given, langs |-> now.langs, langsOK |-> now.langsOK]
    BY <1>0, <1>3 DEF DetectLook, given, detect, flight
  <2>2. p \in [file : Probed, begun : Nat] /\ p.file = f /\ p.begun = Len(given)
    BY <1>0
  <2>3. Fresh(given, p)
    BY <1>0, <1>3, <2>2 DEF Fresh, Known
  <2> HIDE DEF p
  <2>4. flights \in [Callers -> {Idle} \cup [file : Probed, begun : Nat]]
    BY <1>0, <2>2
  <2>5. Probing(given, flights)
    BY <1>0, <2>3 DEF Probing
  <2> QED
    BY <1>0, <1>1, <2>1, <2>4, <2>5
<1>4. ASSUME NEW c \in Callers, NEW l \in Languages, now.flight[c] # Idle, next = DetectStore(now, c, l)
      PROVE  DetectionInv(next)
  <2> DEFINE p == flight[c]
             e == [file |-> p.file, lang |-> l, begun |-> p.begun]
             d == [x \in {p.file} \cup DOMAIN detect |-> IF x = p.file THEN l ELSE detect[x]]
             flights == [flight EXCEPT ![c] = Idle]
  <2>1. p \in [file : Probed, begun : Nat] /\ Fresh(given, p)
    BY <1>0, <1>4 DEF Probing, flight
  <2>2. next = [detect |-> d, flight |-> flights, given |-> Append(given, e), langs |-> now.langs, langsOK |-> now.langsOK]
    BY <1>0, <1>4 DEF DetectStore, Answer, given, detect, flight
  <2>3. /\ e \in Answers /\ e.file = p.file /\ e.lang = l /\ e.begun = p.begun
        /\ d \in [{p.file} \cup DOMAIN detect -> Languages] /\ {p.file} \cup DOMAIN detect \in SUBSET Probed
        /\ d[e.file] = e.lang /\ \A x \in DOMAIN detect : x # e.file => d[x] = detect[x]
        /\ DOMAIN d = {e.file} \cup DOMAIN detect
    BY <1>0, <2>1 DEF Answers
  <2>4. Fresh(given, e)
    BY <2>1, <2>3 DEF Fresh
  <2> HIDE DEF e, d, p
  <2>5. Append(given, e) \in Seq(Answers)
    BY <1>0, <2>3, AppendAnswer
  <2>6. Known(Append(given, e), d)
    <3>1. /\ given \in Seq(Answers) /\ e \in Answers /\ Known(given, detect)
          /\ DOMAIN d = {e.file} \cup DOMAIN detect /\ d[e.file] = e.lang
          /\ \A x \in DOMAIN detect : x # e.file => d[x] = detect[x]
      BY <1>0, <2>3
    <3> QED
      BY <3>1, AnswerKnown
  <2>7. flights \in [Callers -> {Idle} \cup [file : Probed, begun : Nat]]
    BY <1>0
  <2>8. Probing(Append(given, e), flights)
    BY <1>0, <2>3, StillFresh DEF Probing
  <2>9. Steady(Append(given, e))
    BY <1>0, <2>3, <2>4, AnswerSteady
  <2> QED
    BY <1>0, <1>1, <2>2, <2>3, <2>5, <2>6, <2>7, <2>8, <2>9
<1>5. ASSUME NEW langs \in SUBSET Languages, next = Supports(now, langs) PROVE DetectionInv(next)
  <2>1. \E ls \in SUBSET Languages, ok \in BOOLEAN :
          next = [detect |-> detect, flight |-> flight, given |-> given, langs |-> ls, langsOK |-> ok]
    <3>1. CASE now.langsOK
      BY <1>0, <1>5, <3>1 DEF Supports
    <3>2. CASE ~now.langsOK
      <4>1. next = [detect |-> detect, flight |-> flight, given |-> given, langs |-> langs, langsOK |-> TRUE]
        BY <1>0, <1>5, <3>2 DEF Supports, given, detect, flight
      <4> QED
        BY <4>1
    <3> QED
      BY <3>1, <3>2
  <2> QED
    BY <1>0, <1>1, <2>1
<1>6. CASE next = now
  BY <1>6 DEF DetectionInv, FallbackType
<1> QED
  BY <1>2, <1>3, <1>4, <1>5, <1>6 DEF DetectionStep, detect

\* Nothing is detected yet.
LEMMA NothingDetected == DetectionInv(NewFallback(Callers))
<1> DEFINE now == NewFallback(Callers)
<1>1. /\ now.given = <<>> /\ now.detect = <<>> /\ now.flight = [c \in Callers |-> Idle]
      /\ now = [detect |-> <<>>, flight |-> [c \in Callers |-> Idle], given |-> <<>>, langs |-> {}, langsOK |-> FALSE]
  BY DEF NewFallback
<1>2. <<>> \in [{} -> Languages] /\ {} \in SUBSET Probed
  OBVIOUS
<1>3. <<>> \in UNION {[S -> Languages] : S \in SUBSET Probed}
  BY <1>2
<1>4. FallbackType(now)
  BY <1>1, <1>3 DEF FallbackType
<1>5. Known(now.given, now.detect) /\ Probing(now.given, now.flight) /\ Steady(now.given)
  BY <1>1 DEF Known, Probing, Steady
<1> QED
  BY <1>4, <1>5 DEF DetectionInv

\* The invariant is about the answers alone.
LEMMA SteadyNow == ASSUME NEW now, DetectionInv(now) PROVE DetectSteady(now)
<1>1. DOMAIN now.given = 1 .. Len(now.given) /\ Steady(now.given)
  BY DEF DetectionInv, FallbackType
<1> QED
  BY <1>1 DEF Steady, DetectSteady

\* Every answer of the detection cache about a file is that of the one before, unless a probe
\* that was under way at the earlier of them ended in between.
THEOREM DetectionIsSteady == DetectionSpec => []DetectSteady(fb)
<1>1. DetectionInit => DetectionInv(fb)
  BY NothingDetected DEF DetectionInit
<1>2. DetectionInv(fb) /\ [DetectionNext]_fb => DetectionInv(fb)'
  <2> SUFFICES ASSUME DetectionInv(fb), [DetectionNext]_fb PROVE DetectionInv(fb')
    OBVIOUS
  <2>1. DetectionStep(fb, fb') \/ fb' = fb
    BY DEF DetectionNext
  <2> QED
    BY <2>1, DetectionKeeps
<1>3. DetectionInv(fb) => DetectSteady(fb)
  BY SteadyNow
<1> QED
  BY <1>1, <1>2, <1>3, PTL DEF DetectionSpec

-----------------------------------------------------------------------------
(* The Org index (OrgText) as a state machine.                             *)

CONSTANT Queries
VARIABLE ix

\* Any number of queries, that overlap each other and the writes of the file, each of which
\* leaves whatever modification time, a former one too.
IndexInit == ix = NewIndex(Queries)

IndexNext == (\E time \in Nat : ix' = Write(ix, time)) \/ \E q \in Queries : ix' = indexFile(ix, q)

IndexSpec == IndexInit /\ [][IndexNext]_ix

\* A time, -1 if there is none yet.
Stamp == Nat \cup {-1}

\* What the cache holds, and where a query is.
Entry == [mtime : Stamp, content : Nat]
At    == [pc : {"idle", "stat", "miss", "read", "done"}, asked : Nat, mtime : Stamp, content : Nat]

\* Its types.
IndexType == ix \in [stamp : Seq(Nat), cache : Entry, query : [Queries -> At]] /\ ix.stamp # <<>>

\* The cached content is no older than the first one that had the time it is cached under.
CacheTold(stamp, cache) ==
  /\ cache.content <= Len(stamp)
  /\ cache.mtime # -1 => \E k \in 1 .. cache.content : stamp[k] = cache.mtime

\* A query knows the time that the file had when it was asked; what it reads is no older than
\* that, and what it answers no older than the first content that had this time.
QueryTold(stamp, at) ==
  /\ at.content <= Len(stamp)
  /\ at.pc # "idle" => at.asked \in 1 .. Len(stamp)
  /\ at.pc \in {"stat", "miss", "read"} => at.mtime = stamp[at.asked]
  /\ at.pc = "read" => at.asked <= at.content
  /\ at.pc = "done" => \E n \in 1 .. at.asked : stamp[n] = stamp[at.asked] /\ n <= at.content

\* The inductive invariant.
IndexInv == IndexType /\ CacheTold(ix.stamp, ix.cache) /\ \A q \in Queries : QueryTold(ix.stamp, ix.query[q])

\* What is told of the contents so far is told when another one follows.
LEMMA ToldForGood ==
  ASSUME NEW stamp \in Seq(Nat), NEW time \in Nat
  PROVE  /\ Append(stamp, time) \in Seq(Nat) /\ Append(stamp, time) # <<>>
         /\ \A cache \in Entry : CacheTold(stamp, cache) => CacheTold(Append(stamp, time), cache)
         /\ \A at \in At : QueryTold(stamp, at) => QueryTold(Append(stamp, time), at)
<1> DEFINE more == Append(stamp, time)
           n    == Len(stamp)
<1>1. n \in Nat /\ more \in Seq(Nat) /\ Len(more) = n + 1 /\ \A k \in 1 .. n : more[k] = stamp[k]
  OBVIOUS
<1>2. more # <<>>
  BY <1>1
<1> HIDE DEF more
<1>3. ASSUME NEW cache \in Entry, CacheTold(stamp, cache) PROVE CacheTold(more, cache)
  <2>1. cache.content \in Nat /\ cache.content <= n /\ cache.content <= n + 1
    BY <1>1, <1>3 DEF CacheTold, Entry
  <2>2. ASSUME cache.mtime # -1 PROVE \E k \in 1 .. cache.content : more[k] = cache.mtime
    <3>1. PICK k \in 1 .. cache.content : stamp[k] = cache.mtime
      BY <1>3, <2>2 DEF CacheTold
    <3>2. k \in 1 .. n
      BY <1>1, <2>1
    <3> QED
      BY <1>1, <3>1, <3>2
  <2> QED
    BY <1>1, <2>1, <2>2 DEF CacheTold
<1>4. ASSUME NEW at \in At, QueryTold(stamp, at) PROVE QueryTold(more, at)
  <2>1. at.content \in Nat /\ at.asked \in Nat /\ at.content <= n /\ at.content <= n + 1
    BY <1>1, <1>4 DEF QueryTold, At
  <2>2. at.pc # "idle" => at.asked \in 1 .. n /\ at.asked \in 1 .. n + 1 /\ more[at.asked] = stamp[at.asked]
    BY <1>1, <1>4 DEF QueryTold
  <2>3. ASSUME at.pc = "done" PROVE \E m \in 1 .. at.asked : more[m] = more[at.asked] /\ m <= at.content
    <3>1. PICK m \in 1 .. at.asked : stamp[m] = stamp[at.asked] /\ m <= at.content
      BY <1>4, <2>3 DEF QueryTold
    <3>2. m \in 1 .. n /\ at.asked \in 1 .. n
      BY <1>1, <2>2, <2>3
    <3> QED
      BY <1>1, <3>1, <3>2
  <2>4. at.pc \in {"stat", "miss", "read"} => at.mtime = more[at.asked]
    BY <1>4, <2>2 DEF QueryTold
  <2>5. at.pc = "read" => at.asked <= at.content
    BY <1>4 DEF QueryTold
  <2> QED
    BY <1>1, <2>1, <2>2, <2>3, <2>4, <2>5 DEF QueryTold
<1> QED
  BY <1>1, <1>2, <1>3, <1>4 DEF more

\* Each step of a query and each write keeps the invariant.
LEMMA IndexKeeps ==
  ASSUME IndexInv, [IndexNext]_ix
  PROVE  IndexInv'
<1>1. /\ ix.stamp \in Seq(Nat) /\ ix.stamp # <<>> /\ ix.cache \in Entry /\ ix.query \in [Queries -> At]
      /\ ix = [stamp |-> ix.stamp, cache |-> ix.cache, query |-> ix.query]
  BY DEF IndexInv, IndexType
<1> DEFINE n == Len(ix.stamp)
<1>0. n \in Nat /\ n \in 1 .. n /\ ix.stamp[n] \in Nat
  BY <1>1
<1>2. ASSUME NEW time \in Nat, ix' = Write(ix, time) PROVE IndexInv'
  <2> DEFINE more == Append(ix.stamp, time)
  <2>1. ix' = [stamp |-> more, cache |-> ix.cache, query |-> ix.query]
    BY <1>1, <1>2 DEF Write
  <2>2. more \in Seq(Nat) /\ more # <<>> /\ CacheTold(more, ix.cache) /\ \A q \in Queries : QueryTold(more, ix.query[q])
    <3>1. \A q \in Queries : ix.query[q] \in At
      BY <1>1
    <3> QED
      BY <1>1, <3>1, ToldForGood DEF IndexInv
  <2> HIDE DEF more
  <2>3. ix'.stamp = more /\ ix'.cache = ix.cache /\ ix'.query = ix.query
    BY <2>1
  <2>4. IndexType'
    BY <1>1, <2>1, <2>2, <2>3 DEF IndexType
  <2> QED
    BY <2>2, <2>3, <2>4 DEF IndexInv
<1>3. ASSUME NEW q \in Queries, ix' = indexFile(ix, q) PROVE IndexInv'
  <2> DEFINE at == ix.query[q]
  <2>0. at \in At /\ QueryTold(ix.stamp, at) /\ CacheTold(ix.stamp, ix.cache)
    BY <1>1 DEF IndexInv
  <2>1. ASSUME NEW now \in At, NEW cache \in Entry,
               ix' = [stamp |-> ix.stamp, cache |-> cache, query |-> [ix.query EXCEPT ![q] = now]],
               CacheTold(ix.stamp, cache), QueryTold(ix.stamp, now)
        PROVE  IndexInv'
    <3>1. ix'.stamp = ix.stamp /\ ix'.cache = cache /\ ix'.query = [ix.query EXCEPT ![q] = now]
      BY <2>1
    <3>2. IndexType'
      BY <1>1, <2>1, <3>1 DEF IndexType
    <3>3. ASSUME NEW r \in Queries PROVE QueryTold(ix.stamp, ix'.query[r])
      <4>1. ix'.query[r] = IF r = q THEN now ELSE ix.query[r]
        BY <1>1, <3>1
      <4> QED
        BY <2>1, <4>1 DEF IndexInv
    <3> QED
      BY <2>1, <3>1, <3>2, <3>3 DEF IndexInv
  <2>2. /\ at.asked \in Nat /\ at.mtime \in Stamp /\ at.content \in Nat /\ at.content <= n /\ ix.cache.content \in Nat /\ ix.cache.mtime \in Stamp
        /\ at.pc \in {"idle", "stat", "miss", "read", "done"}
    <3>1. at.asked \in Nat /\ at.mtime \in Stamp /\ at.content \in Nat /\ at.pc \in {"idle", "stat", "miss", "read", "done"}
      BY <2>0 DEF At
    <3>2. ix.cache.content \in Nat /\ ix.cache.mtime \in Stamp
      BY <1>1 DEF Entry
    <3>3. at.content <= n
      BY <2>0 DEF QueryTold
    <3> QED
      BY <3>1, <3>2, <3>3
  <2>3. CASE at.pc = "idle"
    <3> DEFINE now == [pc |-> "stat", asked |-> n, mtime |-> ix.stamp[n], content |-> 0]
    <3>1. ix' = [stamp |-> ix.stamp, cache |-> ix.cache, query |-> [ix.query EXCEPT ![q] = now]]
      BY <1>1, <1>3, <2>3 DEF indexFile, Disk
    <3>2. now \in At
      BY <1>0 DEF At, Stamp
    <3>3. now.pc = "stat" /\ now.asked = n /\ now.mtime = ix.stamp[n] /\ now.content = 0
      OBVIOUS
    <3> HIDE DEF now
    <3>4. QueryTold(ix.stamp, now)
      BY <1>0, <3>3 DEF QueryTold
    <3> QED
      BY <1>1, <2>0, <2>1, <3>1, <3>2, <3>4
  <2>4. CASE at.pc = "stat" /\ ix.cache.mtime = at.mtime
    <3> DEFINE now == [at EXCEPT !.pc = "done", !.content = ix.cache.content]
    <3>1. ix' = [stamp |-> ix.stamp, cache |-> ix.cache, query |-> [ix.query EXCEPT ![q] = now]]
      BY <1>1, <1>3, <2>0, <2>4 DEF indexFile, At
    <3>2. now.pc = "done" /\ now.asked = at.asked /\ now.content = ix.cache.content
      BY <2>0 DEF At
    <3>3. now \in At
      BY <2>0, <2>2 DEF At
    <3> HIDE DEF now, at
    <3>4. at.asked \in 1 .. n /\ at.mtime = ix.stamp[at.asked] /\ ix.cache.mtime # -1
      <4>1. at.asked \in 1 .. n /\ at.mtime = ix.stamp[at.asked]
        BY <2>0, <2>4 DEF QueryTold
      <4>2. ix.stamp[at.asked] \in Nat
        BY <1>1, <4>1
      <4> QED
        BY <2>4, <4>1, <4>2
    <3>5. PICK k \in 1 .. ix.cache.content : ix.stamp[k] = ix.stamp[at.asked]
      BY <2>0, <2>4, <3>4 DEF CacheTold
    <3>6. \E m \in 1 .. at.asked : ix.stamp[m] = ix.stamp[at.asked] /\ m <= ix.cache.content
      <4>1. CASE k <= at.asked
        BY <2>2, <3>5, <4>1
      <4>2. CASE ~(k <= at.asked)
        <5>1. at.asked \in 1 .. at.asked /\ at.asked <= ix.cache.content
          BY <1>0, <2>2, <3>4, <4>2
        <5> QED
          BY <5>1
      <4> QED
        BY <4>1, <4>2
    <3>7. QueryTold(ix.stamp, now)
      BY <2>0, <3>2, <3>4, <3>6 DEF QueryTold, CacheTold
    <3> QED
      BY <1>1, <2>0, <2>1, <3>1, <3>3, <3>7
  <2>5. CASE at.pc = "stat" /\ ix.cache.mtime # at.mtime
    <3> DEFINE now == [at EXCEPT !.pc = "miss", !.content = 0]
    <3>1. ix' = [stamp |-> ix.stamp, cache |-> ix.cache, query |-> [ix.query EXCEPT ![q] = now]]
      BY <1>1, <1>3, <2>0, <2>5 DEF indexFile, At
    <3>2. now.pc = "miss" /\ now.asked = at.asked /\ now.mtime = at.mtime /\ now.content = 0
      BY <2>0 DEF At
    <3>3. now \in At
      BY <2>0, <2>2 DEF At
    <3> HIDE DEF now, at
    <3>4. at.asked \in 1 .. n /\ at.mtime = ix.stamp[at.asked]
      BY <2>0, <2>5 DEF QueryTold
    <3>5. QueryTold(ix.stamp, now)
      BY <1>0, <3>2, <3>4 DEF QueryTold
    <3> QED
      BY <1>1, <2>0, <2>1, <3>1, <3>3, <3>5
  <2>6. CASE at.pc = "miss"
    <3> DEFINE now == [at EXCEPT !.pc = "read", !.content = n]
    <3>1. ix' = [stamp |-> ix.stamp, cache |-> ix.cache, query |-> [ix.query EXCEPT ![q] = now]]
      BY <1>1, <1>3, <2>0, <2>6 DEF indexFile, Disk, At
    <3>2. now.pc = "read" /\ now.asked = at.asked /\ now.mtime = at.mtime /\ now.content = n
      BY <2>0 DEF At
    <3>3. now \in At
      BY <1>0, <2>0, <2>2 DEF At
    <3> HIDE DEF now, at
    <3>4. at.asked \in 1 .. n /\ at.mtime = ix.stamp[at.asked]
      BY <2>0, <2>6 DEF QueryTold
    <3>5. QueryTold(ix.stamp, now)
      BY <1>0, <3>2, <3>4 DEF QueryTold
    <3> QED
      BY <1>1, <2>0, <2>1, <3>1, <3>3, <3>5
  <2>7. CASE at.pc = "read"
    <3> DEFINE now   == [at EXCEPT !.pc = "done", !.content = at.content]
               cache == [mtime |-> at.mtime, content |-> at.content]
    <3>1. ix' = [stamp |-> ix.stamp, cache |-> cache, query |-> [ix.query EXCEPT ![q] = now]]
      BY <1>1, <1>3, <2>0, <2>7 DEF indexFile, At
    <3>2. now.pc = "done" /\ now.asked = at.asked /\ now.content = at.content
      BY <2>0 DEF At
    <3>3. now \in At /\ cache \in Entry /\ cache.mtime = at.mtime /\ cache.content = at.content
      BY <2>0, <2>2 DEF At, Entry
    <3> HIDE DEF now, cache, at
    <3>4. at.asked \in 1 .. n /\ at.mtime = ix.stamp[at.asked] /\ at.asked <= at.content
      BY <2>0, <2>7 DEF QueryTold
    <3>5. at.asked \in 1 .. at.asked /\ at.asked \in 1 .. at.content
      BY <1>0, <2>2, <3>4
    <3>6. QueryTold(ix.stamp, now)
      BY <2>2, <3>2, <3>4, <3>5 DEF QueryTold
    <3>7. CacheTold(ix.stamp, cache)
      BY <2>2, <3>3, <3>4, <3>5 DEF CacheTold
    <3> QED
      BY <1>1, <2>1, <3>1, <3>3, <3>6, <3>7
  <2>8. CASE at.pc = "done"
    <3> DEFINE now == [at EXCEPT !.pc = "idle", !.content = 0]
    <3>1. ix' = [stamp |-> ix.stamp, cache |-> ix.cache, query |-> [ix.query EXCEPT ![q] = now]]
      BY <1>1, <1>3, <2>0, <2>8 DEF indexFile, At
    <3>2. now.pc = "idle" /\ now.content = 0
      BY <2>0 DEF At
    <3>3. now \in At
      BY <2>0, <2>2 DEF At
    <3> HIDE DEF now, at
    <3>4. QueryTold(ix.stamp, now)
      BY <1>0, <3>2 DEF QueryTold
    <3> QED
      BY <1>1, <2>0, <2>1, <3>1, <3>3, <3>4
  <2> QED
    BY <2>2, <2>3, <2>4, <2>5, <2>6, <2>7, <2>8
<1>4. CASE UNCHANGED ix
  BY <1>4 DEF IndexInv, IndexType
<1> QED
  BY <1>2, <1>3, <1>4 DEF IndexNext

\* Whatever times the writes leave: the index answers with what was replaced before the query only if
\* the modification time did not tell, because the file has the time again that it had with an
\* older content.  The file is read after its time is, so what is cached may be newer than what first
\* had this time, never older.
THEOREM IndexIsCurrent == IndexSpec => []NoStaleAnswer(ix)
<1>1. IndexInit => IndexInv
  <2> SUFFICES ASSUME IndexInit PROVE IndexInv
    OBVIOUS
  <2> DEFINE first == [q \in Queries |-> [pc |-> "idle", asked |-> 0, mtime |-> -1, content |-> 0]]
  <2>1. ix.stamp = <<0>> /\ ix.cache = [mtime |-> -1, content |-> 0] /\ ix.query = first /\ ix = [stamp |-> ix.stamp, cache |-> ix.cache, query |-> ix.query]
    BY DEF IndexInit, NewIndex
  <2>2. <<0>> \in Seq(Nat) /\ <<0>> # <<>> /\ Len(<<0>>) = 1
    OBVIOUS
  <2>3. [mtime |-> -1, content |-> 0] \in Entry /\ first \in [Queries -> At]
    BY DEF Entry, At, Stamp
  <2>4. CacheTold(ix.stamp, ix.cache) /\ \A q \in Queries : QueryTold(ix.stamp, ix.query[q])
    BY <2>1, <2>2 DEF CacheTold, QueryTold
  <2> HIDE DEF first
  <2>5. IndexType
    BY <2>1, <2>2, <2>3 DEF IndexType
  <2> QED
    BY <2>4, <2>5 DEF IndexInv
<1>2. IndexInv /\ [IndexNext]_ix => IndexInv'
  BY IndexKeeps
<1>3. IndexInv => NoStaleAnswer(ix)
  <2>1. IndexInv => DOMAIN ix.query = Queries
    BY DEF IndexInv, IndexType
  <2> QED
    BY <2>1 DEF IndexInv, QueryTold, NoStaleAnswer
<1> QED
  BY <1>1, <1>2, <1>3, PTL DEF IndexSpec

-----------------------------------------------------------------------------
(* gts-lsp: words, token types, languages and linters.                     *)

\* Whatever the text: the cursor stands in the same word wherever in it it is, so hover, definition
\* and references ask for the same name; and the references with declarations are those
\* without them and the definitions.
THEOREM WordsAgree ==
  ASSUME NEW Byte, NEW text \in Seq(Byte), NEW docs, NEW name
  PROVE  Gts!NamesAgree(text, docs, name)
<1> DEFINE inside(from, to) == \A i \in from + 1 .. to : Gts!isWord(text[i])
           S(o) == {s \in 0 .. o : inside(s, o)}
           E(o) == {e \in o .. Len(text) : inside(o, e)}
<1>1. ASSUME NEW o \in 0 .. Len(text)
      PROVE  /\ Gts!wordAt(text, o) = <<Min(S(o)), Max(E(o))>>
             /\ Min(S(o)) \in S(o) /\ \A s \in S(o) : Min(S(o)) <= s
             /\ Max(E(o)) \in E(o) /\ \A e \in E(o) : e <= Max(E(o))
  <2>1. S(o) \in SUBSET Nat /\ E(o) \in SUBSET (0 .. Len(text)) /\ o \in S(o) /\ o \in E(o) /\ Len(text) \in Nat
    OBVIOUS
  <2>2. Gts!wordAt(text, o) = <<Min(S(o)), Max(E(o))>>
    BY DEF Gts!wordAt, Gts!Min, Gts!Max, Min, Max
  <2> HIDE DEF S, E
  <2> QED
    BY <2>1, <2>2, SmallestOf, LargestOf
<1>2. ASSUME NEW o \in 0 .. Len(text), NEW p \in Min(S(o)) .. Max(E(o))
      PROVE  Gts!wordAt(text, p) = Gts!wordAt(text, o)
  <2> DEFINE a == Min(S(o))
             z == Max(E(o))
  <2>1. /\ a \in 0 .. o /\ inside(a, o) /\ z \in o .. Len(text) /\ inside(o, z)
        /\ \A s \in 0 .. o : inside(s, o) => a <= s
        /\ \A e \in o .. Len(text) : inside(o, e) => e <= z
    BY <1>1
  <2>2. p \in a .. z
    OBVIOUS
  <2> HIDE DEF a, z
  <2>3. p \in 0 .. Len(text)
    BY <2>1, <2>2
  <2> DEFINE b == Min(S(p))
             y == Max(E(p))
  <2>4. /\ b \in 0 .. p /\ inside(b, p) /\ y \in p .. Len(text) /\ inside(p, y)
        /\ \A s \in 0 .. p : inside(s, p) => b <= s
        /\ \A e \in p .. Len(text) : inside(p, e) => e <= y
        /\ Gts!wordAt(text, p) = <<b, y>> /\ Gts!wordAt(text, o) = <<a, z>>
    BY <1>1, <2>3 DEF a, z
  <2> HIDE DEF b, y
  <2>5. Len(text) \in Nat
    OBVIOUS
  <2>6. a = b
    <3>1. inside(a, p)
      BY <2>1, <2>2, <2>5
    <3>2. b <= a
      <4>1. a \in 0 .. p
        BY <2>1, <2>2
      <4> QED
        BY <2>4, <3>1, <4>1
    <3>3. inside(b, o)
      BY <2>1, <2>2, <2>4, <3>2
    <3>4. b \in 0 .. o
      BY <2>1, <2>4, <3>2
    <3> QED
      BY <2>1, <2>4, <3>2, <3>3, <3>4
  <2>7. z = y
    <3>1. inside(p, z)
      BY <2>1, <2>2, <2>5
    <3>2. z <= y
      BY <2>1, <2>2, <2>3, <2>4, <2>5, <3>1
    <3>3. inside(o, y)
      BY <2>1, <2>2, <2>4, <3>2
    <3> QED
      BY <2>1, <2>4, <2>5, <3>2, <3>3
  <2> QED
    BY <2>4, <2>6, <2>7
<1>3. Gts!references(docs, name, TRUE) = Gts!references(docs, name, FALSE) \cup Gts!definition(docs, name)
  <2>1. Gts!findTags(docs, name, {FALSE, TRUE}) = Gts!findTags(docs, name, {FALSE}) \cup Gts!findTags(docs, name, {TRUE})
    <3> DEFINE kept(x, keep) == \E d \in DOMAIN docs : \E i \in DOMAIN docs[d] : x = <<d, i>> /\ docs[d][i].name = name /\ docs[d][i].def \in keep
    <3>1. \A x, keep : x \in Gts!findTags(docs, name, keep) <=> kept(x, keep)
      BY DEF Gts!findTags
    <3>2. \A x : kept(x, {FALSE, TRUE}) <=> kept(x, {FALSE}) \/ kept(x, {TRUE})
      OBVIOUS
    <3> QED
      BY <3>1, <3>2
  <2>2. {FALSE, FALSE} = {FALSE}
    OBVIOUS
  <2> QED
    BY <2>1, <2>2 DEF Gts!references, Gts!definition
<1>4. ASSUME NEW o \in 0 .. Len(text)
      PROVE  \A p \in Gts!wordAt(text, o)[1] .. Gts!wordAt(text, o)[2] : Gts!wordAt(text, p) = Gts!wordAt(text, o)
  <2> DEFINE a == Min(S(o))
             z == Max(E(o))
  <2>1. Gts!wordAt(text, o) = <<a, z>>
    BY <1>1
  <2>2. \A p \in a .. z : Gts!wordAt(text, p) = Gts!wordAt(text, o)
    BY <1>2
  <2> HIDE DEF a, z
  <2> QED
    BY <2>1, <2>2
<1> QED
  BY <1>3, <1>4 DEF Gts!NamesAgree
\* Whatever a query captures: its token type is one of the legend, so no token is sent as type 0
\* by accident.
THEOREM CapturesInLegend ==
  ASSUME NEW head, NEW parts
  PROVE  Gts!InLegend(head, parts)
BY DEF Gts!InLegend, Gts!captureType, Gts!TokenTypes, Gts!Keywordish

\* What Detect returns: its four sources in their order.
LEMMA DetectInOrder ==
  ASSUME NEW hook, NEW byName, NEW byShebang, NEW languageId, NEW registered
  PROVE  Detect(hook, byName, byShebang, languageId, registered) =
           IF hook \in registered \ {"none"} THEN hook
           ELSE IF byName # "none" THEN byName
           ELSE IF byShebang # "none" THEN byShebang
           ELSE IF languageId \in registered THEN languageId ELSE "none"
<1> DEFINE known(l) == IF l \in registered THEN l ELSE "none"
           answers  == <<known(hook), byName, byShebang, known(languageId)>>
           claims   == {i \in DOMAIN answers : answers[i] # "none"}
<1>1. /\ claims \in SUBSET Nat /\ \A i \in claims : i \in {1, 2, 3, 4}
      /\ answers[1] = known(hook) /\ answers[2] = byName /\ answers[3] = byShebang /\ answers[4] = known(languageId)
      /\ \A i \in {1, 2, 3, 4} : i \in claims <=> answers[i] # "none"
  OBVIOUS
<1>2. claims # {} => /\ Min(claims) \in claims /\ Min(claims) \in {1, 2, 3, 4}
                     /\ \A i \in {1, 2, 3, 4} : i \in claims => Min(claims) <= i
  <2> HIDE DEF claims
  <2> QED
    BY <1>1, SmallestOf
<1>3. Detect(hook, byName, byShebang, languageId, registered) = IF claims = {} THEN "none" ELSE answers[Min(claims)]
  BY DEF Detect
<1> HIDE DEF known, answers, claims
<1>4. CASE 1 \in claims
  <2>1. Min(claims) = 1
    BY <1>2, <1>4
  <2> QED
    BY <1>1, <1>3, <1>4, <2>1 DEF known
<1>5. CASE 1 \notin claims /\ 2 \in claims
  <2>1. Min(claims) = 2
    BY <1>2, <1>5
  <2> QED
    BY <1>1, <1>3, <1>5, <2>1 DEF known
<1>6. CASE 1 \notin claims /\ 2 \notin claims /\ 3 \in claims
  <2>1. Min(claims) = 3
    BY <1>2, <1>6
  <2> QED
    BY <1>1, <1>3, <1>6, <2>1 DEF known
<1>7. CASE 1 \notin claims /\ 2 \notin claims /\ 3 \notin claims
  <2>1. claims # {} => Min(claims) = 4
    BY <1>1, <1>2, <1>7
  <2>2. claims = {} <=> answers[4] = "none"
    BY <1>1, <1>7
  <2> QED
    BY <1>1, <1>3, <1>7, <2>1, <2>2 DEF known
<1> QED
  BY <1>4, <1>5, <1>6, <1>7

\* Whatever the hook, the grammars and the client say: the client's language is asked last, and
\* a document gets a language that is registered or that the grammars name.
THEOREM LanguageIsFound ==
  ASSUME NEW hook, NEW byName, NEW byShebang, NEW languageId, NEW registered
  PROVE  NameBeforeClient(hook, byName, byShebang, languageId, registered)
BY DetectInOrder DEF NameBeforeClient
\* Every document: it is linted as text or as a template, validated once, and is a Dockerfile only
\* if no grammar says otherwise.
THEOREM OneLinterTakes == ASSUME NEW doc PROVE OneLinter(doc)
BY DEF OneLinter, Applies, isYAML, isJSON, CheckJSONSchemaApplies, KubeconformApplies, HelmApplies, HadolintApplies

-----------------------------------------------------------------------------
(* The engines of a grammar, as a state machine.                           *)

VARIABLES made, lang

\* What can be built of a grammar.
MadeOf == [load : {"ok", "error", "panic"}, query : BOOLEAN, tagger : BOOLEAN, outliner : {"ok", "error", "empty"}, highlighter : BOOLEAN]
\* What is kept of a grammar.
Engines == [loaded : BOOLEAN, hlDone : BOOLEAN, hl : BOOLEAN, tagsDone : BOOLEAN, tagger : BOOLEAN,
            outliner : BOOLEAN, kwDone : BOOLEAN, keywords : BOOLEAN]
\* A grammar is not used yet.
EngineInit == made \in MadeOf /\ lang = Gts!Unused
\* Any use of the grammar.
EngineNext ==
  /\ lang' \in {Gts!load(lang), Gts!highlighter(lang, made), Gts!tagEngines(lang, made), Gts!Keywords(lang, made), Gts!AfterFeatures(lang, made)}
  /\ UNCHANGED made
\* The uses of a grammar, one after the other: the code holds its lock.
EngineSpec == EngineInit /\ [][EngineNext]_<<made, lang>>
\* The tagger is kept.
Built(m) == Gts!Loaded(m) /\ m.query /\ m.tagger /\ m.outliner # "error"
\* An engine that was asked for is there exactly if it can be built.
AsMade(l, m) ==
  /\ l \in Engines
  /\ l.hlDone => l.hl = (Gts!Loaded(m) /\ m.highlighter)
  /\ l.tagsDone => l.tagger = Built(m) /\ l.outliner = (Built(m) /\ m.outliner = "ok")
  /\ l.kwDone => l.keywords = Gts!Loaded(m)
\* A use keeps that, and leaves the other engines alone: highlighter.
LEMMA HighlighterAsMade ==
  ASSUME NEW m \in MadeOf, NEW l, AsMade(l, m)
  PROVE  LET now == Gts!highlighter(l, m) IN
           AsMade(now, m) /\ now.hlDone /\ now.tagsDone = l.tagsDone /\ now.kwDone = l.kwDone
<1> DEFINE now == Gts!highlighter(l, m)
<1>1. CASE l.hlDone
  BY <1>1 DEF Gts!highlighter, AsMade, Engines
<1>2. CASE ~l.hlDone
  <2>1. now = [loaded |-> TRUE, hlDone |-> TRUE, hl |-> (Gts!Loaded(m) /\ m.highlighter), tagsDone |-> l.tagsDone,
             tagger |-> l.tagger, outliner |-> l.outliner, kwDone |-> l.kwDone, keywords |-> l.keywords]
    BY <1>2 DEF Gts!highlighter, Gts!load, AsMade, Engines, MadeOf
  <2> HIDE DEF now
  <2>2. Gts!Loaded(m) \in BOOLEAN /\ m.highlighter \in BOOLEAN
    BY DEF MadeOf, Gts!Loaded
  <2> QED
    BY <2>1, <2>2 DEF AsMade, Engines, now
<1> QED
  BY <1>1, <1>2
\* tagEngines.
LEMMA TagEnginesAsMade ==
  ASSUME NEW m \in MadeOf, NEW l, AsMade(l, m)
  PROVE  LET now == Gts!tagEngines(l, m) IN
           AsMade(now, m) /\ now.tagsDone /\ now.hlDone = l.hlDone /\ now.kwDone = l.kwDone
<1> DEFINE now == Gts!tagEngines(l, m)
<1>1. CASE l.tagsDone
  BY <1>1 DEF Gts!tagEngines, AsMade, Engines
<1>2. CASE ~l.tagsDone
  <2>1. now = [loaded |-> TRUE, hlDone |-> l.hlDone, hl |-> l.hl, tagsDone |-> TRUE, tagger |-> Built(m),
               outliner |-> (Built(m) /\ m.outliner = "ok"), kwDone |-> l.kwDone, keywords |-> l.keywords]
    BY <1>2 DEF Gts!tagEngines, Gts!load, AsMade, Engines, MadeOf, Built
  <2> HIDE DEF now
  <2>2. Gts!Loaded(m) \in BOOLEAN /\ m.query \in BOOLEAN /\ m.tagger \in BOOLEAN /\ Built(m) \in BOOLEAN
    BY DEF MadeOf, Built, Gts!Loaded
  <2> QED
    BY <2>1, <2>2 DEF AsMade, Engines, now
<1> QED
  BY <1>1, <1>2
\* Keywords.
LEMMA KeywordsAsMade ==
  ASSUME NEW m \in MadeOf, NEW l, AsMade(l, m)
  PROVE  LET now == Gts!Keywords(l, m) IN
           AsMade(now, m) /\ now.kwDone /\ now.hlDone = l.hlDone /\ now.tagsDone = l.tagsDone
<1> DEFINE now == Gts!Keywords(l, m)
<1>1. CASE l.kwDone
  BY <1>1 DEF Gts!Keywords, AsMade, Engines
<1>2. CASE ~l.kwDone
  <2>1. now = [loaded |-> TRUE, hlDone |-> l.hlDone, hl |-> l.hl, tagsDone |-> l.tagsDone, tagger |-> l.tagger,
               outliner |-> l.outliner, kwDone |-> TRUE, keywords |-> Gts!Loaded(m)]
    BY <1>2 DEF Gts!Keywords, Gts!load, AsMade, Engines, MadeOf
  <2> HIDE DEF now
  <2>2. Gts!Loaded(m) \in BOOLEAN
    BY DEF MadeOf, Gts!Loaded
  <2> QED
    BY <2>1, <2>2 DEF AsMade, Engines, now
<1> QED
  BY <1>1, <1>2
\* All three, as Features uses them.
LEMMA AllAsMade ==
  ASSUME NEW m \in MadeOf, NEW l, AsMade(l, m)
  PROVE  LET all == Gts!Keywords(Gts!highlighter(Gts!tagEngines(l, m), m), m) IN
           AsMade(all, m) /\ all.hlDone /\ all.tagsDone /\ all.kwDone
<1> DEFINE a == Gts!tagEngines(l, m)
           b == Gts!highlighter(a, m)
<1>1. AsMade(a, m) /\ a.tagsDone
  BY TagEnginesAsMade
<1> HIDE DEF a
<1>2. AsMade(b, m) /\ b.tagsDone /\ b.hlDone
  BY <1>1, HighlighterAsMade
<1> HIDE DEF b
<1>3. AsMade(Gts!Keywords(b, m), m) /\ Gts!Keywords(b, m).hlDone /\ Gts!Keywords(b, m).tagsDone /\ Gts!Keywords(b, m).kwDone
  BY <1>2, KeywordsAsMade
<1> QED
  BY <1>3 DEF a, b
\* Reading the grammar alone.
LEMMA LoadAsMade ==
  ASSUME NEW m \in MadeOf, NEW l, AsMade(l, m)
  PROVE  AsMade(Gts!load(l), m)
<1> DEFINE now == Gts!load(l)
<1>1. l \in Engines
  BY DEF AsMade
<1>2. /\ now \in Engines /\ now.hlDone = l.hlDone /\ now.hl = l.hl /\ now.tagsDone = l.tagsDone /\ now.tagger = l.tagger
      /\ now.outliner = l.outliner /\ now.kwDone = l.kwDone /\ now.keywords = l.keywords
  BY <1>1 DEF Gts!load, Engines
<1> HIDE DEF now
<1> QED
  BY <1>2 DEF AsMade, now
\* What is answered depends only on what can be built, and on whether load returns an error.
LEMMA AnswersAsMade ==
  ASSUME NEW m \in MadeOf, NEW l, AsMade(l, m), m.outliner # "error"
  PROVE  /\ Gts!TagAnswer(l, m) = <<Built(m), Built(m) /\ m.outliner = "ok">>
         /\ Gts!FeatureAnswer(l, m) =
              IF Gts!LoadFails(l, m) THEN <<FALSE, FALSE, FALSE, FALSE, FALSE>>
              ELSE <<TRUE, Built(m) /\ m.outliner = "ok", Gts!Loaded(m) /\ m.highlighter, Built(m), Gts!Loaded(m)>>
<1>0. Gts!Loaded(m) \in BOOLEAN /\ Built(m) \in BOOLEAN /\ (Built(m) => Gts!Loaded(m)) /\ m.highlighter \in BOOLEAN
  BY DEF Built, Gts!Loaded, MadeOf
<1>1. Gts!TagAnswer(l, m) = <<Built(m), Built(m) /\ m.outliner = "ok">>
  <2>1. CASE l.tagsDone
    BY <2>1 DEF Gts!TagAnswer, AsMade
  <2>2. CASE ~l.tagsDone
    <3>1. Gts!tagEngines(l, m).outliner = (Built(m) /\ m.outliner = "ok")
      BY TagEnginesAsMade DEF AsMade
    <3>2. (Gts!Loaded(m) /\ m.query /\ m.tagger) = Built(m)
      BY DEF Built
    <3> QED
      BY <2>2, <3>1, <3>2 DEF Gts!TagAnswer
  <2> QED
    BY <2>1, <2>2
<1>2. CASE ~Gts!LoadFails(l, m)
  <2> DEFINE all == Gts!Keywords(Gts!highlighter(Gts!tagEngines(l, m), m), m)
  <2>1. all.hl = (Gts!Loaded(m) /\ m.highlighter) /\ all.keywords = Gts!Loaded(m)
    BY AllAsMade DEF AsMade
  <2> HIDE DEF all
  <2> DEFINE tags == Gts!TagAnswer(l, m)
  <2>2. Gts!FeatureAnswer(l, m) = <<TRUE, tags[2], all.hl, tags[1], all.keywords \/ tags[1]>>
    BY <1>2 DEF Gts!FeatureAnswer, all
  <2>3. tags[1] = Built(m) /\ tags[2] = (Built(m) /\ m.outliner = "ok")
    BY <1>1
  <2>4. (all.keywords \/ tags[1]) = Gts!Loaded(m)
    BY <1>0, <2>1, <2>3
  <2> HIDE DEF tags
  <2>5. Gts!FeatureAnswer(l, m) =
          <<TRUE, Built(m) /\ m.outliner = "ok", Gts!Loaded(m) /\ m.highlighter, Built(m), Gts!Loaded(m)>>
    BY <2>1, <2>2, <2>3, <2>4
  <2> QED
    BY <1>1, <1>2, <2>5
<1>3. CASE Gts!LoadFails(l, m)
  BY <1>1, <1>3 DEF Gts!FeatureAnswer
<1> QED
  BY <1>1, <1>2, <1>3
\* After any uses in any order a grammar answers as at its first use, unless its outliner cannot be
\* built, when the first use still gets the tagger, or reading it panics, when what is said of its
\* features changes after the first use and never again (Lang.load, tagEngines, Features).
THEOREM EnginesAreSteady == EngineSpec => []Gts!EnginesSteady(lang, made)
<1> DEFINE Inv == made \in MadeOf /\ AsMade(lang, made) /\ AsMade(Gts!Unused, made)
<1>1. EngineInit => Inv
  BY DEF EngineInit, Gts!Unused, AsMade, Engines
<1>2. Inv /\ [EngineNext]_<<made, lang>> => Inv'
  <2> SUFFICES ASSUME Inv, EngineNext PROVE Inv'
    OBVIOUS
  <2>1. made' = made /\ made \in MadeOf
    BY DEF EngineNext
  <2>2. AsMade(lang', made)
    BY <2>1, HighlighterAsMade, TagEnginesAsMade, KeywordsAsMade, AllAsMade, LoadAsMade DEF EngineNext, Gts!AfterFeatures
  <2> QED
    BY <2>1, <2>2
<1>3. Inv => Gts!EnginesSteady(lang, made)
  <2> SUFFICES ASSUME Inv, made.outliner # "error"
               PROVE  LET first == IF lang.loaded /\ made.load = "panic" THEN Gts!load(Gts!Unused) ELSE Gts!Unused
                      IN  /\ Gts!TagAnswer(lang, made) = Gts!TagAnswer(Gts!Unused, made)
                          /\ Gts!FeatureAnswer(lang, made) = Gts!FeatureAnswer(first, made)
    BY DEF Gts!EnginesSteady
  <2> DEFINE first == IF lang.loaded /\ made.load = "panic" THEN Gts!load(Gts!Unused) ELSE Gts!Unused
  <2>1. Gts!load(Gts!Unused).loaded = TRUE /\ Gts!Unused.loaded = FALSE
    BY DEF Gts!load, Gts!Unused
  <2>2. Gts!LoadFails(first, made) <=> Gts!LoadFails(lang, made)
    BY <2>1 DEF Gts!LoadFails
  <2>3. AsMade(first, made)
    BY LoadAsMade
  <2> HIDE DEF first
  <2>4. Gts!FeatureAnswer(lang, made) = Gts!FeatureAnswer(first, made)
    BY <2>2, <2>3, AnswersAsMade
  <2>5. Gts!TagAnswer(lang, made) = Gts!TagAnswer(Gts!Unused, made)
    BY AnswersAsMade
  <2> QED
    BY <2>4, <2>5 DEF first
<1> QED
  BY <1>1, <1>2, <1>3, PTL DEF EngineSpec

-----------------------------------------------------------------------------
(* The linters: where findings are put (Validators).                       *)

\* What is said of a resource: nothing exactly when it is valid.
LEMMA ResourceSpeaks ==
  ASSUME NEW docs, NEW Name, NEW Err, NEW r \in Resource(Name, Err), NEW idx
  PROVE  /\ ResourceDiags(docs, r, idx) = <<>> <=> r.status = "statusValid"
         /\ \E T : ResourceDiags(docs, r, idx) \in Seq(T)
<1> DEFINE d     == findDoc(docs, r, idx)
           start == IF d = 0 THEN 0 ELSE docs[d].yaml["root"].line
           at(e) == IF d = 0 THEN 0 ELSE locate(docs[d].yaml, refineExtra(docs[d].yaml, e.segs, e.extra)).line
           out   == ResourceDiags(docs, r, idx)
           n     == Len(r.errors)
<1>1. r.status \in Statuses /\ r.errors \in Seq(Err) /\ n \in Nat /\ DOMAIN r.errors = 1 .. n /\ (r.errors = <<>> <=> n = 0)
  BY DEF Resource
<1>2. out = CASE r.status = "statusInvalid" /\ r.errors # <<>> -> [i \in DOMAIN r.errors |-> [line |-> at(r.errors[i]), sev |-> "error"]]
              [] r.status = "statusInvalid" /\ r.errors = <<>> -> <<[line |-> start, sev |-> "error"]>>
              [] r.status = "statusError"   -> <<[line |-> start, sev |-> "error"]>>
              [] r.status = "statusSkipped" -> <<[line |-> start, sev |-> "information"]>>
              [] OTHER -> <<>>
  BY DEF ResourceDiags
<1> HIDE DEF d, start, at, out, n
<1>3. CASE r.status = "statusInvalid" /\ r.errors # <<>>
  <2> DEFINE T == {[line |-> at(r.errors[i]), sev |-> "error"] : i \in 1 .. n}
  <2>1. out = [i \in 1 .. n |-> [line |-> at(r.errors[i]), sev |-> "error"]]
    BY <1>1, <1>2, <1>3
  <2>2. \A i \in 1 .. n : out[i] \in T
    BY <2>1
  <2> HIDE DEF T
  <2>3. out \in [1 .. n -> T]
    BY <2>1, <2>2
  <2>4. out \in Seq(T) /\ Len(out) = n
    BY <1>1, <2>3
  <2> QED
    BY <1>1, <1>3, <2>4 DEF out
<1>4. CASE r.status # "statusValid" /\ ~(r.status = "statusInvalid" /\ r.errors # <<>>)
  <2>1. PICK x : out = <<x>>
    BY <1>1, <1>2, <1>4 DEF Statuses
  <2>2. out # <<>> /\ out \in Seq({x})
    BY <2>1
  <2> QED
    BY <1>4, <2>2 DEF out
<1>5. CASE r.status = "statusValid"
  <2>1. out = <<>> /\ <<>> \in Seq({})
    BY <1>2, <1>5
  <2> QED
    BY <1>5, <2>1 DEF out
<1> QED
  BY <1>3, <1>4, <1>5

\* What a tool may bring back.
ToolRun(Name, Err) == [ran : BOOLEAN, exit : Int, readable : BOOLEAN, report : Seq(Resource(Name, Err))]

\* What each of two sequences of sequences holds decides whether they join to nothing.
LEMMA PartsEmpty ==
  ASSUME NEW n \in Nat, NEW s, DOMAIN s = 1 .. n, s = [i \in 1 .. n |-> s[i]], \A i \in 1 .. n : \E T : s[i] \in Seq(T)
  PROVE  FlattenSeq(s) = <<>> <=> \A i \in 1 .. n : s[i] = <<>>
<1> DEFINE T == UNION {{s[i][j] : j \in DOMAIN s[i]} : i \in 1 .. n}
<1>1. ASSUME NEW i \in 1 .. n PROVE s[i] \in Seq(T)
  <2>1. PICK X : s[i] \in Seq(X)
    OBVIOUS
  <2> DEFINE p == s[i]
  <2>2. \A j \in DOMAIN p : p[j] \in T
    OBVIOUS
  <2>3. Len(p) \in Nat /\ DOMAIN p = 1 .. Len(p) /\ p = [j \in 1 .. Len(p) |-> p[j]]
    BY <2>1
  <2> HIDE DEF T, p
  <2>4. p \in [1 .. Len(p) -> T]
    BY <2>2, <2>3
  <2> QED
    BY <2>3, <2>4 DEF p
<1> HIDE DEF T
<1>2. s \in [1 .. n -> Seq(T)]
  BY <1>1
<1>3. s \in Seq(Seq(T)) /\ Len(s) = n
  BY <1>2
<1> QED
  BY <1>3, Flattened

\* Whatever a tool reports: a document without findings was read by a tool that ran, and found
\* valid; a Kubernetes manifest without findings has only valid resources.
THEOREM CleanWasValidated ==
  ASSUME NEW docs, NEW Name, NEW Err, NEW tr \in ToolRun(Name, Err)
  PROVE  CleanMeansValid(docs, tr)
<1> DEFINE n       == Len(tr.report)
           entry(i) == [line |-> i, sev |-> tr.report[i].status]
           es      == [i \in DOMAIN tr.report |-> entry(i)]
           entries == [tr EXCEPT !.report = [i \in DOMAIN @ |-> [line |-> i, sev |-> @[i].status]]]
           clean(out) == ~out.failed /\ out.diags = <<>>
<1>1. n \in Nat /\ DOMAIN tr.report = 1 .. n /\ (tr.report = <<>> <=> n = 0) /\ \A i \in 1 .. n : tr.report[i] \in Resource(Name, Err)
  BY DEF ToolRun
<1>2. entries.report = es /\ entries.ran = tr.ran /\ entries.readable = tr.readable /\ entries.exit = tr.exit
  BY DEF ToolRun
<1>3. es = [i \in 1 .. n |-> entry(i)] /\ DOMAIN es = 1 .. n /\ (es = <<>> <=> n = 0)
  <2>1. es = [i \in 1 .. n |-> entry(i)] /\ DOMAIN es = 1 .. n
    BY <1>1
  <2>2. es = <<>> => DOMAIN es = {}
    OBVIOUS
  <2>3. n = 0 => es = <<>>
    BY <2>1
  <2> QED
    BY <1>1, <2>1, <2>2, <2>3
<1>4. clean(Yamllint(entries)) => tr.ran /\ n = 0
  <2> HIDE DEF entries, es, n
  <2> QED
    BY <1>2, <1>3 DEF Yamllint, Found, Failed
<1>5. clean(Taplo(entries)) => tr.ran /\ n = 0
  <2> DEFINE s == [i \in 1 .. n |-> IF es[i].line = -1 THEN <<>> ELSE <<es[i]>>]
  <2>1. \A i \in 1 .. n : s[i] = <<es[i]>>
    <3> SUFFICES ASSUME NEW i \in 1 .. n PROVE s[i] = <<es[i]>>
      OBVIOUS
    <3>1. es[i].line = i
      BY <1>3
    <3> QED
      BY <1>1, <3>1
  <2>2. Taplo(entries) = IF tr.ran THEN Found(FlattenSeq(s)) ELSE Failed
    <3> HIDE DEF entries, es, n
    <3> QED
      BY <1>2, <1>3 DEF Taplo
  <2>3. DOMAIN s = 1 .. n /\ s = [i \in 1 .. n |-> s[i]]
    OBVIOUS
  <2> HIDE DEF s, es, n, entries
  <2>4. \A i \in 1 .. n : s[i] # <<>> /\ \E T : s[i] \in Seq(T)
    <3> SUFFICES ASSUME NEW i \in 1 .. n PROVE s[i] # <<>> /\ s[i] \in Seq({es[i]})
      OBVIOUS
    <3> DEFINE x == es[i]
    <3>1. s[i] = <<x>>
      BY <2>1
    <3> HIDE DEF x
    <3>2. <<x>> # <<>> /\ <<x>> \in Seq({x})
      OBVIOUS
    <3> QED
      BY <3>1, <3>2 DEF x
  <2>5. FlattenSeq(s) = <<>> <=> \A i \in 1 .. n : s[i] = <<>>
    BY <1>1, <2>3, <2>4, PartsEmpty
  <2>6. FlattenSeq(s) = <<>> => n = 0
    <3>1. n # 0 => 1 \in 1 .. n
      BY <1>1
    <3> QED
      BY <2>4, <2>5, <3>1
  <2> QED
    BY <2>2, <2>6 DEF Found, Failed
<1>6. clean(Hadolint(entries)) => tr.ran /\ tr.readable /\ n = 0
  <2> DEFINE levels == [i \in DOMAIN entries.report |->
                         [entries.report[i] EXCEPT !.sev = IF @ \in {"error", "warning", "style"} THEN @ ELSE "information"]]
  <2>1. DOMAIN levels = 1 .. n
    BY <1>2, <1>3
  <2>2. levels = <<>> => n = 0
    <3> HIDE DEF levels, n
    <3>1. levels = <<>> => DOMAIN levels = {}
      OBVIOUS
    <3> QED
      BY <1>1, <2>1, <3>1
  <2>3. Hadolint(entries) = IF ~entries.ran \/ ~entries.readable THEN Failed ELSE Found(levels)
    BY DEF Hadolint
  <2> HIDE DEF levels, entries, n
  <2> QED
    BY <1>2, <2>2, <2>3 DEF Found, Failed
<1>7. clean(CheckJSONSchema(entries)) => tr.ran /\ (tr.exit = 0 \/ (tr.readable /\ n = 0))
  <2> HIDE DEF entries, es, n
  <2> QED
    BY <1>2, <1>3 DEF CheckJSONSchema, Found, Failed
<1>8. clean(Kubeconform(docs, tr)) => tr.ran /\ tr.readable /\ \A i \in 1 .. n : tr.report[i].status = "statusValid"
  <2> DEFINE s == [i \in DOMAIN tr.report |-> ResourceDiags(docs, tr.report[i], i)]
  <2>1. DOMAIN s = 1 .. n /\ s = [i \in 1 .. n |-> s[i]] /\ \A i \in 1 .. n : s[i] = ResourceDiags(docs, tr.report[i], i)
    BY <1>1
  <2>2. Kubeconform(docs, tr) = IF ~tr.ran \/ ~tr.readable THEN Failed ELSE Found(FlattenSeq(s))
    BY DEF Kubeconform
  <2> HIDE DEF s, n
  <2>3. \A i \in 1 .. n : (s[i] = <<>> <=> tr.report[i].status = "statusValid") /\ \E T : s[i] \in Seq(T)
    BY <1>1, <2>1, ResourceSpeaks
  <2>4. FlattenSeq(s) = <<>> <=> \A i \in 1 .. n : s[i] = <<>>
    BY <1>1, <2>1, <2>3, PartsEmpty
  <2> QED
    BY <2>2, <2>3, <2>4 DEF Found, Failed
<1> HIDE DEF n
<1> QED
  BY <1>1, <1>4, <1>5, <1>6, <1>7, <1>8 DEF CleanMeansValid

\* The width of the first runes.
WidthSteps(f, line) ==
  /\ f \in [0 .. Len(line) -> Nat] /\ f[0] = 0
  /\ \A i \in 1 .. Len(line) : f[i] = f[i - 1] + line[i]

\* Width adds up the runes, one after the other.
LEMMA WidthTraced ==
  ASSUME NEW line \in Seq(Nat)
  PROVE  \E f : WidthSteps(f, line) /\ f[Len(line)] = Width(line)
<1> DEFINE n     == Len(line)
           Op    == [x \in Nat \X (1 .. n) |-> x[1] + line[x[2]]]
           is(g) == g = [s \in SUBSET (1 .. n) |-> IF s = {} THEN 0 ELSE g[s \ {Max(s)}] + line[Max(s)]]
<1>1. n \in Nat /\ DOMAIN line = 1 .. n /\ 0 \in Nat
  OBVIOUS
<1>2. \A v \in Nat, i \in 1 .. n : Op[<<v, i>>] = v + line[i] /\ v + line[i] \in Nat
  <2> SUFFICES ASSUME NEW v \in Nat, NEW i \in 1 .. n PROVE Op[<<v, i>>] = v + line[i] /\ v + line[i] \in Nat
    OBVIOUS
  <2>1. line[i] \in Nat
    OBVIOUS
  <2> HIDE DEF n
  <2> QED
    BY <2>1
<1>3. Op \in [Nat \X (1 .. n) -> Nat]
  <2> HIDE DEF n
  <2> QED
    BY <1>2
<1>4. Width(line) = (CHOOSE g : is(g))[1 .. n]
  BY <1>1 DEF Width, FoldLeft, MapThenFoldSet
<1> HIDE DEF n, Op
<1>5. \E g : is(g)
  <2>1. PICK g \in [SUBSET (1 .. n) -> Nat] : IsFold(g, n, 0, Op)
    BY <1>1, <1>3, FoldExists
  <2>2. ASSUME NEW s \in SUBSET (1 .. n) PROVE g[s] = IF s = {} THEN 0 ELSE g[s \ {Max(s)}] + line[Max(s)]
    <3>1. s # {} => Max(s) \in 1 .. n /\ s \ {Max(s)} \in SUBSET (1 .. n)
      BY <1>1, LastOfThese
    <3>2. g[s] = IF s = {} THEN 0 ELSE Op[<<g[s \ {Max(s)}], Max(s)>>]
      BY <2>1 DEF IsFold
    <3>3. s # {} => g[s \ {Max(s)}] \in Nat
      BY <2>1, <3>1
    <3> QED
      BY <1>2, <3>1, <3>2, <3>3
  <2>3. is(g)
    BY <2>1, <2>2
  <2> QED
    BY <2>3
<1> DEFINE g == CHOOSE h : is(h)
<1>6. is(g)
  BY <1>5
<1> HIDE DEF g
<1>7. Tabulates(g, n, Nat, 0, Op)
  <2>1. g[{}] = 0
    BY <1>6
  <2>2. ASSUME NEW s \in SUBSET (1 .. n), s # {}, g[s \ {Max(s)}] \in Nat PROVE g[s] = Op[<<g[s \ {Max(s)}], Max(s)>>]
    <3>1. Max(s) \in 1 .. n
      BY <1>1, <2>2, LastOfThese
    <3> QED
      BY <1>2, <1>6, <2>2, <3>1
  <2> QED
    BY <2>1, <2>2 DEF Tabulates
<1>8. PICK f : Traces(f, n, Nat, 0, Op) /\ f[n] = g[1 .. n]
  <2>1. FoldsTo(g[1 .. n], n, Nat, 0, Op)
    BY <1>1, <1>3, <1>7, FoldTraced
  <2> QED
    BY <2>1 DEF FoldsTo
<1>9. \A i \in 1 .. n : f[i] = f[i - 1] + line[i]
  <2> SUFFICES ASSUME NEW i \in 1 .. n PROVE f[i] = f[i - 1] + line[i]
    OBVIOUS
  <2>1. i - 1 \in 0 .. n
    BY <1>1
  <2> QED
    BY <1>2, <1>8, <2>1 DEF Traces
<1>10. WidthSteps(f, line) /\ f[n] = Width(line)
  BY <1>4, <1>8, <1>9 DEF g, n, Traces, WidthSteps
<1> QED
  BY <1>10 DEF n

\* The width of the first runes of a line is one of the sums on the way to that of the line.
LEMMA WidthOfFirst ==
  ASSUME NEW line \in Seq(Nat), NEW m \in 0 .. Len(line)
  PROVE  Width(SubSeq(line, 1, m)) \in Nat /\ Width(line) \in Nat /\ Width(SubSeq(line, 1, m)) <= Width(line)
<1> DEFINE n == Len(line)
           p == SubSeq(line, 1, m)
<1>1. n \in Nat /\ m \in Nat /\ m <= n /\ n \in 0 .. n /\ (\A i \in 1 .. n : line[i] \in Nat) /\ \A i \in 0 .. m : i \in 0 .. n
  OBVIOUS
<1>2. p \in Seq(Nat) /\ Len(p) = m /\ \A i \in 1 .. m : p[i] = line[i]
  BY FirstOf
<1> HIDE DEF n, p
<1>3. PICK f : WidthSteps(f, line) /\ f[n] = Width(line)
  BY WidthTraced DEF n
<1>4. PICK h : WidthSteps(h, p) /\ h[m] = Width(p)
  BY <1>2, WidthTraced
<1>5. h[m] = f[m]
  <2> DEFINE S == {k \in 0 .. m : h[k] = f[k]}
  <2>1. \A k : k \in S <=> k \in 0 .. m /\ h[k] = f[k]
    OBVIOUS
  <2> HIDE DEF S
  <2>2. 0 \in S
    <3>1. h[0] = 0 /\ f[0] = 0
      BY <1>3, <1>4 DEF WidthSteps
    <3>2. 0 \in 0 .. m
      BY <1>1
    <3> QED
      BY <2>1, <3>1, <3>2
  <2>3. ASSUME NEW k \in 1 .. m, k - 1 \in S PROVE k \in S
    <3>1. k \in 0 .. m /\ k - 1 \in 0 .. m /\ k \in 1 .. n
      BY <1>1
    <3>2. h[k] = h[k - 1] + p[k] /\ f[k] = f[k - 1] + line[k]
      BY <1>2, <1>3, <1>4, <3>1 DEF WidthSteps, n
    <3> QED
      BY <1>2, <2>1, <2>3, <3>1, <3>2
  <2>4. m \in S
    <3>1. 0 \in S /\ (\A k \in 1 .. m : k - 1 \in S => k \in S) /\ m \in 0 .. m
      BY <1>1, <2>2, <2>3
    <3> QED
      BY <1>1, <3>1, CountUp
  <2> QED
    BY <2>1, <2>4
<1>6. f[m] <= f[n] /\ f[m] \in Nat /\ f[n] \in Nat
  <2> DEFINE S == {k \in 0 .. n : m <= k => f[m] <= f[k]}
  <2>1. \A k : k \in S <=> k \in 0 .. n /\ (m <= k => f[m] <= f[k])
    OBVIOUS
  <2> HIDE DEF S
  <2>2. \A k \in 0 .. n : f[k] \in Nat
    BY <1>3 DEF WidthSteps, n
  <2>3. 0 \in S
    BY <1>1, <2>1, <2>2
  <2>4. ASSUME NEW k \in 1 .. n, k - 1 \in S PROVE k \in S
    <3>1. k \in 0 .. n /\ k - 1 \in 0 .. n /\ m \in 0 .. n
      BY <1>1
    <3>2. f[k] = f[k - 1] + line[k] /\ line[k] \in Nat
      BY <1>1, <1>3 DEF WidthSteps, n
    <3>3. f[m] \in Nat /\ f[k] \in Nat /\ f[k - 1] \in Nat
      BY <2>2, <3>1
    <3>4. CASE m <= k - 1
      <4>1. f[m] <= f[k - 1]
        BY <2>1, <2>4, <3>4
      <4>2. f[m] <= f[k]
        <5>1. \A x, y, z, w \in Nat : x <= y /\ z = y + w => x <= z
          OBVIOUS
        <5> QED
          BY <3>2, <3>3, <4>1, <5>1
      <4> QED
        BY <2>1, <3>1, <4>2
    <3>5. CASE ~(m <= k - 1)
      <4>1. m <= k => m = k
        BY <1>1, <3>5
      <4> QED
        BY <2>1, <3>1, <3>3, <4>1
    <3> QED
      BY <3>4, <3>5
  <2>5. n \in S
    <3>1. 0 \in S /\ (\A k \in 1 .. n : k - 1 \in S => k \in S) /\ n \in 0 .. n
      BY <1>1, <2>3, <2>4
    <3> QED
      BY <1>1, <3>1, CountUp
  <2> QED
    BY <1>1, <2>1, <2>2, <2>5
<1> QED
  BY <1>3, <1>4, <1>5, <1>6 DEF p

\* Whatever line and column a tool reports: its diagnostic is on a line of the document, on a rune
\* of it, and not empty where there is something to mark.
THEOREM DiagnosticsInDocument ==
  ASSUME NEW lines \in Seq(Seq(Nat)), lines # <<>>, NEW line \in Int, NEW col \in Int
  PROVE  PlacesInDocument(lines, line, col)
<1> DEFINE n == Len(lines)
           d == mkDiag(lines, line, col)
           l == IF line >= n THEN n - 1 ELSE IF line < 0 THEN 0 ELSE line
           here == lines[l + 1]
           m == IF col < 0 THEN 0 ELSE Min({col, Len(here)})
           s == utf16Col(here, col)
           e == Max({Width(here), s + 1})
<1>1. n \in Nat /\ n # 0 /\ l \in 0 .. n - 1 /\ l + 1 \in 1 .. n /\ (line \in 0 .. n - 1 => l = line)
  OBVIOUS
<1>2. here \in Seq(Nat) /\ Len(here) \in Nat
  BY <1>1
<1>3. d = [line |-> l, start |-> s, end |-> e] /\ s = Width(SubSeq(here, 1, m))
  BY DEF mkDiag, utf16Col
<1> HIDE DEF n, d, l, here
<1>4. m \in 0 .. Len(here) /\ (col \in 0 .. Len(here) => m = col)
  <2>1. CASE col < 0
    BY <1>2, <2>1
  <2>2. CASE ~(col < 0)
    <3> DEFINE both == {col, Len(here)}
    <3>1. both \in SUBSET Nat /\ both # {} /\ Len(here) \in both /\ col \in both /\ \A x \in both : x = col \/ x = Len(here)
      BY <1>2, <2>2
    <3>2. m = Min(both)
      BY <2>2
    <3> HIDE DEF both, m
    <3>3. Min(both) \in both /\ Min(both) <= Len(here) /\ Min(both) <= col /\ Min(both) \in Nat
      BY <3>1, SmallestOf
    <3> QED
      BY <1>2, <2>2, <3>1, <3>2, <3>3
  <2> QED
    BY <2>1, <2>2
<1> HIDE DEF m, s
<1>5. s \in Nat /\ Width(here) \in Nat /\ s <= Width(here)
  BY <1>2, <1>3, <1>4, WidthOfFirst
<1>6. e \in Nat /\ s < e
  <2> DEFINE both == {Width(here), s + 1}
             top  == Width(here) + s + 1
  <2>1. top \in Nat /\ both \in SUBSET (0 .. top) /\ both # {} /\ s + 1 \in both
    BY <1>5
  <2> HIDE DEF both, top
  <2>2. Max(both) \in both /\ s + 1 <= Max(both)
    BY <2>1, LargestOf
  <2>3. Max(both) \in Nat
    <3>1. Max(both) \in 0 .. top
      BY <2>1, <2>2
    <3> QED
      BY <2>1, <3>1
  <2> QED
    BY <1>5, <2>2, <2>3 DEF both
<1> HIDE DEF e
<1>7. d.line = l /\ d.start = s /\ d.end = e
  BY <1>3
<1>8. /\ d.line \in 0 .. n - 1 /\ d.start < d.end /\ d.start <= Width(lines[d.line + 1])
  BY <1>1, <1>5, <1>6, <1>7 DEF here
<1>9. line \in 0 .. n - 1 /\ col \in 0 .. Len(lines[line + 1]) => d.line = line /\ d.start = Width(SubSeq(lines[line + 1], 1, col))
  BY <1>1, <1>3, <1>4, <1>7 DEF here
<1> QED
  BY <1>8, <1>9 DEF PlacesInDocument, n, d

\* The lines of its nodes and of their keys.
LinesOf(yaml) == UNION {{yaml[n].items[k].line : k \in DOMAIN yaml[n].items} \cup {yaml[n].line} : n \in DOMAIN yaml}

\* Where the walk of locate may be.
PlaceIn(yaml) == [node : DOMAIN yaml, line : LinesOf(yaml), found : BOOLEAN]
\* Its step.
Walk(yaml, at, s) ==
  IF ~at.found THEN at
  ELSE LET next == Step(yaml, at.node, s)
       IN IF next.to = "none" THEN [at EXCEPT !.found = FALSE] ELSE [node |-> next.to, line |-> next.line, found |-> TRUE]

\* What a step does.
LEMMA WalkStays ==
  ASSUME NEW yaml, IsYaml(yaml), NEW at \in PlaceIn(yaml), NEW s
  PROVE  /\ Walk(yaml, at, s) \in PlaceIn(yaml)
         /\ ~at.found => Walk(yaml, at, s) = at
         /\ at.found => (Walk(yaml, at, s).found <=> s \in DOMAIN yaml[at.node].items)
         /\ ~Walk(yaml, at, s).found => Walk(yaml, at, s).line = at.line
<1> DEFINE next == Step(yaml, at.node, s)
           items == yaml[at.node].items
<1>1. at.node \in DOMAIN yaml /\ at.line \in LinesOf(yaml) /\ at.found \in BOOLEAN /\ at = [node |-> at.node, line |-> at.line, found |-> at.found]
  BY DEF PlaceIn
<1>2. CASE ~at.found
  BY <1>2 DEF Walk
<1>3. CASE at.found /\ s \in DOMAIN items
  <2>1. next.to \in DOMAIN yaml /\ next.to # "none" /\ next.line \in LinesOf(yaml)
    BY <1>1, <1>3 DEF IsYaml, LinesOf, Step
  <2>2. Walk(yaml, at, s) = [node |-> next.to, line |-> next.line, found |-> TRUE]
    BY <1>3, <2>1 DEF Walk
  <2> QED
    BY <1>3, <2>1, <2>2 DEF PlaceIn
<1>4. CASE at.found /\ s \notin DOMAIN items
  <2>1. next.to = "none"
    BY <1>4 DEF Step
  <2>2. Walk(yaml, at, s) = [at EXCEPT !.found = FALSE]
    BY <1>4, <2>1 DEF Walk
  <2>3. Walk(yaml, at, s) = [node |-> at.node, line |-> at.line, found |-> FALSE]
    BY <1>1, <2>2
  <2> QED
    BY <1>1, <1>4, <2>3 DEF PlaceIn
<1> QED
  BY <1>1, <1>2, <1>3, <1>4

\* Where it begins.
Root(yaml) == [node |-> "root", line |-> yaml["root"].line, found |-> TRUE]
\* All its steps.
Walks(f, yaml, segs) ==
  /\ f \in [0 .. Len(segs) -> PlaceIn(yaml)] /\ f[0] = Root(yaml)
  /\ \A i \in 1 .. Len(segs) : f[i] = Walk(yaml, f[i - 1], segs[i])

\* What locate returns is where the walk ends.
LEMMA LocateTraced ==
  ASSUME NEW yaml, IsYaml(yaml), NEW Seg, NEW segs \in Seq(Seg)
  PROVE  \E f : Walks(f, yaml, segs) /\ f[Len(segs)] = locate(yaml, segs)
<1> DEFINE n     == Len(segs)
           V     == PlaceIn(yaml)
           base  == Root(yaml)
           Op    == [x \in V \X (1 .. n) |-> Walk(yaml, x[1], segs[x[2]])]
           is(g) == g = [s \in SUBSET (1 .. n) |-> IF s = {} THEN base ELSE Walk(yaml, g[s \ {Max(s)}], segs[Max(s)])]
<1>1. n \in Nat /\ DOMAIN segs = 1 .. n /\ base \in V
  BY DEF Root, PlaceIn, LinesOf, IsYaml
<1>2. \A v \in V, i \in 1 .. n : Op[<<v, i>>] = Walk(yaml, v, segs[i]) /\ Walk(yaml, v, segs[i]) \in V
  <2> SUFFICES ASSUME NEW v \in V, NEW i \in 1 .. n PROVE Op[<<v, i>>] = Walk(yaml, v, segs[i]) /\ Walk(yaml, v, segs[i]) \in V
    OBVIOUS
  <2>1. Walk(yaml, v, segs[i]) \in V
    BY WalkStays
  <2> HIDE DEF V, n
  <2> QED
    BY <2>1
<1>3. Op \in [V \X (1 .. n) -> V]
  BY <1>2
<1>4. locate(yaml, segs) = (CHOOSE g : is(g))[1 .. n]
  BY <1>1 DEF locate, FoldLeft, MapThenFoldSet, Walk, Root
<1> HIDE DEF n, V, base, Op
<1>5. \E g : is(g)
  <2>1. PICK g \in [SUBSET (1 .. n) -> V] : IsFold(g, n, base, Op)
    BY <1>1, <1>3, FoldExists
  <2>2. ASSUME NEW s \in SUBSET (1 .. n) PROVE g[s] = IF s = {} THEN base ELSE Walk(yaml, g[s \ {Max(s)}], segs[Max(s)])
    <3>1. s # {} => Max(s) \in 1 .. n /\ s \ {Max(s)} \in SUBSET (1 .. n)
      BY <1>1, LastOfThese
    <3> QED
      BY <1>2, <2>1, <3>1 DEF IsFold
  <2>3. is(g)
    BY <2>1, <2>2
  <2> QED
    BY <2>3
<1> DEFINE g == CHOOSE h : is(h)
<1>6. is(g)
  BY <1>5
<1> HIDE DEF g
<1>7. Tabulates(g, n, V, base, Op)
  <2>1. g[{}] = base
    BY <1>6
  <2>2. ASSUME NEW s \in SUBSET (1 .. n), s # {}, g[s \ {Max(s)}] \in V PROVE g[s] = Op[<<g[s \ {Max(s)}], Max(s)>>]
    <3>1. Max(s) \in 1 .. n
      BY <1>1, <2>2, LastOfThese
    <3> QED
      BY <1>2, <1>6, <2>2, <3>1
  <2> QED
    BY <2>1, <2>2 DEF Tabulates
<1>8. PICK f : Traces(f, n, V, base, Op) /\ f[n] = g[1 .. n]
  <2>1. FoldsTo(g[1 .. n], n, V, base, Op)
    BY <1>1, <1>3, <1>7, FoldTraced
  <2> QED
    BY <2>1 DEF FoldsTo
<1>9. \A i \in 1 .. n : f[i] = Walk(yaml, f[i - 1], segs[i])
  <2> SUFFICES ASSUME NEW i \in 1 .. n PROVE f[i] = Walk(yaml, f[i - 1], segs[i])
    OBVIOUS
  <2>1. i - 1 \in 0 .. n
    BY <1>1
  <2> QED
    BY <1>2, <1>8, <2>1 DEF Traces
<1>10. Walks(f, yaml, segs) /\ f[n] = locate(yaml, segs)
  BY <1>4, <1>8, <1>9 DEF g, n, V, base, Traces, Walks
<1> QED
  BY <1>10 DEF n

\* Segments that begin alike lead to the same places.
LEMMA WalksAlike ==
  ASSUME NEW yaml, IsYaml(yaml), NEW Seg, NEW segs \in Seq(Seg), NEW other \in Seq(Seg),
         NEW m \in Nat, m <= Len(segs), m <= Len(other), \A i \in 1 .. m : other[i] = segs[i],
         NEW f, Walks(f, yaml, segs), NEW h, Walks(h, yaml, other)
  PROVE  h[m] = f[m]
<1> DEFINE S == {k \in 0 .. m : h[k] = f[k]}
<1>1. \A k : k \in S <=> k \in 0 .. m /\ h[k] = f[k]
  OBVIOUS
<1> HIDE DEF S
<1>2. 0 \in S
  <2>1. h[0] = Root(yaml) /\ f[0] = Root(yaml) /\ 0 \in 0 .. m
    BY DEF Walks
  <2> QED
    BY <1>1, <2>1
<1>3. ASSUME NEW k \in 1 .. m, k - 1 \in S PROVE k \in S
  <2>1. k \in 0 .. m /\ k - 1 \in 0 .. m /\ k \in 1 .. Len(segs) /\ k \in 1 .. Len(other)
    OBVIOUS
  <2>2. h[k] = Walk(yaml, h[k - 1], other[k]) /\ f[k] = Walk(yaml, f[k - 1], segs[k]) /\ other[k] = segs[k] /\ h[k - 1] = f[k - 1]
    BY <1>1, <1>3, <2>1 DEF Walks
  <2> QED
    BY <1>1, <2>1, <2>2
<1>4. 0 \in S /\ (\A k \in 1 .. m : k - 1 \in S => k \in S) /\ m \in 0 .. m
  BY <1>2, <1>3
<1>5. m \in S
  BY <1>4, CountUp
<1> QED
  BY <1>1, <1>5

\* The first of the segments lead to a place on the way.
LEMMA LocateFirst ==
  ASSUME NEW yaml, IsYaml(yaml), NEW Seg, NEW segs \in Seq(Seg), NEW f, Walks(f, yaml, segs), NEW m \in 0 .. Len(segs)
  PROVE  locate(yaml, SubSeq(segs, 1, m)) = f[m]
<1> DEFINE p == SubSeq(segs, 1, m)
<1>1. p \in Seq(Seg) /\ Len(p) = m /\ \A i \in 1 .. m : p[i] = segs[i]
  BY FirstOf
<1> HIDE DEF p
<1>2. PICK h : Walks(h, yaml, p) /\ h[m] = locate(yaml, p)
  BY <1>1, LocateTraced
<1>3. m \in Nat /\ m <= Len(segs) /\ m <= Len(p)
  BY <1>1
<1>4. h[m] = f[m]
  BY <1>1, <1>2, <1>3, WalksAlike
<1> QED
  BY <1>2, <1>4 DEF p

\* One more segment behind the others.
LEMMA OneMore ==
  ASSUME NEW T, NEW s \in Seq(T), NEW x
  PROVE  /\ Append(s, x) \in Seq(T \cup {x}) /\ s \in Seq(T \cup {x})
         /\ Len(Append(s, x)) = Len(s) + 1 /\ Append(s, x)[Len(s) + 1] = x
         /\ \A i \in 1 .. Len(s) : Append(s, x)[i] = s[i]
         /\ Last(Append(s, x)) = x /\ Front(Append(s, x)) = s
<1> DEFINE a == Append(s, x)
           n == Len(s)
<1>1. n \in Nat /\ s \in Seq(T \cup {x})
  <2>1. n \in Nat /\ s \in [1 .. n -> T]
    OBVIOUS
  <2>2. s \in [1 .. n -> T \cup {x}]
    BY <2>1
  <2> QED
    BY <2>1, <2>2
<1>2. a \in Seq(T \cup {x}) /\ Len(a) = n + 1 /\ a[n + 1] = x /\ \A i \in 1 .. n : a[i] = s[i]
  BY <1>1
<1> HIDE DEF a, n
<1>3. Last(a) = x
  BY <1>2 DEF Last
<1>4. Front(a) = s
  <2>1. n \in 0 .. Len(a) /\ (n + 1) - 1 = n
    BY <1>1, <1>2
  <2>2. SubSeq(a, 1, n) \in Seq(T \cup {x}) /\ Len(SubSeq(a, 1, n)) = n /\ \A i \in 1 .. n : SubSeq(a, 1, n)[i] = a[i]
    BY <1>2, <2>1, FirstOf
  <2> DEFINE p == SubSeq(a, 1, n)
  <2>3. p \in Seq(T \cup {x}) /\ Len(p) = n /\ \A i \in 1 .. n : p[i] = s[i]
    BY <1>2, <2>2
  <2>4. Front(a) = p
    BY <1>2, <2>1 DEF Front
  <2> HIDE DEF p
  <2>5. p = s
    BY <1>1, <2>3 DEF n
  <2> QED
    BY <2>4, <2>5
<1> QED
  BY <1>1, <1>2, <1>3, <1>4 DEF a, n

\* The segments before the last one.
LEMMA EndsWith ==
  ASSUME NEW T, NEW s \in Seq(T), NEW x, NEW a, a = Append(s, x)
  PROVE  Last(a) = x /\ Front(a) = s
<1>1. a \in Seq(T \cup {x}) /\ Len(a) = Len(s) + 1 /\ a[Len(s) + 1] = x /\ Len(s) \in Nat
  BY OneMore
<1>2. Last(a) = x
  BY <1>1 DEF Last
<1>3. Front(a) = s
  <2>1. Len(a) - 1 = Len(s)
    BY <1>1
  <2>2. Front(a) = SubSeq(a, 1, Len(s))
    BY <2>1 DEF Front
  <2>3. Front(a) = s
    BY <2>2
  <2> QED
    BY <2>3
<1> QED
  BY <1>2, <1>3

\* What refineExtra puts behind the segments leads on from where they lead.
LEMMA RefinedLeadsOn ==
  ASSUME NEW yaml, IsYaml(yaml), NEW Seg, NEW segs \in Seq(Seg), NEW extra,
         NEW fine, fine = refineExtra(yaml, segs, extra)
  PROVE  /\ fine = segs \/ fine = Append(segs, extra)
         /\ fine # segs => locate(yaml, fine).found
<1> DEFINE n == Len(segs)
<1>1. PICK f : Walks(f, yaml, segs) /\ f[n] = locate(yaml, segs)
  BY LocateTraced
<1>2. n \in Nat
  OBVIOUS
<1> HIDE DEF n
<1>3. \/ fine = segs
      \/ fine = Append(segs, extra) /\ f[n].found /\ extra \in DOMAIN yaml[f[n].node].items
  BY <1>1 DEF refineExtra, childKey
<1>4. ASSUME fine = Append(segs, extra), f[n].found, extra \in DOMAIN yaml[f[n].node].items
      PROVE  locate(yaml, fine).found
  <2>1. /\ fine \in Seq(Seg \cup {extra}) /\ segs \in Seq(Seg \cup {extra})
        /\ Len(fine) = n + 1 /\ fine[n + 1] = extra /\ \A i \in 1 .. n : fine[i] = segs[i]
    BY <1>4, OneMore DEF n
  <2>2. PICK h : Walks(h, yaml, fine) /\ h[n + 1] = locate(yaml, fine)
    BY <2>1, LocateTraced
  <2>3. n <= Len(segs) /\ n <= Len(fine)
    BY <1>2, <2>1 DEF n
  <2>4. h[n] = f[n]
    BY <1>1, <1>2, <2>1, <2>2, <2>3, WalksAlike
  <2>5. h[n + 1] = Walk(yaml, h[n], extra)
    <3>1. n + 1 \in 1 .. Len(fine) /\ (n + 1) - 1 = n
      BY <1>2, <2>1
    <3> QED
      BY <2>1, <2>2, <3>1 DEF Walks
  <2>6. f[n] \in PlaceIn(yaml)
    <3>1. n \in 0 .. n
      BY <1>2
    <3> QED
      BY <1>1, <3>1 DEF Walks, n
  <2> QED
    BY <1>4, <2>2, <2>4, <2>5, <2>6, WalkStays
<1> QED
  BY <1>3, <1>4

\* Refined or not, the segments are a sequence of segments and the extra one.
LEMMA RefinedIsSeq ==
  ASSUME NEW yaml, IsYaml(yaml), NEW Seg, NEW segs \in Seq(Seg), NEW extra
  PROVE  refineExtra(yaml, segs, extra) \in Seq(Seg \cup {extra})
<1> DEFINE fine == refineExtra(yaml, segs, extra)
<1>1. fine = segs \/ fine = Append(segs, extra)
  BY RefinedLeadsOn
<1> HIDE DEF fine
<1>2. Append(segs, extra) \in Seq(Seg \cup {extra}) /\ segs \in Seq(Seg \cup {extra})
  BY OneMore
<1>3. fine \in Seq(Seg \cup {extra})
  BY <1>1, <1>2
<1> QED
  BY <1>3 DEF fine

\* Whatever document and segments: the walk goes as far as it leads, and what refineExtra adds leads on.
THEOREM PrefixIsLocated ==
  ASSUME NEW yaml, IsYaml(yaml), NEW Seg, NEW segs \in Seq(Seg), NEW extra
  PROVE  LocatesPrefix(yaml, segs, extra)
<1> DEFINE n     == Len(segs)
           known == {k \in 0 .. n : locate(yaml, SubSeq(segs, 1, k)).found}
           M     == Max(known)
           fine  == refineExtra(yaml, segs, extra)
<1>1. PICK f : Walks(f, yaml, segs) /\ f[n] = locate(yaml, segs)
  BY LocateTraced
<1>2. n \in Nat /\ n \in 0 .. n /\ 0 \in 0 .. n
  OBVIOUS
<1>3. \A k \in 0 .. n : locate(yaml, SubSeq(segs, 1, k)) = f[k]
  BY <1>1, LocateFirst
<1>4. /\ \A k \in 1 .. n : f[k] = Walk(yaml, f[k - 1], segs[k]) /\ f[k - 1] \in PlaceIn(yaml)
      /\ f[0].found
  <2>1. \A k \in 1 .. n : k - 1 \in 0 .. n
    BY <1>2
  <2> QED
    BY <1>1, <2>1 DEF Walks, Root
<1> HIDE DEF n
<1>5. \A k \in 1 .. n : (f[k].found => f[k - 1].found) /\ (~f[k].found => f[k].line = f[k - 1].line)
  BY <1>4, WalkStays
<1>6. \A k : k \in known <=> k \in 0 .. n /\ f[k].found
  BY <1>3
<1> HIDE DEF known
<1>7. known \in SUBSET (0 .. n) /\ 0 \in known
  BY <1>2, <1>4, <1>6
<1>8. M \in known /\ M \in 0 .. n /\ \A y \in known : y <= M
  BY <1>2, <1>7, LargestOf
<1> HIDE DEF M
<1>9. \A k \in 0 .. n : f[k].found => \A j \in 0 .. k : f[j].found
  <2> DEFINE S == {k \in 0 .. n : f[k].found => \A j \in 0 .. k : f[j].found}
  <2>1. \A k : k \in S <=> k \in 0 .. n /\ (f[k].found => \A j \in 0 .. k : f[j].found)
    OBVIOUS
  <2> HIDE DEF S
  <2>2. 0 \in S
    BY <1>2, <2>1
  <2>3. ASSUME NEW k \in 1 .. n, k - 1 \in S PROVE k \in S
    <3>1. k \in 0 .. n /\ \A j \in 0 .. k : j = k \/ j \in 0 .. (k - 1)
      BY <1>2
    <3> QED
      BY <1>5, <2>1, <2>3, <3>1
  <2>4. 0 \in S /\ (\A k \in 1 .. n : k - 1 \in S => k \in S)
    BY <2>2, <2>3
  <2>5. \A k \in 0 .. n : k \in S
    BY <1>2, <2>4, CountUp
  <2> QED
    BY <2>1, <2>5
<1>10. known = 0 .. M
  <2>1. \A j \in 0 .. M : j \in known
    <3> SUFFICES ASSUME NEW j \in 0 .. M PROVE j \in known
      OBVIOUS
    <3>1. j \in 0 .. n
      BY <1>2, <1>8
    <3>2. f[M].found
      BY <1>6, <1>8
    <3>3. f[j].found
      BY <1>8, <1>9, <3>2
    <3> QED
      BY <1>6, <3>1, <3>3
  <2>2. \A j \in known : j \in 0 .. M
    BY <1>7, <1>8
  <2> QED
    BY <2>1, <2>2
<1>11. f[n].line = f[M].line
  <2> DEFINE S == {k \in 0 .. n : M <= k => f[k].line = f[M].line}
  <2>1. \A k : k \in S <=> k \in 0 .. n /\ (M <= k => f[k].line = f[M].line)
    OBVIOUS
  <2> HIDE DEF S
  <2>2. 0 \in S
    BY <1>2, <1>8, <2>1
  <2>3. ASSUME NEW k \in 1 .. n, k - 1 \in S PROVE k \in S
    <3>1. k \in 0 .. n /\ (M <= k => M = k \/ M <= k - 1)
      BY <1>2, <1>8
    <3>2. M <= k - 1 => ~f[k].found
      <4>1. M <= k - 1 => k \notin known
        BY <1>8
      <4> QED
        BY <1>6, <3>1, <4>1
    <3> QED
      BY <1>5, <2>1, <2>3, <3>1, <3>2
  <2>4. 0 \in S /\ (\A k \in 1 .. n : k - 1 \in S => k \in S)
    BY <2>2, <2>3
  <2>5. n \in S
    BY <1>2, <2>4, CountUp
  <2>6. M <= n
    BY <1>2, <1>8
  <2> QED
    BY <2>1, <2>5, <2>6
<1>12. locate(yaml, segs).line = locate(yaml, SubSeq(segs, 1, M)).line
  BY <1>1, <1>3, <1>8, <1>11
<1>13. fine # segs => locate(yaml, fine).found /\ Last(fine) = extra /\ Front(fine) = segs
  <2>1. (fine = segs \/ fine = Append(segs, extra)) /\ (fine # segs => locate(yaml, fine).found)
    BY RefinedLeadsOn
  <2>2. \A a : a = Append(segs, extra) => Last(a) = extra /\ Front(a) = segs
    BY EndsWith
  <2> HIDE DEF fine
  <2> QED
    BY <2>1, <2>2
<1> QED
  BY <1>10, <1>12, <1>13 DEF LocatesPrefix, n, known, M

\* As many names as documents: no two of them have the same.
LEMMA NamesApart ==
  ASSUME NEW n \in Nat, NEW name, DOMAIN name = 1 .. n, name = [i \in 1 .. n |-> name[i]],
         Cardinality({name[i] : i \in 1 .. n}) = n, NEW i \in 1 .. n, NEW j \in 1 .. n, name[i] = name[j]
  PROVE  i = j
<1> DEFINE S == 1 .. n
           T == {name[k] : k \in S}
<1>1. IsFiniteSet(S) /\ Cardinality(S) = n
  <2>1. IsFiniteSet(S) /\ Cardinality(S) = IF 1 > n THEN 0 ELSE n - 1 + 1
    BY FS_Interval
  <2> HIDE DEF S
  <2> QED
    BY <2>1
<1>2. name \in Surjection(S, T)
  BY DEF Surjection
<1> HIDE DEF T, S
<1>3. Cardinality(S) = Cardinality(T)
  BY <1>1 DEF T, S
<1>4. name \in Injection(S, T)
  BY <1>1, <1>2, <1>3, FS_SurjSameCardinalityImpliesInj
<1> QED
  BY <1>4 DEF Injection, IsInjective, S

\* No two documents have a kind and a name in common.
Apart(docs, n) == DOMAIN docs = 1 .. n /\ Cardinality({<<docs[k].kind, docs[k].name>> : k \in DOMAIN docs}) = n

\* The document of this kind and name is found, whatever the place of its resource.
LEMMA FoundByName ==
  ASSUME NEW docs, NEW n \in Nat, Apart(docs, n),
         NEW i \in 1 .. n, NEW r, docs[i].kind = r.kind, docs[i].name = r.name, NEW idx
  PROVE  findDoc(docs, r, idx) = i
<1> DEFINE name == [k \in 1 .. n |-> <<docs[k].kind, docs[k].name>>]
           named == {k \in DOMAIN docs : docs[k].kind = r.kind /\ docs[k].name = r.name}
<1>1. {name[k] : k \in 1 .. n} = {<<docs[k].kind, docs[k].name>> : k \in DOMAIN docs}
  BY DEF Apart
<1>2. DOMAIN name = 1 .. n /\ name = [k \in 1 .. n |-> name[k]] /\ \A k \in 1 .. n : name[k] = <<docs[k].kind, docs[k].name>>
  OBVIOUS
<1> HIDE DEF name
<1>3. \A j, k \in 1 .. n : name[j] = name[k] => j = k
  BY <1>1, <1>2, NamesApart DEF Apart
<1>4. \A k \in named : name[k] = name[i] /\ k \in 1 .. n
  BY <1>2 DEF Apart
<1>5. named = {i}
  <2>1. \A k \in named : k = i
    BY <1>3, <1>4
  <2>2. i \in named
    BY DEF Apart
  <2> QED
    BY <2>1, <2>2
<1>6. Min({i}) = i
  BY SmallestOf
<1> QED
  BY <1>5, <1>6 DEF findDoc

\* An element of a sequence.
LEMMA Element ==
  ASSUME NEW T, NEW s \in Seq(T), NEW k \in DOMAIN s
  PROVE  s[k] \in T
OBVIOUS

\* Whatever documents and resource: where names are unique, each of its findings is on a line of its own
\* document.
THEOREM FindingsInOwnDocument ==
  ASSUME NEW docs, NEW n \in Nat, DOMAIN docs = 1 .. n, n = Len(docs), \A k \in 1 .. n : IsYaml(docs[k].yaml),
         NEW Name, NEW Seg, NEW Extra, NEW r \in Resource(Name, [segs : Seq(Seg), extra : Extra]), NEW idx
  PROVE  FindingsAtHome(docs, r, idx)
<1> DEFINE names == {<<docs[k].kind, docs[k].name>> : k \in DOMAIN docs}
           keys(node) == {node.items[k].line : k \in DOMAIN node.items}
           lines(i) == UNION {keys(docs[i].yaml[m]) \cup {docs[i].yaml[m].line} : m \in DOMAIN docs[i].yaml}
<1> SUFFICES ASSUME Cardinality(names) = n, NEW i \in 1 .. n, docs[i].kind = r.kind, docs[i].name = r.name,
                    NEW d \in ToSet(ResourceDiags(docs, r, idx))
             PROVE  d.line \in lines(i)
  BY DEF FindingsAtHome
<1> DEFINE yaml  == docs[i].yaml
           start == yaml["root"].line
           at(e) == locate(yaml, refineExtra(yaml, e.segs, e.extra)).line
           out   == ResourceDiags(docs, r, idx)
<1>1. lines(i) = LinesOf(yaml) /\ IsYaml(yaml)
  BY DEF LinesOf
<1>2. findDoc(docs, r, idx) = i /\ i # 0
  <2>1. Apart(docs, n)
    BY DEF Apart
  <2> QED
    BY <2>1, FoundByName
<1>3. out = CASE r.status = "statusInvalid" /\ r.errors # <<>> -> [k \in DOMAIN r.errors |-> [line |-> at(r.errors[k]), sev |-> "error"]]
              [] r.status = "statusInvalid" /\ r.errors = <<>> -> <<[line |-> start, sev |-> "error"]>>
              [] r.status = "statusError"   -> <<[line |-> start, sev |-> "error"]>>
              [] r.status = "statusSkipped" -> <<[line |-> start, sev |-> "information"]>>
              [] OTHER -> <<>>
  BY <1>2 DEF ResourceDiags
<1>4. start \in LinesOf(yaml)
  BY <1>1 DEF LinesOf, IsYaml
<1>5. ASSUME NEW k \in DOMAIN r.errors PROVE at(r.errors[k]) \in LinesOf(yaml)
  <2> DEFINE e    == r.errors[k]
             fine == refineExtra(yaml, e.segs, e.extra)
  <2>1. e.segs \in Seq(Seg)
    <3>1. r.errors \in Seq([segs : Seq(Seg), extra : Extra])
      BY DEF Resource
    <3>2. e \in [segs : Seq(Seg), extra : Extra]
      BY <3>1, Element
    <3> QED
      BY <3>2
  <2>2. fine \in Seq(Seg \cup {e.extra})
    <3> HIDE DEF yaml, e
    <3> QED
      BY <1>1, <2>1, RefinedIsSeq
  <2> HIDE DEF fine, yaml
  <2>3. PICK f : Walks(f, yaml, fine) /\ f[Len(fine)] = locate(yaml, fine)
    BY <1>1, <2>2, LocateTraced
  <2>4. Len(fine) \in 0 .. Len(fine)
    BY <2>2
  <2>5. locate(yaml, fine).line \in LinesOf(yaml)
    BY <2>3, <2>4 DEF Walks, PlaceIn
  <2> QED
    BY <2>5 DEF fine
<1> HIDE DEF at, start, yaml
<1>6. r.status \in Statuses
  BY DEF Resource
<1>7. PICK k \in DOMAIN out : d = out[k]
  BY DEF ToSet
<1> HIDE DEF out
<1>8. CASE r.status = "statusInvalid" /\ r.errors # <<>>
  <2>1. out = [j \in DOMAIN r.errors |-> [line |-> at(r.errors[j]), sev |-> "error"]]
    BY <1>3, <1>8
  <2>2. k \in DOMAIN r.errors /\ d.line = at(r.errors[k])
    BY <1>7, <2>1
  <2> QED
    BY <1>1, <1>5, <2>2
<1>9. CASE r.status # "statusValid" /\ ~(r.status = "statusInvalid" /\ r.errors # <<>>)
  <2>1. \E s : out = <<[line |-> start, sev |-> s]>>
    BY <1>3, <1>6, <1>9 DEF Statuses
  <2>2. d.line = start
    BY <1>7, <2>1
  <2> QED
    BY <1>1, <1>4, <2>2
<1>10. CASE r.status = "statusValid"
  <2>1. out = <<>>
    BY <1>3, <1>10
  <2>2. DOMAIN out = {}
    BY <2>1
  <2> QED
    BY <1>7, <2>2
<1> QED
  BY <1>8, <1>9, <1>10

-----------------------------------------------------------------------------
(* helm: findings of lint and of the rendering (Validators).               *)

\* A diagnostic of a template.
HelmDiag    == [line : Nat, sev : Severities]
\* What AddLint and AddRendering hand on.
Merged      == [diags : Seq(HelmDiag), seen : SUBSET Nat]
\* AndBefore the first finding.
NoneYet     == [diags |-> <<>>, seen |-> {}]

\* A place without a line is the first one.
LEMMA NotBelowZero ==
  ASSUME NEW l \in {-1} \cup Nat
  PROVE  Max({l, 0}) = IF l = -1 THEN 0 ELSE l
BY DEF Max

\* Whether lint's finding is passed on.
Counts(f, rel) == f.sev # "INFO" /\ About(f, rel)

\* What a finding of lint adds.
LEMMA LintStep ==
  ASSUME NEW out \in Merged, NEW f \in HelmFinding, NEW rel
  PROVE  /\ AddLint(out, f, rel) \in Merged
         /\ ~Counts(f, rel) => AddLint(out, f, rel) = out
         /\ Counts(f, rel) =>
              /\ AddLint(out, f, rel).diags = Append(out.diags, [line |-> IF f.line = -1 THEN 0 ELSE f.line, sev |-> f.sev])
              /\ AddLint(out, f, rel).seen = out.seen \cup (IF f.sev = "ERROR" /\ f.line # -1 THEN {f.line} ELSE {})
<1> DEFINE d    == [line |-> IF f.line = -1 THEN 0 ELSE f.line, sev |-> f.sev]
           seen == out.seen \cup (IF f.sev = "ERROR" /\ f.line # -1 THEN {f.line} ELSE {})
<1>1. f.line \in {-1} \cup Nat /\ f.sev \in Severities /\ out.diags \in Seq(HelmDiag) /\ out.seen \in SUBSET Nat
  BY DEF HelmFinding, Merged
<1>2. AddLint(out, f, rel) = IF Counts(f, rel) THEN [diags |-> Append(out.diags, d), seen |-> seen] ELSE out
  BY <1>1, NotBelowZero DEF AddLint, Counts
<1>3. d \in HelmDiag /\ seen \in SUBSET Nat
  BY <1>1 DEF HelmDiag
<1> HIDE DEF d, seen
<1>4. [diags |-> Append(out.diags, d), seen |-> seen] \in Merged
  BY <1>1, <1>3 DEF Merged
<1> QED
  BY <1>2, <1>4 DEF d, seen

\* What an error of the rendering adds.
LEMMA RenderingStep ==
  ASSUME NEW out \in Merged, NEW f \in HelmError, NEW rel
  PROVE  /\ AddRendering(out, f, rel) \in Merged /\ AddRendering(out, f, rel).seen = out.seen
         /\ ~About(f, rel) \/ f.line \in out.seen => AddRendering(out, f, rel) = out
         /\ About(f, rel) /\ f.line \notin out.seen =>
              AddRendering(out, f, rel).diags = Append(out.diags, [line |-> f.line, sev |-> "ERROR"])
<1> DEFINE d == [line |-> f.line, sev |-> "ERROR"]
<1>1. out.diags \in Seq(HelmDiag) /\ out.seen \in SUBSET Nat /\ out = [diags |-> out.diags, seen |-> out.seen] /\ f.line \in Nat
  BY DEF Merged, HelmError
<1>0. [out EXCEPT !.diags = Append(@, d)] = [diags |-> Append(out.diags, d), seen |-> out.seen]
  <2> HIDE DEF d
  <2>1. \A x : [out EXCEPT !.diags = x] = [diags |-> x, seen |-> out.seen]
    BY DEF Merged
  <2> QED
    BY <2>1
<1>2. AddRendering(out, f, rel) = IF ~About(f, rel) \/ f.line \in out.seen THEN out ELSE [diags |-> Append(out.diags, d), seen |-> out.seen]
  BY <1>0 DEF AddRendering
<1>3. d \in HelmDiag
  <2> DEFINE l == f.line
  <2>1. l \in Nat /\ d = [line |-> l, sev |-> "ERROR"]
    BY <1>1
  <2> HIDE DEF d, l
  <2>2. [line |-> l, sev |-> "ERROR"] \in HelmDiag
    BY <2>1 DEF HelmDiag, Severities
  <2> QED
    BY <2>1, <2>2
<1> HIDE DEF d
<1>4. [diags |-> Append(out.diags, d), seen |-> out.seen] \in Merged
  BY <1>1, <1>3 DEF Merged
<1> QED
  BY <1>2, <1>4 DEF d

\* What lint has said, one finding after the other.
LintSteps(f, fs, rel) ==
  /\ f \in [0 .. Len(fs) -> Merged] /\ f[0] = NoneYet
  /\ \A i \in 1 .. Len(fs) : f[i] = AddLint(f[i - 1], fs[i], rel)
\* And then the rendering.
RenderingSteps(f, base, fs, rel) ==
  /\ f \in [0 .. Len(fs) -> Merged] /\ f[0] = base
  /\ \A i \in 1 .. Len(fs) : f[i] = AddRendering(f[i - 1], fs[i], rel)

\* All that lint has said.
LintFold(fs, rel) == FoldLeft(LAMBDA out, f : AddLint(out, f, rel), NoneYet, fs)
\* And what the rendering adds.
RenderingFold(start, fs, rel) == FoldLeft(LAMBDA out, f : AddRendering(out, f, rel), start, fs)

\* What lint has said is where its steps end.
LEMMA LintTraced ==
  ASSUME NEW fs \in Seq(HelmFinding), NEW rel
  PROVE  \E f : LintSteps(f, fs, rel) /\ f[Len(fs)] = LintFold(fs, rel)
<1> DEFINE n     == Len(fs)
           V     == Merged
           base  == NoneYet
           Op    == [x \in V \X (1 .. n) |-> AddLint(x[1], fs[x[2]], rel)]
           is(g) == g = [s \in SUBSET (1 .. n) |-> IF s = {} THEN base ELSE AddLint(g[s \ {Max(s)}], fs[Max(s)], rel)]
           res   == LintFold(fs, rel)
<1>1. n \in Nat /\ DOMAIN fs = 1 .. n /\ base \in V /\ \A i \in 1 .. n : fs[i] \in HelmFinding
  BY DEF Merged, NoneYet
<1>2. \A v \in V, i \in 1 .. n : Op[<<v, i>>] = AddLint(v, fs[i], rel) /\ AddLint(v, fs[i], rel) \in V
  <2> SUFFICES ASSUME NEW v \in V, NEW i \in 1 .. n PROVE Op[<<v, i>>] = AddLint(v, fs[i], rel) /\ AddLint(v, fs[i], rel) \in V
    OBVIOUS
  <2>1. AddLint(v, fs[i], rel) \in V
    BY <1>1, LintStep
  <2> HIDE DEF V, n
  <2> QED
    BY <2>1
<1>3. Op \in [V \X (1 .. n) -> V]
  BY <1>2
<1>4. res = (CHOOSE g : is(g))[1 .. n]
  BY <1>1 DEF LintFold, RenderingFold, FoldLeft, MapThenFoldSet
<1> HIDE DEF n, V, base, Op, res
<1>5. \E g : is(g)
  <2>1. PICK g \in [SUBSET (1 .. n) -> V] : IsFold(g, n, base, Op)
    BY <1>1, <1>3, FoldExists
  <2>2. ASSUME NEW s \in SUBSET (1 .. n) PROVE g[s] = IF s = {} THEN base ELSE AddLint(g[s \ {Max(s)}], fs[Max(s)], rel)
    <3>1. s # {} => Max(s) \in 1 .. n /\ s \ {Max(s)} \in SUBSET (1 .. n)
      BY <1>1, LastOfThese
    <3> QED
      BY <1>2, <2>1, <3>1 DEF IsFold
  <2>3. is(g)
    BY <2>1, <2>2
  <2> QED
    BY <2>3
<1> DEFINE g == CHOOSE h : is(h)
<1>6. is(g)
  BY <1>5
<1> HIDE DEF g
<1>7. Tabulates(g, n, V, base, Op)
  <2>1. g[{}] = base
    BY <1>6
  <2>2. ASSUME NEW s \in SUBSET (1 .. n), s # {}, g[s \ {Max(s)}] \in V PROVE g[s] = Op[<<g[s \ {Max(s)}], Max(s)>>]
    <3>1. Max(s) \in 1 .. n
      BY <1>1, <2>2, LastOfThese
    <3> QED
      BY <1>2, <1>6, <2>2, <3>1
  <2> QED
    BY <2>1, <2>2 DEF Tabulates
<1>8. PICK f : Traces(f, n, V, base, Op) /\ f[n] = g[1 .. n]
  <2>1. FoldsTo(g[1 .. n], n, V, base, Op)
    BY <1>1, <1>3, <1>7, FoldTraced
  <2> QED
    BY <2>1 DEF FoldsTo
<1>9. \A i \in 1 .. n : f[i] = AddLint(f[i - 1], fs[i], rel)
  <2> SUFFICES ASSUME NEW i \in 1 .. n PROVE f[i] = AddLint(f[i - 1], fs[i], rel)
    OBVIOUS
  <2>1. i - 1 \in 0 .. n
    BY <1>1
  <2> QED
    BY <1>2, <1>8, <2>1 DEF Traces
<1>10. LintSteps(f, fs, rel) /\ f[n] = res
  BY <1>4, <1>8, <1>9 DEF g, n, V, base, Traces, LintSteps
<1> QED
  BY <1>10 DEF n, res

\* What is there after the rendering is where its steps end.
LEMMA RenderingTraced ==
  ASSUME NEW start \in Merged, NEW fs \in Seq(HelmError), NEW rel
  PROVE  \E f : RenderingSteps(f, start, fs, rel) /\ f[Len(fs)] = RenderingFold(start, fs, rel)
<1> DEFINE n     == Len(fs)
           V     == Merged
           base  == start
           Op    == [x \in V \X (1 .. n) |-> AddRendering(x[1], fs[x[2]], rel)]
           is(g) == g = [s \in SUBSET (1 .. n) |-> IF s = {} THEN base ELSE AddRendering(g[s \ {Max(s)}], fs[Max(s)], rel)]
           res   == RenderingFold(start, fs, rel)
<1>1. n \in Nat /\ DOMAIN fs = 1 .. n /\ base \in V /\ \A i \in 1 .. n : fs[i] \in HelmError
  OBVIOUS
<1>2. \A v \in V, i \in 1 .. n : Op[<<v, i>>] = AddRendering(v, fs[i], rel) /\ AddRendering(v, fs[i], rel) \in V
  <2> SUFFICES ASSUME NEW v \in V, NEW i \in 1 .. n PROVE Op[<<v, i>>] = AddRendering(v, fs[i], rel) /\ AddRendering(v, fs[i], rel) \in V
    OBVIOUS
  <2>1. AddRendering(v, fs[i], rel) \in V
    BY <1>1, RenderingStep
  <2> HIDE DEF V, n
  <2> QED
    BY <2>1
<1>3. Op \in [V \X (1 .. n) -> V]
  BY <1>2
<1>4. res = (CHOOSE g : is(g))[1 .. n]
  BY <1>1 DEF LintFold, RenderingFold, FoldLeft, MapThenFoldSet
<1> HIDE DEF n, V, base, Op, res
<1>5. \E g : is(g)
  <2>1. PICK g \in [SUBSET (1 .. n) -> V] : IsFold(g, n, base, Op)
    BY <1>1, <1>3, FoldExists
  <2>2. ASSUME NEW s \in SUBSET (1 .. n) PROVE g[s] = IF s = {} THEN base ELSE AddRendering(g[s \ {Max(s)}], fs[Max(s)], rel)
    <3>1. s # {} => Max(s) \in 1 .. n /\ s \ {Max(s)} \in SUBSET (1 .. n)
      BY <1>1, LastOfThese
    <3> QED
      BY <1>2, <2>1, <3>1 DEF IsFold
  <2>3. is(g)
    BY <2>1, <2>2
  <2> QED
    BY <2>3
<1> DEFINE g == CHOOSE h : is(h)
<1>6. is(g)
  BY <1>5
<1> HIDE DEF g
<1>7. Tabulates(g, n, V, base, Op)
  <2>1. g[{}] = base
    BY <1>6
  <2>2. ASSUME NEW s \in SUBSET (1 .. n), s # {}, g[s \ {Max(s)}] \in V PROVE g[s] = Op[<<g[s \ {Max(s)}], Max(s)>>]
    <3>1. Max(s) \in 1 .. n
      BY <1>1, <2>2, LastOfThese
    <3> QED
      BY <1>2, <1>6, <2>2, <3>1
  <2> QED
    BY <2>1, <2>2 DEF Tabulates
<1>8. PICK f : Traces(f, n, V, base, Op) /\ f[n] = g[1 .. n]
  <2>1. FoldsTo(g[1 .. n], n, V, base, Op)
    BY <1>1, <1>3, <1>7, FoldTraced
  <2> QED
    BY <2>1 DEF FoldsTo
<1>9. \A i \in 1 .. n : f[i] = AddRendering(f[i - 1], fs[i], rel)
  <2> SUFFICES ASSUME NEW i \in 1 .. n PROVE f[i] = AddRendering(f[i - 1], fs[i], rel)
    OBVIOUS
  <2>1. i - 1 \in 0 .. n
    BY <1>1
  <2> QED
    BY <1>2, <1>8, <2>1 DEF Traces
<1>10. RenderingSteps(f, start, fs, rel) /\ f[n] = res
  BY <1>4, <1>8, <1>9 DEF g, n, V, base, Traces, RenderingSteps
<1> QED
  BY <1>10 DEF n, res

\* Sequences join to a sequence, which is empty exactly if they all are.
LEMMA PartsJoin ==
  ASSUME NEW n \in Nat, NEW s, DOMAIN s = 1 .. n, s = [i \in 1 .. n |-> s[i]], \A i \in 1 .. n : \E T : s[i] \in Seq(T)
  PROVE  /\ FlattenSeq(s) = <<>> <=> \A i \in 1 .. n : s[i] = <<>>
         /\ <<>> \o FlattenSeq(s) = FlattenSeq(s)
<1> DEFINE T == UNION {{s[i][j] : j \in DOMAIN s[i]} : i \in 1 .. n}
<1>1. ASSUME NEW i \in 1 .. n PROVE s[i] \in Seq(T)
  <2>1. PICK X : s[i] \in Seq(X)
    OBVIOUS
  <2> DEFINE p == s[i]
  <2>2. \A j \in DOMAIN p : p[j] \in T
    OBVIOUS
  <2>3. Len(p) \in Nat /\ DOMAIN p = 1 .. Len(p) /\ p = [j \in 1 .. Len(p) |-> p[j]]
    BY <2>1
  <2> HIDE DEF T, p
  <2>4. p \in [1 .. Len(p) -> T]
    BY <2>2, <2>3
  <2> QED
    BY <2>3, <2>4 DEF p
<1> HIDE DEF T
<1>2. s \in [1 .. n -> Seq(T)]
  BY <1>1
<1>3. s \in Seq(Seq(T)) /\ Len(s) = n
  BY <1>2
<1>4. FlattenSeq(s) \in Seq(T) /\ (FlattenSeq(s) = <<>> <=> \A i \in 1 .. n : s[i] = <<>>)
  BY <1>3, Flattened
<1>5. \A v \in Seq(T) : <<>> \o v = v
  OBVIOUS
<1> QED
  BY <1>4, <1>5

\* A sequence of whatever.
IsList(s) == \E T : s \in Seq(T)

\* Something is put on this template about a resource exactly if its chunk is of a
\* template of this name, and the resource is bad.
LEMMA RenderingSpeaks ==
  ASSUME NEW chart, NEW Name, NEW Err, NEW r \in Resource(Name, Err), NEW idx, NEW rel, NEW lines
  PROVE  /\ RenderedDiags(chart, r, idx, rel, lines) # <<>> <=>
              /\ findDoc(chart.chunks, r, idx) # 0 /\ Named(chart.chunks[findDoc(chart.chunks, r, idx)].source, rel)
              /\ r.status = "statusError" \/ (r.status = "statusInvalid" /\ r.errors # <<>>)
         /\ IsList(RenderedDiags(chart, r, idx, rel, lines))
<1> DEFINE c     == findDoc(chart.chunks, r, idx)
           at(e) == templateLine(lines, e.segs)
           here  == c # 0 /\ Named(chart.chunks[c].source, rel)
           out   == RenderedDiags(chart, r, idx, rel, lines)
           n     == Len(r.errors)
<1>1. r.status \in Statuses /\ r.errors \in Seq(Err) /\ n \in Nat /\ DOMAIN r.errors = 1 .. n /\ (r.errors = <<>> <=> n = 0)
  BY DEF Resource
<1>2. out = IF ~here THEN <<>>
            ELSE IF r.status = "statusInvalid" THEN [i \in DOMAIN r.errors |-> [line |-> at(r.errors[i]), sev |-> "ERROR"]]
            ELSE IF r.status = "statusError" THEN <<[line |-> 0, sev |-> "ERROR"]>> ELSE <<>>
  BY DEF RenderedDiags
<1> HIDE DEF c, at, out, n
<1>3. CASE here /\ r.status = "statusInvalid"
  <2> DEFINE T == {[line |-> at(r.errors[i]), sev |-> "ERROR"] : i \in 1 .. n}
  <2>1. out = [i \in 1 .. n |-> [line |-> at(r.errors[i]), sev |-> "ERROR"]]
    BY <1>1, <1>2, <1>3
  <2>2. \A i \in 1 .. n : out[i] \in T
    BY <2>1
  <2> HIDE DEF T
  <2>3. out \in [1 .. n -> T]
    BY <2>1, <2>2
  <2>4. out \in Seq(T) /\ Len(out) = n
    BY <1>1, <2>3
  <2>5. out = <<>> <=> n = 0
    BY <2>4
  <2> QED
    BY <1>1, <1>3, <2>4, <2>5 DEF out, c, IsList
<1>4. CASE here /\ r.status = "statusError"
  <2>1. PICK x : out = <<x>>
    BY <1>1, <1>2, <1>4 DEF Statuses
  <2>2. out # <<>> /\ out \in Seq({x})
    BY <2>1
  <2> QED
    BY <1>4, <2>2 DEF out, c, IsList
<1>5. CASE ~here \/ r.status \notin {"statusInvalid", "statusError"}
  <2>1. out = <<>> /\ <<>> \in Seq({})
    BY <1>2, <1>5
  <2> QED
    BY <1>5, <2>1 DEF out, c, IsList
<1> QED
  BY <1>3, <1>4, <1>5

\* The diagnostics of a chart, by their folds.
LEMMA HelmParts ==
  ASSUME NEW chart, NEW rel, NEW lines
  PROVE  HelmValidate(chart, rel, lines) =
           IF chart.errors # <<>> THEN RenderingFold(LintFold(chart.lint, rel), chart.errors, rel).diags
           ELSE IF chart.kubeconform
           THEN LintFold(chart.lint, rel).diags
                \o FlattenSeq([i \in DOMAIN chart.resources |-> RenderedDiags(chart, chart.resources[i], i, rel, lines)])
           ELSE LintFold(chart.lint, rel).diags
BY DEF HelmValidate, LintFold, RenderingFold, NoneYet, FoldLeft, MapThenFoldSet

\* Whatever chart that lints and renders, with unique names: the answer is a failure exactly if helm did
\* not come to its end; and a template has a diagnostic exactly if kubeconform was heard and found fault
\* with a resource that it made, or that one of its name in a subchart made.
THEOREM RenderedIsAtHome ==
  ASSUME NEW Name, NEW Err, NEW chart, NEW n \in Nat,
         chart.resources \in Seq(Resource(Name, Err)), DOMAIN chart.chunks = 1 .. n, Len(chart.chunks) = n,
         NEW rel, NEW lines
  PROVE  RenderedAtHome(chart, rel, lines)
<1> DEFINE chunks  == chart.chunks
           names   == {<<chunks[i].kind, chunks[i].name>> : i \in DOMAIN chunks}
           ours(r) == \E i \in DOMAIN chunks : chunks[i].kind = r.kind /\ chunks[i].name = r.name /\ Named(chunks[i].source, rel)
           bad(r)  == r.status = "statusError" \/ (r.status = "statusInvalid" /\ r.errors # <<>>)
           rs      == chart.resources
<1> SUFFICES ASSUME chart.lint = <<>>, chart.errors = <<>>, Cardinality(names) = n, \A r \in ToSet(rs) : <<r.kind, r.name>> \in names
             PROVE  /\ HelmValidate(chart, rel, lines) # <<>> <=> chart.kubeconform /\ \E r \in ToSet(rs) : bad(r) /\ ours(r)
  BY DEF RenderedAtHome, Helm, Found, Failed
<1> DEFINE m == Len(rs)
           s == [i \in DOMAIN rs |-> RenderedDiags(chart, rs[i], i, rel, lines)]
           said == LintFold(chart.lint, rel)
<1>1. m \in Nat /\ DOMAIN rs = 1 .. m /\ \A i \in 1 .. m : rs[i] \in Resource(Name, Err)
  OBVIOUS
<1>2. \A r : r \in ToSet(rs) <=> \E i \in 1 .. m : r = rs[i]
  BY <1>1 DEF ToSet
<1>3. said.diags = <<>>
  <2>1. <<>> \in Seq(HelmFinding) /\ Len(<<>>) = 0
    OBVIOUS
  <2>2. PICK f : LintSteps(f, <<>>, rel) /\ f[0] = LintFold(<<>>, rel)
    BY <2>1, LintTraced
  <2>3. said = NoneYet
    BY <2>2 DEF LintSteps
  <2> HIDE DEF said
  <2> QED
    BY <2>3 DEF NoneYet
<1>4. HelmValidate(chart, rel, lines) = IF chart.kubeconform THEN said.diags \o FlattenSeq(s) ELSE said.diags
  BY HelmParts
<1>5. DOMAIN s = 1 .. m /\ s = [i \in 1 .. m |-> s[i]] /\ \A i \in 1 .. m : s[i] = RenderedDiags(chart, rs[i], i, rel, lines)
  BY <1>1
<1> HIDE DEF said, s, m
<1>6. \A i \in 1 .. m : \E T : s[i] \in Seq(T)
  <2> SUFFICES ASSUME NEW i \in 1 .. m PROVE \E T : s[i] \in Seq(T)
    OBVIOUS
  <2> DEFINE r == rs[i]
  <2>1. r \in Resource(Name, Err)
    BY <1>1
  <2> HIDE DEF r
  <2>2. IsList(RenderedDiags(chart, r, i, rel, lines))
    BY <2>1, RenderingSpeaks
  <2> QED
    BY <1>5, <2>2 DEF r, IsList
<1>7. chart.kubeconform => (HelmValidate(chart, rel, lines) # <<>> <=> \E i \in 1 .. m : s[i] # <<>>)
  BY <1>1, <1>3, <1>4, <1>5, <1>6, PartsJoin
<1>8. ASSUME NEW i \in 1 .. m PROVE s[i] # <<>> <=> bad(rs[i]) /\ ours(rs[i])
  <2> DEFINE r == rs[i]
  <2>1. PICK j \in 1 .. n : chunks[j].kind = r.kind /\ chunks[j].name = r.name
    <3>1. <<r.kind, r.name>> \in names
      BY <1>2
    <3> QED
      BY <3>1
  <2>2. \A k \in 1 .. n : chunks[k].kind = r.kind /\ chunks[k].name = r.name => findDoc(chunks, r, i) = k
    <3>1. Apart(chunks, n)
      BY DEF Apart
    <3> HIDE DEF r, chunks
    <3> QED
      BY <3>1, FoundByName
  <2>3. findDoc(chunks, r, i) = j /\ j # 0
    BY <2>1, <2>2
  <2>4. ours(r) <=> Named(chunks[j].source, rel)
    BY <2>1, <2>2, <2>3
  <2>5. r \in Resource(Name, Err)
    BY <1>1
  <2> HIDE DEF r, chunks, ours
  <2>6. RenderedDiags(chart, r, i, rel, lines) # <<>> <=> Named(chunks[j].source, rel) /\ bad(r)
    <3>1. RenderedDiags(chart, r, i, rel, lines) # <<>> <=>
            /\ findDoc(chart.chunks, r, i) # 0 /\ Named(chart.chunks[findDoc(chart.chunks, r, i)].source, rel)
            /\ r.status = "statusError" \/ (r.status = "statusInvalid" /\ r.errors # <<>>)
      BY <2>5, RenderingSpeaks
    <3> QED
      BY <2>3, <3>1 DEF chunks
  <2> QED
    BY <1>5, <2>4, <2>6 DEF r
<1> HIDE DEF bad, ours
<1>9. (\E r \in ToSet(rs) : bad(r) /\ ours(r)) <=> \E i \in 1 .. m : bad(rs[i]) /\ ours(rs[i])
  BY <1>2
<1>10. ~chart.kubeconform => HelmValidate(chart, rel, lines) = <<>>
  BY <1>3, <1>4
<1> QED
  BY <1>7, <1>8, <1>9, <1>10

\* The errors that are reported on a line.
ErrorsAt(diags, x) == {i \in DOMAIN diags : diags[i].line = x /\ diags[i].sev = "ERROR"}
\* Of the first findings, the errors that name this line of this template.
Naming(fs, k, rel, x) == {i \in 1 .. k : About(fs[i], rel) /\ fs[i].line = x /\ fs[i].sev = "ERROR"}
\* As many of them as of others.
AsMany(S, T, more) == IsFiniteSet(S) /\ IsFiniteSet(T) /\ Cardinality(T) = Cardinality(S) + more

\* A set with one member more, or not.
LEMMA AddedOne ==
  ASSUME NEW S, IsFiniteSet(S), NEW x, x \notin S, NEW T, NEW p \in BOOLEAN, T = S \cup (IF p THEN {x} ELSE {})
  PROVE  AsMany(S, T, IF p THEN 1 ELSE 0) /\ Cardinality(S) \in Nat
<1>1. IsFiniteSet(S \cup {x}) /\ Cardinality(S \cup {x}) = Cardinality(S) + 1
  BY FS_AddElement
<1>2. Cardinality(S) \in Nat
  BY FS_CardinalityType
<1>3. CASE p
  <2>1. T = S \cup {x}
    BY <1>3
  <2> QED
    BY <1>1, <1>2, <1>3, <2>1 DEF AsMany
<1>4. CASE ~p
  <2>1. T = S
    BY <1>4
  <2> QED
    BY <1>2, <1>4, <2>1 DEF AsMany
<1> QED
  BY <1>3, <1>4

\* The errors on a line after one diagnostic more.
LEMMA OneDiagMore ==
  ASSUME NEW diags \in Seq(HelmDiag), NEW d \in HelmDiag, NEW x
  PROVE  AsMany(ErrorsAt(diags, x), ErrorsAt(Append(diags, d), x), IF d.line = x /\ d.sev = "ERROR" THEN 1 ELSE 0)
<1> DEFINE n == Len(diags)
           more == Append(diags, d)
           hit  == d.line = x /\ d.sev = "ERROR"
           S    == ErrorsAt(diags, x)
           T    == ErrorsAt(more, x)
<1>1. n \in Nat /\ DOMAIN diags = 1 .. n /\ DOMAIN more = 1 .. (n + 1)
  OBVIOUS
<1>2. more[n + 1] = d /\ \A i \in 1 .. n : more[i] = diags[i]
  OBVIOUS
<1> HIDE DEF n, more
<1>3. \A i : i \in T <=> i \in 1 .. (n + 1) /\ more[i].line = x /\ more[i].sev = "ERROR"
  BY <1>1 DEF ErrorsAt
<1>4. \A i : i \in S <=> i \in 1 .. n /\ diags[i].line = x /\ diags[i].sev = "ERROR"
  BY <1>1 DEF ErrorsAt
<1> HIDE DEF S, T
<1>5. T = S \cup (IF hit THEN {n + 1} ELSE {})
  <2>1. \A i : i \in 1 .. (n + 1) <=> i \in 1 .. n \/ i = n + 1
    BY <1>1
  <2>2. n + 1 \notin 1 .. n
    BY <1>1
  <2> QED
    BY <1>2, <1>3, <1>4, <2>1, <2>2
<1>6. n + 1 \notin S
  BY <1>1, <1>4
<1>7. IsFiniteSet(S)
  <2>1. IsFiniteSet(1 .. n) /\ S \in SUBSET (1 .. n)
    BY <1>1, <1>4, FS_Interval
  <2> QED
    BY <2>1, FS_Subset
<1>8. hit \in BOOLEAN
  OBVIOUS
<1> HIDE DEF hit
<1>9. AsMany(S, T, IF hit THEN 1 ELSE 0)
  BY <1>5, <1>6, <1>7, <1>8, AddedOne
<1> QED
  BY <1>9 DEF S, T, hit, more

\* The errors that name a line after one finding more.
LEMMA OneFindingMore ==
  ASSUME NEW fs, NEW k \in Nat \ {0}, NEW rel, NEW x
  PROVE  AsMany(Naming(fs, k - 1, rel, x), Naming(fs, k, rel, x), IF About(fs[k], rel) /\ fs[k].line = x /\ fs[k].sev = "ERROR" THEN 1 ELSE 0)
<1> DEFINE hit(i) == About(fs[i], rel) /\ fs[i].line = x /\ fs[i].sev = "ERROR"
           S == Naming(fs, k - 1, rel, x)
           T == Naming(fs, k, rel, x)
<1>1. (\A i : i \in S <=> i \in 1 .. (k - 1) /\ hit(i)) /\ (\A i : i \in T <=> i \in 1 .. k /\ hit(i)) /\ hit(k) \in BOOLEAN
  BY DEF Naming
<1> HIDE DEF hit, S, T
<1>2. \A i : i \in 1 .. k <=> i \in 1 .. (k - 1) \/ i = k
  OBVIOUS
<1>3. k \notin S /\ T = S \cup (IF hit(k) THEN {k} ELSE {})
  BY <1>1, <1>2
<1>4. IsFiniteSet(S)
  <2>1. IsFiniteSet(1 .. (k - 1)) /\ S \in SUBSET (1 .. (k - 1))
    BY <1>1, FS_Interval
  <2> QED
    BY <2>1, FS_Subset
<1>5. AsMany(S, T, IF hit(k) THEN 1 ELSE 0)
  BY <1>1, <1>3, <1>4, AddedOne
<1> QED
  BY <1>5 DEF S, T, hit

\* Nothing joins to nothing.
LEMMA FlattenNone ==
  ASSUME NEW s \in Seq(Seq(Nat)), Len(s) = 0
  PROVE  FlattenSeq(s) = <<>>
<1>1. PICK f : /\ f \in [0 .. Len(s) -> Seq(Nat)] /\ f[0] = <<>> /\ f[Len(s)] = FlattenSeq(s)
               /\ \A i \in 1 .. Len(s) : f[i] = f[i - 1] \o s[i]
  BY FlattenTraced
<1> QED
  BY <1>1

\* Whatever findings: each error of lint is reported once on its line, and the errors of the rendering on
\* the lines that lint says nothing of.
THEOREM HelmMergesErrors ==
  ASSUME NEW chart, chart.lint \in Seq(HelmFinding), chart.errors \in Seq(HelmError),
         NEW rel, NEW lines, DOMAIN lines \in SUBSET (Nat \ {0})
  PROVE  HelmMerged(chart, rel, lines)
<1> DEFINE out      == HelmValidate(chart, rel, lines)
           at(fs, l) == {i \in DOMAIN fs : About(fs[i], rel) /\ fs[i].line = l /\ fs[i].sev = "ERROR"}
           loose    == {i \in DOMAIN chart.lint : chart.lint[i].line = -1}
<1> SUFFICES ASSUME loose = {}, chart.resources = <<>>, NEW l \in DOMAIN lines
             PROVE  Cardinality({i \in DOMAIN out : out[i].line = l - 1 /\ out[i].sev = "ERROR"})
                      = IF Cardinality(at(chart.lint, l - 1)) # 0 THEN Cardinality(at(chart.lint, l - 1)) ELSE Cardinality(at(chart.errors, l - 1))
  BY DEF HelmMerged
<1> DEFINE x  == l - 1
           fs == chart.lint
           es == chart.errors
           n  == Len(fs)
           m  == Len(es)
           told == LintFold(fs, rel)
           all  == RenderingFold(told, es, rel)
<1>1. /\ n \in Nat /\ DOMAIN fs = 1 .. n /\ m \in Nat /\ DOMAIN es = 1 .. m /\ x \in Nat
      /\ (\A i \in 1 .. n : fs[i] \in HelmFinding) /\ (\A i \in 1 .. m : es[i] \in HelmError)
      /\ fs \in Seq(HelmFinding) /\ es \in Seq(HelmError) /\ (es = <<>> <=> m = 0)
  OBVIOUS
<1>2. at(fs, x) = Naming(fs, n, rel, x) /\ at(es, x) = Naming(es, m, rel, x)
  BY <1>1 DEF Naming
<1>3. \A i \in 1 .. n : fs[i].line \in Nat /\ fs[i].sev \in Severities
  <2>1. \A i \in 1 .. n : fs[i].line # -1
    BY <1>1
  <2> QED
    BY <1>1, <2>1 DEF HelmFinding
<1>4. PICK f : LintSteps(f, fs, rel) /\ f[n] = told
  BY <1>1, LintTraced
<1>5. (\A k \in 0 .. n : f[k] \in Merged) /\ f[0] = NoneYet /\ \A k \in 1 .. n : f[k] = AddLint(f[k - 1], fs[k], rel)
  BY <1>4 DEF LintSteps
<1>6. told \in Merged
  BY <1>1, <1>4, <1>5
<1>7. PICK g : RenderingSteps(g, told, es, rel) /\ g[m] = all
  BY <1>1, <1>6, RenderingTraced
<1>8. (\A k \in 0 .. m : g[k] \in Merged) /\ g[0] = told /\ \A k \in 1 .. m : g[k] = AddRendering(g[k - 1], es[k], rel)
  BY <1>7 DEF RenderingSteps
<1>9. out = IF m # 0 THEN all.diags ELSE told.diags
  <2>1. es = <<>> => \/ out = told.diags \o FlattenSeq([i \in DOMAIN chart.resources |-> RenderedDiags(chart, chart.resources[i], i, rel, lines)])
                     \/ out = told.diags
    BY HelmParts
  <2>2. es # <<>> => out = all.diags
    BY HelmParts
  <2> DEFINE none == [i \in DOMAIN chart.resources |-> RenderedDiags(chart, chart.resources[i], i, rel, lines)]
  <2>3. none = <<>>
    OBVIOUS
  <2>4. FlattenSeq(none) = <<>>
    <3>1. none \in Seq(Seq(Nat)) /\ Len(none) = 0
      BY <2>3
    <3> HIDE DEF none
    <3> QED
      BY <3>1, FlattenNone
  <2>5. told.diags \o <<>> = told.diags
    BY <1>6 DEF Merged
  <2> HIDE DEF out, told, all, none, es
  <2> QED
    BY <1>1, <2>1, <2>2, <2>3, <2>4, <2>5 DEF none
<1> HIDE DEF n, m, told, all, x
<1> DEFINE lint(k)   == Cardinality(Naming(fs, k, rel, x))
           broken(k) == Cardinality(Naming(es, k, rel, x))
           errs(d)   == Cardinality(ErrorsAt(d, x))
           base      == errs(told.diags)
<1>10. Cardinality(Naming(fs, 0, rel, x)) = 0 /\ Cardinality(Naming(es, 0, rel, x)) = 0 /\ errs(<<>>) = 0
  <2>1. Naming(fs, 0, rel, x) = {} /\ Naming(es, 0, rel, x) = {} /\ ErrorsAt(<<>>, x) = {}
    BY DEF Naming, ErrorsAt
  <2> QED
    BY <2>1, FS_EmptySet
<1>11. \A k \in 0 .. n : lint(k) \in Nat /\ errs(f[k].diags) = lint(k) /\ (x \in f[k].seen <=> lint(k) # 0)
  <2> DEFINE S == {k \in 0 .. n : lint(k) \in Nat /\ errs(f[k].diags) = lint(k) /\ (x \in f[k].seen <=> lint(k) # 0)}
  <2> HIDE DEF lint, errs
  <2>1. \A k : k \in S <=> k \in 0 .. n /\ lint(k) \in Nat /\ errs(f[k].diags) = lint(k) /\ (x \in f[k].seen <=> lint(k) # 0)
    OBVIOUS
  <2> HIDE DEF S
  <2>2. 0 \in S
    <3>1. 0 \in 0 .. n /\ f[0].diags = <<>> /\ x \notin f[0].seen
      BY <1>1, <1>5 DEF NoneYet
    <3>2. lint(0) = 0 /\ errs(<<>>) = 0
      BY <1>10 DEF lint, errs
    <3> QED
      BY <2>1, <3>1, <3>2
  <2>3. ASSUME NEW k \in 1 .. n, k - 1 \in S PROVE k \in S
    <3> DEFINE o   == f[k - 1]
               e   == fs[k]
               hit == About(e, rel) /\ e.line = x /\ e.sev = "ERROR"
               d   == [line |-> IF e.line = -1 THEN 0 ELSE e.line, sev |-> e.sev]
    <3>1. k \in 0 .. n /\ k \in Nat \ {0} /\ e \in HelmFinding /\ e.line \in Nat /\ e.line # -1 /\ e.sev \in Severities
      BY <1>1, <1>3
    <3>2. o \in Merged /\ f[k] = AddLint(o, e, rel) /\ o.diags \in Seq(HelmDiag)
      <4>1. k - 1 \in 0 .. n
        BY <1>1
      <4> QED
        BY <1>5, <4>1 DEF Merged
    <3>3. d \in HelmDiag /\ d.line = e.line /\ d.sev = e.sev
      BY <3>1 DEF HelmDiag
    <3> HIDE DEF o, e, d
    <3>4. lint(k) = lint(k - 1) + IF hit THEN 1 ELSE 0
      BY <3>1, OneFindingMore DEF AsMany, lint, e
    <3>8. lint(k - 1) \in Nat /\ errs(o.diags) = lint(k - 1) /\ (x \in o.seen <=> lint(k - 1) # 0)
      BY <2>1, <2>3 DEF o
    <3>5. CASE Counts(e, rel)
      <4>1. f[k].diags = Append(o.diags, d) /\ f[k].seen = o.seen \cup (IF e.sev = "ERROR" THEN {e.line} ELSE {}) /\ About(e, rel)
        BY <3>1, <3>2, <3>5, LintStep DEF d, Counts
      <4>2. errs(f[k].diags) = errs(o.diags) + IF hit THEN 1 ELSE 0
        BY <3>2, <3>3, <4>1, OneDiagMore DEF AsMany, errs
      <4>3. x \in f[k].seen <=> x \in o.seen \/ hit
        BY <4>1
      <4> HIDE DEF hit
      <4> QED
        BY <2>1, <2>3, <3>1, <3>4, <4>2, <4>3 DEF o
    <3>6. CASE ~Counts(e, rel)
      <4>1. f[k] = o
        BY <3>1, <3>2, <3>6, LintStep
      <4>2. ~hit
        BY <3>6 DEF Counts
      <4> HIDE DEF hit
      <4> QED
        BY <2>1, <2>3, <3>1, <3>4, <3>8, <4>1, <4>2 DEF o
    <3> QED
      BY <3>5, <3>6
  <2>4. 0 \in S /\ (\A k \in 1 .. n : k - 1 \in S => k \in S)
    BY <2>2, <2>3
  <2>5. \A k \in 0 .. n : k \in S
    BY <1>1, <2>4, CountUp
  <2> QED
    BY <2>1, <2>5
<1>12. base = lint(n) /\ lint(n) \in Nat /\ (x \in told.seen <=> lint(n) # 0)
  BY <1>1, <1>4, <1>11
<1>13. \A k \in 0 .. m : /\ broken(k) \in Nat /\ g[k].seen = told.seen
                         /\ errs(g[k].diags) = base + IF x \in told.seen THEN 0 ELSE broken(k)
  <2> DEFINE holds(k) == /\ broken(k) \in Nat /\ g[k].seen = told.seen
                         /\ errs(g[k].diags) = base + IF x \in told.seen THEN 0 ELSE broken(k)
             S == {k \in 0 .. m : holds(k)}
  <2> HIDE DEF lint, errs, broken
  <2>1. \A k : k \in S <=> k \in 0 .. m /\ holds(k)
    OBVIOUS
  <2> HIDE DEF S, base
  <2>0. base \in Nat
    BY <1>12
  <2>2. 0 \in S
    <3>1. 0 \in 0 .. m /\ g[0] = told
      BY <1>1, <1>8
    <3>2. broken(0) = 0
      BY <1>10 DEF broken
    <3> QED
      BY <2>0, <2>1, <3>1, <3>2 DEF base
  <2>3. ASSUME NEW k \in 1 .. m, k - 1 \in S PROVE k \in S
    <3> DEFINE o   == g[k - 1]
               e   == es[k]
               hit == About(e, rel) /\ e.line = x /\ e.sev = "ERROR"
               d   == [line |-> e.line, sev |-> "ERROR"]
    <3>1. k \in 0 .. m /\ k \in Nat \ {0} /\ e \in HelmError /\ e.line \in Nat /\ e.sev = "ERROR"
      <4>1. k \in 0 .. m /\ k \in Nat \ {0} /\ e \in HelmError
        BY <1>1
      <4> HIDE DEF e
      <4>2. e.line \in Nat /\ e.sev = "ERROR"
        BY <4>1 DEF HelmError
      <4> QED
        BY <4>1, <4>2
    <3>2. o \in Merged /\ g[k] = AddRendering(o, e, rel) /\ o.diags \in Seq(HelmDiag)
      <4>1. k - 1 \in 0 .. m
        BY <1>1
      <4> QED
        BY <1>8, <4>1 DEF Merged
    <3>3. d \in HelmDiag /\ d.line = e.line /\ d.sev = "ERROR"
      BY <3>1 DEF HelmDiag, Severities
    <3>4. holds(k - 1) /\ o.seen = told.seen
      BY <2>1, <2>3
    <3> HIDE DEF o, e, d
    <3>5. broken(k) = broken(k - 1) + IF hit THEN 1 ELSE 0
      BY <3>1, OneFindingMore DEF AsMany, broken, e
    <3>6. CASE About(e, rel) /\ e.line \notin o.seen
      <4>1. g[k].diags = Append(o.diags, d) /\ g[k].seen = o.seen
        BY <3>1, <3>2, <3>6, RenderingStep DEF d
      <4>2. errs(g[k].diags) = errs(o.diags) + IF hit THEN 1 ELSE 0
        BY <3>1, <3>2, <3>3, <3>6, <4>1, OneDiagMore DEF AsMany, errs
      <4>3. hit => x \notin told.seen
        BY <3>4, <3>6
      <4> HIDE DEF hit
      <4> QED
        <5>1. /\ broken(k - 1) \in Nat /\ o.seen = told.seen
              /\ errs(o.diags) = base + IF x \in told.seen THEN 0 ELSE broken(k - 1)
          BY <3>4 DEF o
        <5>2. broken(k) \in Nat
          BY <3>5, <5>1
        <5>3. x \in told.seen => errs(g[k].diags) = base
          BY <2>0, <4>2, <4>3, <5>1
        <5>4. x \notin told.seen => errs(g[k].diags) = base + broken(k)
          <6>1. CASE hit
            BY <2>0, <3>5, <4>2, <5>1, <6>1
          <6>2. CASE ~hit
            BY <2>0, <3>5, <4>2, <5>1, <6>2
          <6> QED
            BY <6>1, <6>2
        <5>5. holds(k)
          <6> HIDE DEF o
          <6> QED
            BY <2>0, <4>1, <5>1, <5>2, <5>3, <5>4
        <5> HIDE DEF holds
        <5> QED
          BY <2>1, <3>1, <5>5
    <3>7. CASE ~About(e, rel) \/ e.line \in o.seen
      <4>1. g[k] = o
        <5>1. AddRendering(o, e, rel) = o
          BY <3>7 DEF AddRendering
        <5> QED
          BY <3>2, <5>1
      <4>2. hit => x \in told.seen
        BY <3>4, <3>7
      <4> HIDE DEF hit
      <4> QED
        <5>1. /\ broken(k - 1) \in Nat /\ o.seen = told.seen
              /\ errs(o.diags) = base + IF x \in told.seen THEN 0 ELSE broken(k - 1)
          BY <3>4 DEF o
        <5>2. broken(k) \in Nat
          BY <3>5, <5>1
        <5>3. x \notin told.seen => broken(k) = broken(k - 1)
          BY <3>5, <4>2, <5>1
        <5>4. holds(k)
          <6> HIDE DEF o
          <6> QED
            BY <4>1, <5>1, <5>2, <5>3
        <5> HIDE DEF holds
        <5> QED
          BY <2>1, <3>1, <5>4
    <3> QED
      BY <3>6, <3>7
  <2>4. 0 \in S /\ (\A k \in 1 .. m : k - 1 \in S => k \in S)
    BY <2>2, <2>3
  <2>5. \A k \in 0 .. m : k \in S
    BY <1>1, <2>4, CountUp
  <2> QED
    BY <2>1, <2>5
<1>14. errs(out) = IF lint(n) # 0 THEN lint(n) ELSE broken(m)
  <2>1. m \in 0 .. m
    BY <1>1
  <2>2. broken(m) \in Nat /\ errs(all.diags) = base + IF x \in told.seen THEN 0 ELSE broken(m)
    BY <1>7, <1>13, <2>1
  <2>3. m = 0 => broken(m) = 0
    BY <1>10
  <2> HIDE DEF lint, broken, errs, base, out
  <2> QED
    BY <1>9, <1>12, <2>2, <2>3 DEF base
<1> QED
  BY <1>2, <1>14 DEF x, ErrorsAt

-----------------------------------------------------------------------------
(* The schema cache (Validators).                                          *)

\* A request of a sync, on the cache and what has failed so far.
SyncStep(all, g) == [cache  |-> syncOne(all.cache, g.url, g.body, g.outcome),
                     failed |-> IF g.outcome = "ok" THEN all.failed ELSE all.failed \cup {g.url}]

\* A request keeps the types.
LEMMA SyncStays ==
  ASSUME NEW Url, NEW Body, NEW g \in GetOf(Url, Body), NEW all \in [cache : CacheOf(Url, Body), failed : SUBSET Url]
  PROVE  SyncStep(all, g) \in [cache : CacheOf(Url, Body), failed : SUBSET Url]
<1> DEFINE path == cachePathForURL(g.url)
           kept == SubSeq(g.body, 1, Min({MaxBody, Len(g.body)}))
<1>1. PICK P \in SUBSET {cachePathForURL(u) : u \in Url} : all.cache \in [P -> Seq(Body)]
  BY DEF CacheOf
<1>2. g.url \in Url /\ g.body \in Seq(Body) /\ path \in {cachePathForURL(u) : u \in Url} /\ all.failed \in SUBSET Url
  BY DEF GetOf
<1>3. Len(g.body) \in Nat /\ MaxBody \in Nat
  BY <1>2 DEF MaxBody
<1> DEFINE m == Min({MaxBody, Len(g.body)})
<1>3a. m \in 0 .. Len(g.body)
  <2> DEFINE both == {MaxBody, Len(g.body)}
  <2>1. both \in SUBSET Nat /\ both # {} /\ Len(g.body) \in both
    BY <1>3
  <2> HIDE DEF both
  <2>2. Min(both) \in both /\ Min(both) <= Len(g.body) /\ Min(both) \in Nat
    BY <2>1, SmallestOf
  <2> QED
    BY <1>3, <2>2 DEF both
<1> HIDE DEF m
<1>4. kept \in Seq(Body)
  <2>1. SubSeq(g.body, 1, m) \in Seq(Body)
    BY <1>2, <1>3, <1>3a
  <2> QED
    BY <2>1 DEF m
<1> HIDE DEF path, kept
<1>5. syncOne(all.cache, g.url, g.body, g.outcome) \in CacheOf(Url, Body)
  <2>1. CASE g.outcome = "ok"
    <3>1. syncOne(all.cache, g.url, g.body, g.outcome) = [p \in P \cup {path} |-> IF p = path THEN kept ELSE all.cache[p]]
      BY <1>1, <2>1 DEF syncOne, path, kept
    <3>2. [p \in P \cup {path} |-> IF p = path THEN kept ELSE all.cache[p]] \in [P \cup {path} -> Seq(Body)]
      BY <1>1, <1>4
    <3>3. P \cup {path} \in SUBSET {cachePathForURL(u) : u \in Url}
      BY <1>1, <1>2
    <3> QED
      BY <3>1, <3>2, <3>3 DEF CacheOf
  <2>2. CASE g.outcome # "ok"
    BY <2>2 DEF syncOne
  <2> QED
    BY <2>1, <2>2
<1> QED
  BY <1>2, <1>5 DEF SyncStep

\* The cache and the failures behind each request.
LEMMA SyncTraced ==
  ASSUME NEW Url, NEW Body, NEW cache \in CacheOf(Url, Body), NEW gets \in Seq(GetOf(Url, Body))
  PROVE  \E f : /\ f \in [0 .. Len(gets) -> [cache : CacheOf(Url, Body), failed : SUBSET Url]]
                /\ f[0] = [cache |-> cache, failed |-> {}] /\ f[Len(gets)] = SyncWithReport(cache, gets)
                /\ \A i \in 1 .. Len(gets) : f[i] = SyncStep(f[i - 1], gets[i])
<1> DEFINE n     == Len(gets)
           V     == [cache : CacheOf(Url, Body), failed : SUBSET Url]
           base  == [cache |-> cache, failed |-> {}]
           Op    == [x \in V \X (1 .. n) |-> SyncStep(x[1], gets[x[2]])]
           is(g) == g = [s \in SUBSET (1 .. n) |-> IF s = {} THEN base ELSE SyncStep(g[s \ {Max(s)}], gets[Max(s)])]
<1>1. n \in Nat /\ DOMAIN gets = 1 .. n /\ base \in V
  OBVIOUS
<1>2. \A v \in V, i \in 1 .. n : Op[<<v, i>>] = SyncStep(v, gets[i]) /\ SyncStep(v, gets[i]) \in V
  <2> SUFFICES ASSUME NEW v \in V, NEW i \in 1 .. n PROVE Op[<<v, i>>] = SyncStep(v, gets[i]) /\ SyncStep(v, gets[i]) \in V
    OBVIOUS
  <2>1. gets[i] \in GetOf(Url, Body)
    OBVIOUS
  <2> QED
    BY <2>1, SyncStays
<1>3. Op \in [V \X (1 .. n) -> V]
  BY <1>2
<1>4. SyncWithReport(cache, gets) = (CHOOSE g : is(g))[1 .. n]
  BY <1>1 DEF SyncWithReport, FoldLeft, MapThenFoldSet, SyncStep
<1> HIDE DEF n, V, base, Op
<1>5. \E g : is(g)
  <2>1. PICK g \in [SUBSET (1 .. n) -> V] : IsFold(g, n, base, Op)
    BY <1>1, <1>3, FoldExists
  <2>2. ASSUME NEW s \in SUBSET (1 .. n) PROVE g[s] = IF s = {} THEN base ELSE SyncStep(g[s \ {Max(s)}], gets[Max(s)])
    <3>1. s # {} => Max(s) \in 1 .. n /\ s \ {Max(s)} \in SUBSET (1 .. n)
      BY <1>1, LastOfThese
    <3> QED
      BY <1>2, <2>1, <3>1 DEF IsFold
  <2>3. is(g)
    BY <2>1, <2>2
  <2> QED
    BY <2>3
<1> DEFINE g == CHOOSE h : is(h)
<1>6. is(g)
  BY <1>5
<1> HIDE DEF g
<1>7. Tabulates(g, n, V, base, Op)
  <2>1. g[{}] = base
    BY <1>6
  <2>2. ASSUME NEW s \in SUBSET (1 .. n), s # {}, g[s \ {Max(s)}] \in V PROVE g[s] = Op[<<g[s \ {Max(s)}], Max(s)>>]
    <3>1. Max(s) \in 1 .. n
      BY <1>1, <2>2, LastOfThese
    <3> QED
      BY <1>2, <1>6, <2>2, <3>1
  <2> QED
    BY <2>1, <2>2 DEF Tabulates
<1>8. PICK f : Traces(f, n, V, base, Op) /\ f[n] = g[1 .. n]
  <2>1. FoldsTo(g[1 .. n], n, V, base, Op)
    BY <1>1, <1>3, <1>7, FoldTraced
  <2> QED
    BY <2>1 DEF FoldsTo
<1>9. \A i \in 1 .. n : f[i] = SyncStep(f[i - 1], gets[i])
  <2> SUFFICES ASSUME NEW i \in 1 .. n PROVE f[i] = SyncStep(f[i - 1], gets[i])
    OBVIOUS
  <2>1. i - 1 \in 0 .. n
    BY <1>1
  <2> QED
    BY <1>2, <1>8, <2>1 DEF Traces
<1> QED
  BY <1>4, <1>8, <1>9 DEF g, n, V, base, Traces

\* Whatever cache, and whatever the requests bring: a schema that was there is there after a failed
\* request, and no cached one is larger than the limit.
THEOREM SyncKeepsSchemas ==
  ASSUME NEW Url, NEW Body, NEW cache \in CacheOf(Url, Body), NEW gets \in Seq(GetOf(Url, Body))
  PROVE  SyncKeepsGood(cache, gets)
<1> DEFINE n == Len(gets)
           after == SyncWithReport(cache, gets)
<1>1. PICK f : /\ f \in [0 .. n -> [cache : CacheOf(Url, Body), failed : SUBSET Url]]
               /\ f[0] = [cache |-> cache, failed |-> {}] /\ f[n] = after
               /\ \A i \in 1 .. n : f[i] = SyncStep(f[i - 1], gets[i])
  BY SyncTraced
<1>2. n \in Nat /\ DOMAIN gets = 1 .. n
  OBVIOUS
<1> HIDE DEF n, after
<1> DEFINE path(i) == cachePathForURL(gets[i].url)
           whole(i, p, c) == /\ path(i) = p /\ gets[i].outcome = "ok" /\ IsPrefix(c[p], gets[i].body)
                             /\ Len(gets[i].body) <= MaxBody => c[p] = gets[i].body
           good(k) == /\ DOMAIN cache \subseteq DOMAIN f[k].cache
                      /\ \A i \in 1 .. k : gets[i].url \notin f[k].failed => path(i) \in DOMAIN f[k].cache
                      /\ \A p \in DOMAIN f[k].cache :
                           \/ p \in DOMAIN cache /\ f[k].cache[p] = cache[p]
                           \/ \E i \in 1 .. k : whole(i, p, f[k].cache)
           S == {k \in 0 .. n : good(k)}
<1>3. good(0)
  BY <1>1
<1>4. ASSUME NEW k \in 1 .. n, good(k - 1) PROVE good(k)
  <2> DEFINE b == f[k - 1].cache
             c == f[k].cache
             g == gets[k]
             m == Min({MaxBody, Len(g.body)})
  <2>1. k - 1 \in 0 .. n /\ k \in 0 .. n /\ g \in GetOf(Url, Body)
    BY <1>2 DEF n
  <2>2. c = syncOne(b, g.url, g.body, g.outcome)
        /\ f[k].failed = IF g.outcome = "ok" THEN f[k - 1].failed ELSE f[k - 1].failed \cup {g.url}
    <3>1. f[k] = SyncStep(f[k - 1], gets[k])
      BY <1>1
    <3> QED
      BY <3>1 DEF SyncStep
  <2>3. m \in 0 .. Len(g.body) /\ (Len(g.body) <= MaxBody => m = Len(g.body)) /\ g.body \in Seq(Body)
    <3>1. g.body \in Seq(Body) /\ MaxBody \in Nat
      BY <2>1 DEF GetOf, MaxBody
    <3> DEFINE both == {MaxBody, Len(g.body)}
    <3>2. both \in SUBSET Nat /\ both # {} /\ Len(g.body) \in both /\ (\A x \in both : x = MaxBody \/ x = Len(g.body)) /\ Len(g.body) \in Nat
      BY <3>1
    <3> HIDE DEF both
    <3>3. Min(both) \in both /\ Min(both) <= Len(g.body) /\ Min(both) \in Nat
      BY <3>2, SmallestOf
    <3> QED
      BY <3>1, <3>2, <3>3 DEF both
  <2> DEFINE kept == SubSeq(g.body, 1, m)
  <2>4. IsPrefix(kept, g.body) /\ (Len(g.body) <= MaxBody => kept = g.body)
    <3>1. kept \in Seq(Body) /\ Len(kept) = m /\ \A i \in 1 .. m : kept[i] = g.body[i]
      BY <2>3, FirstOf
    <3> HIDE DEF m
    <3>2. SubSeq(kept, 1, m) = SubSeq(g.body, 1, m)
      BY <2>3, <3>1
    <3> HIDE DEF kept
    <3>3. m = Len(g.body) => kept = g.body
      BY <2>3, <3>1
    <3>4. IsPrefix(kept, g.body)
      BY <2>3, <3>1, <3>2 DEF IsPrefix
    <3> QED
      BY <2>3, <3>3, <3>4
  <2>5. CASE g.outcome = "ok"
    <3>1. c = [p \in DOMAIN b \cup {path(k)} |-> IF p = path(k) THEN kept ELSE b[p]] /\ f[k].failed = f[k - 1].failed
      BY <2>2, <2>5 DEF syncOne
    <3>2. c[path(k)] = kept /\ path(k) \in DOMAIN c /\ DOMAIN b \subseteq DOMAIN c
          /\ \A p \in DOMAIN c : p # path(k) => p \in DOMAIN b /\ c[p] = b[p]
      BY <3>1
    <3>3. whole(k, path(k), c)
      BY <2>4, <2>5, <3>2
    <3> HIDE DEF c, b, g, kept, path
    <3>4. \A i \in 1 .. k : i = k \/ i \in 1 .. (k - 1)
      OBVIOUS
    <3>5. \A p, i : p \in DOMAIN c /\ p # path(k) /\ whole(i, p, b) => whole(i, p, c)
      BY <3>2
    <3> HIDE DEF whole
    <3>6. \A p \in DOMAIN c : p # path(k) => \/ p \in DOMAIN cache /\ c[p] = cache[p]
                                             \/ \E i \in 1 .. k : whole(i, p, c)
      BY <1>4, <3>2, <3>5 DEF b
    <3>7. DOMAIN cache \subseteq DOMAIN f[k].cache
      BY <1>4, <3>2 DEF b, c
    <3>8. \A i \in 1 .. k : gets[i].url \notin f[k].failed => path(i) \in DOMAIN f[k].cache
      BY <1>4, <3>1, <3>2, <3>4 DEF b, c
    <3>9. \A p \in DOMAIN f[k].cache : \/ p \in DOMAIN cache /\ f[k].cache[p] = cache[p]
                                       \/ \E i \in 1 .. k : whole(i, p, f[k].cache)
      BY <3>3, <3>6 DEF c
    <3> QED
      BY <3>7, <3>8, <3>9
  <2>6. CASE g.outcome # "ok"
    <3>1. c = b /\ f[k].failed = f[k - 1].failed \cup {g.url}
      BY <2>2, <2>6 DEF syncOne
    <3>2. \A i \in 1 .. k : i = k \/ i \in 1 .. (k - 1)
      OBVIOUS
    <3> HIDE DEF path, whole
    <3> QED
      BY <1>4, <3>1, <3>2
  <2> QED
    BY <2>5, <2>6
<1>5. good(n)
  <2> HIDE DEF good
  <2>1. 0 \in S /\ \A k \in 1 .. n : k - 1 \in S => k \in S
    BY <1>2, <1>3, <1>4
  <2> HIDE DEF S
  <2>2. n \in S
    BY <1>2, <2>1, CountUp
  <2> QED
    BY <2>2 DEF S
<1>6. \A g : g \in ToSet(gets) <=> \E i \in 1 .. n : g = gets[i]
  BY <1>2 DEF ToSet
<1> QED
  BY <1>1, <1>5, <1>6 DEF SyncKeepsGood, SchemaVerdict, after

-----------------------------------------------------------------------------
(* lspdoctor, and the answers that it and the client library read.         *)

\* The doctor's own environment is afterwards what it was, and the consumers' path is not read from it.
LEMMA Restored ==
  ASSUME NEW xdg
  PROVE  /\ setForDuration(xdg, UserRun).after = xdg
         /\ consumerSocketPath(xdg) = UserRun
BY DEF setForDuration, UserRun, consumerSocketPath, DefaultSocketPath, Unset
\* The checks of the host itself.
Judged(host) == {checkBinary(host), checkService(host), checkReachability(host, UserRun)}
\* The check that compares the default path with that of the consumers.
Compared(host, path) ==
  checkDivergence(UserRun, path, dialStatus(host, UserRun),
                    IF path # UserRun THEN dialStatus(host, path) ELSE dialStatus(host, UserRun))
\* All checks, where the environment leads to this path.
Report(host, path, probe) ==
  Judged(host) \cup {Compared(host, path)} \cup (IF path # UserRun THEN {checkReachabilityInfo} ELSE {})
    \cup (IF probe THEN {probeEndToEnd(host, UserRun)} ELSE {})
\* The members of the reports that collectResults puts together.
LEMMA FourOrFive ==
  ASSUME NEW a, NEW b, NEW c, NEW d
  PROVE  /\ ToSet(<<a, b, c>> \o <<>> \o <<d>> \o <<>>) = {a, b, c, d}
         /\ \A p : ToSet(<<a, b, c>> \o <<>> \o <<d>> \o <<p>>) = {a, b, c, d, p}
         /\ \A i : ToSet(<<a, b, c>> \o <<i>> \o <<d>> \o <<>>) = {a, b, c, d, i}
         /\ \A i, p : ToSet(<<a, b, c>> \o <<i>> \o <<d>> \o <<p>>) = {a, b, c, d, i, p}
BY DEF ToSet
\* The results of a run, without their order.
LEMMA DoctorReports ==
  ASSUME NEW host, NEW xdg, NEW probe \in BOOLEAN
  PROVE  ToSet(collectResults(host, xdg, probe)) = Report(host, DefaultSocketPath(xdg), probe)
<1> DEFINE path == DefaultSocketPath(xdg)
           a == checkBinary(host)
           b == checkService(host)
           c == checkReachability(host, UserRun)
           d == Compared(host, path)
           i == IF path # UserRun THEN <<checkReachabilityInfo>> ELSE <<>>
           p == IF probe THEN <<probeEndToEnd(host, UserRun)>> ELSE <<>>
<1>1. DefaultSocketPath(setForDuration(xdg, UserRun).after) = path /\ consumerSocketPath(xdg) = UserRun
  BY Restored
<1>2. collectResults(host, xdg, probe) = <<a, b, c>> \o i \o <<d>> \o p
  <2> HIDE DEF path
  <2> QED
    BY <1>1, ZenonT(60) DEF collectResults, Compared
<1>3. ToSet(<<a, b, c>> \o i \o <<d>> \o p) = Report(host, path, probe)
  <2> HIDE DEF path, a, b, c, d
  <2>1. CASE path # UserRun /\ probe
    BY <2>1, FourOrFive DEF Report, Judged, a, b, c, d
  <2>2. CASE path # UserRun /\ ~probe
    BY <2>2, FourOrFive DEF Report, Judged, a, b, c, d
  <2>3. CASE ~(path # UserRun) /\ probe
    BY <2>3, FourOrFive DEF Report, Judged, a, b, c, d
  <2>4. CASE ~(path # UserRun) /\ ~probe
    BY <2>4, FourOrFive DEF Report, Judged, a, b, c, d
  <2> QED
    BY <2>1, <2>2, <2>3, <2>4
<1> DEFINE results == <<a, b, c>> \o i \o <<d>> \o p
<1>4. collectResults(host, xdg, probe) = results /\ ToSet(results) = Report(host, path, probe)
  BY <1>2, <1>3
<1> HIDE DEF results
<1> QED
  BY <1>4
\* Which check is which.
LEMMA CheckNames ==
  ASSUME NEW host, NEW path
  PROVE  /\ \A r \in Judged(host) : r.check \in {"binary", "service", "consumer"}
         /\ Compared(host, path).check = "divergence"
         /\ checkReachabilityInfo.check = "default"
         /\ probeEndToEnd(host, UserRun).check = "probe"
<1>1. \A check, status : Result(check, status).check = check
  BY DEF Result
<1> QED
  BY <1>1 DEF Judged, Compared, checkBinary, checkService, checkReachability, checkReachabilityInfo, checkDivergence, probeEndToEnd
\* Whatever the host and the environment: XDG_RUNTIME_DIR changes nothing but what is said about
\* the default path, and setForDuration leaves it as it was.
THEOREM DoctorIsBlind ==
  ASSUME NEW host, NEW xdg, NEW other
  PROVE  EnvironmentBlind(host, xdg, other)
<1> DEFINE about(x) == {r \in ToSet(collectResults(host, x, TRUE)) : r.check \notin {"default", "divergence"}}
<1>1. ASSUME NEW x PROVE about(x) = Judged(host) \cup {probeEndToEnd(host, UserRun)}
  <2> DEFINE path == DefaultSocketPath(x)
             probe == probeEndToEnd(host, UserRun)
             info == checkReachabilityInfo
             apart == Compared(host, path)
  <2>1. ToSet(collectResults(host, x, TRUE)) = Judged(host) \cup {apart} \cup (IF path # UserRun THEN {info} ELSE {}) \cup {probe}
    BY DoctorReports DEF Report
  <2>2. /\ \A r \in Judged(host) : r.check \in {"binary", "service", "consumer"}
        /\ apart.check = "divergence" /\ info.check = "default" /\ probe.check = "probe"
    BY CheckNames
  <2> DEFINE results == ToSet(collectResults(host, x, TRUE))
  <2> HIDE DEF path, probe, info, apart, results
  <2>3. {r \in results : r.check \notin {"default", "divergence"}} = Judged(host) \cup {probe}
    BY <2>1, <2>2 DEF results
  <2> QED
    BY <2>3 DEF probe, results
<1> HIDE DEF about
<1>2. about(xdg) = about(other)
  BY <1>1
<1> QED
  BY <1>2, Restored DEF EnvironmentBlind, about
\* When a check fails.
LEMMA CheckVerdicts ==
  ASSUME NEW host, NEW path
  PROVE  /\ checkBinary(host).status = "FAIL" <=> ~host.binary
         /\ checkBinary(host).check = "binary"
         /\ checkService(host).status # "FAIL"
         /\ checkReachability(host, UserRun).status = "FAIL" <=> host.socket[UserRun] # "answers"
         /\ checkReachability(host, UserRun).check = "consumer"
         /\ checkReachabilityInfo.status # "FAIL"
         /\ Compared(host, path).status = "FAIL" <=> host.socket[UserRun] # "answers" /\ host.socket[path] = "answers"
<1>1. \A check, status : Result(check, status).check = check /\ Result(check, status).status = status
  BY DEF Result
<1>2. checkService(host).status # "FAIL"
  <2>1. checkService(host).status \in {"SKIP", "PASS", "WARN"}
    BY <1>1 DEF checkService
  <2> QED
    BY <2>1
<1>3. checkBinary(host).status = "FAIL" <=> ~host.binary
  BY <1>1 DEF checkBinary
<1>4. checkReachability(host, UserRun).status = "FAIL" <=> host.socket[UserRun] # "answers"
  BY <1>1 DEF checkReachability, dialStatus
<1>5. Compared(host, path).status = "FAIL" <=> host.socket[UserRun] # "answers" /\ host.socket[path] = "answers"
  <2> DEFINE up == host.socket[UserRun] = "answers"
             there == host.socket[path] = "answers"
  <2>1. CASE path = UserRun
    <3>1. Compared(host, path).status = "PASS"
      BY <1>1, <2>1 DEF Compared, checkDivergence
    <3> QED
      BY <2>1, <3>1
  <2>2. CASE path # UserRun
    <3>1. Compared(host, path) = checkDivergence(UserRun, path, up, there)
      BY <2>2 DEF Compared, dialStatus
    <3>2. there /\ ~up => Compared(host, path).status = "FAIL"
      BY <1>1, <2>2, <3>1 DEF checkDivergence
    <3>3. CASE there /\ up
      <4> HIDE DEF up, there
      <4>1. Compared(host, path).status = "WARN"
        BY <1>1, <2>2, <3>1, <3>3 DEF checkDivergence
      <4> QED
        BY <3>3, <4>1 DEF up
    <3>4. CASE ~there
      <4> HIDE DEF up, there
      <4>1. Compared(host, path).status = "PASS"
        BY <1>1, <2>2, <3>1, <3>4 DEF checkDivergence
      <4> QED
        BY <3>4, <4>1 DEF there
    <3> QED
      BY <3>2, <3>3, <3>4
  <2> QED
    BY <2>1, <2>2
<1> QED
  BY <1>1, <1>2, <1>3, <1>4, <1>5 DEF checkBinary, checkReachability, checkReachabilityInfo

\* Whatever host: an enforced success means that the consumers reach a broker, a broker on the
\* wrong path is named, and a probe that passes has found the symbol and its references. The
\* references of a host are its answers for every range that its symbols may have.
THEOREM SuccessMeansServed ==
  ASSUME NEW host, NEW xdg, NEW probe \in BOOLEAN, NEW Raw, host.polls \in Seq(Raw),
         \A i \in DOMAIN host.polls : findSelectionRange(host.polls[i], "greet") \in DOMAIN host.references \cup {NoRange}
  PROVE  SuccessIsReal(host, xdg, probe)
<1> DEFINE path    == DefaultSocketPath(xdg)
           results == collectResults(host, xdg, probe)
           failed  == FailedChecks(results)
           end     == probeEndToEnd(host, UserRun)
           ok      == host.binary /\ host.socket[UserRun] = "answers"
           lost    == host.socket[UserRun] # "answers" /\ host.socket[path] = "answers"
           a       == checkBinary(host)
           b       == checkService(host)
           c       == checkReachability(host, UserRun)
           d       == Compared(host, path)
           e       == checkReachabilityInfo
<1>1. ToSet(results) = {a, b, c} \cup {d} \cup (IF path # UserRun THEN {e} ELSE {}) \cup (IF probe THEN {end} ELSE {})
  BY DoctorReports DEF Report, Judged
<1>2. /\ a.status = "FAIL" <=> ~host.binary
      /\ a.check = "binary"
      /\ b.status # "FAIL"
      /\ c.status = "FAIL" <=> host.socket[UserRun] # "answers"
      /\ c.check = "consumer"
      /\ d.status = "FAIL" <=> lost
      /\ d.check = "divergence"
      /\ e.status # "FAIL"
      /\ end.check = "probe"
  BY CheckVerdicts, CheckNames
<1>3. \A check : check \in failed <=> \E r \in ToSet(results) : r.status = "FAIL" /\ r.check = check
  BY DEF FailedChecks
<1> HIDE DEF path, results, failed, end, a, b, c, d, e
<1>4. \A check : check \in failed <=> \/ check = "binary" /\ ~host.binary
                                      \/ check = "consumer" /\ host.socket[UserRun] # "answers"
                                      \/ check = "divergence" /\ lost
                                      \/ check = "probe" /\ probe /\ end.status = "FAIL"
  BY <1>1, <1>2, <1>3
<1>5. run(results, TRUE) <=> failed = {}
  BY DEF run, failed
<1>6. failed = {} => ok
  BY <1>4
<1>7. "divergence" \in failed <=> lost
  BY <1>4
<1>8. ok /\ failed # {} => failed = {"probe"}
  BY <1>4
<1>9. ASSUME failed = {}, probe, host.pyright, host.fixture
      PROVE  \E i \in DOMAIN host.polls, r \in DOMAIN host.references :
               /\ host.polls[i].k = "array" /\ \E s \in ToSet(host.polls[i].elems) : s.name = "greet"
               /\ References(host.references[r]).of # <<>>
  <2> DEFINE at   == pollSelectionRange(host.polls)
             refs == References(host.references[at])
             ends == {i \in DOMAIN host.polls : host.polls[i].k = "error" \/ findSelectionRange(host.polls[i], "greet") # NoRange}
             last == Min(ends)
  <2>1. end.status # "FAIL" /\ host.socket[UserRun] # "none"
    BY <1>4, <1>6, <1>9
  <2>2. at # NoRange /\ ~refs.err /\ refs.of # <<>>
    <3> DEFINE bad == at = NoRange \/ refs.err \/ refs.of = <<>>
    <3>1. CASE bad
      <4> HIDE DEF bad
      <4>1. end = Result("probe", IF bad THEN "FAIL" ELSE "PASS")
        BY <1>9, <2>1, ZenonT(60) DEF probeEndToEnd, end, bad
      <4>2. end.status = "FAIL"
        BY <3>1, <4>1 DEF Result
      <4> QED
        BY <2>1, <4>2
    <3> QED
      BY <3>1
  <2>3. ends # {} /\ host.polls[last].k # "error" /\ at = findSelectionRange(host.polls[last], "greet")
    BY <2>2 DEF pollSelectionRange, Min, Min
  <2>4. last \in DOMAIN host.polls
    <3>1. ends \in SUBSET Nat /\ ends \subseteq DOMAIN host.polls
      OBVIOUS
    <3> HIDE DEF ends
    <3> QED
      BY <2>3, <3>1, SmallestOf
  <2>5. at \in DOMAIN host.references
    BY <2>2, <2>3, <2>4
  <2>6. host.polls[last].k = "array" /\ \E s \in ToSet(host.polls[last].elems) : s.name = "greet"
    BY <2>2, <2>3 DEF findSelectionRange, ToSet
  <2> QED
    BY <2>2, <2>4, <2>5, <2>6
<1> QED
  BY <1>5, <1>6, <1>7, <1>8, <1>9 DEF SuccessIsReal, path, results, failed

\* What DocumentSymbol returns.
LEMMA SymbolsOf ==
  ASSUME NEW Sym, NEW raw \in [k : Kinds, elems : Seq(Sym)]
  PROVE  LET r     == DocumentSymbol(raw)
             shape == raw.elems[1].shape
             all   == [i \in DOMAIN raw.elems |-> As(shape, raw.elems[i])]
         IN \/ isJSONNull(raw) /\ r = NoSymbols
            \/ raw.k \notin {"absent", "null", "array"} /\ r = Undecodable
            \/ raw.k = "array" /\ raw.elems = <<>> /\ r = NoSymbols
            \/ raw.k = "array" /\ raw.elems # <<>> /\ Decoded(raw.elems).err /\ r = Undecodable
            \/ raw.k = "array" /\ raw.elems # <<>> /\ ~Decoded(raw.elems).err /\ shape = "flat" /\ r = [NoSymbols EXCEPT !.flat = all]
            \/ raw.k = "array" /\ raw.elems # <<>> /\ ~Decoded(raw.elems).err /\ shape # "flat" /\ r = [NoSymbols EXCEPT !.tree = all]
<1>1. CASE isJSONNull(raw)
  BY <1>1 DEF DocumentSymbol, isJSONNull
<1>2. CASE raw.k \in {"object", "string", "number"}
  BY <1>2 DEF DocumentSymbol, isJSONNull
<1>3. CASE raw.k = "array" /\ raw.elems = <<>>
  BY <1>3 DEF DocumentSymbol, isJSONNull
<1>4. CASE raw.k = "array" /\ raw.elems # <<>>
  BY <1>4 DEF DocumentSymbol, isJSONNull
<1> QED
  BY <1>1, <1>2, <1>3, <1>4 DEF Kinds, isJSONNull

\* An element that has the shape asked for is decoded as it is.
LEMMA SameShape ==
  ASSUME NEW Sym, NEW elems \in Seq(Sym), NEW shape, elems # <<>>, \A i \in DOMAIN elems : elems[i].shape = shape
  PROVE  elems[1].shape = shape /\ [i \in DOMAIN elems |-> As(elems[1].shape, elems[i])] = elems
<1>1. elems[1].shape = shape
  OBVIOUS
<1>2. \A i \in DOMAIN elems : As(elems[1].shape, elems[i]) = elems[i]
  BY <1>1 DEF As
<1> QED
  BY <1>1, <1>2
\* Whatever a server answers: a list of symbols of one shape arrives whole, on the side of its
\* shape; and what References accepts, Definition reads the same way.
THEOREM AnswersArrive ==
  ASSUME NEW Sym, NEW raw \in [k : Kinds, elems : Seq(Sym)]
  PROVE  SymbolsArrive(raw) /\ LocationsAgree(raw)
<1> DEFINE r == DocumentSymbol(raw)
           pure(shape) == raw.k = "array" /\ \A i \in DOMAIN raw.elems : raw.elems[i].shape = shape
           all == [i \in DOMAIN raw.elems |-> As(raw.elems[1].shape, raw.elems[i])]
<1>1. LocationsAgree(raw)
  BY DEF LocationsAgree, References, decodeLocations, isJSONNull
<1>2. isJSONNull(raw) => References(raw) = decodeLocations(raw)
  BY DEF References, decodeLocations, isJSONNull
<1>3. isJSONNull(raw) => r = NoSymbols
  BY SymbolsOf DEF isJSONNull
<1>4. r.flat = <<>> \/ r.tree = <<>>
  <2>1. /\ [NoSymbols EXCEPT !.flat = all].tree = <<>> /\ [NoSymbols EXCEPT !.tree = all].flat = <<>>
        /\ NoSymbols.flat = <<>> /\ Undecodable.flat = <<>>
    BY DEF NoSymbols, Undecodable
  <2>2. r \in {NoSymbols, Undecodable, [NoSymbols EXCEPT !.flat = all], [NoSymbols EXCEPT !.tree = all]}
    <3> HIDE DEF r, all
    <3> QED
      BY SymbolsOf DEF r, all
  <2> HIDE DEF r, all
  <2> QED
    BY <2>1, <2>2
<1>5. ASSUME NEW shape \in {"flat", "tree"}, pure(shape), raw.elems # <<>>
      PROVE  r = IF shape = "flat" THEN [NoSymbols EXCEPT !.flat = raw.elems] ELSE [NoSymbols EXCEPT !.tree = raw.elems]
  <2>1. raw.elems[1].shape = shape /\ all = raw.elems
    BY <1>5, SameShape
  <2>2. ~Decoded(raw.elems).err
    BY <1>5 DEF Decoded
  <2>3. ~isJSONNull(raw)
    BY <1>5 DEF isJSONNull
  <2> HIDE DEF r, all
  <2> QED
    BY <1>5, <2>1, <2>2, <2>3, SymbolsOf DEF r, all
<1>6. ASSUME NEW shape, pure(shape), raw.elems = <<>>
      PROVE  r = [NoSymbols EXCEPT !.flat = raw.elems] /\ r = [NoSymbols EXCEPT !.tree = raw.elems]
  <2>1. r = NoSymbols
    BY <1>6, SymbolsOf
  <2> QED
    BY <1>6, <2>1 DEF NoSymbols
<1>7. pure("flat") => r = [NoSymbols EXCEPT !.flat = raw.elems]
  BY <1>5, <1>6
<1>8. pure("tree") => r = [NoSymbols EXCEPT !.tree = raw.elems]
  BY <1>5, <1>6
<1> QED
  BY <1>1, <1>2, <1>3, <1>4, <1>7, <1>8 DEF SymbolsArrive
\* Whatever a server answers: the doctor finds a symbol where the client library finds it.
THEOREM DoctorReads ==
  ASSUME NEW Sym, NEW raw \in [k : Kinds, elems : Seq(Sym)]
  PROVE  ReadsLikeClient(raw)
<1> DEFINE r     == DocumentSymbol(raw)
           shape == raw.elems[1].shape
           one   == [i \in DOMAIN raw.elems |-> As(shape, raw.elems[i])]
           all   == r.flat \o r.tree
           named(s) == {i \in DOMAIN s : s[i].name = "greet"}
           found == findSelectionRange(raw, "greet")
<1>1. CASE raw.k # "array" \/ raw.elems = <<>>
  <2>1. found = NoRange
    BY <1>1 DEF findSelectionRange
  <2>2. r = NoSymbols \/ r = Undecodable
    BY <1>1, SymbolsOf
  <2>3. r.err \/ (r.flat = <<>> /\ r.tree = <<>>)
    BY <2>2 DEF NoSymbols, Undecodable
  <2>4. r.err \/ named(all) = {}
    <3> HIDE DEF r
    <3>1. <<>> \o <<>> = <<>> /\ named(<<>>) = {}
      OBVIOUS
    <3> QED
      BY <2>3, <3>1
  <2> QED
    BY <2>1, <2>4 DEF ReadsLikeClient
<1>2. CASE raw.k = "array" /\ raw.elems # <<>> /\ Decoded(raw.elems).err
  <2>1. found = NoRange
    BY <1>2 DEF findSelectionRange
  <2>2. r = Undecodable
    BY <1>2, SymbolsOf DEF isJSONNull
  <2>3. r.err
    BY <2>2 DEF Undecodable, NoSymbols
  <2> QED
    BY <2>1, <2>3 DEF ReadsLikeClient
<1>3. CASE raw.k = "array" /\ raw.elems # <<>> /\ ~Decoded(raw.elems).err
  <2>1. found = IF named(raw.elems) = {} THEN NoRange ELSE As(shape, raw.elems[Min(named(raw.elems))]).range
    BY <1>3 DEF findSelectionRange
  <2>2. r = [NoSymbols EXCEPT !.flat = one] \/ r = [NoSymbols EXCEPT !.tree = one]
    BY <1>3, SymbolsOf DEF isJSONNull
  <2>3. ~r.err /\ ((r.flat = one /\ r.tree = <<>>) \/ (r.flat = <<>> /\ r.tree = one))
    BY <2>2 DEF NoSymbols
  <2>4. one \in Seq({As(shape, raw.elems[i]) : i \in DOMAIN raw.elems})
    OBVIOUS
  <2>5. all = one
    <3> HIDE DEF one, r
    <3>1. one \o <<>> = one /\ <<>> \o one = one
      BY <2>4, ConcatEmptySeq
    <3> QED
      BY <2>3, <3>1
  <2>6. \A i \in DOMAIN raw.elems : As(shape, raw.elems[i]).name = raw.elems[i].name
    BY DEF As
  <2>7. named(all) = named(raw.elems)
    BY <2>5, <2>6
  <2>8. named(raw.elems) # {} => Min(named(raw.elems)) \in DOMAIN raw.elems
    <3> DEFINE T == named(raw.elems)
    <3>1. T \in SUBSET Nat /\ T \subseteq DOMAIN raw.elems
      OBVIOUS
    <3> HIDE DEF T
    <3>2. T # {} => Min(T) \in T
      BY <3>1, SmallestOf
    <3> QED
      BY <3>1, <3>2 DEF T
  <2> QED
    BY <2>1, <2>3, <2>5, <2>7, <2>8 DEF ReadsLikeClient
<1> QED
  BY <1>1, <1>2, <1>3

-----------------------------------------------------------------------------
(* Hovers and diagnostics that the client reads (ClientReads).             *)

\* A sequence of one.
LEMMA OneElement == ASSUME NEW T, NEW x \in T PROVE <<x>> \in Seq(T) /\ Len(<<x>>) = 1 /\ <<x>>[1] = x
OBVIOUS

\* Whatever parts a hover has: their texts arrive, all of them and in their order.
THEOREM HoverIsComplete ==
  ASSUME NEW Text, NEW raw, raw.elems \in Seq(HoverPart(Text))
  PROVE  HoverKeepsText(raw)
<1> DEFINE n    == Len(raw.elems)
           part(i) == MarkupOf(raw.elems[i]).value
           text(i) == IF raw.elems[i].k \in {"string", "object"} THEN raw.elems[i].value ELSE ""
           s    == [i \in DOMAIN raw.elems |-> part(i)]
           T == Text \cup {""}
<1>1. n \in Nat /\ DOMAIN raw.elems = 1 .. n
  OBVIOUS
<1>2. ASSUME NEW i \in 1 .. n PROVE part(i) = <<text(i)>> /\ text(i) \in T
  <2>1. raw.elems[i] \in HoverPart(Text)
    OBVIOUS
  <2> QED
    BY <2>1 DEF MarkupOf, decodeMarkupObject, HoverPart
<1> HIDE DEF n, part, text, T
<1>3. \A i \in 1 .. n : s[i] = <<text(i)>>
  BY <1>1, <1>2
<1>4. s \in Seq(Seq(T)) /\ Len(s) = n
  <2>1. \A i \in 1 .. n : part(i) \in Seq(T)
    BY <1>2, OneElement
  <2>2. s \in [1 .. n -> Seq(T)] /\ s = [i \in 1 .. n |-> part(i)]
    BY <1>1, <2>1
  <2> HIDE DEF s
  <2> QED
    BY <1>1, <2>2
<1> HIDE DEF s
<1>6. \A i \in 1 .. n : Len(s[i]) = 1 /\ s[i][1] = text(i)
  BY <1>2, <1>3, OneElement
<1>7. FlattenSeq(s) = [i \in 1 .. n |-> s[i][1]]
  BY <1>4, <1>6, Flattened
<1>8. FlattenSeq(s) = [i \in 1 .. n |-> text(i)]
  BY <1>6, <1>7
<1> QED
  BY <1>1, <1>8 DEF HoverKeepsText, decodeMarkup, s, text, part

\* The batches of a collector.
Batches(Uri, Diag) == [latest : [Uri -> Seq(Diag)], seen : SUBSET Uri]

\* A notification keeps the types.
LEMMA HandleStays ==
  ASSUME NEW Uri, NEW Diag, NEW d \in Batches(Uri, Diag), NEW note \in NoteOf(Uri, Diag)
  PROVE  Handle(d, note) \in Batches(Uri, Diag)
BY DEF Handle, Batches, NoteOf

\* What is collected from a list of notifications.
Collected(base, log) == FoldLeft(Handle, base, log)

\* The collector behind each notification.
LEMMA NotesTraced ==
  ASSUME NEW Uri, NEW Diag, NEW log \in Seq(NoteOf(Uri, Diag)), NEW base \in Batches(Uri, Diag)
  PROVE  \E f : /\ f \in [0 .. Len(log) -> Batches(Uri, Diag)] /\ f[0] = base /\ f[Len(log)] = Collected(base, log)
                /\ \A i \in 1 .. Len(log) : f[i] = Handle(f[i - 1], log[i])
<1> DEFINE n     == Len(log)
           V     == Batches(Uri, Diag)
           Op    == [x \in V \X (1 .. n) |-> Handle(x[1], log[x[2]])]
           is(g) == g = [s \in SUBSET (1 .. n) |-> IF s = {} THEN base ELSE Handle(g[s \ {Max(s)}], log[Max(s)])]
<1>1. n \in Nat /\ DOMAIN log = 1 .. n /\ base \in V
  OBVIOUS
<1>2. \A v \in V, i \in 1 .. n : Op[<<v, i>>] = Handle(v, log[i]) /\ Handle(v, log[i]) \in V
  <2> SUFFICES ASSUME NEW v \in V, NEW i \in 1 .. n PROVE Op[<<v, i>>] = Handle(v, log[i]) /\ Handle(v, log[i]) \in V
    OBVIOUS
  <2>1. log[i] \in NoteOf(Uri, Diag)
    OBVIOUS
  <2> QED
    BY <2>1, HandleStays
<1>3. Op \in [V \X (1 .. n) -> V]
  BY <1>2
<1>4. Collected(base, log) = (CHOOSE g : is(g))[1 .. n]
  BY <1>1 DEF Collected, FoldLeft, MapThenFoldSet
<1> HIDE DEF n, V, Op
<1>5. \E g : is(g)
  <2>1. PICK g \in [SUBSET (1 .. n) -> V] : IsFold(g, n, base, Op)
    BY <1>1, <1>3, FoldExists
  <2>2. ASSUME NEW s \in SUBSET (1 .. n) PROVE g[s] = IF s = {} THEN base ELSE Handle(g[s \ {Max(s)}], log[Max(s)])
    <3>1. s # {} => Max(s) \in 1 .. n /\ s \ {Max(s)} \in SUBSET (1 .. n)
      BY <1>1, LastOfThese
    <3> QED
      BY <1>2, <2>1, <3>1 DEF IsFold
  <2>3. is(g)
    BY <2>1, <2>2
  <2> QED
    BY <2>3
<1> DEFINE g == CHOOSE h : is(h)
<1>6. is(g)
  BY <1>5
<1> HIDE DEF g
<1>7. Tabulates(g, n, V, base, Op)
  <2>1. g[{}] = base
    BY <1>6
  <2>2. ASSUME NEW s \in SUBSET (1 .. n), s # {}, g[s \ {Max(s)}] \in V PROVE g[s] = Op[<<g[s \ {Max(s)}], Max(s)>>]
    <3>1. Max(s) \in 1 .. n
      BY <1>1, <2>2, LastOfThese
    <3> QED
      BY <1>2, <1>6, <2>2, <3>1
  <2> QED
    BY <2>1, <2>2 DEF Tabulates
<1>8. PICK f : Traces(f, n, V, base, Op) /\ f[n] = g[1 .. n]
  <2>1. FoldsTo(g[1 .. n], n, V, base, Op)
    BY <1>1, <1>3, <1>7, FoldTraced
  <2> QED
    BY <2>1 DEF FoldsTo
<1>9. \A i \in 1 .. n : f[i] = Handle(f[i - 1], log[i])
  <2> SUFFICES ASSUME NEW i \in 1 .. n PROVE f[i] = Handle(f[i - 1], log[i])
    OBVIOUS
  <2>1. i - 1 \in 0 .. n
    BY <1>1
  <2> QED
    BY <1>2, <1>8, <2>1 DEF Traces
<1> QED
  BY <1>4, <1>8, <1>9 DEF g, n, V, Traces

\* Whatever notifications come: Wait ends with the newest batch for its document.
THEOREM WaitEndsWithNewest ==
  ASSUME NEW Uri, NEW Diag, NEW log \in Seq(NoteOf(Uri, Diag)), NEW uri
  PROVE  WaitIsNewest(log, uri)
<1> DEFINE n     == Len(log)
           all   == {uri} \cup {log[i].uri : i \in DOMAIN log}
           base  == NewDiagnosticsCollector(all)
           is(i) == log[i].method = "publishDiagnostics" /\ log[i].wellFormed /\ log[i].uri = uri
           mine(k) == {i \in 1 .. k : is(i)}
<1>1. n \in Nat /\ DOMAIN log = 1 .. n /\ uri \in all
  OBVIOUS
<1>2. \A i \in 1 .. n : log[i] \in NoteOf(all, Diag)
  <2> SUFFICES ASSUME NEW i \in 1 .. n PROVE log[i] \in NoteOf(all, Diag)
    OBVIOUS
  <2>1. log[i] \in NoteOf(Uri, Diag) /\ log[i].uri \in all
    BY <1>1
  <2> QED
    BY <2>1 DEF NoteOf
<1>3. log \in Seq(NoteOf(all, Diag)) /\ base \in Batches(all, Diag)
  <2>1. base \in Batches(all, Diag)
    BY DEF NewDiagnosticsCollector, Batches
  <2> HIDE DEF all, base
  <2>2. log \in [1 .. n -> NoteOf(all, Diag)]
    BY <1>1, <1>2
  <2> QED
    BY <1>1, <2>1, <2>2
<1>4. base.latest[uri] = <<>> /\ base.seen = {}
  BY <1>1 DEF NewDiagnosticsCollector
<1> HIDE DEF all, base
<1>5. PICK f : /\ f \in [0 .. n -> Batches(all, Diag)] /\ f[0] = base /\ f[n] = Collected(base, log)
               /\ \A i \in 1 .. n : f[i] = Handle(f[i - 1], log[i])
  BY <1>3, NotesTraced
<1> HIDE DEF n
<1> DEFINE P(k) == /\ uri \in f[k].seen <=> mine(k) # {}
                   /\ f[k].latest[uri] = IF mine(k) = {} THEN <<>> ELSE log[Max(mine(k))].diags
<1>6. P(0)
  <2>1. mine(0) = {}
    OBVIOUS
  <2> QED
    BY <1>4, <1>5, <2>1
<1>7. ASSUME NEW k \in 1 .. n, P(k - 1) PROVE P(k)
  <2> DEFINE d == f[k - 1]
             e == f[k]
  <2>1. e = Handle(d, log[k]) /\ d \in Batches(all, Diag) /\ log[k] \in NoteOf(all, Diag)
    BY <1>1, <1>2, <1>5, AndBefore
  <2>2. k \in Nat /\ k \in 1 .. k /\ (\A j \in 1 .. k : j = k \/ j \in 1 .. (k - 1)) /\ \A j \in 1 .. (k - 1) : j \in 1 .. k
    BY <1>1, AndBefore
  <2>3. CASE is(k)
    <3>1. k \in mine(k) /\ mine(k) \in SUBSET (1 .. k)
      BY <2>2, <2>3
    <3> HIDE DEF mine
    <3>2. mine(k) # {} /\ Max(mine(k)) = k
      BY <2>2, <3>1, LastOfThese
    <3>3. uri \in e.seen /\ e.latest[uri] = log[k].diags
      BY <1>1, <2>1, <2>3 DEF Handle, Batches
    <3> QED
      BY <3>2, <3>3
  <2>4. CASE ~is(k)
    <3>1. mine(k) = mine(k - 1)
      BY <2>2, <2>4
    <3>2. (uri \in e.seen <=> uri \in d.seen) /\ e.latest[uri] = d.latest[uri]
      BY <2>1, <2>4 DEF Handle, Batches, NoteOf
    <3> HIDE DEF mine
    <3> QED
      BY <1>7, <3>1, <3>2
  <2> QED
    BY <2>3, <2>4
<1>8. P(n)
  <2> HIDE DEF P
  <2> DEFINE S == {k \in 0 .. n : P(k)}
  <2>1. \A k : k \in S <=> k \in 0 .. n /\ P(k)
    OBVIOUS
  <2> HIDE DEF S
  <2>2. 0 \in S /\ (\A k \in 1 .. n : k - 1 \in S => k \in S) /\ n \in 0 .. n
    BY <1>1, <1>6, <1>7, <2>1
  <2>3. n \in S
    BY <1>1, <2>2, CountUp
  <2> QED
    BY <2>1, <2>3
<1>9. mine(n) = {i \in DOMAIN log : is(i)}
  BY <1>1
<1> QED
  BY <1>5, <1>8, <1>9 DEF WaitIsNewest, Collected, DiagnosticsOf, WaitLook, all, base

-----------------------------------------------------------------------------
(* Library: whatever the subjects are given.                               *)

\* A text of whole runes, and one with edits that keep them whole.
TextInv(t)  == t \in Seq(STRING) /\ WellFormed(t)
WholeEdits  == {e \in TextEdit(STRING) : WellFormed(e.new)}
WholeTexts  == {t \in Seq(STRING) : WellFormed(t)}
EditedTexts == [text : WholeTexts, edits : Seq(WholeEdits)]

\* Whole runes behind whole runes.
LEMMA JoinedWhole ==
  ASSUME NEW s \in Seq(STRING), NEW t \in Seq(STRING), WellFormed(s), WellFormed(t)
  PROVE  s \o t \in Seq(STRING) /\ WellFormed(s \o t)
<1> DEFINE j == s \o t
           m == Len(s)
           n == Len(t)
<1>1. j \in Seq(STRING) /\ Len(j) = m + n /\ m \in Nat /\ n \in Nat
  OBVIOUS
<1>2. \A i \in 1 .. m : j[i] = s[i]
  OBVIOUS
<1>3. \A i \in 1 .. n : j[m + i] = t[i]
  OBVIOUS
<1> HIDE DEF j
<1>4. ASSUME NEW i \in 1 .. Len(j), j[i] = "~" PROVE i > 1 /\ j[i - 1] \in {"2", "4", "~"}
  <2>1. CASE i <= m
    <3>1. i \in 1 .. m /\ s[i] = "~"
      BY <1>1, <1>2, <1>4, <2>1
    <3>2. i > 1 /\ s[i - 1] \in {"2", "4", "~"}
      BY <3>1 DEF WellFormed
    <3>3. i - 1 \in 1 .. m
      BY <1>1, <3>1, <3>2
    <3> QED
      BY <1>2, <3>2, <3>3
  <2>2. CASE i > m
    <3> DEFINE k == i - m
    <3>1. k \in 1 .. n /\ i = m + k
      BY <1>1, <2>2
    <3> HIDE DEF k
    <3>2. t[k] = "~"
      BY <1>3, <1>4, <3>1
    <3>3. k > 1 /\ t[k - 1] \in {"2", "4", "~"}
      BY <3>1, <3>2 DEF WellFormed
    <3>4. k - 1 \in 1 .. n /\ i - 1 = m + (k - 1) /\ i > 1
      BY <1>1, <3>1, <3>3
    <3> QED
      BY <1>3, <3>3, <3>4
  <2> HIDE DEF m
  <2> QED
    BY <1>1, <2>1, <2>2
<1> QED
  BY <1>1, <1>4 DEF WellFormed, j

\* What a subject is given stays what it is meant to be.
LibraryInv ==
  /\ subject = "text"   => TextInv(in)
  /\ subject = "edits"  => in \in EditedTexts
  /\ subject = "file"   => in \in Projects
  /\ subject = "detect" => DetectionInv(in)
  /\ subject = "place"  => in \in Places
  /\ subject = "yaml"   => in \in Pointers
  /\ subject = "tool"   => in \in ToolRun(STRING, SchemaError)
  /\ subject = "chart"  => in \in [lint : Seq(HelmFinding), errors : Seq(HelmError)]
  /\ subject = "sync"   => in \in Seq(GetOf(Urls, STRING))
  /\ subject = "answer" => in \in Replies
  /\ subject = "hover"  => in \in Hovers
  /\ subject = "notes"  => in \in Seq(NoteOf(STRING, STRING))
  /\ subject = "host"   => in \in Hosts

\* It begins as it is meant to be.
LEMMA LibraryStarts == LibraryInit => LibraryInv
<1> SUFFICES ASSUME LibraryInit PROVE LibraryInv
  OBVIOUS
<1>1. CASE subject = "detect" /\ in = NewFallback(Callers)
  BY <1>1, NothingDetected DEF LibraryInv
<1>2. CASE subject = "tool" /\ in \in [ran : BOOLEAN, exit : {0, 1}, readable : BOOLEAN, report : {<<>>}]
  <2>1. <<>> \in Seq(Resource(STRING, SchemaError)) /\ {0, 1} \subseteq Int
    OBVIOUS
  <2>2. in \in ToolRun(STRING, SchemaError)
    BY <1>2, <2>1 DEF ToolRun
  <2> QED
    BY <1>2, <2>2 DEF LibraryInv
<1>3. CASE subject = "chart" /\ in = [lint |-> <<>>, errors |-> <<>>]
  BY <1>3 DEF LibraryInv
<1>4. CASE subject \in {"sync", "notes"} /\ in = <<>>
  BY <1>4 DEF LibraryInv
<1>5. CASE \/ subject = "file" /\ in \in Projects
           \/ subject = "place" /\ in \in Places
           \/ subject = "yaml" /\ in \in Pointers
           \/ subject = "answer" /\ in \in Replies
           \/ subject = "hover" /\ in \in Hovers
           \/ subject = "host" /\ in \in Hosts
  BY <1>5 DEF LibraryInv
<1>6. CASE subject \in {"spec", "document", "language"}
  BY <1>6 DEF LibraryInv
<1>7. CASE subject = "text" /\ in = <<>>
  <2>1. TextInv(in)
    <3>1. in \in Seq(STRING) /\ Len(in) = 0
      BY <1>7
    <3> QED
      BY <3>1 DEF TextInv, WellFormed
  <2> QED
    BY <1>7, <2>1 DEF LibraryInv
<1>8. CASE subject = "edits" /\ in \in [text : EditTexts, edits : {<<>>}]
  <2>1. in \in EditedTexts
    <3>1. \A t \in EditTexts : t \in WholeTexts
      BY EditsAssumption DEF WholeTexts
    <3>2. <<>> \in Seq(WholeEdits)
      OBVIOUS
    <3> QED
      BY <1>8, <3>1, <3>2 DEF EditedTexts
  <2> QED
    BY <1>8, <2>1 DEF LibraryInv
<1> QED
  BY <1>1, <1>2, <1>3, <1>4, <1>5, <1>6, <1>7, <1>8 DEF LibraryInit

\* A step gives one subject one thing more.
LEMMA LibraryKeeps == LibraryInv /\ [LibraryNext]_<<subject, in>> => LibraryInv'
<1> SUFFICES ASSUME LibraryInv, [LibraryNext]_<<subject, in>> PROVE LibraryInv'
  OBVIOUS
<1>1. CASE Look \/ Store
  <2>1. subject = "detect" /\ subject' = "detect" /\ DetectionInv(in)
    BY <1>1 DEF Look, Store, Picked, LibraryInv
  <2>2. DetectionStep(in, in')
    BY <1>1 DEF Look, Store, DetectionStep
  <2>3. DetectionInv(in')
    BY <2>1, <2>2, DetectionKeeps
  <2>4. \A x \in {"text", "edits", "file", "place", "yaml", "tool", "chart", "sync", "answer", "hover", "notes", "host"} : subject' # x
    BY <2>1
  <2> QED
    BY <2>1, <2>3, <2>4 DEF LibraryInv
<1>2. CASE AddReport
  <2>1. subject = "tool" /\ subject' = "tool" /\ in \in ToolRun(STRING, SchemaError)
    BY <1>2 DEF AddReport, Picked, LibraryInv
  <2>2. PICK r \in Resources : in' = [in EXCEPT !.report = Append(@, r)]
    BY <1>2 DEF AddReport
  <2>3. r \in Resource(STRING, SchemaError)
    BY FindingsAssumption
  <2>4. in' \in ToolRun(STRING, SchemaError)
    <3> DEFINE R == Resource(STRING, SchemaError)
    <3>1. ToolRun(STRING, SchemaError) = [ran : BOOLEAN, exit : Int, readable : BOOLEAN, report : Seq(R)]
      BY DEF ToolRun
    <3>2. in \in [ran : BOOLEAN, exit : Int, readable : BOOLEAN, report : Seq(R)]
      BY <2>1, <3>1, Zenon
    <3>3. r \in R
      BY <2>3
    <3> HIDE DEF R
    <3>4. Append(in.report, r) \in Seq(R)
      BY <3>2, <3>3
    <3>5. in' \in [ran : BOOLEAN, exit : Int, readable : BOOLEAN, report : Seq(R)]
      BY <2>2, <3>2, <3>4
    <3> QED
      BY <3>1, <3>5, Zenon
  <2> QED
    BY <2>1, <2>4 DEF LibraryInv
<1>3. CASE AddFound \/ AddBroken
  <2>1. subject = "chart" /\ subject' = "chart" /\ in \in [lint : Seq(HelmFinding), errors : Seq(HelmError)]
    BY <1>3 DEF AddFound, AddBroken, Picked, LibraryInv
  <2>2. in.lint \in Seq(HelmFinding) /\ in.errors \in Seq(HelmError)
    BY <2>1
  <2>3. CASE \E f \in LintFindings : in' = [in EXCEPT !.lint = Append(@, f)]
    <3>1. PICK f \in HelmFinding : in' = [in EXCEPT !.lint = Append(@, f)]
      BY <2>3, FindingsAssumption
    <3>2. Append(in.lint, f) \in Seq(HelmFinding)
      BY <2>2
    <3>3. in' \in [lint : Seq(HelmFinding), errors : Seq(HelmError)]
      BY <2>1, <3>1, <3>2
    <3> QED
      BY <2>1, <3>3 DEF LibraryInv
  <2>4. CASE \E f \in RenderErrors : in' = [in EXCEPT !.errors = Append(@, f)]
    <3>1. PICK f \in HelmError : in' = [in EXCEPT !.errors = Append(@, f)]
      BY <2>4, FindingsAssumption
    <3>2. Append(in.errors, f) \in Seq(HelmError)
      BY <2>2
    <3>3. in' \in [lint : Seq(HelmFinding), errors : Seq(HelmError)]
      BY <2>1, <3>1, <3>2
    <3> QED
      BY <2>1, <3>3 DEF LibraryInv
  <2> QED
    BY <1>3, <2>3, <2>4 DEF AddFound, AddBroken
<1>4. CASE AddGet
  <2>1. subject = "sync" /\ subject' = "sync" /\ in \in Seq(GetOf(Urls, STRING))
    BY <1>4 DEF AddGet, Picked, LibraryInv
  <2>2. in' \in Seq(GetOf(Urls, STRING))
    BY <1>4, <2>1, SchemasAssumption DEF AddGet
  <2> QED
    BY <2>1, <2>2 DEF LibraryInv
<1>5. CASE AddNote
  <2>1. subject = "notes" /\ subject' = "notes" /\ in \in Seq(NoteOf(STRING, STRING))
    BY <1>5 DEF AddNote, Picked, LibraryInv
  <2>2. in' \in Seq(NoteOf(STRING, STRING))
    BY <1>5, <2>1, AnswersAssumption DEF AddNote
  <2> QED
    BY <2>1, <2>2 DEF LibraryInv
<1>6. CASE UNCHANGED <<subject, in>>
  BY <1>6 DEF LibraryInv
<1>7. CASE GrowText
  <2>1. subject = "text" /\ subject' = "text" /\ TextInv(in)
    BY <1>7 DEF GrowText, Picked, LibraryInv
  <2>2. PICK r \in Runes : in' = in \o r
    BY <1>7 DEF GrowText
  <2>3. r \in Seq(STRING) /\ WellFormed(r)
    BY EditsAssumption
  <2>4. TextInv(in')
    BY <2>1, <2>2, <2>3, JoinedWhole DEF TextInv
  <2> QED
    BY <2>1, <2>4 DEF LibraryInv
<1>8. CASE AddEdit
  <2>1. subject = "edits" /\ subject' = "edits" /\ in \in EditedTexts
    BY <1>8 DEF AddEdit, Picked, LibraryInv
  <2>2. PICK e \in Edits : in' = [in EXCEPT !.edits = Append(@, e)]
    BY <1>8 DEF AddEdit
  <2>3. e \in WholeEdits
    BY EditsAssumption DEF WholeEdits
  <2>4. in' \in EditedTexts
    <3> DEFINE E == WholeEdits
               T == WholeTexts
    <3>1. in \in [text : T, edits : Seq(E)] /\ e \in E
      BY <2>1, <2>3 DEF EditedTexts
    <3> HIDE DEF E, T
    <3>2. Append(in.edits, e) \in Seq(E)
      BY <3>1
    <3>3. in' \in [text : T, edits : Seq(E)]
      BY <2>2, <3>1, <3>2
    <3> QED
      BY <3>3 DEF EditedTexts, E, T
  <2> QED
    BY <2>1, <2>4 DEF LibraryInv
<1> QED
  BY <1>1, <1>2, <1>3, <1>4, <1>5, <1>6, <1>7, <1>8 DEF LibraryNext

\* Whatever the text, the positions and the edits: the server, the write path and the client
\* that reports what it wrote mean the same places and end with the same text.
THEOREM EditsKeepTheirMeaning == LibrarySpec => []EditsMeanTheSame
<1>1. LibraryInv => EditsMeanTheSame
  <2> SUFFICES ASSUME LibraryInv PROVE EditsMeanTheSame
    OBVIOUS
  <2>1. ASSUME subject = "text" PROVE PositionsAgree(in, Positions)
    <3>1. in \in Seq(STRING) /\ WellFormed(in)
      BY <2>1 DEF LibraryInv, TextInv
    <3>2. Positions \in SUBSET [line : Int, char : Int]
      BY EditsAssumption
    <3> QED
      BY <3>1, <3>2, PositionsMeanTheSame
  <2>2. ASSUME subject = "edits" PROVE EditsAgree(in.text, in.edits)
    <3> DEFINE text  == in.text
               edits == in.edits
    <3>1. text \in WholeTexts /\ edits \in Seq(WholeEdits)
      BY <2>2 DEF LibraryInv, EditedTexts
    <3> HIDE DEF text, edits
    <3>2. text \in Seq(STRING) /\ WellFormed(text)
      BY <3>1 DEF WholeTexts
    <3>3. \A i \in 1 .. Len(edits) : edits[i] \in WholeEdits
      BY <3>1
    <3>4. Len(edits) \in Nat /\ edits = [i \in 1 .. Len(edits) |-> edits[i]]
      BY <3>1
    <3>5. \A i \in 1 .. Len(edits) : edits[i] \in TextEdit(STRING) /\ WellFormed(edits[i].new)
      BY <3>3 DEF WholeEdits
    <3>6. edits \in Seq(TextEdit(STRING))
      <4> DEFINE E == TextEdit(STRING)
      <4>1. \A i \in 1 .. Len(edits) : edits[i] \in E
        BY <3>5
      <4> HIDE DEF E
      <4>2. edits \in Seq(E)
        BY <3>4, <4>1
      <4> QED
        BY <4>2 DEF E
    <3>7. EditsAgree(text, edits)
      BY <3>2, <3>5, <3>6, EditsMakeOneText
    <3> QED
      BY <3>7 DEF text, edits
  <2> QED
    BY <2>1, <2>2 DEF EditsMeanTheSame
<1> QED
  BY <1>1, LibraryStarts, LibraryKeeps, PTL DEF LibrarySpec

\* Whatever the projects, the languages and the answers of gts-lsp: a file has one session.
THEOREM FilesHaveOneSession == LibrarySpec => []OneSessionPerFile
<1>1. LibraryInv => OneSessionPerFile
  <2> SUFFICES ASSUME LibraryInv PROVE OneSessionPerFile
    OBVIOUS
  <2>1. ASSUME subject = "file", NEW d \in Detected, NEW l \in Asked PROVE ResolutionSound(in.tree, in.file, d, l)
    <3> DEFINE tree == in.tree
               file == in.file
    <3>1. tree \in Seq(SUBSET STRING) /\ file \in [dir : 1 .. Len(tree), ext : STRING] /\ d \in STRING /\ l \in STRING
      BY <2>1, ProjectsAssumption DEF LibraryInv
    <3> HIDE DEF tree, file
    <3>2. ResolutionSound(tree, file, d, l)
      BY <3>1, ResolutionIsSound
    <3> QED
      BY <3>2 DEF tree, file
  <2>2. SpecSound(in.lang, in.installed, in.first, in.second)
    BY ServerIsSound
  <2>3. subject = "detect" => DetectSteady(in)
    BY SteadyNow DEF LibraryInv
  <2> QED
    BY <2>1, <2>2, <2>3 DEF OneSessionPerFile
<1> QED
  BY <1>1, LibraryStarts, LibraryKeeps, PTL DEF LibrarySpec

\* Whatever the tools report, of whatever documents: it is put where its cause is as far as the report
\* tells, once, and yamllint, taplo, hadolint, check-jsonschema and kubeconform let nothing look valid
\* that they did not validate.
THEOREM FindingsStayInPlace == LibrarySpec => []FindingsInPlace
<1>1. LibraryInv => FindingsInPlace
  <2> SUFFICES ASSUME LibraryInv PROVE FindingsInPlace
    OBVIOUS
  <2>1. OneLinter(in) /\ NameBeforeClient(in.hook, in.name, in.shebang, in.id, Registered)
    BY OneLinterTakes, LanguageIsFound
  <2>2. ASSUME subject = "place" PROVE PlacesInDocument(in.lines, in.line, in.col)
    <3> DEFINE lines == in.lines
               line  == in.line
               col   == in.col
    <3>1. lines \in Seq(Seq(Nat)) /\ lines # <<>> /\ line \in Int /\ col \in Int
      BY <2>2, FindingsAssumption DEF LibraryInv
    <3> HIDE DEF lines, line, col
    <3>2. PlacesInDocument(lines, line, col)
      BY <3>1, DiagnosticsInDocument
    <3> QED
      BY <3>2 DEF lines, line, col
  <2> DEFINE n == Len(Manifests)
  <2>3. /\ n \in Nat /\ DOMAIN Manifests = 1 .. n /\ \A i \in 1 .. n : IsYaml(Manifests[i].yaml)
    BY FindingsAssumption DEF IsSeq
  <2>4. ASSUME subject = "yaml" PROVE LocatesPrefix(Manifests[1].yaml, in.segs, in.extra)
    <3> DEFINE yaml  == Manifests[1].yaml
               segs  == in.segs
               extra == in.extra
    <3>1. IsYaml(yaml)
      BY FindingsAssumption, <2>3
    <3>2. segs \in Seq(STRING)
      BY <2>4, FindingsAssumption DEF LibraryInv
    <3> HIDE DEF yaml, segs, extra
    <3>3. LocatesPrefix(yaml, segs, extra)
      BY <3>1, <3>2, PrefixIsLocated
    <3> QED
      BY <3>3 DEF yaml, segs, extra
  <2>5. ASSUME subject = "tool"
        PROVE  /\ CleanMeansValid(Manifests, in)
               /\ \A r \in ToSet(in.report), i \in 1 .. Len(Manifests) + 1 : FindingsAtHome(Manifests, r, i)
               /\ RenderedAtHome(ChartThatLints(in), Here, Template)
    <3>1. in \in ToolRun(STRING, SchemaError)
      BY <2>5 DEF LibraryInv
    <3>2. CleanMeansValid(Manifests, in)
      BY <3>1, CleanWasValidated
    <3> DEFINE rs    == in.report
               chart == ChartThatLints(in)
    <3>3. rs \in Seq(Resource(STRING, SchemaError))
      BY <3>1 DEF ToolRun
    <3>4. Len(Chunks) \in Nat /\ DOMAIN Chunks = 1 .. Len(Chunks)
      BY FindingsAssumption DEF IsSeq
    <3>5. chart.resources = rs /\ chart.chunks = Chunks
      BY DEF ChartThatLints
    <3> HIDE DEF rs, chart
    <3>6. \A r \in ToSet(rs) : r \in Resource(STRING, SchemaError)
      BY <3>3 DEF ToSet
    <3>7. \A r \in ToSet(rs) : \A i : FindingsAtHome(Manifests, r, i)
      <4> SUFFICES ASSUME NEW r \in ToSet(rs), NEW i PROVE FindingsAtHome(Manifests, r, i)
        OBVIOUS
      <4>1. r \in Resource(STRING, [segs : Seq(STRING), extra : STRING])
        BY <3>6 DEF SchemaError
      <4> QED
        BY <2>3, <4>1, FindingsInOwnDocument
    <3>8. RenderedAtHome(chart, Here, Template)
      BY <3>3, <3>4, <3>5, RenderedIsAtHome
    <3> QED
      BY <3>2, <3>7, <3>8 DEF rs, chart
  <2>6. ASSUME subject = "chart"
        PROVE  HelmMerged(ChartWithFindings(in), Here, Template)
    <3> DEFINE chart == ChartWithFindings(in)
    <3>1. chart.lint \in Seq(HelmFinding) /\ chart.errors \in Seq(HelmError)
      BY <2>6 DEF LibraryInv, ChartWithFindings
    <3>2. DOMAIN Template \in SUBSET (Nat \ {0})
      BY FindingsAssumption DEF IsSeq
    <3> HIDE DEF chart
    <3>3. HelmMerged(chart, Here, Template)
      BY <3>1, <3>2, HelmMergesErrors
    <3> QED
      BY <3>3 DEF chart
  <2>7. ASSUME subject = "sync" PROVE SyncKeepsGood(Cached, in)
    <3>1. in \in Seq(GetOf(Urls, STRING))
      BY <2>7 DEF LibraryInv
    <3>2. Cached \in CacheOf(Urls, STRING)
      BY SchemasAssumption DEF CacheOf
    <3> QED
      BY <3>1, <3>2, SyncKeepsSchemas
  <2> QED
    BY <2>1, <2>2, <2>4, <2>5, <2>6, <2>7 DEF FindingsInPlace
<1> QED
  BY <1>1, LibraryStarts, LibraryKeeps, PTL DEF LibrarySpec

\* Whatever servers answer and whatever the hosts are: the answers are read completely, and the
\* doctor's verdict is that of the broker's consumers.
THEOREM AnswersAreRead == LibrarySpec => []AnswersAndVerdicts
<1>1. LibraryInv => AnswersAndVerdicts
  <2> SUFFICES ASSUME LibraryInv PROVE AnswersAndVerdicts
    OBVIOUS
  <2>1. ASSUME subject = "answer" PROVE ReadsLikeClient(in) /\ SymbolsArrive(in) /\ LocationsAgree(in)
    <3>1. in \in [k : Kinds, elems : Seq(Symbol)]
      BY <2>1, AnswersAssumption DEF LibraryInv
    <3> QED
      BY <3>1, DoctorReads, AnswersArrive
  <2>2. ASSUME subject = "hover" PROVE HoverKeepsText(in)
    <3>1. in.elems \in Seq(HoverPart(STRING))
      BY <2>2, AnswersAssumption DEF LibraryInv
    <3> QED
      BY <3>1, HoverIsComplete
  <2>3. ASSUME subject = "notes", NEW u \in Uris PROVE WaitIsNewest(in, u)
    <3>1. in \in Seq(NoteOf(STRING, STRING))
      BY <2>3 DEF LibraryInv
    <3> QED
      BY <3>1, WaitEndsWithNewest
  <2>4. ASSUME subject = "host", NEW x \in Environments
        PROVE  /\ \A y \in Environments : EnvironmentBlind(in, x, y)
               /\ \A p \in BOOLEAN : SuccessIsReal(in, x, p)
    <3>1. /\ in.polls \in Seq([k : Kinds \cup {"error"}, elems : Seq(Symbol)])
          /\ \A i \in DOMAIN in.polls : findSelectionRange(in.polls[i], "greet") \in DOMAIN in.references \cup {NoRange}
      BY <2>4, AnswersAssumption DEF LibraryInv
    <3>2. \A y \in Environments : EnvironmentBlind(in, x, y)
      BY DoctorIsBlind
    <3>3. \A p \in BOOLEAN : SuccessIsReal(in, x, p)
      BY <3>1, SuccessMeansServed
    <3> QED
      BY <3>2, <3>3
  <2> QED
    BY <2>1, <2>2, <2>3, <2>4 DEF AnswersAndVerdicts
<1> QED
  BY <1>1, LibraryStarts, LibraryKeeps, PTL DEF LibrarySpec
=============================================================================
