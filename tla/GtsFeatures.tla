---------------------------- MODULE GtsFeatures -----------------------------
(***************************************************************************)
(* What gts-lsp answers from a parsed document (gtslsp/gts: features.go,   *)
(* tokens.go) and how a grammar's engines are built on first use           *)
(* (lang.go).  The parser, the queries and the trees are external.         *)
(*                                                                         *)
(* A text is one of TextEdits, with "}" for a byte of a closing delimiter. *)
(* A tree is the sequence of its nodes in source order, parents first, the *)
(* root at 1; a node is [up, start, end, named, flag], up its parent and   *)
(* flag "error" or "missing" for what the parser could not parse.          *)
(***************************************************************************)
EXTENDS TextEdits

InOrder(S) == SetToSortSeq(S, <)

Ancestors(tree) ==
  LET above[n \in DOMAIN tree] == IF tree[n].up = 0 THEN {} ELSE {tree[n].up} \cup above[tree[n].up]
  IN above

HasErrorOrMissing(tree, n) ==
  \E m \in DOMAIN tree : tree[m].flag # "" /\ (m = n \/ n \in Ancestors(tree)[m])

RangeOf(text, node) == <<PositionAt(text, node.start), PositionAt(text, node.end)>>

\* The walk descends where something is wrong, but not below what it reports.
Descends(tree, n) == tree[n].flag = "" /\ HasErrorOrMissing(tree, n)

\* A parse is [tree, stopped, failed]: it failed if there was an error, which leaves no tree,
\* and a parser that reaches its time limit stops with the tree it has.  An incremental
\* result is kept only if it is complete and clean; else the text is parsed from scratch.
reparse(incremental, scratch) ==
  LET trusted(p) == ~p.failed /\ ~p.stopped /\ p.tree # <<>> /\ ~HasErrorOrMissing(p.tree, 1)
      result     == IF trusted(incremental) THEN incremental ELSE scratch
  IN IF result.failed THEN [result EXCEPT !.tree = <<>>] ELSE result

\* What is reported of a parse: 0 stands for the warning that it failed or was stopped,
\* any other number for a node, at most `max` of them.  Pushing children in reverse
\* visits them in source order.
syntaxDiagnostics(parse, max) ==
  LET tree    == parse.tree
      visited == {n \in DOMAIN tree : \A a \in Ancestors(tree)[n] : Descends(tree, a)}
      found   == InOrder({n \in visited : tree[n].flag # ""})
  IN CASE parse.failed -> <<0>>
       [] ~parse.failed /\ tree = <<>> -> <<>>
       [] OTHER -> (IF parse.stopped THEN <<0>> ELSE <<>>) \o SubSeq(found, 1, Min({max, Len(found)}))

-----------------------------------------------------------------------------
(* foldingRange, selectionRange.                                           *)

onlyClosers(bytes) == bytes # <<>> /\ \A i \in DOMAIN bytes : bytes[i] = "}"

\* The lines a node folds: a last line of closers only stays visible.
FoldOf(text, node) ==
  LET first  == PointAt(text, node.start)
      last   == PointAt(text, node.end)
      closer == onlyClosers(SubSeq(text, node.end - last[2] + 1, node.end))
  IN [start |-> first[1], end |-> IF last[1] > first[1] /\ closer THEN last[1] - 1 ELSE last[1]]

Foldable(tree, n) == n # 1 /\ tree[n].named /\ tree[n].flag # "missing"

\* One fold per first line; the walk meets the outermost node first.
foldingRanges(text, tree) ==
  LET step(folds, n) ==
        LET f == FoldOf(text, tree[n])
        IN IF f.end > f.start /\ \A g \in folds : g.start # f.start THEN folds \cup {f} ELSE folds
  IN FoldLeft(step, {}, InOrder({n \in DOMAIN tree : Foldable(tree, n)}))

\* The smallest node around an offset (external), the last of those that meet there.
Innermost(tree, off) == Max({n \in DOMAIN tree : tree[n].start <= off /\ off <= tree[n].end} \cup {1})

\* From the innermost node outwards, without the nodes that do not grow the range.
selectionRange(text, tree, pos) ==
  LET n    == Innermost(tree, OffsetAt(text, pos))
      path == Reverse(InOrder({n} \cup Ancestors(tree)[n]))
      grow(chain, m) == IF chain # <<>> /\ Last(chain) = RangeOf(text, tree[m]) THEN chain
                        ELSE Append(chain, RangeOf(text, tree[m]))
  IN FoldLeft(grow, <<>>, path)

-----------------------------------------------------------------------------
(* semanticTokens.  A token is [start, end, type], its offsets on runes.   *)

\* The parts of start .. end on each line, without line breaks.
Segments(text, start, end) ==
  LET breaks  == {i \in start + 1 .. end : text[i] = "n"}
      stop(s) == Min({end} \cup {b - 1 : b \in {c \in breaks : c > s}})
      cut(s)  == IF stop(s) > s /\ text[stop(s)] = "r" THEN stop(s) - 1 ELSE stop(s)
      from    == InOrder({s \in {start} \cup breaks : s < cut(s)})
  IN [i \in DOMAIN from |-> <<from[i], cut(from[i])>>]

\* Variant: the column is always counted from the start of the line.
EmitAbsolute(out, pos, length, type) ==
  [out EXCEPT !.data = Append(@, <<pos.line - out.line, pos.char, length, type>>), !.line = pos.line, !.char = pos.char]

\* Relative to the token before.
Emit(out, pos, length, type) ==
  [out EXCEPT !.data = Append(@, <<pos.line - out.line,
                                   IF pos.line = out.line THEN pos.char - out.char ELSE pos.char, length, type>>),
              !.line = pos.line, !.char = pos.char]

ByStart(toks) ==
  LET order == SetToSortSeq(DOMAIN toks, LAMBDA i, j : toks[i].start < toks[j].start \/
                                                      (toks[i].start = toks[j].start /\ i < j))
  IN [i \in DOMAIN order |-> toks[order[i]]]

encodeTokens(text, toks) ==
  LET encode(out, t) ==
        LET s == Max({t.start, out.cursor})
            e == Min({t.end, Len(text)})
            emit(o, seg) == Emit(o, PositionAt(text, seg[1]), Units(text, seg[1], seg[2]), t.type)
        IN IF s >= e THEN out ELSE FoldLeft(emit, [out EXCEPT !.cursor = e], Segments(text, s, e))
  IN FoldLeft(encode, [data |-> <<>>, line |-> 0, char |-> 0, cursor |-> 0], ByStart(toks)).data

DecodeTokens(data) ==
  LET decode(all, d) ==
        LET last == IF all = <<>> THEN [line |-> 0, char |-> 0] ELSE Last(all)
        IN Append(all, [line |-> last.line + d[1], char |-> IF d[1] = 0 THEN last.char + d[2] ELSE d[2],
                        length |-> d[3], type |-> d[4]])
  IN FoldLeft(decode, <<>>, data)

TokenTypes == {"namespace", "type", "class", "enum", "interface", "struct", "typeParameter", "parameter",
               "variable", "property", "enumMember", "event", "function", "method", "macro", "keyword",
               "modifier", "comment", "string", "number", "regexp", "operator", "decorator"}

Keywordish == {"keyword", "conditional", "repeat", "include", "exception", "storageclass", "preproc",
               "define", "return", "boolean", "debug", "import", "storage", "label"}

\* The token type of a capture head.part.part, "none" for a capture without one.
captureType(head, parts) ==
  LET has(names) == (parts \cup {head}) \cap names # {}
  IN CASE head \in Keywordish -> IF head = "keyword" /\ has({"operator"}) THEN "operator" ELSE "keyword"
       [] head \in {"string", "character", "text", "markup"} ->
            IF has({"regex", "regexp"}) THEN "regexp"
            ELSE IF (head = "markup" /\ has({"heading", "title"})) \/ (head = "text" /\ has({"title"})) THEN "type"
            ELSE IF \/ head = "markup" /\ has({"italic", "strong", "underline", "strikethrough", "quote", "list", "math"})
                    \/ head = "text" /\ has({"emphasis", "strong", "underline", "danger", "warning"}) THEN "none"
            ELSE "string"
       [] head \in {"comment", "operator", "parameter"} -> head
       [] head \in {"number", "float"} -> "number"
       [] head \in {"function", "method", "constructor"} ->
            IF has({"macro"}) THEN "macro" ELSE IF has({"method", "member"}) THEN "method"
            ELSE IF head = "constructor" THEN "class" ELSE "function"
       [] head = "type" ->
            IF has({"parameter"}) THEN "typeParameter" ELSE IF has({"enum"}) /\ has({"variant"}) THEN "enumMember"
            ELSE IF has({"enum"}) THEN "enum" ELSE "type"
       [] head = "variable" ->
            IF has({"parameter"}) THEN "parameter" ELSE IF has({"member"}) THEN "property" ELSE "variable"
       [] head \in {"property", "field"} -> "property"
       [] head \in {"attribute", "annotation", "decorator"} -> "decorator"
       [] head = "constant" ->
            IF has({"macro"}) THEN "macro" ELSE IF has({"character", "string"}) THEN "string"
            ELSE IF has({"numeric", "float", "integer"}) THEN "number"
            ELSE IF has({"boolean", "null", "language"}) THEN "keyword" ELSE "variable"
       [] head \in {"module", "namespace"} -> "namespace"
       [] head = "tag" ->
            IF has({"attribute"}) THEN "property" ELSE IF has({"delimiter", "error"}) THEN "none" ELSE "type"
       [] head = "symbol" -> "enumMember"
       [] head = "escape" -> "string"
       [] head = "identifier" -> "variable"
       [] OTHER -> "none"

-----------------------------------------------------------------------------
(* Names: the word under the cursor, definitions and references by name,   *)
(* completion.  A label is a sequence of letters, a tag [name, def].       *)

isWord(byte) == byte \in {"a", "2", "~"}

\* The offsets the word around an offset runs between.
wordAt(text, off) ==
  LET inWord(from, to) == \A i \in from + 1 .. to : isWord(text[i])
  IN <<Min({s \in 0 .. off : inWord(s, off)}), Max({e \in off .. Len(text) : inWord(off, e)})>>

\* The tags of one name in every open document, as <<document, tag>>; keep says whether
\* those that define it (TRUE) and those that do not (FALSE) are wanted.
findTags(docs, name, keep) ==
  UNION {{<<d, i>> : i \in {j \in DOMAIN docs[d] : docs[d][j].name = name /\ docs[d][j].def \in keep}} : d \in DOMAIN docs}

definition(docs, word) == IF word = <<>> THEN {} ELSE findTags(docs, word, {TRUE})

references(docs, word, includeDecl) ==
  IF word = <<>> THEN {} ELSE findTags(docs, word, {FALSE, includeDecl})

\* Definitions, then identifiers elsewhere in the file, then keywords; each label once.
completion(tags, leaves, keywords, prefix, max) ==
  LET add(items, label) ==
        IF label \in ToSet(items) \/ Len(items) >= max \/ ~IsStrictPrefix(prefix, label) THEN items
        ELSE Append(items, label)
      definitions == SelectSeq(tags, LAMBDA t : t.def)
  IN FoldLeft(add, <<>>, [i \in DOMAIN definitions |-> definitions[i].name] \o leaves \o keywords)

-----------------------------------------------------------------------------
(* A grammar and its engines, each built once, at its first use; `made` is *)
(* what the library makes of this grammar: load "ok", "error" (there is no *)
(* language) or "panic", outliner "ok", "error" or "empty" (no patterns),  *)
(* and query, tagger and highlighter, each TRUE if it can be built.        *)

\* The grammar is read at its first use, whatever comes of it.
load(lang) == [lang EXCEPT !.loaded = TRUE]

\* What that call returns.  The error of a panic is set while the first call unwinds,
\* which itself returns none: only the later ones do.
LoadFails(lang, made) == made.load = "error" \/ (made.load = "panic" /\ lang.loaded)

Unused == [loaded |-> FALSE, hlDone |-> FALSE, hl |-> FALSE,
           tagsDone |-> FALSE, tagger |-> FALSE, outliner |-> FALSE, kwDone |-> FALSE, keywords |-> FALSE]

\* Without a language nothing can be built, also by the caller whose load panicked:
\* the constructors' panics are recovered.
Loaded(made) == made.load = "ok"

highlighter(lang, made) ==
  IF lang.hlDone THEN lang
  ELSE [load(lang) EXCEPT !.hlDone = TRUE, !.hl = Loaded(made) /\ made.highlighter]

\* The tagger is kept only together with the outliner; an outliner without patterns is dropped.
tagEngines(lang, made) ==
  IF lang.tagsDone THEN lang
  ELSE LET built == Loaded(made) /\ made.query /\ made.tagger /\ made.outliner # "error"
       IN [load(lang) EXCEPT !.tagsDone = TRUE, !.tagger = built,
                       !.outliner = built /\ made.outliner = "ok"]

\* What the call returns: the first one hands out a tagger that is not kept.
TagAnswer(lang, made) ==
  IF lang.tagsDone THEN <<lang.tagger, lang.outliner>>
  ELSE <<Loaded(made) /\ made.query /\ made.tagger, tagEngines(lang, made).outliner>>

\* A panic of the first load is not recovered here: the call ends in one.
Keywords(lang, made) ==
  IF lang.kwDone THEN lang ELSE [load(lang) EXCEPT !.kwDone = TRUE, !.keywords = Loaded(made)]

\* Features: <<loaded, symbols, tokens, xref, completion>>.  Its own load is the one
\* that may return no error after a panic; those of the engines follow it.
FeatureAnswer(lang, made) ==
  LET all == Keywords(highlighter(tagEngines(lang, made), made), made)
      tags == TagAnswer(lang, made)
  IN IF LoadFails(lang, made) THEN <<FALSE, FALSE, FALSE, FALSE, FALSE>>
     ELSE <<TRUE, tags[2], all.hl, tags[1], all.keywords \/ tags[1]>>

AfterFeatures(lang, made) ==
  IF LoadFails(lang, made) THEN load(lang)
  ELSE Keywords(highlighter(tagEngines(lang, made), made), made)

-----------------------------------------------------------------------------
(* What is checked.                                                        *)

\* No report lies inside another, they come in source order, and unless there are too
\* many of them everything the parser could not parse is at or below one.
ErrorsReportedOnce(tree, max) ==
  LET found == syntaxDiagnostics([tree |-> tree, stopped |-> FALSE, failed |-> FALSE], max)
      below(m, n) == m = n \/ n \in Ancestors(tree)[m]
  IN /\ \A i \in DOMAIN found, j \in DOMAIN found : i < j => found[i] < found[j] /\ ~below(found[j], found[i])
     /\ Len(found) < max => \A n \in DOMAIN tree : tree[n].flag # "" => \E i \in DOMAIN found : below(n, found[i])

\* A text that is reported as clean was parsed to its end without an error, unless the
\* parser returned nothing at all; and what the parser kept of an earlier tree is never
\* what is complained about.
CleanIsParsed(incremental, scratch, max) ==
  LET result == reparse(incremental, scratch)
      out    == syntaxDiagnostics(result, max)
  IN /\ out = <<>> => ~result.failed /\ (result.stopped => result.tree = <<>>) /\ \A n \in DOMAIN result.tree : result.tree[n].flag = ""
     /\ out # <<>> => out = syntaxDiagnostics(reparse(scratch, scratch), max)

Outermost(folds, f) == \E g \in folds : g.start = f.start /\ g.end >= f.end

Laminar(folds) ==
  \A f \in folds, g \in folds : f # g => f.start # g.start /\ (f.start < g.start => f.end <= g.start \/ g.end <= f.end)

\* A line folds at most once, and then around everything that folds from it and ends
\* within a line (what ends with its line break folds the next line too); two folds are
\* nested or share no more than a line.
FoldsNest(text, tree) ==
  LET folds   == foldingRanges(text, tree)
      inLine  == {n \in DOMAIN tree : Foldable(tree, n) /\ PointAt(text, tree[n].end)[2] # 0}
      within  == {f \in {FoldOf(text, tree[n]) : n \in inLine} : f.end > f.start}
  IN Laminar(folds) /\ \A f \in within : Outermost(folds, f)

Grows(chain) ==
  LET le(p, q) == p.line < q.line \/ (p.line = q.line /\ p.char <= q.char)
  IN \A i \in 1 .. Len(chain) - 1 : chain[i] # chain[i + 1] /\ le(chain[i + 1][1], chain[i][1]) /\ le(chain[i][2], chain[i + 1][2])

\* Each selection strictly contains the one before, up to the whole tree.
SelectionsGrow(text, tree, pos) ==
  LET chain == selectionRange(text, tree, pos) IN Last(chain) = RangeOf(text, tree[1]) /\ Grows(chain)

DecodedExactly(text, toks, out) ==
  LET around(o) == {i \in DOMAIN toks : toks[i].start <= o /\ o < toks[i].end}
      owner(o)  == CHOOSE i \in around(o) : \A j \in around(o) :
                     toks[i].start < toks[j].start \/ (toks[i].start = toks[j].start /\ i <= j)
      at(o)     == {i \in DOMAIN out : LET p == PositionAt(text, o) IN
                      out[i].line = p.line /\ out[i].char <= p.char /\ p.char < out[i].char + out[i].length}
  IN /\ \A i \in 2 .. Len(out) : \/ out[i - 1].line < out[i].line
                                 \/ out[i - 1].line = out[i].line /\ out[i - 1].char + out[i - 1].length <= out[i].char
     /\ \A o \in 0 .. Len(text) - 1 : text[o + 1] \notin {"~", "r", "n"} =>
          IF around(o) = {} THEN at(o) = {} ELSE {out[i].type : i \in at(o)} = {toks[owner(o)].type}

\* Decoding gives the tokens back: each rune has the type of the token that starts
\* first among those around it, or none; no token crosses a line or another token.
TokensExact(text, toks) == DecodedExactly(text, toks, DecodeTokens(encodeTokens(text, toks)))

\* A name that is not in the legend would be sent as type 0.
InLegend(head, parts) == captureType(head, parts) \in TokenTypes \cup {"none"}

\* The word does not depend on where in it the cursor is; and with declarations, the
\* references of a name include its definitions.
NamesAgree(text, docs, name) ==
  /\ \A o \in 0 .. Len(text) : LET w == wordAt(text, o) IN \A p \in w[1] .. w[2] : wordAt(text, p) = w
  /\ references(docs, name, TRUE) = references(docs, name, FALSE) \cup definition(docs, name)

\* Labels are offered once, only to finish what is typed, and definitions before the rest.
CompletionSound(tags, leaves, keywords, prefix, max) ==
  LET items == completion(tags, leaves, keywords, prefix, max)
      defs  == {tags[i].name : i \in {j \in DOMAIN tags : tags[j].def}}
      fits  == {l \in defs \cup ToSet(leaves) \cup ToSet(keywords) : IsStrictPrefix(prefix, l)}
  IN /\ IsInjective(items) /\ ToSet(items) \subseteq fits
     /\ Len(items) = Min({max, Cardinality(fits)})
     /\ \A i \in DOMAIN items, j \in DOMAIN items : items[j] \in defs /\ items[i] \notin defs => j < i

\* The engines answer the same at every use, whichever came first.  An outliner that
\* cannot be built is the exception: the first use still gets the tagger.  What is said
\* of the features depends besides on whether the grammar was read before, and on that
\* only if reading it panics: then the first answer is that of a grammar that loaded.
EnginesSteady(lang, made) ==
  LET first == IF lang.loaded /\ made.load = "panic" THEN load(Unused) ELSE Unused
  IN made.outliner # "error" =>
       /\ TagAnswer(lang, made) = TagAnswer(Unused, made)
       /\ FeatureAnswer(lang, made) = FeatureAnswer(first, made)
=============================================================================
