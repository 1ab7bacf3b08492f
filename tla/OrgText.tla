------------------------------ MODULE OrgText -------------------------------
(***************************************************************************)
(* What org-lsp computes from a document (org-lsp/pkg/orglsp): the scan of *)
(* its lines, the alignment of the parser's lists against that scan, the   *)
(* outline, the folds, the lint, and the workspace index with its cache.   *)
(*                                                                         *)
(* A document is a sequence of lines, each a record [kind, level, text,    *)
(* flag].  A text is a set of words: it contains another, or begins with   *)
(* it, if it has its words.  Kinds: "heading" (its title, flag "crypt" for *)
(* a :crypt: tag), "begin" (the parameters, flag the name of the block)    *)
(* and "end" (flag the name), "drawer" and ":END:", "link" (a target that  *)
(* level links name, flag "broken" if it does not exist) and "plain".  Any *)
(* line may have words of a target or a title.                             *)
(*                                                                         *)
(* The parser (orgast) is external: Headings, SrcBlocks and Links are its  *)
(* lists, in document order, without what lies in a :crypt: subtree and    *)
(* without positions.                                                      *)
(***************************************************************************)
EXTENDS Integers, SequencesExt

Lines(doc, kind) == {i \in DOMAIN doc : doc[i].kind = kind}
InOrder(S) == SetToSortSeq(S, <)

\* The first of some indices that is not before the cursor, 0 if none.
FirstFrom(hits, cursor) ==
  LET later == {i \in hits : i >= cursor} IN IF later = {} THEN 0 ELSE Min(later)

-----------------------------------------------------------------------------
(* The scan (lineindex.go): lines counted from 1.                          *)

scanHeadingLines(doc) == InOrder(Lines(doc, "heading"))

\* The line of the next heading that is no deeper, or the one behind the last.
endOfSubtree(doc, start, level) ==
  LET next == {i \in Lines(doc, "heading") : i > start /\ doc[i].level <= level}
  IN IF next = {} THEN Len(doc) + 1 ELSE Min(next)

enclosingHeadingLevel(doc, before) ==
  LET above == {i \in Lines(doc, "heading") : i < before}
  IN IF above = {} THEN 0 ELSE doc[Max(above)].level

\* Variant: an end closes the oldest open block of its name.
CloseOldest(scan, name, line) ==
  LET same == {j \in DOMAIN scan.open : scan.open[j].name = name}
  IN IF same = {} THEN scan
     ELSE [open   |-> RemoveAt(scan.open, Min(same)),
           closed |-> Append(scan.closed, [scan.open[Min(same)] EXCEPT !.end = line])]

\* An end closes the nearest block of its name that is still open, if there is one.
CloseNearest(scan, name, line) ==
  LET same == {j \in DOMAIN scan.open : scan.open[j].name = name}
  IN IF same = {} THEN scan
     ELSE [open   |-> RemoveAt(scan.open, Max(same)),
           closed |-> Append(scan.closed, [scan.open[Max(same)] EXCEPT !.end = line])]

OpenSpan(scan, name, lang, line) ==
  [scan EXCEPT !.open = Append(@, [name |-> name, lang |-> lang, begin |-> line, end |-> 0])]

Unscanned == [open |-> <<>>, closed |-> <<>>]

\* The closed blocks in the order of their ends, and what is open at the end of the file.
scanBlocks(doc) ==
  LET step(scan, i) == CASE doc[i].kind = "begin" -> OpenSpan(scan, doc[i].flag, doc[i].text, i)
                         [] doc[i].kind = "end"   -> CloseNearest(scan, doc[i].flag, i)
                         [] OTHER -> scan
  IN FoldLeft(step, Unscanned, [i \in DOMAIN doc |-> i])

\* Any :END: closes the drawer opened last.
scanDrawers(doc) ==
  LET step(scan, i) == CASE doc[i].kind = "drawer" -> OpenSpan(scan, ":END:", {}, i)
                         [] doc[i].kind = ":END:"  -> CloseNearest(scan, ":END:", i)
                         [] OTHER -> scan
  IN FoldLeft(step, Unscanned, [i \in DOMAIN doc |-> i]).closed

-----------------------------------------------------------------------------
(* The parser.                                                             *)

Crypt(doc, i) == \E h \in Lines(doc, "heading") :
  doc[h].flag = "crypt" /\ h < i /\ i < endOfSubtree(doc, h, doc[h].level)

\* What the parser makes of a word that is not spelt as it is rendered.
Rendered == [w \in {"markup"} |-> "b"]
Title(line) == {IF w \in DOMAIN Rendered THEN Rendered[w] ELSE w : w \in line.text}

Headings(doc) ==
  LET at == InOrder({i \in Lines(doc, "heading") : ~Crypt(doc, i)})
  IN [n \in DOMAIN at |-> [line |-> at[n], level |-> doc[at[n]].level, title |-> Title(doc[at[n]])]]

SrcBlocks(doc) ==
  SortSeq(SelectSeq(scanBlocks(doc).closed, LAMBDA b : b.name = "SRC" /\ ~Crypt(doc, b.begin)),
          LAMBDA a, b : a.begin < b.begin)

Links(doc) ==
  LET linksOf(i) == [n \in 1 .. doc[i].level |-> [line |-> i, url |-> doc[i].text, broken |-> doc[i].flag = "broken"]]
      at == InOrder({i \in Lines(doc, "link") : ~Crypt(doc, i)})
  IN FlattenSeq([n \in DOMAIN at |-> linksOf(at[n])])

-----------------------------------------------------------------------------
(* The alignment: each entry of a list is looked for from a cursor on, and *)
(* the cursor moves behind what was found.  No alignment looks at the      *)
(* lines the parser's entries came from.                                   *)

\* The candidate that exactly matches, else the first that matches at all.
Preferred(exact, any, cursor) ==
  IF \E i \in exact : i >= cursor THEN FirstFrom(exact, cursor) ELSE FirstFrom(any, cursor)

Taken(cands, aligned, idx) ==
  IF idx # 0 THEN [at |-> Append(aligned.at, cands[idx]), cursor |-> idx + 1]
  ELSE [aligned EXCEPT !.at = Append(@, IF cands = <<>> THEN 1 ELSE cands[Min({aligned.cursor, Len(cands)})])]

AlignFrom(doc, cands, aligned, h) ==
  LET same   == {i \in DOMAIN cands : doc[cands[i]].level = h.level}
      titled == {i \in same : h.title \subseteq doc[cands[i]].text}
  IN Taken(cands, aligned, Preferred(titled, same, aligned.cursor))

matchHeadingStarts(doc) ==
  FoldLeft(LAMBDA aligned, h : AlignFrom(doc, scanHeadingLines(doc), aligned, h), [at |-> <<>>, cursor |-> 1], Headings(doc)).at

\* A block without a match has no position; the outline puts it on the first line.
NoBlock == [name |-> "", lang |-> {}, begin |-> 1, end |-> 1]

matchSrcBlockLines(doc) ==
  LET cands == scanBlocks(doc).closed
      step(aligned, b) ==
        LET src   == {i \in DOMAIN cands : cands[i].name = "SRC"}
            idx   == Preferred({i \in src : b.lang \subseteq cands[i].lang}, src, aligned.cursor)
        IN IF idx = 0 THEN [aligned EXCEPT !.at = Append(@, NoBlock)]
           ELSE [at |-> Append(aligned.at, cands[idx]), cursor |-> idx + 1]
  IN FoldLeft(step, [at |-> <<>>, cursor |-> 1], SrcBlocks(doc)).at

\* Every line is searched, also those that no link is on, and none for nothing.
LinesNaming(doc, url) == {i \in DOMAIN doc : url # {} /\ url \subseteq doc[i].text}

\* A failed search takes the cursor's line, and moves the cursor all the same.
matchLinkLines(doc) ==
  LET step(aligned, l) ==
        LET found == FirstFrom(LinesNaming(doc, l.url), aligned.cursor)
            line  == IF found # 0 THEN found ELSE Min({aligned.cursor, Len(doc)})
        IN [at |-> Append(aligned.at, line), cursor |-> line + 1]
  IN FoldLeft(step, [at |-> <<>>, cursor |-> 1], Links(doc)).at

-----------------------------------------------------------------------------
(* The answers.  A range is [start, end], end the line behind the last.    *)

lineRange(doc, start, end) == [start |-> start, end |-> Min({end, Len(doc) + 1})]

\* The parent of each node (0: a root), by one stack of ancestors: their levels
\* increase, so those that are no shallower than the next node are on its top.
buildSymbolTree(nodes) ==
  LET step(tree, n) ==
        LET kept == SelectSeq(tree.stack, LAMBDA m : nodes[m].level < nodes[n].level)
        IN [stack |-> Append(kept, n), parent |-> Append(tree.parent, IF kept = <<>> THEN 0 ELSE Last(kept))]
  IN FoldLeft(step, [stack |-> <<>>, parent |-> <<>>], [n \in DOMAIN nodes |-> n]).parent

\* The nodes of the outline in the order of their lines, headings before blocks.
DocumentSymbols(doc) ==
  LET headingNode(start, h) == [line |-> start, level |-> h.level, heading |-> TRUE,
                                range |-> lineRange(doc, start, endOfSubtree(doc, start, h.level))]
      blockNode(b) == [line |-> b.begin, level |-> enclosingHeadingLevel(doc, b.begin) + 1, heading |-> FALSE,
                       range |-> lineRange(doc, b.begin, b.end + 1)]
      nodes(hs, starts, bs) == [n \in DOMAIN hs |-> headingNode(starts[n], hs[n])] \o [n \in DOMAIN bs |-> blockNode(bs[n])]
  IN SortSeq(nodes(Headings(doc), matchHeadingStarts(doc), matchSrcBlockLines(doc)), LAMBDA a, b : a.line < b.line)

\* Folds cover whole lines; what fits on one line does not fold.
FoldingRanges(doc) ==
  LET subtrees == {[start |-> h, end |-> endOfSubtree(doc, h, doc[h].level) - 1] : h \in Lines(doc, "heading")}
      spans    == {[start |-> b.begin, end |-> b.end] : b \in ToSet(scanBlocks(doc).closed \o scanDrawers(doc))}
  IN {f \in subtrees \cup spans : f.end > f.start}

\* The lines the lint reports: broken links, and blocks that are not closed.
Diagnostics(doc) ==
  {matchLinkLines(doc)[n] : n \in {k \in DOMAIN Links(doc) : Links(doc)[k].broken}}
    \cup {b.begin : b \in ToSet(scanBlocks(doc).open)}

-----------------------------------------------------------------------------
(* The workspace index: one file, its contents named by their numbers, and *)
(* queries that may overlap each other and the writes.  A write leaves any *)
(* modification time, also one that the file had before: the clock has a   *)
(* granularity, and times can be set.  A query runs in the goroutine of    *)
(* its request.                                                            *)

\* stamp has the time of each content so far, the last of which is on the disk.
NewIndex(queries) ==
  [stamp |-> <<0>>, cache |-> [mtime |-> -1, content |-> 0],
   query |-> [q \in queries |-> [pc |-> "idle", asked |-> 0, mtime |-> -1, content |-> 0]]]

Disk(ix) == Len(ix.stamp)

Write(ix, time) == [ix EXCEPT !.stamp = Append(@, time)]

\* indexFile, up to its next lock or system call: stat, look at the cache, read the
\* file unless the cache has this time, and store what was read.
indexFile(ix, q) ==
  LET at == ix.query[q]
      to(pc, content) == [ix EXCEPT !.query[q].pc = pc, !.query[q].content = content]
  IN CASE at.pc = "idle" -> [ix EXCEPT !.query[q] = [pc |-> "stat", asked |-> Disk(ix), mtime |-> ix.stamp[Disk(ix)], content |-> 0]]
       [] at.pc = "stat" -> IF ix.cache.mtime = at.mtime THEN to("done", ix.cache.content) ELSE to("miss", 0)
       [] at.pc = "miss" -> to("read", Disk(ix))
       [] at.pc = "read" -> [to("done", at.content) EXCEPT !.cache = [mtime |-> at.mtime, content |-> at.content]]
       [] at.pc = "done" -> to("idle", 0)

-----------------------------------------------------------------------------
(* What is checked.                                                        *)

\* begin and end are the ends of one block: between them, its name's are balanced.
Pairs(doc, begin, end) ==
  LET count(kind, last) == Cardinality({i \in Lines(doc, kind) : i \in begin .. last /\ doc[i].flag = doc[begin].flag})
  IN /\ begin < end /\ doc[begin].kind = "begin" /\ doc[end].kind = "end" /\ doc[end].flag = doc[begin].flag
     /\ count("begin", end) = count("end", end)
     /\ \A i \in begin .. end - 1 : count("begin", i) > count("end", i)

Ended(doc)    == {b \in Lines(doc, "begin") : \E e \in DOMAIN doc : Pairs(doc, b, e)}
Unclosed(doc) == Lines(doc, "begin") \ Ended(doc)

Spelt(line) == Title(line) \subseteq line.text

\* No rendered title that its line does not spell is in a later heading of its level.
TitlesTold(doc) ==
  \A h \in Lines(doc, "heading"), i \in Lines(doc, "heading") :
    ~Spelt(doc[h]) /\ ~Crypt(doc, h) /\ h < i /\ doc[h].level = doc[i].level => ~(Title(doc[h]) \subseteq doc[i].text)

\* A block contains text only, and no SRC block of a :crypt: subtree begins with the
\* language of one that the parser lists.
BlocksTold(doc) ==
  LET src == {b \in Ended(doc) : doc[b].flag = "SRC"}
  IN /\ \A b \in DOMAIN doc, e \in DOMAIN doc :
          Pairs(doc, b, e) => \A i \in b + 1 .. e - 1 : doc[i].kind \notin {"heading", "begin", "link"}
     /\ \A b \in src, c \in src : Crypt(doc, c) /\ ~Crypt(doc, b) => ~(doc[b].text \subseteq doc[c].text)

\* Each line has one link at most, and between a link and the one before it nothing
\* has the words of its target.
LinksTold(doc) ==
  LET listed == {i \in Lines(doc, "link") : ~Crypt(doc, i)}
  IN \A i \in listed :
       /\ doc[i].level = 1
       /\ \A j \in LinesNaming(doc, doc[i].text) : j < i => \E k \in listed : j <= k /\ k < i

\* Every entry of the parser's lists is given the line it came from, although titles
\* and links contain one another and some lie in :crypt: subtrees, in the documents
\* where no other line can be taken for an entry that comes before it.
Aligned(doc) ==
  /\ TitlesTold(doc) => matchHeadingStarts(doc) = [n \in DOMAIN Headings(doc) |-> Headings(doc)[n].line]
  /\ BlocksTold(doc) => matchSrcBlockLines(doc) = SrcBlocks(doc)
  /\ LinksTold(doc)  => matchLinkLines(doc) = [n \in DOMAIN Links(doc) |-> Links(doc)[n].line]

\* What the package comment of lineindex.go promises of every document: one entry
\* that takes the wrong line does not misalign a later one.  A heading that its line
\* does not spell may be misplaced itself, and so may a link that another line names.
\* It does not hold (the examples in MCLibrary).
LaterInPlace(doc) ==
  LET spelt(n) == Spelt(doc[Headings(doc)[n].line])
      alone(n) == LinesNaming(doc, Links(doc)[n].url) = {Links(doc)[n].line}
  IN /\ \A n \in DOMAIN Headings(doc) : spelt(n) => matchHeadingStarts(doc)[n] = Headings(doc)[n].line
     /\ \A n \in DOMAIN Links(doc) : alone(n) => matchLinkLines(doc)[n] = Links(doc)[n].line

HangsRight(nodes, parent) ==
  LET around(n) == {m \in 1 .. n - 1 : nodes[m].heading /\ nodes[n].line < nodes[m].range.end}
  IN \A n \in DOMAIN nodes :
       /\ parent[n] = (IF around(n) = {} THEN 0 ELSE Max(around(n)))
       /\ parent[n] # 0 => nodes[n].range.end <= nodes[parent[n]].range.end

\* Where no heading skips a level, each node of the outline hangs under the innermost
\* heading whose subtree it lies in, and inside that heading's range.
Nested(doc) ==
  LET skips(h) == doc[h].level > enclosingHeadingLevel(doc, h) + 1
      nodes    == DocumentSymbols(doc)
  IN TitlesTold(doc) /\ BlocksTold(doc) /\ (\A h \in Lines(doc, "heading") : ~skips(h)) => HangsRight(nodes, buildSymbolTree(nodes))

\* Every fold is a subtree, or runs from the begin of a block to the end that
\* balances it, or is a drawer; every block folds; and two subtrees never cross.
FoldsPair(doc) ==
  LET folds    == FoldingRanges(doc)
      subtrees == {f \in folds : doc[f.start].kind = "heading"}
  IN /\ \A f \in folds : /\ f.end \in DOMAIN doc
                         /\ doc[f.start].kind = "begin" => Pairs(doc, f.start, f.end)
                         /\ doc[f.start].kind = "drawer" => doc[f.end].kind = ":END:"
     /\ \A b \in DOMAIN doc, e \in DOMAIN doc : Pairs(doc, b, e) => [start |-> b, end |-> e] \in folds
     /\ \A f \in subtrees, g \in subtrees : f.start < g.start => f.end < g.start \/ g.end <= f.end

\* The lint reports the blocks that are not closed and, in the documents where no
\* line can be taken for a link, the lines of the broken links.
LintExact(doc) ==
  /\ Unclosed(doc) \subseteq Diagnostics(doc)
  /\ LinksTold(doc) => Diagnostics(doc) =
       {i \in Lines(doc, "link") : doc[i].flag = "broken" /\ ~Crypt(doc, i)} \cup Unclosed(doc)

\* An answer is no older than its query, whatever else wrote or queried meanwhile,
\* as far as modification times tell: it is no older than the first content that had
\* the time which the file had when it was asked.
NoStaleAnswer(ix) ==
  \A q \in DOMAIN ix.query :
    LET at == ix.query[q]
    IN at.pc = "done" => \E n \in 1 .. at.asked : ix.stamp[n] = ix.stamp[at.asked] /\ n <= at.content
=============================================================================
