----------------------------- MODULE TextEdits ------------------------------
(***************************************************************************)
(* Positions and edits: the server's conversions and ranged changes        *)
(* (pkg/lspserver), and the write path from a WorkspaceEdit to a plan of   *)
(* byte edits (pkg/lsp/workspaceedit.go, pkg/wsedit).                      *)
(*                                                                         *)
(* A text is a sequence of bytes.  Only their kind matters: "a" is a rune  *)
(* of one byte, "2" and "4" lead a rune of two and of four bytes, "~"      *)
(* continues one, "r" and "n" are carriage return and newline.  An offset  *)
(* o lies behind the o-th byte.  A position is a record [line, char].      *)
(***************************************************************************)
EXTENDS Integers, SequencesExt

NoOffset == -1

\* A text edit of the protocol, its text in bytes.
TextEdit(Byte) == [start : [line : Int, char : Int], end : [line : Int, char : Int], new : Seq(Byte)]

\* FileEdit: the edits of one file, if they can be made.
Refused == [ok |-> FALSE]
FileEdit(edits) == [ok |-> TRUE, edits |-> edits]

Boundary(text, o) == o = Len(text) \/ text[o + 1] # "~"

Clamp(n, low, high) == IF n < low THEN low ELSE IF n > high THEN high ELSE n

\* UTF-16 code units of the bytes from one offset to another: one for each rune, and
\* one more for each rune of four bytes.
Units(text, from, to) ==
  Cardinality({i \in (from + 1) .. to : text[i] # "~"}) + Cardinality({i \in (from + 1) .. to : text[i] = "4"})

\* The last of the line starts up to an offset, and its line.
StartOf(text, o) == Max({0} \cup {i \in 1 .. o : text[i] = "n"})
LineOf(text, o) == Cardinality({i \in 1 .. o : text[i] = "n"})

LineStarts(text) ==
  [l \in 1 .. LineOf(text, Len(text)) + 1 |-> Min({o \in 0 .. Len(text) : LineOf(text, o) = l - 1})]

\* The offset at most `char` units behind `from` on a line that ends at `end`; it
\* never splits a rune.
Advance(text, from, end, char) ==
  Max({from} \cup {o \in from .. end : Boundary(text, o) /\ Units(text, from, o) <= char})

\* The end of a line without its line break.
LineBreak(text, starts, l) ==
  LET next == starts[l + 1] - 1
  IN IF l = Len(starts) THEN Len(text) ELSE IF next > starts[l] /\ text[next] = "r" THEN next - 1 ELSE next

offsetAt(text, starts, pos) ==
  CASE pos.line < 0 -> 0
    [] pos.line >= Len(starts) -> Len(text)
    [] OTHER -> Advance(text, starts[pos.line + 1], LineBreak(text, starts, pos.line + 1), pos.char)

OffsetAt(text, pos) == offsetAt(text, LineStarts(text), pos)

PositionAt(text, off) ==
  LET o == Max({p \in 0 .. Clamp(off, 0, Len(text)) : Boundary(text, p)})
  IN [line |-> LineOf(text, o), char |-> Units(text, StartOf(text, o), o)]

\* Row and byte column.
PointAt(text, off) ==
  LET o == Clamp(off, 0, Len(text)) IN <<LineOf(text, o), o - StartOf(text, o)>>

-----------------------------------------------------------------------------
(* Store.Apply: the changes of one didChange, each against the text left   *)
(* by the one before.  A change is [whole, start, end, new].               *)

Splice(text, from, to, new) == SubSeq(text, 1, from) \o new \o SubSeq(text, to + 1, Len(text))

Changed(doc, c) ==
  LET ends == {OffsetAt(doc.text, c.start), OffsetAt(doc.text, c.end)}
      a    == Min(ends)
      b    == Max(ends)
      new  == Splice(doc.text, a, b, c.new)
      edit == [start |-> a, oldEnd |-> b, newEnd |-> a + Len(c.new),
               points |-> <<PointAt(doc.text, a), PointAt(doc.text, b), PointAt(new, a + Len(c.new))>>]
  IN IF c.whole THEN [text |-> c.new, full |-> TRUE, edits |-> <<>>]
     ELSE [doc EXCEPT !.text = new,
                      !.edits = IF doc.full THEN @ ELSE Append(@, edit)]

StoreApply(text, changes) ==
  FoldLeft(Changed, [text |-> text, full |-> FALSE, edits |-> <<>>], changes)

-----------------------------------------------------------------------------
(* The write path.                                                         *)

\* WorkspaceEdit.UnmarshalJSON: the entries of documentChanges go behind what
\* `changes` holds for their document; resource operations (uri None) and empty
\* entries are skipped.
Folded(changes, documentChanges, None) ==
  FoldLeft(LAMBDA all, entry :
             IF entry.uri = None \/ entry.edits = <<>> THEN all
             ELSE [all EXCEPT ![entry.uri] = @ \o entry.edits],
           changes, documentChanges)

\* A carriage return ends a line only in front of a newline.
LineEnd(text, from) ==
  Min({Len(text)} \cup {o \in from .. Len(text) - 1 :
         text[o + 1] = "n" \/ (text[o + 1] = "r" /\ o + 2 <= Len(text) /\ text[o + 2] = "n")})

ByteOffset(text, pos) ==
  IF pos.line < 0 \/ pos.char < 0 \/ pos.line >= Len(LineStarts(text)) THEN NoOffset
  ELSE LET from == LineStarts(text)[pos.line + 1]
       IN Advance(text, from, LineEnd(text, from), pos.char)

Before(e, f) == e.start > f.start \/ (e.start = f.start /\ e.end > f.end)

\* sort.SliceStable, descending: the k-th edit is the one that k - 1 go in front of.
Precedes(edits, i, j) == Before(edits[i], edits[j]) \/ (~Before(edits[j], edits[i]) /\ i < j)
Rank(edits, i) == Cardinality({j \in DOMAIN edits : Precedes(edits, j, i)})
SortDescending(edits) ==
  [k \in DOMAIN edits |-> edits[CHOOSE i \in DOMAIN edits : Rank(edits, i) = k - 1]]

\* Variant: only edits with the same start are taken to overlap.
NonOverlappingStarts(edits) == \A i \in 2 .. Len(edits) : edits[i].start # edits[i - 1].start

NonOverlapping(edits) == \A i \in 2 .. Len(edits) : edits[i].end <= edits[i - 1].start

Resolved(text, textEdits) ==
  [i \in DOMAIN textEdits |-> [start |-> ByteOffset(text, textEdits[i].start),
                               end   |-> ByteOffset(text, textEdits[i].end),
                               new   |-> textEdits[i].new]]

Legal(edits) ==
  \A i \in DOMAIN edits :
    edits[i].start # NoOffset /\ edits[i].end # NoOffset /\ edits[i].start <= edits[i].end

\* FromWorkspaceEdit for one document.
FilePlan(text, textEdits) ==
  LET edits == SortDescending(Resolved(text, textEdits))
  IN IF Legal(Resolved(text, textEdits)) /\ NonOverlapping(edits)
     THEN FileEdit(edits) ELSE Refused

\* FileEdit.Apply: the ranges are checked against the file as it is now.
PlanApply(text, edits) ==
  LET legal == \A i \in DOMAIN edits :
        /\ 0 <= edits[i].start /\ edits[i].start <= edits[i].end /\ edits[i].end <= Len(text)
        /\ i > 1 => edits[i].start <= edits[i - 1].start /\ edits[i].end <= edits[i - 1].start
  IN IF legal THEN [ok |-> TRUE, text |-> FoldLeft(LAMBDA out, e : Splice(out, e.start, e.end, e.new), text, edits)]
     ELSE Refused

-----------------------------------------------------------------------------
(* Reference definitions and what is checked.                              *)

\* Two ranges share text, or one begins within the other.
Overlap(e, f) == e.start < f.end /\ f.start < e.end

\* What the edits that begin at an offset put there: those that only insert, or those
\* that replace text.
NewAt(edits, o, kind) ==
  FlattenSeq([i \in DOMAIN edits |->
    IF edits[i].start = o /\ (edits[i].end = o <=> kind = "inserts") THEN edits[i].new ELSE <<>>])

Stays(text, edits, o) == o < Len(text) /\ ~\E i \in DOMAIN edits : edits[i].start <= o /\ o < edits[i].end

\* All edits at once, on the original text: at each offset what is inserted there,
\* what replaces the text that begins there, and the byte itself if it stays.
AtOnce(text, edits) ==
  FlattenSeq([o \in 1 .. Len(text) + 1 |->
    NewAt(edits, o - 1, "inserts") \o NewAt(edits, o - 1, "replaces")
      \o (IF Stays(text, edits, o - 1) THEN <<text[o]>> ELSE <<>>)])

\* A byte that continues a rune has one to continue in front of it.
WellFormed(text) == \A i \in 1 .. Len(text) : text[i] = "~" => i > 1 /\ text[i - 1] \in {"2", "4", "~"}

\* A carriage return is there only in front of a newline.
WholeLineEnds(text) == \A i \in 1 .. Len(text) : text[i] = "r" => i < Len(text) /\ text[i + 1] = "n"

\* What LineStarts lists: 0 and the offsets behind the newlines, in their order.
Starts(text, starts) ==
  /\ Len(starts) \in Nat \ {0} /\ starts[1] = 0
  /\ \A i \in 1 .. Len(starts) : starts[i] \in 0 .. Len(text) /\ (i > 1 => starts[i] > starts[i - 1] /\ text[starts[i]] = "n")

\* Offsets and positions are inverse to each other on rune boundaries (a position
\* between the two bytes of a line end goes back before them), and the write
\* path and the server resolve a position alike wherever the line exists.
PositionsAgree(text, positions) ==
  /\ WellFormed(text) /\ Starts(text, LineStarts(text))
  /\ \A o \in -1 .. Len(text) + 1 :
       LET p    == PositionAt(text, o)
           rune == Max({q \in 0 .. Clamp(o, 0, Len(text)) : Boundary(text, q)})
           inCR == rune \in 1 .. Len(text) - 1 /\ text[rune] = "r" /\ text[rune + 1] = "n"
       IN OffsetAt(text, p) = IF inCR THEN rune - 1 ELSE rune
  /\ \A p \in positions :
       /\ Boundary(text, OffsetAt(text, p))
       /\ ByteOffset(text, p) # NoOffset => ByteOffset(text, p) = OffsetAt(text, p)
       /\ ByteOffset(text, p) = NoOffset <=> p.line < 0 \/ p.char < 0 \/ p.line > LineOf(text, Len(text))

Reported(text, edits) ==
  [i \in DOMAIN edits |-> [whole |-> FALSE, start |-> PositionAt(text, edits[i].start),
                           end |-> PositionAt(text, edits[i].end), new |-> edits[i].new]]

\* The ranges of a plan, and the order sortDescending puts them in.
Ranges(edits) ==
  /\ Len(edits) \in Nat /\ DOMAIN edits = 1 .. Len(edits)
  /\ \A i \in DOMAIN edits : edits[i].start \in Nat /\ edits[i].end \in Nat /\ edits[i].start <= edits[i].end
Descending(edits) == \A i, j \in DOMAIN edits : i < j => ~Before(edits[j], edits[i])

PlanExact(text, edits, plan) ==
  /\ LET sorted == SortDescending(edits) IN Ranges(sorted) /\ Descending(sorted)
  /\ plan.ok <=> \A i, j \in DOMAIN edits : i # j => ~Overlap(edits[i], edits[j])
  /\ plan.ok => PlanApply(text, plan.edits) = [ok |-> TRUE, text |-> AtOnce(text, Reverse(edits))]

ServerFollows(text, edits, server) ==
  /\ server.text = PlanApply(text, edits).text
  /\ \A i \in DOMAIN edits : /\ server.edits[i].start = edits[i].start
                            /\ server.edits[i].oldEnd = edits[i].end
                            /\ server.edits[i].points[2] = PointAt(text, edits[i].end)

\* A plan is refused exactly when two edits of it overlap; the plan's application
\* is that of all edits at once (those at one place in the reverse of their
\* order); and a client that reports the applied edits to the server one after
\* another from the bottom up has the server hold the text that was written, and
\* its parser the byte ranges of the plan, where carriage returns are only in line
\* ends (an edit can make a line end of one that stands alone).  Nothing of it depends on which of the
\* two wire forms the edits came in.
EditsAgree(text, textEdits) ==
  LET edits   == Resolved(text, textEdits)
      plan    == FilePlan(text, textEdits)
      early   == SubSeq(textEdits, 1, Len(textEdits) \div 2)
      entries == <<[uri |-> "none", edits |-> <<>>],
                   [uri |-> "doc", edits |-> SubSeq(textEdits, Len(early) + 1, Len(textEdits))]>>
  IN /\ Folded([uri \in {"doc"} |-> early], entries, "none") = [uri \in {"doc"} |-> textEdits]
     /\ Legal(edits) =>
          /\ PlanExact(text, edits, plan)
          /\ plan.ok /\ WholeLineEnds(text) => ServerFollows(text, plan.edits, StoreApply(text, Reported(text, plan.edits)))
=============================================================================
