---------------------------- MODULE ClientReads -----------------------------
(***************************************************************************)
(* What pkg/lsp makes of a server's answers (reads.go) and of its          *)
(* publishDiagnostics notifications (diagnostics.go).                      *)
(*                                                                         *)
(* A JSON value is [k, elems]: k is its kind, or what is missing, elems    *)
(* the members of an array, otherwise the one value itself, in a sequence. *)
(* A symbol is [shape, name, range]: a flat one has its range in its       *)
(* location, a tree in its selectionRange, and "junk" is no object at all; *)
(* a field that is not there is decoded as its zero value.                 *)
(***************************************************************************)
EXTENDS Naturals, SequencesExt

Zero == "zero"
isJSONNull(raw) == raw.k \in {"absent", "null"}

\* A decoded slice; junk among its elements fails the whole.
Decoded(elems) == [err |-> \E i \in DOMAIN elems : elems[i].shape = "junk", of |-> elems]

\* An element decoded as a shape that it does not have keeps its name and loses its range.
As(shape, e) == IF e.shape = shape THEN e ELSE [e EXCEPT !.shape = shape, !.range = Zero]

NoSymbols == [err |-> FALSE, flat |-> <<>>, tree |-> <<>>]
Undecodable == [NoSymbols EXCEPT !.err = TRUE]

\* Client.DocumentSymbol: the first element decides which of the two shapes it is.
DocumentSymbol(raw) ==
  CASE isJSONNull(raw) -> NoSymbols
    [] raw.k \in {"object", "string", "number"} -> Undecodable
    [] raw.k = "array" /\ raw.elems = <<>> -> NoSymbols
    [] raw.k = "array" /\ raw.elems # <<>> ->
         IF Decoded(raw.elems).err THEN Undecodable
         ELSE LET shape == raw.elems[1].shape
                  all   == [i \in DOMAIN raw.elems |-> As(shape, raw.elems[i])]
              IN IF shape = "flat" THEN [NoSymbols EXCEPT !.flat = all] ELSE [NoSymbols EXCEPT !.tree = all]

\* References and FoldingRange: an array or null.
References(raw) ==
  CASE isJSONNull(raw) -> [err |-> FALSE, of |-> <<>>]
    [] raw.k = "array" -> Decoded(raw.elems)
    [] OTHER -> [err |-> TRUE, of |-> <<>>]

\* Definition takes one location as well, and anything else for none.
decodeLocations(raw) ==
  IF isJSONNull(raw) \/ raw.k \notin {"array", "object"} THEN [err |-> FALSE, of |-> <<>>] ELSE Decoded(raw.elems)

\* One member of the contents of a hover: a string, a MarkupContent {kind, value} or a
\* MarkedString {language, value}, which counts as markdown.
decodeMarkupObject(c) == [kind |-> IF c.kind # "" THEN c.kind ELSE "markdown", value |-> <<c.value>>]
MarkupOf(c) == CASE c.k = "object" -> decodeMarkupObject(c)
                 [] c.k = "string" -> [kind |-> "plaintext", value |-> <<c.value>>]
                 [] OTHER -> [kind |-> "plaintext", value |-> <<"">>]

\* An array is joined, and is markdown if its first member is.
decodeMarkup(raw) ==
  IF raw.k = "array"
  THEN [kind  |-> IF raw.elems # <<>> /\ MarkupOf(raw.elems[1]).kind = "markdown" THEN "markdown" ELSE "plaintext",
        value |-> FlattenSeq([i \in DOMAIN raw.elems |-> MarkupOf(raw.elems[i]).value])]
  ELSE IF raw.elems = <<>> THEN [kind |-> "plaintext", value |-> <<"">>] ELSE MarkupOf(raw.elems[1])

-----------------------------------------------------------------------------
(* DiagnosticsCollector: the last batch of each document.                  *)

NewDiagnosticsCollector(uris) == [latest |-> [u \in uris |-> <<>>], seen |-> {}]

\* Anything else than a well formed publishDiagnostics is acknowledged and dropped.
Handle(d, note) ==
  IF note.method # "publishDiagnostics" \/ ~note.wellFormed THEN d
  ELSE [latest |-> [d.latest EXCEPT ![note.uri] = note.diags], seen |-> d.seen \cup {note.uri}]

DiagnosticsOf(d, uri) == [diags |-> d.latest[uri], seen |-> uri \in d.seen]

\* One look of Wait: an empty batch is no answer.
WaitLook(d, uri) == IF d.latest[uri] # <<>> THEN [done |-> TRUE, diags |-> d.latest[uri]] ELSE [done |-> FALSE, diags |-> <<>>]

-----------------------------------------------------------------------------
(* What is checked.                                                        *)

\* Every symbol of a list that is all of one shape arrives, with its range, on the side of
\* its shape; the two sides are never both in use; null is no error.
SymbolsArrive(raw) ==
  LET r == DocumentSymbol(raw)
      pure(shape) == raw.k = "array" /\ \A i \in DOMAIN raw.elems : raw.elems[i].shape = shape
  IN /\ r.flat = <<>> \/ r.tree = <<>>
     /\ isJSONNull(raw) => r = NoSymbols /\ References(raw) = decodeLocations(raw)
     /\ pure("flat") => r = [NoSymbols EXCEPT !.flat = raw.elems]
     /\ pure("tree") => r = [NoSymbols EXCEPT !.tree = raw.elems]

\* What References accepts, Definition reads the same way.
LocationsAgree(raw) == ~References(raw).err => decodeLocations(raw) = References(raw)

\* The text of a hover is complete and in order, whatever forms its parts have.
HoverKeepsText(raw) ==
  raw.k = "array" => decodeMarkup(raw).value = [i \in DOMAIN raw.elems |-> IF raw.elems[i].k \in {"string", "object"} THEN raw.elems[i].value ELSE ""]

\* However the notifications come, a wait for a document ends with the newest batch that
\* was published for it, never with an older one and never with none.
WaitIsNewest(log, uri) ==
  LET d    == FoldLeft(Handle, NewDiagnosticsCollector({uri} \cup {log[i].uri : i \in DOMAIN log}), log)
      mine == {i \in DOMAIN log : log[i].method = "publishDiagnostics" /\ log[i].wellFormed /\ log[i].uri = uri}
      last == log[Max(mine)].diags
  IN /\ DiagnosticsOf(d, uri).seen <=> mine # {}
     /\ WaitLook(d, uri).done <=> mine # {} /\ last # <<>>
     /\ WaitLook(d, uri).done => WaitLook(d, uri).diags = last /\ WaitLook(d, uri).diags = DiagnosticsOf(d, uri).diags
=============================================================================
