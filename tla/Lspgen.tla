------------------------------- MODULE Lspgen -------------------------------
(***************************************************************************)
(* cmd/lspgen: the Go types of pkg/lsp/types_gen.go, from the LSP          *)
(* metaModel and the allowlist of config.go.                               *)
(*                                                                         *)
(* A model is [structs, enums]: its structures by name and, for an enum,   *)
(* the base type of its values.  The allowlist is [structs, enums,         *)
(* external]: sequences of structConfigs and of enum names, and the kinds  *)
(* of the hand-written types by name.                                      *)
(***************************************************************************)
EXTENDS Naturals, SequencesExt

baseTypeGo == [n \in {"string", "boolean", "integer", "uinteger", "decimal", "DocumentUri"} |->
                 CASE n = "boolean" -> "bool" [] n \in {"integer", "uinteger"} -> "int"
                   [] n = "decimal" -> "float64" [] n = "DocumentUri" -> "DocumentURI" [] OTHER -> n]

\* A type; kind and name are those of the innermost element of dims arrays.
anyType(kind, name, dims) == [kind |-> kind, name |-> name, dims |-> dims]
property(name, type, optional) == [name |-> name, type |-> type, optional |-> optional]
\* Its mixins are never read.
structure(extends, props) == [extends |-> extends, props |-> props]
\* All properties, or onlyFields in their order; overrides gives some a type of their own.
structConfig(name, all, only, overrides) == [name |-> name, all |-> all, only |-> only, overrides |-> overrides]

renderedField(p, go, dims, pointer) == [name |-> p.name, go |-> go, dims |-> dims, pointer |-> pointer, omitempty |-> p.optional]
renderedStruct(name, fields) == [name |-> name, fields |-> fields]

Error == [err |-> TRUE, of |-> <<>>]
Ok(v) == [err |-> FALSE, of |-> v]
\* The first error of a sequence of results, or all they hold.
AllOk(results) == IF \E i \in DOMAIN results : results[i].err THEN Error ELSE Ok([i \in DOMAIN results |-> results[i].of])

\* The properties of the ancestors, in the order of the extends lists, then its own.
RECURSIVE flattenProperties(_, _)
flattenProperties(model, s) ==
  IF s \notin DOMAIN model.structs THEN Error
  ELSE LET def     == model.structs[s]
           parents == AllOk([i \in DOMAIN def.extends |-> flattenProperties(model, def.extends[i])])
       IN IF parents.err THEN Error ELSE Ok(FlattenSeq(parents.of) \o def.props)

Names(configs) == {configs[i].name : i \in DOMAIN configs}

\* An enum is generated before a struct of the same name; hand-written types come last.
referenceKind(name, allow) ==
  CASE name \in ToSet(allow.enums) -> "enum"
    [] name \notin ToSet(allow.enums) /\ name \in Names(allow.structs) -> "struct"
    [] OTHER -> IF name \in DOMAIN allow.external THEN allow.external[name] ELSE "unknown"

\* [go, dims, kind] of a type; whatever is no base type, reference or array is an error.
resolveType(t, allow) ==
  LET array(k) == IF t.dims > 0 THEN "array" ELSE k
  IN CASE t.kind = "base" /\ t.name \in DOMAIN baseTypeGo ->
            Ok([go |-> baseTypeGo[t.name], dims |-> t.dims, kind |-> array("scalar")])
       [] t.kind = "reference" /\ referenceKind(t.name, allow) # "unknown" ->
            Ok([go |-> t.name, dims |-> t.dims, kind |-> array(referenceKind(t.name, allow))])
       [] OTHER -> Error

\* Variant: an optional struct is embedded by value.
resolveFieldByValue(cfg, p, allow) ==
  LET t == resolveType(p.type, allow)
  IN IF p.name \in DOMAIN cfg.overrides THEN Ok(renderedField(p, cfg.overrides[p.name], 0, FALSE))
     ELSE IF t.err THEN Error ELSE Ok(renderedField(p, t.of.go, t.of.dims, FALSE))

\* A field: an override is taken as it stands, an optional struct becomes a pointer.
resolveField(cfg, p, allow) ==
  LET t == resolveType(p.type, allow)
  IN IF p.name \in DOMAIN cfg.overrides THEN Ok(renderedField(p, cfg.overrides[p.name], 0, FALSE))
     ELSE IF t.err THEN Error
     ELSE Ok(renderedField(p, t.of.go, t.of.dims, t.of.kind = "struct" /\ p.optional))

\* onlyFields selects and orders; of a property that is defined twice it takes the last.
buildStruct(cfg, model, allow) ==
  LET flat    == flattenProperties(model, cfg.name)
      last(n) == flat.of[Max({i \in DOMAIN flat.of : flat.of[i].name = n})]
      known   == {flat.of[i].name : i \in DOMAIN flat.of}
      ordered == IF cfg.all THEN flat.of ELSE [i \in DOMAIN cfg.only |-> last(cfg.only[i])]
  IN IF flat.err \/ (~cfg.all /\ ~(ToSet(cfg.only) \subseteq known)) THEN Error
     ELSE LET fields == AllOk([i \in DOMAIN ordered |-> resolveField(cfg, ordered[i], allow)])
          IN IF fields.err THEN Error ELSE Ok(renderedStruct(cfg.name, fields.of))

\* The values of an enumeration are integers or strings.
buildEnum(e, model) ==
  IF e \notin DOMAIN model.enums \/ model.enums[e] \notin {"uinteger", "integer", "string"} THEN Error
  ELSE Ok([name |-> e, underlying |-> baseTypeGo[model.enums[e]]])

\* All of the allowlist or nothing.
Generate(model, allow) ==
  LET enums   == AllOk([i \in DOMAIN allow.enums |-> buildEnum(allow.enums[i], model)])
      structs == AllOk([i \in DOMAIN allow.structs |-> buildStruct(allow.structs[i], model, allow)])
  IN IF enums.err \/ structs.err THEN Error ELSE Ok([enums |-> enums.of, structs |-> structs.of])

-----------------------------------------------------------------------------
(* What is checked.                                                        *)

Acyclic(pairs) ==
  LET nodes == {p[1] : p \in pairs} \cup {p[2] : p \in pairs}
  IN \E rank \in [nodes -> 1 .. Cardinality(nodes)] : \A p \in pairs : rank[p[1]] < rank[p[2]]

\* What is generated compiles: every type that a field has without an override is built in,
\* generated or hand-written, and where no message of the model must contain itself, no
\* struct contains itself by value.
TypesCompile(model, allow) ==
  LET out      == Generate(model, allow).of
      types    == ToSet(allow.enums) \cup Names(allow.structs) \cup DOMAIN allow.external \cup {baseTypeGo[b] : b \in DOMAIN baseTypeGo}
      chosen   == UNION {DOMAIN c.overrides : c \in ToSet(allow.structs)}
      byValue  == {<<s, f>> \in ToSet(out.structs) \X UNION {ToSet(s.fields) : s \in ToSet(out.structs)} :
                     f \in ToSet(s.fields) /\ f.dims = 0 /\ ~f.pointer}
      required == UNION {{<<s, p.type.name>> : p \in {q \in ToSet(flattenProperties(model, s).of) : ~q.optional /\ q.type.dims = 0}}
                          : s \in DOMAIN model.structs}
  IN ~Generate(model, allow).err =>
       /\ \A s \in ToSet(out.structs) : \A f \in ToSet(s.fields) : f.go \in types \/ f.name \in chosen
       /\ Acyclic(required) /\ chosen = {} => Acyclic({<<e[1].name, e[2].go>> : e \in byValue})

\* A struct has every property that was asked for and no other, in the order asked for, or
\* all those of its ancestors and its own; and where no property is defined twice, none of
\* them twice.
FieldsAsked(model, allow) ==
  LET out == Generate(model, allow)
  IN ~out.err => \A i \in DOMAIN allow.structs :
       LET c      == allow.structs[i]
           fields == out.of.structs[i].fields
           tags   == [n \in DOMAIN fields |-> fields[n].name]
           chain  == flattenProperties(model, c.name).of
           names  == [n \in DOMAIN chain |-> chain[n].name]
       IN IF c.all THEN /\ ToSet(model.structs[c.name].props) \subseteq ToSet(chain) /\ tags = names
                        /\ IsInjective(names) => IsInjective(tags)
          ELSE tags = c.only
=============================================================================
