----------------------------- MODULE Conversion -----------------------------
(***************************************************************************)
(* TypeConverter (parser/converter.rs): declarations of a Go file become   *)
(* types of the universe, and the package's exported symbols               *)
(* (parser/importer.rs, parser/ast.rs).  s: the types by id, the counter   *)
(* of ids, the id last returned and the error that ends a declaration.     *)
(***************************************************************************)
EXTENDS Integers, Sequences, SequencesExt, FiniteSets, Maps, TLC

MethodsOf == INSTANCE MethodSets

PrimitiveNames == <<"bool", "int", "int8", "int16", "int32", "int64", "uint", "uint8", "uint16", "uint32",
                    "uint64", "uintptr", "float32", "float64", "complex64", "complex128", "string",
                    "unsafe.Pointer">>
NewConverter == [types |-> [i \in DOMAIN PrimitiveNames |-> [is |-> "Primitive"]], next |-> 1000,
                 id |-> 0, error |-> {}]

Insert(s, kind) == [s EXCEPT !.types = Put(@, s.next, kind), !.id = s.next, !.next = @ + 1]
Unresolved(s, pkg, name) == Insert(s, [is |-> "Named", pkg |-> pkg, name |-> name, underlying |-> s.next])

\* A name that is not primitive is not found, since a symbol never leads to a type.
resolve_type_by_name(s, name) ==
    IF \E i \in DOMAIN PrimitiveNames : PrimitiveNames[i] = name
    THEN [s EXCEPT !.id = CHOOSE i \in DOMAIN PrimitiveNames : PrimitiveNames[i] = name]
    ELSE Unresolved(s, "", name)

RECURSIVE get_embedded_field_name(_, _)
get_embedded_field_name(s, id) ==
    CASE s.types[id].is = "Named" -> s.types[id].name
      [] s.types[id].is = "Pointer" -> get_embedded_field_name(s, s.types[id].elem)
      [] OTHER -> "_embedded_" \o ToString(id)

RECURSIVE convert_type_expr(_, _)

\* The type expressions an expression is made of, in the order they are converted, and
\* whether one that fails is dropped.  A method of an interface is converted like a
\* function; approximations and unions are not looked at.
Elements(e) == SelectSeq(e.elems, LAMBDA x : x.is # "Union")
Parts(e) ==
    LET Needed(fields) == [i \in DOMAIN fields |-> [typ |-> fields[i].typ, dropped |-> FALSE]]
    IN  CASE e.is \in {"Pointer", "Slice", "Array", "Chan"} -> Needed(<<[typ |-> e.elem]>>)
          [] e.is = "Map" -> Needed(<<[typ |-> e.key], [typ |-> e.value]>>)
          [] e.is \in {"Func", "Signature"} -> Needed(e.params \o e.results)
          [] e.is = "Struct" -> Needed(e.fields)
          [] e.is = "Interface" ->
                 [i \in DOMAIN Elements(e) |->
                     LET x == Elements(e)[i]
                     IN  IF x.is = "Type" THEN [typ |-> x.typ, dropped |-> TRUE]
                         ELSE [typ |-> [is |-> "Func", params |-> x.params, results |-> x.results],
                               dropped |-> FALSE]]

\* One after the other until one fails; 0 for one that is dropped.
ConvertParts(s, parts) ==
    FoldLeft(LAMBDA acc, x :
                 LET t == convert_type_expr(acc.s, x.typ)
                 IN  CASE acc.s.error # {} -> acc
                       [] acc.s.error = {} /\ t.error = {} -> [s |-> t, ids |-> Append(acc.ids, t.id)]
                       [] acc.s.error = {} /\ t.error # {} ->
                              IF x.dropped THEN [s |-> [t EXCEPT !.error = {}], ids |-> Append(acc.ids, 0)]
                              ELSE [acc EXCEPT !.s = t],
             [s |-> s, ids |-> <<>>], parts)

\* A parameter or a field for each name, or one for none.
Each(fields, ids, Made(_, _)) == FlattenSeq([i \in DOMAIN fields |-> Made(fields[i], ids[i])])
Params(field, id) == IF field.names = <<>> THEN <<[name |-> {}, typ |-> id]>>
                     ELSE [i \in DOMAIN field.names |-> [name |-> {field.names[i]}, typ |-> id]]
convert_fields(fields, ids) == Each(fields, ids, Params)
convert_struct_type(s, fields, ids) ==
    Each(fields, ids, LAMBDA field, id :
        IF field.names = <<>>
        THEN <<[name |-> get_embedded_field_name(s, id), typ |-> id, embedded |-> TRUE]>>
        ELSE [i \in DOMAIN field.names |-> [name |-> field.names[i], typ |-> id, embedded |-> FALSE]])
convert_interface_type(elems, ids) ==
    [is |-> "Interface",
     methods |-> Each(elems, ids, LAMBDA x, id : IF x.is = "Method" THEN <<[name |-> x.name, sig |-> id]>> ELSE <<>>),
     embedded |-> Each(elems, ids, LAMBDA x, id : IF x.is = "Type" /\ id # 0 THEN <<id>> ELSE <<>>)]

\* The kind made of the converted parts; an array's length is not evaluated.
KindOf(s, e, ids) ==
    CASE e.is \in {"Pointer", "Slice"} -> [is |-> e.is, elem |-> ids[1]]
      [] e.is = "Array" -> [is |-> "Array", len |-> 0, elem |-> ids[1]]
      [] e.is = "Chan" -> [is |-> "Chan", dir |-> e.dir, elem |-> ids[1]]
      [] e.is = "Map" -> [is |-> "Map", key |-> ids[1], value |-> ids[2]]
      [] e.is \in {"Func", "Signature"} ->
             [is |-> e.is, params |-> convert_fields(e.params, ids),
              results |-> convert_fields(e.results, SubSeq(ids, Len(e.params) + 1, Len(ids)))]
      [] e.is = "Struct" -> [is |-> "Struct", fields |-> convert_struct_type(s, e.fields, ids)]
      [] e.is = "Interface" -> convert_interface_type(Elements(e), ids)

Composite == {"Pointer", "Slice", "Array", "Chan", "Map", "Func", "Signature", "Struct", "Interface"}
convert_type_expr(s, e) ==
    CASE e.is = "Ident" -> resolve_type_by_name(s, e.name)
      [] e.is = "Selector" -> Unresolved(s, e.pkg, e.name)
      [] e.is \in Composite ->
             LET p == ConvertParts(s, Parts(e))
             IN  IF p.s.error # {} THEN p.s ELSE Insert(p.s, KindOf(p.s, e, p.ids))
      [] OTHER -> [s EXCEPT !.error = {"UnsupportedType"}]

convert_type_spec(s, spec) ==
    LET t == convert_type_expr(s, spec.underlying)
    IN  IF t.error # {} THEN t
        ELSE Insert(t, [is |-> "Named", pkg |-> "", name |-> spec.name, underlying |-> t.id])

convert_func_decl(s, func) ==
    convert_type_expr(s, [is |-> IF func.recv THEN "Signature" ELSE "Func",
                          params |-> func.params, results |-> func.results])

convert_decl(s, decl) ==
    LET fresh == [s EXCEPT !.error = {}]
    IN  CASE decl.is = "Type" -> convert_type_spec(fresh, decl)
          [] decl.is = "Func" -> convert_func_decl(fresh, decl)
          [] OTHER -> fresh

\* PackageImporter::import's two passes over the declarations of the files.
ConvertAll(decls) ==
    FoldLeft(LAMBDA acc, d : LET t == convert_decl(acc.s, d)
                             IN  [s |-> t, imported |-> acc.imported + (IF t.error = {} /\ d.is \in {"Type", "Func"} THEN 1 ELSE 0),
                                  errors |-> acc.errors \o SetToSeq(t.error)],
             [s |-> NewConverter, imported |-> 0, errors |-> <<>>], decls)
Extracted(decls, kind) == SelectSeq(decls, LAMBDA d : d.is = kind)
exports(decls, exported) == SelectSeq(decls, LAMBDA d : d.is \in {"Type", "Func"} /\ d.name \in exported)

-----------------------------------------------------------------------------
(* The reference.                                                          *)

Refers(kind) ==
    CASE kind.is = "Named" -> {kind.underlying}
      [] kind.is \in {"Pointer", "Slice", "Array", "Chan"} -> {kind.elem}
      [] kind.is = "Map" -> {kind.key, kind.value}
      [] kind.is \in {"Func", "Signature"} -> {p.typ : p \in ToSet(kind.params) \cup ToSet(kind.results)}
      [] kind.is = "Struct" -> {f.typ : f \in ToSet(kind.fields)}
      [] kind.is = "Interface" -> {m.sig : m \in ToSet(kind.methods)} \cup ToSet(kind.embedded)
      [] OTHER -> {}

\* The universe as the method sets see it: the ids of the embedded fields only.
AsUniverse(s) ==
    [kinds |-> [id \in DOMAIN s.types |->
         IF s.types[id].is # "Struct" THEN s.types[id]
         ELSE LET held == SelectSeq(s.types[id].fields, LAMBDA f : f.embedded)
              IN  [is |-> "Struct", embedded |-> [i \in DOMAIN held |-> held[i].typ]]],
     methods |-> [r \in MethodsOf!Receivers |-> NoMap]]

\* After any declarations, failed ones among them, every type refers to types that are
\* there, and to older ones, save the placeholder of a name the universe does not know;
\* the method set of a type made of no placeholder is computed; every
\* declaration gives a type or an error, or is of no type; ids are given once, and an
\* embedded field has a name.
ConversionRight(decls, exported) ==
    \A all \in {ConvertAll(decls)} : \A universe \in {AsUniverse(all.s)} :
        LET types == all.s.types
            new == DOMAIN types \ DOMAIN PrimitiveNames
            Placeholder(id) == types[id].is = "Named" /\ types[id].underlying = id
            typed == Extracted(decls, "Type") \o Extracted(decls, "Func")
        IN  /\ new = 1000..(all.s.next - 1)
            /\ \A id \in new : /\ Refers(types[id]) \subseteq DOMAIN types
                               /\ Placeholder(id) \/ \A other \in Refers(types[id]) : other < id
            /\ all.imported + Len(all.errors) = Len(typed)
            /\ \A i \in DOMAIN decls : decls[i].is = "Type" =>
                   \/ \E id \in new : types[id].is = "Named" /\ types[id].name = decls[i].name
                   \/ all.errors # <<>>
            /\ \A id \in new : \A r \in MethodsOf!Receivers :
                   MethodsOf!compute_method_set(universe, id, r) = MethodsOf!Diverges
                     => \E below \in MethodsOf!Below(universe, {<<id, r>>}) :
                             below[2] = "Value" /\ Placeholder(below[1])
            /\ Len(exports(decls, exported)) <= Len(typed)
=============================================================================
