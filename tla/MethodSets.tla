----------------------------- MODULE MethodSets -----------------------------
(***************************************************************************)
(* Method sets (core/method.rs) over a universe: kinds, from type ids to   *)
(* kinds, and methods, from receivers and ids to what register_method      *)
(* added, names to signatures.  compute_method_set recurses through the    *)
(* types as they are, so on a cycle of them it never returns: here a set   *)
(* asked for again below itself Diverges.                                  *)
(***************************************************************************)
EXTENDS Naturals, Sequences, SequencesExt, FiniteSets, Maps, TLC

Receivers == {"Value", "Pointer"}
Diverges == [diverges |-> "always"]
Union(set, other) == IF Diverges \in {set, other} THEN Diverges ELSE set @@ other

\* Methods of one name: the last added stays.
Added(methods) == FoldLeft(LAMBDA set, im : Put(set, im.name, im.sig), NoMap, methods)

get_methods_for_type(u, id, receiver) ==
    IF Has(u.methods[receiver], id) THEN u.methods[receiver][id] ELSE NoMap

\* Promotion: a method that is there already shadows the field's.
Promoted(set, promoted) == Union(set, promoted)

\* above: the calls this one is made in.  That a struct visits an embedded type once
\* only saves time: a second visit finds every method there.
RECURSIVE MethodSet(_, _, _, _)
MethodSet(u, id, receiver, above) ==
    LET kind == u.kinds[id]
        Of(i, r) == MethodSet(u, i, r, above \cup {<<id, receiver>>})
    IN  CASE <<id, receiver>> \in above -> Diverges
          [] id \notin DOMAIN u.kinds -> NoMap
          [] kind.is = "Named" ->
                 LET own == get_methods_for_type(u, id, receiver)
                 IN  IF receiver = "Value" THEN Union(own, Of(kind.underlying, "Value")) ELSE own
          [] kind.is = "Pointer" -> Of(kind.elem, "Pointer")
          [] kind.is = "Interface" ->
                 FoldLeft(LAMBDA set, i : Union(set, Of(i, "Value")), Added(kind.methods), kind.embedded)
          [] kind.is = "Struct" ->
                 FoldLeft(LAMBDA set, i : Promoted(set, Of(i, receiver)), NoMap, kind.embedded)
          [] OTHER -> NoMap

compute_method_set(u, id, receiver) == MethodSet(u, id, receiver, {})
compute_complete_method_set(u, id) ==
    Union(compute_method_set(u, id, "Value"), compute_method_set(u, id, "Pointer"))

\* MethodSet::implements: by name, and by the ids of the signatures.
Implements(set, interface) ==
    \A name \in DOMAIN interface : Has(set, name) /\ set[name] = interface[name]

implements_interface(u, concrete, interface) ==
    LET wanted == compute_method_set(u, interface, "Value")
        given == compute_complete_method_set(u, concrete)
    IN  CASE ~Has(u.kinds, interface) \/ u.kinds[interface].is # "Interface" -> FALSE
          [] Diverges \in {wanted, given} -> Diverges
          [] OTHER -> Implements(given, wanted)

\* TypeUniverse::get_complete_method_set and lookup_method, which promote nothing.
lookup_method(u, id, name) ==
    LET set == Union(get_methods_for_type(u, id, "Value"), get_methods_for_type(u, id, "Pointer"))
    IN  IF Has(set, name) THEN {set[name]} ELSE {}

-----------------------------------------------------------------------------
(* The reference: the types that the set of a type is made from.           *)

Parts(u, node) ==
    LET kind == u.kinds[node[1]]
    IN  CASE ~Has(u.kinds, node[1]) -> {}
          [] kind.is = "Named" /\ node[2] = "Value" -> {<<kind.underlying, "Value">>}
          [] kind.is = "Pointer" -> {<<kind.elem, "Pointer">>}
          [] kind.is = "Interface" -> ToSet(kind.embedded) \X {"Value"}
          [] kind.is = "Struct" -> ToSet(kind.embedded) \X {node[2]}
          [] OTHER -> {}

Own(u, node) ==
    LET kind == u.kinds[node[1]]
    IN  CASE ~Has(u.kinds, node[1]) -> NoMap
          [] kind.is = "Named" -> get_methods_for_type(u, node[1], node[2])
          [] kind.is = "Interface" -> Added(kind.methods)
          [] OTHER -> NoMap

Below(u, from) ==
    LET level[n \in Nat] == IF n = 0 THEN from
                            ELSE LET l == level[n - 1] IN l \cup UNION {Parts(u, x) : x \in l}
    IN  level[2 * Cardinality(DOMAIN u.kinds) + 1]

Cyclic(u, node) == \E x \in Below(u, {node}) : x \in Below(u, Parts(u, x))

\* A method set is computed if the type is not made of itself.  It has the names of every part, each with a signature of that
\* name from a part, and of a type's first embedded field all methods; an interface is
\* satisfied by having its methods; and a method found by name is the complete set's,
\* unless the underlying type has the name too.
MethodSetsRight(u, id, other) ==
    /\ \A r \in Receivers :
           LET set == compute_method_set(u, id, r)
               parts == Below(u, {<<id, r>>})
           IN  \/ Cyclic(u, <<id, r>>)
               \/ /\ DOMAIN set = UNION {DOMAIN Own(u, x) : x \in parts}
                  /\ \A name \in DOMAIN set :
                         \E x \in parts : Has(Own(u, x), name) /\ Own(u, x)[name] = set[name]
                  /\ \A name \in DOMAIN Own(u, <<id, r>>) : set[name] = Own(u, <<id, r>>)[name]
                  /\ u.kinds[id].is = "Struct" /\ u.kinds[id].embedded # <<>> =>
                         LET first == compute_method_set(u, Head(u.kinds[id].embedded), r)
                         IN  \A name \in DOMAIN first : set[name] = first[name]
    /\ LET complete == compute_complete_method_set(u, id)
           wanted == compute_method_set(u, other, "Value")
       IN  Diverges \notin {complete, wanted} =>
               /\ implements_interface(u, id, other) <=>
                      /\ u.kinds[other].is = "Interface"
                      /\ \A name \in DOMAIN wanted : name \in DOMAIN complete
                                                     /\ wanted[name] = complete[name]
               /\ u.kinds[id].is = "Named" =>
                      \A name \in DOMAIN complete : \A sig \in lookup_method(u, id, name) :
                          \/ sig = complete[name]
                          \/ name \in DOMAIN compute_method_set(u, u.kinds[id].underlying, "Value")
=============================================================================
