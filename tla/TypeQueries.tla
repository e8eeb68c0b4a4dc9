---------------------------- MODULE TypeQueries ----------------------------
(***************************************************************************)
(* Types, their flags and fingerprints, the constraints and patterns they  *)
(* are tested by (core/types.rs, query/pattern.rs) and the query engine's  *)
(* searches over a universe (query/engine.rs).  A universe is made by a    *)
(* sequence of insert_type calls, each an id with a kind.  Hashes are      *)
(* taken to be injective.  Scores are in millionths, rounded down.         *)
(***************************************************************************)
EXTENDS Integers, Sequences, SequencesExt, Maps

Primitive(prim) == [is |-> "Primitive", prim |-> prim]
Bootstrap == [i \in 1..18 |-> [id |-> i, kind |-> Primitive(
                 CASE i = 1 -> "bool" [] i \in 2..12 -> "integer" [] i \in 13..14 -> "float"
                   [] i \in 15..16 -> "complex" [] i = 17 -> "string" [] OTHER -> "nilable")]]

\* Flags of a kind before COMPOSITE is added for every kind not basic and not named.
OwnFlags(kind) ==
    CASE kind.is = "Primitive" ->
             {"BASIC"} \cup CASE kind.prim \in {"bool", "complex"} -> {"COMPARABLE"}
                              [] kind.prim \in {"string", "integer"} -> {"COMPARABLE", "ORDERED"}
                              [] kind.prim = "float" -> {"ORDERED"}
                              [] OTHER -> {"NILABLE"}
      [] kind.is \in {"Named", "Tuple"} -> {kind.is}
      [] kind.is \in {"Pointer", "Slice", "Map", "Chan", "Func"} -> {kind.is, "NILABLE"}
      [] kind.is = "Array" -> {"Array", "COMPARABLE"}
      [] kind.is = "Interface" -> {"Interface", "NILABLE"}
      [] kind.is = "TypeParam" -> {"TypeParam", "GENERIC"}
      [] kind.is = "Signature" -> {"Func"}
      [] OTHER -> {kind.is}
flags(kind) == OwnFlags(kind) \cup IF OwnFlags(kind) \cap {"BASIC", "Named"} = {} THEN {"COMPOSITE"} ELSE {}
contains(has, other) == has \cap other # {}

compute_fingerprint(id, kind) == <<id, kind.is>>
Type(id, kind) == [id |-> id, kind |-> kind, flags |-> flags(kind), fingerprint |-> compute_fingerprint(id, kind)]

\* insert_type: an id that is there keeps its type, and is listed again all the same.
Inserted(u, call) ==
    LET typ == Type(call.id, call.kind)
        fp == typ.fingerprint
        listed == IF Has(u.listed, fp) THEN u.listed[fp] ELSE <<>>
    IN  [types |-> IF Has(u.types, call.id) THEN u.types ELSE Put(u.types, call.id, typ),
         listed |-> Put(u.listed, fp, Append(listed, call.id))]
Universe(calls) == FoldLeft(Inserted, [types |-> NoMap, listed |-> NoMap], calls)

find_similar_types(u, fp) == IF Has(u.listed, fp) THEN u.listed[fp] ELSE <<>>
identical(typ, other) == typ.id = other.id \/ typ.fingerprint = other.fingerprint
implements(typ, interface) ==
    interface.kind.is = "Interface" /\ (typ.kind.is = "Interface" \/ interface.kind.implicit)

-----------------------------------------------------------------------------
(* Constraints of generic parameters.                                      *)

type_matches(u, typ, target) == typ.id = target \/ (Has(u.types, target) /\ identical(typ, u.types[target]))
type_satisfies_constraint(u, typ, id) ==
    /\ Has(u.types, id)
    /\ LET constraint == u.types[id]
       IN  IF constraint.kind.is # "Interface" THEN identical(typ, constraint)
           ELSE constraint.kind.methods = {} \/ implements(typ, constraint)

satisfied_by(u, c, typ) ==
    CASE c.is = "Any" -> TRUE
      [] c.is \in {"COMPARABLE", "ORDERED"} -> contains(typ.flags, {c.is})
      [] c.is = "Approx" -> typ.id = c.id \/ (typ.kind.is = "Named" /\ typ.kind.underlying = c.id)
      [] c.is = "Union" -> \E id \in c.ids : type_matches(u, typ, id)
      [] c.is = "Intersection" -> \A id \in c.ids : type_satisfies_constraint(u, typ, id)
      [] c.is = "Implements" -> Has(u.types, c.id) /\ implements(typ, u.types[c.id])

-----------------------------------------------------------------------------
(* Patterns.  Of a kind pattern only an array's length and a channel's     *)
(* direction are compared; a structural pattern matches everything.        *)

KindMatches(p, kind) ==
    /\ p.is = kind.is
    /\ p.is = "Array" => p.len \in {"any", kind.len}
    /\ p.is = "Chan" => p.dir \in {"Any", kind.dir}

RECURSIVE matches(_, _)
matches(p, typ) ==
    CASE p.is \in {"Any", "Structural"} -> TRUE
      [] p.is = "Exact" -> typ.id = p.id
      [] p.is = "Kind" -> KindMatches(p.kind, typ.kind)
      [] p.is = "Flags" -> contains(typ.flags, p.flags)
      [] p.is = "Name" -> typ.kind.is = "Named" /\ typ.kind.name \in p.names
      [] p.is = "All" -> \A i \in DOMAIN p.of : matches(p.of[i], typ)
      [] p.is = "AnyOf" -> \E i \in DOMAIN p.of : matches(p.of[i], typ)
      [] p.is = "Not" -> ~matches(p.of, typ)

\* and, or: a pattern of that form takes the other in.
Joined(form, p, q) == [is |-> form, of |-> IF p.is = form THEN Append(p.of, q) ELSE <<p, q>>]
and(p, q) == Joined("All", p, q)
or(p, q) == Joined("AnyOf", p, q)
not(p) == [is |-> "Not", of |-> p]

-----------------------------------------------------------------------------
(* Searches.                                                               *)

query_by_fingerprint(u, fp) ==
    {[item |-> id, exact |-> u.types[id].fingerprint = fp] :
        id \in ToSet(find_similar_types(u, fp)) \cap DOMAIN u.types}

One == 1000000
NaN == -1    \* a comparison with it is false, and arithmetic on it gives it again
Times(score, part, whole) == IF score = NaN THEN NaN ELSE (score * part) \div whole
Plus(score, other) == IF NaN \in {score, other} THEN NaN ELSE score + other

RECURSIVE compute_similarity(_, _, _)
Compared(u, id, other) ==
    IF Has(u.types, id) /\ Has(u.types, other) THEN compute_similarity(u, u.types[id], u.types[other]) ELSE 0

struct_similarity(u, a, b) ==
    LET pairs == SetToSeq({p \in (DOMAIN a) \X (DOMAIN b) : a[p[1]].name = b[p[2]].name})
        total == FoldLeft(LAMBDA sum, p : Plus(sum, Compared(u, a[p[1]].typ, b[p[2]].typ)), 0, pairs)
        coverage == (Len(pairs) * One) \div (IF Len(a) > Len(b) THEN Len(a) ELSE Len(b))
    IN  CASE <<>> \in {a, b} -> IF a = b THEN One \div 2 ELSE 0
          [] pairs = <<>> -> 0
          [] OTHER -> Plus(Times(coverage, 3, 10), Times(total, 7, 10 * Len(pairs)))

params_similarity(u, a, b) ==
    CASE Len(a) # Len(b) -> 0
      [] a = <<>> -> NaN
      [] OTHER -> Times(FoldLeft(LAMBDA sum, i : Plus(sum, Compared(u, a[i], b[i])), 0, [i \in DOMAIN a |-> i]),
                        1, Len(a))

compute_similarity(u, a, b) ==
    CASE a.id = b.id -> One
      [] a.fingerprint = b.fingerprint -> (One * 95) \div 100
      [] a.kind.is # b.kind.is -> 0
      [] a.kind.is = "Struct" -> struct_similarity(u, a.kind.fields, b.kind.fields)
      [] a.kind.is = "Func" -> Plus(Times(params_similarity(u, a.kind.params, b.kind.params), 6, 10),
                                    Times(params_similarity(u, a.kind.results, b.kind.results), 4, 10))
      [] a.kind.is \in {"Pointer", "Slice", "Array"} -> Times(Compared(u, a.kind.elem, b.kind.elem), 9, 10)
      [] OTHER -> 0

find_similar(u, id, threshold) ==
    IF ~Has(u.types, id) THEN {}
    ELSE {other \in ToSet(find_similar_types(u, u.types[id].fingerprint)) \cap DOMAIN u.types :
             other # id /\ compute_similarity(u, u.types[id], u.types[other]) >= threshold}

\* find_implementors and find_comparable_types answer nothing.
find_by_constraint(u, c) ==
    IF c.is = "AssignableTo" /\ Has(u.types, c.id) THEN query_by_fingerprint(u, u.types[c.id].fingerprint) ELSE {}

-----------------------------------------------------------------------------
(* The reference.                                                          *)

RECURSIVE Means(_, _)
Means(p, ids) ==    \* the types among ids that a pattern stands for
    CASE p.is = "All" -> {t \in ids : \A i \in DOMAIN p.of : t \in Means(p.of[i], ids)}
      [] p.is = "AnyOf" -> UNION {Means(p.of[i], ids) : i \in DOMAIN p.of}
      [] p.is = "Not" -> ids \ Means(p.of, ids)
      [] OTHER -> {t \in ids : matches(p, t)}

RepeatsName(kind) ==
    kind.is = "Struct" /\ \E i, j \in DOMAIN kind.fields : i # j /\ kind.fields[i].name = kind.fields[j].name
Empty(kind) == kind.is = "Func" /\ <<>> \in {kind.params, kind.results}

\* Of the types inserted, two with one id are one type.  Conjunction, disjunction and
\* negation of patterns mean intersection, union and complement, however they were
\* built.  A union of types is satisfied by its members only, an intersection by what
\* satisfies each.  Similarity is symmetric and at most 1, repeated field names aside, 1
\* for a type with itself, and undefined only for functions that take or return nothing.
\* Search by similarity finds other types, and search by fingerprint only types of that
\* id.
TypeQueriesRight(calls, p, q, r) ==
    LET u == Universe(calls)
        all == {u.types[id] : id \in DOMAIN u.types}
        strange == \E t \in all : RepeatsName(t.kind)
    IN  /\ \A id \in DOMAIN u.types :
               u.types[id].kind = calls[CHOOSE i \in DOMAIN calls :
                   calls[i].id = id /\ \A j \in 1..(i - 1) : calls[j].id # id].kind
        /\ Means(or(and(p, q), r), all) = (Means(p, all) \cap Means(q, all)) \cup Means(r, all)
        /\ Means(and(or(p, q), not(r)), all) = (Means(p, all) \cup Means(q, all)) \ Means(r, all)
        /\ {t \in all : matches(not(and(or(p, q), r)), t)} = Means(or(not(or(p, q)), not(r)), all)
        /\ \A ids \in SUBSET (DOMAIN u.types \cup {0}) : \A t \in all :
               /\ satisfied_by(u, [is |-> "Union", ids |-> ids], t) <=> t.id \in ids
               /\ satisfied_by(u, [is |-> "Intersection", ids |-> ids], t) <=>
                      \A id \in ids : satisfied_by(u, [is |-> "Intersection", ids |-> {id}], t)
               /\ satisfied_by(u, [is |-> "Intersection", ids |-> {t.id}], t)
               /\ satisfied_by(u, [is |-> "Approx", id |-> t.id], t)
        /\ \A a, b \in all :
               LET s == compute_similarity(u, a, b)
               IN  /\ strange \/ s = compute_similarity(u, b, a)
                   /\ strange \/ s <= One
                   /\ a = b => s = One
                   /\ s = NaN => \E t \in all : Empty(t.kind)
        /\ \A id \in DOMAIN u.types : \A threshold \in {0, One} : \A other \in find_similar(u, id, threshold) :
               other # id /\ other \in DOMAIN u.types
        /\ \A fp \in DOMAIN u.listed :
               {found.item : found \in query_by_fingerprint(u, fp)} = {fp[1]}
        /\ \A id \in DOMAIN u.types :
               find_by_constraint(u, [is |-> "AssignableTo", id |-> id]) = {[item |-> id, exact |-> TRUE]}
=============================================================================
