--------------------------- MODULE GradualTyping ---------------------------
(***************************************************************************)
(* Gradual typing of files (salsa_full/gradual.rs) and the inference of    *)
(* types from names (there and in salsa_full/on_demand.rs).  A line is the *)
(* function and the variable it declares and whether it says their types;  *)
(* a name is the set of the patterns it matches; an option is a set of at  *)
(* most one element.                                                       *)
(***************************************************************************)
EXTENDS Integers, Sequences, SequencesExt, FiniteSets, Maps

GradualMode == {"Static", "Gradual", "Dynamic"}
AnnotationState == {"FullyAnnotated", "PartiallyAnnotated", "Unannotated"}
Lines(names) ==
    [func : SUBSET names, mark : {"none", "colon", "arrow"}, var : SUBSET names, typed : BOOLEAN]

strictness(mode) == CASE mode = "Static" -> 3 [] mode = "Gradual" -> 2 [] mode = "Dynamic" -> 1
allows_untyped(mode) == mode # "Static"
requires_annotations(mode) == mode = "Static"

Coverage(annotated, unannotated) ==
    IF annotated + unannotated = 0 THEN 100 ELSE (annotated * 100) \div (annotated + unannotated)
State(coverage) ==
    CASE coverage = 100 -> "FullyAnnotated" [] coverage = 0 -> "Unannotated" [] OTHER -> "PartiallyAnnotated"

\* A name may be in both sets: a function annotated here and assigned, or declared, there.
TypeAnnotations(lines) ==
    LET all == ToSet(lines)
        annotated == UNION {l.func : l \in {k \in all : k.mark # "none"}}
        unannotated == (UNION {l.func : l \in {k \in all : k.mark = "none"}})
                       \cup (UNION {l.var : l \in {k \in all : ~k.typed}})
        coverage == Coverage(Cardinality(annotated), Cardinality(unannotated))
    IN  [annotated |-> annotated, unannotated |-> unannotated, coverage_percent |-> coverage,
         state |-> State(coverage)]
analyze_annotations(annotations, file, lines) == Put(annotations, file, TypeAnnotations(lines))

Mismatch(differ) == IF differ THEN <<"TypeMismatch">> ELSE <<>>
Result(errors, warnings) == [is_valid |-> errors = <<>>, errors |-> errors, warnings |-> warnings]
check(mode, ty1, ty2, state) ==
    CASE mode = "Static" ->
             Result(Mismatch(ty1 # ty2), IF state = "FullyAnnotated" THEN <<>> ELSE <<"MissingTypeAnnotation">>)
      [] mode = "Gradual" /\ "Any" \in {ty1, ty2} -> Result(<<>>, <<"DynamicTypeUsage">>)
      [] mode = "Gradual" /\ "Any" \notin {ty1, ty2} -> Result(Mismatch(ty1 # ty2), <<>>)
      [] mode = "Dynamic" -> Result(<<>>, <<>>)
should_check_strictly(mode, state) ==
    mode = "Static" \/ (mode = "Gradual" /\ state = "FullyAnnotated")

\* The percentage is doubled: a partly annotated file counts for half.
calculate_progress(annotations) ==
    LET In(state) == Cardinality({f \in DOMAIN annotations : annotations[f].state = state})
        total == Cardinality(DOMAIN annotations)
        fully == In("FullyAnnotated")
        partial == In("PartiallyAnnotated")
    IN  [total_files |-> total, fully_typed |-> fully, partially_typed |-> partial,
         untyped |-> total - fully - partial,
         twice_complete |-> IF total = 0 THEN 0 ELSE ((2 * fully + partial) * 100) \div total]

\* The result of the first test that passes.
First(tests) ==
    LET passed == {i \in DOMAIN tests : tests[i][1]}
    IN  IF passed = {} THEN {} ELSE {tests[CHOOSE i \in passed : \A j \in passed : i <= j][2]}
Hits(name, patterns) == name \cap patterns # {}
infer_return_type_from_name(name) ==
    First(<< <<Hits(name, {"is..", "has..", "Enabled"}), "Bool">>,
             <<Hits(name, {"Count", "Num", "Len"}), "Int">>,
             <<Hits(name, {"Name", "Text", "String"}), "String">> >>)
infer_type_from_name(name) ==
    First(<< <<Hits(name, {"..Count", "..Index", "..Id"}), "Int">>,
             <<Hits(name, {"name", "text", "title"}), "String">>,
             <<Hits(name, {"is..", "has.."}), "Bool">>,
             <<Hits(name, {"..s"}), "Array">> >>)

\* Of a line, the function's suggestion and the variable's; a function with an arrow ends
\* its line's.  The order of the lines is left out.
Suggested(line) ==
    IF line.func # {} /\ line.mark = "arrow" THEN {}
    ELSE (UNION {{n} \X infer_return_type_from_name(n) : n \in line.func})
         \cup (UNION {{n} \X infer_type_from_name(n) : n \in line.var})
suggest_types(lines) == UNION {Suggested(line) : line \in ToSet(lines)}

-----------------------------------------------------------------------------
(* PartialInference (salsa_full/on_demand.rs).                             *)

NewInference == [known_types |-> NoMap, unknowns |-> {}]
add_known(p, name, typ) == [known_types |-> Put(p.known_types, name, typ), unknowns |-> p.unknowns \ {name}]
add_unknown(p, name) == IF Has(p.known_types, name) THEN p ELSE [p EXCEPT !.unknowns = @ \cup {name}]
infer_from_name(name) ==
    First(<< <<Hits(name, {"count", "num", "..Id"}), "Int">>,
             <<Hits(name, {"name", "text", "str"}), "String">>,
             <<Hits(name, {"is..", "has..", "enabled"}), "Bool">>,
             <<Hits(name, {"list", "..s"}), "Array">> >>)
infer_unknowns(p) ==
    LET inferred == {n \in p.unknowns : infer_from_name(n) # {}}
    IN  [known_types |-> [n \in DOMAIN p.known_types \cup inferred |->
                             IF n \in inferred THEN CHOOSE t \in infer_from_name(n) : TRUE ELSE p.known_types[n]],
         unknowns |-> p.unknowns \ inferred]
completeness(p) == Coverage(Cardinality(DOMAIN p.known_types), Cardinality(p.unknowns))

-----------------------------------------------------------------------------
(* The reference.                                                          *)

\* A file counts as fully annotated when nothing of it is unannotated, and as unannotated
\* when nothing of it is annotated and something is not; what is
\* suggested is for a name without annotation, a variable whose type a comment says or a
\* function annotated by a colon only; analysing a file again replaces what was known of
\* it and of no other; and the files of a migration are each in one state, complete
\* exactly when all are fully annotated.
AnnotationsRight(a, u, lines, again) ==
    LET found == TypeAnnotations(lines)
        one == analyze_annotations(NoMap, "one", lines)
        two == analyze_annotations(one, "two", again)
        progress == calculate_progress(two)
    IN  /\ (State(Coverage(a, u)) = "FullyAnnotated") <=> u = 0
        /\ a = 0 /\ u > 0 => State(Coverage(a, u)) = "Unannotated"
        /\ \A suggestion \in suggest_types(lines) :
               \/ suggestion[1] \in found.unannotated
               \/ \E l \in ToSet(lines) : \/ l.typed /\ suggestion[1] \in l.var
                                          \/ l.mark = "colon" /\ suggestion[1] \in l.func
        /\ two["one"] = found /\ analyze_annotations(two, "two", lines)["two"] = found
        /\ progress.untyped \in Nat
        /\ progress.total_files = progress.fully_typed + progress.partially_typed + progress.untyped
        /\ (progress.twice_complete = 200) <=> found.unannotated \cup two["two"].unannotated = {}
        /\ (progress.twice_complete = 0) <=> progress.untyped = progress.total_files
        /\ calculate_progress(NoMap).twice_complete = 0

\* The gradual guarantee: what a stricter mode accepts a laxer one accepts, and where
\* neither side is Any the gradual mode decides as the static one; a laxer mode checks
\* strictly only where a stricter one does.
ModesRight(ty1, ty2, state) ==
    /\ \A m, n \in GradualMode : strictness(m) > strictness(n) =>
           /\ check(m, ty1, ty2, state).is_valid => check(n, ty1, ty2, state).is_valid
           /\ should_check_strictly(n, state) => should_check_strictly(m, state)
           /\ allows_untyped(m) => allows_untyped(n)
    /\ \A m \in GradualMode : requires_annotations(m) = ~allows_untyped(m)
    /\ "Any" \notin {ty1, ty2} =>
           check("Gradual", ty1, ty2, state).is_valid = check("Static", ty1, ty2, state).is_valid
    /\ check("Gradual", ty1, ty2, state).warnings # <<>> <=> "Any" \in {ty1, ty2}

\* What is known and unknown of some names, each one or the other.
Inference(p, names) ==
    /\ p = [known_types |-> [n \in DOMAIN p.known_types |-> p.known_types[n]], unknowns |-> p.unknowns]
    /\ DOMAIN p.known_types \cup p.unknowns \subseteq names /\ DOMAIN p.known_types \cap p.unknowns = {}

\* Whatever is known, no name is both known and unknown after a call; a given type stays
\* until another is given, and a name marked unknown is not forgotten; inferring is done
\* once and changes no known type; and only a new unknown name makes the inference less
\* complete.
PartialInferenceRight(p, name, typ) ==
    LET known == add_known(p, name, typ)
        unknown == add_unknown(p, name)
        inferred == infer_unknowns(p)
        All(q) == DOMAIN q.known_types \cup q.unknowns
    IN  /\ \A q \in {NewInference, known, unknown, inferred} :
               /\ DOMAIN q.known_types \cap q.unknowns = {}
               /\ completeness(q) = 100 <=> q.unknowns = {}
        /\ known.known_types[name] = typ
        /\ \A n \in DOMAIN p.known_types :
               /\ n \in DOMAIN unknown.known_types /\ unknown.known_types[n] = p.known_types[n]
               /\ n \in DOMAIN inferred.known_types /\ inferred.known_types[n] = p.known_types[n]
               /\ n # name => n \in DOMAIN known.known_types /\ known.known_types[n] = p.known_types[n]
        /\ All(known) = All(p) \cup {name} /\ All(unknown) = All(p) \cup {name} /\ All(inferred) = All(p)
        /\ infer_unknowns(inferred) = inferred
        /\ completeness(known) >= completeness(p) /\ completeness(inferred) >= completeness(p)
        /\ completeness(unknown) >= completeness(p) \/ name \notin All(p)
=============================================================================
