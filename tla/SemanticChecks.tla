--------------------------- MODULE SemanticChecks ---------------------------
(***************************************************************************)
(* The consistency checks between modules (semantic/checks.rs), the        *)
(* placeholders the semantic queries and the rename answer with            *)
(* (semantic/queries.rs, semantic/operations.rs) and the files a change    *)
(* affects (salsa_full/incremental.rs).  Messages and locations of issues  *)
(* are left out.                                                           *)
(***************************************************************************)
EXTENDS Integers, Sequences, SequencesExt, FiniteSets, Maps, Relation, TLC

CONSTANT U32    \* how many numbers a u32 has

If(test, issue) == IF test THEN {issue} ELSE {}

\* Signatures: the types of the parameters and of the result; is_variadic is not looked at.
check_method_signature(expected, actual) ==
    LET common == {i \in DOMAIN expected.params : i \in DOMAIN actual.params}
    IN  If(Len(expected.params) # Len(actual.params), <<"ParamCountMismatch">>)
        \cup {<<"ParamTypeMismatch", i>> : i \in {j \in common : expected.params[j] # actual.params[j]}}
        \cup If(expected.return_type # actual.return_type, <<"ReturnTypeMismatch">>)

\* Types of the Salsa layer: records with an "is", a struct with its fields' types.
check_type_compatibility(from, to) ==
    CASE from = to -> "Compatible"
      [] from # to /\ from.is = "Int" /\ to.is = "Float" -> "CompatibleWithConversion"
      [] from # to /\ "Any" \in {from.is, to.is} -> "Compatible"
      [] from # to /\ from.is = "Struct" /\ to.is = "Struct" ->
             IF \A name \in DOMAIN to.fields : Has(from.fields, name) /\ from.fields[name] = to.fields[name]
             THEN "Compatible" ELSE "Incompatible"
      [] OTHER -> "Incompatible"

\* The package a dependency names: the first of that name.
Named(packages, name) == SelectSeq(packages, LAMBDA p : p.name = name)

\* What is visited and found, from a package reached along a path of names.
find_cycles(packages) ==
    LET Find[s \in [visited : SUBSET STRING, cycles : Seq(Seq(STRING))],
             current \in ToSet(packages), path \in Seq(STRING)] ==
            LET Follow(t, dep) ==
                    IF Named(packages, dep) = <<>> THEN t
                    ELSE Find[t, Head(Named(packages, dep)), Append(path, current.name)]
            IN  IF current.name \in ToSet(path)
                THEN [s EXCEPT !.cycles = Append(@,
                         SubSeq(path, CHOOSE i \in DOMAIN path : path[i] = current.name, Len(path)))]
                ELSE IF current.name \in s.visited THEN s
                ELSE FoldLeft(Follow, [s EXCEPT !.visited = @ \cup {current.name}], current.dependencies)
    IN  Find

detect_import_cycles(packages) ==
    FoldLeft(LAMBDA s, pkg : IF pkg.name \in s.visited THEN s ELSE find_cycles(packages)[s, pkg, <<>>],
             [visited |-> {}, cycles |-> <<>>], packages).cycles

\* Of the symbols of one name in a list, the last.
ApiMap(api) == FoldLeft(LAMBDA map, s : Put(map, s.name, s.signature), NoMap, api)
check_api_compatibility(old_api, new_api) ==
    LET old == ApiMap(old_api)
        new == ApiMap(new_api)
        removed == DOMAIN old \ DOMAIN new
        changed == {n \in DOMAIN old \cap DOMAIN new : old[n] # new[n]}
    IN  [is_compatible |-> removed \cup changed = {}, removed |-> removed, changed |-> changed,
         additions |-> DOMAIN new \ DOMAIN old]

\* Keeps its first answer to a file and a name, which never has an issue.
check_interface_implementations(results, file, name) ==
    LET key == <<file, name>>
        result == [interface_name |-> name, issues |-> {}, is_consistent |-> TRUE]
    IN  IF Has(results, key) THEN results ELSE Put(results, key, result)

-----------------------------------------------------------------------------
(* Positions are <<line, character>>.                                      *)

contains(range, pos) ==
    /\ range.start[1] <= pos[1] /\ pos[1] <= range.end[1]
    /\ pos[1] = range.start[1] => pos[2] >= range.start[2]
    /\ pos[1] = range.end[1] => pos[2] <= range.end[2]

\* The queries' cache is never filled, so each answer is the placeholder.
\* Columns are unsigned: a build without overflow checks wraps, one with them panics.
Word(pos) == [start |-> pos, end |-> <<pos[1], (pos[2] + 5) % U32>>]
goto_definition(file, pos) == [path |-> file, range |-> [start |-> <<0, 0>>, end |-> <<0, 10>>]]
find_references(file, pos) == <<[path |-> file, range |-> Word(pos)]>>
find_implementations(file, pos) == <<[path |-> file, range |-> [start |-> <<10, 0>>, end |-> <<20, 10>>]]>>
rename(file, pos) == [changes |-> [f \in {file} |-> <<Word(pos)>>], affected_files |-> 1]

-----------------------------------------------------------------------------
(* The dependency graph.  Nothing records which file imports which.        *)

NewGraph == [file_to_symbols |-> NoMap, symbol_dependents |-> NoMap, file_imports |-> NoMap]
AddTo(map, k, v) == Put(map, k, {v} \cup IF Has(map, k) THEN map[k] ELSE {})
register_symbol(g, file, symbol) == [g EXCEPT !.file_to_symbols = AddTo(@, file, symbol)]
add_dependency(g, from, symbol) == [g EXCEPT !.symbol_dependents = AddTo(@, symbol, from)]

affected_files(g, changed) ==
    LET Spread[affected \in SUBSET STRING, queue \in SUBSET STRING] ==
            IF queue = {} THEN affected
            ELSE LET file == CHOOSE f \in queue : TRUE
                     dependents == IF Has(g.file_imports, file) THEN g.file_imports[file] ELSE {}
                 IN  Spread[affected \cup {file}, (queue \cup dependents) \ (affected \cup {file})]
    IN  Spread[{}, changed]
process_changes(g, changed) == Cardinality(affected_files(g, changed))

-----------------------------------------------------------------------------
(* The reference.                                                          *)

Names(packages) == {p.name : p \in ToSet(packages)}
Depends(packages, n, m) == m \in ToSet(Head(Named(packages, n)).dependencies)
Reaches(packages) ==
    TransitiveClosure([n, m \in Names(packages) |-> Depends(packages, n, m)], Names(packages))

\* A file with a symbol that another file depends on.
GraphOf(file, dependent, symbol) == add_dependency(register_symbol(NewGraph, file, symbol), dependent, symbol)

\* A change affects the changed file, no file that is not in the graph, and as many as
\* process_changes counts.
AffectedRight(file, dependent, symbol) ==
    LET graph == GraphOf(file, dependent, symbol)
        affected == affected_files(graph, {file})
    IN  /\ file \in affected /\ affected \subseteq {file, dependent}
        /\ process_changes(graph, {file}) = Cardinality(affected)

\* A change of a file affects the files that depend on a symbol of it.
DependentAffected(file, dependent, symbol) ==
    dependent \in affected_files(GraphOf(file, dependent, symbol), {file})

\* Every cycle reported is one: each of its packages depends on the next and the last on
\* the first, with none twice; and each group of packages that depend on each other has
\* one reported.
ImportCyclesRight(packages) ==
    LET cycles == detect_import_cycles(packages)
        reaches == Reaches(packages)
    IN  /\ \A i \in DOMAIN cycles :
               /\ IsInjective(cycles[i])
               /\ \A j \in DOMAIN cycles[i] : 
                   Depends(packages, cycles[i][j], cycles[i][(j % Len(cycles[i])) + 1])
        /\ \A n \in Names(packages) : reaches[n, n] =>
               \E i \in DOMAIN cycles : \E m \in ToSet(cycles[i]) : reaches[n, m] /\ reaches[m, n]

\* An API is compatible with itself and with what is compatible with a compatible one;
\* what one direction adds the other removes.
ApisRight(a, b, c) ==
    LET C(x, y) == check_api_compatibility(x, y)
    IN  /\ C(a, a).is_compatible /\ C(a, a).additions = {}
        /\ C(a, b).is_compatible /\ C(b, c).is_compatible => C(a, c).is_compatible
        /\ C(a, b).additions = C(b, a).removed /\ C(a, b).changed = C(b, a).changed
        /\ C(a, b).is_compatible <=> \A n \in DOMAIN ApiMap(a) : Has(ApiMap(b), n) /\ ApiMap(b)[n] = ApiMap(a)[n]

\* Signatures agree when no issue is found, which either side finds; of types other than
\* Any, what can be assigned to an assignable type can be assigned.
SignaturesRight(s, t, types) ==
    /\ (check_method_signature(s, t) = {}) <=> s.params = t.params /\ s.return_type = t.return_type
    /\ check_method_signature(s, t) = check_method_signature(t, s)
    /\ \A x, y, z \in types :
           LET Fits(from, to) == check_type_compatibility(from, to) # "Incompatible"
           IN  /\ Fits(x, x) /\ (x.is = "Any" => Fits(x, y) /\ Fits(y, x))
               /\ y.is # "Any" /\ Fits(x, y) /\ Fits(y, z) => Fits(x, z)

\* A range holds the positions not before its start nor after its end; one of the
\* references found at a position is there, and a rename edits them all; and asking for
\* the implementations of one interface keeps the answers about others.
PositionsRight(range, pos, file, symbol) ==
    LET Before(p, q) == p[1] < q[1] \/ (p[1] = q[1] /\ p[2] < q[2])
        found == find_references(file, pos)
        edits == rename(file, pos).changes
        results == check_interface_implementations(NoMap, file, symbol)
    IN  /\ ~Before(range.end, range.start) =>
               (contains(range, pos) <=> ~Before(pos, range.start) /\ ~Before(range.end, pos))
        /\ \E i \in DOMAIN found : found[i].path = file /\ contains(found[i].range, pos)
        /\ \A i \in DOMAIN found : \E j \in DOMAIN edits[found[i].path] :
               edits[found[i].path][j] = found[i].range
        /\ rename(file, pos).affected_files = Cardinality(DOMAIN edits)
        /\ \A name \in {symbol, "Other"} :
               LET after == check_interface_implementations(results, file, name)
               IN  after[<<file, symbol>>] = results[<<file, symbol>>] /\ after[<<file, name>>].is_consistent
=============================================================================
