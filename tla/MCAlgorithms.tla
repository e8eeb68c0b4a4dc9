---------------------------- MODULE MCAlgorithms ----------------------------
(***************************************************************************)
(* Small inputs for every algorithm of Algorithms: every combination of a  *)
(* few types, expressions, packages, lines or numbers, chosen so that each *)
(* branch of the code is taken.  Beside them runs the incremental database *)
(* in which queries memoize answers of that kind; a behaviour is either    *)
(* one question and its answer or one of the database's.                   *)
(***************************************************************************)
EXTENDS Algorithms, MCIncrementalDb, Sequences, FiniteSets

VARIABLE part

AtMost(S, n) == UNION {[1..k -> S] : k \in 0..n}

(* Universes for the method sets: three types, made of each other in every *)
(* way, cycles too.                                                        *)
Ids == 1..3
Method(name, sig) == [name |-> name, sig |-> sig]
Kinds == [is : {"Named"}, underlying : Ids] \cup [is : {"Pointer"}, elem : Ids \cup {4}]
         \cup {[is |-> "Primitive"]} \cup [is : {"Struct"}, embedded : {<<1>>, <<2>>, <<2, 3>>, <<3, 2>>}]
         \cup [is : {"Interface"}, methods : {<<Method("M", 2)>>, <<Method("M", 9), Method("K", 9)>>},
               embedded : {<<>>, <<3>>, <<2>>}]
Registered == [Value |-> [i \in Ids |-> [M |-> i]], Pointer |-> [i \in {1, 2} |-> [M |-> 10 + i, N |-> i]]]
MethodSetQuestions ==
    {[universe |-> [kinds |-> kinds, methods |-> Registered], id |-> 1, other |-> 2] : kinds \in [Ids -> Kinds]}

(* Universes for the queries: bool, int and three more, two of one id.     *)
Func(params, results) == [is |-> "Func", params |-> params, results |-> results]
Field(name, typ) == [name |-> name, typ |-> typ]
SomeKinds == {Func(<<>>, <<1>>), Func(<<1, 2>>, <<2>>), Func(<<2, 2>>, <<2>>),
              [is |-> "Struct", fields |-> <<>>], [is |-> "Struct", fields |-> <<Field("a", 1), Field("b", 2)>>],
              [is |-> "Struct", fields |-> <<Field("b", 2), Field("c", 1)>>],
              [is |-> "Struct", fields |-> <<Field("a", 2), Field("a", 1)>>],
              [is |-> "Named", name |-> "T", underlying |-> 2], [is |-> "Pointer", elem |-> 1],
              [is |-> "Array", len |-> 3, elem |-> 1], [is |-> "Chan", dir |-> "Both"], [is |-> "Tuple"],
              [is |-> "Interface", methods |-> {}, implicit |-> TRUE],
              [is |-> "Interface", methods |-> {"M"}, implicit |-> FALSE]}
LeafPatterns == {[is |-> "Exact", id |-> 3], [is |-> "Flags", flags |-> {"NILABLE", "Struct"}],
                 [is |-> "Name", names |-> {"T"}], [is |-> "Kind", kind |-> [is |-> "Array", len |-> "any"]],
                 [is |-> "Kind", kind |-> [is |-> "Chan", dir |-> "Send"]]}
Call(id, kind) == [id |-> id, kind |-> kind]
TypeQueryQuestions ==
    [calls : {<<Types!Bootstrap[1], Types!Bootstrap[2], Call(3, k), Call(4, l), Call(4, m)>> :
                 k, l \in SomeKinds, m \in {Func(<<1>>, <<>>), [is |-> "Pointer", elem |-> 2]}},
     patterns : {<<p, q, [is |-> "Structural"]>> : p \in LeafPatterns, q \in {[is |-> "Any"], [is |-> "Exact", id |-> 4]}}]

(* Expressions over a bound name, an unbound one and an unknown one.       *)
Env == [types |-> [i \in 1..6 |-> Types!Type(i, CASE i <= 2 -> Types!Bootstrap[i].kind
                [] i = 3 -> Func(<<1>>, <<2>>) [] i = 4 -> Func(<<>>, <<>>)
                [] i = 5 -> [is |-> "Struct", fields |-> <<Field("f", 3), Field("g", 9)>>]
                [] i = 6 -> [is |-> "Interface", methods |-> {"M"}, implicit |-> FALSE])],
        symbols |-> {"x", "fn", "s"}, bindings |-> [fn |-> 3, s |-> 5, v |-> 4]]
Name(n) == [is |-> "Identifier", name |-> n]
Leaves == {Name("x"), Name("fn"), Name("v"), Name("s"), Name("unknown"), [is |-> "Literal"],
           [is |-> "Composite", typ |-> 5, elements |-> <<>>], [is |-> "TypeAssertion", typ |-> 3, expr |-> Name("x")]}
Over(S) == [is : {"Binary"}, op : {"Add", "Lt"}, left : S, right : {Name("s"), [is |-> "Literal"]}]
           \cup [is : {"Unary"}, op : {"Not", "Recv"}, operand : S] \cup [is : {"Call"}, func : S, args : {<<>>}]
           \cup [is : {"Selector"}, base : S, field : {"f", "g", "h"}] \cup [is : {"Index"}, base : S, index : {Name("x")}]
Expressions == LET once == Leaves \cup Over(Leaves) IN once \cup Over(Over(Leaves))
ExpressionQuestions ==
    [env : {Env}, expr : Expressions, other : {Name("fn"), Name("unknown")}, expected : {{}, {2}, {3}, {6}}]

(* Bodies that make, close, lock and receive, one inside the other.        *)
CallOf(name, args) == [is |-> "Call", func |-> Name(name), args |-> args]
Simple == {Name("ch"), CallOf("make", <<Name("chan")>>), CallOf("make", <<>>), CallOf("close", <<Name("ch")>>),
           [is |-> "Selector", base |-> Name("mu"), field |-> "Lock"],
           [is |-> "Selector", base |-> Name("mu"), field |-> "Unlock"],
           [is |-> "Unary", op |-> "Recv", operand |-> Name("ch")]}
Nested == Simple \cup {CallOf("f", <<e>>) : e \in Simple} \cup {CallOf("make", <<e>>) : e \in Simple}
          \cup {[is |-> "Call", func |-> e, args |-> <<Name("x")>>] : e \in Simple}
          \cup [is : {"Binary"}, left : Simple, right : {CallOf("make", <<Name("chan")>>)}]
          \cup [is : {"Composite"}, elements : {<<e, e>> : e \in Simple}]
          \cup [is : {"Index"}, base : Simple, index : {Name("i")}] \cup [is : {"TypeAssertion"}, expr : Simple]
          \cup [is : {"Unary"}, op : {"Not"}, operand : Simple]
ConcurrencyQuestions == [body : {<<e>> : e \in Nested} \cup {<<e, f>> : e \in Nested, f \in Simple},
                         next : {<<>>} \cup {<<e>> : e \in Simple}]

(* Declarations, with names that are known, that are not, and that fail.   *)
Atoms == {[is |-> "Ident", name |-> "int"], [is |-> "Ident", name |-> "T"], [is |-> "Generic"]}
Fields(S) == [names : {<<>>, <<"a", "b">>}, typ : S]
Above(S) == [is : {"Pointer", "Slice", "Array"}, elem : S] \cup [is : {"Map"}, key : S, value : S]
            \cup [is : {"Chan"}, elem : S, dir : {"Send"}] \cup {[is |-> "Selector", pkg |-> "p", name |-> "U"]}
            \cup [is : {"Func"}, params : {<<f>> : f \in Fields(S)}, results : {<<>>} \cup {<<f>> : f \in Fields(S)}]
            \cup [is : {"Struct"}, fields : {<<f, g>> : f, g \in Fields(S)}]
            \cup [is : {"Interface"}, elems : {<<>>} \cup {<<[is |-> "Union"], [is |-> "Type", typ |-> t]>> : t \in S}
                      \cup {<<[is |-> "Method", name |-> "M", params |-> <<f>>, results |-> <<>>],
                              [is |-> "Type", typ |-> t]>> : f \in Fields(S), t \in S}]
Pointed == {[is |-> "Pointer", elem |-> [is |-> "Ident", name |-> "T"]], [is |-> "Ident", name |-> "T"],
            [is |-> "Slice", elem |-> [is |-> "Generic"]]}
Decls == {[is |-> "Var"]} \cup [is : {"Type"}, name : {"T"}, underlying : Atoms \cup Above(Atoms) \cup Above(Pointed)]
         \cup [is : {"Func"}, recv : BOOLEAN, name : {"f"}, params : {<<f>> : f \in Fields(Atoms)},
               results : {<<>>} \cup {<<f>> : f \in Fields(Atoms)}]
Embedding(typ) == [names |-> <<>>, typ |-> typ]
Second == {[is |-> "Var"],
           [is |-> "Type", name |-> "S", underlying |-> [is |-> "Struct", fields |->
                <<Embedding([is |-> "Slice", elem |-> [is |-> "Ident", name |-> "T"]]), Embedding([is |-> "Generic"])>>]]}
ConversionQuestions == [decls : {<<d, e>> : d \in Decls, e \in Second}, exported : {{"T"}}]

-----------------------------------------------------------------------------
Packages == LET Deps == {<<>>, <<"a">>, <<"b">>, <<"b", "c">>, <<"c", "a">>, <<"d", "c", "a", "b">>}
                Ordered == <<"a", "b", "c">>
            IN  {[i \in 1..3 |-> [name |-> Ordered[i], dependencies |-> deps[i]]] : deps \in [1..3 -> Deps]}

Apis == AtMost([name : {"F", "G"}, signature : {1, 2}], 2)
ApiQuestions == [old : Apis, new : Apis, newer : Apis]

Signature == [params : AtMost({1, 2}, 2), return_type : {1, 2}]
SalsaTypes == [is : {"Int", "Float", "Any", "Bool"}]
              \cup [is : {"Struct"}, fields : {[a |-> 1], [a |-> 1, b |-> 2], [a |-> 2]}]
SignatureQuestions == [expected : Signature, actual : Signature, types : {SalsaTypes}]

Positions == (0..2) \X {0, 1, 6}
PositionQuestions == [range : [start : Positions, end : Positions], pos : Positions]

MCNames == {{}, {"is.."}, {"Count", "..Count"}, {"count", "..s"}, {"..s"}}
Line == Gradual!Lines({{"is.."}, {"Count", "..Count"}})
AnnotationQuestions ==
    [annotated : {0, 1, 2}, unannotated : {0, 1, 99, 150, 250},
     lines : AtMost({l \in Line : Cardinality(l.func) <= 1 /\ Cardinality(l.var) <= 1 /\ (l.func = {} => l.mark = "none")
                                  /\ (l.var = {} => ~l.typed)}, 2),
     again : {<<>>, <<[func |-> {{}}, mark |-> "arrow", var |-> {}, typed |-> FALSE]>>,
              <<[func |-> {{}}, mark |-> "none", var |-> {}, typed |-> FALSE]>>}]
ModeQuestions == [left : {"Any", "Int", "Bool"}, right : {"Any", "Int"}, state : Gradual!AnnotationState]
PartialQuestions ==
    [p : {p \in [known_types : UNION {[known -> {"Int", "Bool"}] : known \in SUBSET MCNames}, unknowns : SUBSET MCNames] :
              DOMAIN p.known_types \cap p.unknowns = {}},
     name : MCNames, typ : {"Int", "Array"}]

Heads == {<<>>, << <<"module", "m">>, <<"go", "1.21">> >>, << <<"module", "quotes">> >>}
Entries == {<<"p">>, <<"p", "v1">>, <<"p", "v2", "//", "indirect">>, <<"q", "=>", "r", "v1">>,
            <<"q", "v1", "=>", "r">>, <<"q", "=>">>, <<"[", "v1", ",", "v2", "]">>, <<"fmt", "=>", "x">>}
GoModQuestions == [head : Heads, kind : Modules!Blocks, entries : AtMost(Entries, 2) \ {<<>>},
                   more : {<<>>, << <<"q", "v3">> >>, << <<"p", "=>", "s", "v1">> >>}]

Versions == AtMost({1, 2, -1}, 2) \cup {<<1, 2, 2>>}
Dirs == {<<>>, <<"x">>, <<"x", "y">>, <<"z">>}
VersionQuestions == [a : Versions, b : Versions, c : Versions, dirs : {{<<"x">>}}, start : {<<"x", "y">>}]
                    \cup [a : {<<1>>}, b : {<<2>>}, c : {<<1>>}, dirs : SUBSET Dirs, start : Dirs]

Texts == AtMost({"c", "w", "n"}, 3)
EditQuestions == [text : Texts, from : (0..2) \X (0..3), to : (0..2) \X (0..3), new : {<<>>, <<"w", "n">>}]

FileLine == {<<>>, <<"import", "quote", "fmt", "quote">>, <<"import", "fmt">>, <<"important", "quote", "x", "quote">>,
             <<"func", "Foo", "(", "x", ")">>, <<"func", "foo", "(", "x", ")">>, <<"func", "(", "r", ")", "Bar", "(", ")">>,
             <<"func", "(", "r", ")">>, <<"func", "(", "r">>, <<"func">>, <<"func", "Foo">>, <<"other">>}
FileQuestions == [lines : AtMost(FileLine, 2), more : AtMost(FileLine, 1)]

Soft == [severity : {"Hint", "Warning", "Error", "Fatal"}, suggestion : {{}}]
ReportQuestions == [hard : AtMost(Report!ValidationError, 2), soft : AtMost(Soft, 2)]
SomeStats == [calls : {0, 1, 2}, time : {0, 7, 8, 9, 10, 11, 20, 21, 22}]
BudgetQuestions ==
    [budget : [time : {0, 10}, memory : {10}],
     metrics : [queries : [{} -> SomeStats] \cup [{"a", "b"} -> SomeStats], memory : {0, 9, 10, 11}, hit_rate : {49, 50},
                total_queries : {100, 101}],
     more : {1}]

MCQuestions ==
    [a \in ClosedAlgorithms \cup WalkAlgorithms |->
        CASE a = "method_sets" -> MethodSetQuestions [] a = "type_queries" -> TypeQueryQuestions
          [] a = "expressions" -> ExpressionQuestions [] a = "concurrency" -> ConcurrencyQuestions
          [] a = "conversion" -> ConversionQuestions [] a = "import_cycles" -> Packages
          [] a = "apis" -> ApiQuestions [] a = "signatures" -> SignatureQuestions
          [] a = "positions" -> PositionQuestions [] a = "annotations" -> AnnotationQuestions
          [] a = "modes" -> ModeQuestions [] a = "partial_inference" -> PartialQuestions
          [] a = "go_mods" -> GoModQuestions [] a = "versions" -> VersionQuestions
          [] a = "edits" -> EditQuestions [] a = "file_queries" -> FileQuestions
          [] a = "reports" -> ReportQuestions [] a = "budgets" -> BudgetQuestions]

-----------------------------------------------------------------------------
\* Any question stands for none while the database runs.
NoQuestion == <<"apis", CHOOSE q \in ApiQuestions : TRUE>>

AnswersInit ==
    \/ part = "algorithms" /\ QuestionInit /\ Init
    \/ part = "database" /\ Init /\ question = NoQuestion /\ answered = FALSE

AnswersNext ==
    \/ part = "algorithms" /\ AlgorithmsNext /\ UNCHANGED <<part, vars>>
    \/ part = "database" /\ Next /\ UNCHANGED <<part, questionVars>>

AnswersSpec ==
    /\ AnswersInit
    /\ [][AnswersNext]_<<part, questionVars, vars>>
    /\ part = "database" => Fairness
=============================================================================
