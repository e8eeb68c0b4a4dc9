---------------------------- MODULE ClosedForms ----------------------------
(***************************************************************************)
(* The algorithms whose answer is one expression of their inputs, asked    *)
(* one question each: <<algorithm, inputs...>>.  Those that walk over a    *)
(* structure are asked by Algorithms.                                      *)
(***************************************************************************)
EXTENDS Integers, Sequences, FiniteSets

CONSTANTS Questions,    \* from the algorithms to the sets of inputs
          Identifiers,  \* the names of functions and variables
          U32           \* how many numbers a u32 has: 2^32

VARIABLES question, answered
questionVars == <<question, answered>>

Semantic == INSTANCE SemanticChecks
Gradual == INSTANCE GradualTyping
Modules == INSTANCE GoModules
Report == INSTANCE Reports
Text == INSTANCE SourceText

ClosedAlgorithms == {"apis", "signatures", "positions", "annotations", "modes", "partial_inference",
                     "versions", "edits", "reports", "budgets"}

\* What PerformanceBudget is asked about: limits, and the statistics of a collector whose
\* queries were called less than 2^32 times each.
Budgets == [time : Nat, memory : Nat]
Stats == [calls : 0..(U32 - 1), time : Nat]
Measured(metrics) ==
    /\ metrics \in [queries : {metrics.queries}, memory : Nat, hit_rate : Nat, total_queries : Nat]
    /\ \A name \in DOMAIN metrics.queries : metrics.queries[name] \in Stats

\* The types of the inputs, as the signatures of the code give them: types by number,
\* unsigned lines, columns, counts, times and bytes (a column has room for a word),
\* versions of numbers or -1, and paths.
Typed(algorithm, q) ==
    CASE algorithm = "signatures" -> {q.expected.params, q.actual.params} \subseteq Seq(Int)
      [] algorithm = "positions" -> /\ {q.range.start, q.range.end} \subseteq Nat \X Nat
                                    /\ q.pos \in Nat \X (0..(U32 - 6))
      [] algorithm = "annotations" -> /\ {q.annotated, q.unannotated} \subseteq Nat
                                      /\ {q.lines, q.again} \subseteq Seq(Gradual!Lines(Identifiers))
      [] algorithm = "versions" -> /\ {q.a, q.b, q.c} \subseteq Seq(Int)
                                   /\ q.dirs \cup {q.start} \subseteq Seq(STRING)
      [] algorithm = "partial_inference" -> Gradual!Inference(q.p, Identifiers)
      [] algorithm = "edits" -> /\ {q.text, q.new} \subseteq Seq({"c", "w", "n"})
                                /\ {q.from, q.to} \subseteq Nat \X Nat
      [] algorithm = "reports" -> q.hard \in Seq(Report!ValidationError) /\ q.soft \in Seq(Report!SoftErrors)
      [] algorithm = "budgets" -> q.budget \in Budgets /\ Measured(q.metrics) /\ q.more \in Nat
      [] OTHER -> TRUE
ASSUME U32Type == U32 \in Nat /\ U32 > 1
ASSUME IdentifiersFinite == IsFiniteSet(Identifiers)
ASSUME QuestionsTyped ==
    \A a \in ClosedAlgorithms \cap DOMAIN Questions : \A q \in Questions[a] : Typed(a, q)

QuestionInit == /\ \E a \in DOMAIN Questions : question \in {a} \X Questions[a]
        /\ answered = FALSE
Answer(algorithms) == question[1] \in algorithms /\ ~answered /\ answered' = TRUE /\ UNCHANGED question
ClosedSpec == QuestionInit /\ [][Answer(DOMAIN Questions)]_questionVars

\* Every answer in closed form is right: API changes, signatures and positions
\* (semantic/), annotations and gradual modes (salsa_full/gradual.rs), guesses from names
\* (salsa_full/on_demand.rs), versions, module roots and look-ups (core/gomod.rs,
\* core/xpackage.rs), edits by position and by offset (salsa/, salsa_full/inputs.rs),
\* collected errors (validate/error.rs) with their diagnostics, and the status of a budget
\* (salsa_full/metrics.rs).
ClosedAnswersRight ==
    answered => LET q == question[2] IN
        CASE question[1] = "apis" -> Semantic!ApisRight(q.old, q.new, q.newer)
          [] question[1] = "signatures" -> Semantic!SignaturesRight(q.expected, q.actual, q.types)
          [] question[1] = "positions" -> Semantic!PositionsRight(q.range, q.pos, "f", "S")
          [] question[1] = "annotations" -> Gradual!AnnotationsRight(q.annotated, q.unannotated, q.lines, q.again)
          [] question[1] = "modes" -> Gradual!ModesRight(q.left, q.right, q.state)
          [] question[1] = "versions" -> Modules!VersionsRight(q.a, q.b, q.c, q.dirs, q.start)
          [] question[1] = "partial_inference" -> Gradual!PartialInferenceRight(q.p, q.name, q.typ)
          [] question[1] = "edits" -> Text!EditsRight(q.text, q.from, q.to, q.new)
          [] question[1] = "reports" -> Report!ReportsRight(q.hard, q.soft, 1)
          [] question[1] = "budgets" -> Report!BudgetsRight(q.budget, q.metrics, q.more)
          [] OTHER -> TRUE
=============================================================================
