----------------------------- MODULE Algorithms -----------------------------
(***************************************************************************)
(* The algorithms that compute an answer from their inputs and keep no     *)
(* state, asked one question each: those in closed form and those that     *)
(* walk over types, expressions, declarations, graphs or lines.  Every     *)
(* module states what is right of its answers next to a reference that is  *)
(* simpler than the code.                                                  *)
(***************************************************************************)
EXTENDS ClosedForms

Methods == INSTANCE MethodSets
Types == INSTANCE TypeQueries
Inference == INSTANCE Expressions
Concurrency == INSTANCE ConcurrencyChecker
Converter == INSTANCE Conversion

WalkAlgorithms == {"method_sets", "type_queries", "expressions", "concurrency", "conversion",
                   "import_cycles", "go_mods", "file_queries"}

AnswerClosed == Answer(ClosedAlgorithms)
AnswerWalk == Answer(WalkAlgorithms)
AlgorithmsNext == AnswerClosed \/ AnswerWalk
AlgorithmsSpec == QuestionInit /\ [][AlgorithmsNext]_questionVars


\* The files a change affects are to be all of them (salsa_full/incremental.rs): a file
\* that depends on a symbol of the changed one is affected.
DependentsAffected ==
    answered /\ question[1] = "import_cycles" =>
        Semantic!DependentAffected(question[2][1].name, question[2][2].name, "S")
=============================================================================
