-------------------------- MODULE StreamingChecker --------------------------
(***************************************************************************)
(* The streaming checker of validate/checker.rs: check stores the state of *)
(* an expression, validates the expression with no lock held, and writes   *)
(* the verdict into whatever state is then stored under the id.  check,    *)
(* check_batch and clear run on any number of threads.                     *)
(*                                                                         *)
(* An expression is a model value with the verdict validate_expression has *)
(* for it; Expressions says how that verdict comes about.                  *)
(***************************************************************************)
EXTENDS Naturals, Sequences, Maps

CONSTANTS Checkers,     \* the threads
          ExprIds,      \* the expression ids
          Verdict,      \* the status of every expression: Valid or Partial
          Batches       \* the sequences of requests that check_batch is given

VARIABLES states,       \* the states stored, of some of the ids
          checks,       \* what each thread still has to check, and where it is
          mixed         \* history: the ids two checks of which overlapped

checkVars == <<states, checks, mixed>>

-----------------------------------------------------------------------------
CheckStatus == {"Pending", "InProgress", "Valid", "Invalid", "Partial"}
Exprs == DOMAIN Verdict
ExpressionCheckState == [expr : Exprs, status : CheckStatus]
Requests == [id : ExprIds, expr : Exprs]
ASSUME CheckerConstants ==
    /\ \A e \in Exprs : Verdict[e] \in {"Valid", "Partial"}
    /\ Batches \subseteq Seq(Requests)

NoChecks == [todo |-> <<>>, validating |-> FALSE]

CheckTypeOK ==
    /\ DOMAIN states \subseteq ExprIds
    /\ \A i \in DOMAIN states : states[i] \in ExpressionCheckState
    /\ checks \in [Checkers -> [todo : Seq(Requests), validating : BOOLEAN]]
    /\ mixed \subseteq ExprIds

CheckInit ==
    /\ states = NoMap
    /\ checks = [t \in Checkers |-> NoChecks]
    /\ mixed = {}

-----------------------------------------------------------------------------
\* The threads that are between the two writes of a check of the id.
Checking(id) == {t \in Checkers : checks[t].validating /\ Head(checks[t].todo).id = id}

\* check is a batch of one.
CheckBatch(t) ==
    /\ checks[t].todo = <<>>
    /\ \E b \in Batches : checks' = [checks EXCEPT ![t].todo = b]
    /\ UNCHANGED <<states, mixed>>

\* The first expression of an id is kept.
BeginCheckIfNew(t) ==
    /\ checks[t].todo # <<>> /\ ~checks[t].validating
    /\ LET request == Head(checks[t].todo)
       IN  /\ states' = IF Has(states, request.id) THEN states
                      ELSE Put(states, request.id, [expr |-> request.expr, status |-> "InProgress"])
           /\ mixed' = IF Checking(request.id) = {} THEN mixed \ {request.id}
                                                    ELSE mixed \cup {request.id}
    /\ checks' = [checks EXCEPT ![t].validating = TRUE]

BeginCheck(t) ==
    /\ checks[t].todo # <<>> /\ ~checks[t].validating
    /\ LET request == Head(checks[t].todo)
       IN  /\ states' = Put(states, request.id, [expr |-> request.expr, status |-> "InProgress"])
           /\ mixed' = IF Checking(request.id) = {} THEN mixed \ {request.id}
                                                    ELSE mixed \cup {request.id}
    /\ checks' = [checks EXCEPT ![t].validating = TRUE]

\* The state that is there by now gets the verdict of the request, if one is there.
Judged(request) ==
    IF request.id \in DOMAIN states
    THEN Put(states, request.id, [states[request.id] EXCEPT !.status = Verdict[request.expr]])
    ELSE states

FinishCheck(t) ==
    /\ checks[t].validating
    /\ states' = Judged(Head(checks[t].todo))
    /\ checks' = [checks EXCEPT ![t] = [todo |-> Tail(@.todo), validating |-> FALSE]]
    /\ UNCHANGED mixed

ClearStates ==
    /\ states' = NoMap
    /\ UNCHANGED <<checks, mixed>>

CheckNext ==
    \/ \E t \in Checkers : CheckBatch(t) \/ BeginCheck(t) \/ FinishCheck(t)
    \/ ClearStates

CheckSpec == CheckInit /\ [][CheckNext]_checkVars

-----------------------------------------------------------------------------
\* A stored state is InProgress only while a check of its id runs, however checks and
\* clear interleave; once none runs, its verdict is that of its own expression, unless
\* two checks of the id overlapped, the only way to store one expression's verdict
\* with another.
VerdictsSettle ==
    \A i \in DOMAIN states :
        Checking(i) = {} =>
            /\ states[i].status # "InProgress"
            /\ states[i].status # Verdict[states[i].expr] => i \in mixed
=============================================================================
