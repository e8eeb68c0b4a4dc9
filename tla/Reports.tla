------------------------------ MODULE Reports ------------------------------
(***************************************************************************)
(* What errors and measurements are reported as: the rich diagnostic of a  *)
(* type error (salsa_full/diagnostics.rs), soft errors and collections of  *)
(* both kinds (validate/error.rs) and the status of a performance budget   *)
(* (salsa_full/metrics.rs).  Wording is left out; an option is a set of at *)
(* most one element.                                                       *)
(***************************************************************************)
EXTENDS Integers, Sequences, FiniteSets

CONSTANT U32    \* how many numbers a u32 has

ErrorType == {"TypeMismatch", "UnknownIdentifier", "UnknownField", "WrongArity", "NotCallable",
              "InvalidOperation", "Other"}
type_error_to_diagnostic(error, file) ==
    LET location == [file |-> file, span |-> error.span]
    IN  [severity |-> "Error", location |-> location, labels |-> <<[location |-> location, color |-> "Red"]>>,
         notes |-> <<>>, help |-> error.type \cap {"TypeMismatch", "WrongArity"}]

ValidationError == {"TypeMismatch", "UndefinedIdentifier", "UndefinedField", "ArityMismatch", "Other"}
Severities == {"Hint", "Warning", "Error", "Fatal"}
severity_order(severity) ==
    CASE severity = "Fatal" -> 3 [] severity = "Error" -> 2 [] severity = "Warning" -> 1 [] severity = "Hint" -> 0
SoftErrors == [severity : Severities, suggestion : SUBSET ValidationError]

soften(error) ==
    [severity |-> IF error = "UndefinedField" THEN "Error" ELSE "Warning",
     suggestion |-> {error} \cap {"TypeMismatch", "UndefinedIdentifier", "ArityMismatch"}]
NewSoft == [severity |-> "Warning", suggestion |-> {}]
with_severity(soft, severity) == [soft EXCEPT !.severity = severity]
is_blocking(soft) == soft.severity \in {"Error", "Fatal"}

NewCollection == [errors |-> <<>>, soft_errors |-> <<>>]
add_error(c, error) == [c EXCEPT !.errors = Append(@, error)]
add_soft_error(c, soft) == [c EXCEPT !.soft_errors = Append(@, soft)]
has_errors(c) == c.errors # <<>> \/ \E i \in DOMAIN c.soft_errors : is_blocking(c.soft_errors[i])
Length(c) == Len(c.errors) + Len(c.soft_errors)
SoftenAll(c) == [i \in DOMAIN c.errors |-> soften(c.errors[i])] \o c.soft_errors
\* The places of the soft errors that are shown.
filter_by_severity(c, min) ==
    {i \in DOMAIN c.soft_errors : severity_order(c.soft_errors[i].severity) >= severity_order(min)}

-----------------------------------------------------------------------------
(* Budgets.  Times are in the clock's units, the memory limit in bytes and *)
(* the hit rate in percent.                                                *)

\* One measure against its limit, with the warning from four fifths of it on.  The order
\* in a status is that of a hash map and left out.
Over(value, limit, violation, warning) ==
    [violations |-> IF value > limit THEN {violation} ELSE {},
     warnings |-> IF value <= limit /\ 5 * value > 4 * limit THEN {warning} ELSE {}]
\* The count of calls is cut to 32 bits; of a multiple of U32 calls, 0 remains and the
\* division panics.
Divisor(stat) == (IF stat.calls > 1 THEN stat.calls ELSE 1) % U32
Panics(metrics) == \E name \in DOMAIN metrics.queries : Divisor(metrics.queries[name]) = 0
AverageTime(stat) == stat.time \div Divisor(stat)

check(budget, metrics) ==
    LET names == DOMAIN metrics.queries
        Query(name) == Over(AverageTime(metrics.queries[name]), budget.time,
                            <<"QueryTooSlow", name>>, <<"QuerySlow", name>>)
        memory == Over(metrics.memory, budget.memory, <<"MemoryExceeded">>, <<"MemoryHigh">>)
        rate == IF metrics.hit_rate < 50 /\ metrics.total_queries > 100 THEN {<<"LowCacheHitRate">>} ELSE {}
    IN  [violations |-> (UNION {Query(name).violations : name \in names}) \cup memory.violations,
         warnings |-> (UNION {Query(name).warnings : name \in names}) \cup memory.warnings \cup rate]
is_ok(status) == status.violations = {}
has_warnings(status) == status.warnings # {}

-----------------------------------------------------------------------------
(* The reference.                                                          *)

\* Softening keeps every error, in order, and is done once; of the hard errors only a
\* missing field goes on blocking, though the collection had errors because of each; an
\* error that is added counts once, and at once; a filter shows no more at a higher
\* threshold, and from "Error" on what blocks; a diagnostic points at its error once, and
\* helps only with what can be repaired at that place.
ReportsRight(hard, soft, span) ==
    LET filled == [errors |-> hard, soft_errors |-> soft]
        softened == SoftenAll(filled)
        again == [NewCollection EXCEPT !.soft_errors = softened]
    IN  /\ ~has_errors(NewCollection) /\ Length(NewCollection) = 0
        /\ \A error \in ValidationError :
               LET added == add_error(filled, error)
               IN  /\ has_errors(added) /\ Length(added) = Length(filled) + 1
                   /\ SoftenAll(added) = SoftenAll([filled EXCEPT !.soft_errors = <<soften(error)>> \o @])
        /\ \A severity \in Severities :
               LET added == add_soft_error(filled, with_severity(NewSoft, severity))
               IN  /\ has_errors(added) <=> has_errors(filled) \/ severity_order(severity) >= severity_order("Error")
                   /\ Length(added) = Length(filled) + 1
        /\ Len(softened) = Length(filled) /\ SoftenAll(again) = softened
        /\ \A i \in DOMAIN soft : softened[Len(hard) + i] = soft[i]
        /\ has_errors(again) <=> \/ has_errors([filled EXCEPT !.errors = <<>>])
                                 \/ \E i \in DOMAIN hard : hard[i] = "UndefinedField"
        /\ has_errors(again) => has_errors(filled)
        /\ \A min, higher \in Severities : severity_order(min) <= severity_order(higher) =>
               filter_by_severity(filled, higher) \subseteq filter_by_severity(filled, min)
        /\ filter_by_severity(again, "Error") = {i \in DOMAIN softened : is_blocking(softened[i])}
        /\ filter_by_severity(filled, "Hint") = DOMAIN soft
        /\ \A type \in ErrorType :
               LET d == type_error_to_diagnostic([type |-> {type}, span |-> span], "f")
               IN  /\ \A i \in DOMAIN d.labels : d.labels[i].location = d.location
                   /\ Len(d.labels) = 1 /\ d.location.span = span
                   /\ d.help # {} => soften(IF type = "WrongArity" THEN "ArityMismatch" ELSE type).suggestion # {}

\* A budget is kept when no query's average and not the memory is over its limit, however
\* many calls, below 2^32, share the time; nothing is both a violation and a warning; raising a limit
\* or doing less never breaks a budget that was kept; and the hit rate of a few queries
\* warns of nothing.
BudgetsRight(budget, metrics, more) ==
    LET status == check(budget, metrics)
        Raised == [budget EXCEPT !.time = @ + more, !.memory = @ + more]
        Less == [metrics EXCEPT !.memory = IF @ > more THEN @ - more ELSE 0]
        names == DOMAIN metrics.queries
    IN  /\ ~Panics(metrics)
        /\ is_ok(status) <=> /\ metrics.memory <= budget.memory
                             /\ \A n \in names : LET q == metrics.queries[n]
                                                 IN  q.time < (budget.time + 1) * (IF q.calls = 0 THEN 1 ELSE q.calls)
        /\ is_ok(status) => is_ok(check(Raised, metrics)) /\ is_ok(check(budget, Less))
        /\ ~has_warnings(status) /\ is_ok(status) =>
               \A n \in names : 5 * AverageTime(metrics.queries[n]) <= 4 * budget.time
        /\ \A n \in names : <<"QueryTooSlow", n>> \notin status.violations \/ <<"QuerySlow", n>> \notin status.warnings
        /\ <<"MemoryExceeded">> \notin status.violations \/ <<"MemoryHigh">> \notin status.warnings
        /\ metrics.total_queries <= 100 => <<"LowCacheHitRate">> \notin status.warnings
=============================================================================
