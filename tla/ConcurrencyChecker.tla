------------------------- MODULE ConcurrencyChecker -------------------------
(***************************************************************************)
(* ConcurrentChecker (validate/concurrent.rs) on the body of a function.   *)
(* s: the channels it tracks, each with its state, the mutexes, and the    *)
(* errors and warnings so far.  The checks look a channel or a mutex up by *)
(* get_channel_id and get_mutex_id, which know none yet.                   *)
(***************************************************************************)
EXTENDS Naturals, Sequences, SequencesExt, FiniteSets, Maps

NewChecker == [channels |-> NoMap, mutexes |-> NoMap, errors |-> <<>>, warnings |-> <<>>]
NewChannel == [may_be_closed |-> FALSE, may_be_nil |-> FALSE, direction |-> "Both"]
NewMutex == [locked |-> FALSE, lock_count |-> 0, unlock_count |-> 0]

get_channel_id(e) == {}
get_mutex_id(e) == {}

Report(s, kinds) == [s EXCEPT !.errors = @ \o kinds]
If(test, kind) == IF test THEN <<kind>> ELSE <<>>

\* Fold over the state of what e refers to, when that is known and tracked.
Of(known, tracked) == SetToSeq({tracked[id] : id \in known \cap DOMAIN tracked})

check_close(s, ch) ==
    FoldLeft(LAMBDA t, c : Report(t, If(c.may_be_closed, "DoubleClose") \o If(c.may_be_nil, "CloseNilChannel")),
             s, Of(get_channel_id(ch), s.channels))
check_receive(s, ch) ==
    FoldLeft(LAMBDA t, c : Report(t, If(c.direction = "SendOnly", "RecvFromSendOnly")),
             s, Of(get_channel_id(ch), s.channels))

track_channel_creation(s) == [s EXCEPT !.channels = Put(@, Cardinality(DOMAIN @) + 1, NewChannel)]

Lock(s, id) ==
    LET m == IF Has(s.mutexes, id) THEN s.mutexes[id] ELSE NewMutex
    IN  [s EXCEPT !.mutexes = Put(@, id, [m EXCEPT !.locked = TRUE, !.lock_count = @ + 1])]
Unlock(s, id) ==
    IF ~Has(s.mutexes, id) THEN s
    ELSE [Report(s, If(~s.mutexes[id].locked, "UnlockUnlocked"))
             EXCEPT !.mutexes[id].locked = FALSE, !.mutexes[id].unlock_count = @ + 1]
check_sync_method_call(s, base, method) ==
    FoldLeft(LAMBDA t, id : CASE method = "Lock" -> Lock(t, id) [] method = "Unlock" -> Unlock(t, id) [] OTHER -> t,
             s, SetToSeq(get_mutex_id(base)))

RECURSIVE check_expression(_, _)
CheckAll(s, es) == FoldLeft(check_expression, s, es)

\* The function called is not looked into.
check_call(s, func, args) ==
    LET t == CheckAll(s, args)
        Calls(name) == func.is = "Identifier" /\ func.name = name /\ args # <<>>
    IN  IF Calls("close") THEN check_close(t, args[1])
        ELSE IF Calls("make") THEN track_channel_creation(t) ELSE t

check_expression(s, e) ==
    CASE e.is = "Call" -> check_call(s, e.func, e.args)
      [] e.is = "Binary" -> CheckAll(s, <<e.left, e.right>>)
      [] e.is = "Unary" -> LET t == check_expression(s, e.operand)
                           IN  IF e.op = "Recv" THEN check_receive(t, e.operand) ELSE t
      [] e.is = "Selector" -> check_sync_method_call(check_expression(s, e.base), e.base, e.field)
      [] e.is = "Index" -> CheckAll(s, <<e.base, e.index>>)
      [] e.is = "TypeAssertion" -> check_expression(s, e.expr)
      [] e.is = "Composite" -> CheckAll(s, e.elements)
      [] OTHER -> s

analyze_mutex_states(s) ==
    [s EXCEPT !.warnings = @ \o FoldLeft(LAMBDA ws, m : ws \o If(m.locked, "UncheckedClose")
                                               \o If(m.lock_count # m.unlock_count, "UnprotectedSharedVar"),
                                         <<>>, SetToSeq({s.mutexes[id] : id \in DOMAIN s.mutexes}))]

\* The checker keeps what it tracks from one function to the next; the result is new.
check_function(s, body) ==
    analyze_mutex_states(CheckAll([s EXCEPT !.errors = <<>>, !.warnings = <<>>], body))

quick_concurrent_check(e) == <<>>

-----------------------------------------------------------------------------
(* The reference: the calls of make with an argument that a walk meets.    *)

Children(e) ==
    CASE e.is = "Call" -> e.args
      [] e.is = "Binary" -> <<e.left, e.right>>
      [] e.is = "Unary" -> <<e.operand>>
      [] e.is = "Selector" -> <<e.base>>
      [] e.is = "Index" -> <<e.base, e.index>>
      [] e.is = "TypeAssertion" -> <<e.expr>>
      [] e.is = "Composite" -> e.elements
      [] OTHER -> <<>>
RECURSIVE Walk(_)
Walk(es) == es \o FoldLeft(LAMBDA all, e : all \o Walk(Children(e)), <<>>, es)
Makes(e) == e.is = "Call" /\ e.func.is = "Identifier" /\ e.func.name = "make" /\ e.args # <<>>

\* Each call of make that is not the function of a call adds one open channel, function
\* after function.
ConcurrencyCheckerRight(body, next) ==
    LET first == check_function(NewChecker, body)
        second == check_function(first, next)
    IN  /\ Cardinality(DOMAIN first.channels) = Len(SelectSeq(Walk(body), Makes))
        /\ Cardinality(DOMAIN second.channels) = Len(SelectSeq(Walk(body \o next), Makes))
        /\ DOMAIN second.channels = 1..Cardinality(DOMAIN second.channels)
        /\ \A id \in DOMAIN second.channels : second.channels[id] = NewChannel
=============================================================================
