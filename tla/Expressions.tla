---------------------------- MODULE Expressions ----------------------------
(***************************************************************************)
(* The type that TypeInference gives an expression (validate/infer.rs) and *)
(* what the checker and the stream make of it (validate/checker.rs,        *)
(* validate/stream.rs).  An option is a set of at most one element.  env:  *)
(* the universe's types, the names in its symbol table and the bindings of *)
(* the inference; ctx: a LookaheadContext.                                 *)
(***************************************************************************)
EXTENDS TypeQueries

Expression == {"Identifier", "Literal", "Binary", "Unary", "Call", "Selector", "Index",
               "TypeAssertion", "Composite"}
Comparisons == {"Eq", "Ne", "Lt", "Le", "Gt", "Ge"}
bool == 1
untyped == 2    \* the type of every literal: int

NoContext == [scope |-> NoMap, assignment_target |-> {}]
expecting(typ) == [NoContext EXCEPT !.assignment_target = {typ}]
with_binding(ctx, name, typ) == [ctx EXCEPT !.scope = Put(ctx.scope, name, typ)]
bind(env, name, typ) == [env EXCEPT !.bindings = Put(env.bindings, name, typ)]

get_type(env, id) == id \cap DOMAIN env.types
KindIs(env, id, kind) == Has(env.types, id) /\ env.types[id].kind.is = kind

infer_identifier(env, name, ctx) ==
    CASE Has(ctx.scope, name) -> {ctx.scope[name]}
      [] ~Has(ctx.scope, name) /\ Has(env.bindings, name) -> {env.bindings[name]}
      [] OTHER -> IF name \in env.symbols THEN ctx.assignment_target ELSE {}

infer_literal(env) == get_type(env, {untyped})

\* The types of the operands and of the result they give.
infer_binary_op(env, op, left, right) ==
    IF {} \in {left, right} THEN {} ELSE IF op \in Comparisons THEN get_type(env, {bool}) ELSE left
infer_unary_op(env, op, operand) == IF op = "Not" /\ operand # {} THEN get_type(env, {bool}) ELSE operand
FirstResult(env, func) ==
    {env.types[id].kind.results[1] : id \in {f \in func : KindIs(env, f, "Func") /\ env.types[f].kind.results # <<>>}}
FieldType(env, base, field) ==
    LET struct == {b \in base : KindIs(env, b, "Struct")}
        Named(id) == SelectSeq(env.types[id].kind.fields, LAMBDA f : f.name = field)
    IN  {Head(Named(id)).typ : id \in {s \in struct : Named(s) # <<>>}}

RECURSIVE infer(_, _, _)
infer(env, e, ctx) ==
    CASE e.is = "Identifier" -> infer_identifier(env, e.name, ctx)
      [] e.is = "Literal" -> infer_literal(env)
      [] e.is = "Binary" -> infer_binary_op(env, e.op, infer(env, e.left, ctx), infer(env, e.right, ctx))
      [] e.is = "Unary" -> infer_unary_op(env, e.op, infer(env, e.operand, ctx))
      [] e.is = "Call" -> FirstResult(env, infer(env, e.func, ctx))
      [] e.is = "Selector" -> FieldType(env, infer(env, e.base, ctx), e.field)
      [] e.is \in {"TypeAssertion", "Composite"} -> {e.typ}
      [] OTHER -> ctx.assignment_target

infer_param_type(env, e, index, ctx) ==
    {env.types[id].kind.params[index] :
        id \in {f \in infer(env, e, ctx) : KindIs(env, f, "Func") /\ index \in DOMAIN env.types[f].kind.params}}
lookahead_predict(ctx) == ctx.assignment_target

-----------------------------------------------------------------------------
(* The checker's verdicts.                                                 *)

Valid(typ) == [is |-> "Valid", typ |-> {typ}]
Partial(typ) == [is |-> "Partial", typ |-> typ]
Unknown == [is |-> "Unknown", typ |-> {}]

types_compatible(env, a, b) ==
    \/ a = b
    \/ /\ {a, b} \subseteq DOMAIN env.types
       /\ identical(env.types[a], env.types[b]) \/ KindIs(env, b, "Interface")

\* The checker and the stream make their own inference, and bind nothing in it.
Unbound(env) == [env EXCEPT !.bindings = NoMap]

validate_expression(env, e, expected) ==
    LET inferred == infer(Unbound(env), e, NoContext)
    IN  IF inferred = {} THEN Partial(expected)
        ELSE IF \A i \in inferred, x \in expected : types_compatible(env, i, x)
             THEN Valid(CHOOSE i \in inferred : TRUE) ELSE Partial(inferred)

quick_check(env, e) == e.is = "Identifier" => e.name \in env.symbols

-----------------------------------------------------------------------------
(* The stream's verdicts.                                                  *)

validate_binary_op(left, right, expected) ==
    CASE left.is = "Valid" /\ right.is = "Valid" -> Valid(left.typ)
      [] left.is = "Partial" \/ right.is = "Partial" -> Partial(expected)
      [] OTHER -> Unknown

RECURSIVE StreamVerdict(_, _)
StreamVerdict(e, expected) ==
    CASE e.is \in {"Identifier", "Call"} -> Partial(expected)
      [] e.is = "Binary" -> validate_binary_op(StreamVerdict(e.left, {}), StreamVerdict(e.right, {}), expected)
      [] e.is = "Selector" -> LET base == StreamVerdict(e.base, {})
                              IN  IF base.is = "Valid" THEN Partial(expected) ELSE base
      [] OTHER -> Unknown

process_expression(env, e) ==
    LET inferred == infer(Unbound(env), e, NoContext)
    IN  [inferred_type |-> inferred, validation_result |-> StreamVerdict(e, inferred)]

-----------------------------------------------------------------------------
(* The reference.                                                          *)

Sides(e) == CASE e.is = "Binary" -> {e.left, e.right} [] e.is = "Selector" -> {e.base} [] OTHER -> {}
RECURSIVE Reached(_)
Reached(e) == {e} \cup UNION {Reached(x) : x \in Sides(e)}

\* An operation's type is its left operand's, or bool, whatever the right one's is, and
\* it has none when an operand has none; a call's ignores the arguments; what a bound
\* name stands for decides over the expected type, which decides only where nothing else
\* does.  What the quick check rejects the full check never finds valid, and it finds
\* valid exactly what has a type that is the expected one, where that is not an
\* interface.  The stream's verdict is never Valid or Invalid: partial
\* when an identifier or a call is reached through operands and selections.
ExpressionsRight(env, e, other, expected) ==
    LET typed == infer(env, e, NoContext)
        Op(op, l, r) == [is |-> "Binary", op |-> op, left |-> l, right |-> r]
        verdict == validate_expression(env, e, expected)
    IN  /\ \A op \in {"Add", "Eq"} :
               /\ (infer(env, Op(op, e, other), NoContext) = {}) <=> {} \in {typed, infer(env, other, NoContext)}
               /\ infer(env, Op(op, e, other), NoContext) \subseteq (IF op = "Add" THEN typed ELSE {bool})
        /\ infer(env, [is |-> "Call", func |-> e, args |-> <<>>], NoContext)
             = infer(env, [is |-> "Call", func |-> e, args |-> <<other>>], NoContext)
        /\ \A x \in expected :
               /\ typed = {} \/ typed = infer(env, e, expecting(x))
               /\ e.is = "Identifier" => infer(env, e, with_binding(expecting(x), e.name, untyped)) = {untyped}
               /\ lookahead_predict(expecting(x)) = {x}
               /\ infer_param_type(env, e, 1, NoContext) \subseteq infer_param_type(env, e, 1, expecting(x))
        /\ ~quick_check(env, e) => verdict.is # "Valid"
        /\ \A x \in expected : ~KindIs(env, x, "Interface") =>
               (verdict.is = "Valid" <=> infer(Unbound(env), e, NoContext) = expected)
        /\ LET streamed == process_expression(env, e).validation_result
           IN  /\ streamed.is = IF \E x \in Reached(e) : x.is \in {"Identifier", "Call"}
                                THEN "Partial" ELSE "Unknown"
               /\ streamed.typ \subseteq infer(Unbound(env), e, NoContext)
=============================================================================
