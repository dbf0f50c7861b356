---------------------------- MODULE TypeInference ----------------------------
(***************************************************************************)
(* Type inference and specialization (crates/polygl-types): the constraint *)
(* solver, the inference of a body, the two passes that annotate it, and   *)
(* the instances of functions that are made on the way.                    *)
(*                                                                         *)
(* A behaviour grows a body statement by statement, as the analyzer infers *)
(* it, and may close it after any of them.  Analysis goes on after a       *)
(* diagnostic only to find more of them: here it ends with the first.      *)
(* Kinds of types that unify like `bool` (structs, vectors, handles),      *)
(* maps, which unify like arrays, and functions of several parameters are  *)
(* left out.  A node's address is the path to it.                          *)
(***************************************************************************)
EXTENDS Integers, Sequences, FiniteSets, SequencesExt, TLC

CONSTANTS
    Statements,     \* what a body may consist of
    MaxStatements,
    Functions,      \* [name -> [param, type, body]]; `type` is the annotation or None
    InstanceLimit,
    None

ASSUME LimitAssumption == InstanceLimit \in Nat \ {0}

VARIABLES body, phase, analyzer
vars == <<body, phase, analyzer>>

-----------------------------------------------------------------------------
(* Types *)

int == <<"int">>
float == <<"float">>
bool == <<"bool">>
str == <<"str">>
void == <<"void">>
Error == <<"Error">>
Var(id) == <<"Var", id>>
Array(t) == <<"Array", t>>
Option(t) == <<"Option", t>>

Numbers == {int, float}
IsVar(t) == t[1] = "Var"
IsOption(t) == t[1] = "Option"
Composite(t) == t[1] \in {"Array", "Option"}

RECURSIVE VarsOf(_)
VarsOf(t) == IF IsVar(t) THEN {t[2]} ELSE IF Composite(t) THEN VarsOf(t[2]) ELSE {}

\* What `to_type` accepts, and what is not `void` anywhere.
Concrete(t) == VarsOf(t) = {}
RECURSIVE IsValueType(_)
IsValueType(t) == IF Composite(t) THEN IsValueType(t[2]) ELSE t # void

-----------------------------------------------------------------------------
(* The solver.  An operation returns a type and the analyzer after it.     *)

Ok(a, t) == [ty |-> t, a |-> a]
Fail(a) == Ok([a EXCEPT !.ok = FALSE], Error)
Require(a, condition) == IF condition THEN Ok(a, void) ELSE Fail(a)
Wrap(kind, r) == Ok(r.a, <<kind, r.ty>>)
Giving(r, t) == Ok(r.a, t)

\* What follows a failure is not done: the `?` of the source.
After(r, Next_(_, _)) == IF r.a.ok THEN Next_(r.a, r.ty) ELSE r

Fresh(a) == Ok([a EXCEPT !.next = @ + 1], Var(a.next))

Bind(a, id, t) == [a EXCEPT !.substitutions = (id :> t) @@ @]
Bound(a, id) == id \in DOMAIN a.substitutions

RECURSIVE Resolve(_, _), Join(_, _, _), Assign(_, _, _), Equal(_, _, _)

Resolve(a, t) ==
    IF IsVar(t) THEN IF Bound(a, t[2]) THEN Resolve(a, a.substitutions[t[2]]) ELSE t
    ELSE IF Composite(t) THEN <<t[1], Resolve(a, t[2])>>
    ELSE t

\* Mutant of EnforceNumericBinding: another variable does not learn of it.
EnforceNumericBindingHere(a, id, t) ==
    IF id \notin a.numeric \/ IsVar(t) THEN Ok(a, t) ELSE Require(a, t \in Numbers \cup {Error})

EnforceNumericBinding(a, id, t) ==
    IF id \notin a.numeric THEN Ok(a, t)
    ELSE IF IsVar(t) THEN Ok([a EXCEPT !.numeric = @ \cup {t[2]}], t)
    ELSE Require(a, t \in Numbers \cup {Error})

BindJoined(a, id, t) ==
    After(EnforceNumericBinding(a, id, t), LAMBDA b, x :
        After(IF Bound(b, id) THEN Join(b, b.substitutions[id], t) ELSE Ok(b, t),
              LAMBDA c, joined : Ok(Bind(c, id, joined), joined)))

\* Mutant of BindJoin: a variable may be bound to what contains it.
BindJoinUnchecked(a, id, type) ==
    LET t == Resolve(a, type)
    IN  IF t = Var(id) THEN Ok(a, t) ELSE BindJoined(a, id, t)

BindJoin(a, id, type) ==
    LET t == Resolve(a, type)
    IN  IF t = Var(id) THEN Ok(a, t)
        ELSE IF id \in VarsOf(t) THEN Fail(a) ELSE BindJoined(a, id, t)

BindEqual(a, id, t) ==
    IF t = Var(id) THEN Ok(a, t)
    ELSE IF id \in VarsOf(t) THEN Fail(a)
    ELSE After(EnforceNumericBinding(a, id, t), LAMBDA b, x :
                   Ok(Bind(b, id, t), t))       \* `id` is unbound: `equal` resolves

ConstrainVariable(a, id, expected) ==
    After(EnforceNumericBinding(a, id, expected), LAMBDA b, x :
        IF ~Bound(b, id) THEN Ok(Bind(b, id, expected), expected)
        ELSE After(Assign(b, expected, b.substitutions[id]), LAMBDA c, t :
                       Ok(IF id \in c.fixed THEN c ELSE Bind(c, id, t), t)))

Join(a, left, right) ==
    IF Error \in {left, right} THEN Ok(a, Error)
    ELSE IF IsVar(left) THEN BindJoin(a, left[2], right)
    ELSE IF IsVar(right) THEN BindJoin(a, right[2], left)
    ELSE IF {left, right} = Numbers THEN Ok(a, float)
    ELSE IF Composite(left) /\ left[1] = right[1]
         THEN Wrap(left[1], Equal(a, left[2], right[2]))
    ELSE IF IsOption(left) THEN Wrap("Option", Equal(a, left[2], right))
    ELSE IF IsOption(right) THEN Wrap("Option", Equal(a, right[2], left))
    ELSE IF left = right THEN Ok(a, left) ELSE Fail(a)

Assign(a, expected, actual) ==
    IF Error \in {expected, actual} THEN Ok(a, Error)
    ELSE IF IsVar(expected) THEN BindJoin(a, expected[2], actual)
    ELSE IF IsVar(actual) THEN ConstrainVariable(a, actual[2], Resolve(a, expected))
    ELSE IF expected = float /\ actual = int THEN Ok(a, float)
    ELSE IF Composite(expected) /\ expected[1] = actual[1]
         THEN Wrap(expected[1], Equal(a, expected[2], actual[2]))
    ELSE IF IsOption(expected) THEN Wrap("Option", Assign(a, expected[2], actual))
    ELSE IF expected = actual THEN Ok(a, expected) ELSE Fail(a)

Equal(a, l, r) ==
    LET left == Resolve(a, l)
        right == Resolve(a, r)
    IN  IF Error \in {left, right} THEN Ok(a, Error)
        ELSE IF IsVar(left) THEN BindEqual(a, left[2], right)
        ELSE IF IsVar(right) THEN BindEqual(a, right[2], left)
        ELSE IF Composite(left) /\ left[1] = right[1]
             THEN Wrap(left[1], Equal(a, left[2], right[2]))
        ELSE IF left = right THEN Ok(a, left) ELSE Fail(a)

Reassign(a, expected, actual) ==
    LET e == Resolve(a, expected)
        t == Resolve(a, actual)
        numeric == \/ {e, t} = Numbers
                   \/ IsVar(e) /\ t \in Numbers
                   \/ IsVar(t) /\ e \in Numbers
    IN  IF IsVar(expected) /\ expected[2] \in a.fixed THEN Assign(a, e, actual)
        ELSE IF numeric THEN Join(a, expected, actual)
        ELSE IF IsOption(e) /\ ~IsOption(t) THEN Assign(a, expected, actual)
        ELSE Equal(a, expected, actual)

RequireNumeric(a, type) ==
    LET t == Resolve(a, type)
    IN  IF IsVar(t) THEN Ok([a EXCEPT !.numeric = @ \cup {t[2]}], t)
        ELSE Require(a, t \in Numbers \cup {Error})

MarkFixed(a, t) == IF IsVar(t) THEN [a EXCEPT !.fixed = @ \cup {t[2]}] ELSE a

-----------------------------------------------------------------------------
(* Expressions.  <<"lit", type>>, <<"none">>, <<"var", name>>,             *)
(* <<op, left, right>>, <<"neg", e>>, <<"not", e>>, <<"index", e, e>>,     *)
(* <<"length", e>>, <<"array", items>>, <<"isnil", e>>, <<"sin", e>> for a *)
(* builtin that takes and returns a float, <<"call", function, argument>>. *)

Lookup(a, x) == IF x \in DOMAIN a.environment THEN a.environment[x] ELSE Error

Expect(a, expected, actual) == Assign(a, expected, actual)
RejectUnit(a, t) == Require(a, Resolve(a, t) # void)

RequireNumbers(a, left, right) ==
    After(RequireNumeric(a, left), LAMBDA b, x : RequireNumeric(b, right))

ExpectBoth(a, type, left, right) ==
    Giving(After(Expect(a, type, left), LAMBDA b, x : Expect(b, type, right)), type)

NumericResult(a, left, right, forceFloat) ==
    After(RequireNumbers(a, left, right), LAMBDA b, x :
        IF forceFloat THEN ExpectBoth(b, float, left, right) ELSE Join(b, left, right))

\* Both unknown: what is added is found out later.
DeferAdd(a, left, right) ==
    After(Fresh(a), LAMBDA b, result :
        Ok([b EXCEPT !.adds = Append(@, <<left, right, result>>)], result))

Comparisons == {"==", "<"}

InferBinary(a, op, left, right) ==
    LET l == Resolve(a, left)
        r == Resolve(a, right)
    IN  CASE op = "+" /\ str \in {l, r} ->
                IF l = r \/ IsVar(l) \/ IsVar(r) THEN Giving(Equal(a, left, right), str)
                ELSE Fail(a)
          [] op = "+" /\ IsVar(l) /\ IsVar(r) -> DeferAdd(a, left, right)
          [] op \in {"-", "div"} \/ (op = "+" /\ str \notin {l, r} /\ ~(IsVar(l) /\ IsVar(r))) ->
                NumericResult(a, left, right, FALSE)
          [] op = "/" -> NumericResult(a, left, right, TRUE)
          [] op = "==" -> Giving(Equal(a, left, right), bool)
          [] op = "<" -> After(RequireNumbers(a, left, right), LAMBDA b, x :
                                   Giving(Equal(b, left, right), bool))
          [] op = "and" -> ExpectBoth(a, bool, left, right)

Operators == {"+", "-", "div", "/", "==", "<", "and"}

\* The parts of a node's address that are not the number of an operand.
Then == -1
Else == -2
Loop == -3
Template == -4
Instance == -5

RECURSIVE InferExpr(_, _, _), InferBlock(_, _, _), AlwaysReturns(_)

\* The element type of what is indexed; `base` is resolved.
ElementType(a, base) == IF base[1] = "Array" THEN Ok(a, base[2]) ELSE Fail(a)

InferItems(a, items, key) ==
    FoldLeftDomain(
        LAMBDA r, i : After(r, LAMBDA b, type :
            After(InferExpr(b, items[i], Append(key, i)), LAMBDA c, item :
                After(RejectUnit(c, item), LAMBDA d, x : Join(d, type, item)))),
        Fresh(a), items)

NilCheck(a, type) ==
    LET t == Resolve(a, type)
    IN  IF ~IsVar(t) THEN Giving(Require(a, t = Error \/ IsOption(t)), bool)
        ELSE After(Fresh(a), LAMBDA b, inner : Giving(Equal(b, type, Option(inner)), bool))

\* `Let`, and the bindings of parameters.
BindTo(a, x, t) == [a EXCEPT !.environment = (x :> t) @@ @]

\* What a body returns: the join of its returns, `void` when it may fall through.
InferReturnType(a, block) ==
    LET returns == a.returns \o (IF AlwaysReturns(block) THEN <<>> ELSE <<void>>)
    IN  FoldLeft(LAMBDA r, t : After(r, LAMBDA b, joined : Join(b, joined, t)),
                 Ok(a, Head(returns)), Tail(returns))

\* A clone of the function's body, with a fresh binding for its parameter.
EnterFunction(a, f, argument) ==
    After(Fresh(a), LAMBDA b, binding :
        After(Assign(b, binding, argument), LAMBDA c, x :
            Ok([(IF Functions[f].type = None THEN c ELSE MarkFixed(c, binding)) EXCEPT
                    !.environment = (Functions[f].param :> binding),
                    !.returns = <<>>, !.active = @ \cup {f}], binding)))

\* The argument as the annotation of the parameter has it.
Normalized(a, f, argument) ==
    IF Functions[f].type = None THEN Ok(a, argument)
    ELSE Assign(a, Functions[f].type, argument)

Leave(a, caller) ==
    [a EXCEPT !.environment = caller.environment, !.returns = caller.returns,
              !.active = caller.active, !.recordInstances = caller.recordInstances]

InferUserCall(a, f, argument, key) ==
    LET block == Functions[f].body
    IN  IF f \in a.active THEN Fail(a)
        ELSE After(Normalized(a, f, argument), LAMBDA b, given :
             After(EnterFunction(b, f, given), LAMBDA c, parameter :
             After(InferBlock([c EXCEPT !.recordInstances = FALSE], block, key \o <<Template>>),
                   LAMBDA d, x :
             After(InferReturnType(d, block), LAMBDA g, returned :
             After(Fresh(Leave(g, a)), LAMBDA h, result :
                 IF ~a.recordInstances THEN Giving(Join(h, result, returned), result)
                 ELSE Ok([h EXCEPT !.pending = (key :> [order |-> h.order, f |-> f,
                              parameter |-> parameter, body |-> returned,
                              result |-> result]) @@ @, !.order = @ + 1], result))))))

Recorded(a, key, t) == Ok([a EXCEPT !.expressions = (key :> t) @@ @], t)

InferUnary(a, op, t) ==
    CASE op = "neg" -> Giving(RequireNumeric(a, t), t)
      [] op = "not" -> Giving(Expect(a, bool, t), bool)
      [] op = "sin" -> Giving(Expect(a, float, t), float)
      [] op = "length" -> Giving(ElementType(a, Resolve(a, t)), int)
      [] op = "isnil" -> NilCheck(a, t)

InferIndex(a, base, index) ==
    After(ElementType(a, Resolve(a, base)), LAMBDA b, element :
        Giving(Expect(b, int, index), element))

Operands(e) ==
    CASE e[1] \in Operators \cup {"index"} -> <<e[2], e[3]>>
      [] e[1] = "call" -> <<e[3]>>
      [] e[1] = "array" -> e[2]
      [] e[1] \in {"neg", "not", "sin", "length", "isnil"} -> <<e[2]>>
      [] OTHER -> <<>>

\* The operands from left to right; their types.
InferAll(a, es, key) ==
    FoldLeftDomain(
        LAMBDA r, i : After(r, LAMBDA b, types :
            After(InferExpr(b, es[i], Append(key, i)), LAMBDA c, t : Ok(c, Append(types, t)))),
        Ok(a, <<>>), es)

InferKind(a, e, types, key) ==
    CASE e[1] = "lit" -> Ok(a, e[2])
      [] e[1] = "none" -> After(Fresh(a), LAMBDA b, t : Recorded(b, key, Option(t)))
      [] e[1] = "var" -> Giving(Require(a, Lookup(a, e[2]) # Error), Lookup(a, e[2]))
      [] e[1] = "index" -> InferIndex(a, types[1], types[2])
      [] e[1] \in Operators -> InferBinary(a, e[1], types[1], types[2])
      [] e[1] = "call" -> After(RejectUnit(a, types[1]), LAMBDA b, x :
                                    InferUserCall(b, e[2], types[1], key))
      [] OTHER -> InferUnary(a, e[1], types[1])

InferExpr(a, e, key) ==
    IF e[1] = "array"
    THEN After(InferItems(a, e[2], key), LAMBDA b, t : Recorded(b, key, Array(t)))
    ELSE After(InferAll(a, Operands(e), key), LAMBDA b, types : InferKind(b, e, types, key))

-----------------------------------------------------------------------------
(* Statements.  <<"set", name, e>> binds the name when it is new, as the   *)
(* adapters do, and assigns otherwise; <<"declare", name, type, e>> has an *)
(* annotation; <<"put", array, e>> assigns to an element; <<"do", e>>;     *)
(* <<"if", e, block, block>>; <<"while", e, block>>; <<"return", e>>.      *)

AlwaysReturns(block) ==
    \E i \in DOMAIN block :
        \/ block[i][1] = "return"
        \/ block[i][1] = "if" /\ AlwaysReturns(block[i][3]) /\ AlwaysReturns(block[i][4])

IsLet(a, st) == st[1] = "declare" \/ (st[1] = "set" /\ st[2] \notin DOMAIN a.environment)

\* The expression a statement ends in, and the blocks it holds.
Value(st) == IF st[1] \in {"if", "while"} THEN st[2] ELSE Last(st)
ValueKey(st, key) == Append(key, IF st[1] = "put" THEN 2 ELSE 1)
Blocks(st) ==
    CASE st[1] = "if" -> <<<<Then, st[3]>>, <<Else, st[4]>>>>
      [] st[1] = "while" -> <<<<Loop, st[3]>>>>
      [] OTHER -> <<>>
IsWrite(st) == st[1] \in {"set", "declare", "put"}

\* What the value of a statement goes to.
InferTarget(a, st, key) ==
    CASE IsLet(a, st) ->
            After(Fresh(a), LAMBDA b, binding :
                IF st[1] # "declare" THEN Ok(b, binding)
                ELSE Giving(Assign(MarkFixed(b, binding), binding, st[3]), binding))
      [] st[1] = "set" /\ ~IsLet(a, st) -> Ok(a, a.environment[st[2]])
      [] st[1] = "put" -> After(InferExpr(a, st[2], Append(key, 1)), LAMBDA b, base :
                                    ElementType(b, Resolve(b, base)))
      [] OTHER -> Ok(a, void)

InferLet(a, st, binding, init, key) ==
    After(IF st[1] = "declare" THEN Assign(a, st[3], init) ELSE Join(a, binding, init),
          LAMBDA b, x :
        Ok([BindTo(b, st[2], binding) EXCEPT !.bindings = (key :> binding) @@ @], void))

\* A block of its own: what it binds is forgotten after it.
InferNested(a, block, key) ==
    After(InferBlock(a, block, key), LAMBDA b, x :
        Ok([b EXCEPT !.environment = a.environment], void))

InferBranches(a, st, key) ==
    FoldLeft(LAMBDA r, labelled : After(r, LAMBDA b, x :
                 InferNested(b, labelled[2], Append(key, labelled[1]))),
             Ok(a, void), Blocks(st))

InferKindOf(a, st, target, value, key) ==
    CASE IsLet(a, st) -> InferLet(a, st, target, value, key)
      [] st[1] = "set" /\ ~IsLet(a, st) -> Reassign(a, target, value)
      [] st[1] = "put" -> Expect(a, target, value)
      [] st[1] = "do" -> Ok(a, void)
      [] st[1] = "return" -> Ok([a EXCEPT !.returns = Append(@, value)], void)
      [] OTHER -> After(Expect(a, bool, value), LAMBDA b, x : InferBranches(b, st, key))

InferStatement(a, st, key) ==
    After(InferTarget(a, st, key), LAMBDA b, target :
    After(InferExpr(b, Value(st), ValueKey(st, key)), LAMBDA c, value :
    After(IF IsWrite(st) THEN RejectUnit(c, value) ELSE Ok(c, void), LAMBDA d, x :
        InferKindOf(d, st, target, value, key))))

InferBlock(a, block, key) ==
    FoldLeftDomain(LAMBDA r, i : After(r, LAMBDA b, x :
                                          InferStatement(b, block[i], Append(key, i))),
                   Ok(a, void), block)

-----------------------------------------------------------------------------
(* Constraints that wait for others: additions of unknowns, and the calls  *)
(* whose instance is not chosen yet.                                       *)

ExpectAll(a, t, actuals) ==
    FoldLeft(LAMBDA r, actual : After(r, LAMBDA b, x : Expect(b, t, actual)), Ok(a, void), actuals)

\* A round over the additions: those that are decided go.
AddRound(a) ==
    FoldLeft(LAMBDA r, add : After(r, LAMBDA b, x :
                 LET types == {Resolve(b, add[i]) : i \in 1..3}
                     t == IF str \in types THEN str ELSE IF float \in types THEN float ELSE int
                 IN  IF t \notin types THEN Ok([b EXCEPT !.adds = Append(@, add)], void)
                     ELSE ExpectAll(b, t, add)),
             Ok([a EXCEPT !.adds = <<>>], void), a.adds)

RECURSIVE SolveDeferredAdds(_), Rounds(_, _)
SolveDeferredAdds(a) ==
    After(AddRound(a), LAMBDA b, x :
        IF Len(b.adds) = Len(a.adds) THEN Ok(b, void) ELSE SolveDeferredAdds(b))

\* The pending calls in the order they were met.
Pending(a) == SetToSortSeq({a.pending[k] : k \in DOMAIN a.pending},
                           LAMBDA p, q : p.order < q.order)

PropagateResults(a) ==
    FoldLeft(LAMBDA r, p : After(r, LAMBDA b, x :
                 LET result == Resolve(b, p.result)
                 IN  IF Concrete(result) THEN Expect(b, result, p.body) ELSE Ok(b, void)),
             Ok(a, void), Pending(a))

\* Calls that will share an instance have one result.
UnifyGroup(a, calls) ==
    LET results == [i \in DOMAIN calls |-> calls[i].result]
    IN  After(FoldLeft(LAMBDA r, t : After(r, LAMBDA b, shared : Join(b, shared, t)),
                       Ok(a, Head(results)), Tail(results)),
              LAMBDA b, shared : ExpectAll(b, shared, results))

InstanceKey(a, p) == <<p.f, Resolve(a, p.parameter)>>

UnifyPendingResults(a) ==
    LET calls == SelectSeq(Pending(a), LAMBDA p : Concrete(Resolve(a, p.parameter)))
        keys == {InstanceKey(a, p) : p \in ToSet(calls)}
        group(k) == SelectSeq(calls, LAMBDA p : InstanceKey(a, p) = k)
    IN  FoldLeft(LAMBDA r, k : After(r, LAMBDA b, x : UnifyGroup(b, group(k))), Ok(a, void),
                 SetToSortSeq(keys, LAMBDA k, l : group(k)[1].order < group(l)[1].order))

Rounds(a, n) ==
    IF n = 0 THEN Ok(a, void)
    ELSE After(PropagateResults(a), LAMBDA b, x :
         After(SolveDeferredAdds(b), LAMBDA c, y :
         After(UnifyPendingResults(c), LAMBDA d, z : Rounds(d, n - 1))))

Stabilize(a) == Rounds(a, Cardinality(DOMAIN a.pending) + 1)

-----------------------------------------------------------------------------
(* Annotation: the final types, which are recorded in the program.         *)

Record(a, key, t) == Ok([a EXCEPT !.types = (key :> t) @@ @], t)
\* `resolve_expression_type`
Final(a, t) == LET f == Resolve(a, t) IN Giving(Require(a, Concrete(f)), f)

RECURSIVE JoinTypes(_, _)
JoinTypes(left, right) ==
    IF {left, right} = Numbers THEN float
    ELSE IF IsOption(left) /\ IsOption(right) THEN Option(JoinTypes(left[2], right[2]))
    ELSE left

RECURSIVE AnnotateExpr(_, _, _), AnnotateBlock(_, _, _), FinishInstance(_, _, _)

\* Mutant of AnnotatedBinary: integer division stays, whatever it divides.
AnnotatedBinaryAsWritten(op, left, right) ==
    LET number == IF float \in {left, right} THEN float ELSE int
    IN  CASE op = "+" /\ left = str /\ right = str -> <<"concat", str>>
          [] op = "/" -> <<op, float>>
          [] op \in Comparisons \cup {"and"} -> <<op, bool>>
          [] op = "concat" -> <<op, str>>
          [] OTHER -> <<op, number>>

\* The operator that is emitted, and the type of its result.
AnnotatedBinary(op, left, right) ==
    LET number == IF float \in {left, right} THEN float ELSE int
    IN  CASE op = "+" /\ left = str /\ right = str -> <<"concat", str>>
          [] op = "div" /\ number = float -> <<"/", float>>
          [] op = "/" -> <<op, float>>
          [] op \in Comparisons \cup {"and"} -> <<op, bool>>
          [] op = "concat" -> <<op, str>>
          [] OTHER -> <<op, number>>

ValidBinary(op, left, right) ==
    /\ op \in Comparisons => left = right
    /\ op = "+" => <<left, right>> = <<str, str>> \/ {left, right} \subseteq Numbers

\* The operands from left to right; their final types.
AnnotateAll(a, es, key) ==
    FoldLeftDomain(
        LAMBDA r, i : After(r, LAMBDA b, types :
            After(AnnotateExpr(b, es[i], Append(key, i)), LAMBDA c, t : Ok(c, Append(types, t)))),
        Ok(a, <<>>), es)

AnnotateItems(a, types) ==
    Giving(Require(a, \A i \in DOMAIN types : IsValueType(types[i])),
           Array(FoldLeft(JoinTypes, Head(types), Tail(types))))

AnnotateCall(a, f, argument, key) ==
    After(Require(a, IsValueType(argument)), LAMBDA b, x :
        IF key \in DOMAIN b.pending THEN FinishInstance(b, key, argument)
        ELSE Ok(b, b.instances[b.callees[key]].result))

AnnotateUnary(a, op, t) ==
    CASE op = "neg" -> Giving(Require(a, t \in Numbers), t)
      [] op = "not" -> Giving(Require(a, t = bool), bool)
      [] op = "sin" -> After(Require(a, IsValueType(t)), LAMBDA b, x :
                                 Giving(Expect(b, float, t), float))
      [] op = "length" -> Giving(Require(a, t[1] = "Array"), int)
      [] op = "isnil" -> Giving(Require(a, IsOption(t)), bool)

AnnotateIndex(a, base, index) ==
    IF base[1] = "Array" THEN Giving(Require(a, index = int), base[2]) ELSE Ok(a, void)

AnnotateOperator(a, op, left, right, key) ==
    LET annotated == AnnotatedBinary(op, left, right)
    IN  After(Require(a, ValidBinary(op, left, right)), LAMBDA b, x :
            Ok([b EXCEPT !.operators = (key :> annotated[1]) @@ @], annotated[2]))

AnnotateKind(a, e, types, key) ==
    CASE e[1] = "lit" -> Ok(a, e[2])
      [] e[1] = "none" \/ (e[1] = "array" /\ e[2] = <<>>) -> Final(a, a.expressions[key])
      [] e[1] = "var" -> Final(a, Lookup(a, e[2]))
      [] e[1] = "index" -> AnnotateIndex(a, types[1], types[2])
      [] e[1] \in Operators ->
            AnnotateOperator(a, IF key \in DOMAIN a.operators THEN a.operators[key] ELSE e[1],
                             types[1], types[2], key)
      [] e[1] = "call" -> AnnotateCall(a, e[2], types[1], key)
      [] e[1] = "array" /\ e[2] # <<>> -> AnnotateItems(a, types)
      [] OTHER -> AnnotateUnary(a, e[1], types[1])

AnnotateExpr(a, e, key) ==
    After(AnnotateAll(a, Operands(e), key), LAMBDA b, types :
    After(AnnotateKind(b, e, types, key), LAMBDA c, t : Record(c, key, t)))

AnnotateTarget(a, st, key) ==
    CASE key \in DOMAIN a.bindings -> Ok(a, a.bindings[key])
      [] st[1] = "set" /\ key \notin DOMAIN a.bindings ->
            Giving(Final(a, a.environment[st[2]]), a.environment[st[2]])
      [] st[1] = "put" -> After(AnnotateExpr(a, st[2], Append(key, 1)), LAMBDA b, base :
                                    Ok(b, IF base[1] = "Array" THEN base[2] ELSE void))
      [] OTHER -> Ok(a, void)

\* A pass writes the type it finds over the annotation.
Annotation(a, st, key) == IF key \in DOMAIN a.types THEN a.types[key] ELSE st[3]

AnnotateLet(a, st, binding, init, key) ==
    After(IF st[1] = "declare" THEN Expect(a, Annotation(a, st, key), init)
                               ELSE Join(a, binding, init), LAMBDA b, x :
    After(Final(b, binding), LAMBDA c, final :
        Ok(BindTo(Record(c, key, final).a, st[2], binding), void)))

AnnotateNested(a, block, key) ==
    After(AnnotateBlock(a, block, key), LAMBDA b, x :
        Ok([b EXCEPT !.environment = a.environment], void))

AnnotateBranches(a, st, key) ==
    FoldLeft(LAMBDA r, labelled : After(r, LAMBDA b, x :
                 AnnotateNested(b, labelled[2], Append(key, labelled[1]))),
             Ok(a, void), Blocks(st))

AnnotateKindOf(a, st, target, value, key) ==
    CASE key \in DOMAIN a.bindings -> AnnotateLet(a, st, target, value, key)
      [] st[1] = "set" /\ key \notin DOMAIN a.bindings -> Reassign(a, target, value)
      [] st[1] = "put" -> Expect(a, target, value)
      [] st[1] \in {"do", "return"} -> Ok(a, void)
      [] OTHER -> After(Require(a, value = bool), LAMBDA b, x : AnnotateBranches(b, st, key))

AnnotateStatement(a, st, key) ==
    After(AnnotateTarget(a, st, key), LAMBDA b, target :
    After(AnnotateExpr(b, Value(st), ValueKey(st, key)), LAMBDA c, value :
    After(Require(c, IsWrite(st) => IsValueType(value)), LAMBDA d, x :
        AnnotateKindOf(d, st, target, value, key))))

AnnotateBlock(a, block, key) ==
    FoldLeftDomain(LAMBDA r, i : After(r, LAMBDA b, x :
                                          AnnotateStatement(b, block[i], Append(key, i))),
                   Ok(a, void), block)

\* `annotate_block` starts from the environment that inference has left.
AnnotateBody(a, block, key) == AnnotateNested(a, block, key)

RECURSIVE ReturnTypes(_, _, _)
ReturnTypes(a, block, key) ==
    FlattenSeq([i \in DOMAIN block |->
        LET st == block[i]
            k == Append(key, i)
        IN  IF st[1] = "return" THEN <<a.types[Append(k, 1)]>>
            ELSE FlattenSeq([j \in DOMAIN Blocks(st) |->
                     ReturnTypes(a, Blocks(st)[j][2], Append(k, Blocks(st)[j][1]))])])

JoinFinalTypes(r, t) ==
    IF {r.ty, t} = Numbers THEN Ok(r.a, float)
    ELSE IF r.ty = t \/ r.ty = Option(t) THEN r
    ELSE IF t = Option(r.ty) THEN Ok(r.a, t) ELSE Fail(r.a)

FinalReturnType(a, block, key) ==
    LET returns == ReturnTypes(a, block, key)
                     \o (IF AlwaysReturns(block) THEN <<>> ELSE <<void>>)
    IN  FoldLeft(JoinFinalTypes, Ok(a, Head(returns)), Tail(returns))

InstancesOf(a, f) == {k \in DOMAIN a.instances : k[1] = f}

\* What has been found out about the call, told to its result.
ExpectResult(a, p, t) ==
    LET provisional == Resolve(a, p.result)
    IN  IF Concrete(provisional) THEN Expect(a, provisional, t) ELSE Ok(a, void)

\* The body of an instance, for the argument it is called with.
InferInstance(a, p, supplied, at) ==
    After(Normalized(a, p.f, supplied), LAMBDA b, normalized :
    After(Final(b, normalized), LAMBDA c, given :
    After(EnterFunction(c, p.f, given), LAMBDA d, parameter :
    After(InferBlock(d, Functions[p.f].body, at), LAMBDA g, x :
    After(InferReturnType(g, Functions[p.f].body), LAMBDA h, returned :
    After(ExpectResult(h, p, returned), LAMBDA i, y :
    After(Stabilize([i EXCEPT !.active = a.active]), LAMBDA j, z : Final(j, parameter))))))))

\* A new instance is annotated twice, as the program is.
AnnotateInstance(a, f, instance, at) ==
    After(FoldLeft(LAMBDA r, pass : After(r, LAMBDA b, x : AnnotateBody(b, Functions[f].body, at)),
                   Ok(a, void), <<1, 2>>), LAMBDA b, y :
    After(FinalReturnType(b, Functions[f].body, at), LAMBDA c, result :
        Ok([c EXCEPT !.instances = (instance :> [result |-> result, at |-> at]) @@ @], result)))

FinishInstance(a, key, supplied) ==
    LET p == a.pending[key]
        at == key \o <<Instance>>
        popped == [a EXCEPT !.pending = [k \in DOMAIN @ \ {key} |-> @[k]]]
    IN  After(InferInstance(popped, p, supplied, at), LAMBDA b, parameter :
        LET instance == <<p.f, parameter>>
        IN  After(CASE instance \in DOMAIN b.instances ->
                           Giving(ExpectResult(b, p, b.instances[instance].result),
                                  b.instances[instance].result)
                    [] instance \notin DOMAIN b.instances
                       /\ Cardinality(InstancesOf(b, p.f)) >= InstanceLimit -> Fail(b)
                    [] OTHER -> AnnotateInstance(b, p.f, instance, at),
                  LAMBDA c, result :
                      Ok([Leave(c, a) EXCEPT !.callees = (key :> instance) @@ @], result)))

-----------------------------------------------------------------------------
(* The analysis of `setup`. *)

\* Following the substitutions comes to an end.
Finite(substitutions) ==
    \A id \in DOMAIN substitutions :
        LET Reach[n \in 0..Cardinality(DOMAIN substitutions)] ==
                IF n = 0 THEN VarsOf(substitutions[id])
                ELSE LET before == Reach[n - 1]
                     IN  before \cup UNION {VarsOf(substitutions[v]) :
                                               v \in before \cap DOMAIN substitutions}
        IN  id \notin Reach[Cardinality(DOMAIN substitutions)]

\* A diagnostic ends the analysis, and so does a type that contains itself:
\* resolving it overflows the stack.
Continue(after, next) ==
    /\ analyzer' = after.a
    /\ phase' = IF ~after.a.ok THEN "rejected"
                ELSE IF ~Finite(after.a.substitutions) THEN "overflow" ELSE next

Infer(st) ==
    /\ phase = "infer"
    /\ Len(body) < MaxStatements
    /\ body' = Append(body, st)
    /\ Continue(InferStatement(analyzer, st, <<Len(body) + 1>>), "infer")

EndOfBody ==
    /\ phase = "infer"
    /\ Continue(After(FoldLeft(LAMBDA r, t : After(r, LAMBDA a, x : Equal(a, void, t)),
                               Ok(analyzer, void), analyzer.returns),
                      LAMBDA a, x : Stabilize(a)), "first")
    /\ UNCHANGED body

AnnotateFirst ==
    /\ phase = "first"
    /\ Continue(AnnotateBody(analyzer, body, <<>>), "second")
    /\ UNCHANGED body

AnnotateSecond ==
    /\ phase = "second"
    /\ Continue(AnnotateBody(analyzer, body, <<>>), "accepted")
    /\ UNCHANGED body

Init ==
    /\ body = <<>>
    /\ phase = "infer"
    /\ analyzer = [ok |-> TRUE, next |-> 0, substitutions |-> <<>>, fixed |-> {},
                   numeric |-> {}, adds |-> <<>>, environment |-> <<>>, returns |-> <<>>,
                   active |-> {}, recordInstances |-> TRUE, pending |-> <<>>, order |-> 0,
                   bindings |-> <<>>, expressions |-> <<>>, types |-> <<>>,
                   operators |-> <<>>, callees |-> <<>>, instances |-> <<>>]

Next == (\E st \in Statements : Infer(st)) \/ EndOfBody \/ AnnotateFirst \/ AnnotateSecond

Spec == Init /\ [][Next]_vars

-----------------------------------------------------------------------------
(* What a typed program is, without the solver. *)

RECURSIVE Assignable(_, _), WellTypedExpr(_, _, _), WellTypedBlock(_, _, _, _)
Assignable(t, u) ==
    \/ t = u
    \/ t = int /\ u = float
    \/ IsOption(u) /\ Assignable(t, u[2])

Type(key) == analyzer.types[key]

\* The instance for an integer that the first pass has chosen stays in the call
\* when the second pass widens the variable that is passed (annotate.rs:231).
Outdated(e, key) ==
    /\ Functions[e[2]].type = None /\ e[3][1] = "var"
    /\ analyzer.callees[key][2] = int /\ Type(Append(key, 1)) = float

WellTypedExpr(e, key, env) ==
    LET first == Append(key, 1)
        second == Append(key, 2)
        t == Type(key)
        arguments(n) == \A i \in 1..n : WellTypedExpr(e[i + 1], Append(key, i), env)
    IN  CASE e[1] = "lit" -> t = e[2]
          [] e[1] = "none" -> IsOption(t)
          [] e[1] = "var" -> t = env[e[2]]
          [] e[1] \in Operators ->
                /\ arguments(2)
                /\ LET op == analyzer.operators[key]
                       types == {Type(first), Type(second)}
                   IN  CASE op = "concat" -> types = {str} /\ t = str
                         [] op \in Comparisons -> Cardinality(types) = 1 /\ t = bool
                         [] op = "and" -> types = {bool} /\ t = bool
                         [] op = "/" -> types \subseteq Numbers /\ t = float
                         [] op = "div" -> types = {int} /\ t = int
                         [] OTHER -> types \subseteq Numbers
                                       /\ t = (IF float \in types THEN float ELSE int)
          [] e[1] = "neg" -> arguments(1) /\ t = Type(first) /\ t \in Numbers
          [] e[1] = "not" -> arguments(1) /\ Type(first) = bool /\ t = bool
          [] e[1] = "sin" -> arguments(1) /\ Type(first) \in Numbers /\ t = float
          [] e[1] = "index" -> arguments(2) /\ Type(first) = Array(t) /\ Type(second) = int
          [] e[1] = "length" -> arguments(1) /\ Type(first)[1] = "Array" /\ t = int
          [] e[1] = "isnil" -> arguments(1) /\ IsOption(Type(first)) /\ t = bool
          [] e[1] = "array" ->
                /\ t[1] = "Array"
                /\ \A i \in DOMAIN e[2] :
                       /\ WellTypedExpr(e[2][i], Append(key, i), env)
                       /\ Assignable(Type(Append(key, i)), t[2])
          [] e[1] = "call" ->
                /\ WellTypedExpr(e[3], first, env)
                /\ Assignable(Type(first), analyzer.callees[key][2]) \/ Outdated(e, key)
                /\ t = analyzer.instances[analyzer.callees[key]].result

\* The declared types after a prefix of a block.
Declared(block, key, env, n) ==
    FoldLeftDomain(LAMBDA d, i : IF Append(key, i) \in DOMAIN analyzer.bindings
                                 THEN (block[i][2] :> Type(Append(key, i))) @@ d ELSE d,
                   env, SubSeq(block, 1, n))

WellTypedBlock(block, key, env, result) ==
    \A i \in DOMAIN block :
        LET st == block[i]
            k == Append(key, i)
            declared == Declared(block, key, env, i)
            first == Append(k, 1)
            e == IF st[1] = "put" THEN st[2] ELSE Value(st)
        IN  /\ WellTypedExpr(e, first, Declared(block, key, env, i - 1))
            /\ CASE st[1] \in {"set", "declare"} -> Assignable(Type(first), declared[st[2]])
                 [] st[1] = "put" ->
                        /\ WellTypedExpr(st[3], Append(k, 2), declared)
                        /\ Type(first)[1] = "Array"
                        /\ Assignable(Type(Append(k, 2)), Type(first)[2])
                 [] st[1] = "do" -> TRUE
                 [] st[1] \in {"if", "while"} -> Type(first) = bool
                 [] st[1] = "return" -> Assignable(Type(first), result)
            /\ \A j \in DOMAIN Blocks(st) :
                   WellTypedBlock(Blocks(st)[j][2], Append(k, Blocks(st)[j][1]), declared, result)

(* docs/type-system.md, 6 and 24: the typed program is typed indeed.  What *)
(* is read, assigned, added, compared and indexed has, at the end, the     *)
(* types that this takes, although types change while constraints come in. *)
WellTyped == phase = "accepted" => WellTypedBlock(body, <<>>, <<>>, void)

(* The same of each instance of a function, for the parameter that its     *)
(* name stands for, and whoever calls it.                                  *)
InstancesWellTyped ==
    phase = "accepted" =>
        \A k \in DOMAIN analyzer.instances :
            WellTypedBlock(Functions[k[1]].body, analyzer.instances[k].at,
                           (Functions[k[1]].param :> k[2]), analyzer.instances[k].result)

(* A program that is accepted is typed throughout: docs/type-system.md, 6,  *)
(* and 75 for calls.  Excepted are calls that are Outdated: there the       *)
(* program is not typed, against what these lines say.                     *)
ProgramsWellTyped == WellTyped /\ InstancesWellTyped

(* errors.md, E0312: no type contains itself, however variables are chained. *)
TypesAreFinite == phase # "overflow"

(* What arithmetic has asked to be a number remains one, whichever         *)
(* variables it has been unified with before and since.                    *)
NumbersStayNumbers ==
    phase \notin {"rejected", "overflow"} =>
        \A id \in analyzer.numeric :
            LET t == Resolve(analyzer, Var(id))
            IN  t \in Numbers \/ (IsVar(t) /\ t[2] \in analyzer.numeric)

TypeOK ==
    /\ body \in Seq(Statements) /\ Len(body) <= MaxStatements
    /\ phase \in {"infer", "first", "second", "accepted", "rejected", "overflow"}
    /\ DOMAIN analyzer.substitutions \cup analyzer.numeric \cup analyzer.fixed
           \subseteq 0..(analyzer.next - 1)
    /\ analyzer.ok => \A k \in DOMAIN analyzer.types : Concrete(analyzer.types[k])
    /\ phase = "accepted" => analyzer.pending = <<>>

(* The state of the solver is typed, and numbers stay numbers.             *)
SolverSound == TypeOK /\ NumbersStayNumbers
=============================================================================
