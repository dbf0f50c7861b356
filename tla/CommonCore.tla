------------------------------ MODULE CommonCore ------------------------------
(* What programs mean: Common Core, as docs/common-core.md describes it, and  *)
(* the JavaScript and GLSL that are generated from it. An expression is       *)
(* <<kind, info, type, arguments>>, a value <<type, value>>; the code that is  *)
(* generated consists of the same statements, with "op" expressions for what  *)
(* its language has. "host" and "gpu" are Common Core on either target, "js"  *)
(* and "glsl" the languages.                                                  *)
EXTENDS CoreOperators, SequencesExt

CONSTANTS
    Fuel,       \* the number of iterations after which a run is given up
    Constants,  \* name -> literal
    Unsafe,     \* the names JavaScript reserves, or generated code has itself
    Defaults    \* builtin -> the literals its arguments default to

ASSUME FuelAssumption == Fuel \in Nat

-----------------------------------------------------------------------------
(* A run: the scopes, the arrays, what has been called, the last value, and   *)
(* how it goes on.                                                            *)
EmptyScope == [x \in {} |-> Nil]
Start(scope) == [scopes |-> <<scope>>, heap |-> <<>>, trace |-> <<>>, value |-> Nil,
                 status |-> "run", fuel |-> Fuel]
Give(st, v) == IF v[1] \in {"trap", "bounds", "error", "undefined"} THEN [st EXCEPT !.status = v[1]]
                                                          ELSE [st EXCEPT !.value = v]
Holding(st, x) == {i \in DOMAIN st.scopes : x \in DOMAIN st.scopes[i]}
Top(S) == CHOOSE i \in S : \A j \in S : j <= i
Count(lang, n) == IF lang = "js" THEN Num(n) ELSE <<"int", n>>

(* An element of an array; one that is not there.                             *)
InBounds(st, vs) == vs[2][2] \in 0..(Len(st.heap[vs[1][2]]) - 1)
Element(st, vs) == st.heap[vs[1][2]][vs[2][2] + 1]

(* A builtin writes what it is given and returns how often one was called.    *)
Called(lang, e, vs, st) ==
    LET omitted == SubSeq(Defaults[e[2]], Len(vs) + 1, Len(Defaults[e[2]]))
        given == IF lang \in {"host", "gpu"}
                 THEN vs \o [i \in DOMAIN omitted |-> Value(lang, omitted[i])] ELSE vs
        trace == Append(st.trace, <<e[2], [i \in DOMAIN given |-> Erase(given[i])]>>)
    IN  Give([st EXCEPT !.trace = trace],
             IF e[3] = "unit" THEN Nil ELSE Count(lang, Len(trace)))

Operate(lang, e, vs, st) ==
    CASE e[1] = "call" -> Called(lang, e, vs, st)
      [] e[2] = "array" -> Give([st EXCEPT !.heap = Append(@, vs)],
                                <<"array", Len(st.heap) + 1>>)
      [] e[2] = "length" -> Give(st, Count(lang, Len(st.heap[vs[1][2]])))
      [] e[2] = "index" -> Give(st, IF InBounds(st, vs) THEN Element(st, vs)
                                    ELSE IF lang = "js" THEN <<"undefined", 0>> ELSE Outside)
      [] e[2] = "checkedIndex" -> Give(st, IF InBounds(st, vs) THEN Element(st, vs) ELSE Outside)
      [] e[2] = "isNil" -> Give(st, Bool(vs[1] = Nil))
      [] e[2] = "isFalsy" -> Give(st, Bool(vs[1] \in {Nil, Bool(FALSE)}))
      [] e[1] = "binary" -> Give(st, CoreBinary(lang, e[2], e[3], vs[1], vs[2]))
      [] e[1] = "unary" -> Give(st, CoreUnary(lang, e[2], e[3], vs[1]))
      [] e[1] = "helper" /\ lang = "js" -> Give(st, JsHelper(e[2], vs[1][2], vs[2][2]))
      [] e[1] = "helper" -> Give(st, IF vs[1][1] # "int" \/ vs[2][1] # "int" THEN Invalid
                                     ELSE <<"int", GlslHelper(e[2], vs[1][2], vs[2][2])>>)
      [] lang = "js" -> Give(st, JsOperator(e[2], vs))
      [] lang = "glsl" -> Give(st, GlslOperator(e[2], vs))

RECURSIVE Eval(_, _, _), EvalAll(_, _, _, _)

(* Arguments and operands are evaluated left to right, the right operand of   *)
(* `&&` and `||` only if the left one does not decide.                        *)
Eval(lang, e, st) ==
    CASE e[1] \in LiteralKinds -> Give(st, Value(lang, e))
      [] e[1] = "constant" -> Give(st, IF lang = "js" THEN Erase(Value(lang, Constants[e[2]]))
                                                      ELSE Value(lang, Constants[e[2]]))
      [] e[1] = "var" ->
             IF Holding(st, e[2]) # {} THEN Give(st, st.scopes[Top(Holding(st, e[2]))][e[2]])
             ELSE IF lang \in {"host", "gpu"} /\ e[2] \in DOMAIN Constants
                  THEN Give(st, Value(lang, Constants[e[2]]))
                  ELSE Give(st, Invalid)
      [] e[1] \in {"binary", "op"} /\ e[2] \in {"&&", "||"} ->
             LET left == Eval(lang, e[4][1], st)
             IN  IF left.status = "run" /\ left.value[2] = (e[2] = "&&")
                 THEN Eval(lang, e[4][2], left) ELSE left
      [] OTHER -> LET r == EvalAll(lang, e[4], <<>>, st)
                  IN  IF r.st.status # "run" THEN r.st ELSE Operate(lang, e, r.vs, r.st)

EvalAll(lang, es, vs, st) ==
    IF es = <<>> \/ st.status # "run" THEN [st |-> st, vs |-> vs]
    ELSE LET r == Eval(lang, Head(es), st)
         IN  EvalAll(lang, Tail(es), Append(vs, r.value), r)

-----------------------------------------------------------------------------
(* Statements.                                                                *)
Declared(ss) == {ss[i][2] : i \in {j \in DOMAIN ss : ss[j][1] = "let"}}
Repeats(ss) == \E i, j \in DOMAIN ss : /\ i < j /\ ss[i][1] = "let" /\ ss[j][1] = "let"
                                       /\ ss[i][2] = ss[j][2]

(* JavaScript's `let` hides the name in its whole block; neither language has *)
(* two declarations of a name in one.                                         *)
NewScope(lang, ss) == [x \in IF lang = "js" THEN Declared(ss) ELSE {} |-> Invalid]

(* What a declaration, an assignment or a return makes of its value: GLSL     *)
(* does not convert, and JavaScript has numbers only.                         *)
Coerce(lang, type, v) ==
    CASE lang = "js" -> v
      [] lang = "glsl" -> IF v[1] = type THEN v ELSE Invalid
      [] OTHER -> Convert(lang, type, v)

Declare(st, x, v) ==
    IF st.status # "run" THEN st
    ELSE [st EXCEPT !.scopes[Len(st.scopes)] =
              [y \in DOMAIN @ \cup {x} |-> IF y = x THEN v ELSE @[y]]]
Pop(st) == [st EXCEPT !.scopes = Front(@)]

Assign(lang, st, x, v) ==
    IF Holding(st, x) = {} THEN Give(st, Invalid)
    ELSE LET i == Top(Holding(st, x))
         IN  IF \/ st.scopes[i][x] = Invalid
                \/ lang = "glsl" /\ st.scopes[i][x][1] # v[1]
             THEN Give(st, Invalid) ELSE [st EXCEPT !.scopes[i][x] = v]

Put(st, base, index, v) == [st EXCEPT !.heap[base[2]][index[2] + 1] = v]

RECURSIVE Exec(_, _, _), ExecAll(_, _, _), Repeat(_, _, _, _, _), CountUp(_, _, _, _, _, _)

ExecBlock(lang, ss, st) ==
    IF st.status # "run" THEN st
    ELSE IF \/ lang \in {"js", "glsl"} /\ Repeats(ss)
            \/ lang = "js" /\ Declared(ss) \cap Unsafe # {}
         THEN Give(st, Invalid)
    ELSE Pop(ExecAll(lang, ss, [st EXCEPT !.scopes = Append(@, NewScope(lang, ss))]))

ExecAll(lang, ss, st) ==
    IF ss = <<>> \/ st.status # "run" THEN st
    ELSE LET next == Exec(lang, Head(ss), st)
         IN  ExecAll(lang, Tail(ss), next)

AfterBody(st) == CASE st.status = "continue" -> [st EXCEPT !.status = "run"]
                   [] st.status = "break" -> [st EXCEPT !.status = "leave"]
                   [] OTHER -> st
Left(st) == IF st.status = "leave" THEN [st EXCEPT !.status = "run"] ELSE st

(* A loop with a condition and a step, as both languages have it.             *)
Repeat(lang, cond, step, body, st) ==
    LET c == Eval(lang, cond, st)
        b == AfterBody(ExecBlock(lang, body, [c EXCEPT !.fuel = @ - 1]))
        s == ExecAll(lang, step, b)
    IN  IF c.status # "run" \/ ~c.value[2] THEN c
        ELSE IF c.fuel = 0 THEN [c EXCEPT !.status = "fuel"]
        ELSE IF b.status # "run" THEN Left(b)
        ELSE Repeat(lang, cond, step, body, s)

(* Common Core's ascending loop over the integers from i to end.              *)
CountUp(lang, x, i, end, body, st) ==
    LET inner == [st EXCEPT !.scopes = Append(@, [y \in {x} |-> <<"int", i>>]),
                            !.fuel = @ - 1]
        b == AfterBody(Pop(ExecBlock(lang, body, inner)))
    IN  IF i > end THEN st
        ELSE IF st.fuel = 0 THEN [st EXCEPT !.status = "fuel"]
        ELSE IF b.status # "run" THEN Left(b)
        ELSE CountUp(lang, x, i + 1, end, body, b)

(* The effect of a statement. The element an assignment puts is checked       *)
(* before its value is evaluated.                                             *)
Exec(lang, s, st) ==
    CASE s[1] = "let" ->
             LET r == Eval(lang, s[4], st)
                 v == Coerce(lang, s[3], r.value)
             IN  IF r.status = "run" /\ v = Invalid THEN Give(r, v) ELSE Declare(r, s[2], v)
      [] s[1] = "assign" /\ s[2][1] = "var" ->
             LET r == Eval(lang, s[3], st)
             IN  IF r.status # "run" THEN r
                 ELSE Assign(lang, r, s[2][2], IF lang \in {"js", "glsl"} THEN r.value
                                               ELSE Convert(lang, s[2][3], r.value))
      [] s[1] \in {"assign", "checkedPut"} ->
             LET r == EvalAll(lang, s[2][4], <<>>, st)
                 bad == ~InBounds(r.st, r.vs)
                 w == Eval(lang, s[3], r.st)
             IN  CASE r.st.status # "run" -> r.st
                   [] bad /\ (lang # "js" \/ s[1] = "checkedPut") -> Give(r.st, Outside)
                   [] w.status # "run" -> w
                   [] bad -> Give(w, <<"undefined", 0>>)
                   [] OTHER -> Put(w, r.vs[1], r.vs[2], Coerce(lang, s[2][3], w.value))
      [] s[1] = "expr" -> Eval(lang, s[2], st)
      [] s[1] = "block" -> ExecBlock(lang, s[2], st)
      [] s[1] = "if" ->
             LET c == Eval(lang, s[2], st)
             IN  CASE c.status # "run" -> c
                   [] c.value[2] -> ExecBlock(lang, s[3], c)
                   [] s[4] # <<>> -> ExecBlock(lang, s[4][1], c)
                   [] OTHER -> c
      [] s[1] = "while" -> Repeat(lang, s[2], <<>>, s[3], st)
      [] s[1] = "for" ->
             LET r == EvalAll(lang, <<s[3], s[4]>>, <<>>, st)
             IN  IF r.st.status # "run" THEN r.st
                 ELSE CountUp(lang, s[2], r.vs[1][2],
                             IF s[5] THEN r.vs[2][2] ELSE r.vs[2][2] - 1, s[6], r.st)
      [] s[1] = "loop" ->
             LET st2 == ExecAll(lang, s[2], [st EXCEPT !.scopes = Append(@, NewScope(lang, s[2]))])
             IN  IF st2.status # "run" THEN Pop(st2)
                 ELSE Pop(Repeat(lang, s[3], s[4], s[5], st2))
      [] s[1] = "return" ->
             LET r == IF s[2] = <<>> THEN Give(st, Unit) ELSE Eval(lang, s[2][1], st)
             IN  IF r.status = "run" THEN [r EXCEPT !.status = "return"] ELSE r
      [] s[1] \in {"break", "continue"} -> [st EXCEPT !.status = s[1]]

(* What can be told of a run: the builtins called, how it ended, and what it  *)
(* returned. The end of a function returns nothing.                           *)
Outcome(st) ==
    [trace |-> st.trace,
     status |-> IF st.status = "run" THEN "return" ELSE st.status,
     value |-> IF st.status = "return" THEN Erase(st.value) ELSE Nil]
=============================================================================
