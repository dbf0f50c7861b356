--------------------------- MODULE SourceLanguages ---------------------------
(* What the programs the adapters read mean in Ruby, PHP and Perl, as far as  *)
(* docs/common-core.md keeps it: integers wrap, arrays do not grow, an        *)
(* element that is not there ends the program, and `%` rounds as the          *)
(* document's table says. Scopes, truth, the order of evaluation, loops,      *)
(* whether arrays are shared, and results are the languages'. Programs have   *)
(* the form of Common Core's, with "op" expressions and the statements their  *)
(* language has; PHP's and Perl's variables are written with their sigils.    *)
EXTENDS CommonCore, TLC

Bare(x) == SubSeq(x, 2, Len(x))

(* Conditions are booleans, but for Ruby's.                                   *)
Holds(lang, v) == IF lang = "ruby" THEN v \notin {Nil, Bool(FALSE)} ELSE v[2]

SourceOperator(lang, op, type, vs) ==
    CASE op \in {"+", "-", "*"} -> CoreBinary("host", op, type, vs[1], vs[2])
      [] op \in Comparisons -> Bool(Truth(op, vs[1], vs[2]))
      [] op = "/" -> CoreBinary("host", "DivInt", type, vs[1], vs[2])
      [] op = "%" -> CoreBinary("host", IF lang = "ruby" THEN "RemFloor" ELSE "RemTrunc",
                                type, vs[1], vs[2])
      [] op = "neg" -> Numeric("host", type, -vs[1][2])
      [] op = "plus" -> vs[1]
      [] op = "!" -> Bool(~Holds(lang, vs[1]))
      [] op = "is_null" -> Bool(vs[1] = Nil)
      [] op = "defined" -> Bool(vs[1] # Nil)

SourceOperate(lang, e, vs, st) ==
    CASE e[1] = "op" /\ e[2] = "count" -> Operate("host", <<"prim", "length", "int", <<>>>>, vs, st)
      [] e[1] = "op" -> Give(st, SourceOperator(lang, e[2], e[3], vs))
      [] OTHER -> Operate("host", e, vs, st)

(* Arrays are values in PHP: what is read of a variable is a copy of what it  *)
(* holds, whoever changes which of the two. Their elements are no arrays here.*)
Copied(v, st) == IF v[1] # "array" THEN st
                 ELSE Operate("host", <<"prim", "array", "array", <<>>>>, st.heap[v[2]], st)

RECURSIVE SourceEval(_, _, _), SourceEvalAll(_, _, _, _)

(* A constant of Perl is a variable of the file.                              *)
SourceEval(lang, e, st) ==
    CASE lang = "perl" /\ e[1] = "var" /\ Holding(st, e[2]) = {} ->
             Give(st, IF Bare(e[2]) \in DOMAIN Constants THEN Value("host", Constants[Bare(e[2])])
                                                         ELSE Invalid)
      [] lang = "php" /\ e[1] = "var" ->
             LET r == Eval("host", e, st) IN IF r.status = "run" THEN Copied(r.value, r) ELSE r
      [] e[1] \in LiteralKinds \cup {"constant", "var"} -> Eval("host", e, st)
      [] e[1] = "op" /\ e[2] \in {"&&", "||"} ->
             LET left == SourceEval(lang, e[4][1], st)
             IN  IF left.status = "run" /\ Holds(lang, left.value) = (e[2] = "&&")
                 THEN SourceEval(lang, e[4][2], left) ELSE left
      [] OTHER -> LET r == SourceEvalAll(lang, e[4], <<>>, st)
                  IN  IF r.st.status # "run" THEN r.st ELSE SourceOperate(lang, e, r.vs, r.st)

SourceEvalAll(lang, es, vs, st) ==
    IF es = <<>> \/ st.status # "run" THEN [st |-> st, vs |-> vs]
    ELSE LET r == SourceEval(lang, Head(es), st)
         IN  SourceEvalAll(lang, Tail(es), Append(vs, r.value), r)

-----------------------------------------------------------------------------
(* Variables are PHP's function's, Ruby's function's or block's, where they   *)
(* are first written, and Perl's block's, where they are declared.            *)
Write(lang, st, x, v) ==
    LET scope == CASE lang = "php" -> 1
                   [] Holding(st, x) # {} -> Top(Holding(st, x))
                   [] OTHER -> Len(st.scopes)
    IN  CASE st.status # "run" -> st
          [] lang = "perl" /\ Holding(st, x) = {} -> Give(st, Invalid)
          [] OTHER -> [st EXCEPT !.scopes[scope] = (x :> v) @@ @, !.value = v]

(* A block's parameter is its own; PHP's target of a loop is a variable.      *)
Bind(lang, x, v, st) ==
    CASE x = <<>> -> [st EXCEPT !.scopes = Append(@, EmptyScope)]
      [] lang = "php" -> Write(lang, [st EXCEPT !.scopes = Append(@, EmptyScope)], x[1], v)
      [] OTHER -> [st EXCEPT !.scopes = Append(@, x[1] :> v)]

RECURSIVE SourceExec(_, _, _), SourceExecAll(_, _, _), SourceIf(_, _, _, _),
          SourceRepeat(_, _, _, _, _), SourceCount(_, _, _, _, _, _),
          SourceItems(_, _, _, _, _, _)

SourceBlock(lang, ss, st) ==
    CASE st.status # "run" -> st
      [] lang = "perl" -> Pop(SourceExecAll(lang, ss, [Give(st, Nil) EXCEPT
                                                          !.scopes = Append(@, EmptyScope)]))
      [] OTHER -> SourceExecAll(lang, ss, Give(st, Nil))

SourceExecAll(lang, ss, st) ==
    IF ss = <<>> \/ st.status # "run" THEN st
    ELSE LET next == SourceExec(lang, Head(ss), st)
         IN  SourceExecAll(lang, Tail(ss), next)

(* What no branch is taken for is nil, or Perl's last condition.              *)
SourceIf(lang, branches, else, st) ==
    LET c == SourceEval(lang, Head(branches)[1], st)
    IN  CASE branches = <<>> /\ else # <<>> -> SourceBlock(lang, else[1], st)
          [] branches = <<>> -> IF lang = "perl" THEN st ELSE Give(st, Nil)
          [] c.status # "run" -> c
          [] Holds(lang, c.value) -> SourceBlock(lang, Head(branches)[2], c)
          [] OTHER -> SourceIf(lang, Tail(branches), else, c)

SourceRepeat(lang, cond, step, body, st) ==
    LET c == SourceEval(lang, cond, st)
        b == AfterBody(SourceBlock(lang, body, [c EXCEPT !.fuel = @ - 1]))
        s == SourceExecAll(lang, step, b)
    IN  CASE c.status # "run" -> c
          [] ~Holds(lang, c.value) -> Give(c, Nil)
          [] c.fuel = 0 -> [c EXCEPT !.status = "fuel"]
          [] b.status # "run" -> Left(b)
          [] OTHER -> SourceRepeat(lang, cond, step, body, s)

SourceCount(lang, x, i, end, body, st) ==
    LET inner == Bind(lang, x, <<"int", i>>, [st EXCEPT !.fuel = @ - 1])
        b == AfterBody(Pop(SourceBlock(lang, body, inner)))
    IN  CASE i > end -> Give(st, Nil)
          [] st.fuel = 0 -> [st EXCEPT !.status = "fuel"]
          [] b.status # "run" -> Left(b)
          [] OTHER -> SourceCount(lang, x, i + 1, end, body, b)

(* Ruby's loop asks how long the array is before every element; PHP's array   *)
(* is a copy.                                                                 *)
SourceItems(lang, x, array, i, body, st) ==
    LET inner == Bind(lang, x, st.heap[array][i], [st EXCEPT !.fuel = @ - 1])
        b == AfterBody(Pop(SourceBlock(lang, body, inner)))
    IN  CASE i > Len(st.heap[array]) -> Give(st, Nil)
          [] st.fuel = 0 -> [st EXCEPT !.status = "fuel"]
          [] b.status # "run" -> Left(b)
          [] OTHER -> SourceItems(lang, x, array, i + 1, body, b)

(* The array, the index, the value, in this order, and Perl the value first;  *)
(* whether the element is there matters when all are known. What a variable   *)
(* holds is written to, and not a copy of it.                                 *)
PutElement(lang, target, e, st) ==
    LET first == IF lang = "perl" THEN SourceEval(lang, e, st) ELSE st
        array == IF first.status = "run" THEN Eval("host", target[4][1], first) ELSE first
        index == IF array.status = "run" THEN SourceEval(lang, target[4][2], array) ELSE array
        last == CASE index.status # "run" -> index
                  [] lang = "perl" -> Give(index, first.value)
                  [] OTHER -> SourceEval(lang, e, index)
    IN  CASE last.status # "run" -> last
          [] ~InBounds(last, <<array.value, index.value>>) -> Give(last, Outside)
          [] OTHER -> Put(last, array.value, index.value, last.value)

SourceExec(lang, s, st) ==
    CASE s[1] = "assign" /\ s[2][1] = "var" ->
             LET r == SourceEval(lang, s[3], st) IN Write(lang, r, s[2][2], r.value)
      [] s[1] = "assign" -> PutElement(lang, s[2], s[3], st)
      [] s[1] = "my" -> LET r == SourceEval(lang, s[3], st) IN Declare(r, s[2], r.value)
      [] s[1] = "increment" ->
             LET r == SourceEval(lang, s[4], st)
                 new == Numeric("host", "int", IF s[2] = "++" THEN r.value[2] + 1 ELSE r.value[2] - 1)
             IN  IF s[3] = "pre" THEN Write(lang, r, s[4][2], new)
                 ELSE [Write(lang, r, s[4][2], new) EXCEPT !.value = r.value]
      [] s[1] = "expr" -> SourceEval(lang, s[2], st)
      [] s[1] = "block" -> SourceBlock(lang, s[2], st)
      [] s[1] = "if" -> SourceIf(lang, s[2], s[3], st)
      [] s[1] = "unless" ->
             SourceIf(lang, << <<<<"op", "!", "bool", <<s[2][1][1]>>>>, s[2][1][2]>> >> \o Tail(s[2]),
                      s[3], st)
      [] s[1] = "while" -> SourceRepeat(lang, s[2], <<>>, s[3], st)
      [] s[1] = "for" ->
             SourceRepeat(lang, s[4], <<s[5]>>, s[6],
                          SourceExec(lang, <<"assign", s[2], s[3]>>, st))
      [] s[1] = "times" ->
             LET r == SourceEval(lang, s[3], st)
             IN  IF r.status # "run" THEN r ELSE SourceCount(lang, s[2], 0, r.value[2] - 1, s[4], r)
      [] s[1] = "range" ->
             LET r == SourceEvalAll(lang, <<s[3], s[4]>>, <<>>, st)
             IN  IF r.st.status # "run" THEN r.st
                 ELSE SourceCount(lang, s[2], r.vs[1][2], r.vs[2][2] - (IF s[5] THEN 0 ELSE 1),
                                  s[6], r.st)
      [] s[1] = "each" ->
             LET r == SourceEval(lang, s[3], st)
             IN  IF r.status # "run" THEN r ELSE SourceItems(lang, s[2], r.value[2], 1, s[4], r)
      [] s[1] = "return" ->
             LET r == IF s[2] = <<>> THEN Give(st, Nil) ELSE SourceEval(lang, s[2][1], st)
             IN  IF r.status = "run" THEN [r EXCEPT !.status = "return"] ELSE r
      [] s[1] \in {"break", "continue"} -> [st EXCEPT !.status = s[1]]

(* A call with an argument: the end of a function returns its last value in   *)
(* Ruby and Perl, nothing in PHP.                                             *)
SourceRun(lang, ss, scope) ==
    LET st == SourceExecAll(lang, ss, Start(scope))
    IN  CASE st.status = "run" /\ lang = "php" -> [st EXCEPT !.status = "return", !.value = Nil]
          [] st.status = "run" -> [st EXCEPT !.status = "return"]
          [] OTHER -> st
=============================================================================
