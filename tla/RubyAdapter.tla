----------------------------- MODULE RubyAdapter -----------------------------
(* How polygl-adapter-ruby lowers the statements of a method to Common Core.  *)
(* Ruby's locals live in the whole method, Common Core's in their block: a    *)
(* name is read only where it has been written in the same block or around    *)
(* it, and the first write there declares it.                                 *)
EXTENDS Lowering

RubyBinary == "+" :> "+" @@ "-" :> "-" @@ "*" :> "*" @@ "/" :> "DivInt" @@ "%" :> "RemFloor"
              @@ "==" :> "==" @@ "!=" :> "!=" @@ "<" :> "<" @@ "<=" :> "<="
              @@ ">" :> ">" @@ ">=" :> ">="
              @@ "&&" :> "&&" @@ "||" :> "||"
RubyUnary == "neg" :> "-"

(* Expressions that are accepted, and what they are lowered to. The literal   *)
(* of the least integer includes its sign.                                    *)
RECURSIVE RubyTakes(_, _), RubyExpr(_), RubyCondition(_)

RubyTakes(e, declared) ==
    CASE IsLeastInteger(e) -> TRUE
      [] IsLiteral(e) -> InRange(e)
      [] e[1] = "var" -> e[2] \in declared
      [] e[1] = "constant" -> e[2] \in DOMAIN Constants
      [] e[1] = "op" -> /\ e[2] \in DOMAIN RubyBinary \cup DOMAIN RubyUnary \cup {"!"}
                        /\ \A i \in DOMAIN e[4] : RubyTakes(e[4][i], declared)
      [] OTHER -> \A i \in DOMAIN e[4] : RubyTakes(e[4][i], declared)

RubyExpr(e) ==
    LET args == [i \in DOMAIN e[4] |-> RubyExpr(e[4][i])]
    IN  CASE IsLeastInteger(e) -> Number(MinInt)
          [] e[1] = "constant" -> Variable(e[2], e[3])
          [] e[1] = "op" /\ e[2] = "!" -> <<"prim", "isFalsy", "bool", args>>
          [] e[1] = "op" /\ e[2] \in DOMAIN RubyUnary -> <<"unary", RubyUnary[e[2]], e[3], args>>
          [] e[1] = "op" -> <<"binary", RubyBinary[e[2]], e[3], args>>
          [] OTHER -> <<e[1], e[2], e[3], args>>

Truthy(e) == <<"unary", "!", "bool", <<<<"prim", "isFalsy", "bool", <<e>>>>>>>>

(* A condition holds unless its value is nil or false.                        *)
RubyCondition(e) ==
    IF e[1] = "op" /\ e[2] \in {"&&", "||", "!"}
    THEN LET args == [i \in DOMAIN e[4] |-> RubyCondition(e[4][i])]
         IN  <<IF e[2] = "!" THEN "unary" ELSE "binary", e[2], "bool", args>>
    ELSE Truthy(RubyExpr(e))

-----------------------------------------------------------------------------
RubyWrite(s, d) ==
    LET x == s[2][2]
        value == RubyExpr(s[3])
    IN  Lowered(RubyTakes(s[3], d.declared),
                <<IF x \in d.declared THEN <<"assign", s[2], value>> ELSE <<"let", x, s[3][3], value>>>>,
                Knowing(d, x))

RubyIndexWrite(s, d) ==
    Lowered(RubyTakes(s[2], d.declared) /\ RubyTakes(s[3], d.declared),
            << <<"assign", RubyExpr(s[2]), RubyExpr(s[3])>> >>, d)

RubyReturn(s, d) ==
    Lowered(\A i \in DOMAIN s[2] : RubyTakes(s[2][i], d.declared),
            << <<"return", [i \in DOMAIN s[2] |-> RubyExpr(s[2][i])]>> >>, d)

\* Mutant of RubyParameter: the temporary may have the name of a variable.
RubyParameterAnyName(x, purpose, d) ==
    IF x = <<>> THEN Temporary(purpose, d, {}) ELSE [name |-> x[1], d |-> d]

(* The parameter of a block, or a temporary in its place.                     *)
RubyParameter(x, purpose, d) ==
    IF x = <<>> THEN Temporary(purpose, d, d.declared) ELSE [name |-> x[1], d |-> d]

RECURSIVE RubyStatement(_, _), RubyStatements(_, _), RubyIf(_, _, _)

RubyStatements(ss, d) ==
    IF ss = <<>> THEN Lowered(TRUE, <<>>, d)
    ELSE LET r == RubyStatement(Head(ss), d)
         IN  Followed(r, RubyStatements(Tail(ss), r.d))

RubyNested(ss, d) == Leaving(RubyStatements(ss, d), d)
RubyBlockBody(ss, x, d) == Leaving(RubyStatements(ss, InLoop(Knowing(d, x))), d)

RubyWhile(s, d) ==
    LET r == Leaving(RubyNested(s[3], InLoop(d)), d)
    IN  Lowered(r.ok /\ RubyTakes(s[2], d.declared),
                << <<"while", RubyCondition(s[2]), r.code>> >>, r.d)

RubyTimes(s, d) ==
    LET x == RubyParameter(s[2], "times_index", d)
        r == RubyBlockBody(s[4], x.name, x.d)
    IN  Lowered(r.ok /\ RubyTakes(s[3], d.declared),
                << <<"for", x.name, Number(0), RubyExpr(s[3]), FALSE, r.code>> >>, r.d)

RubyRange(s, d) ==
    LET x == RubyParameter(s[2], "range_value", d)
        r == RubyBlockBody(s[6], x.name, x.d)
    IN  Lowered(r.ok /\ RubyTakes(s[3], d.declared) /\ RubyTakes(s[4], d.declared),
                << <<"for", x.name, RubyExpr(s[3]), RubyExpr(s[4]), s[5], r.code>> >>, r.d)

RubyEach(s, d) ==
    LET values == Temporary("each_values", d, d.declared)
        index == Temporary("each_index", values.d, d.declared)
        item == RubyParameter(s[2], "each_value", index.d)
        r == RubyBlockBody(s[4], item.name, item.d)
    IN  Lowered(r.ok /\ RubyTakes(s[3], d.declared),
                ArrayLoop(RubyExpr(s[3]), values.name, index.name, item.name, "int", r.code), r.d)

(* `elsif` is a condition in the other branch.                                *)
RubyIf(branches, else, d) ==
    LET taken == RubyNested(branches[1][2], d)
        other == CASE Len(branches) > 1 -> RubyIf(Tail(branches), else, taken.d)
                   [] else # <<>> -> RubyNested(else[1], taken.d)
                   [] OTHER -> Lowered(TRUE, <<>>, taken.d)
        hasOther == Len(branches) > 1 \/ else # <<>>
    IN  Lowered(taken.ok /\ other.ok /\ RubyTakes(branches[1][1], d.declared),
                << <<"if", RubyCondition(branches[1][1]), taken.code,
                     IF hasOther THEN <<other.code>> ELSE <<>>>> >>, other.d)

RubyStatement(s, d) ==
    CASE s[1] = "assign" /\ s[2][1] = "var" -> RubyWrite(s, d)
      [] s[1] = "assign" -> RubyIndexWrite(s, d)
      [] s[1] = "if" -> RubyIf(s[2], s[3], d)
      [] s[1] = "while" -> RubyWhile(s, d)
      [] s[1] = "times" -> RubyTimes(s, d)
      [] s[1] = "range" -> RubyRange(s, d)
      [] s[1] = "each" -> RubyEach(s, d)
      [] s[1] = "return" -> RubyReturn(s, d)
      [] s[1] \in {"break", "continue"} -> Lowered(d.depth > 0, <<s>>, d)
      [] s[1] = "expr" -> Lowered(RubyTakes(s[2], d.declared), << <<"expr", RubyExpr(s[2])>> >>, d)
      [] OTHER -> Rejected(d)

RubyBody(name, code) == IF EntryOrDraw(name) = "host" THEN code ELSE ImplicitReturn(code)
=============================================================================
