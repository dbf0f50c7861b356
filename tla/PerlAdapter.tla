----------------------------- MODULE PerlAdapter -----------------------------
(* How polygl-adapter-perl lowers the statements of a subroutine to Common    *)
(* Core. Perl's `my` declares as Common Core does, in a block; its sigils are *)
(* dropped.                                                                   *)
EXTENDS Lowering

PerlName(x) == SubSeq(x, 2, Len(x))
IsScalar(x) == SubSeq(x, 1, 1) = "$"

PerlBinary == "+" :> "+" @@ "-" :> "-" @@ "*" :> "*" @@ "%" :> "RemTrunc"
              @@ "==" :> "==" @@ "!=" :> "!=" @@ "<" :> "<" @@ "<=" :> "<="
              @@ ">" :> ">" @@ ">=" :> ">="
              @@ "&&" :> "&&" @@ "||" :> "||"
PerlUnary == "neg" :> "-" @@ "!" :> "!"

RECURSIVE PerlTakes(_, _), PerlExpr(_)

PerlTakes(e, declared) ==
    LET args == \A i \in DOMAIN e[4] : PerlTakes(e[4][i], declared)
    IN  CASE IsLeastInteger(e) -> TRUE
          [] IsLiteral(e) -> InRange(e)
          [] e[1] = "var" -> PerlName(e[2]) \in declared \cup DOMAIN Constants
          [] e[1] = "op" -> e[2] \in DOMAIN PerlBinary \cup DOMAIN PerlUnary \cup {"defined"} /\ args
          [] OTHER -> args

PerlExpr(e) ==
    LET args == [i \in DOMAIN e[4] |-> PerlExpr(e[4][i])]
    IN  CASE IsLeastInteger(e) -> Number(MinInt)
          [] e[1] = "var" -> Variable(PerlName(e[2]), e[3])
          [] e[1] = "op" /\ e[2] = "defined" ->
                 <<"unary", "!", "bool", <<<<"prim", "isNil", "bool", args>>>>>>
          [] e[1] = "op" /\ e[2] \in DOMAIN PerlUnary -> <<"unary", PerlUnary[e[2]], e[3], args>>
          [] e[1] = "op" -> <<"binary", PerlBinary[e[2]], e[3], args>>
          [] OTHER -> <<e[1], e[2], e[3], args>>

(* Only scalars that are declared and elements can be assigned to.            *)
PerlPlace(e, declared) ==
    IF e[1] = "var" THEN IsScalar(e[2]) /\ PerlName(e[2]) \in declared
    ELSE e[1] = "prim" /\ e[2] = "index" /\ PerlTakes(e, declared)

-----------------------------------------------------------------------------
\* Mutant of PerlMy: a name that is known is assigned to.
PerlMyOnce(s, d) ==
    LET x == PerlName(s[2])
        value == PerlExpr(s[3])
    IN  Lowered(PerlTakes(s[3], d.declared),
                <<IF x \in d.declared THEN <<"assign", Variable(x, s[3][3]), value>>
                  ELSE <<"let", x, s[3][3], value>>>>,
                Knowing(d, x))

PerlMy(s, d) ==
    Lowered(PerlTakes(s[3], d.declared),
            << <<"let", PerlName(s[2]), s[3][3], PerlExpr(s[3])>> >>, Knowing(d, PerlName(s[2])))

PerlAssignment(s, d) ==
    Lowered(PerlPlace(s[2], d.declared) /\ PerlTakes(s[3], d.declared),
            << <<"assign", PerlExpr(s[2]), PerlExpr(s[3])>> >>, d)

(* Whatever the operator is, one is added.                                    *)
PerlIncrement(s, d) ==
    LET x == PerlExpr(s[4])
    IN  Lowered(s[4][1] = "var" /\ PerlPlace(s[4], d.declared),
                << <<"assign", x, <<"binary", "+", "int", <<x, Number(1)>>>>>> >>, d)

PerlReturn(s, d) ==
    Lowered(\A i \in DOMAIN s[2] : PerlTakes(s[2][i], d.declared),
            << <<"return", [i \in DOMAIN s[2] |-> PerlExpr(s[2][i])]>> >>, d)

RECURSIVE PerlStatement(_, _), PerlStatements(_, _), PerlAlternatives(_, _)

PerlStatements(ss, d) ==
    IF ss = <<>> THEN Lowered(TRUE, <<>>, d)
    ELSE LET r == PerlStatement(Head(ss), d)
         IN  Followed(r, PerlStatements(Tail(ss), r.d))

PerlNested(ss, d) == Leaving(PerlStatements(ss, d), d)

(* The branches from the last to the first; the keyword is not looked at.     *)
PerlAlternatives(clauses, r) ==
    IF clauses = <<>> THEN r
    ELSE LET taken == PerlNested(Last(clauses)[2], r.d)
             cond == Last(clauses)[1]
         IN  PerlAlternatives(Front(clauses),
                 Lowered(r.ok /\ taken.ok /\ PerlTakes(cond, r.d.declared),
                         << << <<"if", PerlExpr(cond), taken.code, r.code>> >> >>, taken.d))

PerlConditional(s, d) ==
    LET else == IF s[3] = <<>> THEN Lowered(TRUE, <<>>, d)
                ELSE LET r == PerlNested(s[3][1], d) IN [r EXCEPT !.code = <<@>>]
        r == PerlAlternatives(s[2], else)
    IN  [r EXCEPT !.code = @[1]]

PerlWhile(s, d) ==
    LET r == Leaving(PerlNested(s[3], InLoop(d)), d)
    IN  Lowered(r.ok /\ PerlTakes(s[2], d.declared), << <<"while", PerlExpr(s[2]), r.code>> >>, r.d)

(* Perl's ranges include their end.                                           *)
PerlFor(s, d) ==
    LET x == PerlName(s[2][1])
        r == Leaving(PerlStatements(s[6], InLoop(Knowing(d, x))), d)
    IN  Lowered(r.ok /\ PerlTakes(s[3], d.declared) /\ PerlTakes(s[4], d.declared),
                << <<"for", x, PerlExpr(s[3]), PerlExpr(s[4]), TRUE, r.code>> >>, r.d)

PerlLoopControl(s, d) == Lowered(d.depth > 0, <<s>>, d)

PerlStatement(s, d) ==
    CASE s[1] = "my" -> PerlMy(s, d)
      [] s[1] = "assign" -> PerlAssignment(s, d)
      [] s[1] = "increment" -> PerlIncrement(s, d)
      [] s[1] \in {"if", "unless"} -> PerlConditional(s, d)
      [] s[1] = "while" -> PerlWhile(s, d)
      [] s[1] = "range" -> PerlFor(s, d)
      [] s[1] = "return" -> PerlReturn(s, d)
      [] s[1] \in {"break", "continue"} -> PerlLoopControl(s, d)
      [] s[1] = "expr" -> Lowered(PerlTakes(s[2], d.declared), << <<"expr", PerlExpr(s[2])>> >>, d)
      [] OTHER -> Rejected(d)

PerlImplicitReturn(code) == ImplicitReturn(code)
PerlBody(name, code) == IF EntryOrDraw(name) = "host" THEN code ELSE PerlImplicitReturn(code)
=============================================================================
