------------------------------ MODULE PhpAdapter ------------------------------
(* How polygl-adapter-php lowers the statements of a function to Common Core. *)
(* As with Ruby, PHP's locals live in the whole function. Its `for` is a loop *)
(* of C: only the shape that counts is accepted.                              *)
EXTENDS Lowering

PhpName(x) == SubSeq(x, 2, Len(x))

PhpBinary == "+" :> "+" @@ "-" :> "-" @@ "*" :> "*" @@ "%" :> "RemTrunc"
             @@ "===" :> "==" @@ "!==" :> "!=" @@ "<" :> "<" @@ "<=" :> "<="
             @@ ">" :> ">" @@ ">=" :> ">="
             @@ "&&" :> "&&" @@ "||" :> "||"
PhpUnary == "neg" :> "-" @@ "!" :> "!"
PhpCalls == "is_null" :> "isNil" @@ "count" :> "length"

IsNull(e) == e[1] = "nil"
ComparesWithNull(e) == e[2] \in {"===", "!=="} /\ \E i \in {1, 2} : IsNull(e[4][i])

RECURSIVE PhpTakes(_, _), PhpExpr(_)

PhpTakes(e, declared) ==
    LET args == \A i \in DOMAIN e[4] : PhpTakes(e[4][i], declared)
    IN  CASE IsLeastInteger(e) -> TRUE
          [] IsLiteral(e) -> InRange(e)
          [] e[1] = "var" -> PhpName(e[2]) \in declared
          [] e[1] = "constant" -> e[2] \in DOMAIN Constants
          [] e[1] = "op" -> /\ e[2] \in DOMAIN PhpBinary \cup DOMAIN PhpUnary
                                        \cup DOMAIN PhpCalls \cup {"plus"}
                            /\ args
          [] OTHER -> args

(* A comparison with null is a test for it, whichever side null is on.        *)
NullCheck(e, args) ==
    LET check == <<"prim", "isNil", "bool", <<IF IsNull(e[4][1]) THEN args[2] ELSE args[1]>>>>
    IN  IF e[2] = "!==" THEN <<"unary", "!", "bool", <<check>>>> ELSE check

PhpExpr(e) ==
    LET args == [i \in DOMAIN e[4] |-> PhpExpr(e[4][i])]
    IN  CASE IsLeastInteger(e) -> Number(MinInt)
          [] e[1] = "var" -> Variable(PhpName(e[2]), e[3])
          [] e[1] = "constant" -> Variable(e[2], e[3])
          [] e[1] = "op" /\ e[2] \in DOMAIN PhpCalls -> <<"prim", PhpCalls[e[2]], e[3], args>>
          [] e[1] = "op" /\ ComparesWithNull(e) -> NullCheck(e, args)
          [] e[1] = "op" /\ e[2] = "plus" -> args[1]
          [] e[1] = "op" /\ e[2] \in DOMAIN PhpUnary -> <<"unary", PhpUnary[e[2]], e[3], args>>
          [] e[1] = "op" -> <<"binary", PhpBinary[e[2]], e[3], args>>
          [] OTHER -> <<e[1], e[2], e[3], args>>

-----------------------------------------------------------------------------
(* The value is lowered before its variable is known.                         *)
PhpAssignment(s, d) ==
    LET x == PhpName(s[2][2])
        value == PhpExpr(s[3])
    IN  Lowered(PhpTakes(s[3], d.declared),
                <<IF x \in d.declared THEN <<"assign", PhpExpr(s[2]), value>>
                  ELSE <<"let", x, s[3][3], value>>>>,
                Knowing(d, x))

PhpIndexAssignment(s, d) ==
    Lowered(PhpTakes(s[3], d.declared) /\ PhpTakes(s[2], d.declared),
            << <<"assign", PhpExpr(s[2]), PhpExpr(s[3])>> >>, d)

PhpReturn(s, d) ==
    Lowered(\A i \in DOMAIN s[2] : PhpTakes(s[2][i], d.declared),
            << <<"return", [i \in DOMAIN s[2] |-> PhpExpr(s[2][i])]>> >>, d)

\* Mutant of StableRangeBound: a variable is taken to be stable.
StableRangeBoundOrVariable(e) ==
    \/ IsLiteral(e) \/ e[1] \in {"constant", "var"}
    \/ e[1] = "op" /\ e[2] \in {"neg", "plus"} /\ IsLiteral(e[4][1])

(* A bound that cannot change while the loop runs.                            *)
StableRangeBound(e) ==
    \/ IsLiteral(e) \/ e[1] = "constant"
    \/ e[1] = "op" /\ e[2] \in {"neg", "plus"} /\ IsLiteral(e[4][1])

(* for ($i = start; $i < end; $i++), with a variable that is not declared.    *)
AscendingFor(s, d) ==
    LET x == s[2][2]
        cond == s[4]
    IN  /\ PhpName(x) \notin d.declared
        /\ PhpTakes(s[3], d.declared)
        /\ cond[1] = "op" /\ cond[2] \in {"<", "<="}
        /\ cond[4][1][1] = "var" /\ cond[4][1][2] = x
        /\ PhpTakes(cond[4][2], d.declared) /\ StableRangeBound(cond[4][2])
        /\ s[5][1] = "increment" /\ s[5][2] = "++" /\ s[5][4][2] = x

(* A temporary is no variable of the source, wherever it is.                  *)
PhpTemporary(purpose, d, sourceNames) ==
    Temporary(purpose, d, d.declared \cup sourceNames \cup DOMAIN Constants)

RECURSIVE PhpStatement(_, _, _), PhpStatements(_, _, _), PhpElseIfs(_, _, _)

PhpStatements(ss, d, names) ==
    IF ss = <<>> THEN Lowered(TRUE, <<>>, d)
    ELSE LET r == PhpStatement(Head(ss), d, names)
         IN  Followed(r, PhpStatements(Tail(ss), r.d, names))

PhpNested(ss, d, names) == Leaving(PhpStatements(ss, d, names), d)

PhpWhile(s, d, names) ==
    LET r == Leaving(PhpNested(s[3], InLoop(d), names), d)
    IN  Lowered(r.ok /\ PhpTakes(s[2], d.declared), << <<"while", PhpExpr(s[2]), r.code>> >>, r.d)

PhpFor(s, d, names) ==
    LET x == PhpName(s[2][2])
        r == Leaving(PhpStatements(s[6], InLoop(Knowing(d, x)), names), d)
    IN  IF ~AscendingFor(s, d) THEN Rejected(d)
        ELSE Lowered(r.ok, << <<"for", x, PhpExpr(s[3]), PhpExpr(s[4][4][2]), s[4][2] = "<=",
                                r.code>> >>, r.d)

(* The array's temporary stays known after the loop.                          *)
PhpForeach(s, d, names) ==
    LET x == PhpName(s[2][1])
        array == PhpTemporary("each", d, names)
        known == Knowing(array.d, array.name)
        index == PhpTemporary("index", known, names)
        inside == InLoop(Knowing(Knowing(index.d, index.name), x))
        r == Leaving(PhpStatements(s[4], inside, names), known)
    IN  IF x \in d.declared THEN Rejected(d)
        ELSE Lowered(r.ok /\ PhpTakes(s[3], d.declared),
                     ArrayLoop(PhpExpr(s[3]), array.name, index.name, x, "int", r.code), r.d)

(* `elseif` clauses are lowered from the last to the first: r.code is what is *)
(* done otherwise, a block or none.                                           *)
PhpElseIfs(clauses, r, names) ==
    IF clauses = <<>> THEN r
    ELSE LET cond == Last(clauses)[1]
             taken == PhpNested(Last(clauses)[2], r.d, names)
         IN  PhpElseIfs(Front(clauses),
                        Lowered(r.ok /\ taken.ok /\ PhpTakes(cond, r.d.declared),
                                << << <<"if", PhpExpr(cond), taken.code, r.code>> >> >>, taken.d),
                        names)

PhpIf(s, d, names) ==
    LET cond == s[2][1][1]
        taken == PhpNested(s[2][1][2], d, names)
        else == IF s[3] = <<>> THEN Lowered(TRUE, <<>>, taken.d)
                ELSE LET r == PhpNested(s[3][1], taken.d, names) IN [r EXCEPT !.code = <<@>>]
        other == PhpElseIfs(Tail(s[2]), else, names)
    IN  Lowered(taken.ok /\ other.ok /\ PhpTakes(cond, d.declared),
                << <<"if", PhpExpr(cond), taken.code, other.code>> >>, other.d)

PhpStatement(s, d, names) ==
    CASE s[1] = "assign" /\ s[2][1] = "var" -> PhpAssignment(s, d)
      [] s[1] = "assign" -> PhpIndexAssignment(s, d)
      [] s[1] = "if" -> PhpIf(s, d, names)
      [] s[1] = "while" -> PhpWhile(s, d, names)
      [] s[1] = "for" -> PhpFor(s, d, names)
      [] s[1] = "each" -> PhpForeach(s, d, names)
      [] s[1] = "return" -> PhpReturn(s, d)
      [] s[1] \in {"break", "continue"} -> Lowered(d.depth > 0, <<s>>, d)
      [] s[1] = "block" -> PhpStatements(s[2], d, names)
      [] s[1] = "expr" -> Lowered(PhpTakes(s[2], d.declared), << <<"expr", PhpExpr(s[2])>> >>, d)
      [] OTHER -> Rejected(d)
=============================================================================
