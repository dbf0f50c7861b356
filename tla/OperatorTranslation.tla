------------------------- MODULE OperatorTranslation -------------------------
(* The operators of a program on their way to JavaScript and GLSL: what       *)
(* folding makes of them when the operands are literals (polygl-lir), and     *)
(* what the emitters write for them.                                          *)
EXTENDS CoreOperators

(* The sides on which what belongs to a domain runs.                          *)
Sides(d) == CASE d = "host" -> {"host"} [] d = "gpu" -> {"gpu"} [] d = "shared" -> {"host", "gpu"}

Lit(type, x) == <<type, x, type, <<>>>>
Unchecked(n) == <<Lit("int", n)>>    \* mutant: what overflows is folded too
Checked(n) == IF n \in MinInt..MaxInt THEN <<Lit("int", n)>> ELSE <<>>
Both(l, r, type) == l[1] = type /\ r[1] = type
IsNumber(l) == l[1] \in {"int", "float"}

FoldBinary(op, type, l, r, d) ==
    IF ~({l[1], r[1]} \subseteq LiteralKinds) THEN <<>>
    ELSE CASE op \in {"+", "-", "*"} /\ Both(l, r, "int") -> Checked(Exact(op, l[2], r[2]))
           [] /\ op \in {"+", "-", "*"} /\ type = "float" /\ d = "host"
              /\ IsNumber(l) /\ IsNumber(r) /\ ~Both(l, r, "int") ->
                  <<Lit("float", Exact(op, l[2], r[2]))>>
           [] op \in {"==", "!="} /\ (d = "host" \/ "float" \notin {l[1], r[1]}) ->
                  LET equal == l[1] = r[1] /\ l[2] = r[2]
                  IN  <<Lit("bool", equal = (op = "=="))>>
           [] op \in Orders /\ (Both(l, r, "int") \/ (Both(l, r, "float") /\ d = "host")) ->
                  <<Lit("bool", Truth(op, l, r))>>
           [] op = "&&" /\ Both(l, r, "bool") -> <<Lit("bool", l[2] /\ r[2])>>
           [] op = "||" /\ Both(l, r, "bool") -> <<Lit("bool", l[2] \/ r[2])>>
           [] OTHER -> <<>>

FoldUnary(op, a, d) ==
    CASE op = "-" /\ a[1] = "int" -> Checked(-a[2])
      [] op = "-" /\ a[1] = "float" /\ d = "host" -> <<Lit("float", -a[2])>>
      [] op = "!" /\ a[1] = "bool" -> <<Lit("bool", ~a[2])>>
      [] OTHER -> <<>>

-----------------------------------------------------------------------------
(* What the emitters write for an operator.                                   *)
Op(op, args) == <<"op", op, "any", args>>
JsHelperNames == [DivInt |-> "__pglIntDivide", RemFloor |-> "__pglIntFloorRemainder",
                  RemTrunc |-> "__pglIntTruncatingRemainder"]
JsBinary(op, type, args) ==
    CASE type = "int" /\ op \in {"+", "-"} -> Op("|0", <<Op(op, args)>>)
      [] type = "int" /\ op = "*" -> Op("Math.imul", args)
      [] type = "int" /\ op \in DOMAIN JsHelperNames -> <<"helper", JsHelperNames[op], "any", args>>
      [] type # "int" /\ op = "RemFloor" -> <<"helper", "__pglFloorRemainder", "any", args>>
      [] type # "int" /\ op = "RemTrunc" -> Op("%", args)
      [] op = "==" -> Op("===", args)
      [] op = "!=" -> Op("!==", args)
      [] OTHER -> Op(op, args)

(* A minus in front of a literal that has one already is a decrement.         *)
NegativeLiteral(e) == e[1] \in {"int", "float", "num"} /\ e[2] < 0
Negate(arg) == IF NegativeLiteral(arg) THEN Op("--", <<arg>>) ELSE Op("negate", <<arg>>)
JsUnary(op, type, arg) ==
    CASE op = "-" -> IF type = "int" THEN Op("|0", <<Negate(arg)>>) ELSE Negate(arg)
      [] op = "!" -> Op("!", <<arg>>)

GlslHelperNames == [DivInt |-> "pgl_int_div", RemFloor |-> "pgl_floor_mod",
                    RemTrunc |-> "pgl_trunc_mod"]
GlslBinaryUntyped(op, type, args) ==    \* mutant: every remainder is one of integers
    IF op \in DOMAIN GlslHelperNames THEN <<"helper", GlslHelperNames[op], type, args>>
                                     ELSE Op(op, args)

GlslBinary(op, type, args) ==
    CASE op \in DOMAIN GlslHelperNames /\ (op = "DivInt" \/ type = "int") ->
             <<"helper", GlslHelperNames[op], type, args>>
      [] op = "RemFloor" /\ type # "int" -> Op("mod", args)
      [] op = "RemTrunc" /\ type # "int" -> Op("trunc", args)
      [] OTHER -> Op(op, args)
=============================================================================
