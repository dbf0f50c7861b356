---------------------------- MODULE CoreOperators ----------------------------
(* The operators of Common Core, of JavaScript and of GLSL, and the functions *)
(* that the code generated in these languages starts with. A value is         *)
(* <<type, value>>.                                                           *)
EXTENDS Integers, Sequences

CONSTANT Half   \* integers go from -Half to Half - 1

ASSUME HalfAssumption == Half \in Nat \ {0}

MaxInt == Half - 1
MinInt == -Half
Wrap(n) == ((n - MinInt) % (2 * Half)) + MinInt
FloorDivide(a, b) == IF b > 0 THEN a \div b ELSE (-a) \div (-b)
TruncDivide(a, b) == LET q == FloorDivide(IF a < 0 THEN -a ELSE a, IF b < 0 THEN -b ELSE b)
                     IN  IF (a < 0) = (b < 0) THEN q ELSE -q

(* The GPU's floats are coarser than the host's: beyond 4 the even numbers.   *)
Precise(lang, x) ==
    IF lang \notin {"gpu", "glsl"} \/ x \in -4..4 THEN x ELSE 2 * (x \div 2)

Numeric(lang, type, x) == IF type = "int" THEN <<"int", Wrap(x)>>
                                          ELSE <<"float", Precise(lang, x)>>
Convert(lang, type, v) == IF type = "float" /\ v[1] = "int"
                          THEN Numeric(lang, "float", v[2]) ELSE v
Exact(op, a, b) == CASE op = "+" -> a + b [] op = "-" -> a - b [] op = "*" -> a * b
Bool(b) == <<"bool", b>>
Nil == <<"nil", 0>>
Unit == <<"unit", 0>>          \* what `return` without a value returns
Trap == <<"trap", 0>>
Outside == <<"bounds", 0>>
Invalid == <<"error", 0>>      \* the code does not compile

Truth(op, a, b) == CASE op \in {"==", "==="} -> a = b [] op \in {"!=", "!=="} -> a # b
                     [] op = "<" -> a[2] < b[2] [] op = "<=" -> a[2] <= b[2]
                     [] op = ">" -> a[2] > b[2] [] op = ">=" -> a[2] >= b[2]
Orders == {"<", "<=", ">", ">="}
Comparisons == {"==", "===", "!=", "!=="} \cup Orders

-----------------------------------------------------------------------------
(* The operators of Common Core. *)
CoreBinary(lang, op, type, a, b) ==
    LET x == Convert(lang, type, a)[2]
        y == Convert(lang, type, b)[2]
    IN  CASE op \in {"+", "-", "*"} -> Numeric(lang, type, Exact(op, x, y))
          [] op \in Comparisons -> Bool(Truth(op, a, b))
          [] op = "DivInt" -> IF y = 0 THEN Trap ELSE Numeric(lang, "int", FloorDivide(x, y))
          [] op = "RemFloor" -> IF y = 0 THEN Trap
                                ELSE Numeric(lang, type, x - FloorDivide(x, y) * y)
          [] op = "RemTrunc" -> IF y = 0 THEN Trap
                                ELSE Numeric(lang, type, x - TruncDivide(x, y) * y)

CoreUnary(lang, op, type, a) ==
    CASE op = "-" -> Numeric(lang, type, -a[2])
      [] op = "!" -> Bool(~a[2])

(* The operators of JavaScript. Numbers are exact here: 53 bits are more than *)
(* sums and differences of integers take.                                     *)
Num(x) == <<"num", x>>
JsOperator(op, vs) ==
    CASE op \in {"+", "-", "*"} -> Num(Exact(op, vs[1][2], vs[2][2]))
      [] op = "|0" -> Num(Wrap(vs[1][2]))
      [] op = "Math.imul" -> Num(Wrap(vs[1][2] * vs[2][2]))
      [] op = "%" -> IF vs[2][2] = 0 THEN <<"nan", 0>>
                     ELSE Num(vs[1][2] - TruncDivide(vs[1][2], vs[2][2]) * vs[2][2])
      [] op \in Comparisons -> Bool(Truth(op, vs[1], vs[2]))
      [] op = "negate" -> Num(-vs[1][2])
      [] op = "!" -> Bool(~vs[1][2])
      [] op = "== null" -> Bool(vs[1] = Nil)
      [] op = "--" -> Invalid

(* The operators of GLSL, which converts nothing, and the two formulas for a  *)
(* remainder of floats: `mod(l, r)` and "trunc" for `l - trunc(l / r) * r`. *)
GlslRemainder(op, a, b) ==
    IF b = 0 THEN <<"nan", 0>>
    ELSE Numeric("glsl", "float",
                 a - (IF op = "mod" THEN FloorDivide(a, b) ELSE TruncDivide(a, b)) * b)
GlslOperator(op, vs) ==
    IF Len(vs) = 2 /\ vs[1][1] # vs[2][1] THEN Invalid
    ELSE CASE op \in {"+", "-", "*"} -> Numeric("glsl", vs[1][1], Exact(op, vs[1][2], vs[2][2]))
           [] op \in Comparisons -> Bool(Truth(op, vs[1], vs[2]))
           [] op \in {"mod", "trunc"} -> IF vs[1][1] # "float" THEN Invalid
                                          ELSE GlslRemainder(op, vs[1][2], vs[2][2])
           [] op = "negate" -> Numeric("glsl", vs[1][1], -vs[1][2])
           [] op = "!" -> Bool(~vs[1][2])
           [] op = ", false" -> Bool(FALSE)
           [] op = "--" -> Invalid

(* The functions the generated code starts with.                              *)
JsRemainder(a, b) == LET r == a - TruncDivide(a, b) * b
                     IN  IF r # 0 /\ (r < 0) # (b < 0) THEN r + b ELSE r
JsHelper(name, a, b) ==
    CASE name = "__pglFloorRemainder" -> Num(JsRemainder(a, b))
      [] name = "__pglIntDivide" -> IF b = 0 THEN Trap ELSE Num(Wrap(FloorDivide(a, b)))
      [] name = "__pglIntFloorRemainder" -> IF b = 0 THEN Trap ELSE Num(Wrap(JsRemainder(a, b)))
      [] name = "__pglIntTruncatingRemainder" ->
             IF b = 0 THEN Trap ELSE Num(Wrap(a - TruncDivide(a, b) * b))
GlslHelper(name, a, b) ==
    LET quotient == TruncDivide(a, b)
        remainder == a - quotient * b
        floors == remainder # 0 /\ (remainder < 0) # (b < 0)
    IN  IF b = 0 THEN 0
        ELSE IF a = MinInt /\ b = -1 THEN IF name = "pgl_int_div" THEN a ELSE 0
        ELSE CASE name = "pgl_int_div" -> IF floors THEN quotient - 1 ELSE quotient
               [] name = "pgl_floor_mod" -> IF floors THEN remainder + b ELSE remainder
               [] name = "pgl_trunc_mod" -> remainder

-----------------------------------------------------------------------------
(* Values, and the literals that stand for them.                              *)
LiteralKinds == {"int", "float", "num", "bool", "nil"}
Value(lang, e) == CASE e[1] = "float" -> Numeric(lang, "float", e[2])
                    [] e[1] = "num" -> Num(e[2])
                    [] OTHER -> <<e[1], e[2]>>
Erase(v) == CASE v[1] \in {"int", "float"} -> <<"num", v[2]>>
              [] v = Unit -> Nil
              [] OTHER -> v
=============================================================================
