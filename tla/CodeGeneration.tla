---------------------------- MODULE CodeGeneration ----------------------------
(* From the typed program of one function to the JavaScript and the GLSL that *)
(* is generated from it: polygl-lir's lowering and optimization, and the two  *)
(* emitters. Names, scopes and operators are translated as the code does, text *)
(* is left out: the output consists of the statements the text says.          *)
EXTENDS CommonCore, OperatorTranslation, TLC

CONSTANTS
    Families,       \* sets of short sequences of statements: a program is
                    \* written with those of one of them
    MaxLength,      \* a program this long is not continued
    Param,          \* the name of the function's only parameter, an integer
    Arguments,      \* the values it is called with
    Admitted        \* the kinds of program the generators are known to get wrong,
                    \* of those in KnownGaps, that are to be written all the same

KnownGaps == {"minus minus", "mixed"}
ASSUME AdmittedAssumption == Admitted \subseteq KnownGaps

Domains == {"host", "gpu", "shared"}
Modes == {"debug", "release"}

VARIABLES
    phase,      \* "hir", "lowered", "optimized" or "emitted"
    hir,        \* the function's statements
    domain,     \* where it runs
    lir,        \* its lowered statements
    target,     \* what has been emitted: "debug" or "release" JavaScript, "glsl"
    code        \* the emitted function: [param, body]

vars == <<phase, hir, domain, lir, target, code>>

-----------------------------------------------------------------------------
(* Lowering. A name is a local's, or else a constant's; what a call leaves    *)
(* out is filled in; `return` of an expression without a value returns after  *)
(* it.                                                                        *)
RECURSIVE LowerExpr(_, _), LowerBlock(_, _), LowerStatement(_, _)

LowerExpr(e, locals) ==
    LET args == [i \in DOMAIN e[4] |-> LowerExpr(e[4][i], locals)]
        omitted == IF e[1] = "call" THEN SubSeq(Defaults[e[2]], Len(args) + 1, Len(Defaults[e[2]]))
                   ELSE <<>>
    IN  IF e[1] = "var" /\ e[2] \notin locals /\ e[2] \in DOMAIN Constants
        THEN <<"constant", e[2], e[3], <<>>>>
        ELSE <<e[1], e[2], e[3], args \o omitted>>

LowerStatement(s, locals) ==
    CASE s[1] = "let" -> << <<"let", s[2], s[3], LowerExpr(s[4], locals)>> >>
      [] s[1] = "assign" /\ s[2][1] = "var" -> << <<"assign", s[2], LowerExpr(s[3], locals)>> >>
      [] s[1] = "assign" -> << <<"assign", LowerExpr(s[2], locals), LowerExpr(s[3], locals)>> >>
      [] s[1] = "expr" -> << <<"expr", LowerExpr(s[2], locals)>> >>
      [] s[1] = "if" -> << <<"if", LowerExpr(s[2], locals), LowerBlock(s[3], locals),
                             [i \in DOMAIN s[4] |-> LowerBlock(s[4][i], locals)]>> >>
      [] s[1] = "while" -> << <<"while", LowerExpr(s[2], locals), LowerBlock(s[3], locals)>> >>
      [] s[1] = "for" -> << <<"for", s[2], LowerExpr(s[3], locals), LowerExpr(s[4], locals), s[5],
                              LowerBlock(s[6], locals \cup {s[2]})>> >>
      [] s[1] = "return" /\ s[2] # <<>> /\ s[2][1][3] = "unit" ->
             << <<"expr", LowerExpr(s[2][1], locals)>>, <<"return", <<>>>> >>
      [] s[1] = "return" -> << <<"return", [i \in DOMAIN s[2] |-> LowerExpr(s[2][i], locals)]>> >>
      [] OTHER -> <<s>>

(* A declared name is known after its own initializer, until the block ends.  *)
LowerBlock(ss, locals) ==
    IF ss = <<>> THEN <<>>
    ELSE LowerStatement(Head(ss), locals)
         \o LowerBlock(Tail(ss), locals \cup Declared(<<Head(ss)>>))

-----------------------------------------------------------------------------
(* Optimization. Literals are folded, floats on the host alone, and nothing   *)
(* that overflows or may fail; a statement that only reads is dropped.        *)
Fold(e, d) ==
    LET args == e[4]
    IN  CASE e[1] = "binary" -> FoldBinary(e[2], e[3], args[1], args[2], d)
          [] e[1] = "unary" -> FoldUnary(e[2], args[1], d)
          [] e[1] = "prim" /\ e[2] = "isNil" /\ args[1][1] \in LiteralKinds ->
                 <<Lit("bool", args[1][1] = "nil")>>
          [] e[1] = "prim" /\ e[2] = "isFalsy" /\ args[1][1] \in LiteralKinds ->
                 <<Lit("bool", args[1] \in {Lit("nil", 0), Lit("bool", FALSE)})>>
          [] OTHER -> <<>>

RECURSIVE OptimizeExpr(_, _), Pure(_), OptimizeBlock(_, _)
OptimizeExpr(e, d) ==
    LET inner == <<e[1], e[2], e[3], [i \in DOMAIN e[4] |-> OptimizeExpr(e[4][i], d)]>>
        folded == Fold(inner, d)
    IN  IF folded = <<>> THEN inner ELSE <<folded[1][1], folded[1][2], e[3], <<>>>>

Pure(e) ==
    /\ e[1] # "call"
    /\ ~(e[1] = "prim" /\ e[2] \in {"array", "index"})
    /\ ~(e[1] = "binary" /\ e[2] \in {"DivInt", "RemFloor", "RemTrunc"})
    /\ \A i \in DOMAIN e[4] : Pure(e[4][i])

OptimizeStatement(s, d) ==
    CASE s[1] = "let" -> <<"let", s[2], s[3], OptimizeExpr(s[4], d)>>
      [] s[1] = "assign" -> <<"assign", OptimizeExpr(s[2], d), OptimizeExpr(s[3], d)>>
      [] s[1] = "expr" -> <<"expr", OptimizeExpr(s[2], d)>>
      [] s[1] = "if" -> <<"if", OptimizeExpr(s[2], d), OptimizeBlock(s[3], d),
                          [i \in DOMAIN s[4] |-> OptimizeBlock(s[4][i], d)]>>
      [] s[1] = "while" -> <<"while", OptimizeExpr(s[2], d), OptimizeBlock(s[3], d)>>
      [] s[1] = "for" -> <<"for", s[2], OptimizeExpr(s[3], d), OptimizeExpr(s[4], d), s[5],
                           OptimizeBlock(s[6], d)>>
      [] s[1] = "return" -> <<"return", [i \in DOMAIN s[2] |-> OptimizeExpr(s[2][i], d)]>>
      [] OTHER -> s

OptimizeBlock(ss, d) ==
    LET optimized == [i \in DOMAIN ss |-> OptimizeStatement(ss[i], d)]
    IN  SelectSeq(optimized, LAMBDA s : ~(s[1] = "expr" /\ Pure(s[2])))

-----------------------------------------------------------------------------
(* JavaScript. Every binding of a function gets an identifier of its own.     *)
LocalIdentifier(x) == IF x \in Unsafe THEN "__pglLocal_" \o x ELSE x

NewNames == [scopes |-> <<>>, counts |-> [x \in {} |-> 0], used |-> {}, temporaries |-> 0]
PushScope(g) == [g EXCEPT !.scopes = Append(@, EmptyScope)]
PopScope(g) == [g EXCEPT !.scopes = Front(@)]
Bind(g, x, id) == [g EXCEPT !.scopes[Len(g.scopes)] =
                       [y \in DOMAIN @ \cup {x} |-> IF y = x THEN id ELSE @[y]]]

Numbered(x, n) == IF n = 0 THEN LocalIdentifier(x)
                           ELSE LocalIdentifier(x) \o "$" \o ToString(n)
FreshBinding(g, x) ==
    LET from == IF x \in DOMAIN g.counts THEN g.counts[x] ELSE 0
        n == CHOOSE n \in from..(from + Cardinality(g.used)) :
                 /\ Numbered(x, n) \notin g.used
                 /\ \A m \in from..(n - 1) : Numbered(x, m) \in g.used
    IN  [id |-> Numbered(x, n),
         g |-> [g EXCEPT !.used = @ \cup {Numbered(x, n)},
                         !.counts = [y \in DOMAIN @ \cup {x} |-> IF y = x THEN n + 1 ELSE @[y]]]]

Binding(g, x) == IF Holding(g, x) # {} THEN g.scopes[Top(Holding(g, x))][x]
                                       ELSE LocalIdentifier(x)

RECURSIVE JsExpr(_, _, _)
JsExpr(mode, g, e) ==
    LET args == [i \in DOMAIN e[4] |-> JsExpr(mode, g, e[4][i])]
    IN  CASE e[1] \in {"int", "float"} -> <<"num", e[2], "any", <<>>>>
          [] e[1] = "var" -> <<"var", Binding(g, e[2]), "any", <<>>>>
          [] e[1] = "binary" -> JsBinary(e[2], e[3], args)
          [] e[1] = "unary" -> JsUnary(e[2], e[3], args[1])
          [] e[1] = "prim" /\ e[2] = "index" /\ mode = "debug" ->
                 <<"prim", "checkedIndex", "any", args>>
          [] e[1] = "prim" /\ e[2] = "isNil" -> Op("== null", args)
          [] e[1] \in {"prim", "call", "constant", "bool", "nil"} -> <<e[1], e[2], e[3], args>>

Var(x) == <<"var", x, "any", <<>>>>
LetAny(x, e) == <<"let", x, "any", e>>
RangeName(part, g) == "__pglRange" \o part \o ToString(g.temporaries)

RECURSIVE JsStatements(_, _, _, _), JsStatement(_, _, _)

JsBlock(mode, g, ss) ==
    LET r == JsStatements(mode, PushScope(g), ss, <<>>)
    IN  [g |-> PopScope(r.g), code |-> r.code]

(* An inclusive loop stops before its index could pass the largest integer.   *)
JsRangeLoop(mode, g, s) ==
    LET end == RangeName("End", g)
        done == RangeName("Done", g)
        index == RangeName("Index", g)
        fresh == FreshBinding(PushScope([g EXCEPT !.temporaries = @ + 1]), s[2])
        body == JsBlock(mode, Bind(fresh.g, s[2], fresh.id), s[6])
        more == Op(IF s[5] THEN "<=" ELSE "<", <<Var(index), Var(end)>>)
        next == <<"assign", Var(index), Op("|0", <<Op("+", <<Var(index), Lit("num", 1)>>)>>)>>
        item == <<LetAny(fresh.id, Var(index)), <<"block", body.code>>>>
    IN  [g |-> PopScope(body.g),
         code |->
           << <<"block",
                <<LetAny(RangeName("Start", g), JsExpr(mode, g, s[3])),
                  LetAny(end, JsExpr(mode, g, s[4])),
                  IF s[5]
                  THEN <<"loop", <<LetAny(index, Var(RangeName("Start", g))),
                                   LetAny(done, Lit("bool", FALSE))>>,
                                 Op("&&", <<Op("!", <<Var(done)>>), more>>), <<next>>,
                                 <<<<"assign", Var(done), Op("===", <<Var(index), Var(end)>>)>>>>
                                 \o item>>
                  ELSE <<"loop", <<LetAny(index, Var(RangeName("Start", g)))>>, more, <<next>>, item>>
                >> >> >>]

JsAssignment(mode, g, place, value) ==
    IF place[1] = "var" THEN <<"assign", Var(Binding(g, place[2])), JsExpr(mode, g, value)>>
    ELSE <<IF mode = "debug" THEN "checkedPut" ELSE "assign",
           <<"prim", "index", "any", [i \in 1..2 |-> JsExpr(mode, g, place[4][i])]>>,
           JsExpr(mode, g, value)>>

JsLetBoundFirst(mode, g, s) ==    \* mutant: the initializer sees the new binding
    LET fresh == FreshBinding(g, s[2])
        bound == Bind(fresh.g, s[2], fresh.id)
    IN  [g |-> bound, code |-> <<LetAny(fresh.id, JsExpr(mode, bound, s[4]))>>]

JsLet(mode, g, s) ==
    LET fresh == FreshBinding(g, s[2])
    IN  [g |-> Bind(fresh.g, s[2], fresh.id),
         code |-> <<LetAny(fresh.id, JsExpr(mode, fresh.g, s[4]))>>]

JsStatement(mode, g, s) ==
    CASE s[1] = "let" -> JsLet(mode, g, s)
      [] s[1] = "assign" -> [g |-> g, code |-> <<JsAssignment(mode, g, s[2], s[3])>>]
      [] s[1] = "expr" -> [g |-> g, code |-> <<<<"expr", JsExpr(mode, g, s[2])>>>>]
      [] s[1] = "if" ->
             LET then == JsBlock(mode, g, s[3])
                 else == IF s[4] = <<>> THEN [g |-> then.g, code |-> <<>>]
                         ELSE JsBlock(mode, then.g, s[4][1])
             IN  [g |-> else.g,
                  code |-> << <<"if", JsExpr(mode, g, s[2]), then.code,
                                IF s[4] = <<>> THEN <<>> ELSE <<else.code>>>> >>]
      [] s[1] = "while" ->
             LET body == JsBlock(mode, g, s[3])
             IN  [g |-> body.g, code |-> <<<<"while", JsExpr(mode, g, s[2]), body.code>>>>]
      [] s[1] = "for" -> JsRangeLoop(mode, g, s)
      [] s[1] = "return" ->
             [g |-> g, code |-> <<<<"return", [i \in DOMAIN s[2] |-> JsExpr(mode, g, s[2][i])]>>>>]
      [] OTHER -> [g |-> g, code |-> <<s>>]

JsStatements(mode, g, ss, written) ==
    IF ss = <<>> THEN [g |-> g, code |-> written]
    ELSE LET r == JsStatement(mode, g, Head(ss))
         IN  JsStatements(mode, r.g, Tail(ss), written \o r.code)

(* A function's statements are a block inside of its braces.                  *)
JsFunction(mode, ss) ==
    LET param == FreshBinding(PushScope(NewNames), Param)
        body == JsBlock(mode, Bind(param.g, Param, param.id), ss)
    IN  [param |-> param.id, body |-> <<<<"block", body.code>>>>]

-----------------------------------------------------------------------------
(* GLSL. Locals are numbered throughout the shader.                           *)
FreshLocal(g, x) == [id |-> "pgl_l_" \o x \o "_" \o ToString(g.temporaries),
                     g |-> [g EXCEPT !.temporaries = @ + 1]]

RECURSIVE GlslExpr(_, _)
GlslExpr(g, e) ==
    LET args == [i \in DOMAIN e[4] |-> GlslExpr(g, e[4][i])]
    IN  CASE e[1] = "var" -> <<"var", g.scopes[Top(Holding(g, e[2]))][e[2]], e[3], <<>>>>
          [] e[1] = "binary" -> GlslBinary(e[2], e[3], args)
          [] e[1] = "unary" /\ e[2] = "-" -> Negate(args[1])
          [] e[1] = "unary" /\ e[2] = "!" -> Op("!", args)
          [] e[1] = "prim" /\ e[2] = "isFalsy" /\ e[4][1][3] = "bool" -> Op("!", args)
          [] e[1] = "prim" -> Op(", false", args)
          [] e[1] \in {"int", "float", "bool", "constant"} -> e

RECURSIVE GlslStatements(_, _, _), GlslStatement(_, _)

GlslBlock(g, ss) ==
    LET r == GlslStatements(PushScope(g), ss, <<>>)
    IN  [g |-> PopScope(r.g), code |-> r.code]

GlslRangeLoop(g, s) ==
    LET start == FreshLocal(g, "range_start")
        end == FreshLocal(start.g, "range_end")
        index == FreshLocal(end.g, "range_index")
        local == FreshLocal(index.g, s[2])
        done == FreshLocal(local.g, "range_done")
        g2 == PushScope(IF s[5] THEN done.g ELSE local.g)
        body == GlslBlock(Bind(g2, s[2], local.id), s[6])
        more == Op(IF s[5] THEN "<=" ELSE "<", <<Var(index.id), Var(end.id)>>)
        step == <<"assign", Var(index.id), Op("+", <<Var(index.id), Lit("int", 1)>>)>>
        item == <<<<"let", local.id, "int", Var(index.id)>>>> \o body.code
        from == <<<<"let", index.id, "int", Var(start.id)>>>>
        bounds == <<<<"let", start.id, "int", GlslExpr(g, s[3])>>,
                    <<"let", end.id, "int", GlslExpr(g, s[4])>>>>
    IN  [g |-> PopScope(body.g),
         code |->
           << <<"block",
                IF s[5]
                THEN bounds \o
                     << <<"let", done.id, "bool", Lit("bool", FALSE)>>,
                        <<"loop", from, Op("&&", <<Op("!", <<Var(done.id)>>), more>>),
                          <<<<"if", Var(done.id), <<>>, <<<<step>>>>>>>>,
                          <<<<"assign", Var(done.id), Op("==", <<Var(index.id), Var(end.id)>>)>>>>
                          \o item>> >>
                ELSE bounds \o <<<<"loop", from, more, <<step>>, item>>>> >> >>]

GlslStatement(g, s) ==
    CASE s[1] = "let" ->
             LET fresh == FreshLocal(g, s[2])
             IN  [g |-> Bind(fresh.g, s[2], fresh.id),
                  code |-> <<<<"let", fresh.id, s[3], GlslExpr(g, s[4])>>>>]
      [] s[1] = "assign" ->
             [g |-> g, code |-> <<<<"assign", GlslExpr(g, s[2]), GlslExpr(g, s[3])>>>>]
      [] s[1] = "expr" -> [g |-> g, code |-> <<<<"expr", GlslExpr(g, s[2])>>>>]
      [] s[1] = "if" ->
             LET then == GlslBlock(g, s[3])
                 else == IF s[4] = <<>> THEN [g |-> then.g, code |-> <<>>]
                         ELSE GlslBlock(then.g, s[4][1])
             IN  [g |-> else.g, code |-> << <<"if", GlslExpr(g, s[2]), then.code,
                                              IF s[4] = <<>> THEN <<>> ELSE <<else.code>>>> >>]
      [] s[1] = "while" ->
             LET body == GlslBlock(g, s[3])
             IN  [g |-> body.g, code |-> <<<<"while", GlslExpr(g, s[2]), body.code>>>>]
      [] s[1] = "for" -> GlslRangeLoop(g, s)
      [] s[1] = "return" ->
             [g |-> g, code |-> <<<<"return", [i \in DOMAIN s[2] |-> GlslExpr(g, s[2][i])]>>>>]
      [] OTHER -> [g |-> g, code |-> <<s>>]

GlslStatements(g, ss, written) ==
    IF ss = <<>> THEN [g |-> g, code |-> written]
    ELSE LET r == GlslStatement(g, Head(ss))
         IN  GlslStatements(r.g, Tail(ss), written \o r.code)

GlslFunction(ss) ==
    LET body == GlslBlock(Bind(PushScope(NewNames), Param, "pgl_p_" \o Param), ss)
    IN  [param |-> "pgl_p_" \o Param, body |-> body.code]

-----------------------------------------------------------------------------
(* The programs: names in scope, GPU code within what split accepts.          *)
RECURSIVE Parts(_), InScope(_, _), Exprs(_)
Parts(e) == {e} \cup UNION {Parts(e[4][i]) : i \in DOMAIN e[4]}

Blocks(s) == CASE s[1] = "if" -> <<s[3]>> \o s[4]
               [] s[1] = "while" -> <<s[3]>>
               [] s[1] = "for" -> <<s[6]>>
               [] OTHER -> <<>>
Operands(s) == CASE s[1] = "let" -> {s[4]}
                 [] s[1] = "assign" -> {s[2], s[3]}
                 [] s[1] \in {"expr", "if", "while"} -> {s[2]}
                 [] s[1] = "for" -> {s[3], s[4]}
                 [] s[1] = "return" -> {s[2][i] : i \in DOMAIN s[2]}
                 [] OTHER -> {}
Exprs(ss) == UNION {UNION {Parts(e) : e \in Operands(ss[i])}
                    \cup UNION {Exprs(Blocks(ss[i])[j]) : j \in DOMAIN Blocks(ss[i])} :
                    i \in DOMAIN ss}

InScope(ss, locals) ==
    IF ss = <<>> THEN TRUE
    ELSE LET s == Head(ss)
             inner == IF s[1] = "for" THEN locals \cup {s[2]} ELSE locals
         IN  /\ \A e \in UNION {Parts(o) : o \in Operands(s)} :
                    e[1] = "var" => e[2] \in locals \cup DOMAIN Constants
             /\ s[1] = "assign" /\ s[2][1] = "var" => s[2][2] \in locals
             /\ \A i \in DOMAIN Blocks(s) : InScope(Blocks(s)[i], inner)
             /\ InScope(Tail(ss), locals \cup Declared(<<s>>))

GpuReady(ss) ==
    \A e \in Exprs(ss) :
        /\ e[1] \notin {"call", "nil"}
        /\ ~(e[1] = "prim" /\ e[2] \in {"array", "index", "length"})
        /\ e[1] = "binary" /\ e[2] \in DOMAIN GlslHelperNames =>
               e[4][2][1] \in LiteralKinds /\ e[4][2][2] # 0

RECURSIVE Converts(_)
Converts(ss) ==     \* an integer becomes a float somewhere
    \/ \E e \in Exprs(ss) : e[1] = "binary" /\ e[4][1][3] # e[4][2][3]
    \/ \E i \in DOMAIN ss : \/ ss[i][1] = "let" /\ ss[i][3] # ss[i][4][3]
                            \/ ss[i][1] = "assign" /\ ss[i][2][3] # ss[i][3][3]
                            \/ \E j \in DOMAIN Blocks(ss[i]) : Converts(Blocks(ss[i])[j])
MinusMinus(ss) == \E e \in Exprs(ss) : e[1] = "unary" /\ e[2] = "-" /\ NegativeLiteral(e[4][1])

-----------------------------------------------------------------------------
Init == /\ phase = "hir"
        /\ hir = <<>>
        /\ domain = "shared"
        /\ lir = <<>>
        /\ target = "none"
        /\ code = [param |-> Param, body |-> <<>>]

Write(ss) ==
    /\ phase = "hir"
    /\ InScope(hir \o ss, {Param})
    /\ hir' = hir \o ss
    /\ UNCHANGED <<phase, domain, lir, target, code>>

Lower(d) ==
    LET lowered == LowerBlock(hir, {Param})
    IN  /\ phase = "hir"
        /\ hir # <<>>
        /\ d # "host" => GpuReady(hir) /\ (Converts(hir) => "mixed" \in Admitted)
        /\ MinusMinus(OptimizeBlock(lowered, d)) => "minus minus" \in Admitted
        /\ phase' = "lowered"
        /\ domain' = d
        /\ lir' = lowered
        /\ UNCHANGED <<hir, target, code>>

Optimize ==
    /\ phase = "lowered"
    /\ phase' = "optimized"
    /\ lir' = OptimizeBlock(lir, domain)
    /\ UNCHANGED <<hir, domain, target, code>>

EmitJs(mode) ==
    /\ phase = "optimized"
    /\ domain # "gpu"
    /\ phase' = "emitted"
    /\ target' = mode
    /\ code' = JsFunction(mode, lir)
    /\ UNCHANGED <<hir, domain, lir>>

EmitGlsl ==
    /\ phase = "optimized"
    /\ domain # "host"
    /\ phase' = "emitted"
    /\ target' = "glsl"
    /\ code' = GlslFunction(lir)
    /\ UNCHANGED <<hir, domain, lir>>

(* What follows a return, or mixes families, adds nothing.                    *)
MayFollow(ss) ==
    /\ Len(hir) < MaxLength
    /\ hir # <<>> => Last(hir)[1] # "return"
    /\ \E family \in Families : ss \in family /\ ToSet(hir) \subseteq UNION {ToSet(p) : p \in family}

Next == \/ \E ss \in UNION Families : MayFollow(ss) /\ Write(ss)
        \/ \E d \in Domains : Lower(d)
        \/ Optimize
        \/ \E mode \in Modes : EmitJs(mode)
        \/ EmitGlsl

Spec == Init /\ [][Next]_vars

-----------------------------------------------------------------------------
Run(lang, param, ss, arg) ==
    Outcome(ExecBlock(lang, ss, Start([x \in {param} |->
                                           IF lang = "js" THEN Num(arg) ELSE <<"int", arg>>])))
\* The low-level program `l` does in domain `d` what the program `h` does.
LirSame(h, l, d) ==
    \A arg \in Arguments, lang \in Sides(d) : Run(lang, Param, l, arg) = Run(lang, Param, h, arg)

JsSame(mode, h, function) ==
    \A arg \in Arguments :
        LET meant == Run("host", Param, h, arg)
        IN  \/ mode = "release" /\ meant.status = "bounds"
            \/ Run("js", function.param, function.body, arg) = meant

GlslSame(h, function) ==
    \A arg \in Arguments :
        Run("glsl", function.param, function.body, arg) = Run("gpu", Param, h, arg)

(* Lowering and optimization keep what a function does, on every target it is *)
(* for: builtins are called in the same order with the same arguments, it     *)
(* returns the same, and fails where it failed (lower.rs, optimize.rs).       *)
LirMeansTheSame ==
    [][phase' \in {"lowered", "optimized"} => LirSame(hir', lir', domain')]_vars

(* So does the JavaScript that is emitted, except that release builds do not  *)
(* check indices.                                                             *)
JsMeansTheSame == [][target' \in Modes => JsSame(target', hir', code')]_vars

(* And the GLSL, with the floats of the GPU.                                  *)
GlslMeansTheSame == [][target' = "glsl" => GlslSame(hir', code')]_vars
=============================================================================
