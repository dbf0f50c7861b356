--------------------------- MODULE MCCodeGeneration ---------------------------
(* Programs that shadow, overflow, divide, loop up to the largest integer,    *)
(* put what they change, and fold.                                            *)
EXTENDS CodeGeneration

Consts == [c |-> <<"int", 3, "int", <<>>>>]
DefaultsOf == [w |-> <<>>, d |-> <<Lit("int", 1), Lit("int", 2)>>, n |-> <<>>]

Args == {-8, -1, 0, 1, 2, 7}

I(n) == Lit("int", n)
F(n) == Lit("float", n)
V(x) == <<"var", x, "int", <<>>>>
VF(x) == <<"var", x, "float", <<>>>>
VA(x) == <<"var", x, "array", <<>>>>
Bin(op, l, r) == <<"binary", op, "int", <<l, r>>>>
FBin(op, l, r) == <<"binary", op, "float", <<l, r>>>>
Cmp(op, l, r) == <<"binary", op, "bool", <<l, r>>>>
Minus(e) == <<"unary", "-", e[3], <<e>>>>
Not(e) == <<"unary", "!", "bool", <<e>>>>
Prim(op, type, args) == <<"prim", op, type, args>>
W(e) == <<"call", "w", "unit", <<e>>>>
N == <<"call", "n", "int", <<>>>>
At(a, i) == Prim("index", "int", <<VA(a), i>>)
Let(x, e) == <<"let", x, e[3], e>>
Set(place, e) == <<"assign", place, e>>
Do(e) == <<"expr", e>>
If(c, then, else) == <<"if", c, then, else>>
For(x, from, to, inclusive, body) == <<"for", x, from, to, inclusive, body>>
Ret(e) == <<"return", <<e>>>>
Leave == <<"return", <<>>>>
Inc(x) == Set(V(x), Bin("+", V(x), I(1)))

(* Scopes: "c" is a constant as well, "if" a reserved word, "x$1" a name the  *)
(* JavaScript emitter also makes.                                             *)
Scoping ==
    { <<Let("x", Bin("+", V("p"), I(1)))>>,
      <<Let("x", Bin("-", V("x"), V("p")))>>,
      <<Let("x$1", Bin("*", V("p"), V("p")))>>,
      <<Let("c", Bin("+", V("c"), I(1)))>>,
      <<Let("if", Minus(V("p")))>>,
      <<Let("p", Bin("-", V("p"), V("c")))>>,
      <<If(Cmp("<", V("p"), V("c")), <<Let("x", V("c")), Let("c", V("x")), Inc("x"), Ret(V("x"))>>,
           <<<<Let("x", I(5)), Inc("x")>>>>)>>,
      <<If(Cmp("==", V("x"), V("p")), <<Set(V("x"), V("x$1"))>>, <<>>)>>,
      <<For("x", V("p"), V("c"), FALSE, <<Let("x", Bin("*", V("x"), I(2))), Set(V("p"), V("x"))>>)>>,
      <<For("c", I(0), V("p"), FALSE, <<Let("x", V("c")), Set(V("p"), V("x"))>>)>>,
      <<Ret(Bin("+", V("x"), V("c")))>>,
      <<Ret(Bin("-", V("x$1"), V("x")))>>,
      <<Ret(V("if"))>> }

Loops ==
    { <<Let("x", I(0)), For("k", V("p"), I(MaxInt), TRUE, <<Inc("x")>>)>>,
      <<Let("x", I(2)), For("k", I(0), V("x"), FALSE, <<Inc("x"), Inc("k")>>)>>,
      <<Let("x", I(4)), <<"while", Cmp("<", V("p"), V("x")),
                          <<Set(V("x"), Bin("-", V("x"), I(3))),
                            If(Cmp(">=", I(0), V("x")), <<<<"break">>>>, <<>>)>>>>>>,
      <<For("k", I(MaxInt - 1), I(MaxInt), TRUE,
            <<If(Cmp("==", V("k"), V("p")), <<<<"continue">>>>, <<>>), Set(V("p"), V("k"))>>)>>,
      <<For("k", I(0), V("p"), TRUE,
            <<For("k", V("k"), V("p"), FALSE, <<If(Cmp("==", V("k"), I(1)), <<Ret(V("k"))>>, <<>>)>>)>>)>>,
      <<Ret(V("x"))>>, <<Ret(V("p"))>> }

Effects ==
    { <<Do(W(N)), Let("a", Prim("array", "array", <<N, V("p")>>))>>,
      <<Set(At("a", N), Bin("+", N, I(7)))>>,
      <<Set(At("a", V("p")), At("a", I(0)))>>,
      <<Do(At("a", V("p")))>>,
      <<Do(Bin("DivInt", V("p"), V("p")))>>,
      <<Do(Bin("+", V("p"), V("p")))>>,
      <<Do(<<"call", "d", "unit", <<Bin("*", N, I(MaxInt))>>>>)>>,
      <<Do(<<"call", "d", "unit", <<>>>>)>>,
      <<For("k", N, Bin("+", N, I(1)), TRUE, <<Do(W(V("k")))>>)>>,
      <<If(Cmp("&&", Cmp("<", N, I(3)), Cmp("==", N, I(3))), <<<<"return", <<W(I(1))>>>>>>, <<>>)>>,
      <<Ret(Bin("RemFloor", Prim("length", "int", <<VA("a")>>), V("p")))>>,
      <<If(Prim("isFalsy", "bool", <<Lit("nil", 0)>>), <<Do(W(I(2)))>>, <<<<Leave>>>>)>>,
      <<If(Not(Prim("isNil", "bool", <<N>>)), <<Do(W(Minus(I(MinInt + 1))))>>, <<>>)>> }

(* Arithmetic on literals and on the parameter.                               *)
Operators == {"+", "-", "*", "DivInt", "RemFloor", "RemTrunc"}
Arithmetic ==
    {<<Ret(Bin(op, l, r))>> : op \in Operators,
        l \in {V("p"), I(MaxInt), I(MinInt), I(-3)}, r \in {V("p"), I(-1), I(2), I(0)}}
    \cup {<<If(Cmp(">", I(1), I(2)), <<Ret(V("p"))>>, <<>>), Ret(I(0))>>,
          <<Ret(Minus(Bin("-", I(MinInt + 1), I(1))))>>,
          <<Ret(Minus(Bin("-", I(MinInt + 1), V("p"))))>>}

Floats ==
    { <<Let("f", FBin("+", F(5), F(1)))>>,
      <<Let("f", FBin("*", F(3), I(3)))>>,
      <<Let("f", Minus(F(5)))>>,
      <<Let("f", Minus(FBin("-", F(1), F(6))))>>,
      <<Let("f", Minus(F(-5)))>>,
      <<<<"let", "f", "float", V("p")>>>>,
      <<Set(VF("f"), FBin("+", VF("f"), F(1)))>>,
      <<Set(VF("f"), FBin("RemFloor", VF("f"), F(-3)))>>,
      <<Set(VF("f"), FBin("RemTrunc", VF("f"), F(-3)))>>,
      <<If(Cmp(">", VF("f"), F(1)), <<Ret(F(2))>>, <<>>)>>,
      <<Set(VF("f"), FBin("-", FBin("+", F(5), F(2)), VF("f")))>>,
      <<If(Cmp("==", F(4), F(5)), <<Ret(VF("f"))>>, <<>>)>>,
      <<If(Cmp(">=", F(4), F(5)), <<Ret(F(3))>>, <<>>)>>,
      <<If(Cmp("<", VF("f"), F(5)), <<Ret(VF("f"))>>, <<<<Ret(I(0))>>>>)>>,
      <<If(Prim("isFalsy", "bool", <<VF("f")>>), <<Ret(F(1))>>, <<>>)>>,
      <<Ret(VF("f"))>> }

Programs == {Scoping, Loops, Effects, Arithmetic, Floats}
=============================================================================
