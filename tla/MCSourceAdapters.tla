--------------------------- MODULE MCSourceAdapters ---------------------------
(* Functions that write variables inside and outside of blocks, use names the *)
(* adapters use themselves, loop, change what they loop over, and end in      *)
(* every kind of statement.                                                   *)
EXTENDS SourceAdapters

Consts == [C |-> <<"int", 2, "int", <<>>>>]
DefaultsOf == [w |-> <<>>, n |-> <<>>]
Args == {-8, 0, 1, 3}

I(n) == Number(n)
V(x) == Variable(x, "int")
A(x) == Variable(x, "array")
B(b) == <<"bool", b, "bool", <<>>>>
Null == <<"nil", 0, "nil", <<>>>>
K == <<"constant", "C", "int", <<>>>>
Op(op, l, r) == <<"op", op, "int", <<l, r>>>>
Test(op, l, r) == <<"op", op, "bool", <<l, r>>>>
Not(e) == <<"op", "!", "bool", <<e>>>>
Minus(e) == <<"op", "neg", "int", <<e>>>>
W(e) == <<"expr", <<"call", "w", "unit", <<e>>>>>>
N == <<"call", "n", "int", <<>>>>
Array(es) == <<"prim", "array", "array", es>>
At(a, i) == <<"prim", "index", "int", <<A(a), i>>>>
Set(x, e) == <<"assign", V(x), e>>
SetArray(x, e) == <<"assign", A(x), e>>
SetAt(a, i, e) == <<"assign", At(a, i), e>>
My(x, e) == <<"my", x, e>>
Do(e) == <<"expr", e>>
Ret(e) == <<"return", <<e>>>>
If(c, then, else) == <<"if", <<<<c, then>>>>, else>>
Elsif(c, then, c2, then2, else) == <<"if", <<<<c, then>>, <<c2, then2>>>>, else>>
WhileDo(c, body) == <<"while", c, body>>
Break == <<"break">>
Continue == <<"continue">>

-----------------------------------------------------------------------------
RubyScopes ==
    { Set("x", Op("+", V("p"), K)),
      Set("x", Op("-", V("x"), V("p"))),
      Set("p", V("x")),
      Set("__pgl_times_index_0", I(5)),
      If(Test("<", V("p"), K), <<Set("x", K), Set("y", V("x")), W(V("y"))>>, <<<<Set("x", V("p"))>>>>),
      If(Test("==", V("x"), V("p")), <<Ret(V("y"))>>, <<>>),
      <<"times", <<"x">>, I(2), <<W(V("x")), Set("y", V("x")), Set("p", V("y"))>>>>,
      <<"times", <<>>, V("p"), <<Set("y", N), If(Test(">=", V("y"), K), <<Break>>, <<>>),
                                 W(V("y"))>>>>,
      If(B(TRUE), <<If(Test("<", V("p"), K), <<Set("__pgl_times_index_0", I(5))>>, <<>>),
                    <<"times", <<>>, K, <<W(V("__pgl_times_index_0"))>>>>>>, <<>>),
      <<"times", <<"__pgl_times_index_1">>, K,
                 <<<<"times", <<>>, K, <<W(V("__pgl_times_index_1"))>>>>>>>>,
      <<"range", <<"y">>, V("p"), K, TRUE, <<Set("y", Op("*", V("y"), I(2))), W(V("y"))>>>>,
      WhileDo(Test("<", V("x"), K), <<Set("x", Op("+", V("x"), I(1))), Set("y", V("x"))>>),
      Ret(V("x")), Do(V("y")), Do(V("__pgl_times_index_0")) }

RubyEnds ==
    { SetArray("a", Array(<<V("p"), I(2), I(-3)>>)),
      Set("x", Op("/", V("p"), Minus(I(2)))),
      SetAt("a", V("p"), N),
      SetAt("a", V("p"), I(5)),
      SetAt("a", I(0), Op("%", At("a", I(2)), N)),
      SetArray("b", A("a")),
      <<"each", <<"v">>, A("a"), <<Set("x", V("v")), SetAt("a", I(1), V("x")),
                                   If(V("x"), <<Continue>>, <<>>), W(V("v"))>>>>,
      <<"each", <<>>, A("a"), <<<<"each", <<"v">>, A("a"), <<W(V("v")), Break>>>>, W(N)>>>>,
      Elsif(V("x"), <<Set("z", Minus(I(8)))>>, B(TRUE), <<W(I(1))>>, <<>>),
      Elsif(Test("&&", V("p"), Not(Null)), <<>>, Test("||", Null, B(FALSE)), <<Do(I(1))>>, <<<<Do(N)>>>>),
      Elsif(Test("<", V("p"), I(0)), <<Do(Minus(I(8)))>>, Test("<", V("p"), I(1)), <<Ret(K)>>, <<>>),
      Do(I(8)), Do(Not(V("p"))), Do(At("b", V("p"))), Break }

-----------------------------------------------------------------------------
PI == V("$i")
Up(from, op, end, body) ==
    <<"for", PI, from, Test(op, PI, end), <<"increment", "++", "post", PI>>, body>>
PhpScopes ==
    { Set("$x", Op("+", V("$p"), K)),
      Set("$x", Op("-", V("$x"), V("$p"))),
      Set("$C", I(3)),
      Set("$i", I(1)),
      If(Test("<", V("$p"), K), <<Set("$x", K), Set("$y", V("$x")), W(V("$y"))>>,
         <<<<Set("$x", V("$p")), Ret(V("$x"))>>>>),
      If(Test("===", V("$x"), Null), <<Ret(V("$y"))>>, <<>>),
      <<"block", <<Set("$y", N), W(V("$y"))>>>>,
      Up(I(0), "<", K, <<Set("$x", PI), W(PI)>>),
      Up(V("$p"), ">=", I(3), <<W(PI)>>),
      Up(V("$p"), "<=", I(3), <<If(Test("!==", PI, I(2)), <<Continue>>, <<>>), Set("$p", PI)>>),
      Up(I(0), "<", V("$x"), <<Set("$x", Op("-", V("$x"), I(1))), W(V("$x"))>>),
      Up(I(0), "<", I(3), <<Set("$i", Op("+", PI, I(1))), W(PI)>>),
      <<"for", PI, I(2), Test(">=", PI, I(0)), <<"increment", "--", "post", PI>>, <<W(PI)>>>>,
      <<"return", <<>>>>, Ret(V("$x")), Ret(V("$y")), Ret(K) }

PhpArrays ==
    { SetArray("$a", Array(<<V("$p"), I(2), Minus(I(3))>>)),
      SetAt("$a", V("$p"), N),
      SetAt("$a", V("$p"), I(5)),
      SetAt("$a", I(0), Op("%", At("$a", I(2)), N)),
      SetArray("$b", A("$a")),
      <<"each", <<"$v">>, A("$a"), <<SetAt("$a", I(1), V("$v")), W(V("$v"))>>>>,
      <<"each", <<"$v">>, A("$a"), <<SetArray("$a", Array(<<V("$v"), I(1)>>)), W(V("$v")),
                                     Set("$v", I(0))>>>>,
      <<"each", <<"$__pgl_each_1">>, A("$a"),
        <<<<"each", <<"$w">>, A("$a"), <<W(V("$w")), Break>>>>, W(V("$__pgl_each_1"))>>>>,
      Set("$__pgl_index_1", <<"op", "count", "int", <<A("$a")>>>>),
      Elsif(Test("<", V("$p"), I(1)), <<Set("$z", Minus(I(8)))>>,
            Test("&&", Not(Test("===", Null, V("$p"))), Test("<", V("$p"), K)), <<W(I(1))>>, <<>>),
      <<"if", <<<<Test("<", V("$p"), I(0)), <<>>>>, <<Test("<", V("$p"), I(1)), <<Set("$v", I(1))>>>>,
                <<Test("<", N, K), <<W(N)>>>>>>, <<<<W(V("$p"))>>>>>>,
      WhileDo(Not(<<"op", "is_null", "bool", <<V("$p")>>>>),
               <<Set("$p", Op("+", V("$p"), I(1))), If(Test(">", V("$p"), I(2)), <<Break>>, <<>>)>>),
      Set("$v", <<"op", "plus", "int", <<V("$p")>>>>),
      Do(I(8)), Ret(V("$v")), Ret(V("$__pgl_index_1")), Ret(At("$b", I(1))), Break }

-----------------------------------------------------------------------------
X == V("$x")
PerlScopes ==
    { My("$x", Op("+", V("$p"), V("$C"))),
      My("$C", Op("-", X, V("$C"))),
      Set("$x", Op("-", X, V("$p"))),
      <<"increment", "++", "pre", X>>,
      <<"increment", "++", "post", X>>,
      <<"increment", "--", "pre", V("$p")>>,
      If(Test("<", V("$p"), V("$C")), <<My("$x", V("$C")), My("$y", X), W(V("$y"))>>,
         <<<<Set("$x", V("$p"))>>>>),
      <<"unless", <<<<Test("<", X, I(1)), <<W(X), Ret(X)>>>>>>, <<<<W(I(1))>>>>>>,
      <<"range", <<"$x">>, I(0), V("$C"), TRUE, <<W(X), Set("$x", I(5)), Set("$p", X)>>>>,
      <<"range", <<"$y">>, V("$p"), I(3), TRUE,
        <<If(Test("!=", V("$y"), I(2)), <<Continue>>, <<>>), My("$p", V("$y")), W(V("$p"))>>>>,
      WhileDo(Test("<=", X, V("$C")), <<Set("$x", Op("+", X, I(1))), My("$y", X),
                                         If(Test("==", N, I(3)), <<Break>>, <<<<>>>>)>>),
      Ret(X), Do(V("$y")), <<"return", <<>>>> }

PerlEnds ==
    { My("@a", Array(<<V("$p"), I(2), Minus(I(3))>>)),
      My("$x", At("@a", I(1))),
      SetAt("@a", I(0), Op("%", At("@a", I(2)), V("$C"))),
      SetAt("@a", V("$p"), I(2)),
      SetAt("@a", N, N),
      Set("@a", Array(<<>>)),
      Elsif(Test(">", I(1), V("$p")), <<My("$z", Minus(I(8)))>>, Test("<", N, V("$C")), <<W(I(1))>>,
            <<<<Do(X)>>>>),
      Elsif(Test("&&", <<"op", "defined", "bool", <<X>>>>, Test("<=", X, I(2))), <<>>,
            Not(Test("==", N, I(1))), <<Do(I(1))>>, <<<<Ret(N)>>>>),
      If(Test("<", V("$p"), I(1)), <<Do(I(3))>>, <<>>),
      Do(I(8)), Do(V("$C")), Set("$C", I(1)), Break }

ProgramsOf == [ruby |-> <<RubyScopes, RubyEnds>>, php |-> <<PhpScopes, PhpArrays>>,
               perl |-> <<PerlScopes, PerlEnds>>]
=============================================================================
