--------------------------- MODULE MCTypeInference ---------------------------
EXTENDS TypeInference

L(t) == <<"lit", t>>
V(x) == <<"var", x>>
Op(op, l, r) == <<op, l, r>>
Call(f, e) == <<"call", f, e>>
Items(s) == <<"array", s>>
At(e) == <<"index", e, L(int)>>
Set(x, e) == <<"set", x, e>>
Do(e) == <<"do", e>>

\* `half` makes a number a float, `twice` takes what can be added, `first` an
\* array; `scale` has an annotation and calls another function.
Library ==
    [half  |-> [param |-> "p", type |-> None,
                body |-> <<Set("p", Op("/", V("p"), L(int))), <<"return", V("p")>>>>],
     twice |-> [param |-> "p", type |-> None,
                body |-> <<Set("q", Op("+", V("p"), V("p"))), <<"return", V("q")>>>>],
     first |-> [param |-> "p", type |-> None,
                body |-> <<<<"if", Op("<", <<"length", V("p")>>, L(int)),
                             <<<<"return", L(int)>>>>, <<>>>>,
                           <<"return", At(V("p"))>>>>],
     scale |-> [param |-> "p", type |-> float,
                body |-> <<<<"return", Op("-", Call("twice", V("p")), L(int))>>>>]]

Numeric ==
    {Set("x", L(int)), Set("y", L(int)), Set("y", L(float)), Set("y", V("x")), Do(<<"sin", V("x")>>),
     Set("y", Op("div", V("x"), L(int))), Set("z", Op("<", V("x"), L(int))),
     Set("y", Call("half", V("x"))), Do(Call("twice", V("x"))), Do(Call("half", V("x"))),
     Do(Call("half", L(int))),
     Set("z", Call("twice", V("y"))), Set("y", Call("scale", V("x"))),
     <<"declare", "x", float, L(int)>>}

Composed ==
    {Set("x", Items(<<>>)), Set("y", Items(<<>>)),
     Set("z", Op("+", At(V("x")), At(V("y")))), Do(<<"neg", At(V("x"))>>),
     Do(Op("==", At(V("x")), At(V("y")))), <<"put", V("x"), L(float)>>,
     <<"put", V("y"), L(str)>>, <<"put", V("x"), V("x")>>, Set("z", Call("first", V("x"))),
     Set("y", Items(<<L(int), V("z")>>)), Set("z", <<"none">>),
     <<"if", Op("and", <<"isnil", V("z")>>, <<"not", L(bool)>>), <<Set("z", L(int))>>, <<>>>>,
     <<"while", Op("==", V("z"), V("z")), <<Set("z", At(V("y")))>>>>}

Mixed == Numeric \cup Composed

\* An array of arrays, and an element that is assigned to its array.
Nested == {Set("x", Items(<<Items(<<>>)>>)), <<"put", V("x"), At(At(V("x")))>>,
           Set("y", At(V("x"))), <<"put", At(V("x")), L(int)>>}
=============================================================================
