------------------------------- MODULE Lowering -------------------------------
(* What the three adapters share when they lower the statements of a          *)
(* function to Common Core: the names declared where they are, how many loops *)
(* they are in, the temporaries they have made, and what the end of a         *)
(* function returns.                                                          *)
EXTENDS CommonCore, FiniteSets, TLC

NewLowerer(params) == [declared |-> params, depth |-> 0, temporaries |-> 0]

(* What a statement or a block is lowered to, if it is accepted.              *)
Lowered(ok, code, d) == [ok |-> ok, code |-> code, d |-> d]
Rejected(d) == Lowered(FALSE, <<>>, d)
Followed(r, s) == Lowered(r.ok /\ s.ok, r.code \o s.code, s.d)

Knowing(d, x) == [d EXCEPT !.declared = @ \cup {x}]
InLoop(d) == [d EXCEPT !.depth = @ + 1]

(* Names declared in a block are not known after it.                          *)
Leaving(r, d) == [r EXCEPT !.d.declared = d.declared, !.d.depth = d.depth]

(* A temporary is named after its purpose and the next number with which the  *)
(* name is not in use.                                                        *)
Temporary(purpose, d, used) ==
    LET named(i) == "__pgl_" \o purpose \o "_" \o ToString(i)
        i == CHOOSE i \in d.temporaries..(d.temporaries + Cardinality(used)) :
                 /\ named(i) \notin used
                 /\ \A j \in d.temporaries..(i - 1) : named(j) \in used
    IN  [name |-> named(i), d |-> [d EXCEPT !.temporaries = i + 1]]

Variable(x, type) == <<"var", x, type, <<>>>>
Number(n) == <<"int", n, "int", <<>>>>
IsLiteral(e) == e[1] \in LiteralKinds
InRange(e) == e[1] = "int" => e[2] \in MinInt..MaxInt

(* The least integer can only be written as the negation of a literal that is *)
(* out of range by itself.                                                    *)
IsLeastInteger(e) == /\ e[1] = "op" /\ e[2] = "neg"
                     /\ e[4][1][1] = "int" /\ e[4][1][2] = MaxInt + 1

(* The loop over the elements of an array, which is evaluated once.           *)
ArrayLoop(array, values, index, item, type, body) ==
    << <<"let", values, "array", array>>,
       <<"for", index, Number(0), <<"prim", "length", "int", <<Variable(values, "array")>>>>, FALSE,
         << <<"let", item, type, <<"prim", "index", type,
                                   <<Variable(values, "array"), Variable(index, "int")>>>>>> >>
         \o body>> >>

(* The last statement's value is returned: what an expression gives, what a   *)
(* variable has been given, and what the taken branch of a condition gives;   *)
(* nil if there is none to take. Everything else returns nothing.             *)
ReturnNothing == <<"return", <<>>>>
ReturnNil == <<"return", <<<<"nil", 0, "nil", <<>>>>>>>>

RECURSIVE ImplicitReturn(_)
ImplicitReturn(code) ==
    IF code = <<>> THEN <<ReturnNothing>>
    ELSE LET s == Last(code)
         IN  CASE s[1] = "expr" -> Append(Front(code), <<"return", <<s[2]>>>>)
               [] s[1] = "let" -> Append(code, <<"return", <<Variable(s[2], s[3])>>>>)
               [] s[1] = "assign" /\ s[2][1] = "var" -> Append(code, <<"return", <<s[2]>>>>)
               [] s[1] = "if" ->
                      Append(Front(code),
                             <<"if", s[2], ImplicitReturn(s[3]),
                               <<IF s[4] = <<>> THEN <<ReturnNil>> ELSE ImplicitReturn(s[4][1])>>>>)
               [] s[1] = "return" -> code
               [] OTHER -> Append(code, ReturnNothing)

(* What a function is called for. Ruby and Perl also call the frame `draw`.   *)
CanonicalEntry(name) ==
    CASE name \in {"setup", "frame", "on_event"} -> "host"
      [] Len(name) > 7 /\ SubSeq(name, 1, 7) = "vertex_" -> "shader"
      [] Len(name) > 9 /\ SubSeq(name, 1, 9) = "fragment_" -> "shader"
      [] OTHER -> "function"
EntryOrDraw(name) == IF name = "draw" THEN "host" ELSE CanonicalEntry(name)
=============================================================================
