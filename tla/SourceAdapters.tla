---------------------------- MODULE SourceAdapters ----------------------------
(* The three source adapters: the statements of a function of a Ruby, PHP or  *)
(* Perl program are lowered one after the other, with the names and the       *)
(* temporaries of the ones before. What is accepted means in Common Core what *)
(* it means in its language, but for the constructs of KnownGaps: these are   *)
(* accepted, and mean something else.                                         *)
EXTENDS SourceLanguages, RubyAdapter, PhpAdapter, PerlAdapter

CONSTANTS
    Programs,       \* language -> families of statements, sets each
    MaxLength,      \* the number of statements of a body, nested ones aside
    FunctionNames,
    Parameter,      \* the function's parameter, without a sigil
    Arguments,      \* the integers it is called with
    Admitted        \* the known gaps that programs may have

KnownGaps == {"loop variable", "constant", "unless", "decrement", "post increment",
              "if result", "index order", "array copy", "temporary"}

ASSUME ProgramsAssumption == DOMAIN Programs \subseteq {"ruby", "php", "perl"}
ASSUME AdmittedAssumption == Admitted \subseteq KnownGaps

VARIABLES
    lang, name, family,
    source,     \* the statements that have been read,
    code,       \* what they have been lowered to,
    lowerer,    \* and what is known after them
    phase       \* "body" | "done" | "rejected"

vars == <<lang, name, family, source, code, lowerer, phase>>

Sigil(l, x) == IF l = "ruby" THEN x ELSE "$" \o x
Words == Programs[lang][family]

-----------------------------------------------------------------------------
(* All statements of a program, its variables, and the statements whose value *)
(* is what a function returns.                                                *)
Bodies(s) ==
    CASE s[1] \in {"if", "unless"} -> {s[2][i][2] : i \in DOMAIN s[2]} \cup ToSet(s[3])
      [] s[1] = "while" -> {s[3]}
      [] s[1] = "block" -> {s[2]}
      [] s[1] \in {"times", "each"} -> {s[4]}
      [] s[1] \in {"for", "range"} -> {s[6]}
      [] OTHER -> {}

RECURSIVE All(_), Results(_)
All(S) == IF S = {} THEN {} ELSE S \cup All(UNION {ToSet(b) : b \in UNION {Bodies(s) : s \in S}})
Results(S) == S \cup UNION {Results({Last(b)}) : b \in UNION {Bodies(s) \ {<<>>} :
                                s \in {t \in S : t[1] \in {"if", "unless"}}}}

Written(S) == {s[2][2] : s \in {t \in All(S) : t[1] = "assign" /\ t[2][1] = "var"}}
              \cup {s[2] : s \in {t \in All(S) : t[1] = "my"}}
              \cup {s[4][2] : s \in {t \in All(S) : t[1] = "increment"}}
Targets(S) == {s[2] : s \in {t \in All(S) : t[1] \in {"range", "each"}}}
Counters(S) == {s[2][2] : s \in {t \in All(S) : t[1] = "for"}}
Variables(S) == Written(S) \cup UNION {ToSet(x) : x \in Targets(S)} \cup Counters(S)

ElementWrites(S) == {s \in S : s[1] = "assign" /\ s[2][1] = "prim"}
CopiesArray(s) == s[1] = "assign" /\ s[2][1] = "var" /\ s[3][1] = "var" /\ s[3][3] = "array"

IsTemporary(x) == Len(x) > 6 /\ SubSeq(x, 1, 6) = "__pgl_"

(* The constructs whose meaning is lost.                                      *)
Gap(gap, ss) ==
    LET S == All(ToSet(ss))
        InnerBodies == UNION {Bodies(s) : s \in ToSet(ss)}
    IN  CASE gap = "loop variable" ->
                 lang = "php" /\ \E s \in S : s[1] = "for" /\ s[2][2] \in Written(ToSet(s[6]))
          [] gap = "constant" ->
                 lang = "php" /\ \E x \in Variables(ToSet(ss)) : Bare(x) \in DOMAIN Constants
          [] gap = "unless" -> \E s \in S : s[1] = "unless"
          [] gap = "decrement" -> lang = "perl" /\ \E s \in S : s[1] = "increment" /\ s[2] = "--"
          [] gap = "post increment" ->
                 lang = "perl" /\ \E s \in Results({Last(ss)}) : s[1] = "increment" /\ s[3] = "post"
          [] gap = "if result" ->
                 lang = "perl" /\ \E s \in Results({Last(ss)}) :
                                      s[1] \in {"if", "unless"} /\ s[3] = <<>>
          [] gap = "temporary" ->
                 lang = "ruby" /\ \E x \in Written(UNION {ToSet(b) : b \in InnerBodies}) : IsTemporary(x)
          [] gap = "index order" ->
                 \E s \in ElementWrites(S) : ~IsLiteral(s[2][4][2]) /\ ~IsLiteral(s[3])
          [] gap = "array copy" ->
                 /\ lang = "php"
                 /\ \/ \E s \in S : s[1] = "each" /\ ElementWrites(All(ToSet(s[4]))) # {}
                    \/ (\E s \in S : CopiesArray(s)) /\ ElementWrites(S) # {}

-----------------------------------------------------------------------------
Init ==
    /\ lang \in DOMAIN Programs /\ name \in FunctionNames
    /\ family \in DOMAIN Programs[lang]
    /\ source = <<>> /\ code = <<>>
    /\ lowerer = NewLowerer({Parameter})
    /\ phase = "body"

(* PHP's collector has all the variables of the file.                         *)
LowerStatement(s) ==
    CASE lang = "ruby" -> RubyStatement(s, lowerer)
      [] lang = "php" -> PhpStatement(s, lowerer, {Bare(x) : x \in Variables(Words)})
      [] lang = "perl" -> PerlStatement(s, lowerer)

Statement(s) ==
    /\ phase = "body" /\ Len(source) < MaxLength
    /\ source' = Append(source, s)
    /\ LET r == LowerStatement(s)
       IN  /\ code' = code \o r.code
           /\ lowerer' = r.d
           /\ phase' = IF r.ok THEN "body" ELSE "rejected"
    /\ UNCHANGED <<lang, name, family>>

End ==
    /\ phase = "body" /\ source # <<>>
    /\ \A gap \in KnownGaps \ Admitted : ~Gap(gap, source)
    /\ code' = CASE lang = "ruby" -> RubyBody(name, code)
                 [] lang = "php" -> code
                 [] lang = "perl" -> PerlBody(name, code)
    /\ phase' = "done"
    /\ UNCHANGED <<lang, name, family, source, lowerer>>

Next == (\E s \in Words : Statement(s)) \/ End
Spec == Init /\ [][Next]_vars

-----------------------------------------------------------------------------
(* What a program does: the builtins it calls and with what, how it ends, and *)
(* what it returns, if that is of use to its caller: what an entry or a       *)
(* function without a result returns is not.                                  *)
IsEntry(l, f) == (IF l = "php" THEN CanonicalEntry(f) ELSE EntryOrDraw(f)) = "host"

\* The Common Core `program` does what the function `f`, whose body is `text`,
\* does in the language `l`: the same writes, the same end and, unless the host
\* calls it, the same result.
SameFor(l, f, text, program, a) ==
    LET wanted == SourceRun(l, text, Sigil(l, Parameter) :> <<"int", a>>)
        got == ExecAll("host", program, Start(Parameter :> <<"int", a>>))
    IN  /\ Outcome(got).trace = wanted.trace
        /\ Outcome(got).status = wanted.status /\ wanted.status # "error"
        /\ ~IsEntry(l, f) /\ got.status = "return" /\ got.value # Unit =>
               Outcome(got).value = Erase(wanted.value)
SameForAll(l, f, text, program) == \A a \in Arguments : SameFor(l, f, text, program, a)

(* Common Core's scopes are blocks, Ruby's locals belong to methods and their *)
(* blocks; conditions take any value; the last value is returned through all  *)
(* branches. A method the Ruby adapter accepts does what it does in Ruby.     *)
RubyMeansTheSame ==
    [][lang' = "ruby" /\ phase' = "done" => SameForAll("ruby", name', source', code')]_vars

(* PHP's variables belong to functions, its `for` evaluates its bound again   *)
(* for every element, its loops leave their variables behind. A function the  *)
(* PHP adapter accepts does what it does in PHP.                              *)
PhpMeansTheSame ==
    [][lang' = "php" /\ phase' = "done" => SameForAll("php", name', source', code')]_vars

(* Perl declares variables in blocks, and returns the value of the last       *)
(* statement, a condition's too. A subroutine the Perl adapter accepts does   *)
(* what it does in Perl.                                                      *)
PerlMeansTheSame ==
    [][lang' = "perl" /\ phase' = "done" => SameForAll("perl", name', source', code')]_vars
=============================================================================
