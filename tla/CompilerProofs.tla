--------------------------- MODULE CompilerProofs ---------------------------
(***************************************************************************)
(* Proofs about the compiler.  About HostGpuSplit: for any number of       *)
(* functions and constants and any modules whose references are declared.  *)
(* What the model defines by recursion (the search, the components, the    *)
(* passes over them) exists by Iteration and has its properties by         *)
(* InductUpTo.  About OperatorTranslation, at the end: for integers of any *)
(* width.                                                                  *)
(***************************************************************************)
EXTENDS HostGpuSplit, OperatorTranslation, FiniteSetTheorems, SequenceTheorems,
        WellFoundedInduction, TLAPS

-----------------------------------------------------------------------------
(* Recursion on numbers, from the fact that a set of numbers has a least    *)
(* element.                                                                *)

LEMMA Induct ==
  ASSUME NEW T, 0 \in T, \A n \in Nat : n \in T => n + 1 \in T
  PROVE  Nat \subseteq T
<1> DEFINE R == OpToRel(<, Nat)
           M == Nat \ T
<1>1. \A x, y \in Nat : x < y => <<x, y>> \in R
  BY DEF OpToRel
<1>2. IsWellFoundedOn(R, Nat)
  BY NatLessThanWellFounded
<1> HIDE DEF R
<1>3. ASSUME M # {} PROVE FALSE
  <2>1. PICK x \in M : \A y \in M : ~ (<<y, x>> \in R)
    BY <1>2, <1>3, WFMin
  <2>2. x \in Nat /\ x # 0
    OBVIOUS
  <2>3. x - 1 \in Nat /\ x - 1 < x /\ (x - 1) + 1 = x
    BY <2>2
  <2>4. x - 1 \in M
    BY <2>2, <2>3
  <2> QED
    BY <1>1, <2>1, <2>2, <2>3, <2>4
<1> QED
  BY <1>3

LEMMA InductUpTo ==
  ASSUME NEW N \in Nat, NEW T, 0 \in T, \A n \in 1 .. N : n - 1 \in T => n \in T
  PROVE  \A n \in 0 .. N : n \in T
<1> DEFINE M == {n \in Nat : n <= N => n \in T}
<1>1. 0 \in M
  OBVIOUS
<1>2. ASSUME NEW n \in Nat, n \in M PROVE n + 1 \in M
  <2>1. CASE n + 1 <= N
    <3>1. n + 1 \in 1 .. N /\ (n + 1) - 1 = n /\ n <= N
      BY <2>1
    <3>2. n \in T
      BY <1>2, <3>1
    <3>3. n + 1 \in T
      BY <3>1, <3>2
    <3> QED BY <3>3
  <2>2. CASE ~(n + 1 <= N)
    BY <2>2
  <2> QED BY <2>1, <2>2
<1> HIDE DEF M
<1>3. Nat \subseteq M
  BY <1>1, <1>2, Induct
<1> QED
  BY <1>3 DEF M

\* What is defined by recursion on a number, from typed steps, exists.
Steps(N, V, Step) == Step \in [1 .. N -> [V -> V]]

Iterates(N, V, base, Step, g) ==
  /\ g \in [0 .. N -> V]
  /\ g[0] = base
  /\ \A n \in 1 .. N : g[n] = Step[n][g[n - 1]]

LEMMA Iteration ==
  ASSUME NEW N \in Nat, NEW V, NEW base \in V, NEW Step, Steps(N, V, Step)
  PROVE  \E g : Iterates(N, V, base, Step, g)
<1> USE DEF Steps
<1> DEFINE Upto(k, g) == g[0] = base /\ \A n \in 1 .. k : g[n] = Step[n][g[n - 1]]
           T == {k \in 0 .. N : \E g \in [0 .. k -> V] : Upto(k, g)}
<1>1. 0 \in T
  <2>1. [i \in 0 .. 0 |-> base] \in [0 .. 0 -> V]
    OBVIOUS
  <2>2. Upto(0, [i \in 0 .. 0 |-> base])
    OBVIOUS
  <2>3. 0 \in 0 .. N
    OBVIOUS
  <2> HIDE DEF Upto
  <2> QED BY <2>1, <2>2, <2>3
<1>2. ASSUME NEW k \in 1 .. N, k - 1 \in T PROVE k \in T
  <2>1. PICK g \in [0 .. k - 1 -> V] : Upto(k - 1, g)
    BY <1>2
  <2>2. k - 1 \in 0 .. k - 1 /\ 0 \in 0 .. k - 1
    OBVIOUS
  <2>3. Step[k][g[k - 1]] \in V
    BY <2>1, <2>2
  <2> DEFINE h == [i \in 0 .. k |-> IF i = k THEN Step[k][g[k - 1]] ELSE g[i]]
  <2>4. h \in [0 .. k -> V]
    BY <2>1, <2>3
  <2>5. h[0] = base
    BY <2>1, <2>2
  <2>6. ASSUME NEW n \in 1 .. k PROVE h[n] = Step[n][h[n - 1]]
    <3>1. n - 1 \in 0 .. k /\ n - 1 # k
      OBVIOUS
    <3>2. h[n - 1] = g[n - 1]
      BY <3>1
    <3>3. CASE n = k
      BY <3>2, <3>3
    <3>4. CASE n # k
      <4>1. n \in 1 .. k - 1 /\ n \in 0 .. k
        BY <3>4
      <4>2. h[n] = g[n]
        BY <3>4, <4>1
      <4> QED BY <2>1, <3>2, <4>1, <4>2
    <3> QED BY <3>3, <3>4
  <2> HIDE DEF h
  <2>7. Upto(k, h)
    BY <2>5, <2>6
  <2>8. k \in 0 .. N
    OBVIOUS
  <2> QED BY <2>4, <2>7, <2>8
<1> HIDE DEF T
<1>3. \A k \in 1 .. N : k - 1 \in T => k \in T
  BY <1>2
<1>4. \A k \in 0 .. N : k \in T
  BY <1>1, <1>3, InductUpTo
<1>5. N \in T
  BY <1>4
<1> QED
  BY <1>5 DEF T, Iterates

-----------------------------------------------------------------------------
(* graph.rs: what the components are, for every graph.                     *)

Graph(edges) ==
  /\ DOMAIN edges \subseteq Nat
  /\ IsFiniteSet(DOMAIN edges)
  /\ \A x \in DOMAIN edges : edges[x] \subseteq DOMAIN edges

From(edges, x) == ReachableFrom(edges, {x})
Together(edges, x) == {y \in From(edges, x) : x \in From(edges, y)}

LEMMA Least ==
  ASSUME NEW edges, NEW roots
  PROVE  /\ ReachableFrom(edges, roots) \subseteq DOMAIN edges
         /\ roots \subseteq DOMAIN edges => roots \subseteq ReachableFrom(edges, roots)
         /\ \A S \in SUBSET DOMAIN edges :
              roots \subseteq S /\ (\A r \in S : edges[r] \subseteq S)
                => ReachableFrom(edges, roots) \subseteq S
         /\ (\A x \in DOMAIN edges : edges[x] \subseteq DOMAIN edges) =>
              \A r \in ReachableFrom(edges, roots) : edges[r] \subseteq ReachableFrom(edges, roots)
BY DEF ReachableFrom

LEMMA FromFacts ==
  ASSUME NEW edges, Graph(edges), NEW x \in DOMAIN edges
  PROVE  /\ From(edges, x) \subseteq DOMAIN edges
         /\ x \in From(edges, x)
         /\ edges[x] \subseteq From(edges, x)
         /\ \A y \in From(edges, x) : edges[y] \subseteq From(edges, x)
         /\ \A S \in SUBSET DOMAIN edges :
              x \in S /\ (\A r \in S : edges[r] \subseteq S) => From(edges, x) \subseteq S
<1>1. \A S : {x} \subseteq S <=> x \in S
  OBVIOUS
<1>2. {x} \subseteq DOMAIN edges
  OBVIOUS
<1> QED BY <1>1, <1>2, Least DEF From, Graph

LEMMA FromTransitive ==
  ASSUME NEW edges, Graph(edges), NEW x \in DOMAIN edges, NEW y \in From(edges, x)
  PROVE  From(edges, y) \subseteq From(edges, x)
<1>1. y \in DOMAIN edges /\ From(edges, x) \in SUBSET DOMAIN edges
  BY FromFacts
<1> QED BY <1>1, FromFacts

\* Being on a cycle together is an equivalence.
LEMMA TogetherFacts ==
  ASSUME NEW edges, Graph(edges), NEW x \in DOMAIN edges
  PROVE  /\ Together(edges, x) \subseteq DOMAIN edges
         /\ x \in Together(edges, x)
         /\ \A y \in Together(edges, x) : Together(edges, y) = Together(edges, x)
                                          /\ From(edges, y) = From(edges, x)
<1>1. Together(edges, x) \subseteq DOMAIN edges /\ x \in Together(edges, x)
  BY FromFacts DEF Together
<1>2. ASSUME NEW y \in Together(edges, x)
      PROVE  Together(edges, y) = Together(edges, x) /\ From(edges, y) = From(edges, x)
  <2>1. y \in DOMAIN edges /\ y \in From(edges, x) /\ x \in From(edges, y)
    BY <1>1 DEF Together
  <2>2. From(edges, y) = From(edges, x)
    <3>1. From(edges, y) \subseteq From(edges, x)
      BY <2>1, FromTransitive
    <3>2. From(edges, x) \subseteq From(edges, y)
      BY <2>1, FromTransitive
    <3> QED BY <3>1, <3>2
  <2>3. ASSUME NEW z \in From(edges, x) PROVE x \in From(edges, z) <=> y \in From(edges, z)
    <3>1. z \in DOMAIN edges
      BY FromFacts
    <3> QED BY <2>1, <3>1, FromTransitive
  <2> QED BY <2>2, <2>3 DEF Together
<1> QED BY <1>1, <1>2

\* The least of a set of numbers is one of them.
LEMMA MinMember ==
  ASSUME NEW S \in SUBSET Nat, S # {}
  PROVE  Min(S) \in S
<1> DEFINE R == OpToRel(<, Nat)
<1>1. \A x, y \in Nat : x < y => <<x, y>> \in R
  BY DEF OpToRel
<1>2. IsWellFoundedOn(R, Nat)
  BY NatLessThanWellFounded
<1> HIDE DEF R
<1>3. PICK x \in S : \A y \in S : ~ (<<y, x>> \in R)
  BY <1>2, WFMin
<1>4. ASSUME NEW y \in S PROVE x <= y
  <2>1. x \in Nat /\ y \in Nat /\ ~ (y < x)
    BY <1>1, <1>3
  <2> QED BY <2>1
<1> QED
  BY <1>4 DEF Min

Searches(edges) ==
  [stack : Seq(DOMAIN edges), visited : SUBSET DOMAIN edges, finished : Seq(DOMAIN edges)]

\* What the search knows after n turns: from a finished symbol one gets only to
\* finished ones, and of those the last to be finished is on a cycle with it, unless
\* a symbol on the stack is.
SearchInv(edges, s, n) ==
  /\ s \in Searches(edges)
  /\ s.visited = ToSet(s.stack) \cup ToSet(s.finished)
  /\ Cardinality(s.visited) + Cardinality(ToSet(s.finished)) = n
  /\ \A i \in 1 .. Len(s.stack) : s.stack[i] \notin ToSet(s.finished)
  /\ \A i, j \in 1 .. Len(s.stack) : s.stack[i] = s.stack[j] => i = j
  /\ \A i, j \in 1 .. Len(s.stack) : i <= j => s.stack[j] \in From(edges, s.stack[i])
  /\ \A x \in ToSet(s.finished) : edges[x] \subseteq s.visited
  /\ \A x \in ToSet(s.finished) :
       \/ /\ From(edges, x) \subseteq ToSet(s.finished)
          /\ \E k \in 1 .. Len(s.finished) :
               /\ s.finished[k] \in Together(edges, x)
               /\ \A j \in 1 .. Len(s.finished) : s.finished[j] \in From(edges, x) => j <= k
       \/ \E i \in 1 .. Len(s.stack) : s.stack[i] \in Together(edges, x)

LEMMA ToSetFacts ==
  ASSUME NEW D, NEW q \in Seq(D)
  PROVE  /\ ToSet(q) = {q[i] : i \in 1 .. Len(q)}
         /\ ToSet(q) \subseteq D
BY DEF ToSet

LEMMA AppendFacts ==
  ASSUME NEW D, NEW q \in Seq(D), NEW x \in D
  PROVE  /\ Append(q, x) \in Seq(D)
         /\ Len(Append(q, x)) = Len(q) + 1
         /\ \A i \in 1 .. Len(q) : Append(q, x)[i] = q[i]
         /\ Append(q, x)[Len(q) + 1] = x
         /\ ToSet(Append(q, x)) = ToSet(q) \cup {x}
<1>1. /\ Append(q, x) \in Seq(D) /\ Len(Append(q, x)) = Len(q) + 1
      /\ \A i \in 1 .. Len(q) : Append(q, x)[i] = q[i]
      /\ Append(q, x)[Len(q) + 1] = x
      /\ Len(q) \in Nat
  OBVIOUS
<1>2. 1 .. Len(q) + 1 = (1 .. Len(q)) \cup {Len(q) + 1}
  BY <1>1
<1>3. ToSet(Append(q, x)) = {Append(q, x)[i] : i \in 1 .. Len(q) + 1}
  BY <1>1, ToSetFacts
<1>4. ToSet(q) = {q[i] : i \in 1 .. Len(q)}
  BY ToSetFacts
<1> HIDE DEF ToSet
<1>5. ToSet(Append(q, x)) = ToSet(q) \cup {x}
  BY <1>1, <1>2, <1>3, <1>4
<1> QED BY <1>1, <1>5

LEMMA FrontFacts ==
  ASSUME NEW D, NEW q \in Seq(D), q # <<>>
  PROVE  /\ Front(q) \in Seq(D)
         /\ Len(q) \in Nat \ {0}
         /\ Len(Front(q)) = Len(q) - 1
         /\ \A i \in 1 .. Len(q) - 1 : Front(q)[i] = q[i]
         /\ Last(q) = q[Len(q)]
         /\ Last(q) \in D
         /\ ToSet(q) = ToSet(Front(q)) \cup {Last(q)}
<1>1. Len(q) \in Nat \ {0} /\ Last(q) = q[Len(q)] /\ Last(q) \in D
  BY DEF Last
<1>2. /\ Front(q) \in Seq(D) /\ Len(Front(q)) = Len(q) - 1
      /\ \A i \in 1 .. Len(q) - 1 : Front(q)[i] = q[i]
  <2> DEFINE n == Len(q) - 1
  <2>1. 1 \in Int /\ n \in Int /\ n - 1 + 1 = n /\ \A i \in 1 .. n : q[i] \in D
    BY <1>1
  <2>2. \A i \in 1 .. n : 1 + i - 1 = i
    OBVIOUS
  <2>3. n \in Nat
    BY <1>1
  <2> HIDE DEF n
  <2>4. /\ SubSeq(q, 1, n) \in Seq(D)
        /\ Len(SubSeq(q, 1, n)) = IF 1 <= n THEN n - 1 + 1 ELSE 0
        /\ \A i \in 1 .. n - 1 + 1 : SubSeq(q, 1, n)[i] = q[1 + i - 1]
    BY <2>1, SubSeqProperties
  <2>5. Front(q) = SubSeq(q, 1, n)
    BY DEF Front, n
  <2>6. n - 1 + 1 = n
    BY <2>3
  <2>7. (IF 1 <= n THEN n ELSE 0) = n
    BY <2>3
  <2>8. Len(Front(q)) = n
    BY <2>4, <2>5, <2>6, <2>7
  <2> QED BY <2>2, <2>4, <2>5, <2>6, <2>8 DEF n
<1>3. 1 .. Len(q) = (1 .. Len(q) - 1) \cup {Len(q)}
  BY <1>1
<1>4. ToSet(Front(q)) = {Front(q)[i] : i \in 1 .. Len(q) - 1}
  BY <1>2, ToSetFacts
<1>5. ToSet(q) = {q[i] : i \in 1 .. Len(q)}
  BY ToSetFacts
<1>6. ToSet(q) = ToSet(Front(q)) \cup {Last(q)}
  BY <1>1, <1>2, <1>3, <1>4, <1>5
<1> QED BY <1>1, <1>2, <1>6

LEMMA CardinalityAdds ==
  ASSUME NEW S, IsFiniteSet(S), NEW x, x \notin S
  PROVE  Cardinality(S \cup {x}) = Cardinality(S) + 1 /\ IsFiniteSet(S \cup {x})
BY FS_AddElement

\* A symbol is put on the stack.
LEMMA SearchPush ==
  ASSUME NEW edges, Graph(edges), NEW s, NEW n \in Nat, SearchInv(edges, s, n),
         NEW w \in DOMAIN edges, w \notin s.visited,
         s.stack # <<>> => w \in edges[Last(s.stack)]
  PROVE  SearchInv(edges, [stack |-> Append(s.stack, w), visited |-> s.visited \cup {w},
                           finished |-> s.finished], n + 1)
<1> DEFINE D == DOMAIN edges
           k == Len(s.stack)
           stack == Append(s.stack, w)
           t == [stack |-> stack, visited |-> s.visited \cup {w}, finished |-> s.finished]
<1>1. s \in Searches(edges) /\ s.stack \in Seq(D) /\ s.finished \in Seq(D) /\ k \in Nat
  BY DEF SearchInv, Searches
<1>2. /\ stack \in Seq(D) /\ Len(stack) = k + 1
      /\ \A i \in 1 .. k : stack[i] = s.stack[i]
      /\ stack[k + 1] = w
      /\ ToSet(stack) = ToSet(s.stack) \cup {w}
  BY <1>1, AppendFacts
<1>3. w \notin ToSet(s.finished) /\ w \notin ToSet(s.stack)
  BY DEF SearchInv
<1>4. /\ t.stack = stack /\ t.visited = s.visited \cup {w} /\ t.finished = s.finished
      /\ t \in Searches(edges)
  BY <1>1, <1>2 DEF Searches
<1> HIDE DEF t, stack
<1>5. t.visited = ToSet(t.stack) \cup ToSet(t.finished)
  BY <1>2, <1>4 DEF SearchInv
<1>6. Cardinality(t.visited) + Cardinality(ToSet(t.finished)) = n + 1
  <2>1. IsFiniteSet(s.visited) /\ IsFiniteSet(ToSet(s.finished))
    BY FS_Subset, ToSetFacts, <1>1 DEF Graph, Searches, SearchInv
  <2>2. Cardinality(t.visited) = Cardinality(s.visited) + 1
    BY <1>4, <2>1, CardinalityAdds
  <2>3. Cardinality(s.visited) \in Nat /\ Cardinality(ToSet(s.finished)) \in Nat
    BY <2>1, FS_CardinalityType
  <2>4. Cardinality(s.visited) + Cardinality(ToSet(s.finished)) = n
    BY DEF SearchInv
  <2> QED BY <1>4, <2>2, <2>3, <2>4
<1>7. 1 .. k + 1 = (1 .. k) \cup {k + 1}
  BY <1>1
<1>8. \A i \in 1 .. k : s.stack[i] \in ToSet(s.stack) /\ s.stack[i] \in D
  BY <1>1, ToSetFacts
<1>9. \A i \in 1 .. k + 1 : t.stack[i] \notin ToSet(t.finished)
  BY <1>2, <1>3, <1>4, <1>7 DEF SearchInv
<1>10. \A i, j \in 1 .. k + 1 : t.stack[i] = t.stack[j] => i = j
  BY <1>2, <1>3, <1>4, <1>7, <1>8 DEF SearchInv
<1>11. ASSUME NEW i \in 1 .. k + 1, NEW j \in 1 .. k + 1, i <= j
       PROVE  t.stack[j] \in From(edges, t.stack[i])
  <2>1. CASE j \in 1 .. k
    <3>1. i \in 1 .. k
      BY <1>1, <1>11, <2>1
    <3> QED BY <1>2, <1>4, <2>1, <3>1, <1>11 DEF SearchInv
  <2>2. CASE j = k + 1 /\ i = k + 1
    BY <1>2, <1>4, <2>2, FromFacts
  <2>3. CASE j = k + 1 /\ i \in 1 .. k
    <3>1. s.stack # <<>> /\ k \in 1 .. k /\ i <= k /\ Last(s.stack) = s.stack[k]
      BY <1>1, <2>3 DEF Last
    <3>2. w \in edges[s.stack[k]] /\ s.stack[k] \in D /\ s.stack[i] \in D
      BY <1>8, <2>3, <3>1
    <3>3. s.stack[k] \in From(edges, s.stack[i])
      BY <2>3, <3>1 DEF SearchInv
    <3>4. w \in From(edges, s.stack[i])
      BY <3>2, <3>3, FromFacts
    <3> QED BY <1>2, <1>4, <2>3, <3>4
  <2> QED BY <1>7, <2>1, <2>2, <2>3
<1>12. \A x \in ToSet(t.finished) : edges[x] \subseteq t.visited
  BY <1>4 DEF SearchInv
<1>13. ASSUME NEW x \in ToSet(t.finished)
       PROVE  \/ /\ From(edges, x) \subseteq ToSet(t.finished)
                 /\ \E m \in 1 .. Len(t.finished) :
                      /\ t.finished[m] \in Together(edges, x)
                      /\ \A j \in 1 .. Len(t.finished) : t.finished[j] \in From(edges, x) => j <= m
              \/ \E i \in 1 .. k + 1 : t.stack[i] \in Together(edges, x)
  <2>1. CASE \E i \in 1 .. k : s.stack[i] \in Together(edges, x)
    BY <1>2, <1>4, <1>7, <2>1
  <2>2. CASE ~ \E i \in 1 .. k : s.stack[i] \in Together(edges, x)
    BY <1>4, <1>13, <2>2 DEF SearchInv
  <2> QED BY <2>1, <2>2
<1>14. Len(t.stack) = k + 1
  BY <1>2, <1>4
<1>15. SearchInv(edges, t, n + 1)
  BY <1>4, <1>5, <1>6, <1>9, <1>10, <1>11, <1>12, <1>13, <1>14 DEF SearchInv
<1> QED BY <1>15 DEF t, stack

\* The last symbol on the stack is finished: all it refers to has been visited.
LEMMA SearchPop ==
  ASSUME NEW edges, Graph(edges), NEW s, NEW n \in Nat, SearchInv(edges, s, n),
         s.stack # <<>>, edges[Last(s.stack)] \subseteq s.visited
  PROVE  SearchInv(edges, [stack |-> Front(s.stack), visited |-> s.visited,
                           finished |-> Append(s.finished, Last(s.stack))], n + 1)
<1> DEFINE D == DOMAIN edges
           w == Last(s.stack)
           k == Len(s.stack)
           m == Len(s.finished) + 1
           stack == Front(s.stack)
           finished == Append(s.finished, w)
           t == [stack |-> stack, visited |-> s.visited, finished |-> finished]
<1>1. s \in Searches(edges) /\ s.stack \in Seq(D) /\ s.finished \in Seq(D)
  BY DEF SearchInv, Searches
<1>2. /\ k \in Nat \ {0} /\ w = s.stack[k] /\ w \in D
      /\ stack \in Seq(D) /\ Len(stack) = k - 1
      /\ \A i \in 1 .. k - 1 : stack[i] = s.stack[i]
      /\ ToSet(s.stack) = ToSet(stack) \cup {w}
  BY <1>1, FrontFacts
<1>3. /\ finished \in Seq(D) /\ Len(finished) = m /\ m \in Nat \ {0}
      /\ \A i \in 1 .. m - 1 : finished[i] = s.finished[i]
      /\ finished[m] = w
      /\ ToSet(finished) = ToSet(s.finished) \cup {w}
  BY <1>1, <1>2, AppendFacts
<1>4. /\ t.stack = stack /\ t.visited = s.visited /\ t.finished = finished
      /\ t \in Searches(edges)
  BY <1>1, <1>2, <1>3 DEF Searches
<1>5. w \notin ToSet(s.finished)
  BY <1>2 DEF SearchInv
<1>6. k \in 1 .. k /\ \A i \in 1 .. k - 1 : i \in 1 .. k /\ i # k /\ i <= k
  <2>1. k \in Nat \ {0}
    BY <1>2
  <2> HIDE DEF k
  <2> QED BY <2>1
<1>7. w \in edges[w] \/ w \notin edges[w]
  OBVIOUS
<1> HIDE DEF t, stack, finished, w
<1>8. t.visited = ToSet(t.stack) \cup ToSet(t.finished)
  BY <1>2, <1>3, <1>4 DEF SearchInv
<1>9. Cardinality(t.visited) + Cardinality(ToSet(t.finished)) = n + 1
  <2>1. IsFiniteSet(s.visited) /\ IsFiniteSet(ToSet(s.finished))
    BY FS_Subset, ToSetFacts, <1>1 DEF Graph, Searches, SearchInv
  <2>2. Cardinality(ToSet(t.finished)) = Cardinality(ToSet(s.finished)) + 1
    BY <1>3, <1>4, <1>5, <2>1, CardinalityAdds
  <2>3. Cardinality(s.visited) \in Nat /\ Cardinality(ToSet(s.finished)) \in Nat
    BY <2>1, FS_CardinalityType
  <2>4. Cardinality(s.visited) + Cardinality(ToSet(s.finished)) = n
    BY DEF SearchInv
  <2> QED BY <1>4, <2>2, <2>3, <2>4
<1>10. \A i \in 1 .. k - 1 : t.stack[i] \notin ToSet(t.finished)
  <2>1. ASSUME NEW i \in 1 .. k - 1 PROVE s.stack[i] # w
    <3>1. i \in 1 .. k /\ k \in 1 .. k /\ i # k
      BY <1>6
    <3>2. s.stack[i] # s.stack[k]
      BY <3>1 DEF SearchInv
    <3> QED BY <3>2, <1>2
  <2> QED BY <1>2, <1>3, <1>4, <1>6, <2>1 DEF SearchInv
<1>11. \A i, j \in 1 .. k - 1 : t.stack[i] = t.stack[j] => i = j
  BY <1>2, <1>4, <1>6 DEF SearchInv
<1>12. \A i, j \in 1 .. k - 1 : i <= j => t.stack[j] \in From(edges, t.stack[i])
  BY <1>2, <1>4, <1>6 DEF SearchInv
<1>13. \A x \in ToSet(t.finished) : edges[x] \subseteq t.visited
  BY <1>3, <1>4 DEF SearchInv, w
<1>14. ASSUME NEW i \in 1 .. k - 1
       PROVE  w \in From(edges, t.stack[i]) /\ t.stack[i] \in D
  <2>1. i \in 1 .. k /\ k \in 1 .. k /\ i <= k
    BY <1>6
  <2>2. s.stack[k] \in From(edges, s.stack[i])
    BY <2>1 DEF SearchInv
  <2>3. s.stack[i] \in D
    BY <1>1, <2>1
  <2> QED BY <1>2, <1>4, <2>2, <2>3
\* Either w is on a cycle with a symbol below it, or it leads to finished ones only.
<1>15. \/ From(edges, w) \subseteq ToSet(t.finished)
       \/ \E i \in 1 .. k - 1 : t.stack[i] \in Together(edges, w)
  <2> SUFFICES ASSUME \A i \in 1 .. k - 1 : t.stack[i] \notin Together(edges, w)
               PROVE  From(edges, w) \subseteq ToSet(t.finished)
    OBVIOUS
  <2> DEFINE S == From(edges, w) \cap ToSet(t.finished)
  <2>1. S \in SUBSET D /\ w \in S
    BY <1>2, <1>3, <1>4, FromFacts
  <2>2. ASSUME NEW x \in S, NEW y \in edges[x] PROVE y \in S
    <3>1. y \in From(edges, w)
      BY <1>2, <2>2, FromFacts
    <3>2. y \in t.visited
      BY <1>13, <2>2
    <3>3. y \notin ToSet(t.stack)
      <4> SUFFICES ASSUME y \in ToSet(t.stack) PROVE FALSE
        OBVIOUS
      <4>1. PICK i \in 1 .. k - 1 : y = t.stack[i]
        BY <1>2, <1>4, ToSetFacts
      <4>2. y \in Together(edges, w)
        BY <1>14, <3>1, <4>1 DEF Together
      <4> QED BY <4>1, <4>2
    <3> QED BY <1>8, <3>1, <3>2, <3>3
  <2> HIDE DEF S
  <2>3. From(edges, w) \subseteq S
    BY <1>2, <2>1, <2>2, FromFacts
  <2> QED BY <2>3 DEF S
<1>16. ASSUME NEW x \in ToSet(t.finished)
       PROVE  \/ /\ From(edges, x) \subseteq ToSet(t.finished)
                 /\ \E l \in 1 .. m :
                      /\ t.finished[l] \in Together(edges, x)
                      /\ \A j \in 1 .. m : t.finished[j] \in From(edges, x) => j <= l
              \/ \E i \in 1 .. k - 1 : t.stack[i] \in Together(edges, x)
  <2>1. x \in D
    BY <1>3, <1>4, <1>16, ToSetFacts
  <2>2. CASE w \in Together(edges, x)
    <3>1. Together(edges, w) = Together(edges, x) /\ From(edges, w) = From(edges, x)
      BY <2>1, <2>2, TogetherFacts
    <3>2. CASE \E i \in 1 .. k - 1 : t.stack[i] \in Together(edges, w)
      BY <3>1, <3>2
    <3>3. CASE From(edges, w) \subseteq ToSet(t.finished)
      <4>1. m \in 1 .. m /\ \A j \in 1 .. m : j <= m
        BY <1>3
      <4>2. t.finished[m] \in Together(edges, x)
        BY <1>3, <1>4, <2>2
      <4> QED BY <3>1, <3>3, <4>1, <4>2
    <3> QED BY <1>15, <3>2, <3>3
  <2>3. CASE w \notin Together(edges, x)
    <3>1. x \in ToSet(s.finished)
      BY <1>2, <1>3, <1>4, <1>16, <2>3, TogetherFacts
    <3>2. CASE \E i \in 1 .. k : s.stack[i] \in Together(edges, x)
      <4>1. PICK i \in 1 .. k : s.stack[i] \in Together(edges, x)
        BY <3>2
      <4>2. i \in 1 .. k - 1
        BY <1>2, <2>3, <4>1
      <4> QED BY <1>2, <1>4, <4>1, <4>2
    <3>3. CASE ~ \E i \in 1 .. k : s.stack[i] \in Together(edges, x)
      <4>1. /\ From(edges, x) \subseteq ToSet(s.finished)
            /\ \E l \in 1 .. m - 1 :
                 /\ s.finished[l] \in Together(edges, x)
                 /\ \A j \in 1 .. m - 1 : s.finished[j] \in From(edges, x) => j <= l
        BY <1>1, <3>1, <3>3 DEF SearchInv
      <4>2. PICK l \in 1 .. m - 1 :
                 /\ s.finished[l] \in Together(edges, x)
                 /\ \A j \in 1 .. m - 1 : s.finished[j] \in From(edges, x) => j <= l
        BY <4>1
      <4>3. 1 .. m = (1 .. m - 1) \cup {m}
        BY <1>3
      <4>4. w \notin From(edges, x)
        BY <1>5, <4>1
      <4>5. \A j \in 1 .. m : t.finished[j] \in From(edges, x) => j <= l
        BY <1>3, <1>4, <4>2, <4>3, <4>4
      <4>6. l \in 1 .. m /\ t.finished[l] \in Together(edges, x)
        BY <1>3, <1>4, <4>2, <4>3
      <4>7. From(edges, x) \subseteq ToSet(t.finished)
        BY <1>3, <1>4, <4>1
      <4> QED BY <4>5, <4>6, <4>7
    <3> QED BY <3>2, <3>3
  <2> QED BY <2>2, <2>3
<1>17. Len(t.stack) = k - 1 /\ Len(t.finished) = m
  BY <1>2, <1>3, <1>4
<1>18. SearchInv(edges, t, n + 1)
  BY <1>4, <1>8, <1>9, <1>10, <1>11, <1>12, <1>13, <1>16, <1>17 DEF SearchInv
<1> QED BY <1>18 DEF t, stack, finished, w

\* What one turn does, without the record updates.
LEMMA SearchTurn ==
  ASSUME NEW edges, Graph(edges), NEW s \in Searches(edges)
  PROVE  \/ \E w \in DOMAIN edges :
              /\ w \notin s.visited
              /\ s.stack # <<>> => w \in edges[Last(s.stack)]
              /\ SearchStep(edges, s) =
                   [stack |-> Append(s.stack, w), visited |-> s.visited \cup {w},
                    finished |-> s.finished]
         \/ /\ s.stack # <<>> /\ edges[Last(s.stack)] \subseteq s.visited
            /\ SearchStep(edges, s) =
                   [stack |-> Front(s.stack), visited |-> s.visited,
                    finished |-> Append(s.finished, Last(s.stack))]
         \/ /\ s.stack = <<>> /\ DOMAIN edges \subseteq s.visited
            /\ SearchStep(edges, s) = s
<1> DEFINE from == IF s.stack = <<>> THEN DOMAIN edges ELSE edges[Last(s.stack)]
           new == from \ s.visited
<1>1. s = [stack |-> s.stack, visited |-> s.visited, finished |-> s.finished]
  BY DEF Searches
<1>2. s.stack # <<>> => Last(s.stack) \in DOMAIN edges
  BY FrontFacts DEF Searches
<1>3. from \subseteq DOMAIN edges
  BY <1>2 DEF Graph
<1>4. SearchStep(edges, s) =
        IF new # {}
        THEN [s EXCEPT !.stack = Append(@, Min(new)), !.visited = @ \cup {Min(new)}]
        ELSE IF s.stack # <<>>
        THEN [s EXCEPT !.stack = Front(@), !.finished = Append(@, Last(s.stack))]
        ELSE s
  BY DEF SearchStep
<1>5. CASE new # {}
  <2>1. Min(new) \in new
    BY <1>3, <1>5, MinMember DEF Graph
  <2> DEFINE w == Min(new)
  <2> HIDE DEF w
  <2>2. SearchStep(edges, s) = [s EXCEPT !.stack = Append(@, w), !.visited = @ \cup {w}]
    BY <1>4, <1>5 DEF w
  <2>3. SearchStep(edges, s) =
          [stack |-> Append(s.stack, w), visited |-> s.visited \cup {w}, finished |-> s.finished]
    BY <1>1, <2>2
  <2>4. w \in new
    BY <2>1 DEF w
  <2>5. w \in DOMAIN edges /\ w \notin s.visited /\ (s.stack # <<>> => w \in edges[Last(s.stack)])
    BY <1>3, <2>4
  <2> QED BY <2>3, <2>5
<1>6. CASE new = {} /\ s.stack # <<>>
  <2>1. SearchStep(edges, s) = [s EXCEPT !.stack = Front(@), !.finished = Append(@, Last(s.stack))]
    BY <1>4, <1>6
  <2>2. SearchStep(edges, s) =
          [stack |-> Front(s.stack), visited |-> s.visited,
           finished |-> Append(s.finished, Last(s.stack))]
    BY <1>1, <2>1
  <2>3. edges[Last(s.stack)] \subseteq s.visited
    BY <1>6
  <2> QED BY <1>6, <2>2, <2>3
<1>7. CASE new = {} /\ s.stack = <<>>
  BY <1>4, <1>7
<1> QED BY <1>5, <1>6, <1>7

LEMMA SearchTyped ==
  ASSUME NEW edges, Graph(edges), NEW s \in Searches(edges)
  PROVE  SearchStep(edges, s) \in Searches(edges)
<1> DEFINE D == DOMAIN edges
<1>1. s.stack \in Seq(D) /\ s.finished \in Seq(D) /\ s.visited \subseteq D
  BY DEF Searches
<1>2. CASE \E w \in D : SearchStep(edges, s) =
                   [stack |-> Append(s.stack, w), visited |-> s.visited \cup {w},
                    finished |-> s.finished]
  BY <1>1, <1>2, AppendFacts DEF Searches
<1>3. CASE s.stack # <<>> /\ SearchStep(edges, s) =
                   [stack |-> Front(s.stack), visited |-> s.visited,
                    finished |-> Append(s.finished, Last(s.stack))]
  <2>1. Front(s.stack) \in Seq(D) /\ Last(s.stack) \in D
    BY <1>1, <1>3, FrontFacts
  <2>2. Append(s.finished, Last(s.stack)) \in Seq(D)
    BY <1>1, <2>1, AppendFacts
  <2> QED BY <1>1, <1>3, <2>1, <2>2 DEF Searches
<1> QED BY <1>2, <1>3, SearchTurn

LEMMA SearchStepped ==
  ASSUME NEW edges, Graph(edges), NEW s, NEW n \in Nat, SearchInv(edges, s, n),
         n < 2 * Cardinality(DOMAIN edges)
  PROVE  SearchInv(edges, SearchStep(edges, s), n + 1)
<1>1. s \in Searches(edges)
  BY DEF SearchInv
<1>2. ~ (s.stack = <<>> /\ DOMAIN edges \subseteq s.visited)
  <2> SUFFICES ASSUME s.stack = <<>>, DOMAIN edges \subseteq s.visited
               PROVE  FALSE
    OBVIOUS
  <2>1. s.visited = DOMAIN edges
    BY <1>1 DEF Searches
  <2>2. ToSet(s.stack) = {}
    BY DEF ToSet
  <2>3. ToSet(s.finished) = DOMAIN edges
    BY <2>1, <2>2 DEF SearchInv
  <2>4. Cardinality(DOMAIN edges) \in Nat
    BY FS_CardinalityType DEF Graph
  <2>5. Cardinality(DOMAIN edges) + Cardinality(DOMAIN edges) = n
    BY <2>1, <2>3 DEF SearchInv
  <2> QED BY <2>4, <2>5
<1>3. ASSUME NEW w \in DOMAIN edges, w \notin s.visited,
             s.stack # <<>> => w \in edges[Last(s.stack)],
             SearchStep(edges, s) =
                   [stack |-> Append(s.stack, w), visited |-> s.visited \cup {w},
                    finished |-> s.finished]
      PROVE  SearchInv(edges, SearchStep(edges, s), n + 1)
  <2>1. SearchInv(edges, [stack |-> Append(s.stack, w), visited |-> s.visited \cup {w},
                           finished |-> s.finished], n + 1)
    BY <1>3, SearchPush
  <2> QED BY <1>3, <2>1
<1>4. ASSUME s.stack # <<>>, edges[Last(s.stack)] \subseteq s.visited,
             SearchStep(edges, s) =
                   [stack |-> Front(s.stack), visited |-> s.visited,
                    finished |-> Append(s.finished, Last(s.stack))]
      PROVE  SearchInv(edges, SearchStep(edges, s), n + 1)
  <2>1. SearchInv(edges, [stack |-> Front(s.stack), visited |-> s.visited,
                           finished |-> Append(s.finished, Last(s.stack))], n + 1)
    BY <1>4, SearchPop
  <2> QED BY <1>4, <2>1
<1> QED BY <1>1, <1>2, <1>3, <1>4, SearchTurn

\* The search ends with all symbols finished.  Of those that a symbol leads to, the
\* last to be finished is on a cycle with it.
LEMMA FinishedOrder ==
  ASSUME NEW edges, Graph(edges)
  PROVE  /\ Finished(edges) \in Seq(DOMAIN edges)
         /\ ToSet(Finished(edges)) = DOMAIN edges
         /\ \A x \in DOMAIN edges : \E k \in 1 .. Len(Finished(edges)) :
              /\ Finished(edges)[k] \in Together(edges, x)
              /\ \A j \in 1 .. Len(Finished(edges)) :
                   Finished(edges)[j] \in From(edges, x) => j <= k
<1> DEFINE N == 2 * Cardinality(DOMAIN edges)
           base == [stack |-> <<>>, visited |-> {}, finished |-> <<>>]
           Is(f) == f = [n \in 0 .. N |-> IF n = 0 THEN base ELSE SearchStep(edges, f[n - 1])]
           search == CHOOSE f : Is(f)
<1>1. N \in Nat /\ Cardinality(DOMAIN edges) \in Nat
  BY FS_CardinalityType DEF Graph
<1>2. base \in Searches(edges)
  BY DEF Searches
<1>3. \E f : Is(f)
  <2> DEFINE Step == [n \in 1 .. N |-> [s \in Searches(edges) |-> SearchStep(edges, s)]]
  <2>1. Step \in [1 .. N -> [Searches(edges) -> Searches(edges)]]
    BY SearchTyped
  <2> HIDE DEF Step, N, base
  <2>2. PICK g : Iterates(N, Searches(edges), base, Step, g)
    BY <1>1, <1>2, <2>1, Iteration DEF Steps
  <2>3. ASSUME NEW n \in 1 .. N PROVE g[n] = SearchStep(edges, g[n - 1])
    <3>1. n - 1 \in 0 .. N
      BY <1>1
    <3>2. g[n - 1] \in Searches(edges)
      BY <2>2, <3>1 DEF Iterates
    <3> QED BY <2>2, <3>2 DEF Step, Iterates
  <2>4. \A n \in 0 .. N : n # 0 => n \in 1 .. N
    BY <1>1
  <2>5. Is(g)
    BY <2>2, <2>3, <2>4 DEF Iterates
  <2> QED BY <2>5
<1>4. Is(search)
  BY <1>3
<1>5. Finished(edges) = search[N].finished
  BY DEF Finished
<1> HIDE DEF search, base, N
<1>6. search[0] = base /\ \A n \in 1 .. N : search[n] = SearchStep(edges, search[n - 1])
  BY <1>1, <1>4
<1> DEFINE Known == {n \in 0 .. N : SearchInv(edges, search[n], n)}
<1>7. 0 \in Known
  <2>1. base.stack = <<>> /\ base.visited = {} /\ base.finished = <<>>
    BY DEF base
  <2>2. ToSet(<<>>) = {} /\ Len(<<>>) = 0
    BY DEF ToSet
  <2>3. Cardinality({}) + Cardinality({}) = 0
    BY FS_EmptySet
  <2>4. /\ base.visited = {} /\ ToSet(base.stack) = {} /\ ToSet(base.finished) = {}
        /\ 1 .. Len(base.stack) = {}
    BY <2>1, <2>2
  <2>5. SearchInv(edges, base, 0)
    BY <1>2, <2>3, <2>4 DEF SearchInv
  <2> QED BY <1>1, <1>6, <2>5
<1>8. ASSUME NEW n \in 1 .. N, n - 1 \in Known PROVE n \in Known
  <2>1. n - 1 \in Nat /\ n - 1 < N /\ (n - 1) + 1 = n /\ n \in 0 .. N
    BY <1>1
  <2>2. SearchInv(edges, search[n - 1], n - 1)
    BY <1>8
  <2>3. SearchInv(edges, SearchStep(edges, search[n - 1]), (n - 1) + 1)
    BY <2>1, <2>2, SearchStepped DEF N
  <2> QED BY <1>6, <2>1, <2>3
<1> HIDE DEF Known
<1>9. \A n \in 0 .. N : n \in Known
  <2>1. \A n \in 1 .. N : n - 1 \in Known => n \in Known
    BY <1>8
  <2> QED BY <1>1, <1>7, <2>1, InductUpTo
<1>10. PICK s : s = search[N]
  OBVIOUS
<1>11. SearchInv(edges, s, N)
  BY <1>1, <1>9, <1>10 DEF Known
<1>12. s \in Searches(edges) /\ s.finished \in Seq(DOMAIN edges) /\ s.visited \subseteq DOMAIN edges
  BY <1>11 DEF SearchInv, Searches
<1>13. ToSet(s.finished) = DOMAIN edges
  <2>1. /\ ToSet(s.finished) \subseteq DOMAIN edges
        /\ IsFiniteSet(DOMAIN edges)
    BY <1>12, ToSetFacts DEF Graph
  <2>2. /\ Cardinality(s.visited) <= Cardinality(DOMAIN edges)
        /\ Cardinality(s.visited) \in Nat
    BY <1>12, <2>1, FS_Subset, FS_CardinalityType
  <2>3. /\ Cardinality(ToSet(s.finished)) <= Cardinality(DOMAIN edges)
        /\ Cardinality(ToSet(s.finished)) \in Nat
    BY <2>1, FS_Subset, FS_CardinalityType
  <2>4. Cardinality(s.visited) + Cardinality(ToSet(s.finished)) = 2 * Cardinality(DOMAIN edges)
    BY <1>11 DEF SearchInv, N
  <2>5. Cardinality(ToSet(s.finished)) = Cardinality(DOMAIN edges)
    BY <1>1, <2>2, <2>3, <2>4
  <2> QED BY <2>1, <2>5, FS_Subset
<1>14. ASSUME NEW i \in 1 .. Len(s.stack) PROVE FALSE
  <2>1. s.stack \in Seq(DOMAIN edges)
    BY <1>12 DEF Searches
  <2> QED BY <1>11, <1>13, <2>1 DEF SearchInv
<1>15. \A x \in DOMAIN edges : \E k \in 1 .. Len(s.finished) :
              /\ s.finished[k] \in Together(edges, x)
              /\ \A j \in 1 .. Len(s.finished) : s.finished[j] \in From(edges, x) => j <= k
  BY <1>11, <1>13, <1>14 DEF SearchInv
<1> QED BY <1>5, <1>10, <1>12, <1>13, <1>15

\* The order in which roots are taken: what a symbol leads to comes no earlier than
\* some symbol that is on a cycle with it.
RootOrder(edges, order) ==
  /\ order \in Seq(DOMAIN edges)
  /\ ToSet(order) = DOMAIN edges
  /\ \A x \in DOMAIN edges : \E k \in 1 .. Len(order) :
       /\ order[k] \in Together(edges, x)
       /\ \A j \in 1 .. Len(order) : order[j] \in From(edges, x) => k <= j

\* Components with dependencies first.
InOrder(edges, components) ==
  /\ components \in Seq(SUBSET DOMAIN edges)
  /\ \A i \in 1 .. Len(components) :
       \E x \in DOMAIN edges : components[i] = Together(edges, x)
  /\ \A i, j \in 1 .. Len(components) : i < j =>
       /\ components[i] \cap components[j] = {}
       /\ \A x \in components[i] : edges[x] \cap components[j] = {}

\* After n roots: no symbol that is left is needed by one that is not.
CollectInv(edges, order, components, n) ==
  /\ InOrder(edges, components)
  /\ \A j \in 1 .. Len(order) : j <= n => order[j] \in UNION ToSet(components)
  /\ \A x \in DOMAIN edges :
       edges[x] \cap UNION ToSet(components) # {} => x \in UNION ToSet(components)

LEMMA ReverseFinished ==
  ASSUME NEW edges, Graph(edges)
  PROVE  RootOrder(edges, Reverse(Finished(edges)))
<1> DEFINE D == DOMAIN edges
<1>1. PICK q : q = Finished(edges)
  OBVIOUS
<1>2. q \in Seq(D) /\ ToSet(q) = D /\ Len(q) \in Nat
  BY <1>1, FinishedOrder
<1> DEFINE l == Len(q)
           r == [i \in 1 .. l |-> q[l - i + 1]]
<1>3. r = Reverse(q)
  BY DEF Reverse
<1>4. \A i \in 1 .. l : l - i + 1 \in 1 .. l /\ l - (l - i + 1) + 1 = i
  BY <1>2
<1>5. r \in Seq(D) /\ Len(r) = l /\ DOMAIN r = 1 .. l
  BY <1>2, <1>4
<1>6. \A i \in 1 .. l : r[i] = q[l - i + 1] /\ r[l - i + 1] = q[i]
  BY <1>4
<1> HIDE DEF r
<1>7. ToSet(r) = D
  <2>1. ToSet(r) = {r[i] : i \in 1 .. l} /\ ToSet(q) = {q[i] : i \in 1 .. l}
    BY <1>2, <1>5, ToSetFacts
  <2>2. \A i \in 1 .. l : r[i] \in ToSet(q) /\ q[i] \in ToSet(r)
    BY <1>4, <1>6, <2>1
  <2> QED BY <1>2, <2>1, <2>2
<1>8. ASSUME NEW x \in D
      PROVE  \E k \in 1 .. l : /\ r[k] \in Together(edges, x)
                               /\ \A j \in 1 .. l : r[j] \in From(edges, x) => k <= j
  <2>1. PICK k \in 1 .. l : /\ q[k] \in Together(edges, x)
                            /\ \A j \in 1 .. l : q[j] \in From(edges, x) => j <= k
    BY <1>1, FinishedOrder
  <2>2. l - k + 1 \in 1 .. l /\ r[l - k + 1] \in Together(edges, x)
    BY <1>4, <1>6, <2>1
  <2>3. ASSUME NEW j \in 1 .. l, r[j] \in From(edges, x) PROVE l - k + 1 <= j
    <3>1. l - j + 1 \in 1 .. l /\ q[l - j + 1] \in From(edges, x)
      BY <1>4, <1>6, <2>3
    <3>2. l - j + 1 <= k
      BY <2>1, <3>1
    <3> QED BY <1>2, <3>2
  <2> QED BY <2>2, <2>3
<1> QED BY <1>1, <1>3, <1>5, <1>7, <1>8 DEF RootOrder

\* What leads to a taken symbol is taken.
LEMMA TakenClosed ==
  ASSUME NEW edges, Graph(edges), NEW order, NEW components, NEW n,
         CollectInv(edges, order, components, n),
         NEW x \in DOMAIN edges, x \notin UNION ToSet(components)
  PROVE  From(edges, x) \cap UNION ToSet(components) = {}
<1> DEFINE S == DOMAIN edges \ UNION ToSet(components)
<1>1. S \in SUBSET DOMAIN edges /\ x \in S
  OBVIOUS
<1>2. \A y \in S : edges[y] \subseteq S
  BY DEF CollectInv, Graph
<1> HIDE DEF S
<1>3. From(edges, x) \subseteq S
  BY <1>1, <1>2, FromFacts
<1> QED BY <1>3 DEF S

\* What of the rest leads to the next root is on a cycle with it.
LEMMA LeadsToRoot ==
  ASSUME NEW edges, Graph(edges), NEW order, NEW components, RootOrder(edges, order),
         NEW n \in 1 .. Len(order), CollectInv(edges, order, components, n - 1),
         NEW x \in DOMAIN edges, x \notin UNION ToSet(components),
         order[n] \in From(edges, x)
  PROVE  x \in Together(edges, order[n])
<1>1. PICK k \in 1 .. Len(order) :
         /\ order[k] \in Together(edges, x)
         /\ \A j \in 1 .. Len(order) : order[j] \in From(edges, x) => k <= j
  BY DEF RootOrder
<1>2. k <= n
  BY <1>1
<1>3. order[k] \notin UNION ToSet(components)
  BY <1>1, TakenClosed DEF Together
<1>4. ~(k <= n - 1)
  BY <1>1, <1>3 DEF CollectInv
<1>5. Len(order) \in Nat
  BY DEF RootOrder
<1>6. k = n
  BY <1>1, <1>2, <1>4, <1>5
<1>7. order[n] \in Together(edges, x)
  BY <1>1, <1>6
<1> QED BY <1>7, TogetherFacts

LEMMA DependentsTogether ==
  ASSUME NEW edges, Graph(edges), NEW order, NEW components, RootOrder(edges, order),
         NEW n \in 1 .. Len(order), CollectInv(edges, order, components, n - 1),
         order[n] \notin UNION ToSet(components)
  PROVE  Dependents(edges, components, order[n]) = Together(edges, order[n])
<1> DEFINE r == order[n]
           C == Together(edges, r)
           left == DOMAIN edges \ UNION ToSet(components)
           back == [s \in left |-> {t \in left : s \in edges[t]}]
<1>1. r \in DOMAIN edges /\ r \in left
  BY DEF RootOrder
<1>2. C \subseteq left /\ r \in C
  BY <1>1, TakenClosed, TogetherFacts DEF Together
<1>3. Dependents(edges, components, r) = ReachableFrom(back, {r})
  BY DEF Dependents
<1>4. DOMAIN back = left /\ \A s \in left : back[s] = {t \in left : s \in edges[t]}
  OBVIOUS
<1> HIDE DEF r, C, back
<1>5. ReachableFrom(back, {r}) \subseteq C
  <2>1. ASSUME NEW s \in C PROVE back[s] \subseteq C
    <3> SUFFICES ASSUME NEW t \in left, s \in edges[t] PROVE t \in C
      BY <1>2, <1>4, <2>1
    <3>1. s \in From(edges, t)
      BY FromFacts
    <3>2. r \in From(edges, s)
      BY <2>1 DEF C, Together
    <3>3. r \in From(edges, t)
      BY <3>1, <3>2, FromTransitive
    <3>4. t \in Together(edges, order[n])
      BY <3>3, LeadsToRoot DEF r
    <3> QED BY <3>4 DEF C, r
  <2>2. C \in SUBSET DOMAIN back /\ {r} \subseteq C
    BY <1>2, <1>4
  <2> QED BY <2>1, <2>2, Least
<1>6. C \subseteq ReachableFrom(back, {r})
  <2> SUFFICES ASSUME NEW S \in SUBSET left, r \in S, \A s \in S : back[s] \subseteq S,
                      NEW c \in C, c \notin S
               PROVE  FALSE
    BY <1>2, <1>4 DEF ReachableFrom
  <2> DEFINE T == {y \in From(edges, c) : y \in C => y \notin S}
  <2>1. c \in DOMAIN edges /\ c \in From(edges, r) /\ r \in From(edges, c)
    BY <1>1, <1>2 DEF C, Together
  <2>2. T \in SUBSET DOMAIN edges /\ c \in T
    BY <2>1, FromFacts
  <2>3. ASSUME NEW y \in T, NEW z \in edges[y] PROVE z \in T
    <3>1. z \in From(edges, c) /\ y \in DOMAIN edges /\ y \in From(edges, c)
      BY <2>1, <2>2, <2>3, FromFacts
    <3>2. ASSUME z \in C, z \in S PROVE FALSE
      <4>1. z \in From(edges, y)
        BY <3>1, FromFacts
      <4>2. r \in From(edges, z)
        BY <3>2 DEF C, Together
      <4>3. r \in From(edges, y)
        BY <3>1, <4>1, <4>2, FromTransitive
      <4>4. y \in From(edges, r)
        BY <1>1, <2>1, <3>1, FromTransitive
      <4>5. y \in C
        BY <4>3, <4>4 DEF C, Together
      <4>6. y \in back[z]
        BY <1>2, <1>4, <3>2, <4>5
      <4> QED BY <2>3, <3>2, <4>5, <4>6
    <3> QED BY <3>1, <3>2
  <2> HIDE DEF T
  <2>4. From(edges, c) \subseteq T
    BY <2>1, <2>2, <2>3, FromFacts
  <2> QED BY <1>2, <2>1, <2>4 DEF T
<1> QED BY <1>3, <1>5, <1>6 DEF r, C

LEMMA PrependFacts ==
  ASSUME NEW D, NEW q \in Seq(D), NEW x \in D
  PROVE  /\ <<x>> \o q \in Seq(D)
         /\ Len(<<x>> \o q) = Len(q) + 1
         /\ (<<x>> \o q)[1] = x
         /\ \A i \in 2 .. Len(q) + 1 : (<<x>> \o q)[i] = q[i - 1]
         /\ ToSet(<<x>> \o q) = ToSet(q) \cup {x}
<1>1. /\ <<x>> \o q \in Seq(D) /\ Len(<<x>> \o q) = Len(q) + 1
      /\ (<<x>> \o q)[1] = x
      /\ Len(q) \in Nat
  OBVIOUS
<1>2. \A i \in 2 .. Len(q) + 1 : (<<x>> \o q)[i] = q[i - 1]
  OBVIOUS
<1>3. \A i \in 1 .. Len(q) : i + 1 \in 2 .. Len(q) + 1 /\ (i + 1) - 1 = i
  BY <1>1
<1>4. \A i \in 2 .. Len(q) + 1 : i - 1 \in 1 .. Len(q)
  BY <1>1
<1>5. 1 .. Len(q) + 1 = {1} \cup (2 .. Len(q) + 1)
  BY <1>1
<1> DEFINE p == <<x>> \o q
<1>6. ToSet(p) = {p[i] : i \in 1 .. Len(q) + 1} /\ ToSet(q) = {q[i] : i \in 1 .. Len(q)}
  BY <1>1, ToSetFacts
<1>7. p[1] = x /\ \A i \in 2 .. Len(q) + 1 : p[i] = q[i - 1]
  BY <1>1, <1>2
<1> HIDE DEF p
<1>8. ToSet(p) \subseteq ToSet(q) \cup {x}
  BY <1>4, <1>5, <1>6, <1>7
<1>9. x \in ToSet(p)
  BY <1>5, <1>6, <1>7
<1>10. ASSUME NEW i \in 1 .. Len(q) PROVE q[i] \in ToSet(p)
  <2>1. i + 1 \in 1 .. Len(q) + 1 /\ p[i + 1] = q[i]
    BY <1>3, <1>5, <1>7
  <2> QED BY <1>6, <2>1
<1>11. ToSet(p) = ToSet(q) \cup {x}
  BY <1>6, <1>8, <1>9, <1>10
<1> QED BY <1>1, <1>2, <1>11 DEF p

LEMMA CollectTyped ==
  ASSUME NEW edges, NEW components \in Seq(SUBSET DOMAIN edges), NEW root
  PROVE  Collect(edges, components, root) \in Seq(SUBSET DOMAIN edges)
<1>1. Dependents(edges, components, root) \in SUBSET DOMAIN edges
  <2> DEFINE left == DOMAIN edges \ UNION ToSet(components)
             back == [s \in left |-> {t \in left : s \in edges[t]}]
  <2>1. ReachableFrom(back, {root}) \subseteq left
    BY DEF ReachableFrom
  <2> QED BY <2>1 DEF Dependents
<1> QED BY <1>1, PrependFacts DEF Collect

LEMMA Collected ==
  ASSUME NEW edges, Graph(edges), NEW order, RootOrder(edges, order), NEW components,
         NEW n \in 1 .. Len(order), CollectInv(edges, order, components, n - 1)
  PROVE  CollectInv(edges, order, Collect(edges, components, order[n]), n)
<1> DEFINE r == order[n]
           C == Together(edges, r)
           D == DOMAIN edges
           U == UNION ToSet(components)
<1>1. r \in D /\ C \in SUBSET D /\ r \in C
  BY TogetherFacts DEF RootOrder
<1>2. components \in Seq(SUBSET D) /\ Len(components) \in Nat /\ n \in Nat
  BY DEF CollectInv, InOrder, RootOrder
<1>3. \A j \in 1 .. Len(order) : j <= n => j <= n - 1 \/ j = n
  BY <1>2
<1>4. CASE r \in U
  <2>1. Collect(edges, components, r) = components
    BY <1>4 DEF Collect
  <2> QED BY <1>3, <1>4, <2>1 DEF CollectInv
<1>5. CASE r \notin U
  <2> DEFINE new == <<C>> \o components
             l == Len(components)
  <2>1. Collect(edges, components, r) = new
    BY <1>5, DependentsTogether DEF Collect
  <2>2. /\ new \in Seq(SUBSET D) /\ Len(new) = l + 1 /\ new[1] = C
        /\ \A i \in 2 .. l + 1 : new[i] = components[i - 1]
        /\ ToSet(new) = ToSet(components) \cup {C}
    BY <1>1, <1>2, PrependFacts
  <2>3. UNION ToSet(new) = U \cup C
    BY <2>2
  <2>4. C \cap U = {}
    BY <1>1, <1>5, TakenClosed DEF Together
  <2>5. \A i \in 2 .. l + 1 : i - 1 \in 1 .. l
    BY <1>2
  <2>6. \A i \in 1 .. l + 1 : i = 1 \/ i \in 2 .. l + 1
    BY <1>2
  <2>7. \A i \in 1 .. l : components[i] \subseteq U
    BY <1>2, ToSetFacts
  <2>8. \A x \in C : edges[x] \cap U = {}
    BY <1>1, <2>4 DEF CollectInv
  <2>9. ASSUME NEW x \in D, edges[x] \cap (U \cup C) # {}, x \notin U PROVE x \in C
    <3>1. edges[x] \cap U = {}
      BY <2>9 DEF CollectInv
    <3>2. PICK y \in edges[x] : y \in C
      BY <2>9, <3>1
    <3>3. y \in From(edges, x) /\ r \in From(edges, y)
      BY <3>2, FromFacts DEF Together
    <3>4. r \in From(edges, x)
      BY <3>3, FromTransitive
    <3> QED BY <2>9, <3>4, LeadsToRoot
  <2> HIDE DEF new, C, U, r, l
  <2>10. \A i \in 1 .. l + 1 : \E x \in D : new[i] = Together(edges, x)
    <3>1. \A i \in 1 .. l : \E x \in D : components[i] = Together(edges, x)
      BY DEF CollectInv, InOrder, l
    <3>2. \E x \in D : new[1] = Together(edges, x)
      BY <1>1, <2>2 DEF C
    <3> QED BY <2>2, <2>5, <2>6, <3>1, <3>2
  <2>11. ASSUME NEW i \in 1 .. l + 1, NEW j \in 1 .. l + 1, i < j
         PROVE  new[i] \cap new[j] = {} /\ \A x \in new[i] : edges[x] \cap new[j] = {}
    <3>1. j \in 2 .. l + 1 /\ new[j] = components[j - 1] /\ j - 1 \in 1 .. l
      BY <2>2, <2>5, <2>6, <2>11
    <3>2. CASE i = 1
      BY <2>2, <2>4, <2>7, <2>8, <3>1, <3>2
    <3>3. CASE i \in 2 .. l + 1
      <4>1. new[i] = components[i - 1] /\ i - 1 \in 1 .. l /\ i - 1 < j - 1
        BY <2>2, <2>5, <2>11, <3>3
      <4> QED BY <3>1, <4>1 DEF CollectInv, InOrder, l
    <3> QED BY <2>6, <3>2, <3>3
  <2>12. InOrder(edges, new)
    BY <2>2, <2>10, <2>11 DEF InOrder
  <2>13. \A j \in 1 .. Len(order) : j <= n => order[j] \in U \cup C
    BY <1>1, <1>3 DEF CollectInv, r, U
  <2>14. CollectInv(edges, order, new, n)
    BY <2>3, <2>9, <2>12, <2>13 DEF CollectInv
  <2> QED BY <2>1, <2>14 DEF r
<1> QED BY <1>4, <1>5

\* The algorithm of graph.rs:32-89 is right for every graph: it returns the classes of
\* symbols that are on a cycle together, each once, and none of them refers to one
\* that comes later.
THEOREM ComponentsInOrder ==
  \A edges : Graph(edges) =>
    /\ InOrder(edges, StronglyConnectedComponents(edges))
    /\ UNION ToSet(StronglyConnectedComponents(edges)) = DOMAIN edges
<1> SUFFICES ASSUME NEW edges, Graph(edges)
             PROVE  /\ InOrder(edges, StronglyConnectedComponents(edges))
                    /\ UNION ToSet(StronglyConnectedComponents(edges)) = DOMAIN edges
  OBVIOUS
<1> DEFINE order == Reverse(Finished(edges))
           N == Len(order)
           V == Seq(SUBSET DOMAIN edges)
           Is(f) == f = [n \in 0 .. N |-> IF n = 0 THEN <<>> ELSE Collect(edges, f[n - 1], order[n])]
           found == CHOOSE f : Is(f)
<1>1. StronglyConnectedComponents(edges) = found[N]
  BY DEF StronglyConnectedComponents
<1>2. RootOrder(edges, order)
  BY ReverseFinished
<1> HIDE DEF order
<1>3. N \in Nat
  BY <1>2 DEF RootOrder
<1>4. \A n \in 0 .. N : n # 0 => n \in 1 .. N
  BY <1>3
<1> HIDE DEF N
<1>5. \E f : Is(f)
  <2> DEFINE Step == [n \in 1 .. N |-> [c \in V |-> Collect(edges, c, order[n])]]
  <2>1. Steps(N, V, Step)
    BY CollectTyped DEF Steps
  <2>2. <<>> \in V
    OBVIOUS
  <2> HIDE DEF Step, V
  <2>3. PICK g : Iterates(N, V, <<>>, Step, g)
    BY <1>3, <2>1, <2>2, Iteration
  <2>4. ASSUME NEW n \in 1 .. N PROVE g[n] = Collect(edges, g[n - 1], order[n])
    <3>1. n - 1 \in 0 .. N
      BY <1>3
    <3>2. g[n - 1] \in V
      BY <2>3, <3>1 DEF Iterates
    <3> QED BY <2>3, <3>2 DEF Step, Iterates
  <2>5. Is(g)
    BY <1>4, <2>3, <2>4 DEF Iterates
  <2> QED BY <2>5
<1>6. Is(found)
  BY <1>5
<1> HIDE DEF found
<1>7. found[0] = <<>> /\ \A n \in 1 .. N : found[n] = Collect(edges, found[n - 1], order[n])
  BY <1>3, <1>6
<1> DEFINE Known == {n \in 0 .. N : CollectInv(edges, order, found[n], n)}
<1>8. 0 \in Known
  <2>1. ToSet(<<>>) = {} /\ 1 .. Len(<<>>) = {}
    BY DEF ToSet
  <2>2. <<>> \in Seq(SUBSET DOMAIN edges)
    OBVIOUS
  <2>3. CollectInv(edges, order, <<>>, 0)
    BY <2>1, <2>2 DEF CollectInv, InOrder
  <2> QED BY <1>3, <1>7, <2>3
<1>9. ASSUME NEW n \in 1 .. N, n - 1 \in Known PROVE n \in Known
  <2>1. n \in 0 .. N /\ n \in 1 .. Len(order)
    BY <1>3 DEF N
  <2>2. CollectInv(edges, order, found[n - 1], n - 1)
    BY <1>9
  <2>3. CollectInv(edges, order, Collect(edges, found[n - 1], order[n]), n)
    BY <1>2, <2>1, <2>2, Collected
  <2> QED BY <1>7, <2>1, <2>3
<1> HIDE DEF Known
<1>10. \A n \in 1 .. N : n - 1 \in Known => n \in Known
  BY <1>9
<1>11. \A n \in 0 .. N : n \in Known
  BY <1>3, <1>8, <1>10, InductUpTo
<1>12. PICK c : c = found[N]
  OBVIOUS
<1>13. CollectInv(edges, order, c, N)
  BY <1>3, <1>11, <1>12 DEF Known
<1>14. DOMAIN edges \subseteq UNION ToSet(c)
  <2>1. \A j \in 1 .. N : order[j] \in UNION ToSet(c)
    BY <1>3, <1>13 DEF CollectInv, N
  <2>2. ToSet(order) = {order[j] : j \in 1 .. N}
    BY <1>2, ToSetFacts DEF RootOrder, N
  <2> QED BY <1>2, <2>1, <2>2 DEF RootOrder
<1>15. UNION ToSet(c) \subseteq DOMAIN edges
  <2>1. ToSet(c) \subseteq SUBSET DOMAIN edges
    BY <1>13, ToSetFacts DEF CollectInv, InOrder
  <2> QED BY <2>1
<1> QED BY <1>1, <1>12, <1>13, <1>14, <1>15 DEF CollectInv

-----------------------------------------------------------------------------
(* split.rs: the two passes.                                               *)

\* The module being compiled is one of those given, so what it refers to exists.
Declared ==
  /\ \A s \in Symbols : Calls[s] \subseteq Symbols
  /\ \A e \in module.entries : e.body.calls \subseteq Symbols

Late == {"entries", "gpu", "done"}

\* How far the host pass has come.  While it runs, what is still to be looked at
\* makes up for what the set of reached symbols lacks to be closed.
HostInv ==
  /\ host \subseteq Symbols /\ pending \subseteq Symbols
  /\ pc \in {"resolve", "pairs"} => host = {} /\ pending = {}
  /\ pc \in {"host"} \cup Late => pending = {}
  /\ pc \notin {"resolve", "pairs"} =>
       \A d \in Roots("host") : d \in host \cup pending \/ domain[d] = "gpu"
  /\ \A s \in host : \A d \in Calls[s] : d \in host \cup pending \/ domain[d] = "gpu"
  /\ \A S \in SUBSET Symbols : Closed(S, "host") => host \cup pending \subseteq S
  /\ pc \in Late /\ errors = {} =>
       \A b \in BodiesOf("host", host) :
         b.traits \cap GpuOnly = {} /\ \A d \in b.calls : domain[d] # "gpu"

\* A body that has been inspected without an error.
Inspected(b) == b.calls \subseteq gpu /\ b.traits \cap NotOnGpu = {}

GpuInv ==
  /\ gpu \subseteq Symbols /\ checked \subseteq gpu
  /\ pc \notin {"gpu", "done"} => gpu = {}
  /\ pc \in {"gpu", "done"} /\ errors = {} =>
       \A b \in BodiesOf("gpu", checked) : Inspected(b)
  /\ pc = "done" => gpu \subseteq checked
  /\ \A S \in SUBSET Symbols : Closed(S, "gpu") => gpu \subseteq S

LEMMA RootsDeclared ==
  ASSUME Declared, NEW t
  PROVE  Roots(t) \subseteq Symbols
BY DEF Declared, Roots, EntriesOf

LEMMA DeclaredKept == Spec => []Declared
<1>1. Init => \E family \in Families : module \in family
  BY DEF Init
<1>2. ASSUME \E family \in Families : module \in family, [Next]_vars
      PROVE  (\E family \in Families : module \in family)'
  BY <1>2 DEF Next, vars, ResolveDomains, ValidateShaderPairs, ReachHost,
     ValidateReferences, ValidateHostGraph, InspectEntries, InspectSymbol,
     ValidateCycles
<1>3. (\E family \in Families : module \in family) => Declared
  BY DeclaredAssumption DEF Declared, Calls, Body
<1>4. QED
  BY <1>1, <1>2, <1>3, PTL DEF Spec

\* What a target needs is defined by the module alone.
LEMMA SameModule ==
  ASSUME UNCHANGED module
  PROVE  /\ Calls' = Calls
         /\ \A t : Roots(t)' = Roots(t)
         /\ \A S, t : Closed(S, t)' = Closed(S, t)
         /\ \A S, t : BodiesOf(t, S)' = BodiesOf(t, S)
<1>1. \A s : Body(s)' = Body(s)
  BY DEF Body
<1>2. Calls' = Calls
  BY <1>1 DEF Calls
<1>3. \A t : EntriesOf(t)' = EntriesOf(t)
  BY DEF EntriesOf
<1>4. \A t : Roots(t)' = Roots(t)
  BY <1>3 DEF Roots
<1>5. QED
  BY <1>1, <1>2, <1>3, <1>4 DEF Closed, BodiesOf

-----------------------------------------------------------------------------
\* The host pass.

LEMMA HostPass == Spec => []HostInv
<1>1. Init => HostInv
  BY DEF Init, HostInv, Late
<1>2. ASSUME HostInv, Declared, [Next]_vars
      PROVE  HostInv'
  <2> USE DEF HostInv
  <2>1. /\ Calls' = Calls
        /\ \A t : Roots(t)' = Roots(t)
        /\ \A S, t : Closed(S, t)' = Closed(S, t)
        /\ \A S, t : BodiesOf(t, S)' = BodiesOf(t, S)
    <3>1. UNCHANGED module
      BY <1>2 DEF Next, vars, ResolveDomains, ValidateShaderPairs, ReachHost,
         ValidateReferences, ValidateHostGraph, InspectEntries, InspectSymbol,
         ValidateCycles
    <3>2. QED
      BY <3>1, SameModule
  <2>2. CASE ResolveDomains
    BY <1>2, <2>1, <2>2 DEF ResolveDomains, Late
  <2>3. CASE ValidateShaderPairs
    <3>1. Roots("host") \subseteq Symbols
      BY <1>2, RootsDeclared
    <3>2. \A S \in SUBSET Symbols : Closed(S, "host") => Roots("host") \subseteq S
      BY DEF Closed
    <3>3. pc = "pairs" /\ pc' = "reach" /\ pending' = Roots("host")
          /\ host' = host /\ domain' = domain
      BY <2>3 DEF ValidateShaderPairs
    <3>4. QED
      BY <1>2, <2>1, <3>1, <3>2, <3>3 DEF Late
  <2>4. ASSUME NEW s \in Symbols, ReachHost(s)
        PROVE  HostInv'
    <3>1. pc = "reach" /\ pc' = pc /\ domain' = domain /\ s \in pending
      BY <2>4 DEF ReachHost
    <3>2. CASE domain[s] # "gpu" /\ s \notin host
      <4>1. host' = host \cup {s} /\ pending' = (pending \ {s}) \cup Calls[s]
        BY <2>4, <3>2 DEF ReachHost
      <4>2. Calls[s] \subseteq Symbols
        BY <1>2 DEF Declared
      <4>3. \A S \in SUBSET Symbols : Closed(S, "host") => host' \cup pending' \subseteq S
        BY <1>2, <3>1, <4>1 DEF Closed
      <4>4. QED
        BY <1>2, <2>1, <3>1, <4>1, <4>2, <4>3 DEF Late
    <3>3. CASE ~(domain[s] # "gpu" /\ s \notin host)
      <4>1. host' = host /\ pending' = pending \ {s}
        BY <2>4, <3>3 DEF ReachHost
      <4>2. QED
        BY <1>2, <2>1, <3>1, <3>3, <4>1 DEF Late
    <3>4. QED
      BY <3>2, <3>3
  <2>5. CASE ValidateReferences
    BY <1>2, <2>1, <2>5 DEF ValidateReferences, Late
  <2>6. CASE ValidateHostGraph
    <3>1. pc = "host" /\ pc' = "entries"
          /\ UNCHANGED <<domain, pending, host>>
      BY <2>6 DEF ValidateHostGraph
    <3>2. errors' = {} =>
             \A b \in BodiesOf("host", host) :
               b.traits \cap GpuOnly = {} /\ \A d \in b.calls : domain[d] # "gpu"
      <4>1. errors' = {} => \A b \in BodiesOf("host", host) : HostErrors(b) = {}
        BY <2>6 DEF ValidateHostGraph
      <4>2. ASSUME NEW b \in BodiesOf("host", host), HostErrors(b) = {}
            PROVE  b.traits \cap GpuOnly = {} /\ \A d \in b.calls : domain[d] # "gpu"
        BY <4>2 DEF HostErrors
      <4>3. QED
        BY <4>1, <4>2
    <3>3. QED
      BY <1>2, <2>1, <3>1, <3>2 DEF Late
  <2>7. CASE InspectEntries
    <3>1. pc = "entries" /\ pc' = "gpu" /\ UNCHANGED <<domain, pending, host>>
      BY <2>7 DEF InspectEntries
    <3>2. errors' = {} => errors = {}
      BY <2>7 DEF InspectEntries, Inspect
    <3>3. QED
      BY <1>2, <2>1, <3>1, <3>2 DEF Late
  <2>8. ASSUME NEW s \in Symbols, InspectSymbol(s)
        PROVE  HostInv'
    <3>1. pc = "gpu" /\ pc' = pc /\ UNCHANGED <<domain, pending, host>>
      BY <2>8 DEF InspectSymbol
    <3>2. errors' = {} => errors = {}
      BY <2>8 DEF InspectSymbol, Inspect
    <3>3. QED
      BY <1>2, <2>1, <3>1, <3>2 DEF Late
  <2>9. CASE ValidateCycles
    <3>1. pc = "gpu" /\ pc' = "done" /\ UNCHANGED <<domain, pending, host>>
      BY <2>9 DEF ValidateCycles
    <3>2. errors' = {} => errors = {}
      BY <2>9 DEF ValidateCycles
    <3>3. QED
      BY <1>2, <2>1, <3>1, <3>2 DEF Late
  <2>10. CASE UNCHANGED vars
    BY <1>2, <2>1, <2>10 DEF vars, Late
  <2>11. QED
    BY <1>2, <2>2, <2>3, <2>4, <2>5, <2>6, <2>7, <2>8, <2>9, <2>10 DEF Next
<1>3. QED
  BY <1>1, <1>2, DeclaredKept, PTL DEF Spec

-----------------------------------------------------------------------------
\* The GPU pass.

\* What the inspection of some bodies adds, and what it rules out.
LEMMA InspectAdds ==
  ASSUME NEW bodies, Inspect(bodies)
  PROVE  /\ gpu \subseteq gpu'
         /\ \A d \in gpu' : d \in gpu \/ \E b \in bodies : d \in b.calls
         /\ errors' = {} =>
              errors = {} /\ \A b \in bodies : b.calls \subseteq gpu' /\ b.traits \cap NotOnGpu = {}
<1>1. gpu' = gpu \cup {d \in UNION {b.calls : b \in bodies} : domain[d] # "host"}
  BY DEF Inspect
<1>2. gpu \subseteq gpu' /\ \A d \in gpu' : d \in gpu \/ \E b \in bodies : d \in b.calls
  BY <1>1
<1>3. ASSUME errors' = {}
      PROVE  errors = {} /\ \A b \in bodies : GpuErrors(b) = {}
  BY <1>3 DEF Inspect
<1>4. ASSUME NEW b \in bodies, GpuErrors(b) = {}
      PROVE  b.calls \subseteq gpu' /\ b.traits \cap NotOnGpu = {}
  <2>1. {"E0404" : d \in {d \in b.calls : domain[d] = "host"}} = {}
    BY <1>4 DEF GpuErrors
  <2>2. b.calls \subseteq gpu'
    BY <1>1, <2>1
  <2>3. /\ {"E0402" : t \in b.traits \cap {"string"}} = {}
        /\ {"E0403" : t \in b.traits \cap {"dynamic"}} = {}
        /\ {"E0404" : t \in b.traits \cap HostOnly} = {}
    BY <1>4 DEF GpuErrors
  <2>4. \A t \in b.traits : t \notin {"string", "dynamic", "host builtin"}
    BY <2>3 DEF HostOnly
  <2>5. QED
    BY <2>2, <2>4 DEF NotOnGpu
<1>5. QED
  BY <1>2, <1>3, <1>4

LEMMA GpuPass == Spec => []GpuInv
<1>1. Init => GpuInv
  BY DEF Init, GpuInv
<1>2. ASSUME GpuInv, Declared, [Next]_vars
      PROVE  GpuInv'
  <2>1. /\ Calls' = Calls
        /\ \A t : Roots(t)' = Roots(t)
        /\ \A S, t : Closed(S, t)' = Closed(S, t)
        /\ \A S, t : BodiesOf(t, S)' = BodiesOf(t, S)
    <3>1. UNCHANGED module
      BY <1>2 DEF Next, vars, ResolveDomains, ValidateShaderPairs, ReachHost,
         ValidateReferences, ValidateHostGraph, InspectEntries, InspectSymbol,
         ValidateCycles
    <3>2. QED
      BY <3>1, SameModule
  <2>2. CASE ResolveDomains \/ ValidateShaderPairs \/ (\E s \in Symbols : ReachHost(s))
             \/ ValidateReferences \/ ValidateHostGraph
    BY <1>2, <2>1, <2>2 DEF GpuInv, ResolveDomains, ValidateShaderPairs, ReachHost,
       ValidateReferences, ValidateHostGraph
  <2>3. CASE InspectEntries
    <3> DEFINE bodies == {e.body : e \in EntriesOf("gpu")}
    <3>1. pc = "entries" /\ pc' = "gpu" /\ checked' = checked /\ Inspect(bodies)
      BY <2>3 DEF InspectEntries
    <3>2. gpu = {} /\ checked = {}
      BY <1>2, <3>1 DEF GpuInv
    <3>3. \A b \in bodies : b.calls \subseteq Roots("gpu")
      BY DEF Roots
    <3>4. Roots("gpu") \subseteq Symbols
      BY <1>2, RootsDeclared
    <3>5. BodiesOf("gpu", checked) = bodies
      BY <3>2 DEF BodiesOf
    <3>6. gpu' \subseteq Roots("gpu")
      BY <3>1, <3>2, <3>3, InspectAdds
    <3>7. errors' = {} => \A b \in bodies : Inspected(b)'
      BY <3>1, InspectAdds DEF Inspected
    <3>8. \A S \in SUBSET Symbols : Closed(S, "gpu") => gpu' \subseteq S
      BY <3>6 DEF Closed
    <3>9. QED
      BY <1>2, <2>1, <3>1, <3>2, <3>4, <3>5, <3>6, <3>7, <3>8 DEF GpuInv, Inspected
  <2>4. ASSUME NEW s \in Symbols, InspectSymbol(s)
        PROVE  GpuInv'
    <3>1. pc = "gpu" /\ pc' = pc /\ s \in gpu /\ checked' = checked \cup {s}
          /\ Inspect({Body(s)})
      BY <2>4 DEF InspectSymbol
    <3>2. Body(s).calls = Calls[s] /\ Calls[s] \subseteq Symbols
      BY <1>2 DEF Calls, Declared
    <3>3. \A d \in gpu' : d \in gpu \/ d \in Calls[s]
      BY <3>1, <3>2, InspectAdds
    <3>4. gpu \subseteq gpu'
      BY <3>1, InspectAdds
    <3>5. \A S \in SUBSET Symbols : Closed(S, "gpu") => gpu' \subseteq S
      BY <1>2, <3>1, <3>3 DEF Closed, GpuInv
    <3>6. errors' = {} => errors = {} /\ Inspected(Body(s))'
      BY <3>1, <2>4, InspectAdds DEF Inspected, InspectSymbol, Body
    <3>7. BodiesOf("gpu", checked') = BodiesOf("gpu", checked) \cup {Body(s)}
      BY <3>1 DEF BodiesOf
    <3>8. errors' = {} => \A b \in BodiesOf("gpu", checked') : b.calls \subseteq gpu' /\ b.traits \cap NotOnGpu = {}
      BY <1>2, <3>1, <3>4, <3>6, <3>7, InspectAdds DEF GpuInv, Inspected
    <3>9. QED
      BY <1>2, <2>1, <3>1, <3>2, <3>3, <3>4, <3>5, <3>8 DEF GpuInv, Inspected
  <2>5. CASE ValidateCycles
    <3>1. pc = "gpu" /\ pc' = "done" /\ gpu \subseteq checked /\ UNCHANGED <<gpu, checked>>
      BY <2>5 DEF ValidateCycles
    <3>2. errors' = {} => errors = {}
      BY <2>5 DEF ValidateCycles
    <3>3. QED
      BY <1>2, <2>1, <3>1, <3>2 DEF GpuInv, Inspected
  <2>6. CASE UNCHANGED vars
    BY <1>2, <2>1, <2>6 DEF vars, GpuInv, Inspected
  <2>7. QED
    BY <1>2, <2>2, <2>3, <2>4, <2>5, <2>6 DEF Next
<1>3. QED
  BY <1>1, <1>2, DeclaredKept, PTL DEF Spec

-----------------------------------------------------------------------------
\* What the search for the host's symbols comes to.
FoundForHost ==
  Accepted => /\ Closed(host, "host")
              /\ \A S \in SUBSET Symbols : Closed(S, "host") => host \subseteq S

LEMMA HostFound == Spec => []FoundForHost
<1>1. HostInv /\ Declared => FoundForHost
  <2> SUFFICES ASSUME HostInv, Declared, Accepted
               PROVE  /\ Closed(host, "host")
                      /\ \A S \in SUBSET Symbols : Closed(S, "host") => host \subseteq S
    BY DEF FoundForHost
  <2>1. pc = "done" /\ errors = {} /\ pending = {}
    BY DEF Accepted, HostInv, Late
  <2>2. \A b \in BodiesOf("host", host) : \A d \in b.calls : domain[d] # "gpu"
    BY <2>1 DEF HostInv, Late
  <2>3. \A d \in Roots("host") : domain[d] # "gpu"
    BY <2>2 DEF Roots, BodiesOf
  <2>4. \A s \in host : \A d \in Calls[s] : domain[d] # "gpu"
    BY <2>2 DEF BodiesOf, Calls, HostInv
  <2>5. Closed(host, "host")
    BY <2>1, <2>3, <2>4 DEF HostInv, Closed
  <2>6. QED
    BY <2>1, <2>5 DEF HostInv
<1>2. QED
  BY <1>1, HostPass, DeclaredKept, PTL

\* What the split keeps for the host has all that its entries and its own
\* symbols refer to, and nothing that neither an entry nor an initializer with an
\* effect needs.
THEOREM HostMinimal == Spec => []HostIsWhatIsNeeded
<1>1. FoundForHost => HostIsWhatIsNeeded
  BY DEF FoundForHost, HostIsWhatIsNeeded
<1> QED BY <1>1, HostFound, PTL

\* What it keeps for the GPU is the smallest set of symbols that its entries need
\* and that needs nothing else.
THEOREM GpuMinimal == Spec => []GpuIsWhatEntriesNeed
<1>1. GpuInv => GpuIsWhatEntriesNeed
  <2> SUFFICES ASSUME GpuInv, Accepted
               PROVE  /\ Closed(gpu, "gpu")
                      /\ \A S \in SUBSET Symbols : Closed(S, "gpu") => gpu \subseteq S
    BY DEF GpuIsWhatEntriesNeed
  <2>1. checked = gpu /\ gpu \subseteq Symbols
    BY DEF Accepted, GpuInv
  <2>2. \A b \in BodiesOf("gpu", gpu) : b.calls \subseteq gpu
    BY <2>1 DEF GpuInv, Inspected, Accepted
  <2>3. Roots("gpu") \subseteq gpu
    BY <2>2 DEF Roots, BodiesOf
  <2>4. \A s \in gpu : Calls[s] \subseteq gpu
    BY <2>1, <2>2 DEF BodiesOf, Calls
  <2>5. QED
    BY <2>3, <2>4 DEF Closed, GpuInv
<1>2. QED
  BY <1>1, GpuPass, PTL

\* In an accepted program no operation ends up on a target that lacks it.
THEOREM EachWhereItRuns == Spec => []RunsWhereItIs
<1>1. HostInv /\ GpuInv => RunsWhereItIs
  <2> SUFFICES ASSUME HostInv, GpuInv, Accepted
               PROVE  /\ \A b \in Emitted("host", host) : b.traits \cap GpuOnly = {}
                      /\ \A b \in Emitted("gpu", gpu) : b.traits \cap NotOnGpu = {}
    BY DEF RunsWhereItIs
  <2>1. Emitted("host", host) = BodiesOf("host", host)
        /\ Emitted("gpu", gpu) = BodiesOf("gpu", gpu)
    BY DEF Emitted, BodiesOf, Body
  <2>2. checked = gpu
    BY DEF Accepted, GpuInv
  <2>3. QED
    BY <2>1, <2>2 DEF HostInv, GpuInv, Accepted, Late, Inspected
<1>2. QED
  BY <1>1, HostPass, GpuPass, PTL

-----------------------------------------------------------------------------
\* The two passes together: which functions are reported.

WarnedInv ==
  /\ \A s \in Symbols : domain[s] \in Domains
  /\ \A s \in host : domain[s] # "gpu"
  /\ \A s \in gpu : domain[s] # "host"
  /\ warned = {s \in Functions \cap checked \cap host : domain[s] = "shared"}

LEMMA Warned == Spec => []WarnedInv
<1>1. Init => WarnedInv
  BY DEF Init, WarnedInv, Domains, Targets
<1>2. ASSUME WarnedInv, HostInv, GpuInv, [Next]_vars
      PROVE  WarnedInv'
  <2>1. CASE ResolveDomains
    <3>1. host = {} /\ gpu = {} /\ checked = {} /\ UNCHANGED <<host, gpu, checked, warned>>
      BY <1>2, <2>1 DEF ResolveDomains, HostInv, GpuInv
    <3>2. \A allowed, usage : ResolvedDomain(allowed, usage) \in Domains
      <4> SUFFICES ASSUME NEW allowed, NEW usage
                   PROVE  ResolvedDomain(allowed, usage) \in Domains
        OBVIOUS
      <4>1. CASE \E t \in Targets : allowed = {t}
        BY <4>1 DEF ResolvedDomain, Domains
      <4>2. CASE ~(\E t \in Targets : allowed = {t}) /\ \E t \in Targets : usage = {t}
        BY <4>2 DEF ResolvedDomain, Domains
      <4>3. CASE ~(\E t \in Targets : allowed = {t}) /\ ~(\E t \in Targets : usage = {t})
        BY <4>3 DEF ResolvedDomain, Domains
      <4>4. QED
        BY <4>1, <4>2, <4>3
    <3>3. \A s \in Symbols : domain'[s] \in Domains
      BY <2>1, <3>2 DEF ResolveDomains
    <3>4. QED
      BY <1>2, <3>1, <3>3 DEF WarnedInv
  <2>2. CASE ValidateShaderPairs \/ ValidateReferences \/ ValidateHostGraph \/ ValidateCycles
    BY <1>2, <2>2 DEF WarnedInv, ValidateShaderPairs, ValidateReferences,
       ValidateHostGraph, ValidateCycles
  <2>3. ASSUME NEW s \in Symbols, ReachHost(s)
        PROVE  WarnedInv'
    <3>1. pc = "reach" /\ UNCHANGED <<domain, gpu, checked, warned>>
          /\ host' = IF domain[s] # "gpu" /\ s \notin host THEN host \cup {s} ELSE host
      BY <2>3 DEF ReachHost
    <3>2. checked = {} /\ warned = {}
      BY <1>2, <3>1 DEF GpuInv, WarnedInv
    <3>3. QED
      BY <1>2, <3>1, <3>2 DEF WarnedInv
  <2>4. CASE InspectEntries
    <3>1. UNCHANGED <<domain, host, checked, warned>>
          /\ gpu' = gpu \cup {d \in UNION {b.calls : b \in {e.body : e \in EntriesOf("gpu")}} : domain[d] # "host"}
      BY <2>4 DEF InspectEntries, Inspect
    <3>2. QED
      BY <1>2, <3>1 DEF WarnedInv
  <2>5. ASSUME NEW s \in Symbols, InspectSymbol(s)
        PROVE  WarnedInv'
    <3>1. UNCHANGED <<domain, host>> /\ checked' = checked \cup {s}
          /\ gpu' = gpu \cup {d \in UNION {b.calls : b \in {Body(s)}} : domain[d] # "host"}
          /\ warned' = IF s \in Functions /\ domain[s] = "shared" /\ s \in host
                       THEN warned \cup {s} ELSE warned
      BY <2>5 DEF InspectSymbol, Inspect
    <3>2. QED
      BY <1>2, <3>1 DEF WarnedInv
  <2>6. CASE UNCHANGED vars
    BY <1>2, <2>6 DEF vars, WarnedInv
  <2>7. QED
    BY <1>2, <2>1, <2>2, <2>3, <2>4, <2>5, <2>6 DEF Next
<1>3. QED
  BY <1>1, <1>2, HostPass, GpuPass, PTL DEF Spec

\* The functions reported are those an accepted program has on both targets.
THEOREM BothReported == Spec => []TwoPrecisionsAreReported
<1>1. WarnedInv /\ HostInv /\ GpuInv => TwoPrecisionsAreReported
  <2> SUFFICES ASSUME WarnedInv, HostInv, GpuInv, Accepted
               PROVE  warned = Functions \cap host \cap gpu
    BY DEF TwoPrecisionsAreReported
  <2>1. checked = gpu
    BY DEF Accepted, GpuInv
  <2>2. \A s \in host \cap gpu : domain[s] = "shared"
    BY DEF WarnedInv, HostInv, Domains, Targets
  <2>3. QED
    BY <2>1, <2>2 DEF WarnedInv
<1>2. QED
  BY <1>1, Warned, HostPass, GpuPass, PTL

\* Types are kept.
THEOREM TypeCorrect == Spec => []TypeOK
<1>1. Init => TypeOK
  BY DEF Init, TypeOK, Domains, Targets
<1>2. ASSUME TypeOK, HostInv', GpuInv', WarnedInv', [Next]_vars
      PROVE  TypeOK'
  <2>1. /\ host' \subseteq Symbols /\ pending' \subseteq Symbols
        /\ gpu' \subseteq Symbols /\ checked' \subseteq gpu'
        /\ warned' \subseteq Functions \cap checked'
    BY <1>2 DEF HostInv, GpuInv, WarnedInv
  <2>2. pc' \in {"resolve", "pairs", "reach", "host", "entries", "gpu", "done"}
    BY <1>2 DEF TypeOK, Next, vars, ResolveDomains, ValidateShaderPairs, ReachHost,
       ValidateReferences, ValidateHostGraph, InspectEntries, InspectSymbol,
       ValidateCycles
  <2>3. domain' \in [Symbols -> Domains]
    <3>1. (\E f : domain' = [s \in Symbols |-> f[s]]) \/ domain' = domain
      BY <1>2 DEF Next, vars, ResolveDomains, ValidateShaderPairs, ReachHost,
         ValidateReferences, ValidateHostGraph, InspectEntries, InspectSymbol,
         ValidateCycles
    <3>2. \A s \in Symbols : domain'[s] \in Domains
      BY <1>2 DEF WarnedInv
    <3>3. QED
      BY <1>2, <3>1, <3>2 DEF TypeOK
  <2>4. gpuStructs' \subseteq Structs
    <3>1. \A types : StructsIn(types) \subseteq Structs
      BY DEF StructsIn, ReachableFrom
    <3>2. gpuStructs' = gpuStructs \/ \E types : gpuStructs' = gpuStructs \cup StructsIn(types)
      BY <1>2 DEF Next, vars, ResolveDomains, ValidateShaderPairs, ReachHost,
         ValidateReferences, ValidateHostGraph, InspectEntries, InspectSymbol,
         ValidateCycles, Inspect
    <3>3. QED
      BY <1>2, <3>1, <3>2 DEF TypeOK
  <2>5. errors' \subseteq {"E0401", "E0402", "E0403", "E0404", "E0405", "E0406", "E0501"}
    <3> DEFINE Codes == {"E0401", "E0402", "E0403", "E0404", "E0405", "E0406", "E0501"}
    <3>1. \A types : TypeErrors(types) \subseteq Codes
      BY DEF TypeErrors
    <3>2. \A b : GpuErrors(b) \subseteq Codes
      BY <3>1 DEF GpuErrors
    <3>3. ASSUME NEW bodies, Inspect(bodies)
          PROVE  errors' \subseteq Codes
      BY <1>2, <3>2, <3>3 DEF Inspect, TypeOK
    <3>4. CASE (\E s \in Symbols : InspectSymbol(s)) \/ InspectEntries
      BY <3>3, <3>4 DEF InspectSymbol, InspectEntries
    <3>5. CASE ValidateShaderPairs
      BY <1>2, <3>5 DEF ValidateShaderPairs, TypeOK
    <3>6. CASE ValidateReferences
      BY <1>2, <3>6 DEF ValidateReferences, MaterialErrors, TypeOK
    <3>7. CASE ValidateHostGraph
      <4>1. \A b : HostErrors(b) \subseteq Codes
        BY DEF HostErrors
      <4>2. QED
        BY <1>2, <3>7, <4>1 DEF ValidateHostGraph, TypeOK
    <3>8. CASE ValidateCycles
      BY <1>2, <3>8 DEF ValidateCycles, TypeOK
    <3>9. CASE ResolveDomains \/ (\E s \in Symbols : ReachHost(s)) \/ UNCHANGED vars
      BY <1>2, <3>9 DEF ResolveDomains, ReachHost, vars, TypeOK
    <3>10. QED
      BY <1>2, <3>4, <3>5, <3>6, <3>7, <3>8, <3>9 DEF Next
  <2>6. QED
    BY <2>1, <2>2, <2>3, <2>4, <2>5 DEF TypeOK
<1>3. QED
  BY <1>1, <1>2, HostPass, GpuPass, Warned, PTL DEF Spec

-----------------------------------------------------------------------------
\* The textures in the build are recorded before the rest of the module is
\* checked, and are right in the end because the host program stays as it is.
AssetsInv ==
  /\ pc \in {"resolve", "pairs", "reach"} => assets = {}
  /\ pc \in {"host"} \cup Late =>
       \A p : p \in assets <=> /\ p \notin Unusable
                            /\ \E b \in BodiesOf("host", host) : p \in b.textures
  /\ pc \in {"host"} \cup Late /\ errors = {} =>
       \A b \in BodiesOf("host", host) : b.textures \cap Unusable = {}

LEMMA AssetsKept == Spec => []AssetsInv
<1>1. Init => AssetsInv
  BY DEF Init, AssetsInv, Late
<1>2. ASSUME AssetsInv, [Next]_vars
      PROVE  AssetsInv'
  <2>1. \A S, t : BodiesOf(t, S)' = BodiesOf(t, S)
    <3>1. UNCHANGED module
      BY <1>2 DEF Next, vars, ResolveDomains, ValidateShaderPairs, ReachHost,
         ValidateReferences, ValidateHostGraph, InspectEntries, InspectSymbol,
         ValidateCycles
    <3>2. QED
      BY <3>1, SameModule
  <2>2. CASE ResolveDomains \/ ValidateShaderPairs \/ \E s \in Symbols : ReachHost(s)
    BY <1>2, <2>2 DEF ResolveDomains, ValidateShaderPairs, ReachHost, AssetsInv, Late
  <2>3. CASE ValidateReferences
    <3> DEFINE textures == UNION {b.textures : b \in BodiesOf("host", host)}
    <3>1. pc' = "host" /\ host' = host /\ assets' = textures \ Unusable
      BY <2>3 DEF ValidateReferences, Textures
    <3>2. errors' = {} => {"E0501" : t \in textures \cap Unusable} = {}
      BY <2>3 DEF ValidateReferences, Textures
    <3>3. errors' = {} => textures \cap Unusable = {}
      BY <3>2
    <3>4. \A b \in BodiesOf("host", host) : b.textures \subseteq textures
      OBVIOUS
    <3>5. \A p \in textures : \E b \in BodiesOf("host", host) : p \in b.textures
      OBVIOUS
    <3>6. (\A b \in BodiesOf("host", host) : b.textures \cap Unusable = {})
            \/ errors' # {}
      BY <3>3, <3>4
    <3>7. \A p : p \in assets' <=> /\ p \notin Unusable
                                 /\ \E b \in BodiesOf("host", host) : p \in b.textures
      BY <3>1, <3>4, <3>5
    <3> HIDE DEF textures
    <3>8. QED
      BY <2>1, <3>1, <3>6, <3>7 DEF AssetsInv, Late
  <2>4. CASE \/ ValidateHostGraph \/ InspectEntries \/ ValidateCycles
             \/ \E s \in Symbols : InspectSymbol(s)
    <3>1. /\ UNCHANGED <<host, assets>> /\ (errors' = {} => errors = {})
          /\ pc \in {"host"} \cup Late
      BY <2>4 DEF ValidateHostGraph, InspectEntries, ValidateCycles, InspectSymbol,
         Inspect, Late
    <3>2. pc' \in {"host"} \cup Late
      BY <2>4 DEF ValidateHostGraph, InspectEntries, ValidateCycles, InspectSymbol, Late
    <3>3. QED
      BY <1>2, <2>1, <3>1, <3>2 DEF AssetsInv, Late
  <2>5. CASE UNCHANGED vars
    BY <1>2, <2>1, <2>5 DEF vars, AssetsInv, Late
  <2>6. QED
    BY <1>2, <2>2, <2>3, <2>4, <2>5 DEF Next
<1>3. QED
  BY <1>1, <1>2, PTL DEF Spec

\* The build ships the textures the host program can ask for, and no others.
THEOREM AssetsExact == Spec => []AssetsAreWhatTheHostLoads
<1>1. AssetsInv => AssetsAreWhatTheHostLoads
  <2> SUFFICES ASSUME AssetsInv, Accepted
               PROVE  assets = UNION {b.textures : b \in Emitted("host", host)}
    BY DEF AssetsAreWhatTheHostLoads
  <2>1. Emitted("host", host) = BodiesOf("host", host)
    BY DEF Emitted, BodiesOf, Body
  <2>2. \A b \in BodiesOf("host", host) : b.textures \cap Unusable = {}
    BY DEF AssetsInv, Accepted, Late
  <2>3. \A p : p \in assets <=> \E b \in BodiesOf("host", host) : p \in b.textures
    BY <2>2 DEF AssetsInv, Accepted, Late
  <2>4. assets = UNION {b.textures : b \in BodiesOf("host", host)}
    BY <2>3
  <2>5. QED
    BY <2>1, <2>4
<1>2. QED
  BY <1>1, AssetsKept, PTL

\* The parts and assets of an accepted program are what it needs
\* (split.rs:225-330, 372-420).
THEOREM PartsExact == Spec => []PartsAreWhatIsNeeded
<1>1. HostIsWhatIsNeeded /\ GpuIsWhatEntriesNeed /\ AssetsAreWhatTheHostLoads
        => PartsAreWhatIsNeeded
  BY DEF PartsAreWhatIsNeeded
<1> QED BY <1>1, HostMinimal, GpuMinimal, AssetsExact, PTL

-----------------------------------------------------------------------------
(* domain.rs: what the passes over the components compute.                 *)

LEMMA CallsGraph ==
  ASSUME Declared
  PROVE  Graph(Calls) /\ DOMAIN Calls = Symbols
<1>1. DOMAIN Calls = Symbols
  BY DEF Calls
<1>2. Symbols \subseteq Nat
  BY SizesAssumption DEF Symbols, Functions, Constants
<1>3. IsFiniteSet(Symbols)
  <2>1. 1 \in Int /\ NF \in Int /\ NF + 1 \in Int /\ NF + NC \in Int
    BY SizesAssumption
  <2>2. IsFiniteSet(1 .. NF) /\ IsFiniteSet(NF + 1 .. NF + NC)
    BY <2>1, FS_Interval
  <2> QED BY <2>2, FS_Union DEF Symbols, Functions, Constants
<1> QED BY <1>1, <1>2, <1>3 DEF Graph, Declared

\* Where a symbol can run with all that it leads to.
AllowedOf(s) == {t \in Targets : \A r \in From(Calls, s) : t \in OwnAllowed(r)}

\* The components in the order of the algorithm: all symbols, dependencies first.
Layered(components) ==
  /\ InOrder(Calls, components)
  /\ UNION ToSet(components) = Symbols

AllowedInv(components, a, n) ==
  /\ a \in [Symbols -> SUBSET Targets]
  /\ \A s \in Symbols :
       /\ (\E i \in 1 .. n : s \in components[i]) => a[s] = AllowedOf(s)
       /\ ~(\E i \in 1 .. n : s \in components[i]) => a[s] = OwnAllowed(s)

LEMMA InSomeLayer ==
  ASSUME NEW components, Layered(components), NEW s \in Symbols
  PROVE  \E i \in 1 .. Len(components) : s \in components[i]
<1>1. ToSet(components) = {components[i] : i \in 1 .. Len(components)}
  BY ToSetFacts DEF Layered, InOrder
<1> QED BY <1>1 DEF Layered

LEMMA MeetStep ==
  ASSUME Declared, NEW components, Layered(components),
         NEW n \in 1 .. Len(components), NEW a, AllowedInv(components, a, n - 1)
  PROVE  AllowedInv(components, Meet(a, components[n]), n)
<1> DEFINE c == components[n]
           all == (UNION {Calls[s] : s \in c}) \cup c
           common == {t \in Targets : \A s \in all : t \in a[s]}
<1>1. Graph(Calls) /\ DOMAIN Calls = Symbols
  BY CallsGraph
<1>2. /\ components \in Seq(SUBSET Symbols) /\ Len(components) \in Nat /\ n \in Nat
      /\ c \in SUBSET Symbols
  BY <1>1 DEF Layered, InOrder
<1>3. \A i \in 1 .. n - 1 : i \in 1 .. Len(components) /\ i < n
  BY <1>2
<1>4. PICK x0 \in Symbols : c = Together(Calls, x0)
  BY <1>1 DEF Layered, InOrder
<1>5. \A s \in c : c = Together(Calls, s) /\ From(Calls, s) = From(Calls, x0)
  BY <1>1, <1>4, TogetherFacts
<1>6. Meet(a, c) = [s \in Symbols |-> IF s \in c THEN common ELSE a[s]]
  BY DEF Meet
<1>7. \A x \in c : a[x] = OwnAllowed(x)
  <2>1. ASSUME NEW x \in c, NEW i \in 1 .. n - 1 PROVE x \notin components[i]
    BY <1>3, <2>1 DEF Layered, InOrder
  <2> QED BY <1>2, <2>1 DEF AllowedInv
<1>8. ASSUME NEW s \in c, NEW x \in Calls[s], x \notin c
      PROVE  a[x] = AllowedOf(x) /\ x \in Symbols
  <2>1. x \in Symbols
    BY <1>1, <1>2 DEF Graph
  <2>2. PICK j \in 1 .. Len(components) : x \in components[j]
    BY <2>1, InSomeLayer
  <2>3. ~(n < j)
    BY <1>8, <2>2 DEF Layered, InOrder
  <2>4. j # n
    BY <1>8, <2>2
  <2>5. j \in 1 .. n - 1
    BY <1>2, <2>3, <2>4
  <2> QED BY <2>1, <2>2, <2>5 DEF AllowedInv
<1>9. all \subseteq Symbols
  BY <1>1, <1>2 DEF Graph
<1> HIDE DEF c, all
<1>10. ASSUME NEW s \in c PROVE common = AllowedOf(s)
  <2>1. s \in Symbols
    BY <1>2
  <2>2. ASSUME NEW x \in all PROVE x \in From(Calls, s) /\ From(Calls, x) \subseteq From(Calls, s)
    <3>1. CASE x \in c
      <4>1. x \in From(Calls, s)
        BY <1>5, <3>1 DEF Together
      <4> QED BY <1>1, <2>1, <4>1, FromTransitive
    <3>2. CASE x \notin c
      <4>1. PICK y \in c : x \in Calls[y]
        BY <3>2 DEF all
      <4>2. y \in From(Calls, s)
        BY <1>5, <4>1 DEF Together
      <4>3. x \in From(Calls, s)
        BY <1>1, <2>1, <4>1, <4>2, FromFacts
      <4> QED BY <1>1, <2>1, <4>3, FromTransitive
    <3> QED BY <3>1, <3>2
  <2>3. ASSUME NEW x \in all PROVE \/ x \in c /\ a[x] = OwnAllowed(x)
                                   \/ x \notin c /\ a[x] = AllowedOf(x)
    BY <1>7, <1>8 DEF all
  <2>4. ASSUME NEW t \in AllowedOf(s) PROVE t \in common
    <3>1. t \in Targets
      BY DEF AllowedOf
    <3>2. ASSUME NEW x \in all PROVE t \in a[x]
      <4>1. t \in OwnAllowed(x) /\ t \in AllowedOf(x)
        BY <2>2, <3>1 DEF AllowedOf
      <4> QED BY <2>3, <4>1
    <3> QED BY <3>1, <3>2
  <2>5. ASSUME NEW t \in common, NEW r \in From(Calls, s) PROVE t \in OwnAllowed(r)
    <3> DEFINE S == {y \in Symbols : y \in c \/ \E x \in all : x \notin c /\ y \in From(Calls, x)}
    <3>1. S \in SUBSET Symbols /\ s \in S
      BY <2>1
    <3>2. ASSUME NEW y \in S, NEW z \in Calls[y] PROVE z \in S
      <4>1. z \in Symbols
        BY <1>1 DEF Graph
      <4>2. CASE y \in c
        <5>1. z \in all
          BY <4>2 DEF all
        <5>2. z \in From(Calls, z)
          BY <1>1, <4>1, FromFacts
        <5> QED BY <4>1, <5>1, <5>2
      <4>3. CASE y \notin c
        <5>1. PICK x \in all : x \notin c /\ y \in From(Calls, x)
          BY <3>2, <4>3
        <5>2. z \in From(Calls, x)
          BY <1>1, <1>9, <5>1, FromFacts
        <5> QED BY <4>1, <5>1, <5>2
      <4> QED BY <4>2, <4>3
    <3> HIDE DEF S
    <3>3. From(Calls, s) \subseteq S
      BY <1>1, <2>1, <3>1, <3>2, FromFacts
    <3>4. r \in S
      BY <2>5, <3>3
    <3>5. \A x \in all : t \in a[x]
      BY <2>5
    <3>6. CASE r \in c
      <4>1. r \in all
        BY <3>6 DEF all
      <4> QED BY <1>7, <3>5, <3>6, <4>1
    <3>7. CASE r \notin c
      <4>1. PICK x \in all : x \notin c /\ r \in From(Calls, x)
        BY <3>4, <3>7 DEF S
      <4>2. t \in AllowedOf(x)
        BY <2>3, <3>5, <4>1
      <4> QED BY <4>1, <4>2 DEF AllowedOf
    <3> QED BY <3>6, <3>7
  <2>6. common \subseteq AllowedOf(s)
    <3>1. \A t \in common : t \in Targets
      OBVIOUS
    <3> HIDE DEF common
    <3> QED BY <2>5, <3>1 DEF AllowedOf
  <2> QED BY <2>4, <2>6
<1>11. common \in SUBSET Targets
  OBVIOUS
<1> HIDE DEF common
<1>12. Meet(a, c) \in [Symbols -> SUBSET Targets]
  BY <1>6, <1>11 DEF AllowedInv
<1>13. 1 .. n = (1 .. n - 1) \cup {n}
  BY <1>2
<1>14. \A s \in Symbols : (\E i \in 1 .. n : s \in components[i])
                             <=> (\E i \in 1 .. n - 1 : s \in components[i]) \/ s \in c
  BY <1>13 DEF c
<1>15. ASSUME NEW s \in Symbols
       PROVE  /\ (\E i \in 1 .. n : s \in components[i]) => Meet(a, c)[s] = AllowedOf(s)
              /\ ~(\E i \in 1 .. n : s \in components[i]) => Meet(a, c)[s] = OwnAllowed(s)
  <2>1. CASE s \in c
    BY <1>6, <1>10, <1>14, <2>1
  <2>2. CASE s \notin c
    BY <1>6, <1>14, <2>2 DEF AllowedInv
  <2> QED BY <2>1, <2>2
<1>16. AllowedInv(components, Meet(a, c), n)
  BY <1>12, <1>15 DEF AllowedInv
<1> QED BY <1>16 DEF c

\* What the pass over the components computes is what is said of the whole graph.
LEMMA AllowedRight ==
  ASSUME Declared, NEW components, Layered(components), NEW s \in Symbols
  PROVE  Allowed(components)[s] = AllowedOf(s)
<1> DEFINE N == Len(components)
           V == [Symbols -> SUBSET Targets]
           base == [x \in Symbols |-> OwnAllowed(x)]
           Is(f) == f = [n \in 0 .. N |-> IF n = 0 THEN base ELSE Meet(f[n - 1], components[n])]
           met == CHOOSE f : Is(f)
<1>1. Allowed(components) = met[N]
  BY DEF Allowed
<1>2. base \in V
  BY DEF OwnAllowed
<1>3. N \in Nat
  BY DEF Layered, InOrder
<1> HIDE DEF N
<1>4. \A n \in 0 .. N : n # 0 => n \in 1 .. N
  BY <1>3
<1>5. \E f : Is(f)
  <2> DEFINE Step == [n \in 1 .. N |-> [a \in V |-> Meet(a, components[n])]]
  <2>1. \A a \in V : \A c : Meet(a, c) \in V
    BY DEF Meet
  <2>2. Steps(N, V, Step)
    BY <2>1 DEF Steps
  <2> HIDE DEF Step, V, base
  <2>3. PICK g : Iterates(N, V, base, Step, g)
    BY <1>2, <1>3, <2>2, Iteration
  <2>4. ASSUME NEW n \in 1 .. N PROVE g[n] = Meet(g[n - 1], components[n])
    <3>1. n - 1 \in 0 .. N
      BY <1>3
    <3>2. g[n - 1] \in V
      BY <2>3, <3>1 DEF Iterates
    <3> QED BY <2>3, <3>2 DEF Step, Iterates
  <2>5. Is(g)
    BY <1>4, <2>3, <2>4 DEF Iterates
  <2> QED BY <2>5
<1>6. Is(met)
  BY <1>5
<1> HIDE DEF met, V
<1>7. met[0] = base /\ \A n \in 1 .. N : met[n] = Meet(met[n - 1], components[n])
  BY <1>3, <1>6
<1> DEFINE Known == {n \in 0 .. N : AllowedInv(components, met[n], n)}
<1>8. 0 \in Known
  <2>1. AllowedInv(components, base, 0)
    BY <1>2 DEF AllowedInv, V
  <2> QED BY <1>3, <1>7, <2>1
<1>9. ASSUME NEW n \in 1 .. N, n - 1 \in Known PROVE n \in Known
  <2>1. n \in 0 .. N /\ n \in 1 .. Len(components)
    BY <1>3 DEF N
  <2>2. AllowedInv(components, met[n - 1], n - 1)
    BY <1>9
  <2>3. AllowedInv(components, Meet(met[n - 1], components[n]), n)
    BY <2>1, <2>2, MeetStep
  <2> QED BY <1>7, <2>1, <2>3
<1> HIDE DEF Known, base
<1>10. \A n \in 1 .. N : n - 1 \in Known => n \in Known
  BY <1>9
<1>11. \A n \in 0 .. N : n \in Known
  BY <1>3, <1>8, <1>10, InductUpTo
<1>12. AllowedInv(components, met[N], N)
  BY <1>3, <1>11 DEF Known
<1>13. \E i \in 1 .. N : s \in components[i]
  BY InSomeLayer DEF N
<1> QED BY <1>1, <1>12, <1>13 DEF AllowedInv

\* The targets that need a symbol.
UsageOf(s) == {t \in Targets : s \in Needs(t)}

\* Components from dependents to dependencies: none refers to one that comes before.
DependentsFirst(order) ==
  /\ order \in Seq(SUBSET Symbols)
  /\ \A s \in Symbols : \E i \in 1 .. Len(order) : s \in order[i]
  /\ \A i \in 1 .. Len(order) : \E x \in Symbols : order[i] = Together(Calls, x)
  /\ \A i, j \in 1 .. Len(order) : i < j =>
       /\ order[i] \cap order[j] = {}
       /\ \A x \in order[j] : Calls[x] \cap order[i] = {}

Before(order, n) == {s \in Symbols : \E i \in 1 .. n : s \in order[i]}

UsageInv(order, u, n) ==
  /\ u \in [Symbols -> SUBSET Targets]
  /\ \A s \in Before(order, n) : u[s] = UsageOf(s)
  /\ \A s \in Symbols \ Before(order, n) :
       u[s] = {t \in Targets : \/ s \in Roots(t)
                              \/ \E d \in Before(order, n) : s \in Calls[d] /\ d \in Needs(t)}

LEMMA ReverseLayers ==
  ASSUME Declared, NEW components, Layered(components)
  PROVE  DependentsFirst(Reverse(components))
<1> DEFINE l == Len(components)
           r == [i \in 1 .. l |-> components[l - i + 1]]
<1>1. r = Reverse(components)
  BY DEF Reverse
<1>2. components \in Seq(SUBSET Symbols) /\ l \in Nat /\ DOMAIN Calls = Symbols
  BY CallsGraph DEF Layered, InOrder
<1>3. \A i \in 1 .. l : l - i + 1 \in 1 .. l /\ l - (l - i + 1) + 1 = i
  BY <1>2
<1>4. r \in Seq(SUBSET Symbols) /\ Len(r) = l
  BY <1>2, <1>3
<1>5. \A i \in 1 .. l : r[i] = components[l - i + 1] /\ r[l - i + 1] = components[i]
  BY <1>3
<1> HIDE DEF r
<1>6. \A s \in Symbols : \E i \in 1 .. l : s \in r[i]
  BY <1>3, <1>5, InSomeLayer
<1>7. \A i \in 1 .. l : \E x \in Symbols : r[i] = Together(Calls, x)
  BY <1>2, <1>3, <1>5 DEF Layered, InOrder
<1>8. ASSUME NEW i \in 1 .. l, NEW j \in 1 .. l, i < j
      PROVE  r[i] \cap r[j] = {} /\ \A x \in r[j] : Calls[x] \cap r[i] = {}
  <2>1. l - j + 1 < l - i + 1
    BY <1>2, <1>8
  <2>2. /\ components[l - j + 1] \cap components[l - i + 1] = {}
        /\ \A x \in components[l - j + 1] : Calls[x] \cap components[l - i + 1] = {}
    BY <1>3, <2>1 DEF Layered, InOrder
  <2> QED BY <1>5, <2>2
<1> QED BY <1>1, <1>4, <1>6, <1>7, <1>8 DEF DependentsFirst

LEMMA NeedsFacts ==
  ASSUME Declared, NEW t
  PROVE  /\ Needs(t) \subseteq Symbols
         /\ Roots(t) \subseteq Needs(t)
         /\ \A s \in Needs(t) : Calls[s] \subseteq Needs(t)
         /\ \A S \in SUBSET Symbols :
              Roots(t) \subseteq S /\ (\A s \in S : Calls[s] \subseteq S) => Needs(t) \subseteq S
         /\ \A s \in Needs(t) : From(Calls, s) \subseteq Needs(t)
<1>1. Graph(Calls) /\ DOMAIN Calls = Symbols /\ Roots(t) \subseteq Symbols
  BY CallsGraph, RootsDeclared
<1>2. /\ Needs(t) \subseteq Symbols
      /\ Roots(t) \subseteq Needs(t)
      /\ \A s \in Needs(t) : Calls[s] \subseteq Needs(t)
      /\ \A S \in SUBSET Symbols :
              Roots(t) \subseteq S /\ (\A s \in S : Calls[s] \subseteq S) => Needs(t) \subseteq S
  BY <1>1, Least DEF Needs, Graph
<1>3. \A s \in Needs(t) : From(Calls, s) \subseteq Needs(t)
  BY <1>1, <1>2, FromFacts
<1> QED BY <1>2, <1>3

LEMMA SpreadStep ==
  ASSUME Declared, NEW order, DependentsFirst(order),
         NEW n \in 1 .. Len(order), NEW u, UsageInv(order, u, n - 1)
  PROVE  UsageInv(order, Spread(u, order[n]), n)
<1> DEFINE c == order[n]
           P == Before(order, n - 1)
           here == UNION {u[s] : s \in c}
<1>1. Graph(Calls) /\ DOMAIN Calls = Symbols
  BY CallsGraph
<1>2. Len(order) \in Nat /\ n \in Nat /\ c \in SUBSET Symbols /\ P \in SUBSET Symbols
  BY DEF DependentsFirst, Before
<1>3. 1 .. n = (1 .. n - 1) \cup {n}
  BY <1>2
<1>4. Before(order, n) = P \cup c
  BY <1>2, <1>3 DEF Before
<1>5. \A i \in 1 .. n - 1 : i \in 1 .. Len(order) /\ i < n
  BY <1>2
<1>6. c \cap P = {} /\ \A d \in c : Calls[d] \cap P = {}
  BY <1>5 DEF DependentsFirst, Before
<1>7. PICK x0 \in Symbols : c = Together(Calls, x0)
  BY DEF DependentsFirst
<1>8. \A s \in c : c = Together(Calls, s)
  BY <1>1, <1>7, TogetherFacts
<1>9. ASSUME NEW y \in Symbols, NEW z \in c, z \in Calls[y] PROVE y \in P \cup c
  <2>1. PICK j \in 1 .. Len(order) : y \in order[j]
    BY DEF DependentsFirst
  <2>2. ~(n < j)
    BY <1>9, <2>1 DEF DependentsFirst
  <2>3. j \in 1 .. n
    BY <1>2, <2>1, <2>2
  <2> QED BY <1>4, <2>1, <2>3 DEF Before
<1>10. \A s \in Symbols : Spread(u, c)[s] =
          IF s \in c THEN here
          ELSE IF \E d \in c : s \in Calls[d] THEN u[s] \cup here ELSE u[s]
  BY DEF Spread
<1>11. here \in SUBSET Targets
  BY <1>2 DEF UsageInv
<1>12. Spread(u, c) \in [Symbols -> SUBSET Targets]
  BY <1>11 DEF Spread, UsageInv
<1>13. \A s \in c : u[s] = {t \in Targets : \/ s \in Roots(t)
                                          \/ \E d \in P : s \in Calls[d] /\ d \in Needs(t)}
  BY <1>2, <1>6 DEF UsageInv
<1>14. \A t : t \in here <=> \E s \in c : t \in u[s]
  OBVIOUS
<1> HIDE DEF c, P, here
<1>15. ASSUME NEW s \in c PROVE here = UsageOf(s)
  <2>1. ASSUME NEW t \in here PROVE t \in UsageOf(s)
    <3>1. PICK x \in c : t \in u[x]
      BY <1>14
    <3>2. t \in Targets /\ x \in Needs(t)
      BY <1>13, <3>1, NeedsFacts
    <3>3. s \in From(Calls, x)
      BY <1>8 DEF Together
    <3> QED BY <3>2, <3>3, NeedsFacts DEF UsageOf
  <2>2. ASSUME NEW t \in UsageOf(s), t \notin here PROVE FALSE
    <3> DEFINE S == Needs(t) \ c
    <3>1. t \in Targets /\ s \in Needs(t)
      BY <2>2 DEF UsageOf
    <3>2. \A x \in c : t \notin u[x]
      BY <1>14, <2>2
    <3>3. Roots(t) \subseteq S
      BY <1>13, <3>1, <3>2, NeedsFacts
    <3>4. ASSUME NEW y \in S, NEW z \in Calls[y] PROVE z \in S
      <4>1. y \in Needs(t) /\ y \notin c /\ y \in Symbols /\ z \in Needs(t)
        BY <3>4, NeedsFacts
      <4>2. ASSUME z \in c PROVE FALSE
        <5>1. y \in P
          BY <1>9, <4>1, <4>2
        <5>2. t \in u[z]
          BY <1>13, <3>1, <4>1, <4>2, <5>1
        <5> QED BY <3>2, <4>2, <5>2
      <4> QED BY <4>1, <4>2
    <3>5. S \in SUBSET Symbols
      BY NeedsFacts
    <3> HIDE DEF S
    <3>6. Needs(t) \subseteq S
      BY <3>3, <3>4, <3>5, NeedsFacts
    <3> QED BY <1>15, <3>1, <3>6 DEF S
  <2>3. here \subseteq UsageOf(s)
    BY <2>1
  <2>4. UsageOf(s) \subseteq here
    BY <2>2
  <2> QED BY <2>3, <2>4
<1>16. \A s \in P : Spread(u, c)[s] = UsageOf(s)
  BY <1>2, <1>6, <1>10 DEF UsageInv, P
<1>17. ASSUME NEW s \in Symbols, s \notin P, s \notin c
       PROVE  Spread(u, c)[s] = {t \in Targets :
                 \/ s \in Roots(t)
                 \/ \E d \in P \cup c : s \in Calls[d] /\ d \in Needs(t)}
  <2>1. u[s] = {t \in Targets : \/ s \in Roots(t)
                               \/ \E d \in P : s \in Calls[d] /\ d \in Needs(t)}
    BY <1>17 DEF UsageInv, P
  <2>2. \A d \in c : here = {t \in Targets : d \in Needs(t)}
    BY <1>15 DEF UsageOf
  <2>3. CASE \E d \in c : s \in Calls[d]
    BY <1>10, <1>17, <2>1, <2>2, <2>3
  <2>4. CASE ~ \E d \in c : s \in Calls[d]
    BY <1>10, <1>17, <2>1, <2>4
  <2> QED BY <2>3, <2>4
<1>18. \A s \in c : Spread(u, c)[s] = UsageOf(s)
  BY <1>2, <1>10, <1>15
<1>19. UsageInv(order, Spread(u, c), n)
  BY <1>4, <1>12, <1>16, <1>17, <1>18 DEF UsageInv
<1> QED BY <1>19 DEF c

LEMMA UsageRight ==
  ASSUME Declared, NEW components, Layered(components), NEW s \in Symbols
  PROVE  Usage(components)[s] = UsageOf(s)
<1> DEFINE order == Reverse(components)
           N == Len(order)
           V == [Symbols -> SUBSET Targets]
           base == [x \in Symbols |-> {t \in Targets : x \in Roots(t)}]
           Is(f) == f = [n \in 0 .. N |-> IF n = 0 THEN base ELSE Spread(f[n - 1], order[n])]
           used == CHOOSE f : Is(f)
<1>1. Usage(components) = used[N]
  BY DEF Usage
<1>2. base \in V
  OBVIOUS
<1>3. DependentsFirst(order)
  BY ReverseLayers
<1> HIDE DEF order
<1>4. N \in Nat /\ \A n \in 1 .. N : order[n] \in SUBSET Symbols
  BY <1>3 DEF DependentsFirst
<1> HIDE DEF N
<1>5. \A n \in 0 .. N : n # 0 => n \in 1 .. N
  BY <1>4
<1>6. \E f : Is(f)
  <2> DEFINE Step == [n \in 1 .. N |-> [u \in V |-> Spread(u, order[n])]]
  <2>1. ASSUME NEW u \in V, NEW n \in 1 .. N PROVE Spread(u, order[n]) \in V
    <3> DEFINE here == UNION {u[x] : x \in order[n]}
    <3>1. here \in SUBSET Targets
      BY <1>4
    <3>2. Spread(u, order[n]) =
            [x \in Symbols |-> IF x \in order[n] THEN here
                               ELSE IF \E d \in order[n] : x \in Calls[d] THEN u[x] \cup here
                               ELSE u[x]]
      BY DEF Spread
    <3> HIDE DEF here
    <3> QED BY <3>1, <3>2
  <2>2. Steps(N, V, Step)
    BY <2>1 DEF Steps
  <2> HIDE DEF Step, V, base
  <2>3. PICK g : Iterates(N, V, base, Step, g)
    BY <1>2, <1>4, <2>2, Iteration
  <2>4. ASSUME NEW n \in 1 .. N PROVE g[n] = Spread(g[n - 1], order[n])
    <3>1. n - 1 \in 0 .. N
      BY <1>4
    <3>2. g[n - 1] \in V
      BY <2>3, <3>1 DEF Iterates
    <3> QED BY <2>3, <3>2 DEF Step, Iterates
  <2>5. Is(g)
    BY <1>5, <2>3, <2>4 DEF Iterates
  <2> QED BY <2>5
<1>7. Is(used)
  BY <1>6
<1> HIDE DEF used, V, base
<1>8. used[0] = base /\ \A n \in 1 .. N : used[n] = Spread(used[n - 1], order[n])
  BY <1>4, <1>7
<1> DEFINE Known == {n \in 0 .. N : UsageInv(order, used[n], n)}
<1>9. 0 \in Known
  <2>1. Before(order, 0) = {}
    BY DEF Before
  <2>2. UsageInv(order, base, 0)
    BY <1>2, <2>1 DEF UsageInv, V, base
  <2> QED BY <1>4, <1>8, <2>2
<1>10. ASSUME NEW n \in 1 .. N, n - 1 \in Known PROVE n \in Known
  <2>1. n \in 0 .. N /\ n \in 1 .. Len(order)
    BY <1>4 DEF N
  <2>2. UsageInv(order, used[n - 1], n - 1)
    BY <1>10
  <2>3. UsageInv(order, Spread(used[n - 1], order[n]), n)
    BY <1>3, <2>1, <2>2, SpreadStep
  <2> QED BY <1>8, <2>1, <2>3
<1> HIDE DEF Known
<1>11. \A n \in 1 .. N : n - 1 \in Known => n \in Known
  BY <1>10
<1>12. \A n \in 0 .. N : n \in Known
  BY <1>4, <1>9, <1>11, InductUpTo
<1>13. UsageInv(order, used[N], N)
  BY <1>4, <1>12 DEF Known
<1>14. s \in Before(order, N)
  BY <1>3 DEF Before, DependentsFirst, N
<1> QED BY <1>1, <1>13, <1>14 DEF UsageInv

LEMMA SameNeeds ==
  ASSUME UNCHANGED module
  PROVE  /\ \A s : AllowedOf(s)' = AllowedOf(s)
         /\ \A t : Needs(t)' = Needs(t)
         /\ \A s : UsageOf(s)' = UsageOf(s)
<1>1. Calls' = Calls /\ \A t : Roots(t)' = Roots(t)
  BY SameModule
<1>2. \A s : OwnAllowed(s)' = OwnAllowed(s)
  BY DEF OwnAllowed, Body
<1>3. \A s : From(Calls, s)' = From(Calls, s)
  BY <1>1 DEF From, ReachableFrom
<1>4. \A s : AllowedOf(s)' = AllowedOf(s)
  BY <1>2, <1>3 DEF AllowedOf
<1>5. \A t : Needs(t)' = Needs(t)
  BY <1>1 DEF Needs, ReachableFrom
<1>6. \A s : UsageOf(s)' = UsageOf(s)
  BY <1>5 DEF UsageOf
<1> QED BY <1>4, <1>5, <1>6

\* From the resolution on, domains are what the whole graph says.
DomainInv ==
  pc # "resolve" =>
    \A s \in Symbols : domain[s] = ResolvedDomain(AllowedOf(s), UsageOf(s))

LEMMA DomainsResolved == Spec => []DomainInv
<1>1. Init => DomainInv
  BY DEF Init, DomainInv
<1>2. ASSUME DomainInv, Declared, [Next]_vars
      PROVE  DomainInv'
  <2>1. UNCHANGED module
    BY <1>2 DEF Next, vars, ResolveDomains, ValidateShaderPairs, ReachHost,
       ValidateReferences, ValidateHostGraph, InspectEntries, InspectSymbol,
       ValidateCycles
  <2>2. \A s : ResolvedDomain(AllowedOf(s), UsageOf(s))' = ResolvedDomain(AllowedOf(s), UsageOf(s))
    BY <2>1, SameNeeds DEF ResolvedDomain
  <2>3. CASE ResolveDomains
    <3>1. PICK components : components = StronglyConnectedComponents(Calls)
      OBVIOUS
    <3>2. domain' = [s \in Symbols |-> ResolvedDomain(Allowed(components)[s], Usage(components)[s])]
      BY <2>3, <3>1 DEF ResolveDomains
    <3>3. Layered(components)
      BY <1>2, <3>1, CallsGraph, ComponentsInOrder DEF Layered
    <3>4. ASSUME NEW s \in Symbols
          PROVE  domain'[s] = ResolvedDomain(AllowedOf(s), UsageOf(s))
      <4>1. Allowed(components)[s] = AllowedOf(s) /\ Usage(components)[s] = UsageOf(s)
        BY <1>2, <3>3, AllowedRight, UsageRight
      <4> QED BY <3>2, <4>1
    <3> QED BY <2>2, <3>4 DEF DomainInv
  <2>4. CASE ~ResolveDomains
    <3>1. UNCHANGED domain /\ (pc = "resolve" => pc' = "resolve")
      BY <1>2, <2>4 DEF Next, vars, ValidateShaderPairs, ReachHost,
         ValidateReferences, ValidateHostGraph, InspectEntries, InspectSymbol,
         ValidateCycles
    <3> QED BY <1>2, <2>2, <3>1 DEF DomainInv
  <2> QED BY <2>3, <2>4
<1> QED BY <1>1, <1>2, DeclaredKept, PTL DEF Spec

\* The domain of a symbol depends on what it refers to and on the entries that need
\* it, whatever the order of declarations and the cycles (domain.rs:33-139).
THEOREM DomainsRight == Spec => []DomainsAreTheirDefinition
<1>1. DomainInv => DomainsAreTheirDefinition
  <2> SUFFICES ASSUME DomainInv, pc = "pairs", NEW s \in Symbols
               PROVE  domain[s] = ResolvedDomain(
                        {t \in Targets : \A r \in ReachableFrom(Calls, {s}) : t \in OwnAllowed(r)},
                        {t \in Targets : s \in Needs(t)})
    BY DEF DomainsAreTheirDefinition
  <2> QED BY DEF DomainInv, AllowedOf, UsageOf, From
<1> QED BY <1>1, DomainsResolved, PTL

-----------------------------------------------------------------------------
(* split.rs: what is reported, and why.                                    *)

LEMMA ReachesUnion ==
  ASSUME NEW edges, Graph(edges), NEW roots \in SUBSET DOMAIN edges
  PROVE  ReachableFrom(edges, roots) = {y \in DOMAIN edges : \E x \in roots : y \in From(edges, x)}
<1> DEFINE S == {y \in DOMAIN edges : \E x \in roots : y \in From(edges, x)}
           R == ReachableFrom(edges, roots)
<1>1. /\ R \in SUBSET DOMAIN edges /\ roots \subseteq R
      /\ \A r \in R : edges[r] \subseteq R
  BY Least DEF Graph
<1>2. S \in SUBSET DOMAIN edges /\ roots \subseteq S
  BY FromFacts
<1>3. ASSUME NEW y \in S, NEW z \in edges[y] PROVE z \in S
  <2>1. PICK x \in roots : y \in From(edges, x)
    BY <1>3
  <2>2. x \in DOMAIN edges
    OBVIOUS
  <2>3. z \in From(edges, x) /\ z \in DOMAIN edges
    BY <1>3, <2>1, <2>2, FromFacts
  <2> QED BY <2>1, <2>3
<1> HIDE DEF S
<1>4. R \subseteq S
  BY <1>2, <1>3, Least
<1> HIDE DEF R
<1>5. ASSUME NEW y \in S PROVE y \in R
  <2>1. PICK x \in roots : y \in From(edges, x)
    BY DEF S
  <2>2. x \in DOMAIN edges /\ x \in R
    BY <1>1
  <2>3. From(edges, x) \subseteq R
    BY <1>1, <2>2, FromFacts
  <2> QED BY <2>1, <2>3
<1> QED BY <1>4, <1>5 DEF S, R

\* What one gets to is the start, or one gets to it from a neighbour.
LEMMA FirstStep ==
  ASSUME NEW edges, Graph(edges), NEW s \in DOMAIN edges, NEW x \in From(edges, s), x # s
  PROVE  \E y \in edges[s] : x \in From(edges, y)
<1> DEFINE S == {z \in DOMAIN edges : z = s \/ \E y \in edges[s] : z \in From(edges, y)}
<1>1. S \in SUBSET DOMAIN edges /\ s \in S
  OBVIOUS
<1>2. ASSUME NEW z \in S, NEW v \in edges[z] PROVE v \in S
  <2>1. v \in DOMAIN edges
    BY DEF Graph
  <2>2. CASE z = s
    BY <2>1, <2>2, FromFacts
  <2>3. CASE z # s
    <3>1. PICK y \in edges[s] : z \in From(edges, y)
      BY <2>3
    <3>2. y \in DOMAIN edges
      BY DEF Graph
    <3>3. v \in From(edges, y)
      BY <3>1, <3>2, FromFacts
    <3> QED BY <2>1, <3>1, <3>3
  <2> QED BY <2>2, <2>3
<1> HIDE DEF S
<1>3. From(edges, s) \subseteq S
  BY <1>1, <1>2, FromFacts
<1> QED BY <1>3 DEF S

\* A component is reported as a cycle exactly if its symbols depend on themselves.
LEMMA CycleOfComponent ==
  ASSUME NEW edges, Graph(edges), NEW c, NEW x0 \in DOMAIN edges, c = Together(edges, x0),
         NEW s \in c
  PROVE  (Cardinality(c) > 1 \/ \E x \in c : x \in edges[x])
            <=> s \in ReachableFrom(edges, edges[s])
<1>1. c \subseteq DOMAIN edges /\ c = Together(edges, s) /\ s \in DOMAIN edges
  BY TogetherFacts
<1>2. edges[s] \in SUBSET DOMAIN edges
  BY <1>1 DEF Graph
<1>3. s \in ReachableFrom(edges, edges[s]) <=> \E y \in edges[s] : s \in From(edges, y)
  BY <1>1, <1>2, ReachesUnion
<1>4. IsFiniteSet(c)
  BY <1>1, FS_Subset DEF Graph
<1>5. ASSUME NEW x \in c, x # s PROVE \E y \in edges[s] : s \in From(edges, y)
  <2>1. x \in From(edges, s) /\ s \in From(edges, x)
    BY <1>1 DEF Together
  <2>2. PICK y \in edges[s] : x \in From(edges, y)
    BY <1>1, <1>5, <2>1, FirstStep
  <2>3. y \in DOMAIN edges
    BY <1>2
  <2>4. s \in From(edges, y)
    BY <2>1, <2>2, <2>3, FromTransitive
  <2> QED BY <2>4
<1>6. ASSUME Cardinality(c) > 1 PROVE \E x \in c : x # s
  <2>1. Cardinality({s}) = 1
    BY FS_Singleton
  <2>2. c # {s}
    BY <1>6, <2>1
  <2> QED BY <2>2
<1>7. ASSUME NEW x \in c, x \in edges[x] PROVE \E y \in edges[s] : s \in From(edges, y)
  <2>1. CASE x = s
    BY <1>1, <1>7, <2>1, FromFacts
  <2> QED BY <1>5, <2>1
<1>8. ASSUME NEW y \in edges[s], s \in From(edges, y)
      PROVE  Cardinality(c) > 1 \/ \E x \in c : x \in edges[x]
  <2>1. CASE y = s
    BY <1>8, <2>1
  <2>2. CASE y # s
    <3>1. y \in From(edges, s)
      BY <1>1, FromFacts
    <3>2. y \in c
      BY <1>1, <1>8, <3>1 DEF Together
    <3>3. {s, y} \subseteq c
      BY <3>2
    <3>4. Cardinality({s, y}) = 2
      <4>1. Cardinality({s}) = 1 /\ IsFiniteSet({s})
        BY FS_Singleton
      <4>2. Cardinality({s} \cup {y}) = Cardinality({s}) + 1
        BY <2>2, <4>1, FS_AddElement
      <4>3. {s} \cup {y} = {s, y}
        OBVIOUS
      <4> QED BY <4>1, <4>2, <4>3
    <3>5. Cardinality({s, y}) <= Cardinality(c)
      BY <1>4, <3>3, FS_Subset
    <3>6. Cardinality(c) \in Nat
      BY <1>4, FS_CardinalityType
    <3> QED BY <3>4, <3>5, <3>6
  <2> QED BY <2>1, <2>2
<1> QED BY <1>3, <1>5, <1>6, <1>7, <1>8

\* The report of a cycle, for a symbol that has been inspected.
LEMMA CycleReported ==
  ASSUME Declared
  PROVE  (\E c \in ToSet(StronglyConnectedComponents(Calls)) : GpuCycle(c))
            <=> \E s \in checked \cap Symbols : s \in ReachableFrom(Calls, Calls[s])
<1>1. PICK components : components = StronglyConnectedComponents(Calls)
  OBVIOUS
<1>2. Graph(Calls) /\ DOMAIN Calls = Symbols /\ Layered(components)
  BY <1>1, CallsGraph, ComponentsInOrder DEF Layered
<1>3. ToSet(components) = {components[i] : i \in 1 .. Len(components)}
  BY ToSetFacts, <1>2 DEF Layered, InOrder
<1>4. \A c \in ToSet(components) : \E x \in Symbols : c = Together(Calls, x)
  BY <1>2, <1>3 DEF Layered, InOrder
<1>5. ASSUME NEW c \in ToSet(components), NEW s \in c
      PROVE  s \in Symbols /\ ((Cardinality(c) > 1 \/ \E x \in c : x \in Calls[x])
                                 <=> s \in ReachableFrom(Calls, Calls[s]))
  <2>1. PICK x \in Symbols : c = Together(Calls, x)
    BY <1>4
  <2>2. s \in Symbols
    BY <1>2, <2>1, TogetherFacts
  <2> QED BY <1>2, <2>1, <2>2, CycleOfComponent
<1>6. \A s \in Symbols : \E c \in ToSet(components) : s \in c
  BY <1>2 DEF Layered
<1>7. ASSUME NEW c \in ToSet(components), GpuCycle(c)
      PROVE  \E s \in checked \cap Symbols : s \in ReachableFrom(Calls, Calls[s])
  <2>1. PICK s \in c : s \in checked
    BY <1>7 DEF GpuCycle
  <2>2. Cardinality(c) > 1 \/ \E x \in c : x \in Calls[x]
    BY <1>7 DEF GpuCycle
  <2> QED BY <1>5, <2>1, <2>2
<1>8. ASSUME NEW s \in checked \cap Symbols, s \in ReachableFrom(Calls, Calls[s])
      PROVE  \E c \in ToSet(components) : GpuCycle(c)
  <2>1. PICK c \in ToSet(components) : s \in c
    BY <1>6
  <2>2. Cardinality(c) > 1 \/ \E x \in c : x \in Calls[x]
    BY <1>5, <1>8, <2>1
  <2>3. c \cap checked # {}
    BY <2>1
  <2> QED BY <2>2, <2>3 DEF GpuCycle
<1> QED BY <1>1, <1>7, <1>8

\* The structs of several bodies are those of each.
LEMMA StructsInUnion ==
  ASSUME NEW bodies, NEW s \in StructsIn(UNION {b.types : b \in bodies})
  PROVE  \E b \in bodies : s \in StructsIn(b.types)
<1> DEFINE fields == [x \in Structs |-> ToSet(module.fields[x]) \cap Structs]
           S == {x \in Structs : \E b \in bodies : x \in StructsIn(b.types)}
           types == UNION {b.types : b \in bodies}
<1>1. DOMAIN fields = Structs /\ \A x \in Structs : fields[x] \subseteq Structs
  OBVIOUS
<1>2. \A t : StructsIn(t) = ReachableFrom(fields, t \cap Structs)
  BY DEF StructsIn
<1> HIDE DEF fields
<1>3. \A t : /\ t \cap Structs \subseteq StructsIn(t)
             /\ StructsIn(t) \subseteq Structs
             /\ \A r \in StructsIn(t) : fields[r] \subseteq StructsIn(t)
  <2> SUFFICES ASSUME NEW t
               PROVE  /\ t \cap Structs \subseteq ReachableFrom(fields, t \cap Structs)
                      /\ ReachableFrom(fields, t \cap Structs) \subseteq Structs
                      /\ \A r \in ReachableFrom(fields, t \cap Structs) :
                           fields[r] \subseteq ReachableFrom(fields, t \cap Structs)
    BY <1>2
  <2>1. t \cap Structs \subseteq DOMAIN fields
    BY <1>1
  <2> QED BY <1>1, <2>1, Least
<1>4. S \in SUBSET Structs /\ types \cap Structs \subseteq S
  <2>1. ASSUME NEW x \in types \cap Structs PROVE x \in S
    <3>1. PICK b \in bodies : x \in b.types
      OBVIOUS
    <3>2. x \in StructsIn(b.types)
      BY <1>3, <3>1
    <3> QED BY <3>1, <3>2
  <2> QED BY <2>1
<1>5. \A x \in S : fields[x] \subseteq S
  BY <1>1, <1>3
<1> HIDE DEF S, types
<1>6. ReachableFrom(fields, types \cap Structs) \subseteq S
  BY <1>1, <1>4, <1>5, Least
<1> QED BY <1>2, <1>6 DEF S, types

LEMMA StructsInSome ==
  ASSUME NEW bodies, NEW b \in bodies
  PROVE  StructsIn(b.types) \subseteq StructsIn(UNION {x.types : x \in bodies})
<1> DEFINE fields == [x \in Structs |-> ToSet(module.fields[x]) \cap Structs]
           types == UNION {x.types : x \in bodies}
<1>1. \A t : StructsIn(t) = ReachableFrom(fields, t \cap Structs)
  BY DEF StructsIn
<1>2. DOMAIN fields = Structs /\ \A x \in Structs : fields[x] \subseteq Structs
  OBVIOUS
<1> HIDE DEF fields
<1>3. b.types \cap Structs \subseteq types \cap Structs
  OBVIOUS
<1> HIDE DEF types
<1>4. /\ types \cap Structs \subseteq ReachableFrom(fields, types \cap Structs)
      /\ ReachableFrom(fields, types \cap Structs) \in SUBSET Structs
      /\ \A r \in ReachableFrom(fields, types \cap Structs) :
           fields[r] \subseteq ReachableFrom(fields, types \cap Structs)
  <2>1. types \cap Structs \subseteq DOMAIN fields
    BY <1>2
  <2> QED BY <1>2, <2>1, Least
<1>5. ReachableFrom(fields, b.types \cap Structs) \subseteq ReachableFrom(fields, types \cap Structs)
  BY <1>2, <1>3, <1>4, Least
<1> QED BY <1>1, <1>5 DEF types

\* A constant that is zero is not taken for another number.
LEMMA ZeroIsFollowed ==
  ASSUME NEW d \in Constants, module.value[d] = Zero
  PROVE  ~ProvablyNonzero(d)
<1> DEFINE Is(f) == f = [n \in 0 .. NC |->
                IF n = 0 THEN d
                ELSE LET e == f[n - 1] IN IF e \in Constants THEN module.value[e] ELSE e]
           follow == CHOOSE f : Is(f)
           V == {d} \cup {module.value[e] : e \in Constants}
<1>1. IntegerValue(d) = follow[NC]
  BY DEF IntegerValue
<1>2. NC \in Nat \ {0} /\ \A n \in 0 .. NC : n # 0 => n \in 1 .. NC
  BY SizesAssumption DEF Constants
<1>3. \E f : Is(f)
  <2> DEFINE Step == [n \in 1 .. NC |-> [e \in V |-> IF e \in Constants THEN module.value[e] ELSE e]]
  <2>1. Steps(NC, V, Step)
    BY DEF Steps
  <2>2. d \in V
    OBVIOUS
  <2> HIDE DEF Step, V
  <2>3. PICK g : Iterates(NC, V, d, Step, g)
    BY <1>2, <2>1, <2>2, Iteration
  <2>4. ASSUME NEW n \in 1 .. NC
        PROVE  g[n] = IF g[n - 1] \in Constants THEN module.value[g[n - 1]] ELSE g[n - 1]
    <3>1. n - 1 \in 0 .. NC
      BY <1>2
    <3>2. g[n - 1] \in V
      BY <2>3, <3>1 DEF Iterates
    <3> QED BY <2>3, <3>2 DEF Step, Iterates
  <2>5. Is(g)
    BY <1>2, <2>3, <2>4 DEF Iterates
  <2> QED BY <2>5
<1>4. Is(follow)
  BY <1>3
<1> HIDE DEF follow
<1>5. follow[0] = d /\ \A n \in 1 .. NC : follow[n] =
          IF follow[n - 1] \in Constants THEN module.value[follow[n - 1]] ELSE follow[n - 1]
  BY <1>2, <1>4
<1> DEFINE T == {n \in 0 .. NC : n # 0 => follow[n] = Zero}
<1>6. 0 \in T
  BY <1>2
<1>7. ASSUME NEW n \in 1 .. NC, n - 1 \in T PROVE n \in T
  <2>1. n \in 0 .. NC
    BY <1>2
  <2>2. CASE n = 1
    <3>1. follow[n - 1] = d
      BY <1>5, <2>2
    <3> QED BY <1>5, <2>1, <3>1
  <2>3. CASE n # 1
    <3>1. n - 1 # 0
      BY <1>2, <2>3
    <3>2. follow[n - 1] = Zero /\ Zero \notin Constants
      BY <1>7, <3>1, DivisorsAssumption
    <3> QED BY <1>5, <2>1, <3>2
  <2> QED BY <2>2, <2>3
<1> HIDE DEF T
<1>8. \A n \in 1 .. NC : n - 1 \in T => n \in T
  BY <1>7
<1>9. \A n \in 0 .. NC : n \in T
  BY <1>2, <1>6, <1>8, InductUpTo
<1>10. follow[NC] = Zero
  BY <1>2, <1>9 DEF T
<1> QED BY <1>1, <1>10, DivisorsAssumption DEF ProvablyNonzero

\* A body that has been inspected without an error.
FormFinite(b) ==
  /\ StructsIn(b.types) \subseteq gpuStructs
  /\ \A d \in b.divisors : ProvablyNonzero(d)

FiniteInv ==
  /\ pc \notin {"gpu", "done"} => gpuStructs = {} /\ checked = {}
  /\ pc \in {"gpu", "done"} /\ errors = {} =>
       /\ \A b \in BodiesOf("gpu", checked) : FormFinite(b)
       /\ \A s \in gpuStructs : ~Recursive(s)
  /\ pc = "done" /\ errors = {} =>
       \A s \in checked \cap Symbols : s \notin ReachableFrom(Calls, Calls[s])

LEMMA SameStructs ==
  ASSUME UNCHANGED module
  PROVE  /\ \A t : StructsIn(t)' = StructsIn(t)
         /\ \A s : Recursive(s)' = Recursive(s)
         /\ \A d : ProvablyNonzero(d)' = ProvablyNonzero(d)
<1>1. \A t : StructsIn(t)' = StructsIn(t)
  BY DEF StructsIn, ReachableFrom
<1>2. \A s : Recursive(s)' = Recursive(s)
  BY <1>1 DEF Recursive
<1>3. \A d : ProvablyNonzero(d)' = ProvablyNonzero(d)
  BY DEF ProvablyNonzero, IntegerValue
<1> QED BY <1>1, <1>2, <1>3

\* What the inspection of some bodies adds to the structs, and what it rules out.
LEMMA InspectForm ==
  ASSUME NEW bodies, Inspect(bodies), UNCHANGED module, errors' = {},
         errors = {} => \A s \in gpuStructs : ~Recursive(s)
  PROVE  /\ errors = {}
         /\ gpuStructs \subseteq gpuStructs'
         /\ \A b \in bodies : FormFinite(b)'
         /\ \A s \in gpuStructs' : ~Recursive(s)
<1> DEFINE types == UNION {b.types : b \in bodies}
<1>1. gpuStructs' = gpuStructs \cup StructsIn(types)
  BY DEF Inspect
<1>2. errors = {} /\ \A b \in bodies : GpuErrors(b) = {}
  BY DEF Inspect
<1>3. ASSUME NEW b \in bodies
      PROVE  TypeErrors(b.types) = {} /\ \A d \in b.divisors : ProvablyNonzero(d)
  <2>1. GpuErrors(b) = {}
    BY <1>2
  <2>2. {"E0406" : d \in {d \in b.divisors : ~ProvablyNonzero(d)}} = {}
    BY <2>1 DEF GpuErrors
  <2>3. TypeErrors(b.types) = {}
    BY <2>1 DEF GpuErrors
  <2> QED BY <2>2, <2>3
<1>4. ASSUME NEW b \in bodies, NEW s \in StructsIn(b.types) PROVE ~Recursive(s)
  <2>1. {"E0402" : x \in {x \in StructsIn(b.types) : Recursive(x)}} = {}
    BY <1>3 DEF TypeErrors
  <2> QED BY <2>1
<1>5. \A b \in bodies : StructsIn(b.types) \subseteq gpuStructs'
  BY <1>1, StructsInSome
<1>6. \A s \in StructsIn(types) : ~Recursive(s)
  BY <1>4, StructsInUnion
<1>7. \A b \in bodies : FormFinite(b)'
  BY <1>3, <1>5, SameStructs DEF FormFinite
<1> QED BY <1>1, <1>2, <1>6, <1>7

LEMMA FormKept == Spec => []FiniteInv
<1>1. Init => FiniteInv
  BY DEF Init, FiniteInv
<1>2. ASSUME FiniteInv, GpuInv, Declared, [Next]_vars
      PROVE  FiniteInv'
  <2>1. UNCHANGED module
    BY <1>2 DEF Next, vars, ResolveDomains, ValidateShaderPairs, ReachHost,
       ValidateReferences, ValidateHostGraph, InspectEntries, InspectSymbol,
       ValidateCycles
  <2>2. /\ Calls' = Calls
        /\ \A S, t : BodiesOf(t, S)' = BodiesOf(t, S)
        /\ \A s : Recursive(s)' = Recursive(s)
        /\ \A r : ReachableFrom(Calls, r)' = ReachableFrom(Calls, r)
    BY <2>1, SameModule, SameStructs DEF ReachableFrom
  <2>3. \A b : FormFinite(b) /\ gpuStructs \subseteq gpuStructs' => FormFinite(b)'
    BY <2>1, SameStructs DEF FormFinite
  <2>4. CASE InspectEntries
    <3> DEFINE bodies == {e.body : e \in EntriesOf("gpu")}
    <3>1. /\ pc = "entries" /\ pc' = "gpu" /\ UNCHANGED checked /\ Inspect(bodies)
          /\ checked = {} /\ gpuStructs = {}
      BY <1>2, <2>4 DEF InspectEntries, FiniteInv
    <3>2. BodiesOf("gpu", checked') = bodies
      BY <3>1 DEF BodiesOf
    <3>3. errors' = {} => /\ \A b \in bodies : FormFinite(b)'
                          /\ \A s \in gpuStructs' : ~Recursive(s)
      BY <2>1, <3>1, InspectForm
    <3> HIDE DEF bodies
    <3> QED BY <2>2, <3>1, <3>2, <3>3 DEF FiniteInv
  <2>5. ASSUME NEW s \in Symbols, InspectSymbol(s)
        PROVE  FiniteInv'
    <3>1. pc = "gpu" /\ pc' = pc /\ checked' = checked \cup {s} /\ Inspect({Body(s)})
      BY <2>5 DEF InspectSymbol
    <3>2. BodiesOf("gpu", checked') = BodiesOf("gpu", checked) \cup {Body(s)}
      BY <3>1 DEF BodiesOf
    <3>3. errors' = {} => /\ errors = {} /\ gpuStructs \subseteq gpuStructs'
                          /\ \A b \in {Body(s)} : FormFinite(b)'
                          /\ \A x \in gpuStructs' : ~Recursive(x)
      BY <1>2, <2>1, <3>1, InspectForm DEF FiniteInv
    <3>4. errors' = {} => \A b \in BodiesOf("gpu", checked') : FormFinite(b)'
      BY <1>2, <2>3, <3>1, <3>2, <3>3 DEF FiniteInv
    <3> QED BY <2>2, <3>1, <3>3, <3>4 DEF FiniteInv
  <2>6. CASE ValidateCycles
    <3>1. pc = "gpu" /\ pc' = "done" /\ UNCHANGED <<gpuStructs, checked>>
      BY <2>6 DEF ValidateCycles
    <3>2. errors' = {} => /\ errors = {}
                          /\ ~ \E c \in ToSet(StronglyConnectedComponents(Calls)) : GpuCycle(c)
      BY <2>6 DEF ValidateCycles
    <3>3. errors' = {} => \A s \in checked \cap Symbols : s \notin ReachableFrom(Calls, Calls[s])
      BY <1>2, <3>2, CycleReported
    <3>4. errors' = {} => \A b \in BodiesOf("gpu", checked) : FormFinite(b)'
      BY <1>2, <2>3, <3>1, <3>2 DEF FiniteInv
    <3> QED BY <1>2, <2>2, <3>1, <3>2, <3>3, <3>4 DEF FiniteInv
  <2>7. CASE ~(InspectEntries \/ ValidateCycles \/ \E s \in Symbols : InspectSymbol(s))
    <3>1. /\ UNCHANGED <<gpuStructs, checked>>
          /\ pc \in {"gpu", "done"} <=> pc' \in {"gpu", "done"}
          /\ pc' = "done" => pc = "done"
          /\ pc \in {"gpu", "done"} => UNCHANGED errors
      BY <1>2, <2>7 DEF Next, vars, ResolveDomains, ValidateShaderPairs, ReachHost,
         ValidateReferences, ValidateHostGraph
    <3>2. \A b : FormFinite(b) => FormFinite(b)'
      BY <2>3, <3>1
    <3> QED BY <1>2, <2>2, <3>1, <3>2 DEF FiniteInv
  <2> QED BY <2>4, <2>5, <2>6, <2>7
<1> QED BY <1>1, <1>2, GpuPass, DeclaredKept, PTL DEF Spec

\* What is emitted for the GPU has a finite form (split.rs:853-921, 1244-1332).
THEOREM FormIsFinite == Spec => []GpuFormIsFinite
<1>1. FiniteInv /\ GpuInv => GpuFormIsFinite
  <2> SUFFICES ASSUME FiniteInv, GpuInv, Accepted
               PROVE  /\ \A s \in gpu : s \notin ReachableFrom(Calls, Calls[s])
                      /\ \A b \in Emitted("gpu", gpu) :
                             /\ StructsIn(b.types) \subseteq gpuStructs
                             /\ \A d \in b.divisors : d \in Constants => module.value[d] # Zero
                      /\ \A s \in gpuStructs : ~Recursive(s)
    BY DEF GpuFormIsFinite
  <2>1. pc = "done" /\ errors = {} /\ checked = gpu /\ gpu \subseteq Symbols
    BY DEF Accepted, GpuInv
  <2>2. Emitted("gpu", gpu) = BodiesOf("gpu", checked)
    BY <2>1 DEF Emitted, BodiesOf, Body
  <2>3. \A b \in BodiesOf("gpu", checked) : FormFinite(b)
    BY <2>1 DEF FiniteInv
  <2>4. \A b \in Emitted("gpu", gpu) :
           /\ StructsIn(b.types) \subseteq gpuStructs
           /\ \A d \in b.divisors : d \in Constants => module.value[d] # Zero
    BY <2>2, <2>3, ZeroIsFollowed DEF FormFinite
  <2>5. \A s \in gpu : s \notin ReachableFrom(Calls, Calls[s])
    BY <2>1 DEF FiniteInv
  <2>6. \A s \in gpuStructs : ~Recursive(s)
    BY <2>1 DEF FiniteInv
  <2> QED BY <2>4, <2>5, <2>6
<1> QED BY <1>1, FormKept, GpuPass, PTL

\* The three ways in which a module is flawed.
PairFlawed ==
  \E s \in ShaderNames : \/ Cardinality(Stages(s, "vertex")) # 1
                         \/ Cardinality(Stages(s, "fragment")) # 1
                         \/ \E v \in Stages(s, "vertex"), f \in Stages(s, "fragment") :
                                ~ValidPair(v, f)

HostFlaw(b) ==
  \/ b.traits \cap GpuOnly # {}
  \/ ~(b.materials \subseteq Pairs)
  \/ b.textures \cap Unusable # {}

GpuFlaw(b) ==
  \/ b.traits \cap NotOnGpu # {}
  \/ TypeErrors(b.types) # {}
  \/ \E d \in b.divisors : ~ProvablyNonzero(d)

LEMMA FlawedIs ==
  Flawed <=> \/ PairFlawed
             \/ \E b \in BodiesOf("host", Needs("host")) : HostFlaw(b)
             \/ \E b \in BodiesOf("gpu", Needs("gpu")) : GpuFlaw(b)
             \/ \E s \in Needs("gpu") : s \in ReachableFrom(Calls, Calls[s])
BY DEF Flawed, PairFlawed, HostFlaw, GpuFlaw, Emitted, BodiesOf, Body

LEMMA SameFlaws ==
  ASSUME UNCHANGED module
  PROVE  Flawed' <=> Flawed
<1>1. /\ Calls' = Calls /\ \A t : Needs(t)' = Needs(t)
      /\ \A t : StructsIn(t)' = StructsIn(t)
      /\ \A s : Recursive(s)' = Recursive(s)
      /\ \A d : ProvablyNonzero(d)' = ProvablyNonzero(d)
  BY SameModule, SameNeeds, SameStructs
<1>2. \A t : TypeErrors(t)' = TypeErrors(t)
  BY <1>1 DEF TypeErrors
<1>3. /\ \A s, g : Stages(s, g)' = Stages(s, g)
      /\ ShaderNames' = ShaderNames
  BY DEF Stages, ShaderNames
<1>4. Pairs' = Pairs
  BY <1>3 DEF Pairs
<1>5. \A v, f : ValidPair(v, f)' = ValidPair(v, f)
  BY DEF ValidPair, VaryingStruct
<1>6. \A t, S : Emitted(t, S)' = Emitted(t, S)
  BY DEF Emitted, EntriesOf
<1>7. \A r : ReachableFrom(Calls, r)' = ReachableFrom(Calls, r)
  BY <1>1 DEF ReachableFrom
<1> QED BY <1>1, <1>2, <1>3, <1>4, <1>5, <1>6, <1>7 DEF Flawed

\* A symbol that one target needs and that is resolved to the other one leads to an
\* operation that the first does not have.
LEMMA DomainReason ==
  ASSUME Declared, NEW s \in Symbols,
         domain[s] = ResolvedDomain(AllowedOf(s), UsageOf(s))
  PROVE  /\ s \in Needs("host") /\ domain[s] = "gpu" =>
              \E r \in Needs("host") : Body(r).traits \cap GpuOnly # {}
         /\ s \in Needs("gpu") /\ domain[s] = "host" =>
              \E r \in Needs("gpu") : Body(r).traits \cap HostOnly # {}
<1>1. \A A, U : ResolvedDomain(A, U) = "gpu" =>
                  A = {"gpu"} \/ U = {"gpu"}
  <2> SUFFICES ASSUME NEW A, NEW U, ResolvedDomain(A, U) = "gpu" PROVE A = {"gpu"} \/ U = {"gpu"}
    OBVIOUS
  <2>1. CASE \E t \in Targets : A = {t}
    BY <2>1 DEF ResolvedDomain, Targets
  <2>2. CASE ~(\E t \in Targets : A = {t}) /\ \E t \in Targets : U = {t}
    BY <2>2 DEF ResolvedDomain, Targets
  <2>3. CASE ~(\E t \in Targets : A = {t}) /\ ~ \E t \in Targets : U = {t}
    BY <2>3 DEF ResolvedDomain
  <2> QED BY <2>1, <2>2, <2>3
<1>2. \A A, U : ResolvedDomain(A, U) = "host" =>
                  A = {"host"} \/ U = {"host"}
  <2> SUFFICES ASSUME NEW A, NEW U, ResolvedDomain(A, U) = "host" PROVE A = {"host"} \/ U = {"host"}
    OBVIOUS
  <2>1. CASE \E t \in Targets : A = {t}
    BY <2>1 DEF ResolvedDomain, Targets
  <2>2. CASE ~(\E t \in Targets : A = {t}) /\ \E t \in Targets : U = {t}
    BY <2>2 DEF ResolvedDomain, Targets
  <2>3. CASE ~(\E t \in Targets : A = {t}) /\ ~ \E t \in Targets : U = {t}
    BY <2>3 DEF ResolvedDomain
  <2> QED BY <2>1, <2>2, <2>3
<1>3. "host" \in Targets /\ "gpu" \in Targets
  BY DEF Targets
<1>4. ASSUME s \in Needs("host"), domain[s] = "gpu"
      PROVE  \E r \in Needs("host") : Body(r).traits \cap GpuOnly # {}
  <2>1. "host" \in UsageOf(s)
    BY <1>3, <1>4 DEF UsageOf
  <2>2. AllowedOf(s) = {"gpu"}
    <3>1. ResolvedDomain(AllowedOf(s), UsageOf(s)) = "gpu"
      BY <1>4
    <3>2. AllowedOf(s) = {"gpu"} \/ UsageOf(s) = {"gpu"}
      BY <3>1, <1>1
    <3>3. UsageOf(s) # {"gpu"}
      BY <2>1
    <3> QED BY <3>2, <3>3
  <2>3. PICK r \in From(Calls, s) : "host" \notin OwnAllowed(r)
    BY <1>3, <2>2 DEF AllowedOf
  <2>4. r \in Needs("host")
    BY <1>4, <2>3, NeedsFacts
  <2>5. Body(r).traits \cap GpuOnly # {}
    BY <1>3, <2>3 DEF OwnAllowed
  <2> QED BY <2>4, <2>5
<1>5. ASSUME s \in Needs("gpu"), domain[s] = "host"
      PROVE  \E r \in Needs("gpu") : Body(r).traits \cap HostOnly # {}
  <2>1. "gpu" \in UsageOf(s)
    BY <1>3, <1>5 DEF UsageOf
  <2>2. AllowedOf(s) = {"host"}
    <3>1. ResolvedDomain(AllowedOf(s), UsageOf(s)) = "host"
      BY <1>5
    <3>2. AllowedOf(s) = {"host"} \/ UsageOf(s) = {"host"}
      BY <3>1, <1>2
    <3>3. UsageOf(s) # {"host"}
      BY <2>1
    <3> QED BY <3>2, <3>3
  <2>3. PICK r \in From(Calls, s) : "gpu" \notin OwnAllowed(r)
    BY <1>3, <2>2 DEF AllowedOf
  <2>4. r \in Needs("gpu")
    BY <1>5, <2>3, NeedsFacts
  <2>5. Body(r).traits \cap HostOnly # {}
    BY <1>3, <2>3 DEF OwnAllowed
  <2> QED BY <2>4, <2>5
<1> QED BY <1>4, <1>5

LEMMA BodiesNeeded ==
  ASSUME Declared, NEW t, NEW S \in SUBSET Needs(t), NEW b \in BodiesOf(t, S)
  PROVE  b \in BodiesOf(t, Needs(t)) /\ b.calls \subseteq Needs(t)
<1>1. b \in BodiesOf(t, Needs(t))
  BY DEF BodiesOf
<1>2. CASE \E e \in EntriesOf(t) : b = e.body
  <2>1. b.calls \subseteq Roots(t)
    BY <1>2 DEF Roots
  <2> QED BY <1>1, <2>1, NeedsFacts
<1>3. CASE \E s \in S : b = Body(s)
  <2>1. PICK s \in S : b = Body(s)
    BY <1>3
  <2>2. s \in Needs(t) /\ s \in Symbols
    BY NeedsFacts
  <2>3. Calls[s] = b.calls
    BY <2>1, <2>2 DEF Calls
  <2> QED BY <1>1, <2>2, <2>3, NeedsFacts
<1> QED BY <1>2, <1>3 DEF BodiesOf

LEMMA PassesNeeded ==
  ASSUME Declared, HostInv, GpuInv
  PROVE  host \subseteq Needs("host") /\ gpu \subseteq Needs("gpu")
<1>1. \A t : Needs(t) \in SUBSET Symbols /\ Closed(Needs(t), t)
  BY NeedsFacts DEF Closed
<1> QED BY <1>1 DEF HostInv, GpuInv

LEMMA HostErrorsReason ==
  ASSUME Declared, HostInv, GpuInv, DomainInv, pc # "resolve",
         NEW b \in BodiesOf("host", host), HostErrors(b) # {}
  PROVE  Flawed
<1>1. b \in BodiesOf("host", Needs("host")) /\ b.calls \subseteq Needs("host")
  BY PassesNeeded, BodiesNeeded
<1>2. CASE b.traits \cap GpuOnly # {}
  BY <1>1, <1>2, FlawedIs DEF HostFlaw
<1>3. CASE \E d \in b.calls : domain[d] = "gpu"
  <2>1. PICK d \in b.calls : domain[d] = "gpu"
    BY <1>3
  <2>2. d \in Needs("host") /\ d \in Symbols
    BY <1>1, NeedsFacts
  <2>3. PICK r \in Needs("host") : Body(r).traits \cap GpuOnly # {}
    BY <2>1, <2>2, DomainReason DEF DomainInv
  <2>4. Body(r) \in BodiesOf("host", Needs("host"))
    BY DEF BodiesOf
  <2>5. HostFlaw(Body(r))
    BY <2>3 DEF HostFlaw
  <2> QED BY <2>4, <2>5, FlawedIs
<1> QED BY <1>2, <1>3 DEF HostErrors

LEMMA GpuErrorsReason ==
  ASSUME Declared, HostInv, GpuInv, DomainInv, pc # "resolve",
         NEW S \in SUBSET gpu, NEW b \in BodiesOf("gpu", S), GpuErrors(b) # {}
  PROVE  Flawed
<1>1. b \in BodiesOf("gpu", Needs("gpu")) /\ b.calls \subseteq Needs("gpu")
  BY PassesNeeded, BodiesNeeded
<1>2. HostOnly \subseteq NotOnGpu /\ "string" \in NotOnGpu /\ "dynamic" \in NotOnGpu
  BY DEF HostOnly, NotOnGpu
<1>3. CASE GpuFlaw(b)
  BY <1>1, <1>3, FlawedIs
<1>4. CASE \E d \in b.calls : domain[d] = "host"
  <2>1. PICK d \in b.calls : domain[d] = "host"
    BY <1>4
  <2>2. d \in Needs("gpu") /\ d \in Symbols
    BY <1>1, NeedsFacts
  <2>3. PICK r \in Needs("gpu") : Body(r).traits \cap HostOnly # {}
    BY <2>1, <2>2, DomainReason DEF DomainInv
  <2>4. Body(r) \in BodiesOf("gpu", Needs("gpu"))
    BY DEF BodiesOf
  <2>5. GpuFlaw(Body(r))
    BY <1>2, <2>3 DEF GpuFlaw
  <2> QED BY <2>4, <2>5, FlawedIs
<1>5. ASSUME ~GpuFlaw(b), ~ \E d \in b.calls : domain[d] = "host" PROVE FALSE
  <2>1. TypeErrors(b.types) = {} /\ b.traits \cap NotOnGpu = {}
        /\ \A d \in b.divisors : ProvablyNonzero(d)
    BY <1>5 DEF GpuFlaw
  <2>2. b.traits \cap {"string"} = {} /\ b.traits \cap {"dynamic"} = {} /\ b.traits \cap HostOnly = {}
    BY <1>2, <2>1
  <2> QED BY <1>5, <2>1, <2>2 DEF GpuErrors
<1> QED BY <1>3, <1>4, <1>5

\* Whatever has been reported so far has a reason in the module.
ReasonInv == errors # {} => Flawed

LEMMA ReasonKept == Spec => []ReasonInv
<1>1. Init => ReasonInv
  BY DEF Init, ReasonInv
<1>2. ASSUME ReasonInv, HostInv, GpuInv, DomainInv, Declared, [Next]_vars
      PROVE  ReasonInv'
  <2>1. UNCHANGED module
    BY <1>2 DEF Next, vars, ResolveDomains, ValidateShaderPairs, ReachHost,
       ValidateReferences, ValidateHostGraph, InspectEntries, InspectSymbol,
       ValidateCycles
  <2>2. Flawed' <=> Flawed
    BY <2>1, SameFlaws
  <2>3. CASE ValidateShaderPairs
    <3>1. errors' # {} => errors # {} \/ PairFlawed
      BY <2>3 DEF ValidateShaderPairs, PairFlawed
    <3> QED BY <1>2, <2>2, <3>1, FlawedIs DEF ReasonInv
  <2>4. CASE ValidateReferences
    <3> DEFINE bodies == BodiesOf("host", host)
    <3>1. errors' # {} => \/ errors # {}
                          \/ MaterialErrors(bodies) # {}
                          \/ Textures(bodies) \cap Unusable # {}
      BY <2>4 DEF ValidateReferences
    <3>2. MaterialErrors(bodies) # {} => \E b \in bodies : HostFlaw(b)
      BY DEF MaterialErrors, HostFlaw
    <3>3. Textures(bodies) \cap Unusable # {} => \E b \in bodies : HostFlaw(b)
      BY DEF Textures, HostFlaw
    <3>4. \A b \in bodies : b \in BodiesOf("host", Needs("host"))
      BY <1>2, PassesNeeded, BodiesNeeded
    <3> HIDE DEF bodies
    <3> QED BY <1>2, <2>2, <3>1, <3>2, <3>3, <3>4, FlawedIs DEF ReasonInv
  <2>5. CASE ValidateHostGraph
    <3>1. pc = "host" /\ (errors' # {} => errors # {} \/ \E b \in BodiesOf("host", host) : HostErrors(b) # {})
      BY <2>5 DEF ValidateHostGraph
    <3> QED BY <1>2, <2>2, <3>1, HostErrorsReason DEF ReasonInv
  <2>6. ASSUME NEW S \in SUBSET gpu, NEW bodies \in SUBSET BodiesOf("gpu", S), Inspect(bodies),
               pc # "resolve"
        PROVE  ReasonInv'
    <3>1. errors' # {} => errors # {} \/ \E b \in bodies : GpuErrors(b) # {}
      BY <2>6 DEF Inspect
    <3>2. ASSUME NEW b \in bodies, GpuErrors(b) # {} PROVE Flawed
      <4>1. b \in BodiesOf("gpu", S)
        OBVIOUS
      <4> QED BY <1>2, <2>6, <3>2, <4>1, GpuErrorsReason
    <3> QED BY <1>2, <2>2, <3>1, <3>2 DEF ReasonInv
  <2>7. CASE InspectEntries
    <3>1. pc # "resolve" /\ Inspect({e.body : e \in EntriesOf("gpu")})
      BY <2>7 DEF InspectEntries
    <3>2. {e.body : e \in EntriesOf("gpu")} \in SUBSET BodiesOf("gpu", {})
      BY DEF BodiesOf
    <3>3. {} \in SUBSET gpu
      OBVIOUS
    <3> QED BY <2>6, <3>1, <3>2, <3>3
  <2>8. ASSUME NEW s \in Symbols, InspectSymbol(s)
        PROVE  ReasonInv'
    <3>1. pc # "resolve" /\ Inspect({Body(s)}) /\ {s} \in SUBSET gpu
      BY <2>8 DEF InspectSymbol
    <3>2. {Body(s)} \in SUBSET BodiesOf("gpu", {s})
      BY DEF BodiesOf
    <3> QED BY <2>6, <3>1, <3>2
  <2>9. CASE ValidateCycles
    <3>1. errors' # {} => errors # {}
              \/ \E c \in ToSet(StronglyConnectedComponents(Calls)) : GpuCycle(c)
      BY <2>9 DEF ValidateCycles
    <3>2. checked \subseteq Needs("gpu")
      BY <1>2, PassesNeeded DEF GpuInv
    <3> QED BY <1>2, <2>2, <3>1, <3>2, CycleReported, FlawedIs DEF ReasonInv
  <2>10. CASE UNCHANGED errors
    BY <1>2, <2>2, <2>10 DEF ReasonInv
  <2>11. CASE ResolveDomains \/ (\E s \in Symbols : ReachHost(s)) \/ UNCHANGED vars
    BY <2>10, <2>11 DEF ResolveDomains, ReachHost, vars
  <2> QED BY <1>2, <2>3, <2>4, <2>5, <2>7, <2>8, <2>9, <2>11 DEF Next
<1> QED BY <1>1, <1>2, HostPass, GpuPass, DomainsResolved, DeclaredKept, PTL DEF Spec

\* A program is rejected only for something that is wrong with it (split.rs:39-68).
THEOREM RejectionsHaveReasons == Spec => []RejectedForAReason
<1>1. ReasonInv => RejectedForAReason
  BY DEF ReasonInv, RejectedForAReason
<1> QED BY <1>1, ReasonKept, PTL

\* Everything that is wrong with what is emitted is reported, and nothing else is
\* (the diagnostics of split.rs, as the run checks them).
THEOREM ReportsRight == Spec => []ReportsAreRight
<1>1. GpuFormIsFinite /\ RejectedForAReason /\ TwoPrecisionsAreReported => ReportsAreRight
  BY DEF ReportsAreRight
<1> QED BY <1>1, FormIsFinite, RejectionsHaveReasons, BothReported, PTL

-----------------------------------------------------------------------------
(***************************************************************************)
(* Operators, folded and written, for integers of any width.               *)
(***************************************************************************)

\* The integers of the width.
Ints == MinInt..MaxInt

LEMMA HalfInt == Half \in Int /\ Half > 0 /\ MinInt \in Int /\ MaxInt \in Int /\ MinInt <= MaxInt
BY HalfAssumption DEF MinInt, MaxInt

\* Wrapping gives an integer of the width, and the same one for one that fits.
LEMMA WrapFits ==
  ASSUME NEW n \in Int
  PROVE  Wrap(n) \in Ints /\ (n \in Ints => Wrap(n) = n)
BY HalfAssumption DEF Wrap, Ints, MinInt, MaxInt

\* What is multiplied is an integer.
LEMMA ExactIsInt ==
  ASSUME NEW op \in {"+", "-", "*"}, NEW a \in Int, NEW b \in Int
  PROVE  Exact(op, a, b) \in Int
BY DEF Exact

\* Division that floors: the remainder has the sign of the divisor.
LEMMA FloorDivides ==
  ASSUME NEW a \in Int, NEW b \in Int \ {0}
  PROVE  LET q == FloorDivide(a, b)
             r == a - q * b
         IN  /\ q \in Int /\ r \in Int
             /\ b > 0 => 0 <= r /\ r < b
             /\ b < 0 => b < r /\ r <= 0
<1> DEFINE q == FloorDivide(a, b)
<1>1. CASE b > 0
  <2>1. q = a \div b
    BY <1>1 DEF FloorDivide
  <2> HIDE DEF q
  <2>2. q \in Int
    BY <1>1, <2>1
  <2>3. q * b <= a /\ a < q * b + b
    BY <1>1, <2>1, <2>2
  <2> QED
    BY <1>1, <2>2, <2>3 DEF q
<1>2. CASE b < 0
  <2> DEFINE c == -b
             m == -a
  <2>1. c \in Int /\ c > 0 /\ m \in Int
    BY <1>2
  <2>2. q = m \div c
    BY <1>2 DEF FloorDivide
  <2> HIDE DEF c, m, q
  <2>3. q \in Int
    BY <2>1, <2>2
  <2>4. q * c <= m /\ m < q * c + c
    BY <2>1, <2>2, <2>3
  <2>5. q * c = -(q * b)
    BY <2>3 DEF c
  <2>6. q * b \in Int
    BY <2>3
  <2> QED
    BY <1>2, <2>3, <2>4, <2>5, <2>6 DEF c, m, q
<1> QED
  BY <1>1, <1>2

\* No other quotient leaves such a remainder.
LEMMA QuotientUnique ==
  ASSUME NEW b \in Int \ {0}, NEW p \in Int, NEW q \in Int,
         NEW r \in Int, NEW s \in Int, p * b + r = q * b + s,
         (b > 0 /\ 0 <= r /\ r < b /\ 0 <= s /\ s < b)
         \/ (b < 0 /\ b < r /\ r <= 0 /\ b < s /\ s <= 0)
  PROVE  p = q
<1> DEFINE d == p - q
<1>1. d \in Int /\ d * b = s - r
  <2>1. d * b = p * b - q * b
    OBVIOUS
  <2>2. p * b \in Int /\ q * b \in Int
    OBVIOUS
  <2> QED
    BY <2>1, <2>2
<1> HIDE DEF d
<1>3. CASE b > 0
  <2>1. d * b < b /\ -b < d * b
    BY <1>1, <1>3
  <2>2. d = 0
    BY <1>1, <1>3, <2>1
  <2> QED
    BY <2>2 DEF d
<1>4. CASE b < 0
  <2> DEFINE c == -b
  <2>1. c \in Int /\ c > 0 /\ d * c = -(d * b)
    BY <1>1, <1>4
  <2>2. d * b \in Int
    BY <1>1
  <2>3. d * c < c /\ -c < d * c
    BY <1>1, <1>4, <2>1, <2>2
  <2> HIDE DEF c
  <2>4. d = 0
    BY <1>1, <2>1, <2>3
  <2> QED
    BY <2>4 DEF d
<1> QED
  BY <1>3, <1>4

\* Division that truncates: the remainder has the sign of the dividend.
LEMMA TruncDivides ==
  ASSUME NEW a \in Int, NEW b \in Int \ {0}
  PROVE  LET q == TruncDivide(a, b)
             r == a - q * b
         IN  /\ q \in Int /\ r \in Int
             /\ a >= 0 => 0 <= r
             /\ a < 0 => r <= 0
             /\ b > 0 => -b < r /\ r < b
             /\ b < 0 => b < r /\ r < -b
<1> DEFINE q == TruncDivide(a, b)
           r == a - q * b
           m == IF a < 0 THEN -a ELSE a
           c == IF b < 0 THEN -b ELSE b
           k == FloorDivide(m, c)
<1> SUFFICES /\ q \in Int /\ r \in Int
             /\ a >= 0 => 0 <= r
             /\ a < 0 => r <= 0
             /\ b > 0 => -b < r /\ r < b
             /\ b < 0 => b < r /\ r < -b
  OBVIOUS
<1>1. m \in Int /\ c \in Int /\ c > 0 /\ m >= 0
  OBVIOUS
<1>2. q = IF (a < 0) = (b < 0) THEN k ELSE -k
  BY DEF TruncDivide
<1> HIDE DEF m, c, k, q
<1>3. k \in Int /\ m - k * c \in Int /\ 0 <= m - k * c /\ m - k * c < c
  BY <1>1, FloorDivides DEF k
<1>4. CASE a >= 0 /\ b > 0
  BY <1>2, <1>3, <1>4 DEF m, c
<1>5. CASE a >= 0 /\ b < 0
  <2>1. q = -k /\ m = a /\ c = -b
    BY <1>2, <1>5 DEF m, c
  <2>2. q * b = k * c
    BY <1>3, <2>1
  <2> QED
    BY <1>3, <1>5, <2>1, <2>2
<1>6. CASE a < 0 /\ b > 0
  <2>1. q = -k /\ m = -a /\ c = b
    BY <1>2, <1>6 DEF m, c
  <2>2. q * b = -(k * c) /\ k * c \in Int
    BY <1>1, <1>3, <2>1
  <2> QED
    BY <1>1, <1>3, <1>6, <2>1, <2>2
<1>7. CASE a < 0 /\ b < 0
  <2>1. q = k /\ m = -a /\ c = -b
    BY <1>2, <1>7 DEF m, c
  <2>2. q * b = -(k * c) /\ k * c \in Int
    BY <1>1, <1>3, <2>1
  <2> QED
    BY <1>1, <1>3, <1>7, <2>1, <2>2
<1> QED
  BY <1>4, <1>5, <1>6, <1>7

\* The helpers' way from one remainder to the other: add the divisor when the
\* signs differ, and take one from the quotient.
LEMMA FloorFromTrunc ==
  ASSUME NEW a \in Int, NEW b \in Int \ {0}
  PROVE  LET q == TruncDivide(a, b)
             r == a - q * b
             floors == r # 0 /\ (r < 0) # (b < 0)
         IN  /\ FloorDivide(a, b) = IF floors THEN q - 1 ELSE q
             /\ a - FloorDivide(a, b) * b = IF floors THEN r + b ELSE r
<1> DEFINE q == TruncDivide(a, b)
           r == a - q * b
           floors == r # 0 /\ (r < 0) # (b < 0)
           p == FloorDivide(a, b)
           s == a - p * b
           t == IF floors THEN q - 1 ELSE q
           u == IF floors THEN r + b ELSE r
<1>1. /\ q \in Int /\ r \in Int
      /\ b > 0 => -b < r /\ r < b
      /\ b < 0 => b < r /\ r < -b
  BY TruncDivides
<1>2. /\ p \in Int /\ s \in Int
      /\ b > 0 => 0 <= s /\ s < b
      /\ b < 0 => b < s /\ s <= 0
  <2> HIDE DEF p
  <2> QED
    BY FloorDivides DEF p
<1> HIDE DEF q
<1>3. t \in Int /\ u \in Int
  BY <1>1
<1>4. /\ b > 0 => 0 <= u /\ u < b
      /\ b < 0 => b < u /\ u <= 0
  BY <1>1
<1>5. t * b + u = a
  <2>1. q * b \in Int /\ (q - 1) * b = q * b - b
    BY <1>1
  <2> QED
    BY <1>1, <2>1
<1>6. p * b + s = a
  <2> HIDE DEF p
  <2>1. p * b \in Int
    BY <1>2
  <2> QED
    BY <2>1
<1>7. p = t
  <2> HIDE DEF p, s, t, u, floors
  <2> QED
    BY <1>2, <1>3, <1>4, <1>5, <1>6, QuotientUnique
<1>8. s = u
  <2> HIDE DEF p, t, u, floors
  <2>1. t * b \in Int
    BY <1>3
  <2> QED
    BY <1>3, <1>5, <1>7, <2>1
<1> QED
  BY <1>7, <1>8 DEF q

\* The literals of lowered programs. The analysis has given the sum, difference
\* or product of two integers their type.
Literals ==
  {Lit("int", n) : n \in Ints} \cup {Lit("float", x) : x \in Int}
  \cup {Lit("bool", b) : b \in BOOLEAN} \cup {Lit("nil", 0)}
Arithmetics == {"+", "-", "*"}
WellTyped(op, type, l, r) == op \in Arithmetics /\ Both(l, r, "int") => type = "int"

\* What an expression of Common Core is on a side, with these operands: `&&` and
\* `||` are the right operand unless the left one decides.
Meaning(lang, op, type, a, b) ==
  IF op \in {"&&", "||"} THEN IF a[2] = (op = "&&") THEN b ELSE a
  ELSE CoreBinary(lang, op, type, a, b)

\* CoreBinary, operator by operator.
LEMMA CoreOf ==
  ASSUME NEW lang, NEW op, NEW type, NEW a, NEW b
  PROVE  LET x == Convert(lang, type, a)[2]
             y == Convert(lang, type, b)[2]
             result == CoreBinary(lang, op, type, a, b)
         IN  /\ op \in Arithmetics => result = Numeric(lang, type, Exact(op, x, y))
             /\ op \in Comparisons => result = Bool(Truth(op, a, b))
             /\ op = "DivInt" /\ y # 0 => result = Numeric(lang, "int", FloorDivide(x, y))
             /\ op = "RemFloor" /\ y # 0 =>
                  result = Numeric(lang, type, x - FloorDivide(x, y) * y)
             /\ op = "RemTrunc" /\ y # 0 =>
                  result = Numeric(lang, type, x - TruncDivide(x, y) * y)
             /\ op \in {"DivInt", "RemFloor", "RemTrunc"} /\ y = 0 => result = Trap
<1> DEFINE x == Convert(lang, type, a)[2]
           y == Convert(lang, type, b)[2]
           result == CoreBinary(lang, op, type, a, b)
<1>1. op \in Arithmetics => result = Numeric(lang, type, Exact(op, x, y))
  BY DEF CoreBinary, Arithmetics, Comparisons, Orders
<1>2. op \in Comparisons => result = Bool(Truth(op, a, b))
  BY DEF CoreBinary, Comparisons, Orders
<1>3. op = "DivInt" => result = IF y = 0 THEN Trap ELSE Numeric(lang, "int", FloorDivide(x, y))
  BY DEF CoreBinary, Comparisons, Orders
<1>4. op = "RemFloor" =>
        result = IF y = 0 THEN Trap ELSE Numeric(lang, type, x - FloorDivide(x, y) * y)
  BY DEF CoreBinary, Comparisons, Orders
<1>5. op = "RemTrunc" =>
        result = IF y = 0 THEN Trap ELSE Numeric(lang, type, x - TruncDivide(x, y) * y)
  BY DEF CoreBinary, Comparisons, Orders
<1> QED
  BY <1>1, <1>2, <1>3, <1>4, <1>5

\* What folding (optimize.rs:140-240) makes of two literals is what the operator
\* is on every side the expression runs on: nothing that overflows is folded, and
\* no floats where the GPU's are used.
THEOREM FoldingKeepsTheMeaning ==
  ASSUME NEW op, NEW type, NEW l \in Literals, NEW r \in Literals,
         NEW d \in {"host", "gpu", "shared"}, NEW lang \in Sides(d),
         WellTyped(op, type, l, r), NEW e, FoldBinary(op, type, l, r, d) = <<e>>
  PROVE  Value(lang, e) = Meaning(lang, op, type, Value(lang, l), Value(lang, r))
<1> DEFINE a == Value(lang, l)
           b == Value(lang, r)
<1>1. lang \in {"host", "gpu"} /\ (d = "host" => lang = "host")
  BY DEF Sides
<1>2. /\ l[1] \in {"int", "float", "bool", "nil"} /\ r[1] \in {"int", "float", "bool", "nil"}
      /\ l[1] = "int" => l[2] \in Ints /\ a = <<"int", l[2]>>
      /\ r[1] = "int" => r[2] \in Ints /\ b = <<"int", r[2]>>
      /\ l[1] \in {"int", "float"} => l[2] \in Int
      /\ r[1] \in {"int", "float"} => r[2] \in Int
      /\ l[1] = "bool" => l[2] \in BOOLEAN
      /\ r[1] = "bool" => r[2] \in BOOLEAN
  BY HalfInt DEF Literals, Lit, Ints, Value
<1>3. /\ l[1] # "float" => a = <<l[1], l[2]>>
      /\ r[1] # "float" => b = <<r[1], r[2]>>
      /\ lang = "host" => a = <<l[1], l[2]>> /\ b = <<r[1], r[2]>>
  BY <1>2 DEF Value, Numeric, Precise
<1> HIDE DEF a, b
<1>4. CASE op \in Arithmetics /\ Both(l, r, "int")
  <2>0. type = "int"
    BY <1>4 DEF WellTyped
  <2>1. <<e>> = Checked(Exact(op, l[2], r[2]))
    <3>1. {l[1], r[1]} \subseteq LiteralKinds
      BY <1>2 DEF LiteralKinds
    <3>2. op \in {"+", "-", "*"} /\ Both(l, r, "int")
      BY <1>4 DEF Arithmetics
    <3>3. FoldBinary(op, type, l, r, d) = Checked(Exact(op, l[2], r[2]))
      BY <3>1, <3>2, Zenon DEF FoldBinary, Orders
    <3> QED
      BY <3>3
  <2>2. Exact(op, l[2], r[2]) \in Ints /\ e = Lit("int", Exact(op, l[2], r[2]))
    BY <2>1 DEF Checked, Ints
  <2>3. Wrap(Exact(op, l[2], r[2])) = Exact(op, l[2], r[2])
    BY <2>2, WrapFits, HalfInt DEF Ints
  <2>5. Convert(lang, type, a)[2] = l[2] /\ Convert(lang, type, b)[2] = r[2]
    BY <1>2, <1>4, <2>0 DEF Convert, Both
  <2>6. CoreBinary(lang, op, type, a, b) = Numeric(lang, "int", Exact(op, l[2], r[2]))
    BY <1>4, <2>0, <2>5, CoreOf
  <2>7. CoreBinary(lang, op, type, a, b) = <<"int", Exact(op, l[2], r[2])>>
    BY <2>3, <2>6 DEF Numeric
  <2>8. Value(lang, e) = <<"int", Exact(op, l[2], r[2])>>
    BY <2>2 DEF Value, Lit
  <2> QED
    BY <1>4, <2>7, <2>8 DEF Meaning, Arithmetics, a, b
<1>5. CASE op \in Arithmetics /\ ~Both(l, r, "int")
  <2>1. /\ type = "float" /\ d = "host" /\ IsNumber(l) /\ IsNumber(r)
        /\ e = Lit("float", Exact(op, l[2], r[2]))
    BY <1>2, <1>5 DEF FoldBinary, Arithmetics, LiteralKinds, Both, Orders
  <2>2. Value(lang, e) = <<"float", Exact(op, l[2], r[2])>>
    BY <1>1, <2>1 DEF Value, Lit, Numeric, Precise
  <2>3. Convert(lang, type, a)[2] = l[2] /\ Convert(lang, type, b)[2] = r[2]
    BY <1>1, <1>2, <1>3, <2>1 DEF Convert, Numeric, Precise, IsNumber
  <2>4. CoreBinary(lang, op, type, a, b) = Numeric(lang, "float", Exact(op, l[2], r[2]))
    BY <1>5, <2>1, <2>3, CoreOf
  <2>5. CoreBinary(lang, op, type, a, b) = <<"float", Exact(op, l[2], r[2])>>
    BY <1>1, <2>1, <2>4 DEF Numeric, Precise
  <2> QED
    BY <1>5, <2>2, <2>5 DEF Meaning, Arithmetics, a, b
<1>6. CASE op \in {"==", "!="}
  <2>1. /\ d = "host" \/ "float" \notin {l[1], r[1]}
        /\ e = Lit("bool", (l[1] = r[1] /\ l[2] = r[2]) = (op = "=="))
    BY <1>2, <1>6 DEF FoldBinary, Arithmetics, LiteralKinds, Both, Orders
  <2>2. a = <<l[1], l[2]>> /\ b = <<r[1], r[2]>>
    BY <1>1, <1>3, <2>1
  <2>3. (a = b) <=> (l[1] = r[1] /\ l[2] = r[2])
    BY <2>2
  <2>4. Value(lang, e) = Bool((a = b) = (op = "=="))
    BY <2>1, <2>3 DEF Value, Lit, Bool
  <2> QED
    BY <1>6, <2>4 DEF Meaning, CoreBinary, Comparisons, Orders, Truth, a, b
<1>7. CASE op \in Orders
  <2>1. /\ Both(l, r, "int") \/ (Both(l, r, "float") /\ d = "host")
        /\ e = Lit("bool", Truth(op, l, r))
    BY <1>2, <1>7 DEF FoldBinary, Arithmetics, LiteralKinds, Orders
  <2>2. a = <<l[1], l[2]>> /\ b = <<r[1], r[2]>>
    BY <1>1, <1>3, <2>1 DEF Both
  <2>3. Truth(op, l, r) = Truth(op, a, b)
    BY <1>7, <2>2 DEF Truth, Orders
  <2> QED
    BY <1>7, <2>1, <2>3 DEF Value, Lit, Bool, Meaning, CoreBinary, Comparisons, Orders, a, b
<1>8. CASE op \in {"&&", "||"}
  <2>1. /\ Both(l, r, "bool")
        /\ e = Lit("bool", IF op = "&&" THEN l[2] /\ r[2] ELSE l[2] \/ r[2])
    BY <1>2, <1>8 DEF FoldBinary, Arithmetics, LiteralKinds, Orders
  <2>2. a = <<"bool", l[2]>> /\ b = <<"bool", r[2]>>
    BY <1>3, <2>1 DEF Both
  <2> QED
    BY <1>2, <1>8, <2>1, <2>2 DEF Value, Lit, Meaning, Both, a, b
<1>9. op \in Arithmetics \cup Orders \cup {"==", "!=", "&&", "||"}
  BY <1>2 DEF FoldBinary, Arithmetics
<1> QED
  BY <1>4, <1>5, <1>6, <1>7, <1>8, <1>9

\* The same of a negation or a `!` of one literal.
THEOREM FoldedUnaryKeepsTheMeaning ==
  ASSUME NEW op, NEW l \in Literals, NEW d \in {"host", "gpu", "shared"},
         NEW lang \in Sides(d), NEW e, FoldUnary(op, l, d) = <<e>>
  PROVE  Value(lang, e) = CoreUnary(lang, op, l[1], Value(lang, l))
<1>1. lang \in {"host", "gpu"} /\ (d = "host" => lang = "host")
  BY DEF Sides
<1>2. /\ l[1] \in {"int", "float", "bool", "nil"}
      /\ l[1] = "int" => l[2] \in Ints
      /\ l[1] = "float" => l[2] \in Int
      /\ l[1] = "bool" => l[2] \in BOOLEAN
  BY DEF Literals, Lit
<1>3. /\ l[1] # "float" => Value(lang, l) = <<l[1], l[2]>>
      /\ lang = "host" => Value(lang, l) = <<l[1], l[2]>>
  BY <1>2 DEF Value, Numeric, Precise
<1>4. CASE op = "-" /\ l[1] = "int"
  <2>1. <<e>> = Checked(-l[2])
    BY <1>4 DEF FoldUnary
  <2>2. -l[2] \in Ints /\ e = Lit("int", -l[2])
    BY <2>1 DEF Checked, Ints
  <2>3. Wrap(-l[2]) = -l[2]
    BY <2>2, WrapFits, HalfInt DEF Ints
  <2>4. Value(lang, e) = <<"int", -l[2]>>
    BY <2>2 DEF Value, Lit
  <2>5. CoreUnary(lang, op, l[1], Value(lang, l)) = Numeric(lang, "int", -l[2])
    BY <1>3, <1>4 DEF CoreUnary
  <2> QED
    BY <2>3, <2>4, <2>5 DEF Numeric
<1>5. CASE op = "-" /\ l[1] = "float" /\ d = "host"
  <2>1. e = Lit("float", -l[2])
    BY <1>5 DEF FoldUnary
  <2>2. Value(lang, e) = Numeric(lang, "float", -l[2])
    BY <2>1 DEF Value, Lit
  <2> QED
    BY <1>1, <1>3, <1>5, <2>2 DEF CoreUnary
<1>6. CASE op = "!" /\ l[1] = "bool"
  <2>1. e = Lit("bool", ~l[2])
    BY <1>6 DEF FoldUnary
  <2>2. Value(lang, e) = <<"bool", ~l[2]>>
    BY <2>1 DEF Value, Lit
  <2> QED
    BY <1>3, <1>6, <2>2 DEF CoreUnary, Bool
<1>7. \/ op = "-" /\ l[1] = "int"
      \/ op = "-" /\ l[1] = "float" /\ d = "host"
      \/ op = "!" /\ l[1] = "bool"
  BY DEF FoldUnary
<1> QED
  BY <1>4, <1>5, <1>6, <1>7

-----------------------------------------------------------------------------
\* What the JavaScript is that JsBinary and JsUnary write, when its operands are
\* vs (CommonCore!Operate, for an operator inside of `|0` as well).
JsMeaning(e, vs) ==
  IF e[1] = "helper" THEN JsHelper(e[2], vs[1][2], vs[2][2])
  ELSE IF e[2] = "|0" THEN JsOperator("|0", <<JsOperator(e[4][1][2], vs)>>)
  ELSE JsOperator(e[2], vs)

\* JsOperator, operator by operator.
LEMMA JsOf ==
  ASSUME NEW op, NEW vs
  PROVE  /\ op \in Arithmetics => JsOperator(op, vs) = Num(Exact(op, vs[1][2], vs[2][2]))
         /\ op = "|0" => JsOperator(op, vs) = Num(Wrap(vs[1][2]))
         /\ op = "Math.imul" => JsOperator(op, vs) = Num(Wrap(vs[1][2] * vs[2][2]))
         /\ op = "%" => JsOperator(op, vs) =
              IF vs[2][2] = 0 THEN <<"nan", 0>>
              ELSE Num(vs[1][2] - TruncDivide(vs[1][2], vs[2][2]) * vs[2][2])
         /\ op \in Comparisons => JsOperator(op, vs) = Bool(Truth(op, vs[1], vs[2]))
         /\ op = "negate" => JsOperator(op, vs) = Num(-vs[1][2])
<1>1. op \in Arithmetics => JsOperator(op, vs) = Num(Exact(op, vs[1][2], vs[2][2]))
  BY DEF JsOperator, Arithmetics, Comparisons, Orders
<1>2. op = "|0" => JsOperator(op, vs) = Num(Wrap(vs[1][2]))
  BY DEF JsOperator, Comparisons, Orders
<1>3. op = "Math.imul" => JsOperator(op, vs) = Num(Wrap(vs[1][2] * vs[2][2]))
  BY DEF JsOperator, Comparisons, Orders
<1>4. op = "%" => JsOperator(op, vs) =
        IF vs[2][2] = 0 THEN <<"nan", 0>>
        ELSE Num(vs[1][2] - TruncDivide(vs[1][2], vs[2][2]) * vs[2][2])
  BY DEF JsOperator, Comparisons, Orders
<1>5. op \in Comparisons => JsOperator(op, vs) = Bool(Truth(op, vs[1], vs[2]))
  BY DEF JsOperator, Comparisons, Orders
<1>6. op = "negate" => JsOperator(op, vs) = Num(-vs[1][2])
  BY DEF JsOperator, Comparisons, Orders
<1> QED
  BY <1>1, <1>2, <1>3, <1>4, <1>5, <1>6

\* JsHelper, function by function.
LEMMA JsHelperOf ==
  ASSUME NEW name, NEW a, NEW b
  PROVE  /\ name = "__pglFloorRemainder" => JsHelper(name, a, b) = Num(JsRemainder(a, b))
         /\ name = "__pglIntDivide" => JsHelper(name, a, b) =
              IF b = 0 THEN Trap ELSE Num(Wrap(FloorDivide(a, b)))
         /\ name = "__pglIntFloorRemainder" => JsHelper(name, a, b) =
              IF b = 0 THEN Trap ELSE Num(Wrap(JsRemainder(a, b)))
         /\ name = "__pglIntTruncatingRemainder" => JsHelper(name, a, b) =
              IF b = 0 THEN Trap ELSE Num(Wrap(a - TruncDivide(a, b) * b))
<1>1. name = "__pglFloorRemainder" => JsHelper(name, a, b) = Num(JsRemainder(a, b))
  <2>1. ASSUME name = "__pglFloorRemainder"
        PROVE  JsHelper(name, a, b) = Num(JsRemainder(a, b))
    <3>1. name # "__pglIntDivide" /\ name # "__pglIntFloorRemainder"
          /\ name # "__pglIntTruncatingRemainder"
      BY <2>1
    <3>2. b = 0 \/ b # 0
      OBVIOUS
    <3> QED
      BY <2>1, <3>1, <3>2, Zenon DEF JsHelper
  <2> QED
    BY <2>1
<1>2. name = "__pglIntDivide" => JsHelper(name, a, b) =
        IF b = 0 THEN Trap ELSE Num(Wrap(FloorDivide(a, b)))
  BY Zenon DEF JsHelper
<1>3. name = "__pglIntFloorRemainder" => JsHelper(name, a, b) =
        IF b = 0 THEN Trap ELSE Num(Wrap(JsRemainder(a, b)))
  BY Zenon DEF JsHelper
<1>4. name = "__pglIntTruncatingRemainder" => JsHelper(name, a, b) =
        IF b = 0 THEN Trap ELSE Num(Wrap(a - TruncDivide(a, b) * b))
  BY Zenon DEF JsHelper
<1> QED
  BY <1>1, <1>2, <1>3, <1>4

\* JavaScript's remainder, corrected, is the one that floors.
LEMMA JsRemainderFloors ==
  ASSUME NEW a \in Int, NEW b \in Int \ {0}
  PROVE  JsRemainder(a, b) = a - FloorDivide(a, b) * b
BY FloorFromTrunc DEF JsRemainder

\* What JsBinary writes for an operator of integers, and what that is.
LEMMA JsOfInts ==
  ASSUME NEW op, NEW args, NEW a, NEW b
  PROVE  LET js == JsMeaning(JsBinary(op, "int", args), <<Num(a), Num(b)>>)
         IN  /\ op \in {"+", "-"} => js = Num(Wrap(Exact(op, a, b)))
             /\ op = "*" => js = Num(Wrap(a * b))
             /\ op = "DivInt" => js = IF b = 0 THEN Trap ELSE Num(Wrap(FloorDivide(a, b)))
             /\ op = "RemFloor" => js = IF b = 0 THEN Trap ELSE Num(Wrap(JsRemainder(a, b)))
             /\ op = "RemTrunc" =>
                  js = IF b = 0 THEN Trap ELSE Num(Wrap(a - TruncDivide(a, b) * b))
<1> DEFINE vs == <<Num(a), Num(b)>>
           code == JsBinary(op, "int", args)
           js == JsMeaning(code, vs)
<1>0. vs[1][2] = a /\ vs[2][2] = b
  BY DEF Num
<1> HIDE DEF vs
<1>1. ASSUME op \in {"+", "-"} PROVE js = Num(Wrap(Exact(op, a, b)))
  <2>1. code = Op("|0", <<Op(op, args)>>)
    BY <1>1, Zenon DEF JsBinary, JsHelperNames
  <2>2. js = JsOperator("|0", <<JsOperator(op, vs)>>)
    BY <2>1 DEF JsMeaning, Op
  <2>3. JsOperator(op, vs) = Num(Exact(op, a, b))
    BY <1>0, <1>1, JsOf DEF Arithmetics
  <2>4. JsOperator("|0", <<JsOperator(op, vs)>>) = Num(Wrap(<<JsOperator(op, vs)>>[1][2]))
    BY JsOf
  <2> QED
    BY <2>2, <2>3, <2>4 DEF Num
<1>2. ASSUME op = "*" PROVE js = Num(Wrap(a * b))
  <2>1. code = Op("Math.imul", args)
    BY <1>2, Zenon DEF JsBinary, JsHelperNames
  <2>2. js = JsOperator("Math.imul", vs)
    BY <2>1 DEF JsMeaning, Op
  <2> QED
    BY <1>0, <2>2, JsOf
<1>3. ASSUME op \in {"DivInt", "RemFloor", "RemTrunc"}
      PROVE  js = JsHelper(JsHelperNames[op], a, b)
  <2>1. op \in DOMAIN JsHelperNames
    BY <1>3 DEF JsHelperNames
  <2>2. code = <<"helper", JsHelperNames[op], "any", args>>
    BY <1>3, <2>1, Zenon DEF JsBinary
  <2> QED
    BY <1>0, <2>2 DEF JsMeaning
<1>4. op = "DivInt" => js = IF b = 0 THEN Trap ELSE Num(Wrap(FloorDivide(a, b)))
  BY <1>3, JsHelperOf DEF JsHelperNames
<1>5. op = "RemFloor" => js = IF b = 0 THEN Trap ELSE Num(Wrap(JsRemainder(a, b)))
  BY <1>3, JsHelperOf DEF JsHelperNames
<1>6. op = "RemTrunc" => js = IF b = 0 THEN Trap ELSE Num(Wrap(a - TruncDivide(a, b) * b))
  BY <1>3, JsHelperOf DEF JsHelperNames
<1> QED
  BY <1>1, <1>2, <1>4, <1>5, <1>6 DEF vs

\* The JavaScript for an operator of integers, on any two of them, is what
\* Common Core makes of them, the traps included: sums are wrapped by `|0`,
\* products by Math.imul, and the helpers correct JavaScript's remainder.
THEOREM JsIntegersKeepTheMeaning ==
  ASSUME NEW op \in Arithmetics \cup {"DivInt", "RemFloor", "RemTrunc"}, NEW args,
         NEW a \in Ints, NEW b \in Ints
  PROVE  JsMeaning(JsBinary(op, "int", args), <<Num(a), Num(b)>>) =
           Erase(CoreBinary("host", op, "int", <<"int", a>>, <<"int", b>>))
<1> DEFINE js == JsMeaning(JsBinary(op, "int", args), <<Num(a), Num(b)>>)
           core == CoreBinary("host", op, "int", <<"int", a>>, <<"int", b>>)
<1>1. a \in Int /\ b \in Int
  BY HalfInt DEF Ints
<1>2. Convert("host", "int", <<"int", a>>)[2] = a /\ Convert("host", "int", <<"int", b>>)[2] = b
  BY DEF Convert
<1>3. /\ op \in Arithmetics => core = <<"int", Wrap(Exact(op, a, b))>>
      /\ op = "DivInt" /\ b # 0 => core = <<"int", Wrap(FloorDivide(a, b))>>
      /\ op = "RemFloor" /\ b # 0 => core = <<"int", Wrap(a - FloorDivide(a, b) * b)>>
      /\ op = "RemTrunc" /\ b # 0 => core = <<"int", Wrap(a - TruncDivide(a, b) * b)>>
      /\ op \in {"DivInt", "RemFloor", "RemTrunc"} /\ b = 0 => core = Trap
  BY <1>2, CoreOf DEF Numeric
<1>4. \A n : Erase(<<"int", n>>) = Num(n)
  BY DEF Erase, Num, Unit
<1>5. Erase(Trap) = Trap
  BY DEF Erase, Trap, Unit
<1>6. b # 0 => JsRemainder(a, b) = a - FloorDivide(a, b) * b
  BY <1>1, JsRemainderFloors
<1>7. op = "*" => Exact(op, a, b) = a * b
  BY DEF Exact
<1> HIDE DEF js, core
<1>8. CASE op \in {"+", "-"}
  BY <1>3, <1>4, <1>8, JsOfInts DEF Arithmetics, js, core
<1>9. CASE op = "*"
  BY <1>3, <1>4, <1>7, <1>9, JsOfInts DEF Arithmetics, js, core
<1>10. CASE op \in {"DivInt", "RemFloor", "RemTrunc"}
  BY <1>3, <1>4, <1>5, <1>6, <1>10, JsOfInts DEF js, core
<1> QED
  BY <1>8, <1>9, <1>10 DEF Arithmetics

\* The JavaScript for an operator of floats, whose operands may be integers.
\* Common Core says of integers only what a remainder by 0 is.
THEOREM JsFloatsKeepTheMeaning ==
  ASSUME NEW op \in Arithmetics \cup {"RemFloor", "RemTrunc"}, NEW args,
         NEW t \in {"int", "float"}, NEW u \in {"int", "float"},
         NEW a \in Int, NEW b \in Int, op \in Arithmetics \/ b # 0
  PROVE  JsMeaning(JsBinary(op, "float", args), <<Erase(<<t, a>>), Erase(<<u, b>>)>>) =
           Erase(CoreBinary("host", op, "float", <<t, a>>, <<u, b>>))
<1> DEFINE vs == <<Num(a), Num(b)>>
           code == JsBinary(op, "float", args)
           js == JsMeaning(code, vs)
           core == CoreBinary("host", op, "float", <<t, a>>, <<u, b>>)
<1>1. Erase(<<t, a>>) = Num(a) /\ Erase(<<u, b>>) = Num(b)
  BY DEF Erase, Num, Unit
<1>2. vs[1][2] = a /\ vs[2][2] = b
  BY DEF Num
<1>3. \A n : Numeric("host", "float", n) = <<"float", n>>
  BY DEF Numeric, Precise
<1>4. Convert("host", "float", <<t, a>>)[2] = a /\ Convert("host", "float", <<u, b>>)[2] = b
  BY <1>3 DEF Convert
<1>5. \A n : Erase(<<"float", n>>) = Num(n)
  BY DEF Erase, Num, Unit
<1>6. /\ op \in Arithmetics => core = <<"float", Exact(op, a, b)>>
      /\ op = "RemFloor" => core = <<"float", a - FloorDivide(a, b) * b>>
      /\ op = "RemTrunc" => core = <<"float", a - TruncDivide(a, b) * b>>
  BY <1>3, <1>4, CoreOf DEF Arithmetics
<1> HIDE DEF vs, core
<1>7. CASE op \in Arithmetics
  <2>1. code = Op(op, args)
    BY <1>7, Zenon DEF JsBinary, Arithmetics
  <2>2. js = JsOperator(op, vs)
    BY <1>7, <2>1 DEF JsMeaning, Op, Arithmetics
  <2> QED
    BY <1>1, <1>2, <1>5, <1>6, <1>7, <2>2, JsOf DEF core, vs
<1>8. CASE op = "RemFloor"
  <2>1. code = <<"helper", "__pglFloorRemainder", "any", args>>
    BY <1>8, Zenon DEF JsBinary
  <2>2. js = JsHelper("__pglFloorRemainder", a, b)
    BY <1>2, <2>1 DEF JsMeaning
  <2>3. js = Num(JsRemainder(a, b))
    BY <2>2, JsHelperOf
  <2>4. JsRemainder(a, b) = a - FloorDivide(a, b) * b
    BY <1>8, JsRemainderFloors DEF Arithmetics
  <2> QED
    BY <1>1, <1>5, <1>6, <1>8, <2>3, <2>4 DEF core, vs
<1>9. CASE op = "RemTrunc"
  <2>1. code = Op("%", args)
    BY <1>9, Zenon DEF JsBinary
  <2>2. js = JsOperator("%", vs)
    BY <2>1 DEF JsMeaning, Op
  <2>3. b # 0
    BY <1>9 DEF Arithmetics
  <2> QED
    BY <1>1, <1>2, <1>5, <1>6, <1>9, <2>2, <2>3, JsOf DEF core, vs
<1> QED
  BY <1>7, <1>8, <1>9

\* The JavaScript for a comparison of two values of a type.
THEOREM JsComparisonsKeepTheMeaning ==
  ASSUME NEW op \in {"==", "!="} \cup Orders, NEW type, NEW args,
         NEW t \in {"int", "float", "bool"}, NEW a, NEW b
  PROVE  JsMeaning(JsBinary(op, type, args), <<Erase(<<t, a>>), Erase(<<t, b>>)>>) =
           Erase(CoreBinary("host", op, type, <<t, a>>, <<t, b>>))
<1> DEFINE v == Erase(<<t, a>>)
           w == Erase(<<t, b>>)
           vs == <<v, w>>
           jsop == IF op = "==" THEN "===" ELSE IF op = "!=" THEN "!==" ELSE op
           code == JsBinary(op, type, args)
           js == JsMeaning(code, vs)
           core == CoreBinary("host", op, type, <<t, a>>, <<t, b>>)
<1>1. \E k : v = <<k, a>> /\ w = <<k, b>>
  BY DEF Erase, Unit
<1>2. vs[1] = v /\ vs[2] = w
  OBVIOUS
<1> HIDE DEF v, w, vs
<1>3. Truth(jsop, v, w) = Truth(op, <<t, a>>, <<t, b>>)
  <2>0. PICK k : v = <<k, a>> /\ w = <<k, b>>
    BY <1>1
  <2>1. (v = w <=> a = b) /\ (<<t, a>> = <<t, b>> <=> a = b) /\ v[2] = a /\ w[2] = b
    BY <2>0
  <2>2. CASE op \in {"==", "!="}
    BY <2>1, <2>2 DEF Truth
  <2>3. CASE op \in Orders
    BY <2>1, <2>3 DEF Truth, Orders
  <2> QED
    BY <2>2, <2>3
<1>4. code = Op(jsop, args)
  <2>1. op \notin DOMAIN JsHelperNames
    BY DEF JsHelperNames, Orders
  <2>2. CASE op = "=="
    BY <2>1, <2>2, Zenon DEF JsBinary
  <2>3. CASE op = "!="
    BY <2>1, <2>3, Zenon DEF JsBinary
  <2>4. CASE op \in Orders
    BY <2>1, <2>4, Zenon DEF JsBinary, Orders
  <2> QED
    BY <2>2, <2>3, <2>4
<1>5. jsop \in Comparisons /\ op \in Comparisons /\ jsop # "|0"
  BY DEF Comparisons, Orders
<1>6. js = JsOperator(jsop, vs)
  BY <1>4, <1>5 DEF JsMeaning, Op
<1>7. js = Bool(Truth(jsop, v, w))
  BY <1>2, <1>5, <1>6, JsOf
<1>8. core = Bool(Truth(op, <<t, a>>, <<t, b>>))
  BY <1>5, CoreOf
<1>9. \A x : Erase(Bool(x)) = Bool(x)
  BY DEF Erase, Bool, Unit
<1> QED
  BY <1>3, <1>7, <1>8, <1>9 DEF v, w, vs

\* The JavaScript for a minus and a `!`: the operand of the minus is written
\* without one of its own.
THEOREM JsUnaryKeepsTheMeaning ==
  ASSUME NEW arg, ~NegativeLiteral(arg), NEW t \in {"int", "float"}, NEW a, NEW x \in BOOLEAN
  PROVE  /\ JsMeaning(JsUnary("-", t, arg), <<Num(a)>>) =
              Erase(CoreUnary("host", "-", t, <<t, a>>))
         /\ JsMeaning(JsUnary("!", "bool", arg), <<Bool(x)>>) =
              Erase(CoreUnary("host", "!", "bool", Bool(x)))
<1>1. Negate(arg) = Op("negate", <<arg>>)
  BY DEF Negate
<1>2. JsOperator("negate", <<Num(a)>>) = Num(-a)
  <2>1. JsOperator("negate", <<Num(a)>>) = Num(-<<Num(a)>>[1][2])
    BY JsOf
  <2> QED
    BY <2>1 DEF Num
<1>3. CoreUnary("host", "-", t, <<t, a>>) = Numeric("host", t, -a)
  BY DEF CoreUnary
<1> DEFINE js == JsMeaning(JsUnary("-", t, arg), <<Num(a)>>)
           core == Erase(CoreUnary("host", "-", t, <<t, a>>))
<1>4. t = "int" => js = core
  <2> SUFFICES ASSUME t = "int" PROVE js = core
    OBVIOUS
  <2>1. JsUnary("-", t, arg) = Op("|0", <<Op("negate", <<arg>>)>>)
    BY <1>1 DEF JsUnary
  <2>2. js = JsOperator("|0", <<Num(-a)>>)
    BY <1>2, <2>1 DEF JsMeaning, Op
  <2>3. JsOperator("|0", <<Num(-a)>>) = Num(Wrap(<<Num(-a)>>[1][2]))
    BY JsOf
  <2>4. js = Num(Wrap(-a))
    BY <2>2, <2>3 DEF Num
  <2>5. core = Num(Wrap(-a))
    BY <1>3 DEF Numeric, Erase, Num, Unit
  <2> QED
    BY <2>4, <2>5
<1>5. t = "float" => js = core
  <2> SUFFICES ASSUME t = "float" PROVE js = core
    OBVIOUS
  <2>1. JsUnary("-", t, arg) = Op("negate", <<arg>>)
    BY <1>1 DEF JsUnary
  <2>2. js = Num(-a)
    BY <1>2, <2>1 DEF JsMeaning, Op
  <2>3. core = Num(-a)
    BY <1>3 DEF Numeric, Precise, Erase, Num, Unit
  <2> QED
    BY <2>2, <2>3
<1>6. JsMeaning(JsUnary("!", "bool", arg), <<Bool(x)>>) =
        Erase(CoreUnary("host", "!", "bool", Bool(x)))
  <2>1. JsUnary("!", "bool", arg) = Op("!", <<arg>>)
    BY DEF JsUnary
  <2>2. JsMeaning(JsUnary("!", "bool", arg), <<Bool(x)>>) = JsOperator("!", <<Bool(x)>>)
    BY <2>1 DEF JsMeaning, Op
  <2>3. JsOperator("!", <<Bool(x)>>) = Bool(~x)
    BY DEF JsOperator, Bool, Comparisons, Orders
  <2>4. CoreUnary("host", "!", "bool", Bool(x)) = Bool(~x)
    BY DEF CoreUnary, Bool
  <2>5. Erase(Bool(~x)) = Bool(~x)
    BY DEF Erase, Bool, Unit
  <2> QED
    BY <2>2, <2>3, <2>4, <2>5
<1> QED
  BY <1>4, <1>5, <1>6

-----------------------------------------------------------------------------
\* What the GLSL is that GlslBinary writes, when its operands are vs.
GlslMeaning(e, vs) ==
  IF e[1] = "helper" THEN <<"int", GlslHelper(e[2], vs[1][2], vs[2][2])>>
  ELSE GlslOperator(e[2], vs)

\* A product by a positive factor keeps the order.
LEMMA TimesKeepsOrder ==
  ASSUME NEW x \in Int, NEW y \in Int, NEW c \in Int, x <= y, c >= 0
  PROVE  x * c <= y * c
<1> DEFINE d == y - x
<1>1. d \in Int /\ d >= 0
  OBVIOUS
<1>2. d * c >= 0
  BY <1>1
<1>3. d * c = y * c - x * c
  OBVIOUS
<1>4. x * c \in Int /\ y * c \in Int
  OBVIOUS
<1> HIDE DEF d
<1> QED
  BY <1>2, <1>3, <1>4

\* Every quotient of two integers is an integer, the smallest one's by -1 apart.
LEMMA QuotientFits ==
  ASSUME NEW a \in Ints, NEW b \in Ints \ {0}, ~(a = MinInt /\ b = -1)
  PROVE  FloorDivide(a, b) \in Ints
<1> DEFINE m == IF b > 0 THEN a ELSE -a
           c == IF b > 0 THEN b ELSE -b
           q == m \div c
           n == q + 1
<1>1. /\ m \in Int /\ c \in Int /\ c > 0 /\ Half \in Int /\ Half > 0
      /\ -Half <= m /\ m <= Half
      /\ m = -Half => b > 0
      /\ m = Half => c >= 2
  BY HalfInt DEF Ints, MinInt, MaxInt
<1>2. FloorDivide(a, b) = q
  BY DEF FloorDivide
<1> HIDE DEF m, c, q
<1>3. q \in Int /\ q * c <= m /\ m < n * c
  <2>1. q \in Int
    BY <1>1 DEF q
  <2>2. q * c <= m /\ m < q * c + c
    BY <1>1, <2>1 DEF q
  <2>3. n * c = q * c + c
    BY <1>1, <2>1
  <2> QED
    BY <2>1, <2>2, <2>3
<1>4. q < Half
  <2> SUFFICES ASSUME q >= Half PROVE FALSE
    BY <1>1, <1>3
  <2>1. Half * c <= q * c
    BY <1>1, <1>3, TimesKeepsOrder
  <2>2. Half * c <= m
    BY <1>1, <1>3, <2>1
  <2>3. CASE c = 1
    BY <1>1, <2>2, <2>3
  <2>4. CASE c >= 2
    <3>1. 2 * Half <= c * Half
      BY <1>1, <2>4, TimesKeepsOrder
    <3>2. c * Half = Half * c
      BY <1>1
    <3> QED
      BY <1>1, <2>2, <3>1, <3>2
  <2> QED
    BY <1>1, <2>3, <2>4
<1>5. q >= -Half
  <2> SUFFICES ASSUME q < -Half PROVE FALSE
    BY <1>1, <1>3
  <2>1. n \in Int /\ n <= -Half
    BY <1>1, <1>3
  <2>2. n * c <= (-Half) * c
    BY <1>1, <2>1, TimesKeepsOrder
  <2>3. 1 * Half <= c * Half
    BY <1>1, TimesKeepsOrder
  <2>4. (-Half) * c = -(c * Half)
    BY <1>1
  <2>5. n * c \in Int /\ c * Half \in Int
    BY <1>1, <2>1
  <2> QED
    BY <1>1, <1>3, <2>2, <2>3, <2>4, <2>5
<1> QED
  BY <1>1, <1>2, <1>3, <1>4, <1>5 DEF Ints, MinInt, MaxInt

\* The remainders of integers are integers: they are closer to 0 than the divisor.
LEMMA RemaindersFit ==
  ASSUME NEW a \in Ints, NEW b \in Ints \ {0}
  PROVE  a - FloorDivide(a, b) * b \in Ints /\ a - TruncDivide(a, b) * b \in Ints
<1>1. a \in Int /\ b \in Int \ {0} /\ -Half <= b /\ b < Half /\ Half \in Int
  BY HalfInt DEF Ints, MinInt, MaxInt
<1> DEFINE r == a - FloorDivide(a, b) * b
           s == a - TruncDivide(a, b) * b
<1>2. r \in Int /\ (b > 0 => 0 <= r /\ r < b) /\ (b < 0 => b < r /\ r <= 0)
  BY <1>1, FloorDivides
<1>3. s \in Int /\ (b > 0 => -b < s /\ s < b) /\ (b < 0 => b < s /\ s < -b)
  BY <1>1, TruncDivides
<1> HIDE DEF r, s
<1>4. r \in Ints /\ s \in Ints
  BY <1>1, <1>2, <1>3 DEF Ints, MinInt, MaxInt
<1> QED
  BY <1>4 DEF r, s

\* GlslHelper, function by function.
LEMMA GlslHelperOf ==
  ASSUME NEW name, NEW a \in Int, NEW b \in Int \ {0}
  PROVE  /\ a = MinInt /\ b = -1 =>
              GlslHelper(name, a, b) = IF name = "pgl_int_div" THEN a ELSE 0
         /\ ~(a = MinInt /\ b = -1) =>
              /\ name = "pgl_int_div" => GlslHelper(name, a, b) = FloorDivide(a, b)
              /\ name = "pgl_floor_mod" => GlslHelper(name, a, b) = a - FloorDivide(a, b) * b
              /\ name = "pgl_trunc_mod" => GlslHelper(name, a, b) = a - TruncDivide(a, b) * b
<1> DEFINE quotient == TruncDivide(a, b)
           remainder == a - quotient * b
           floors == remainder # 0 /\ (remainder < 0) # (b < 0)
<1>1. /\ FloorDivide(a, b) = IF floors THEN quotient - 1 ELSE quotient
      /\ a - FloorDivide(a, b) * b = IF floors THEN remainder + b ELSE remainder
  BY FloorFromTrunc
<1> HIDE DEF quotient
<1>2. b # 0
  OBVIOUS
<1>3. a = MinInt /\ b = -1 => GlslHelper(name, a, b) = IF name = "pgl_int_div" THEN a ELSE 0
  BY <1>2, Zenon DEF GlslHelper
<1>4. ASSUME ~(a = MinInt /\ b = -1), name = "pgl_int_div"
      PROVE  GlslHelper(name, a, b) = IF floors THEN quotient - 1 ELSE quotient
  BY <1>2, <1>4, Zenon DEF GlslHelper, quotient
<1>5. ASSUME ~(a = MinInt /\ b = -1), name = "pgl_floor_mod"
      PROVE  GlslHelper(name, a, b) = IF floors THEN remainder + b ELSE remainder
  BY <1>2, <1>5, Zenon DEF GlslHelper, quotient
<1>6. ASSUME ~(a = MinInt /\ b = -1), name = "pgl_trunc_mod"
      PROVE  GlslHelper(name, a, b) = remainder
  BY <1>2, <1>6, Zenon DEF GlslHelper, quotient
<1> QED
  BY <1>1, <1>3, <1>4, <1>5, <1>6 DEF quotient

\* GlslOperator on operands of one type, operator by operator.
LEMMA GlslOf ==
  ASSUME NEW op, NEW t, NEW a, NEW b
  PROVE  LET result == GlslOperator(op, <<<<t, a>>, <<t, b>>>>)
         IN  /\ op \in Arithmetics => result = Numeric("glsl", t, Exact(op, a, b))
             /\ op \in Comparisons => result = Bool(Truth(op, <<t, a>>, <<t, b>>))
             /\ op \in {"mod", "trunc"} /\ t = "float" => result = GlslRemainder(op, a, b)
<1> DEFINE vs == <<<<t, a>>, <<t, b>>>>
<1>1. vs[1] = <<t, a>> /\ vs[2] = <<t, b>> /\ vs[1][2] = a /\ vs[2][2] = b
      /\ vs[1][1] = t /\ vs[2][1] = t
  OBVIOUS
<1> HIDE DEF vs
<1>2. op \in Arithmetics => GlslOperator(op, vs) = Numeric("glsl", t, Exact(op, a, b))
  <2> SUFFICES ASSUME op \in Arithmetics
               PROVE  GlslOperator(op, vs) = Numeric("glsl", t, Exact(op, a, b))
    OBVIOUS
  <2>1. GlslOperator(op, vs) = Numeric("glsl", vs[1][1], Exact(op, vs[1][2], vs[2][2]))
    BY <1>1 DEF GlslOperator, Arithmetics, Comparisons, Orders
  <2> QED
    BY <1>1, <2>1
<1>3. op \in Comparisons => GlslOperator(op, vs) = Bool(Truth(op, vs[1], vs[2]))
  BY <1>1 DEF GlslOperator, Comparisons, Orders
<1>4. op \in {"mod", "trunc"} /\ t = "float" =>
        GlslOperator(op, vs) = GlslRemainder(op, vs[1][2], vs[2][2])
  BY <1>1 DEF GlslOperator, Comparisons, Orders
<1> QED
  BY <1>1, <1>2, <1>3, <1>4 DEF vs

\* The GLSL for an operator of integers is what Common Core makes of any two of
\* them, the smallest one by -1 included. Split lets no divisor through that may
\* be 0 (FormIsFinite).
THEOREM GlslIntegersKeepTheMeaning ==
  ASSUME NEW op \in Arithmetics \cup {"DivInt", "RemFloor", "RemTrunc"}, NEW args,
         NEW a \in Ints, NEW b \in Ints, op \in Arithmetics \/ b # 0
  PROVE  GlslMeaning(GlslBinary(op, "int", args), <<<<"int", a>>, <<"int", b>>>>) =
           CoreBinary("gpu", op, "int", <<"int", a>>, <<"int", b>>)
<1> DEFINE vs == <<<<"int", a>>, <<"int", b>>>>
           code == GlslBinary(op, "int", args)
           glsl == GlslMeaning(code, vs)
           core == CoreBinary("gpu", op, "int", <<"int", a>>, <<"int", b>>)
<1>1. a \in Int /\ b \in Int
  BY HalfInt DEF Ints
<1>2. Convert("gpu", "int", <<"int", a>>)[2] = a /\ Convert("gpu", "int", <<"int", b>>)[2] = b
  BY DEF Convert
<1>3. /\ op \in Arithmetics => core = <<"int", Wrap(Exact(op, a, b))>>
      /\ op = "DivInt" /\ b # 0 => core = <<"int", Wrap(FloorDivide(a, b))>>
      /\ op = "RemFloor" /\ b # 0 => core = <<"int", Wrap(a - FloorDivide(a, b) * b)>>
      /\ op = "RemTrunc" /\ b # 0 => core = <<"int", Wrap(a - TruncDivide(a, b) * b)>>
  BY <1>2, CoreOf DEF Numeric
<1>4. vs[1][2] = a /\ vs[2][2] = b
  OBVIOUS
<1> HIDE DEF vs, core
<1>5. CASE op \in Arithmetics
  <2>1. code = Op(op, args)
    BY <1>5 DEF GlslBinary, GlslHelperNames, Arithmetics
  <2>2. glsl = GlslOperator(op, vs)
    BY <2>1 DEF GlslMeaning, Op
  <2>3. glsl = Numeric("glsl", "int", Exact(op, a, b))
    BY <1>5, <2>2, GlslOf DEF vs
  <2> QED
    BY <1>3, <1>5, <2>3 DEF Numeric, vs, core
<1>6. CASE op \in {"DivInt", "RemFloor", "RemTrunc"}
  <2>0. b # 0
    BY <1>6 DEF Arithmetics
  <2>1. code = <<"helper", GlslHelperNames[op], "int", args>>
    <3>1. op \in DOMAIN GlslHelperNames
      BY <1>6 DEF GlslHelperNames
    <3> QED
      BY <3>1, Zenon DEF GlslBinary
  <2>2. glsl = <<"int", GlslHelper(GlslHelperNames[op], a, b)>>
    BY <1>4, <2>1 DEF GlslMeaning
  <2> DEFINE helped == GlslHelper(GlslHelperNames[op], a, b)
             quotient == FloorDivide(a, b)
             floored == a - FloorDivide(a, b) * b
             truncated == a - TruncDivide(a, b) * b
  <2>3. CASE a = MinInt /\ b = -1
    <3>1. helped = IF op = "DivInt" THEN MinInt ELSE 0
      BY <1>1, <1>6, <2>0, <2>3, GlslHelperOf DEF GlslHelperNames
    <3>2. quotient = Half
      BY <2>3, HalfInt DEF FloorDivide, MinInt
    <3>3. Wrap(Half) = MinInt
      BY HalfAssumption DEF Wrap, MinInt
    <3>4. floored = 0
      BY <2>3, <3>2, HalfInt DEF MinInt
    <3>5. truncated = 0
      <4>1. truncated \in Int /\ b < truncated /\ truncated < -b
        BY <1>1, <2>0, <2>3, TruncDivides
      <4> HIDE DEF truncated
      <4> QED
        BY <2>3, <4>1
    <3>6. Wrap(0) = 0
      BY HalfAssumption DEF Wrap, MinInt
    <3> HIDE DEF helped, quotient, floored, truncated
    <3> QED
      BY <1>3, <1>6, <2>0, <2>2, <3>1, <3>2, <3>3, <3>4, <3>5, <3>6
         DEF helped, quotient, floored, truncated, core, vs
  <2>4. CASE ~(a = MinInt /\ b = -1)
    <3>1. helped = CASE op = "DivInt" -> quotient [] op = "RemFloor" -> floored
                     [] op = "RemTrunc" -> truncated
      BY <1>1, <1>6, <2>0, <2>4, GlslHelperOf DEF GlslHelperNames
    <3>2. quotient \in Ints /\ floored \in Ints /\ truncated \in Ints
      BY <2>0, <2>4, QuotientFits, RemaindersFit
    <3>3. \A n \in Ints : Wrap(n) = n
      BY WrapFits, HalfInt DEF Ints
    <3> HIDE DEF helped, quotient, floored, truncated
    <3> QED
      BY <1>3, <1>6, <2>0, <2>2, <3>1, <3>2, <3>3
         DEF helped, quotient, floored, truncated, core, vs
  <2> QED
    BY <2>3, <2>4
<1> QED
  BY <1>5, <1>6 DEF Arithmetics

\* The GLSL for an operator of floats and for a comparison, whose operands are
\* of one type: GLSL converts nothing, and its floats are the GPU's. The two
\* remainders are formulas of their own.
THEOREM GlslFloatsKeepTheMeaning ==
  ASSUME NEW op, NEW type, NEW args, NEW t \in {"int", "float", "bool"}, NEW a, NEW b,
         \/ op \in Arithmetics /\ t = "float" /\ type = "float"
         \/ op \in {"RemFloor", "RemTrunc"} /\ t = "float" /\ type = "float" /\ b # 0
         \/ op \in {"==", "!="} \cup Orders
  PROVE  GlslMeaning(GlslBinary(op, type, args), <<<<t, a>>, <<t, b>>>>) =
           CoreBinary("gpu", op, type, <<t, a>>, <<t, b>>)
<1> DEFINE vs == <<<<t, a>>, <<t, b>>>>
           code == GlslBinary(op, type, args)
           glsl == GlslMeaning(code, vs)
           core == CoreBinary("gpu", op, type, <<t, a>>, <<t, b>>)
          glslop == IF op = "RemFloor" THEN "mod" ELSE IF op = "RemTrunc" THEN "trunc" ELSE op
<1>1. code = Op(glslop, args)
  BY DEF GlslBinary, GlslHelperNames, Arithmetics, Orders
<1> HIDE DEF vs, glslop
<1>2. glsl = GlslOperator(glslop, vs)
  BY <1>1 DEF GlslMeaning, Op
<1> USE DEF vs
<1>6. op \notin {"RemFloor", "RemTrunc"} => glslop = op
  BY DEF glslop
<1>3. CASE op \in Arithmetics /\ t = "float" /\ type = "float"
  <2>1. core = Numeric("gpu", "float", Exact(op, a, b))
    BY <1>3, CoreOf DEF Convert
  <2>2. glslop = op /\ glslop \in Arithmetics
    BY <1>3, <1>6 DEF Arithmetics
  <2>3. glsl = Numeric("glsl", "float", Exact(glslop, a, b))
    BY <1>2, <1>3, <2>2, GlslOf
  <2> QED
    BY <2>1, <2>2, <2>3 DEF Numeric, Precise
<1>4. CASE op \in {"==", "!="} \cup Orders
  <2>1. op \in Comparisons /\ glslop = op
    BY <1>4, <1>6 DEF Comparisons, Orders
  <2>2. GlslOperator(glslop, <<<<t, a>>, <<t, b>>>>) = Bool(Truth(glslop, <<t, a>>, <<t, b>>))
    BY <2>1, GlslOf
  <2>3. core = Bool(Truth(op, <<t, a>>, <<t, b>>))
    BY <2>1, CoreOf
  <2> QED
    BY <1>2, <2>1, <2>2, <2>3
<1>5. CASE op \in {"RemFloor", "RemTrunc"} /\ t = "float" /\ type = "float" /\ b # 0
  <2> DEFINE quotient == IF op = "RemFloor" THEN FloorDivide(a, b) ELSE TruncDivide(a, b)
  <2>1. core = Numeric("gpu", "float", a - quotient * b)
    BY <1>5, CoreOf DEF Convert
  <2>2. glsl = GlslRemainder(glslop, a, b)
    BY <1>2, <1>5, GlslOf DEF glslop
  <2>3. glsl = Numeric("glsl", "float", a - quotient * b)
    BY <1>5, <2>2 DEF GlslRemainder, glslop
  <2> QED
    BY <2>1, <2>3 DEF Numeric, Precise
<1> QED
  BY <1>3, <1>4, <1>5

\* The GLSL for a minus, whose operand is written without one of its own.
THEOREM GlslNegationKeepsTheMeaning ==
  ASSUME NEW arg, ~NegativeLiteral(arg), NEW t \in {"int", "float"}, NEW a
  PROVE  GlslMeaning(Negate(arg), <<<<t, a>>>>) = CoreUnary("gpu", "-", t, <<t, a>>)
<1> DEFINE vs == <<<<t, a>>>>
<1>1. GlslMeaning(Negate(arg), vs) = GlslOperator("negate", vs)
  BY DEF Negate, Op, GlslMeaning
<1>2. vs[1] = <<t, a>> /\ Len(vs) = 1
  OBVIOUS
<1>3. vs[1][1] = t /\ vs[1][2] = a
  OBVIOUS
<1> HIDE DEF vs
<1>4. GlslOperator("negate", vs) = Numeric("glsl", vs[1][1], -vs[1][2])
  BY <1>2 DEF GlslOperator, Comparisons, Orders
<1>5. CoreUnary("gpu", "-", t, <<t, a>>) = Numeric("gpu", t, -a)
  BY DEF CoreUnary
<1> QED
  BY <1>1, <1>3, <1>4, <1>5 DEF Numeric, Precise, vs
=============================================================================
