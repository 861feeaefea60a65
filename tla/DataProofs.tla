----------------------------- MODULE DataProofs -----------------------------
(***************************************************************************)
(* Facts about the data of the models that several proofs need: what       *)
(* functions defined by recursion are, sums over finite sets, least and    *)
(* greatest members, whole parts.  Without induction over an operator, a   *)
(* counterexample of least rank takes the place of the induction step.     *)
(***************************************************************************)
EXTENDS Integers, FiniteSetsExt, Functions,
        FiniteSetTheorems, WellFoundedInduction, TLAPS

-----------------------------------------------------------------------------
(* Recursion over data: least members instead of induction *)

\* The natural numbers by their order, which is well founded.
Below == {p \in Nat \X Nat : p[1] < p[2]}
\* Among things that have a natural number as their rank some are least.
LEMMA LeastOf ==
    ASSUME NEW T, T # {}, NEW rank, \A x \in T : rank[x] \in Nat
    PROVE  \E x \in T : \A y \in T : rank[x] <= rank[y]
<1> DEFINE Ranks == {rank[x] : x \in T}
<1>1. IsWellFoundedOn(Below, Nat)
  BY NatLessThanWellFounded DEF OpToRel, Below
<1>2. PICK n \in Ranks : \A m \in Ranks : <<m, n>> \notin Below
  <2>1. Ranks \subseteq Nat /\ Ranks # {}
    OBVIOUS
  <2> HIDE DEF Ranks
  <2> QED BY <1>1, <2>1, WFMin
<1>3. PICK x \in T : n = rank[x]
  OBVIOUS
<1>4. ASSUME NEW y \in T PROVE rank[x] <= rank[y]
  <2> DEFINE m == rank[y]
  <2>1. m \in Nat /\ n \in Nat /\ <<m, n>> \notin Below
    BY <1>2, <1>3
  <2>2. <<m, n>> \in Nat \X Nat /\ <<m, n>>[1] = m /\ <<m, n>>[2] = n
    BY <2>1
  <2> HIDE DEF m
  <2>3. m < n => <<m, n>> \in Below
    BY <2>2 DEF Below
  <2>4. n <= m
    BY <2>1, <2>3
  <2> QED BY <1>3, <2>4 DEF m
<1> QED BY <1>4

\* A nonempty set of natural numbers has a smallest member.
LEMMA SmallestNumber ==
    ASSUME NEW T \in SUBSET Nat, T # {}
    PROVE  \E n \in T : \A m \in T : n <= m
<1> DEFINE rank == [n \in T |-> n]
<1>1. \A n \in T : rank[n] = n /\ rank[n] \in Nat
  OBVIOUS
<1> HIDE DEF rank
<1>2. \E n \in T : \A m \in T : rank[n] <= rank[m]
  BY <1>1, LeastOf
<1> QED BY <1>1, <1>2

\* The nodes of D have predecessors of smaller rank down to a root.
Founded(D, root, parent, rank) ==
    /\ root \in D
    /\ \A c \in D : rank[c] \in Nat
    /\ \A c \in D \ {root} : parent[c] \in D /\ rank[parent[c]] < rank[c]

\* A value for the root, and one for each node and value of its predecessor.
Values(D, V, base, step) ==
    base \in V /\ \A c \in D, v \in V : step[<<c, v>>] \in V

\* Recursion from a node to its predecessor defines a function.
LEMMA RecursionDefines ==
    ASSUME NEW D, NEW root, NEW parent, NEW rank, Founded(D, root, parent, rank),
           NEW V, NEW base, NEW step, Values(D, V, base, step)
    PROVE  \E f \in [D -> V] : \A c \in D :
              f[c] = IF c = root THEN base ELSE step[<<c, f[parent[c]]>>]
<1> DEFINE Closes(R) ==
              /\ R \subseteq D \X V /\ <<root, base>> \in R
              /\ \A c \in D \ {root}, v \in V :
                    <<parent[c], v>> \in R => <<c, step[<<c, v>>]>> \in R
           graph == {p \in D \X V : \A R : Closes(R) => p \in R}
           Single(c) == \E v \in V : <<c, v>> \in graph /\ \A w \in V : <<c, w>> \in graph => w = v
           Bad == {c \in D : ~Single(c)}
<1> USE DEF Founded, Values
<1>1. Closes(graph) /\ \A R : Closes(R) => graph \subseteq R
  OBVIOUS
<1> HIDE DEF graph
<1>2. ASSUME NEW c \in D, NEW w \in V, <<c, w>> \in graph, ~(c = root /\ w = base),
             \A v \in V : c # root /\ <<parent[c], v>> \in graph => w # step[<<c, v>>]
      PROVE FALSE
  <2>1. Closes(graph \ {<<c, w>>})
    BY <1>1, <1>2
  <2> QED BY <1>1, <1>2, <2>1
<1>3. Single(root)
  BY <1>1, <1>2
<1>4. ASSUME NEW c \in D \ {root}, Single(parent[c]) PROVE Single(c)
  <2>1. PICK v \in V : <<parent[c], v>> \in graph /\ \A w \in V : <<parent[c], w>> \in graph => w = v
    BY <1>4
  <2>2. <<c, step[<<c, v>>]>> \in graph /\ step[<<c, v>>] \in V
    BY <1>1, <2>1
  <2>3. ASSUME NEW w \in V, <<c, w>> \in graph PROVE w = step[<<c, v>>]
    BY <1>2, <2>1, <2>3
  <2> QED BY <2>2, <2>3
<1> HIDE DEF Single
<1>5. Bad = {}
  <2> SUFFICES ASSUME Bad # {} PROVE FALSE
    OBVIOUS
  <2>1. PICK c \in Bad : \A d \in Bad : rank[c] <= rank[d]
    <3>1. \A d \in Bad : rank[d] \in Nat
      OBVIOUS
    <3> HIDE DEF Bad
    <3> QED BY <3>1, LeastOf
  <2>2. parent[c] \in D /\ rank[parent[c]] < rank[c] /\ rank[c] \in Nat /\ rank[parent[c]] \in Nat
    BY <1>3
  <2>3. parent[c] \notin Bad
    BY <2>1, <2>2
  <2> QED BY <1>3, <1>4, <2>2, <2>3
<1> DEFINE f == [c \in D |-> CHOOSE v \in V : <<c, v>> \in graph]
<1>6. ASSUME NEW c \in D
      PROVE  /\ f[c] \in V /\ <<c, f[c]>> \in graph
             /\ \A w \in V : <<c, w>> \in graph => w = f[c]
  BY <1>5 DEF Single
<1> HIDE DEF f
<1>7. ASSUME NEW c \in D
      PROVE  f[c] = IF c = root THEN base ELSE step[<<c, f[parent[c]]>>]
  <2>1. CASE c = root
    BY <1>1, <1>6, <2>1
  <2>2. CASE c # root
    <3>1. parent[c] \in D /\ f[parent[c]] \in V /\ <<parent[c], f[parent[c]]>> \in graph
      BY <1>6, <2>2
    <3>2. <<c, step[<<c, f[parent[c]]>>]>> \in graph /\ step[<<c, f[parent[c]]>>] \in V
      BY <1>1, <2>2, <3>1
    <3> QED BY <1>6, <2>2, <3>2
  <2> QED BY <2>1, <2>2
<1>8. f \in [D -> V]
  BY <1>6 DEF f
<1> QED BY <1>7, <1>8

\* Recursion to values of smaller rank defines a function, where every rank is
\* below a bound and a step reads its argument at smaller ranks only.
RanksBelow(D, rank, N) == \A c \in D : rank[c] \in Nat /\ rank[c] < N
StepsInto(D, V, step) == \A c \in D : \A g \in [D -> V] : step[<<c, g>>] \in V
LooksLower(D, V, rank, step) ==
    \A c \in D : \A g, h \in [D -> V] :
        (\A d \in D : rank[d] < rank[c] => g[d] = h[d]) => step[<<c, g>>] = step[<<c, h>>]
Obeys(f, D, step) == \A c \in D : f[c] = step[<<c, f>>]

LEMMA RecursionEnds ==
    ASSUME NEW D, NEW V, V # {}, NEW rank, NEW N \in Nat, RanksBelow(D, rank, N),
           NEW step, StepsInto(D, V, step), LooksLower(D, V, rank, step)
    PROVE  \E f \in [D -> V] : Obeys(f, D, step)
<1> USE DEF RanksBelow, StepsInto, LooksLower, Obeys
<1> DEFINE Upto(f, k) == f \in [D -> V] /\ \A c \in D : rank[c] < k => f[c] = step[<<c, f>>]
           Lacks == {k \in Nat : ~\E f : Upto(f, k)}
<1>1. \E f : Upto(f, 0)
  <2>1. PICK v \in V : TRUE
    OBVIOUS
  <2> DEFINE f == [c \in D |-> v]
  <2>2. f \in [D -> V]
    OBVIOUS
  <2>3. \A c \in D : ~(rank[c] < 0)
    OBVIOUS
  <2> HIDE DEF f
  <2> QED BY <2>2, <2>3
<1>2. ASSUME NEW k \in Nat, NEW f, Upto(f, k) PROVE \E g : Upto(g, k + 1)
  <2> DEFINE g == [c \in D |-> IF rank[c] <= k THEN step[<<c, f>>] ELSE f[c]]
  <2>1. f \in [D -> V] /\ \A c \in D : step[<<c, f>>] \in V
    BY <1>2
  <2>2. g \in [D -> V]
    BY <2>1
  <2>3. \A c \in D : rank[c] < k => g[c] = f[c]
    BY <1>2
  <2>4. \A c \in D : rank[c] < k + 1 => g[c] = step[<<c, f>>] /\ rank[c] <= k
    OBVIOUS
  <2> HIDE DEF g
  <2>5. ASSUME NEW c \in D, rank[c] < k + 1 PROVE g[c] = step[<<c, g>>]
    <3>1. \A d \in D : rank[d] < rank[c] => f[d] = g[d]
      BY <2>3, <2>4, <2>5
    <3>2. step[<<c, f>>] = step[<<c, g>>]
      BY <2>1, <2>2, <3>1
    <3> QED BY <2>4, <2>5, <3>2
  <2> QED BY <2>2, <2>5
<1>3. \E f : Upto(f, N)
  <2> SUFFICES ASSUME N \in Lacks PROVE FALSE
    OBVIOUS
  <2>1. PICK k \in Lacks : \A j \in Lacks : k <= j
    <3>1. Lacks \subseteq Nat /\ Lacks # {}
      OBVIOUS
    <3> HIDE DEF Lacks
    <3> QED BY <3>1, SmallestNumber
  <2>2. k \in Nat /\ k # 0
    BY <1>1, <2>1
  <2>3. k - 1 \in Nat /\ ~(k <= k - 1) /\ (k - 1) + 1 = k
    BY <2>2
  <2>4. k - 1 \notin Lacks
    BY <2>1, <2>3
  <2>5. PICK f : Upto(f, k - 1)
    BY <2>3, <2>4
  <2> HIDE DEF Upto
  <2>6. \E g : Upto(g, (k - 1) + 1)
    BY <1>2, <2>3, <2>5
  <2> QED BY <2>1, <2>3, <2>6
<1> QED BY <1>3

\* The same where every node but a leaf has one predecessor.
Leads(D, leaves, parent, rank) ==
    \A c \in D \ leaves : parent[c] \in D /\ rank[parent[c]] < rank[c]
GivesFrom(D, V, leaves, base, own) ==
    /\ \A c \in leaves : base[c] \in V
    /\ \A c \in D \ leaves : \A v \in V : own[<<c, v>>] \in V
ObeysFrom(f, D, leaves, base, own, parent) ==
    \A c \in D : f[c] = IF c \in leaves THEN base[c] ELSE own[<<c, f[parent[c]]>>]

LEMMA RecursionFromLeaves ==
    ASSUME NEW D, NEW V, V # {}, NEW rank, NEW N \in Nat, RanksBelow(D, rank, N),
           NEW leaves, NEW parent, Leads(D, leaves, parent, rank),
           NEW base, NEW own, GivesFrom(D, V, leaves, base, own)
    PROVE  \E f \in [D -> V] : ObeysFrom(f, D, leaves, base, own, parent)
<1> USE DEF Leads, GivesFrom
<1> DEFINE step == [p \in D \X [D -> V] |->
                       IF p[1] \in leaves THEN base[p[1]] ELSE own[<<p[1], p[2][parent[p[1]]]>>]]
<1>1. \A c \in D : \A g \in [D -> V] :
         step[<<c, g>>] = IF c \in leaves THEN base[c] ELSE own[<<c, g[parent[c]]>>]
  OBVIOUS
<1> HIDE DEF step
<1>2. ASSUME NEW c \in D, NEW g \in [D -> V] PROVE step[<<c, g>>] \in V
  <2>1. CASE c \in leaves
    BY <1>1, <2>1
  <2>2. CASE c \notin leaves
    <3>1. g[parent[c]] \in V
      BY <2>2
    <3> QED BY <1>1, <2>2, <3>1
  <2> QED BY <2>1, <2>2
<1>3. ASSUME NEW c \in D, NEW g \in [D -> V], NEW h \in [D -> V],
             \A d \in D : rank[d] < rank[c] => g[d] = h[d]
      PROVE step[<<c, g>>] = step[<<c, h>>]
  <2>1. CASE c \in leaves
    BY <1>1, <2>1
  <2>2. CASE c \notin leaves
    <3>1. g[parent[c]] = h[parent[c]]
      BY <1>3, <2>2
    <3>2. step[<<c, g>>] = own[<<c, g[parent[c]]>>]
      BY <1>1, <2>2
    <3>3. step[<<c, h>>] = own[<<c, h[parent[c]]>>]
      BY <1>1, <2>2
    <3> QED BY <3>1, <3>2, <3>3
  <2> QED BY <2>1, <2>2
<1>4. \E f \in [D -> V] : Obeys(f, D, step)
  <2>1. StepsInto(D, V, step)
    BY <1>2 DEF StepsInto
  <2>2. LooksLower(D, V, rank, step)
    BY <1>3 DEF LooksLower
  <2> QED BY <2>1, <2>2, RecursionEnds
<1> QED BY <1>1, <1>4 DEF Obeys, ObeysFrom

-----------------------------------------------------------------------------
(* Sums over finite sets *)

SumOver(f, S) == MapThenSumSet(LAMBDA x : f[x], S)

\* The order in which MapThenSumSet takes the elements.
First(s) == CHOOSE x \in s : TRUE
SumStep(f, S, iter) ==
    [s \in SUBSET S |-> IF s = {} THEN 0 ELSE f[First(s)] + iter[s \ {First(s)}]]

\* Without its first element a set is a smaller one.
LEMMA FirstIsSmaller ==
    ASSUME NEW s, IsFiniteSet(s), s # {}
    PROVE  /\ First(s) \in s
           /\ Cardinality(s) \in Nat /\ Cardinality(s \ {First(s)}) \in Nat
           /\ Cardinality(s \ {First(s)}) < Cardinality(s)
<1>1. First(s) \in s
  BY DEF First
<1>2. Cardinality(s \ {First(s)}) = Cardinality(s) - 1 /\ Cardinality(s) \in Nat
  BY <1>1, FS_RemoveElement, FS_CardinalityType
<1>3. Cardinality(s \ {First(s)}) \in Nat
  BY FS_Subset, FS_CardinalityType
<1> QED BY <1>1, <1>2, <1>3

\* The partial sums of two sets agree where both are defined.
LEMMA PartialSumsAgree ==
    ASSUME NEW f, NEW S, IsFiniteSet(S), NEW T, NEW g, g = SumStep(f, S, g),
           NEW h, h = SumStep(f, T, h), NEW r, r \subseteq S, r \subseteq T
    PROVE  g[r] = h[r]
<1> DEFINE D == {s \in SUBSET S : s \subseteq T}
           Bad == {s \in D : g[s] # h[s]}
           rank == [s \in D |-> Cardinality(s)]
<1>1. \A s \in D : IsFiniteSet(s) /\ rank[s] \in Nat
  BY FS_Subset, FS_CardinalityType
<1>2. SUFFICES ASSUME Bad # {} PROVE FALSE
  OBVIOUS
<1>3. PICK s \in Bad : \A t \in Bad : rank[s] <= rank[t]
  <2>1. \A s \in Bad : rank[s] \in Nat
    BY <1>1
  <2> HIDE DEF Bad, rank
  <2> QED BY <1>2, <2>1, LeastOf
<1>4. /\ g[s] = IF s = {} THEN 0 ELSE f[First(s)] + g[s \ {First(s)}]
      /\ h[s] = IF s = {} THEN 0 ELSE f[First(s)] + h[s \ {First(s)}]
  BY DEF SumStep
<1>5. s # {} /\ s \in D /\ s \ {First(s)} \in D
  BY <1>4
<1>6. rank[s \ {First(s)}] < rank[s] /\ rank[s] \in Nat /\ rank[s \ {First(s)}] \in Nat
  BY <1>1, <1>5, FirstIsSmaller
<1>7. s \ {First(s)} \notin Bad
  BY <1>3, <1>6
<1> QED BY <1>3, <1>4, <1>5, <1>7

\* The sum of the values of a finite set is the last of its partial sums.
LEMMA SumIs ==
    ASSUME NEW f, NEW S, IsFiniteSet(S), \A x \in S : f[x] \in Int
    PROVE  \E iter \in [SUBSET S -> Int] : iter = SumStep(f, S, iter) /\ SumOver(f, S) = iter[S]
<1> DEFINE D == SUBSET S
           parent == [s \in D |-> s \ {First(s)}]
           rank == [s \in D |-> Cardinality(s)]
           step == [p \in D \X Int |-> IF p[1] = {} THEN 0 ELSE f[First(p[1])] + p[2]]
<1>1. \A s \in D : IsFiniteSet(s) /\ rank[s] \in Nat
  BY FS_Subset, FS_CardinalityType
<1>2. ASSUME NEW s \in D \ {{}}
      PROVE First(s) \in s /\ parent[s] \in D /\ rank[parent[s]] < rank[s]
  BY <1>1, FirstIsSmaller
<1>3. {} \in D /\ Founded(D, {}, parent, rank)
  BY <1>1, <1>2 DEF Founded
<1>4. ASSUME NEW s \in D, NEW v \in Int
      PROVE  /\ step[<<s, v>>] = IF s = {} THEN 0 ELSE f[First(s)] + v
             /\ step[<<s, v>>] \in Int
  <2>1. step[<<s, v>>] = IF s = {} THEN 0 ELSE f[First(s)] + v
    OBVIOUS
  <2>2. s # {} => f[First(s)] \in Int
    BY <1>2
  <2> QED BY <2>1, <2>2
<1>5. \A s \in D \ {{}} : parent[s] = s \ {First(s)} /\ parent[s] \in D
  OBVIOUS
<1>6. PICK iter \in [D -> Int] : \A s \in D :
          iter[s] = IF s = {} THEN 0 ELSE step[<<s, iter[parent[s]]>>]
  <2> DEFINE zero == 0
             root == {}
             V == Int
  <2>1. Founded(D, root, parent, rank)
    BY <1>3
  <2> HIDE DEF D, parent, rank, step
  <2>2. Values(D, V, zero, step)
    BY <1>4 DEF Values
  <2> HIDE DEF zero, root, V
  <2>3. \E iter \in [D -> V] : \A s \in D :
          iter[s] = IF s = root THEN zero ELSE step[<<s, iter[parent[s]]>>]
    BY <2>1, <2>2, RecursionDefines
  <2> QED BY <2>3 DEF zero, root, V
<1>7. iter = SumStep(f, S, iter)
  <2>1. ASSUME NEW s \in D
        PROVE iter[s] = IF s = {} THEN 0 ELSE f[First(s)] + iter[s \ {First(s)}]
    <3> HIDE DEF D, parent, step
    <3> QED BY <1>4, <1>5, <1>6
  <2> QED BY <2>1 DEF SumStep
<1> DEFINE it == CHOOSE g : g = SumStep(f, S, g)
<1>8. it = SumStep(f, S, it)
  BY <1>7
<1>9. SumOver(f, S) = it[S]
  BY DEF SumOver, MapThenSumSet, MapThenFoldSet, SumStep, First
<1> HIDE DEF it
<1>10. SumOver(f, S) = iter[S]
  BY <1>7, <1>8, <1>9, PartialSumsAgree
<1> QED BY <1>7, <1>10

\* A sum is the sum without one element and that element's value, whichever.
LEMMA SumOfRest ==
    ASSUME NEW f, NEW S, IsFiniteSet(S), \A x \in S : f[x] \in Int, NEW z \in S
    PROVE  SumOver(f, S) = f[z] + SumOver(f, S \ {z})
<1>1. PICK g \in [SUBSET S -> Int] : g = SumStep(f, S, g) /\ SumOver(f, S) = g[S]
  BY SumIs
<1>2. PICK h : h = SumStep(f, S \ {z}, h) /\ SumOver(f, S \ {z}) = h[S \ {z}]
  <2>1. IsFiniteSet(S \ {z})
    BY FS_Subset
  <2> DEFINE T == S \ {z}
  <2>2. \A x \in T : f[x] \in Int
    OBVIOUS
  <2> HIDE DEF T
  <2>3. \E h \in [SUBSET T -> Int] : h = SumStep(f, T, h) /\ SumOver(f, T) = h[T]
    BY <2>1, <2>2, SumIs DEF T
  <2> QED BY <2>3 DEF T
<1>3. SumOver(f, S \ {z}) = g[S \ {z}]
  BY <1>1, <1>2, PartialSumsAgree
<1> DEFINE D == {p \in (SUBSET S) \X S : p[2] \in p[1]}
           Bad == {p \in D : g[p[1]] # f[p[2]] + g[p[1] \ {p[2]}]}
           rank == [p \in D |-> Cardinality(p[1])]
<1>4. \A s \in SUBSET S :
         g[s] = IF s = {} THEN 0 ELSE f[First(s)] + g[s \ {First(s)}]
  BY <1>1 DEF SumStep
<1>5. Bad = {}
  <2> SUFFICES ASSUME Bad # {} PROVE FALSE
    OBVIOUS
  <2>1. PICK p \in Bad : \A q \in Bad : rank[p] <= rank[q]
    <3>1. \A q \in Bad : rank[q] \in Nat
      BY FS_Subset, FS_CardinalityType
    <3> HIDE DEF Bad, rank
    <3> QED BY <3>1, LeastOf
  <2> DEFINE s == p[1]
             x == p[2]
             c == First(s)
  <2>2. /\ s \in SUBSET S /\ x \in s /\ x \in S /\ s # {} /\ c \in s /\ IsFiniteSet(s)
        /\ g[s] # f[x] + g[s \ {x}]
    BY FS_Subset, FirstIsSmaller
  <2>3. \A q \in Bad : Cardinality(s) <= Cardinality(q[1])
    BY <2>1
  <2> HIDE DEF s, x, c
  <2>4. g[s] = f[c] + g[s \ {c}]
    BY <1>4, <2>2 DEF c
  <2>5. x # c
    BY <2>2, <2>4
  <2>6. ASSUME NEW y \in s, NEW w \in s \ {y} PROVE g[s \ {y}] = f[w] + g[(s \ {y}) \ {w}]
    <3> DEFINE t == s \ {y}
    <3>1. t \in SUBSET S /\ IsFiniteSet(t) /\ w \in t /\ w \in S
      BY <2>2, FS_Subset
    <3>2. Cardinality(t) < Cardinality(s) /\ Cardinality(t) \in Nat /\ Cardinality(s) \in Nat
      <4>1. Cardinality(t) = Cardinality(s) - 1 /\ Cardinality(s) \in Nat
        BY <2>2, FS_RemoveElement, FS_CardinalityType
      <4>2. Cardinality(t) \in Nat
        BY <3>1, FS_CardinalityType
      <4> QED BY <4>1, <4>2
    <3> HIDE DEF t
    <3>3. <<t, w>> \in D /\ <<t, w>>[1] = t /\ <<t, w>>[2] = w
      BY <3>1
    <3>4. <<t, w>> \notin Bad
      BY <2>3, <3>2, <3>3
    <3>5. g[t] = f[w] + g[t \ {w}]
      BY <3>3, <3>4
    <3> QED BY <3>5 DEF t
  <2>7. g[s \ {c}] = f[x] + g[(s \ {c}) \ {x}]
    BY <2>2, <2>5, <2>6
  <2>8. g[s \ {x}] = f[c] + g[(s \ {x}) \ {c}]
    BY <2>2, <2>5, <2>6
  <2>9. (s \ {c}) \ {x} = (s \ {x}) \ {c}
    OBVIOUS
  <2>10. f[x] \in Int /\ f[c] \in Int /\ g[(s \ {x}) \ {c}] \in Int
    BY <1>1, <2>2
  <2> DEFINE others == g[(s \ {x}) \ {c}]
  <2>11. g[s] = f[c] + (f[x] + others)
    BY <2>4, <2>7, <2>9
  <2>12. g[s] # f[x] + (f[c] + others)
    BY <2>2, <2>8
  <2> HIDE DEF others
  <2> QED BY <2>10, <2>11, <2>12 DEF others
<1>6. <<S, z>> \in D /\ <<S, z>>[1] = S /\ <<S, z>>[2] = z
  OBVIOUS
<1>7. g[S] = f[z] + g[S \ {z}]
  BY <1>5, <1>6
<1> QED BY <1>1, <1>3, <1>7

\* Sums are integers, and the empty one is nothing.
LEMMA SumType ==
    ASSUME NEW f, NEW S, IsFiniteSet(S), \A x \in S : f[x] \in Int
    PROVE  SumOver(f, S) \in Int /\ (S = {} => SumOver(f, S) = 0)
<1>1. PICK iter \in [SUBSET S -> Int] : iter = SumStep(f, S, iter) /\ SumOver(f, S) = iter[S]
  BY SumIs
<1>2. iter[{}] = 0
  BY <1>1 DEF SumStep
<1> QED BY <1>1, <1>2

\* Sums of numbers that are not negative are none either.
LEMMA SumNat ==
    ASSUME NEW f, NEW S, IsFiniteSet(S), \A x \in S : f[x] \in Nat
    PROVE  SumOver(f, S) \in Nat
<1> DEFINE D == SUBSET S
           Bad == {s \in D : SumOver(f, s) \notin Nat}
           rank == [s \in D |-> Cardinality(s)]
<1>1. \A s \in D : IsFiniteSet(s) /\ rank[s] = Cardinality(s) /\ rank[s] \in Nat
  BY FS_Subset, FS_CardinalityType
<1>2. Bad = {}
  <2> SUFFICES ASSUME Bad # {} PROVE FALSE
    OBVIOUS
  <2>1. PICK s \in Bad : \A t \in Bad : rank[s] <= rank[t]
    <3>1. \A s \in Bad : rank[s] \in Nat
      BY <1>1
    <3> HIDE DEF Bad, rank
    <3> QED BY <3>1, LeastOf
  <2>2. s \in SUBSET S /\ IsFiniteSet(s) /\ (\A x \in s : f[x] \in Nat) /\ (\A x \in s : f[x] \in Int)
    <3>1. s \in SUBSET S /\ IsFiniteSet(s)
      BY <1>1
    <3>2. \A x \in s : f[x] \in Nat
      BY <3>1
    <3>3. \A x \in s : f[x] \in Int
      BY <3>2
    <3> QED BY <3>1, <3>2, <3>3
  <2>3. s # {}
    BY <2>2, SumType
  <2>4. SumOver(f, s) = f[First(s)] + SumOver(f, s \ {First(s)}) /\ First(s) \in s
    <3>1. First(s) \in s
      BY <2>2, <2>3, FirstIsSmaller
    <3> HIDE DEF Bad, D, rank
    <3> QED BY <2>2, <3>1, SumOfRest
  <2>5. s \ {First(s)} \in D /\ rank[s \ {First(s)}] < rank[s] /\ rank[s] \in Nat
        /\ rank[s \ {First(s)}] \in Nat
    BY <1>1, <2>2, <2>3, FirstIsSmaller
  <2>6. SumOver(f, s \ {First(s)}) \in Nat
    <3>1. ~(rank[s] <= rank[s \ {First(s)}])
      BY <2>5
    <3>2. s \ {First(s)} \notin Bad
      BY <2>1, <3>1
    <3> QED BY <2>5, <3>2
  <2>7. f[First(s)] \in Nat
    BY <2>2, <2>4
  <2> QED BY <2>4, <2>6, <2>7
<1> QED BY <1>2

\* What is summed matters, not what else the functions are about.
LEMMA SumsAgree ==
    ASSUME NEW f, NEW g, NEW S, IsFiniteSet(S), \A x \in S : f[x] \in Int /\ g[x] = f[x]
    PROVE  SumOver(g, S) = SumOver(f, S)
<1> DEFINE D == SUBSET S
           Bad == {s \in D : SumOver(g, s) # SumOver(f, s)}
           rank == [s \in D |-> Cardinality(s)]
<1>1. \A s \in D : IsFiniteSet(s) /\ rank[s] = Cardinality(s) /\ rank[s] \in Nat
  BY FS_Subset, FS_CardinalityType
<1>2. Bad = {}
  <2> SUFFICES ASSUME Bad # {} PROVE FALSE
    OBVIOUS
  <2>1. PICK s \in Bad : \A t \in Bad : rank[s] <= rank[t]
    <3>1. \A s \in Bad : rank[s] \in Nat
      BY <1>1
    <3> HIDE DEF Bad, rank
    <3> QED BY <3>1, LeastOf
  <2>2. s \in D /\ IsFiniteSet(s) /\ (\A x \in s : f[x] \in Int) /\ (\A x \in s : g[x] \in Int)
    BY <1>1
  <2>3. s # {}
    BY <2>2, SumType
  <2>4. First(s) \in s
    BY <2>2, <2>3, FirstIsSmaller
  <2>5. /\ SumOver(f, s) = f[First(s)] + SumOver(f, s \ {First(s)})
        /\ SumOver(g, s) = g[First(s)] + SumOver(g, s \ {First(s)})
    BY <2>2, <2>4, SumOfRest
  <2>6. s \ {First(s)} \in D /\ rank[s \ {First(s)}] < rank[s] /\ rank[s] \in Nat
        /\ rank[s \ {First(s)}] \in Nat
    BY <1>1, <2>2, <2>3, FirstIsSmaller
  <2>7. SumOver(g, s \ {First(s)}) = SumOver(f, s \ {First(s)})
    <3>1. ~(rank[s] <= rank[s \ {First(s)}])
      BY <2>6
    <3>2. s \ {First(s)} \notin Bad
      BY <2>1, <3>1
    <3> QED BY <2>6, <3>2
  <2>8. g[First(s)] = f[First(s)]
    BY <2>2, <2>4
  <2> QED BY <2>1, <2>5, <2>7, <2>8
<1> QED BY <1>2

\* A finite set of numbers has a greatest one.
LEMMA GreatestOf ==
    ASSUME NEW S, IsFiniteSet(S), S # {}, \A x \in S : x \in Int
    PROVE  Max(S) \in S /\ \A x \in S : x <= Max(S)
<1> DEFINE D == (SUBSET S) \ {{}}
           Bad == {s \in D : ~\E m \in s : \A x \in s : x <= m}
           rank == [s \in D |-> Cardinality(s)]
<1>1. \A s \in D : IsFiniteSet(s) /\ rank[s] = Cardinality(s) /\ rank[s] \in Nat
  BY FS_Subset, FS_CardinalityType
<1>2. Bad = {}
  <2> SUFFICES ASSUME Bad # {} PROVE FALSE
    OBVIOUS
  <2>1. PICK s \in Bad : \A t \in Bad : rank[s] <= rank[t]
    <3>1. \A s \in Bad : rank[s] \in Nat
      BY <1>1
    <3> HIDE DEF Bad, rank
    <3> QED BY <3>1, LeastOf
  <2> DEFINE c == First(s)
             rest == s \ {c}
  <2>0. s # {} /\ s \in SUBSET S /\ IsFiniteSet(s) /\ s \in D
    <3>1. s \in D
      BY <2>1
    <3>2. s # {} /\ s \in SUBSET S
      BY <3>1
    <3>3. IsFiniteSet(s)
      BY <1>1, <3>1
    <3> QED BY <3>1, <3>2, <3>3
  <2>2. c \in s /\ Cardinality(rest) < Cardinality(s) /\ Cardinality(rest) \in Nat
    BY <2>0, FirstIsSmaller
  <2>5. c \in Int /\ Cardinality(s) \in Nat
    BY <1>1, <2>0, <2>2
  <2> HIDE DEF c
  <2>3. CASE rest = {}
    <3>1. \A x \in s : x = c
      BY <2>3
    <3> QED BY <2>1, <2>2, <3>1
  <2>4. CASE rest # {}
    <3>1. rest \in D /\ rest \notin Bad
      <4>1. rest \in D
        BY <2>0, <2>4
      <4>2. rank[rest] = Cardinality(rest) /\ rank[s] = Cardinality(s)
        BY <1>1, <2>0, <4>1
      <4>3. ~(rank[s] <= rank[rest])
        BY <2>2, <2>5, <4>2
      <4> QED BY <2>1, <4>1, <4>3
    <3>2. PICK m \in rest : \A x \in rest : x <= m
      BY <3>1
    <3>3. m \in Int /\ m \in s /\ \A x \in s : x \in Int
      BY <2>0, <3>2
    <3>4. CASE c <= m
      BY <2>1, <3>2, <3>3, <3>4
    <3>5. CASE ~(c <= m)
      <4>1. \A x \in s : x <= c
        BY <2>2, <2>5, <3>2, <3>3, <3>5
      <4> QED BY <2>1, <2>2, <4>1
    <3> QED BY <3>4, <3>5
  <2> QED BY <2>3, <2>4
<1>3. \E m \in S : \A x \in S : x <= m
  BY <1>2
<1> QED BY <1>3 DEF Max

\* The smaller and the greater of two numbers.
LEMMA MinMaxOfTwo ==
    ASSUME NEW x \in Int, NEW y \in Int
    PROVE  /\ Max({x, y}) = IF x >= y THEN x ELSE y
           /\ Min({x, y}) = IF x <= y THEN x ELSE y
BY DEF Max, Min

\* Natural numbers have a least one.
LEMMA LeastOfNumbers ==
    ASSUME NEW T \in SUBSET Nat, T # {}
    PROVE  Min(T) \in T /\ \A t \in T : Min(T) <= t
BY SmallestNumber DEF Min

\* The greatest of three numbers.
LEMMA GreatestOfThree ==
    ASSUME NEW x \in Int, NEW y \in Int, NEW z \in Int
    PROVE  /\ Max({x, y, z}) \in {x, y, z} /\ Max({x, y, z}) \in Int
           /\ x <= Max({x, y, z}) /\ y <= Max({x, y, z}) /\ z <= Max({x, y, z})
<1> DEFINE S == {x, y, z}
<1>1. IsFiniteSet(S)
  <2>1. IsFiniteSet({}) /\ S = (({} \cup {x}) \cup {y}) \cup {z}
    BY FS_EmptySet
  <2> HIDE DEF S
  <2>2. IsFiniteSet({} \cup {x})
    BY <2>1, FS_AddElement
  <2>3. IsFiniteSet(({} \cup {x}) \cup {y})
    BY <2>2, FS_AddElement
  <2> QED BY <2>1, <2>3, FS_AddElement
<1>2. S # {} /\ (\A i \in S : i \in Int) /\ x \in S /\ y \in S /\ z \in S /\ S \subseteq Int
  OBVIOUS
<1> HIDE DEF S
<1>3. Max(S) \in S /\ \A i \in S : i <= Max(S)
  BY <1>1, <1>2, GreatestOf
<1>4. Max(S) \in S /\ Max(S) \in Int /\ x <= Max(S) /\ y <= Max(S) /\ z <= Max(S)
  BY <1>2, <1>3
<1> QED BY <1>4 DEF S

\* The least of three natural numbers.
LEMMA LeastOfThree ==
    ASSUME NEW x \in Nat, NEW y \in Nat, NEW z \in Nat
    PROVE  /\ Min({x, y, z}) \in Nat
           /\ Min({x, y, z}) <= x /\ Min({x, y, z}) <= y /\ Min({x, y, z}) <= z
<1> DEFINE T == {x, y, z}
<1>1. T \in SUBSET Nat /\ T # {} /\ x \in T /\ y \in T /\ z \in T
  OBVIOUS
<1> HIDE DEF T
<1>2. Min(T) \in T /\ \A t \in T : Min(T) <= t
  BY <1>1, LeastOfNumbers
<1>3. Min(T) \in Nat /\ Min(T) <= x /\ Min(T) <= y /\ Min(T) <= z
  BY <1>1, <1>2
<1> QED BY <1>3 DEF T

\* Whole parts of a number.
LEMMA QuotientIs ==
    ASSUME NEW a \in Int, NEW b \in Nat \ {0}
    PROVE  a \div b \in Int /\ (a \div b) * b <= a /\ (a >= 0 => a \div b >= 0)
OBVIOUS

\* Products keep the order of their factors.
LEMMA ProductsAreOrdered ==
    ASSUME NEW x \in Int, NEW y \in Int, x <= y, NEW b \in Nat
    PROVE  x * b <= y * b /\ x * b \in Int /\ y * b \in Int
OBVIOUS

\* Products of natural numbers.
LEMMA ProductIsNatural ==
    ASSUME NEW x \in Nat, NEW y \in Nat
    PROVE  x * y \in Nat /\ x * y = y * x
OBVIOUS

\* A fraction of a number is less than the number.
LEMMA FractionIsLess ==
    ASSUME NEW n \in Nat, NEW a \in Nat, NEW b \in Nat \ {0}, a <= b
    PROVE  (n * a) \div b \in Nat /\ (n * a) \div b <= n
<1> DEFINE p == n * a
           q == p \div b
<1>1. p \in Nat /\ a * n <= b * n /\ b * n \in Int
  <2>1. p \in Nat /\ p = a * n
    BY ProductIsNatural
  <2> QED BY <2>1, ProductsAreOrdered
<1>2. p <= b * n
  BY <1>1, ProductIsNatural
<1> HIDE DEF p
<1>3. q \in Nat /\ q * b <= p
  BY <1>1, QuotientIs
<1> HIDE DEF q
<1>4. SUFFICES ASSUME q >= n + 1 PROVE FALSE
  BY <1>3 DEF q, p
<1>5. (n + 1) * b <= q * b /\ (n + 1) * b \in Int /\ q * b \in Int
  BY <1>3, <1>4, ProductsAreOrdered
<1>6. (n + 1) * b = b * n + b
  OBVIOUS
<1> DEFINE nb == b * n
           qb == q * b
           sum == (n + 1) * b
<1>7. sum = nb + b /\ sum <= qb /\ qb <= p /\ p <= nb /\ nb \in Int /\ qb \in Int /\ p \in Nat /\ b > 0
  BY <1>1, <1>2, <1>3, <1>5, <1>6
<1> HIDE DEF nb, qb, sum
<1> QED BY <1>7

\* What is spread over some places, a whole of it or a part, fits in each.
LEMMA Packing ==
    ASSUME NEW S, IsFiniteSet(S), NEW cap, \A i \in S : cap[i] \in Nat,
           NEW k \in Nat, k <= SumOver(cap, S)
    PROVE  \E pack \in [S -> 0..k] :
              (\A i \in S : pack[i] <= cap[i]) /\ SumOver(pack, S) = k
<1> DEFINE Packs(s) == \A n \in Nat : n <= SumOver(cap, s) =>
              \E pack \in [s -> 0..n] : (\A i \in s : pack[i] <= cap[i]) /\ SumOver(pack, s) = n
           D == SUBSET S
           Bad == {s \in D : ~Packs(s)}
           rank == [s \in D |-> Cardinality(s)]
<1>1. \A s \in D : IsFiniteSet(s) /\ rank[s] = Cardinality(s) /\ rank[s] \in Nat
  BY FS_Subset, FS_CardinalityType
<1>2. Bad = {}
  <2> SUFFICES ASSUME Bad # {} PROVE FALSE
    OBVIOUS
  <2>1. PICK s \in Bad : \A t \in Bad : rank[s] <= rank[t]
    <3>1. \A s \in Bad : rank[s] \in Nat
      BY <1>1
    <3> HIDE DEF Bad, rank
    <3> QED BY <3>1, LeastOf
  <2>2. s \in SUBSET S /\ s \in D /\ ~Packs(s)
    BY <2>1
  <2>3. IsFiniteSet(s) /\ (\A i \in s : cap[i] \in Nat) /\ (\A i \in s : cap[i] \in Int)
    <3>1. IsFiniteSet(s)
      BY <1>1, <2>2
    <3>2. \A i \in s : cap[i] \in Nat
      BY <2>2
    <3>3. \A i \in s : cap[i] \in Int
      BY <3>2
    <3> QED BY <3>1, <3>2, <3>3
  <2> HIDE DEF Packs
  <2>4. s # {}
    <3> SUFFICES ASSUME s = {} PROVE FALSE
      OBVIOUS
    <3>1. SumOver(cap, {}) = 0
      BY <2>3, SumType
    <3>2. ASSUME NEW n \in Nat, n <= SumOver(cap, {})
          PROVE  \E pack \in [{} -> 0..n] :
                    (\A i \in {} : pack[i] <= cap[i]) /\ SumOver(pack, {}) = n
      <4>1. n = 0
        BY <3>1, <3>2
      <4> DEFINE none == [i \in {} |-> 0]
      <4>2. IsFiniteSet({}) /\ none \in [{} -> 0..n]
        BY FS_EmptySet
      <4> HIDE DEF none
      <4>3. SumOver(none, {}) = 0
        BY <4>2, SumType
      <4> QED BY <4>1, <4>2, <4>3
    <3> QED BY <2>2, <3>2 DEF Packs
  <2> DEFINE c == First(s)
             rest == s \ {c}
  <2>5. c \in s /\ Cardinality(rest) < Cardinality(s) /\ Cardinality(rest) \in Nat
    BY <2>3, <2>4, FirstIsSmaller
  <2>6. SumOver(cap, s) = cap[c] + SumOver(cap, rest)
    <3>1. First(s) \in s
      BY <2>5
    <3> HIDE DEF Bad, D, rank, rest
    <3> QED BY <2>3, <3>1, SumOfRest DEF rest
  <2> HIDE DEF c
  <2>7. rest \in D /\ IsFiniteSet(rest) /\ \A i \in rest : cap[i] \in Nat
    BY <1>1, <2>2, <2>3
  <2>8. Packs(rest)
    <3>1. rank[rest] = Cardinality(rest) /\ rank[s] = Cardinality(s) /\ rank[s] \in Nat
      BY <1>1, <2>2, <2>7
    <3>2. ~(rank[s] <= rank[rest])
      BY <2>5, <3>1
    <3> QED BY <2>1, <2>7, <3>2
  <2> HIDE DEF rest, Bad, rank, D
  <2>9. s = rest \cup {c} /\ c \notin rest /\ cap[c] \in Nat
    BY <2>3, <2>5 DEF rest
  <2>10. SumOver(cap, rest) \in Nat
    BY <2>7, SumNat
  <2>11. ASSUME NEW n \in Nat, n <= SumOver(cap, s)
         PROVE  \E pack \in [s -> 0..n] : (\A i \in s : pack[i] <= cap[i]) /\ SumOver(pack, s) = n
    <3> DEFINE m == IF n <= SumOver(cap, rest) THEN n ELSE SumOver(cap, rest)
               own == n - m
    <3>1. m \in Nat /\ own \in Nat /\ m <= SumOver(cap, rest) /\ m + own = n /\ m <= n /\ own <= n
          /\ own <= cap[c]
      BY <2>6, <2>9, <2>10, <2>11
    <3> HIDE DEF m, own
    <3>2. PICK inner \in [rest -> 0..m] :
             (\A i \in rest : inner[i] <= cap[i]) /\ SumOver(inner, rest) = m
      BY <2>8, <3>1 DEF Packs
    <3> DEFINE pack == [i \in s |-> IF i = c THEN own ELSE inner[i]]
    <3>3. \A i \in rest : inner[i] \in 0..m /\ pack[i] = inner[i] /\ inner[i] \in Int
      BY <2>9, <3>1, <3>2
    <3>4. pack[c] = own
      BY <2>9
    <3>5. pack \in [s -> 0..n]
      <4>1. ASSUME NEW i \in s PROVE (IF i = c THEN own ELSE inner[i]) \in 0..n
        <5>1. i # c => i \in rest /\ inner[i] \in 0..m
          BY <2>9, <3>3
        <5> QED BY <3>1, <5>1
      <4> QED BY <4>1
    <3>6. \A i \in s : pack[i] <= cap[i]
      BY <2>9, <3>1, <3>2, <3>3, <3>4
    <3> HIDE DEF pack
    <3>7. SumOver(pack, rest) = m
      <4>1. \A i \in rest : inner[i] \in Int /\ pack[i] = inner[i]
        BY <3>3
      <4> QED BY <2>7, <3>2, <4>1, SumsAgree
    <3>8. SumOver(pack, s) = pack[c] + SumOver(pack, s \ {c})
      <4>1. \A i \in s : pack[i] \in Int
        BY <3>5
      <4> QED BY <2>3, <2>5, <4>1, SumOfRest
    <3>9. SumOver(pack, s) = n
      BY <3>1, <3>4, <3>7, <3>8 DEF rest
    <3> QED BY <3>5, <3>6, <3>9
  <2> QED BY <2>2, <2>11 DEF Packs
<1>3. S \in D
  OBVIOUS
<1>4. Packs(S)
  BY <1>2, <1>3
<1> QED BY <1>4
=============================================================================
