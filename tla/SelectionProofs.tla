-------------------------- MODULE SelectionProofs --------------------------
(***************************************************************************)
(* Proofs about the machines that choose among all combinations: skills    *)
(* for a request (compose_skills) and groups of redundant ones, and the    *)
(* options of a plan (solve).  What a table over sets of skills and a      *)
(* search over calls hold is shown by counterexamples of least rank        *)
(* (DataProofs).                                                           *)
(***************************************************************************)
EXTENDS SkillEvolution, DispatchPlanner, DataProofs

-----------------------------------------------------------------------------
(* SkillEvolution: proposals *)

\* What the constants are, record by record.
LEMMA SkillTypes ==
    /\ SkillCount \in Nat
    /\ \A content \in Indexes :
          /\ content.skills \in [SkillIds -> SkillDescriptors]
          /\ \A pair \in content.similar : \E s, t \in SkillIds : s # t /\ pair = {s, t}
    /\ \A r \in Requests :
          /\ r.k \in Nat \ {0} /\ r.budget \in 0..(TooDear - 1)
          /\ r.required # {} /\ IsFiniteSet(r.required)
    /\ \A report \in OutcomeReports :
          report.age \in Nat /\ report.refs # {} /\ IsFiniteSet(report.refs)
    /\ MinObservations \in Nat \ {0}
    /\ {IndexTtl, OutcomeTtl, MaxSources} \subseteq Nat
BY SkillAssumption DEF SkillIndexSnapshot, CompositionRequest, SkillOutcome, EvolutionPolicy

IndexRecords ==
    [skills : [SkillIds -> SkillDescriptors], similar : SUBSET SUBSET SkillIds,
     content : Indexes, at : Nat, source : Nat \ {0}]
\* An edge joins two skills.
EdgesJoin(similar) == \A pair \in similar : \E s, t \in SkillIds : s # t /\ pair = {s, t}

\* The state: an index that was published, and answers only since then.
SkillTyped ==
    /\ day \in Nat
    /\ skillIndex # NoIndex => skillIndex \in IndexRecords /\ EdgesJoin(skillIndex.similar)
    /\ skillIndex = NoIndex => answer = NoAnswer /\ groups = {}
    /\ answer.asked => answer.request \in Requests
    /\ IsFiniteSet(outcomes)
    /\ \A o \in outcomes : o.at \in Int /\ o.refs # {} /\ IsFiniteSet(o.refs)
    /\ \A l \in lineages : l.child[2] \in Nat

\* An index that is in use.
LEMMA IndexInUse ==
    ASSUME SkillTyped, FreshIndex
    PROVE  /\ skillIndex # NoIndex /\ skillIndex \in IndexRecords /\ EdgesJoin(skillIndex.similar)
           /\ \A s \in SkillIds : Skill(s) \in SkillDescriptors
BY DEF SkillTyped, FreshIndex, IndexRecords, Skill

\* Sets of evidence that share nothing hold as many members as there are sets.
LEMMA DisjointEvidence ==
    ASSUME NEW E, IsFiniteSet(E), \A o \in E : o.refs # {} /\ IsFiniteSet(o.refs),
           \A o1, o2 \in E : o1 # o2 => o1.refs \cap o2.refs = {}
    PROVE  Cardinality(UNION {o.refs : o \in E}) >= Cardinality(E)
<1> DEFINE all == UNION {o.refs : o \in E}
           f == [o \in E |-> CHOOSE x \in o.refs : TRUE]
<1>1. \A o \in E : f[o] \in o.refs /\ f[o] \in all
  OBVIOUS
<1>2. IsFiniteSet(all)
  <2> DEFINE sets == {o.refs : o \in E}
             g == [o \in E |-> o.refs]
  <2>1. g \in Surjection(E, sets)
    BY DEF Surjection
  <2> HIDE DEF g
  <2>2. IsFiniteSet(sets)
    BY <2>1, FS_Surjection
  <2>3. \A T \in sets : IsFiniteSet(T)
    OBVIOUS
  <2> HIDE DEF sets
  <2>4. IsFiniteSet(UNION sets)
    BY <2>2, <2>3, FS_UNION
  <2> QED BY <2>4 DEF sets
<1>3. f \in [E -> all]
  BY <1>1
<1>4. ASSUME NEW o \in E, NEW u \in E, f[o] = f[u] PROVE o = u
  BY <1>1, <1>4
<1> HIDE DEF f, all
<1>5. f \in Injection(E, all)
  <2>1. IsInjective(f)
    BY <1>3, <1>4, Zenon DEF IsInjective
  <2> QED BY <1>3, <2>1 DEF Injection
<1>6. Cardinality(E) <= Cardinality(all)
  BY <1>2, <1>5, FS_Injection
<1>7. Cardinality(E) \in Nat /\ Cardinality(all) \in Nat
  BY <1>2, FS_CardinalityType
<1> QED BY <1>6, <1>7 DEF all

\* One call of propose_evolution: what it proposes is earned.
LEMMA ProposalIsEarned ==
    ASSUME SkillTyped, FreshIndex, NEW O \in SUBSET outcomes, NEW P \in SUBSET plans,
           Accepted(O, P), NEW p \in Proposals(O)
    PROVE  /\ Cardinality(p.basis) >= MinObservations
           /\ Cardinality(UNION {o.refs : o \in p.basis}) >= Cardinality(p.basis)
           /\ \A o \in p.basis :
                 /\ o.at \in (p.at - OutcomeTtl)..p.at
                 /\ \E plan \in plans :
                       /\ plan.id = o.plan /\ plan.at <= o.at
                       /\ p.target \in plan.selected /\ plan.source = p.source
           /\ \E o \in p.basis : o.status = "failure" \/ o.quality = "poor"
<1> DEFINE E == p.basis
           target == p.target
<1>1. /\ E = {o \in Counted(O) : target \in o.skills}
      /\ Cardinality(E) >= MinObservations
      /\ FailsOften(E) \/ PoorQuality(E)
      /\ p.at = day /\ p.source = skillIndex.source
  <2> DEFINE Ev(ref) == {o \in Counted(O) : ref \in o.skills}
             targets == {ref \in UNION {o.skills : o \in Counted(O)} :
                            /\ Cardinality(Ev(ref)) >= MinObservations
                            /\ FailsOften(Ev(ref)) \/ PoorQuality(Ev(ref))}
  <2>1. p \in {[target |-> ref, basis |-> Ev(ref), at |-> day, source |-> skillIndex.source] :
                  ref \in targets}
    BY Zenon DEF Proposals, SkillEvolutionProposal
  <2>2. PICK ref \in targets :
          p = [target |-> ref, basis |-> Ev(ref), at |-> day, source |-> skillIndex.source]
    BY <2>1, Zenon
  <2>3. /\ Cardinality(Ev(ref)) >= MinObservations
        /\ FailsOften(Ev(ref)) \/ PoorQuality(Ev(ref))
    BY <2>2, Zenon
  <2>4. p.basis = Ev(ref) /\ p.target = ref /\ p.at = day /\ p.source = skillIndex.source
    <3> HIDE DEF Ev
    <3> QED BY <2>2
  <2>5. E = Ev(ref) /\ E = {o \in Counted(O) : target \in o.skills}
    BY <2>4, Zenon
  <2>6. Cardinality(E) >= MinObservations /\ (FailsOften(E) \/ PoorQuality(E))
    <3> HIDE DEF E, Ev
    <3> QED BY <2>3, <2>5, Zenon
  <2> QED BY <2>4, <2>5, <2>6
<1>2. E \subseteq Counted(O) /\ E \subseteq outcomes /\ \A o \in E : target \in o.skills
  BY <1>1 DEF Counted
<1> HIDE DEF E, target
<1>3. IsFiniteSet(E) /\ Cardinality(E) \in Nat
  BY <1>2, FS_Subset, FS_CardinalityType DEF SkillTyped
<1>4. Cardinality(UNION {o.refs : o \in E}) >= Cardinality(E)
  BY <1>2, <1>3, DisjointEvidence DEF SkillTyped, Accepted, Independent
<1>5. ASSUME NEW o \in E
      PROVE  /\ o.at \in (p.at - OutcomeTtl)..p.at
             /\ \E plan \in plans :
                   /\ plan.id = o.plan /\ plan.at <= o.at
                   /\ target \in plan.selected /\ plan.source = p.source
  <2>1. o \in O /\ o \in outcomes /\ day - o.at <= OutcomeTtl /\ target \in o.skills
    BY <1>2 DEF Counted
  <2>2. o.at <= day /\ o.at \in Int /\ day \in Nat /\ OutcomeTtl \in Nat
    BY <2>1, SkillTypes DEF SkillTyped, Accepted
  <2>3. o.at \in (p.at - OutcomeTtl)..p.at
    BY <1>1, <2>1, <2>2
  <2> DEFINE plan == CHOOSE q \in P : q.id = o.plan
  <2>4. plan \in P /\ plan.id = o.plan
    BY <2>1 DEF Accepted, Known
  <2>5. plan.at <= o.at /\ o.skills \subseteq plan.selected
    BY <1>2 DEF Accepted, Consistent
  <2> HIDE DEF plan
  <2>6. plan.source = skillIndex.source
    BY <2>1, <2>4 DEF Accepted, Bound
  <2> QED BY <1>1, <2>1, <2>3, <2>4, <2>5, <2>6
<1>6. \E o \in E : o.status = "failure" \/ o.quality = "poor"
  <2>1. Cardinality(E) >= 1 /\ E # {}
    <3>1. MinObservations \in Nat \ {0}
      BY SkillTypes
    <3>2. Cardinality(E) >= 1
      BY <1>1, <1>3, <3>1
    <3> QED BY <3>2, FS_EmptySet
  <2> DEFINE failed == {o \in E : o.status = "failure"}
             rated == {o \in E : o.quality # "none"}
             poor == {o \in rated : o.quality = "poor"}
  <2>2. CASE FailsOften(E)
    <3>1. 2 * Cardinality(failed) >= Cardinality(E)
      BY <2>2 DEF FailsOften
    <3>2. failed # {}
      BY <1>3, <2>1, <3>1, FS_EmptySet
    <3> QED BY <3>2
  <2>3. CASE PoorQuality(E)
    <3>1. 2 * Cardinality(poor) > Cardinality(rated) /\ rated # {}
      BY <2>3 DEF PoorQuality
    <3>2. IsFiniteSet(rated) /\ Cardinality(rated) \in Nat
      BY <1>3, FS_Subset, FS_CardinalityType
    <3>3. poor # {}
      <4> HIDE DEF rated
      <4> QED BY <3>1, <3>2, FS_EmptySet
    <3> QED BY <3>3
  <2> QED BY <1>1, <2>2, <2>3
<1> QED BY <1>1, <1>4, <1>5, <1>6 DEF E, target

-----------------------------------------------------------------------------
(* SkillEvolution: redundancy groups *)

\* The trees of _RedundancySets: a skill is its own root or has a smaller parent.
Forest(A) == {parent \in [A -> A] : \A s \in A : parent[s] <= s}

\* Parents are skills, and no greater than their children.
LEMMA ParentsAre ==
    ASSUME SkillCount \in Nat, NEW A \in SUBSET SkillIds, NEW parent \in Forest(A)
    PROVE  \A s \in A : parent[s] \in A /\ parent[s] <= s /\ s \in Nat /\ parent[s] \in Nat
<1>1. parent \in [A -> A] /\ \A s \in A : parent[s] <= s
  BY DEF Forest
<1>2. \A s \in A : s \in Nat
  BY DEF SkillIds
<1> QED BY <1>1, <1>2

\* The root of a skill is its own or its parent's.
LEMMA RootIs ==
    ASSUME SkillCount \in Nat, NEW A \in SUBSET SkillIds, NEW parent \in Forest(A)
    PROVE  \A s \in A :
              /\ FindRoot(parent, s) \in A
              /\ FindRoot(parent, s) = IF parent[s] = s THEN s ELSE FindRoot(parent, parent[s])
<1> DEFINE leaves == {i \in A : parent[i] = i}
           rank == [i \in A |-> i]
           base == [i \in A |-> i]
           own == [p \in A \X A |-> p[2]]
           Is(root) == root = [i \in DOMAIN parent |-> IF parent[i] = i THEN i ELSE root[parent[i]]]
<1>1. parent \in [A -> A] /\ DOMAIN parent = A /\ \A s \in A : parent[s] \in A /\ parent[s] <= s
  BY DEF Forest
<1>2. \A i \in A : i \in Nat /\ i < SkillCount + 1
  BY DEF SkillIds
<1>3. CASE A = {}
  BY <1>3
<1>4. CASE A # {}
  <2>1. \E f \in [A -> A] : ObeysFrom(f, A, leaves, base, own, parent)
    <3>1. RanksBelow(A, rank, SkillCount + 1)
      BY <1>2 DEF RanksBelow
    <3>2. Leads(A, leaves, parent, rank)
      BY <1>1, <1>2 DEF Leads
    <3>3. GivesFrom(A, A, leaves, base, own)
      BY DEF GivesFrom
    <3>4. SkillCount + 1 \in Nat
      OBVIOUS
    <3> HIDE DEF leaves, rank, base, own
    <3> QED BY <1>4, <3>1, <3>2, <3>3, <3>4, RecursionFromLeaves
  <2>2. PICK f \in [A -> A] : \A i \in A : f[i] = IF parent[i] = i THEN i ELSE f[parent[i]]
    BY <1>1, <2>1 DEF ObeysFrom
  <2>3. Is(f)
    BY <1>1, <2>2
  <2> DEFINE root == CHOOSE g : Is(g)
  <2>4. Is(root)
    BY <2>3
  <2>5. \A s \in A : FindRoot(parent, s) = root[s]
    BY DEF FindRoot
  <2> HIDE DEF root
  <2>6. \A i \in A : root[i] = IF parent[i] = i THEN i ELSE root[parent[i]]
    BY <1>1, <2>4
  <2> DEFINE Bad == {i \in A : root[i] \notin A}
  <2>7. Bad = {}
    <3> SUFFICES ASSUME Bad # {} PROVE FALSE
      OBVIOUS
    <3>1. PICK i \in Bad : \A j \in Bad : i <= j
      <4>1. Bad \in SUBSET Nat
        BY <1>2
      <4> HIDE DEF Bad
      <4> QED BY <4>1, SmallestNumber
    <3>2. parent[i] # i /\ root[i] = root[parent[i]] /\ parent[i] \in A
      BY <1>1, <2>6, <3>1
    <3>3. ~(i <= parent[i])
      BY <1>1, <1>2, <3>1, <3>2
    <3> QED BY <3>1, <3>2, <3>3
  <2> QED BY <1>1, <2>5, <2>6, <2>7
<1> QED BY <1>3, <1>4

\* Roots are roots.
LEMMA RootsAreRoots ==
    ASSUME SkillCount \in Nat, NEW A \in SUBSET SkillIds, NEW parent \in Forest(A)
    PROVE  \A s \in A :
              LET r == FindRoot(parent, s) IN r \in A /\ parent[r] = r /\ FindRoot(parent, r) = r
<1> DEFINE R(s) == FindRoot(parent, s)
           Bad == {s \in A : parent[R(s)] # R(s)}
<1>1. \A s \in A : R(s) \in A /\ R(s) = IF parent[s] = s THEN s ELSE R(parent[s])
  BY RootIs
<1>2. \A s \in A : parent[s] \in A /\ parent[s] <= s /\ s \in Nat /\ parent[s] \in Nat
  BY ParentsAre
<1> HIDE DEF R
<1>3. Bad = {}
  <2> SUFFICES ASSUME Bad # {} PROVE FALSE
    OBVIOUS
  <2>1. PICK i \in Bad : \A j \in Bad : i <= j
    <3>1. Bad \in SUBSET Nat
      BY <1>2
    <3> HIDE DEF Bad
    <3> QED BY <3>1, SmallestNumber
  <2>2. parent[i] # i /\ R(i) = R(parent[i]) /\ parent[i] \in A
    BY <1>1, <1>2, <2>1
  <2>3. ~(i <= parent[i])
    BY <1>2, <2>1, <2>2
  <2> QED BY <2>1, <2>2, <2>3
<1> QED BY <1>1, <1>3 DEF R

\* When a root adopts another one, what had the other one as its root has it.
Adopts(A, parent, new, root, child) ==
    \A s \in A : FindRoot(new, s) = IF FindRoot(parent, s) = child THEN root ELSE FindRoot(parent, s)

\* Adopting keeps the forest, and moves the roots as it should.
LEMMA Adopted ==
    ASSUME SkillCount \in Nat, NEW A \in SUBSET SkillIds, NEW parent \in Forest(A),
           NEW root \in A, NEW child \in A, root < child,
           parent[root] = root, parent[child] = child,
           NEW new, new = [parent EXCEPT ![child] = root]
    PROVE  new \in Forest(A) /\ Adopts(A, parent, new, root, child)
<1> DEFINE R(s) == FindRoot(parent, s)
           N(s) == FindRoot(new, s)
           Bad == {s \in A : N(s) # IF R(s) = child THEN root ELSE R(s)}
<1>1. \A s \in A : parent[s] \in A /\ parent[s] <= s /\ s \in Nat /\ parent[s] \in Nat
  BY ParentsAre
<1>2. new \in Forest(A) /\ \A s \in A : new[s] = IF s = child THEN root ELSE parent[s]
  BY <1>1 DEF Forest
<1>3. \A s \in A : R(s) \in A /\ R(s) = IF parent[s] = s THEN s ELSE R(parent[s])
  BY RootIs
<1>4. \A s \in A : N(s) \in A /\ N(s) = IF new[s] = s THEN s ELSE N(new[s])
  <2>1. \A q \in Forest(A) : \A s \in A :
            FindRoot(q, s) \in A /\ FindRoot(q, s) = IF q[s] = s THEN s ELSE FindRoot(q, q[s])
    BY RootIs
  <2> QED BY <1>2, <2>1
<1> HIDE DEF R, N
<1>5. Bad = {}
  <2> SUFFICES ASSUME Bad # {} PROVE FALSE
    OBVIOUS
  <2>1. PICK i \in Bad : \A j \in Bad : i <= j
    <3>1. Bad \in SUBSET Nat
      BY <1>1
    <3> HIDE DEF Bad
    <3> QED BY <3>1, SmallestNumber
  <2>2. root # child /\ new[root] = root /\ new[child] = root /\ N(root) = root
    BY <1>1, <1>2, <1>4
  <2>3. i # child
    BY <1>3, <1>4, <2>1, <2>2
  <2>4. parent[i] # i /\ new[i] = parent[i]
    BY <1>2, <1>3, <1>4, <2>1, <2>3
  <2>5. R(i) = R(parent[i]) /\ N(i) = N(parent[i]) /\ parent[i] \in A
    BY <1>1, <1>3, <1>4, <2>1, <2>4
  <2>6. ~(i <= parent[i])
    BY <1>1, <2>1, <2>4
  <2> QED BY <2>1, <2>5, <2>6
<1> QED BY <1>2, <1>5 DEF R, N, Adopts

\* What the structure says once the pairs of E were added: which skills are
\* together, how many of the pairs are in each group, and that nothing is in a
\* group that no chain of pairs connects with it.
Together(E, A, sets) ==
    /\ sets.parent \in Forest(A) /\ sets.edges \in [A -> Nat]
    /\ sets = [parent |-> sets.parent, edges |-> sets.edges]
    /\ \A p \in E : FindRoot(sets.parent, p[1]) = FindRoot(sets.parent, p[2])
    /\ \A r \in A : sets.parent[r] = r =>
          sets.edges[r] = Cardinality({p \in E : FindRoot(sets.parent, p[1]) = r})
    /\ \A T \in SUBSET A : (\A p \in E : p[1] \in T <=> p[2] \in T) =>
          \A s \in A : s \in T <=> FindRoot(sets.parent, s) \in T

\* Before the first pair every skill is alone.
LEMMA AloneFirst ==
    ASSUME SkillCount \in Nat, NEW A \in SUBSET SkillIds
    PROVE  Together({}, A, [parent |-> [s \in A |-> s], edges |-> [s \in A |-> 0]])
<1> DEFINE parent == [s \in A |-> s]
           edges == [s \in A |-> 0]
           sets == [parent |-> parent, edges |-> edges]
<1>1. parent \in Forest(A) /\ edges \in [A -> Nat] /\ \A s \in A : parent[s] = s /\ edges[s] = 0
  BY DEF Forest, SkillIds
<1> HIDE DEF parent, edges
<1>2. \A s \in A : FindRoot(parent, s) = s
  BY <1>1, RootIs
<1>3. \A r \in A : {p \in {} : FindRoot(parent, p[1]) = r} = {}
  OBVIOUS
<1>4. sets.parent = parent /\ sets.edges = edges
  OBVIOUS
<1> HIDE DEF sets
<1>5. Cardinality({}) = 0
  BY FS_EmptySet
<1>6. Together({}, A, sets)
  BY <1>1, <1>2, <1>3, <1>4, <1>5 DEF Together, sets
<1> QED BY <1>6 DEF sets, parent, edges

\* One pair more (add_edge).
LEMMA EdgeAdded ==
    ASSUME SkillCount \in Nat, NEW A \in SUBSET SkillIds, NEW E, IsFiniteSet(E), E \subseteq A \X A,
           NEW pair \in A \X A, pair \notin E, NEW sets, Together(E, A, sets)
    PROVE  Together(E \cup {pair}, A, AddEdge(sets, pair))
<1> DEFINE parent == sets.parent
           edges == sets.edges
           R(s) == FindRoot(parent, s)
           l == R(pair[1])
           r == R(pair[2])
           Of(k) == {p \in E : R(p[1]) = k}
<1>1. /\ parent \in Forest(A) /\ edges \in [A -> Nat]
      /\ sets = [parent |-> parent, edges |-> edges]
      /\ \A p \in E : R(p[1]) = R(p[2])
      /\ \A k \in A : parent[k] = k => edges[k] = Cardinality(Of(k))
      /\ \A T \in SUBSET A : (\A p \in E : p[1] \in T <=> p[2] \in T) =>
            \A s \in A : s \in T <=> R(s) \in T
  BY DEF Together
<1>2. pair[1] \in A /\ pair[2] \in A /\ \A p \in E : p[1] \in A /\ p[2] \in A
  OBVIOUS
<1>3. \A s \in A : R(s) \in A /\ parent[R(s)] = R(s) /\ R(R(s)) = R(s)
  BY <1>1, RootsAreRoots
<1>4. l \in A /\ r \in A /\ parent[l] = l /\ parent[r] = r /\ l \in Int /\ r \in Int
  <2>1. A \subseteq Int
    BY DEF SkillIds
  <2>2. l \in A /\ r \in A /\ parent[l] = l /\ parent[r] = r
    BY <1>2, <1>3
  <2> QED BY <2>1, <2>2
<1>5. \A k : IsFiniteSet(Of(k)) /\ Cardinality(Of(k)) \in Nat
  BY FS_Subset, FS_CardinalityType
<1>6. CASE l = r
  <2> DEFINE new == [sets EXCEPT !.edges[l] = @ + 1]
             more == [edges EXCEPT ![l] = @ + 1]
  <2>1. AddEdge(sets, pair) = new
    BY <1>6 DEF AddEdge
  <2>2. new = [parent |-> parent, edges |-> more] /\ new.parent = parent /\ new.edges = more
    BY <1>1
  <2>3. more \in [A -> Nat] /\ \A k \in A : more[k] = IF k = l THEN edges[k] + 1 ELSE edges[k]
    BY <1>1, <1>4
  <2> DEFINE All(k) == {p \in E \cup {pair} : R(p[1]) = k}
  <2>4. ASSUME NEW k \in A, parent[k] = k PROVE more[k] = Cardinality(All(k))
    <3>1. CASE k = l
      <4>1. All(k) = Of(k) \cup {pair} /\ pair \notin Of(k)
        BY <3>1
      <4> HIDE DEF All, Of
      <4>2. Cardinality(All(k)) = Cardinality(Of(k)) + 1
        BY <1>5, <4>1, FS_AddElement
      <4> QED BY <1>1, <2>3, <2>4, <3>1, <4>2
    <3>2. CASE k # l
      <4>1. All(k) = Of(k)
        BY <3>2
      <4> QED BY <1>1, <2>3, <2>4, <3>2, <4>1
    <3> QED BY <3>1, <3>2
  <2>5. \A p \in E \cup {pair} : R(p[1]) = R(p[2])
    BY <1>1, <1>6
  <2>6. \A T \in SUBSET A : (\A p \in E \cup {pair} : p[1] \in T <=> p[2] \in T) =>
            \A s \in A : s \in T <=> R(s) \in T
    BY <1>1
  <2> HIDE DEF new, more
  <2>7. Together(E \cup {pair}, A, new)
    BY <1>1, <2>2, <2>3, <2>4, <2>5, <2>6 DEF Together
  <2> QED BY <2>1, <2>7
<1>7. CASE l # r
  <2> DEFINE root == IF l < r THEN l ELSE r
             child == IF l < r THEN r ELSE l
             above == [parent EXCEPT ![child] = root]
             more == [edges EXCEPT ![root] = @ + edges[child] + 1]
             new == [parent |-> above, edges |-> more]
             N(s) == FindRoot(above, s)
  <2>1. /\ root \in A /\ child \in A /\ root < child /\ parent[root] = root /\ parent[child] = child
        /\ {l, r} = {root, child} /\ root # child
    BY <1>4, <1>7
  <2>2. AddEdge(sets, pair) = new
    <3>1. Min({l, r}) = root /\ Max({l, r}) = child
      BY <1>4, <1>7, MinMaxOfTwo
    <3> QED BY <1>7, <3>1 DEF AddEdge
  <2> HIDE DEF root, child
  <2>3. above \in Forest(A) /\ \A s \in A : N(s) = IF R(s) = child THEN root ELSE R(s)
    <3>1. above = [parent EXCEPT ![child] = root] /\ parent \in Forest(A)
      BY <1>1
    <3> HIDE DEF parent, above
    <3>2. above \in Forest(A) /\ Adopts(A, parent, above, root, child)
      BY <2>1, <3>1, Adopted
    <3> QED BY <3>2 DEF Adopts
  <2>4. more \in [A -> Nat] /\ \A k \in A : more[k] = IF k = root THEN edges[k] + edges[child] + 1 ELSE edges[k]
    BY <1>1, <2>1
  <2>5. \A k \in A : above[k] = k => parent[k] = k /\ k # child
    BY <1>1, <2>1 DEF Forest
  <2>6. new.parent = above /\ new.edges = more
    OBVIOUS
  <2> HIDE DEF R, above, more, N
  <2>7. N(pair[1]) = root /\ N(pair[2]) = root
    BY <1>2, <2>1, <2>3
  <2>8. \A p \in E \cup {pair} : N(p[1]) = N(p[2])
    BY <1>1, <1>2, <2>3, <2>7
  <2> DEFINE All(k) == {p \in E \cup {pair} : N(p[1]) = k}
  <2>9. ASSUME NEW k \in A, above[k] = k PROVE more[k] = Cardinality(All(k))
    <3>1. parent[k] = k /\ k # child
      BY <2>5, <2>9
    <3>2. CASE k = root
      <4>1. All(k) = (Of(root) \cup Of(child)) \cup {pair}
        BY <1>2, <2>3, <2>7, <3>2
      <4> DEFINE S1 == Of(root)
                 S2 == Of(child)
                 S3 == All(k)
      <4>2. pair \notin S1 \cup S2 /\ S1 \cap S2 = {}
        BY <2>1
      <4>3. IsFiniteSet(S1) /\ IsFiniteSet(S2) /\ Cardinality(S1) \in Nat /\ Cardinality(S2) \in Nat
            /\ S3 = (S1 \cup S2) \cup {pair}
        BY <1>5, <4>1
      <4> HIDE DEF S1, S2, S3
      <4>4. Cardinality({}) = 0
        BY FS_EmptySet
      <4>5. IsFiniteSet(S1 \cup S2) /\ Cardinality(S1 \cup S2) = Cardinality(S1) + Cardinality(S2)
        <5>1. Cardinality(S1 \cup S2) = Cardinality(S1) + Cardinality(S2) - Cardinality(S1 \cap S2)
              /\ IsFiniteSet(S1 \cup S2)
          BY <4>3, FS_Union
        <5> QED BY <4>2, <4>3, <4>4, <5>1
      <4>6. Cardinality(S3) = Cardinality(S1) + Cardinality(S2) + 1
        BY <4>2, <4>3, <4>5, FS_AddElement
      <4>7. Cardinality(All(k)) = Cardinality(Of(root)) + Cardinality(Of(child)) + 1
        BY <4>6 DEF S1, S2, S3
      <4> QED BY <1>1, <2>1, <2>4, <3>2, <4>7
    <3>3. CASE k # root
      <4>1. All(k) = Of(k)
        BY <1>2, <2>3, <2>7, <3>1, <3>3
      <4> QED BY <1>1, <2>4, <3>1, <3>3, <4>1
    <3> QED BY <3>2, <3>3
  <2>10. ASSUME NEW T \in SUBSET A, \A p \in E \cup {pair} : p[1] \in T <=> p[2] \in T, NEW s \in A
         PROVE s \in T <=> N(s) \in T
    <3>1. \A u \in A : u \in T <=> R(u) \in T
      BY <1>1, <2>10
    <3>2. l \in T <=> r \in T
      BY <1>2, <2>10, <3>1
    <3>3. root \in T <=> child \in T
      BY <2>1, <3>2
    <3> QED BY <2>3, <2>10, <3>1, <3>3
  <2> HIDE DEF new
  <2>11. new = [parent |-> new.parent, edges |-> new.edges]
    BY DEF new
  <2>12. Together(E \cup {pair}, A, new)
    BY <2>3, <2>4, <2>6, <2>8, <2>9, <2>10, <2>11 DEF Together, N
  <2> QED BY <2>2, <2>12
<1> QED BY <1>6, <1>7

\* The skills are finitely many, and so are pairs of them.
LEMMA SkillsAreFinite ==
    /\ IsFiniteSet(SkillIds) /\ IsFiniteSet(Combinations)
    /\ SkillIds \subseteq Nat /\ SkillCount \in Nat
<1>1. SkillCount \in Nat
  BY SkillTypes
<1>2. IsFiniteSet(SkillIds) /\ SkillIds \subseteq Nat
  BY <1>1, FS_Interval DEF SkillIds
<1>3. IsFiniteSet(SkillIds \X SkillIds)
  BY <1>2, FS_Product
<1>4. Combinations \subseteq SkillIds \X SkillIds
  BY DEF Combinations
<1> QED BY <1>1, <1>2, <1>3, <1>4, FS_Subset

\* Some pairs have a last one.
LEMMA LastPairIs ==
    ASSUME NEW E \in SUBSET Combinations, E # {}
    PROVE  LastPair(E) \in E
<1> DEFINE firsts == {i \in SkillIds : \E p \in E : p[1] = i}
           m1 == Max(firsts)
           seconds == {i \in SkillIds : \E p \in E : p[1] = m1 /\ p[2] = i}
           m2 == Max(seconds)
<1>1. \A p \in E : p[1] \in SkillIds /\ p[2] \in SkillIds /\ p[1] \in Nat /\ p[2] \in Nat
  <2>1. \A p \in E : p[1] \in SkillIds /\ p[2] \in SkillIds
    BY DEF Combinations
  <2> QED BY <2>1, SkillsAreFinite
<1>2. m1 \in firsts /\ \A i \in firsts : i <= m1
  <2>1. IsFiniteSet(firsts) /\ firsts # {} /\ \A i \in firsts : i \in Int
    <3>1. firsts \subseteq SkillIds /\ firsts # {}
      BY <1>1
    <3> HIDE DEF firsts
    <3>2. IsFiniteSet(firsts)
      BY <3>1, SkillsAreFinite, FS_Subset
    <3> QED BY <3>1, <3>2, SkillsAreFinite
  <2> HIDE DEF firsts
  <2> QED BY <2>1, GreatestOf
<1>3. PICK p \in E : p[1] = m1
  BY <1>2
<1>4. m2 \in seconds /\ \A i \in seconds : i <= m2
  <2> HIDE DEF m1
  <2>1. IsFiniteSet(seconds) /\ seconds # {} /\ \A i \in seconds : i \in Int
    <3>1. seconds \subseteq SkillIds /\ seconds # {}
      BY <1>1, <1>3
    <3> HIDE DEF seconds
    <3>2. IsFiniteSet(seconds)
      BY <3>1, SkillsAreFinite, FS_Subset
    <3> QED BY <3>1, <3>2, SkillsAreFinite
  <2> HIDE DEF seconds
  <2> QED BY <2>1, GreatestOf
<1>5. PICK q \in E : q[1] = m1 /\ q[2] = m2
  BY <1>4
<1>6. \A r \in E : r[1] \in firsts /\ (r[1] = m1 => r[2] \in seconds)
  BY <1>1
<1> HIDE DEF firsts, m1, seconds, m2
<1>7. \A r \in E : r[1] < q[1] \/ (r[1] = q[1] /\ r[2] <= q[2])
  BY <1>1, <1>2, <1>4, <1>5, <1>6
<1> QED BY <1>7 DEF LastPair

\* The pairs of an index in use join available skills.
LEMMA PairsAre ==
    /\ SimilarPairs \in SUBSET Combinations /\ IsFiniteSet(SimilarPairs)
    /\ SimilarPairs \subseteq AvailableSkills \X AvailableSkills
    /\ AvailableSkills \in SUBSET SkillIds
<1>1. SimilarPairs \subseteq Combinations /\ AvailableSkills \subseteq SkillIds
  BY DEF SimilarPairs, AvailableSkills
<1>2. SimilarPairs \subseteq AvailableSkills \X AvailableSkills
  BY DEF SimilarPairs, Combinations
<1>3. IsFiniteSet(SimilarPairs)
  BY <1>1, SkillsAreFinite, FS_Subset
<1> QED BY <1>1, <1>2, <1>3

\* The structures the pairs are added to.
UnionSets == [parent : Forest(AvailableSkills), edges : [AvailableSkills -> Nat]]

\* All the pairs together.
LEMMA AllTogether == Together(SimilarPairs, AvailableSkills, RedundancySets)
<1> DEFINE A == AvailableSkills
           D == SUBSET SimilarPairs
           alone == [parent |-> [s \in A |-> s], edges |-> [s \in A |-> 0]]
           parent == [E \in D |-> E \ {LastPair(E)}]
           rank == [E \in D |-> Cardinality(E)]
           more(E, v) == AddEdge(v, LastPair(E))
           step == [p \in D \X UnionSets |->
                       IF p[1] # {} /\ more(p[1], p[2]) \in UnionSets THEN more(p[1], p[2]) ELSE alone]
           Is(sets) == sets = [E \in D |-> IF E = {} THEN alone
                                           ELSE AddEdge(sets[E \ {LastPair(E)}], LastPair(E))]
<1>1. SkillCount \in Nat /\ A \in SUBSET SkillIds
  BY SkillsAreFinite, PairsAre
<1>2. \A E \in D : IsFiniteSet(E) /\ rank[E] = Cardinality(E) /\ rank[E] \in Nat /\ E \subseteq A \X A
  BY PairsAre, FS_Subset, FS_CardinalityType
<1>3. ASSUME NEW E \in D \ {{}}
      PROVE  /\ LastPair(E) \in E /\ LastPair(E) \in A \X A
             /\ parent[E] = E \ {LastPair(E)} /\ parent[E] \in D /\ rank[parent[E]] < rank[E]
             /\ E = parent[E] \cup {LastPair(E)} /\ LastPair(E) \notin parent[E]
  <2>1. LastPair(E) \in E
    BY PairsAre, LastPairIs
  <2>2. Cardinality(E \ {LastPair(E)}) = Cardinality(E) - 1 /\ Cardinality(E) \in Nat
    BY <1>2, <2>1, FS_RemoveElement, FS_CardinalityType
  <2>3. parent[E] = E \ {LastPair(E)} /\ parent[E] \in D
    OBVIOUS
  <2>4. rank[parent[E]] = Cardinality(E) - 1 /\ rank[E] = Cardinality(E)
    BY <2>2, <2>3
  <2>5. LastPair(E) \in A \X A
    BY <2>1, PairsAre
  <2>6. E = parent[E] \cup {LastPair(E)} /\ LastPair(E) \notin parent[E]
    BY <2>1, <2>3
  <2>7. rank[parent[E]] < rank[E]
    <3> HIDE DEF rank, parent
    <3> QED BY <2>2, <2>4
  <2> QED BY <2>1, <2>3, <2>5, <2>6, <2>7
<1> HIDE DEF alone, A
<1>4. alone \in UnionSets /\ Together({}, A, alone)
  <2>1. Together({}, A, alone)
    BY <1>1, AloneFirst DEF alone
  <2> QED BY <2>1 DEF Together, UnionSets, A
<1>5. ASSUME NEW E \in D, NEW pair \in A \X A, pair \notin E, NEW v \in UnionSets, Together(E, A, v)
      PROVE  AddEdge(v, pair) \in UnionSets /\ Together(E \cup {pair}, A, AddEdge(v, pair))
  <2>1. Together(E \cup {pair}, A, AddEdge(v, pair))
    BY <1>1, <1>2, <1>5, EdgeAdded
  <2> HIDE DEF D
  <2> QED BY <2>1 DEF Together, UnionSets, A
<1> DEFINE Has(E, v) == v \in UnionSets /\ Together(E, A, v)
<1>6. PICK f \in [D -> UnionSets] : \A E \in D :
          f[E] = IF E = {} THEN alone ELSE step[<<E, f[parent[E]]>>]
  <2> DEFINE root == {}
             V == UnionSets
  <2>1. Founded(D, root, parent, rank)
    BY <1>2, <1>3 DEF Founded
  <2>2. Values(D, V, alone, step)
    BY <1>4 DEF Values
  <2> HIDE DEF D, root, parent, rank, V, step
  <2>3. \E f \in [D -> V] : \A E \in D : f[E] = IF E = root THEN alone ELSE step[<<E, f[parent[E]]>>]
    BY <2>1, <2>2, RecursionDefines
  <2> QED BY <2>3 DEF root, V
<1>7. ASSUME NEW E \in D, E # {}, Together(parent[E], A, f[parent[E]])
      PROVE  f[E] = AddEdge(f[parent[E]], LastPair(E)) /\ Together(E, A, f[E])
  <2> DEFINE v == f[parent[E]]
             pair == LastPair(E)
             new == AddEdge(v, pair)
  <2>1. /\ parent[E] \in D /\ pair \in A \X A /\ pair \notin parent[E]
        /\ E = parent[E] \cup {pair} /\ v \in UnionSets
    BY <1>3, <1>6, <1>7
  <2>2. new \in UnionSets /\ Together(E, A, new)
    BY <1>5, <1>7, <2>1
  <2>3. f[E] = step[<<E, v>>]
    BY <1>6, <1>7
  <2>4. step[<<E, v>>] = IF E # {} /\ more(E, v) \in UnionSets THEN more(E, v) ELSE alone
    BY <2>1
  <2>5. f[E] = new
    BY <1>7, <2>2, <2>3, <2>4
  <2> QED BY <2>2, <2>5
<1> HIDE DEF step
<1> DEFINE Bad == {E \in D : ~Together(E, A, f[E])}
<1>8. Bad = {}
  <2> SUFFICES ASSUME Bad # {} PROVE FALSE
    OBVIOUS
  <2>1. PICK E \in Bad : \A F \in Bad : rank[E] <= rank[F]
    <3>1. \A E \in Bad : rank[E] \in Nat
      BY <1>2
    <3> HIDE DEF Bad
    <3> QED BY <3>1, LeastOf
  <2>2. E # {}
    BY <1>4, <1>6, <2>1
  <2>3. parent[E] \in D /\ rank[parent[E]] < rank[E] /\ rank[E] \in Nat /\ rank[parent[E]] \in Nat
    BY <1>2, <1>3, <2>1, <2>2
  <2>4. parent[E] \notin Bad
    <3>1. ~(rank[E] <= rank[parent[E]])
      BY <2>3
    <3> HIDE DEF Bad, rank, parent
    <3> QED BY <2>1, <3>1
  <2> QED BY <1>7, <2>1, <2>2, <2>3, <2>4
<1>9. Is(f)
  <2>1. ASSUME NEW E \in D
        PROVE f[E] = IF E = {} THEN alone ELSE AddEdge(f[E \ {LastPair(E)}], LastPair(E))
    <3>1. CASE E = {}
      BY <1>6, <3>1
    <3>2. CASE E # {}
      <4>1. parent[E] = E \ {LastPair(E)} /\ parent[E] \notin Bad /\ parent[E] \in D
        BY <1>3, <1>8, <3>2
      <4> QED BY <1>7, <3>2, <4>1
    <3> QED BY <3>1, <3>2
  <2> QED BY <1>6, <2>1
<1> DEFINE sets == CHOOSE g : Is(g)
<1>10. Is(sets)
  BY <1>9
<1>11. RedundancySets = sets[SimilarPairs]
  BY DEF RedundancySets, alone, A
<1> HIDE DEF sets
<1> DEFINE Wrong == {E \in D : sets[E] # f[E]}
<1>12. \A E \in D : sets[E] = IF E = {} THEN alone ELSE AddEdge(sets[E \ {LastPair(E)}], LastPair(E))
  BY <1>10
<1>13. Wrong = {}
  <2> SUFFICES ASSUME Wrong # {} PROVE FALSE
    OBVIOUS
  <2>1. PICK E \in Wrong : \A F \in Wrong : rank[E] <= rank[F]
    <3>1. \A E \in Wrong : rank[E] \in Nat
      BY <1>2
    <3> HIDE DEF Wrong
    <3> QED BY <3>1, LeastOf
  <2>2. E # {}
    BY <1>6, <1>12, <2>1
  <2>3. parent[E] \in D /\ rank[parent[E]] < rank[E] /\ rank[E] \in Nat /\ rank[parent[E]] \in Nat
    BY <1>2, <1>3, <2>1, <2>2
  <2>4. parent[E] \notin Wrong
    <3>1. ~(rank[E] <= rank[parent[E]])
      BY <2>3
    <3> HIDE DEF Wrong, rank, parent
    <3> QED BY <2>1, <3>1
  <2>6. parent[E] = E \ {LastPair(E)} /\ parent[E] \notin Bad
    BY <1>3, <1>8, <2>1, <2>2
  <2>5. f[E] = AddEdge(f[parent[E]], LastPair(E))
    BY <1>7, <2>1, <2>2, <2>3, <2>6
  <2> QED BY <1>12, <2>1, <2>2, <2>3, <2>4, <2>5, <2>6
<1> QED BY <1>8, <1>11, <1>13 DEF A

\* The edges within a set of skills, and whether they connect it.
EdgesWithin(S) == {e \in skillIndex.similar : e \subseteq S}
ConnectedBy(S) ==
    \A T \in (SUBSET S) \ {{}, S} :
        \E e \in EdgesWithin(S) : e \cap T # {} /\ e \cap (S \ T) # {}
\* A connected part of the graph, with its edges counted.
IsComponent(g) ==
    /\ ConnectedBy(g.members) /\ Cardinality(g.members) > 1
    /\ g.pairs = Cardinality(EdgesWithin(g.members))
    /\ \A s \in SkillIds \ g.members :
          Skill(s).usable => \A t \in g.members : {s, t} \notin skillIndex.similar

\* The edges of available skills are the pairs that were put together.
LEMMA EdgesArePairs ==
    ASSUME SkillTyped, FreshIndex
    PROVE  /\ \A e \in skillIndex.similar : e \subseteq AvailableSkills =>
                 \E p \in SimilarPairs : e = {p[1], p[2]}
           /\ \A p \in SimilarPairs : /\ {p[1], p[2]} \in skillIndex.similar
                                      /\ {p[1], p[2]} \subseteq AvailableSkills /\ p[1] # p[2]
           /\ \A p, q \in SimilarPairs : {p[1], p[2]} = {q[1], q[2]} => p = q
<1>1. \A p \in SimilarPairs :
         /\ p = <<p[1], p[2]>> /\ p[1] < p[2] /\ p[1] \in Nat /\ p[2] \in Nat
         /\ {p[1], p[2]} \in skillIndex.similar /\ {p[1], p[2]} \subseteq AvailableSkills
  <2>1. \A p \in SimilarPairs : p \in SkillIds \X SkillIds /\ p[1] < p[2]
         /\ {p[1], p[2]} \in skillIndex.similar /\ {p[1], p[2]} \subseteq AvailableSkills
    BY DEF SimilarPairs, Combinations
  <2> QED BY <2>1, SkillsAreFinite
<1>2. ASSUME NEW e \in skillIndex.similar, e \subseteq AvailableSkills
      PROVE  \E p \in SimilarPairs : e = {p[1], p[2]}
  <2>1. PICK s, t \in SkillIds : s # t /\ e = {s, t}
    BY <1>2, IndexInUse DEF EdgesJoin
  <2> DEFINE p == IF s < t THEN <<s, t>> ELSE <<t, s>>
  <2>2. s \in Nat /\ t \in Nat
    BY SkillsAreFinite
  <2>3. p \in Combinations /\ e = {p[1], p[2]}
    BY <2>1, <2>2 DEF Combinations
  <2> HIDE DEF p
  <2>4. p \in SimilarPairs
    BY <1>2, <2>3 DEF SimilarPairs
  <2> QED BY <2>3, <2>4
<1>3. ASSUME NEW p \in SimilarPairs, NEW q \in SimilarPairs, {p[1], p[2]} = {q[1], q[2]}
      PROVE  p = q
  <2>1. p[1] < p[2] /\ q[1] < q[2] /\ p[1] \in Nat /\ p[2] \in Nat /\ q[1] \in Nat /\ q[2] \in Nat
    BY <1>1
  <2>2. p[1] = q[1] /\ p[2] = q[2]
    BY <1>3, <2>1
  <2> QED BY <1>1, <2>2
<1>4. ASSUME NEW p \in SimilarPairs PROVE p[1] # p[2]
  <2>1. p[1] < p[2] /\ p[1] \in Nat /\ p[2] \in Nat
    BY <1>1
  <2> QED BY <2>1
<1> QED BY <1>1, <1>2, <1>3, <1>4

\* What analyze_latent_space answers.
LEMMA GroupIsComponent ==
    ASSUME SkillTyped, FreshIndex, NEW g \in RedundancyGroups
    PROVE  IsComponent(g)
<1> DEFINE A == AvailableSkills
           sets == RedundancySets
           R(s) == FindRoot(sets.parent, s)
           Members(r) == {s \in A : R(s) = r}
           Of(r) == {p \in SimilarPairs : R(p[1]) = r}
<1>1. PICK r \in {s \in A : R(s) = s /\ sets.edges[s] > 0} :
          g = [members |-> Members(r), pairs |-> sets.edges[r]]
  BY Zenon DEF RedundancyGroups
<1>2. r \in A /\ R(r) = r /\ sets.edges[r] > 0 /\ g.members = Members(r) /\ g.pairs = sets.edges[r]
  <2> HIDE DEF Members, R, sets
  <2> QED BY <1>1
<1>3. /\ sets.parent \in Forest(A) /\ sets.edges \in [A -> Nat]
      /\ \A p \in SimilarPairs : R(p[1]) = R(p[2])
      /\ \A k \in A : sets.parent[k] = k => sets.edges[k] = Cardinality(Of(k))
      /\ \A T \in SUBSET A : (\A p \in SimilarPairs : p[1] \in T <=> p[2] \in T) =>
            \A s \in A : s \in T <=> R(s) \in T
  BY AllTogether DEF Together
<1>4. SkillCount \in Nat /\ A \in SUBSET SkillIds
  BY SkillsAreFinite, PairsAre
<1>5. sets.parent[r] = r
  <2>1. LET k == FindRoot(sets.parent, r) IN sets.parent[k] = k
    BY <1>2, <1>3, <1>4, RootsAreRoots
  <2> QED BY <1>2, <2>1
<1>6. g.pairs = Cardinality(Of(r)) /\ g.pairs \in Nat /\ g.pairs > 0
  BY <1>2, <1>3, <1>5
<1> HIDE DEF sets, R
<1>7. \A p \in SimilarPairs : p[1] \in A /\ p[2] \in A /\ p[1] # p[2] /\ (p[1] \in Members(r) <=> p[2] \in Members(r))
  BY <1>3, PairsAre, EdgesArePairs
<1>8. Cardinality(Of(r)) = Cardinality(EdgesWithin(Members(r)))
  <2> DEFINE pairs == Of(r)
             edges == EdgesWithin(Members(r))
             f == [p \in pairs |-> {p[1], p[2]}]
  <2>1. \A p \in pairs : f[p] \in edges
    BY <1>7, EdgesArePairs DEF EdgesWithin
  <2>2. \A p, q \in pairs : f[p] = f[q] => p = q
    BY EdgesArePairs
  <2>3. \A e \in edges : \E p \in pairs : f[p] = e
    BY EdgesArePairs DEF EdgesWithin
  <2>4. f \in [pairs -> edges] /\ DOMAIN f = pairs
    BY <2>1
  <2>5. IsFiniteSet(pairs)
    BY PairsAre, FS_Subset
  <2> HIDE DEF f, pairs, edges
  <2>6. f \in Bijection(pairs, edges)
    <3>1. IsInjective(f)
      BY <2>2, <2>4, Zenon DEF IsInjective
    <3> QED BY <2>3, <2>4, <3>1 DEF Bijection, Injection, Surjection
  <2>7. ExistsBijection(pairs, edges)
    BY <2>6 DEF ExistsBijection
  <2> QED BY <2>5, <2>7, FS_Bijection DEF pairs, edges
<1>9. Cardinality(Members(r)) > 1
  <2>1. Of(r) # {}
    BY <1>6, FS_EmptySet
  <2>2. PICK p \in SimilarPairs : R(p[1]) = r
    BY <2>1
  <2>3. p[1] \in Members(r) /\ p[2] \in Members(r) /\ p[1] # p[2]
    BY <1>7, <2>2
  <2>4. Cardinality({p[1], p[2]}) = 2
    <3> DEFINE a == p[1]
               b == p[2]
    <3>1. a # b
      BY <2>3
    <3> HIDE DEF a, b
    <3>2. IsFiniteSet({a}) /\ Cardinality({a}) = 1
      BY FS_Singleton
    <3>3. Cardinality({a} \cup {b}) = 2
      <4>1. b \notin {a}
        BY <3>1
      <4>2. Cardinality({a} \cup {b}) = Cardinality({a}) + 1
        BY <3>2, <4>1, FS_AddElement
      <4> QED BY <3>2, <4>2
    <3>4. {a} \cup {b} = {a, b}
      OBVIOUS
    <3>5. Cardinality({a, b}) = 2
      BY <3>3, <3>4
    <3> QED BY <3>5 DEF a, b
  <2>5. IsFiniteSet(Members(r))
    BY <1>4, SkillsAreFinite, FS_Subset
  <2>6. {p[1], p[2]} \subseteq Members(r)
    BY <2>3
  <2> HIDE DEF Members
  <2> QED BY <2>4, <2>5, <2>6, FS_Subset, FS_CardinalityType
<1>10. ConnectedBy(Members(r))
  <2> SUFFICES ASSUME NEW T \in (SUBSET Members(r)) \ {{}, Members(r)},
                      ~\E e \in EdgesWithin(Members(r)) : e \cap T # {} /\ e \cap (Members(r) \ T) # {}
               PROVE  FALSE
    BY DEF ConnectedBy
  <2>1. ASSUME NEW p \in SimilarPairs PROVE p[1] \in T <=> p[2] \in T
    <3> DEFINE e == {p[1], p[2]}
    <3>1. e \in skillIndex.similar
      BY EdgesArePairs
    <3>2. e \subseteq Members(r) => e \in EdgesWithin(Members(r))
      BY <3>1 DEF EdgesWithin
    <3>3. ASSUME p[1] \in T \/ p[2] \in T, ~(p[1] \in T /\ p[2] \in T) PROVE FALSE
      <4>1. p[1] \in Members(r) /\ p[2] \in Members(r)
        BY <1>7, <3>3
      <4>2. e \in EdgesWithin(Members(r)) /\ e \cap T # {} /\ e \cap (Members(r) \ T) # {}
        BY <3>2, <3>3, <4>1
      <4> QED BY <4>2
    <3> QED BY <3>3
  <2>2. \A s \in A : s \in T <=> R(s) \in T
    BY <1>3, <2>1
  <2> QED BY <2>2
<1>11. ASSUME NEW s \in SkillIds \ Members(r), Skill(s).usable, NEW t \in Members(r),
              {s, t} \in skillIndex.similar
       PROVE  FALSE
  <2>1. {s, t} \subseteq A
    BY <1>11 DEF AvailableSkills
  <2>2. PICK p \in SimilarPairs : {s, t} = {p[1], p[2]}
    BY <1>11, <2>1, EdgesArePairs
  <2> QED BY <1>7, <1>11, <2>2
<1> HIDE DEF Members, Of
<1> QED BY <1>2, <1>6, <1>8, <1>9, <1>10, <1>11 DEF IsComponent

-----------------------------------------------------------------------------
(* SkillEvolution: composition *)

Costs == [s \in SkillIds |-> Skill(s).cost]

\* What sets of skills cost: a sum, skill by skill.
LEMMA CostsAre ==
    ASSUME SkillTyped, FreshIndex
    PROVE  /\ \A S \in SUBSET SkillIds : IsFiniteSet(S) /\ Cardinality(S) \in Nat /\ CostOf(S) \in Nat
           /\ \A S \in SUBSET SkillIds : \A s \in S : CostOf(S) = Skill(s).cost + CostOf(S \ {s})
           /\ CostOf({}) = 0
           /\ \A s \in SkillIds : Skill(s).cost \in Nat
<1>1. \A s \in SkillIds : Costs[s] = Skill(s).cost /\ Costs[s] \in Nat /\ Costs[s] \in Int
  BY IndexInUse DEF SkillDescriptors, Costs
<1>2. \A S : CostOf(S) = SumOver(Costs, S)
  BY DEF CostOf, SumFunction, SumFunctionOnSet, FoldFunctionOnSet, SumOver, MapThenSumSet, Costs
<1>3. \A S \in SUBSET SkillIds : IsFiniteSet(S) /\ Cardinality(S) \in Nat
  BY SkillsAreFinite, FS_Subset, FS_CardinalityType
<1>4. \A S \in SUBSET SkillIds : SumOver(Costs, S) \in Nat
  BY <1>1, <1>3, SumNat
<1>5. ASSUME NEW S \in SUBSET SkillIds, NEW s \in S
      PROVE  SumOver(Costs, S) = Costs[s] + SumOver(Costs, S \ {s})
  <2>1. IsFiniteSet(S) /\ \A x \in S : Costs[x] \in Int
    BY <1>1, <1>3
  <2> QED BY <2>1, SumOfRest
<1>6. SumOver(Costs, {}) = 0
  <2>1. IsFiniteSet({}) /\ \A x \in {} : Costs[x] \in Int
    BY FS_EmptySet
  <2> QED BY <2>1, SumType
<1> QED BY <1>1, <1>2, <1>3, <1>4, <1>5, <1>6

\* One skill more: its capabilities, its cost, itself.
LEMMA OneMoreSkill ==
    ASSUME SkillTyped, FreshIndex, NEW T \in SUBSET SkillIds, NEW s \in SkillIds \ T
    PROVE  /\ CapsOf(T \cup {s}) = CapsOf(T) \cup Skill(s).caps
           /\ CostOf(T \cup {s}) = CostOf(T) + Skill(s).cost
           /\ Cardinality(T \cup {s}) = Cardinality(T) + 1
<1>1. CapsOf(T \cup {s}) = CapsOf(T) \cup Skill(s).caps
  BY DEF CapsOf
<1>2. CostOf(T \cup {s}) = CostOf(T) + Skill(s).cost
  <2> DEFINE S == T \cup {s}
  <2>1. S \in SUBSET SkillIds /\ s \in S /\ S \ {s} = T
    OBVIOUS
  <2> HIDE DEF S
  <2>2. CostOf(S) = Skill(s).cost + CostOf(S \ {s}) /\ CostOf(T) \in Nat /\ Skill(s).cost \in Nat
    BY <2>1, CostsAre
  <2>3. CostOf(S) = CostOf(T) + Skill(s).cost
    <3> DEFINE a == CostOf(T)
               b == Skill(s).cost
    <3>1. CostOf(S) = b + a /\ a \in Nat /\ b \in Nat
      BY <2>1, <2>2
    <3> HIDE DEF a, b
    <3>2. CostOf(S) = a + b
      BY <3>1
    <3> QED BY <3>2 DEF a, b
  <2> QED BY <2>3 DEF S
<1>3. Cardinality(T \cup {s}) = Cardinality(T) + 1
  BY CostsAre, FS_AddElement
<1> QED BY <1>1, <1>2, <1>3

\* Some skills, as a state of the completion search knows them.
Reached(missing, T) ==
    [n |-> Cardinality(T), caps |-> CapsOf(T) \cap missing, cost |-> CostOf(T)]
\* The states are those of sets of at most so many skills, and for each set one
\* of them reaches the same for no more.
SoundStates(B, U, missing, slots) ==
    \A b \in B : \E T \in SUBSET U : Cardinality(T) <= slots /\ b = Reached(missing, T)
CheapStates(B, U, missing, slots) ==
    \A T \in SUBSET U : Cardinality(T) <= slots =>
        \E b \in B : b.n = Cardinality(T) /\ b.caps = CapsOf(T) \cap missing /\ b.cost <= CostOf(T)
CompleteStates(B, U, missing, slots) ==
    SoundStates(B, U, missing, slots) /\ CheapStates(B, U, missing, slots)

\* States of numbers and sets.
CompletionState(missing) == [n : Nat, caps : SUBSET missing, cost : Nat]

\* What a set of skills reaches is a state, and one more skill keeps it one.
LEMMA StatesAreTyped ==
    ASSUME SkillTyped, FreshIndex, NEW missing
    PROVE  /\ \A T \in SUBSET SkillIds : Reached(missing, T) \in CompletionState(missing)
           /\ \A b \in CompletionState(missing), s \in SkillIds :
                 With(b, s, missing) \in CompletionState(missing)
BY CostsAre DEF Reached, CompletionState, With

\* One skill more for some of the states.
Extended(B, s, missing, slots) == B \cup {With(b, s, missing) : b \in {c \in B : c.n < slots}}

\* Complete states for a set without a skill, extended by it, are complete for the set.
LEMMA ExtendedStates ==
    ASSUME SkillTyped, FreshIndex, NEW missing, NEW slots \in Nat,
           NEW U \in SUBSET SkillIds, NEW s \in U,
           NEW B, CompleteStates(B, U \ {s}, missing, slots)
    PROVE  CompleteStates(Extended(B, s, missing, slots), U, missing, slots)
<1> DEFINE C == Extended(B, s, missing, slots)
           R == U \ {s}
<1>1. R \in SUBSET SkillIds /\ s \in SkillIds /\ s \notin R /\ SUBSET R \subseteq SUBSET U
  OBVIOUS
<1>2. SoundStates(B, R, missing, slots) /\ CheapStates(B, R, missing, slots)
  BY DEF CompleteStates
<1>3. \A b \in C : b \in B \/ \E c \in B : c.n < slots /\ b = With(c, s, missing)
  BY DEF Extended
<1>4. B \subseteq C /\ \A c \in B : c.n < slots => With(c, s, missing) \in C
  BY DEF Extended
<1> HIDE DEF C, R
<1>5. ASSUME NEW T \in SUBSET R
      PROVE  /\ T \cup {s} \in SUBSET U /\ Cardinality(T) \in Nat
             /\ Cardinality(T \cup {s}) = Cardinality(T) + 1
             /\ CapsOf(T \cup {s}) = CapsOf(T) \cup Skill(s).caps
             /\ CostOf(T \cup {s}) = CostOf(T) + Skill(s).cost
             /\ With(Reached(missing, T), s, missing) = Reached(missing, T \cup {s})
  <2>1. T \in SUBSET SkillIds /\ s \in SkillIds \ T
    BY <1>1
  <2>2. /\ Cardinality(T \cup {s}) = Cardinality(T) + 1
        /\ CapsOf(T \cup {s}) = CapsOf(T) \cup Skill(s).caps
        /\ CostOf(T \cup {s}) = CostOf(T) + Skill(s).cost
    BY <2>1, OneMoreSkill
  <2>3. With(Reached(missing, T), s, missing) = Reached(missing, T \cup {s})
    <3>1. (CapsOf(T) \cap missing) \cup (Skill(s).caps \cap missing) = (CapsOf(T) \cup Skill(s).caps) \cap missing
      OBVIOUS
    <3> QED BY <2>2, <3>1 DEF With, Reached
  <2>4. T \cup {s} \in SUBSET U
    BY DEF R
  <2>5. Cardinality(T) \in Nat
    BY <2>1, CostsAre
  <2> QED BY <2>2, <2>3, <2>4, <2>5
<1>6. SoundStates(C, U, missing, slots)
  <2> SUFFICES ASSUME NEW b \in C
               PROVE  \E T \in SUBSET U : Cardinality(T) <= slots /\ b = Reached(missing, T)
    BY DEF SoundStates
  <2>1. CASE b \in B
    BY <1>1, <1>2, <2>1 DEF SoundStates
  <2>2. CASE b \notin B
    <3>1. PICK c \in B : c.n < slots /\ b = With(c, s, missing)
      BY <1>3, <2>2
    <3>2. PICK T \in SUBSET R : c = Reached(missing, T)
      BY <1>2 DEF SoundStates
    <3>3. c.n = Cardinality(T)
      BY <3>2 DEF Reached
    <3>4. Cardinality(T \cup {s}) <= slots
      <4> DEFINE n == Cardinality(T)
      <4>1. n \in Nat /\ n < slots /\ Cardinality(T \cup {s}) = n + 1
        BY <1>5, <3>1, <3>3
      <4> HIDE DEF n
      <4> QED BY <4>1
    <3> QED BY <1>5, <3>1, <3>2, <3>4
  <2> QED BY <2>1, <2>2
<1>7. CheapStates(C, U, missing, slots)
  <2> SUFFICES ASSUME NEW T \in SUBSET U, Cardinality(T) <= slots
               PROVE  \E b \in C : /\ b.n = Cardinality(T) /\ b.caps = CapsOf(T) \cap missing
                                   /\ b.cost <= CostOf(T)
    BY DEF CheapStates
  <2>1. CASE s \notin T
    <3>1. T \in SUBSET R
      BY <2>1 DEF R
    <3> QED BY <1>2, <1>4, <3>1 DEF CheapStates
  <2>2. CASE s \in T
    <3> DEFINE V == T \ {s}
    <3>1. V \in SUBSET R /\ T = V \cup {s}
      BY <2>2 DEF R
    <3> HIDE DEF V
    <3>2. /\ Cardinality(V) \in Nat /\ Cardinality(T) = Cardinality(V) + 1
          /\ CapsOf(T) = CapsOf(V) \cup Skill(s).caps
          /\ CostOf(T) = CostOf(V) + Skill(s).cost
      BY <1>5, <3>1
    <3>3. Cardinality(V) < slots
      BY <3>2
    <3>4. PICK b \in B : b.n = Cardinality(V) /\ b.caps = CapsOf(V) \cap missing /\ b.cost <= CostOf(V)
      <4>1. Cardinality(V) <= slots
        BY <3>2, <3>3
      <4> QED BY <1>2, <3>1, <4>1 DEF CheapStates
    <3>5. b.cost \in Nat
      <4>1. PICK W \in SUBSET R : b = Reached(missing, W)
        BY <1>2 DEF SoundStates
      <4> QED BY <1>1, <4>1, CostsAre DEF Reached
    <3>6. With(b, s, missing) \in C
      BY <1>4, <3>3, <3>4
    <3>7. /\ With(b, s, missing).n = Cardinality(T)
          /\ With(b, s, missing).caps = CapsOf(T) \cap missing
          /\ With(b, s, missing).cost <= CostOf(T)
      <4>1. /\ With(b, s, missing).n = b.n + 1
            /\ With(b, s, missing).caps = b.caps \cup (Skill(s).caps \cap missing)
            /\ With(b, s, missing).cost = b.cost + Skill(s).cost
        BY DEF With
      <4>2. (CapsOf(V) \cap missing) \cup (Skill(s).caps \cap missing) = (CapsOf(V) \cup Skill(s).caps) \cap missing
        OBVIOUS
      <4>3. CostOf(V) \in Nat /\ Skill(s).cost \in Nat
        BY <1>1, <3>1, CostsAre
      <4>4. b.cost + Skill(s).cost <= CostOf(V) + Skill(s).cost
        BY <3>4, <3>5, <4>3
      <4> QED BY <3>2, <3>4, <4>1, <4>2, <4>4
    <3> QED BY <3>6, <3>7
  <2> QED BY <2>1, <2>2
<1> QED BY <1>6, <1>7 DEF CompleteStates, C

\* Of the states that reach the same the cheapest are enough.
LEMMA CheapestStates ==
    ASSUME SkillTyped, FreshIndex, NEW missing, NEW slots \in Nat, NEW U \in SUBSET SkillIds,
           NEW C, CompleteStates(C, U, missing, slots)
    PROVE  CompleteStates(Cheapest(C), U, missing, slots)
<1>1. SoundStates(C, U, missing, slots) /\ CheapStates(C, U, missing, slots)
  BY DEF CompleteStates
<1>2. SoundStates(Cheapest(C), U, missing, slots)
  BY <1>1 DEF SoundStates, Cheapest
<1>3. \A b \in C : b.cost \in Nat
  <2> SUFFICES ASSUME NEW b \in C PROVE b.cost \in Nat
    OBVIOUS
  <2>1. PICK T \in SUBSET U : b = Reached(missing, T)
    BY <1>1 DEF SoundStates
  <2> QED BY <2>1, CostsAre DEF Reached
<1>4. ASSUME NEW T \in SUBSET U, Cardinality(T) <= slots
      PROVE  \E b \in Cheapest(C) : /\ b.n = Cardinality(T) /\ b.caps = CapsOf(T) \cap missing
                                    /\ b.cost <= CostOf(T)
  <2> DEFINE same == {b \in C : b.n = Cardinality(T) /\ b.caps = CapsOf(T) \cap missing}
             cost == [b \in same |-> b.cost]
  <2>1. PICK b \in same : b.cost <= CostOf(T)
    BY <1>1, <1>4 DEF CheapStates
  <2>2. PICK c \in same : \A d \in same : c.cost <= d.cost
    <3>1. \A d \in same : cost[d] = d.cost /\ cost[d] \in Nat
      BY <1>3
    <3>2. same # {}
      BY <2>1
    <3> HIDE DEF same, cost
    <3>3. \E c \in same : \A d \in same : cost[c] <= cost[d]
      BY <3>1, <3>2, LeastOf
    <3> QED BY <3>1, <3>3
  <2>3. c \in Cheapest(C)
    BY <2>2 DEF Cheapest
  <2>4. c.cost <= CostOf(T)
    <3>1. c.cost <= b.cost /\ b.cost \in Nat /\ c.cost \in Nat /\ CostOf(T) \in Nat
      BY <1>3, <2>1, <2>2, CostsAre
    <3> QED BY <2>1, <3>1
  <2> QED BY <2>2, <2>3, <2>4
<1> QED BY <1>2, <1>4 DEF CompleteStates, CheapStates

\* The table of _minimum_covering_completion_cost, skill by skill.
LEMMA TableIs ==
    ASSUME SkillTyped, FreshIndex, NEW missing, NEW slots \in Nat
    PROVE  LET table == CompletionStates(missing, slots)
           IN  \A U \in SUBSET SkillIds :
                  /\ U # {} => Max(U) \in U
                  /\ table[U] = IF U = {} THEN {[n |-> 0, caps |-> {}, cost |-> 0]}
                                ELSE Cheapest(Extended(table[U \ {Max(U)}], Max(U), missing, slots))
<1> DEFINE D == SUBSET SkillIds
           V == SUBSET CompletionState(missing)
           alone == {[n |-> 0, caps |-> {}, cost |-> 0]}
           root == {}
           parent == [U \in D |-> U \ {Max(U)}]
           rank == [U \in D |-> Cardinality(U)]
           step == [p \in D \X V |-> IF p[1] = {} THEN alone
                                     ELSE Cheapest(Extended(p[2], Max(p[1]), missing, slots))]
           Is(states) == states = [U \in D |-> IF U = {} THEN alone
                                      ELSE Cheapest(Extended(states[U \ {Max(U)}], Max(U), missing, slots))]
<1>1. ASSUME NEW U \in D, U # {} PROVE Max(U) \in U
  <2>1. IsFiniteSet(U) /\ \A x \in U : x \in Int
    BY CostsAre, SkillsAreFinite
  <2> QED BY <1>1, <2>1, GreatestOf
<1>2. ASSUME NEW U \in D, U # {}
      PROVE  parent[U] = U \ {Max(U)} /\ parent[U] \in D /\ rank[parent[U]] < rank[U]
  <2>1. Cardinality(U \ {Max(U)}) = Cardinality(U) - 1 /\ Cardinality(U) \in Nat
    BY <1>1, <1>2, CostsAre, FS_RemoveElement
  <2>2. parent[U] = U \ {Max(U)} /\ parent[U] \in D
    OBVIOUS
  <2>3. rank[parent[U]] = Cardinality(U) - 1 /\ rank[U] = Cardinality(U)
    BY <2>1, <2>2
  <2> HIDE DEF rank, parent
  <2> QED BY <2>1, <2>2, <2>3
<1>3. Founded(D, root, parent, rank)
  <2>1. \A U \in D : rank[U] \in Nat
    BY CostsAre
  <2> HIDE DEF parent, rank
  <2> QED BY <1>2, <2>1 DEF Founded
<1>4. alone \in V
  BY DEF CompletionState
<1>5. ASSUME NEW U \in D, NEW v \in V PROVE step[<<U, v>>] \in V
  <2>1. step[<<U, v>>] = IF U = {} THEN alone ELSE Cheapest(Extended(v, Max(U), missing, slots))
    OBVIOUS
  <2>2. CASE U = {}
    BY <1>4, <2>1, <2>2
  <2>3. CASE U # {}
    <3>1. Max(U) \in SkillIds
      BY <1>1, <2>3
    <3>2. Extended(v, Max(U), missing, slots) \subseteq CompletionState(missing)
      BY <3>1, StatesAreTyped DEF Extended
    <3> QED BY <2>1, <2>3, <3>2 DEF Cheapest
  <2> QED BY <2>2, <2>3
<1>6. Values(D, V, alone, step)
  <2> HIDE DEF step
  <2> QED BY <1>4, <1>5 DEF Values
<1>7. PICK f \in [D -> V] : \A U \in D : f[U] = IF U = root THEN alone ELSE step[<<U, f[parent[U]]>>]
  <2> HIDE DEF D, V, alone, root, parent, rank, step
  <2> QED BY <1>3, <1>6, RecursionDefines
<1>8. \A U \in D : f[U] = IF U = {} THEN alone
                          ELSE Cheapest(Extended(f[U \ {Max(U)}], Max(U), missing, slots))
  <2> SUFFICES ASSUME NEW U \in D
               PROVE  f[U] = IF U = {} THEN alone
                             ELSE Cheapest(Extended(f[U \ {Max(U)}], Max(U), missing, slots))
    OBVIOUS
  <2>1. f[parent[U]] \in V /\ parent[U] = U \ {Max(U)}
    OBVIOUS
  <2>2. step[<<U, f[parent[U]]>>] =
          IF U = {} THEN alone ELSE Cheapest(Extended(f[parent[U]], Max(U), missing, slots))
    BY <2>1
  <2> HIDE DEF step, parent
  <2> QED BY <1>7, <2>1, <2>2
<1>9. Is(f)
  BY <1>8
<1> DEFINE table == CHOOSE g : Is(g)
<1>10. Is(table)
  BY <1>9
<1>11. CompletionStates(missing, slots) = table
  BY DEF CompletionStates, Extended
<1> HIDE DEF table
<1>12. \A U \in D : table[U] = IF U = {} THEN alone
                               ELSE Cheapest(Extended(table[U \ {Max(U)}], Max(U), missing, slots))
  BY <1>10
<1> QED BY <1>1, <1>11, <1>12

\* The states found for a set of skills are complete: skill by skill, none is lost.
LEMMA TableIsComplete ==
    ASSUME SkillTyped, FreshIndex, NEW missing, NEW slots \in Nat, NEW S \in SUBSET SkillIds
    PROVE  CompleteStates(CompletionStates(missing, slots)[S], S, missing, slots)
<1> DEFINE D == SUBSET SkillIds
           table == CompletionStates(missing, slots)
           Right(U) == CompleteStates(table[U], U, missing, slots)
           Bad == {U \in D : ~Right(U)}
           rank == [U \in D |-> Cardinality(U)]
<1>1. \A U \in D :
         /\ U # {} => Max(U) \in U
         /\ table[U] = IF U = {} THEN {[n |-> 0, caps |-> {}, cost |-> 0]}
                       ELSE Cheapest(Extended(table[U \ {Max(U)}], Max(U), missing, slots))
  BY TableIs
<1> HIDE DEF table
<1>2. Right({})
  <2>1. Reached(missing, {}) = [n |-> 0, caps |-> {}, cost |-> 0]
    <3>1. CapsOf({}) = {} /\ CostOf({}) = 0 /\ Cardinality({}) = 0
      BY CostsAre, FS_EmptySet DEF CapsOf
    <3> QED BY <3>1 DEF Reached
  <2>2. table[{}] = {Reached(missing, {})}
    BY <1>1, <2>1
  <2>3. Cardinality({}) <= slots /\ CostOf({}) <= CostOf({})
    BY CostsAre, FS_EmptySet
  <2>4. {} \in SUBSET {} /\ \A T \in SUBSET {} : T = {}
    OBVIOUS
  <2>5. SoundStates(table[{}], {}, missing, slots)
    BY <2>2, <2>3, <2>4 DEF SoundStates
  <2>6. CheapStates(table[{}], {}, missing, slots)
    <3> DEFINE b == Reached(missing, {})
    <3>1. b \in table[{}]
      BY <2>2
    <3>2. b.n = Cardinality({}) /\ b.caps = CapsOf({}) \cap missing /\ b.cost <= CostOf({})
      BY <2>3 DEF Reached
    <3> HIDE DEF b
    <3> QED BY <2>4, <3>1, <3>2 DEF CheapStates
  <2> QED BY <2>5, <2>6 DEF CompleteStates
<1>3. ASSUME NEW U \in D, U # {}, Right(U \ {Max(U)}) PROVE Right(U)
  <2>1. CompleteStates(Extended(table[U \ {Max(U)}], Max(U), missing, slots), U, missing, slots)
    BY <1>1, <1>3, ExtendedStates
  <2>2. CompleteStates(Cheapest(Extended(table[U \ {Max(U)}], Max(U), missing, slots)), U, missing, slots)
    BY <2>1, CheapestStates
  <2> QED BY <1>1, <1>3, <2>2
<1> HIDE DEF Right
<1>4. Bad = {}
  <2> SUFFICES ASSUME Bad # {} PROVE FALSE
    OBVIOUS
  <2>1. PICK U \in Bad : \A W \in Bad : rank[U] <= rank[W]
    <3>1. \A U \in Bad : rank[U] \in Nat
      BY CostsAre
    <3> HIDE DEF Bad
    <3> QED BY <3>1, LeastOf
  <2>2. U # {}
    BY <1>2, <2>1
  <2> DEFINE W == U \ {Max(U)}
  <2>3. W \in D /\ ~(rank[U] <= rank[W])
    <3>1. W \in D /\ Cardinality(W) = Cardinality(U) - 1 /\ Cardinality(U) \in Nat
      BY <1>1, <2>1, <2>2, CostsAre, FS_RemoveElement
    <3>2. rank[W] = Cardinality(W) /\ rank[U] = Cardinality(U)
      BY <3>1
    <3> HIDE DEF W, rank
    <3> QED BY <3>1, <3>2
  <2>4. W \notin Bad
    <3> HIDE DEF Bad, rank, W
    <3> QED BY <2>1, <2>3
  <2>5. Right(W)
    BY <2>3, <2>4
  <2> QED BY <1>3, <2>1, <2>2, <2>5
<1>5. Right(S)
  BY <1>4
<1> QED BY <1>5 DEF Right, table

\* Sets that share nothing: their numbers, capabilities and costs.
LEMMA Joined ==
    ASSUME SkillTyped, FreshIndex, NEW S \in SUBSET SkillIds, NEW T \in SUBSET SkillIds, S \cap T = {}
    PROVE  /\ CapsOf(S \cup T) = CapsOf(S) \cup CapsOf(T)
           /\ CostOf(S \cup T) = CostOf(S) + CostOf(T)
           /\ Cardinality(S \cup T) = Cardinality(S) + Cardinality(T)
<1> DEFINE D == {U \in SUBSET SkillIds : S \cap U = {}}
           Adds(U) == /\ CapsOf(S \cup U) = CapsOf(S) \cup CapsOf(U)
                      /\ CostOf(S \cup U) = CostOf(S) + CostOf(U)
                      /\ Cardinality(S \cup U) = Cardinality(S) + Cardinality(U)
           Bad == {U \in D : ~Adds(U)}
           rank == [U \in D |-> Cardinality(U)]
<1>1. Adds({})
  <2>1. CapsOf({}) = {} /\ CostOf({}) = 0 /\ Cardinality({}) = 0 /\ S \cup {} = S
    BY CostsAre, FS_EmptySet DEF CapsOf
  <2>2. CostOf(S) \in Nat /\ Cardinality(S) \in Nat
    BY CostsAre
  <2> QED BY <2>1, <2>2
<1>2. ASSUME NEW U \in D, NEW s \in SkillIds \ (S \cup U), Adds(U) PROVE Adds(U \cup {s})
  <2>1. /\ CapsOf(U \cup {s}) = CapsOf(U) \cup Skill(s).caps
        /\ CostOf(U \cup {s}) = CostOf(U) + Skill(s).cost
        /\ Cardinality(U \cup {s}) = Cardinality(U) + 1
    BY OneMoreSkill
  <2>2. /\ CapsOf((S \cup U) \cup {s}) = CapsOf(S \cup U) \cup Skill(s).caps
        /\ CostOf((S \cup U) \cup {s}) = CostOf(S \cup U) + Skill(s).cost
        /\ Cardinality((S \cup U) \cup {s}) = Cardinality(S \cup U) + 1
    <3> DEFINE W == S \cup U
    <3>1. W \in SUBSET SkillIds /\ s \in SkillIds \ W
      OBVIOUS
    <3> HIDE DEF W
    <3>2. /\ CapsOf(W \cup {s}) = CapsOf(W) \cup Skill(s).caps
          /\ CostOf(W \cup {s}) = CostOf(W) + Skill(s).cost
          /\ Cardinality(W \cup {s}) = Cardinality(W) + 1
      BY <3>1, OneMoreSkill
    <3> QED BY <3>2 DEF W
  <2>3. S \cup (U \cup {s}) = (S \cup U) \cup {s}
    OBVIOUS
  <2> DEFINE c == Skill(s).cost
             cS == CostOf(S)
             cU == CostOf(U)
             nS == Cardinality(S)
             nU == Cardinality(U)
  <2>4. c \in Nat /\ cS \in Nat /\ cU \in Nat /\ nS \in Nat /\ nU \in Nat
    BY CostsAre
  <2>5. CapsOf(S \cup (U \cup {s})) = CapsOf(S) \cup CapsOf(U \cup {s})
    BY <1>2, <2>1, <2>2, <2>3
  <2>6. CostOf(S \cup (U \cup {s})) = (cS + cU) + c /\ CostOf(U \cup {s}) = cU + c
    BY <1>2, <2>1, <2>2, <2>3
  <2>7. Cardinality(S \cup (U \cup {s})) = (nS + nU) + 1 /\ Cardinality(U \cup {s}) = nU + 1
    BY <1>2, <2>1, <2>2, <2>3
  <2> HIDE DEF c, cS, cU, nS, nU
  <2>8. (cS + cU) + c = cS + (cU + c) /\ (nS + nU) + 1 = nS + (nU + 1)
    BY <2>4
  <2> QED BY <2>5, <2>6, <2>7, <2>8 DEF cS, nS
<1> HIDE DEF Adds
<1>3. Bad = {}
  <2> SUFFICES ASSUME Bad # {} PROVE FALSE
    OBVIOUS
  <2>1. PICK U \in Bad : \A W \in Bad : rank[U] <= rank[W]
    <3>1. \A U \in Bad : rank[U] \in Nat
      BY CostsAre
    <3> HIDE DEF Bad
    <3> QED BY <3>1, LeastOf
  <2>2. PICK s \in U : TRUE
    BY <1>1, <2>1
  <2> DEFINE W == U \ {s}
  <2>3. W \in D /\ s \in SkillIds \ (S \cup W) /\ U = W \cup {s} /\ U \in D
    BY <2>1
  <2>4. ~(rank[U] <= rank[W])
    <3>1. Cardinality(W) = Cardinality(U) - 1 /\ Cardinality(U) \in Nat
      BY <2>3, CostsAre, FS_RemoveElement
    <3>2. rank[W] = Cardinality(W) /\ rank[U] = Cardinality(U)
      BY <2>3
    <3> HIDE DEF W, rank
    <3> QED BY <3>1, <3>2
  <2>5. Adds(W)
    <3> HIDE DEF rank, W
    <3> QED BY <2>1, <2>3, <2>4
  <2>6. Adds(U)
    <3> HIDE DEF W, D
    <3> QED BY <1>2, <2>3, <2>5
  <2> QED BY <2>1, <2>6
<1>4. Adds(T)
  BY <1>3
<1> QED BY <1>4 DEF Adds

\* _minimum_covering_completion_cost finds the cheapest completion.
IsCheapest(cheapest, S, missing, slots) ==
    /\ cheapest \in Nat
    /\ cheapest < TooDear =>
          \E T \in SUBSET S : /\ Cardinality(T) = slots /\ missing \subseteq CapsOf(T)
                              /\ CostOf(T) = cheapest
    /\ \A T \in SUBSET S : Cardinality(T) = slots /\ missing \subseteq CapsOf(T) =>
          cheapest <= CostOf(T)

\* CheapestCompletion is the least cost of a completion of the given size.
LEMMA CheapestIs ==
    ASSUME SkillTyped, FreshIndex, NEW missing, NEW slots \in Nat, NEW S \in SUBSET SkillIds
    PROVE  IsCheapest(CheapestCompletion(S, missing, slots), S, missing, slots)
<1> DEFINE B == CompletionStates(missing, slots)[S]
           ends == {b \in B : b.n = slots /\ b.caps = missing}
           costs == {b.cost : b \in ends} \cup {TooDear}
           cheapest == Min(costs)
<1>1. cheapest = CheapestCompletion(S, missing, slots)
  BY DEF CheapestCompletion
<1>2. SoundStates(B, S, missing, slots) /\ CheapStates(B, S, missing, slots)
  BY TableIsComplete DEF CompleteStates
<1> HIDE DEF B
<1>3. ASSUME NEW b \in ends
      PROVE  b.cost \in Nat /\ \E T \in SUBSET S : /\ Cardinality(T) = slots /\ missing \subseteq CapsOf(T)
                                                    /\ CostOf(T) = b.cost
  <2>1. PICK T \in SUBSET S : b = Reached(missing, T)
    BY <1>2 DEF SoundStates
  <2>2. b.n = Cardinality(T) /\ b.caps = CapsOf(T) \cap missing /\ b.cost = CostOf(T)
    BY <2>1 DEF Reached
  <2>3. T \in SUBSET SkillIds /\ CostOf(T) \in Nat
    BY CostsAre
  <2> QED BY <2>2, <2>3
<1>4. costs \in SUBSET Nat /\ costs # {}
  BY <1>3 DEF TooDear
<1> HIDE DEF costs
<1>5. cheapest \in costs /\ \A c \in costs : cheapest <= c
  BY <1>4, LeastOfNumbers
<1> HIDE DEF cheapest
<1>6. cheapest \in Nat
  BY <1>4, <1>5
<1>7. ASSUME cheapest < TooDear
      PROVE  \E T \in SUBSET S : /\ Cardinality(T) = slots /\ missing \subseteq CapsOf(T)
                                 /\ CostOf(T) = cheapest
  <2>1. PICK b \in ends : b.cost = cheapest
    BY <1>5, <1>7 DEF costs, TooDear
  <2> QED BY <1>3, <2>1
<1>8. ASSUME NEW T \in SUBSET S, Cardinality(T) = slots, missing \subseteq CapsOf(T)
      PROVE  cheapest <= CostOf(T)
  <2>1. PICK b \in B : b.n = Cardinality(T) /\ b.caps = CapsOf(T) \cap missing /\ b.cost <= CostOf(T)
    BY <1>2, <1>8 DEF CheapStates
  <2>2. b \in ends
    BY <1>8, <2>1
  <2>3. b.cost \in costs /\ b.cost \in Nat /\ CostOf(T) \in Nat
    BY <1>3, <2>2, CostsAre DEF costs
  <2> QED BY <1>5, <1>6, <2>1, <2>3
<1> QED BY <1>1, <1>6, <1>7, <1>8 DEF IsCheapest

\* What a request asks for, and whether some selected skills can be completed.
Serves(r, S) == r.required \subseteq CapsOf(S) /\ CostOf(S) <= r.budget
Completes(r, chosen, T) == Cardinality(chosen \cup T) = r.k /\ Serves(r, chosen \cup T)
Completable(r, chosen) == \E T \in SUBSET (EligibleSkills(r) \ chosen) : Completes(r, chosen, T)

\* Requests ask for finitely many capabilities, within a budget.
LEMMA RequestsAre ==
    ASSUME NEW r \in Requests
    PROVE  /\ r.k \in Nat \ {0} /\ r.budget \in Nat /\ r.budget < TooDear
           /\ IsFiniteSet(r.required) /\ Cardinality(r.required) \in Nat \ {0}
           /\ EligibleSkills(r) \in SUBSET SkillIds
<1>1. r.k \in Nat \ {0} /\ r.budget \in 0..(TooDear - 1) /\ r.required # {} /\ IsFiniteSet(r.required)
  BY SkillTypes
<1>2. r.budget \in Nat /\ r.budget < TooDear
  <2>1. TooDear \in Nat
    BY DEF TooDear
  <2> QED BY <1>1, <2>1
<1>3. Cardinality(r.required) \in Nat \ {0}
  BY <1>1, FS_CardinalityType, FS_EmptySet
<1>4. EligibleSkills(r) \in SUBSET SkillIds
  BY DEF EligibleSkills
<1> QED BY <1>1, <1>2, <1>3, <1>4

\* A skill may be selected exactly when the selection can then be completed.
LEMMA CompletionRemains ==
    ASSUME SkillTyped, FreshIndex, NEW r \in Requests, NEW chosen \in SUBSET EligibleSkills(r),
           Cardinality(chosen) < r.k, NEW s \in EligibleSkills(r) \ chosen
    PROVE  CanComplete(r, s, chosen, EligibleSkills(r) \ chosen) <=> Completable(r, chosen \cup {s})
<1> DEFINE first == chosen \cup {s}
           others == (EligibleSkills(r) \ chosen) \ {s}
           slots == r.k - Cardinality(chosen) - 1
           cost == CostOf(first)
           missing == r.required \ CapsOf(first)
           cheapest == CheapestCompletion(others, missing, slots)
<1>1. /\ first \in SUBSET SkillIds /\ others \in SUBSET SkillIds /\ first \cap others = {}
      /\ others = EligibleSkills(r) \ first
  BY RequestsAre
<1>2. /\ slots \in Nat /\ cost \in Nat /\ Cardinality(first) = Cardinality(chosen) + 1
      /\ Cardinality(chosen) \in Nat /\ r.k \in Nat /\ Cardinality(first) + slots = r.k
  <2>1. chosen \in SUBSET SkillIds /\ s \in SkillIds \ chosen
    BY RequestsAre
  <2>2. Cardinality(first) = Cardinality(chosen) + 1 /\ Cardinality(chosen) \in Nat /\ cost \in Nat
    BY <2>1, CostsAre, OneMoreSkill
  <2>3. r.k \in Nat
    BY RequestsAre
  <2> HIDE DEF first
  <2> QED BY <2>2, <2>3
<1>3. CanComplete(r, s, chosen, EligibleSkills(r) \ chosen) <=>
         /\ cost <= r.budget
         /\ Cardinality(others) >= slots
         /\ IF slots = 0 THEN missing = {} ELSE cost + cheapest <= r.budget
  BY DEF CanComplete
<1> HIDE DEF first, slots
<1>4. ASSUME NEW T \in SUBSET others
      PROVE  /\ Completes(r, first, T) <=>
                   Cardinality(T) = slots /\ missing \subseteq CapsOf(T) /\ cost + CostOf(T) <= r.budget
             /\ CostOf(T) \in Nat /\ Cardinality(T) \in Nat /\ Cardinality(T) <= Cardinality(others)
             /\ Cardinality(others) \in Nat
  <2>1. T \in SUBSET SkillIds /\ first \cap T = {}
    BY <1>1
  <2>2. /\ CapsOf(first \cup T) = CapsOf(first) \cup CapsOf(T)
        /\ CostOf(first \cup T) = cost + CostOf(T)
        /\ Cardinality(first \cup T) = Cardinality(first) + Cardinality(T)
    BY <1>1, <2>1, Joined
  <2>3. CostOf(T) \in Nat /\ Cardinality(T) \in Nat /\ Cardinality(first) \in Nat
    BY <1>1, <2>1, CostsAre
  <2>4. Cardinality(T) <= Cardinality(others) /\ Cardinality(others) \in Nat
    BY <1>1, CostsAre, FS_Subset
  <2>5. Cardinality(first \cup T) = r.k <=> Cardinality(T) = slots
    BY <1>2, <2>2, <2>3
  <2>6. r.required \subseteq CapsOf(first \cup T) <=> missing \subseteq CapsOf(T)
    BY <2>2
  <2> HIDE DEF missing, cost
  <2> QED BY <2>2, <2>3, <2>4, <2>5, <2>6 DEF Completes, Serves
<1>5. Completable(r, first) <=> \E T \in SUBSET others : Completes(r, first, T)
  BY <1>1 DEF Completable
<1> HIDE DEF cost, missing, others
<1>6. CASE slots = 0
  <2>1. ASSUME cost <= r.budget, missing = {} PROVE Completes(r, first, {})
    <3>1. Cardinality({}) = 0 /\ CostOf({}) = 0 /\ CapsOf({}) = {}
      BY CostsAre, FS_EmptySet DEF CapsOf
    <3>2. {} \in SUBSET others /\ missing \subseteq CapsOf({}) /\ cost + CostOf({}) <= r.budget
      BY <1>2, <2>1, <3>1
    <3> QED BY <1>4, <1>6, <3>1, <3>2
  <2>2. ASSUME NEW T \in SUBSET others, Completes(r, first, T)
        PROVE  cost <= r.budget /\ missing = {} /\ Cardinality(others) >= slots
    <3>1. Cardinality(T) = 0 /\ missing \subseteq CapsOf(T) /\ cost + CostOf(T) <= r.budget
      BY <1>4, <1>6, <2>2
    <3>2. T = {}
      BY <1>1, <3>1, CostsAre, FS_EmptySet
    <3>3. CostOf(T) = 0 /\ CapsOf(T) = {}
      BY <3>2, CostsAre DEF CapsOf
    <3>4. cost <= r.budget
      BY <1>2, <3>1, <3>3
    <3>5. Cardinality(others) >= slots
      BY <1>2, <1>4, <1>6, <3>1
    <3> QED BY <3>1, <3>3, <3>4, <3>5
  <2>3. Cardinality(others) >= slots
    <3>1. Cardinality(others) \in Nat
      BY <1>1, CostsAre
    <3> QED BY <1>6, <3>1
  <2> QED BY <1>3, <1>5, <1>6, <2>1, <2>2, <2>3 DEF first
<1>7. CASE slots # 0
  <2>1. /\ cheapest \in Nat
        /\ cheapest < TooDear =>
              \E T \in SUBSET others : /\ Cardinality(T) = slots /\ missing \subseteq CapsOf(T)
                                       /\ CostOf(T) = cheapest
        /\ \A T \in SUBSET others : Cardinality(T) = slots /\ missing \subseteq CapsOf(T) =>
              cheapest <= CostOf(T)
    <3>1. IsCheapest(cheapest, others, missing, slots)
      BY <1>1, <1>2, CheapestIs
    <3> HIDE DEF cheapest
    <3> QED BY <3>1 DEF IsCheapest
  <2> HIDE DEF cheapest
  <2>2. r.budget \in Nat /\ r.budget < TooDear /\ TooDear \in Nat
    BY RequestsAre DEF TooDear
  <2>3. ASSUME cost + cheapest <= r.budget PROVE \E T \in SUBSET others : Completes(r, first, T)
    <3>1. cheapest < TooDear
      BY <1>2, <2>1, <2>2, <2>3
    <3>2. PICK T \in SUBSET others : /\ Cardinality(T) = slots /\ missing \subseteq CapsOf(T)
                                     /\ CostOf(T) = cheapest
      BY <2>1, <3>1
    <3> QED BY <1>4, <2>3, <3>2
  <2>4. ASSUME NEW T \in SUBSET others, Completes(r, first, T)
        PROVE  cost <= r.budget /\ Cardinality(others) >= slots /\ cost + cheapest <= r.budget
    <3>1. /\ Cardinality(T) = slots /\ missing \subseteq CapsOf(T) /\ cost + CostOf(T) <= r.budget
          /\ CostOf(T) \in Nat /\ Cardinality(T) <= Cardinality(others)
      BY <1>4, <2>4
    <3>2. cheapest <= CostOf(T)
      BY <2>1, <3>1
    <3> QED BY <1>2, <2>1, <2>2, <3>1, <3>2
  <2> QED BY <1>3, <1>5, <1>7, <2>3, <2>4 DEF first
<1> QED BY <1>6, <1>7

\* Scores are numbers.
LEMMA ScoresAreNumbers ==
    ASSUME SkillTyped, FreshIndex, NEW r \in Requests, NEW chosen \in SUBSET SkillIds, NEW s \in SkillIds
    PROVE  Score(r, s, chosen) \in Int
<1> DEFINE new == (Skill(s).caps \cap r.required) \ CapsOf(chosen)
           alike == {t \in chosen : {s, t} \in skillIndex.similar}
           n == Cardinality(new)
           a == Cardinality(alike)
           k == Cardinality(r.required)
           c == Cardinality(chosen)
           gain == (100 * n) \div k
           loss == IF chosen = {} THEN 0 ELSE (18 * a) \div c
<1>1. IsFiniteSet(r.required) /\ k \in Nat \ {0} /\ IsFiniteSet(chosen) /\ c \in Nat
  BY RequestsAre, CostsAre
<1>2. n \in Nat /\ a \in Nat
  <2>1. new \in SUBSET r.required /\ alike \in SUBSET chosen
    OBVIOUS
  <2> HIDE DEF new, alike
  <2> QED BY <1>1, <2>1, FS_Subset, FS_CardinalityType
<1>3. chosen # {} => c # 0
  BY <1>1, FS_EmptySet
<1>4. Skill(s).appeal \in Int
  BY IndexInUse DEF SkillDescriptors
<1> HIDE DEF n, a, k, c
<1>5. gain \in Int
  <2>1. 100 * n \in Int
    BY <1>2
  <2> QED BY <1>1, <2>1, QuotientIs
<1>6. loss \in Int
  <2>1. 18 * a \in Int
    BY <1>2
  <2>2. CASE chosen = {}
    BY <2>2
  <2>3. CASE chosen # {}
    <3>1. c \in Nat \ {0}
      BY <1>1, <1>3, <2>3
    <3>2. (18 * a) \div c \in Int
      BY <2>1, <3>1, QuotientIs
    <3> QED BY <2>3, <3>2
  <2> QED BY <2>2, <2>3
<1>7. Score(r, s, chosen) = gain + Skill(s).appeal - loss
  BY DEF Score, n, a, k, c
<1> HIDE DEF gain, loss
<1> QED BY <1>4, <1>5, <1>6, <1>7

\* Of the skills that allow a completion exactly one is the best.
LEMMA BestIsOne ==
    ASSUME SkillTyped, FreshIndex, NEW r \in Requests, NEW chosen \in SUBSET SkillIds,
           NEW remaining \in SUBSET SkillIds
    PROVE  LET possible == {s \in remaining : CanComplete(r, s, chosen, remaining)}
           IN  /\ Best(r, chosen, remaining) \subseteq possible
               /\ possible # {} => \E s \in possible : Best(r, chosen, remaining) = {s}
<1> DEFINE possible == {s \in remaining : CanComplete(r, s, chosen, remaining)}
           score == [s \in possible |-> Score(r, s, chosen)]
           Better(s, t) == \/ Score(r, s, chosen) > Score(r, t, chosen)
                           \/ Score(r, s, chosen) = Score(r, t, chosen) /\ s <= t
           best == Best(r, chosen, remaining)
<1>1. best = {s \in possible : \A t \in possible : Better(s, t)}
  BY DEF Best
<1>2. \A s \in possible : score[s] = Score(r, s, chosen) /\ score[s] \in Int /\ s \in Nat
  BY ScoresAreNumbers, SkillsAreFinite
<1>3. best = {s \in possible : \A t \in possible : score[s] > score[t] \/ (score[s] = score[t] /\ s <= t)}
  BY <1>1, <1>2
<1>4. IsFiniteSet(possible)
  BY CostsAre, FS_Subset
<1> HIDE DEF possible, score, best
<1>5. ASSUME possible # {} PROVE \E s \in possible : best = {s}
  <2> DEFINE scores == {score[s] : s \in possible}
             top == Max(scores)
             tops == {s \in possible : score[s] = top}
             first == Min(tops)
  <2>1. top \in scores /\ \A x \in scores : x <= top
    <3>1. score \in Surjection(possible, scores)
      <4>1. score \in [possible -> scores]
        BY DEF score
      <4> QED BY <4>1 DEF Surjection
    <3>2. IsFiniteSet(scores) /\ scores # {} /\ \A x \in scores : x \in Int
      <4>1. scores # {} /\ \A x \in scores : x \in Int
        BY <1>2, <1>5
      <4> HIDE DEF scores
      <4> QED BY <1>4, <3>1, <4>1, FS_Surjection
    <3> HIDE DEF scores
    <3> QED BY <3>2, GreatestOf
  <2>2. \A s \in possible : score[s] <= top /\ score[s] \in Int
    BY <1>2, <2>1
  <2>3. tops \in SUBSET Nat /\ tops # {} /\ top \in Int
    BY <1>2, <2>1
  <2> HIDE DEF top, tops
  <2>4. first \in tops /\ \A s \in tops : first <= s
    BY <2>3, LeastOfNumbers
  <2> HIDE DEF first
  <2>5. first \in possible /\ score[first] = top
    BY <2>4 DEF tops
  <2>6. ASSUME NEW t \in possible
        PROVE  score[first] > score[t] \/ (score[first] = score[t] /\ first <= t)
    <3>1. score[t] = top => t \in tops
      BY DEF tops
    <3> QED BY <2>2, <2>3, <2>4, <2>5, <3>1
  <2>7. ASSUME NEW s \in possible, \A t \in possible : score[s] > score[t] \/ (score[s] = score[t] /\ s <= t)
        PROVE  s = first
    <3>1. score[s] > top \/ (score[s] = top /\ s <= first)
      BY <2>5, <2>7
    <3>2. score[s] = top /\ s <= first
      BY <2>2, <2>3, <3>1
    <3>3. first <= s
      BY <2>4, <3>2 DEF tops
    <3> QED BY <1>2, <2>5, <3>2, <3>3
  <2>8. best = {first}
    BY <1>3, <2>5, <2>6, <2>7
  <2> QED BY <2>5, <2>8
<1>6. best \subseteq possible
  BY <1>3
<1> QED BY <1>5, <1>6 DEF possible, best

\* The rounds of compose_skills, one skill at a time.
LEMMA RoundsAre ==
    ASSUME SkillTyped, FreshIndex, NEW r \in Requests
    PROVE  \A chosen \in SUBSET EligibleSkills(r) :
              LET best == Best(r, chosen, EligibleSkills(r) \ chosen)
              IN  Rounds(r)[chosen] = IF Cardinality(chosen) = r.k THEN chosen
                                      ELSE IF best = {} THEN {} ELSE Rounds(r)[chosen \cup best]
<1> DEFINE all == EligibleSkills(r)
           D == SUBSET all
           best(chosen) == Best(r, chosen, all \ chosen)
           leaves == {chosen \in D : Cardinality(chosen) = r.k \/ best(chosen) = {}}
           base == [chosen \in D |-> IF Cardinality(chosen) = r.k THEN chosen ELSE {}]
           parent == [chosen \in D |-> chosen \cup best(chosen)]
           own == [p \in D \X D |-> p[2]]
           N == Cardinality(all)
           rank == [chosen \in D |-> N - Cardinality(chosen)]
           Is(select) == select = [chosen \in D |-> IF Cardinality(chosen) = r.k THEN chosen
                                     ELSE IF best(chosen) = {} THEN {} ELSE select[chosen \cup best(chosen)]]
<1>1. all \in SUBSET SkillIds /\ IsFiniteSet(all) /\ N \in Nat
  BY RequestsAre, CostsAre
<1>2. \A chosen \in D : Cardinality(chosen) \in Nat /\ Cardinality(chosen) <= N /\ IsFiniteSet(chosen)
  BY <1>1, FS_Subset, FS_CardinalityType
<1>3. \A chosen \in D : best(chosen) \subseteq all \ chosen
  BY <1>1, BestIsOne
<1> HIDE DEF all, best
<1>4. RanksBelow(D, rank, N + 1)
  <2> SUFFICES ASSUME NEW c \in D PROVE rank[c] \in Nat /\ rank[c] < N + 1
    BY DEF RanksBelow
  <2>1. rank[c] = N - Cardinality(c)
    OBVIOUS
  <2> HIDE DEF rank, N
  <2> QED BY <1>1, <1>2, <2>1
<1>5. Leads(D, leaves, parent, rank)
  <2> SUFFICES ASSUME NEW c \in D \ leaves PROVE parent[c] \in D /\ rank[parent[c]] < rank[c]
    BY DEF Leads
  <2> DEFINE d == c \cup best(c)
  <2>1. parent[c] = d /\ d \in D /\ c \in SUBSET d /\ c # d
    BY <1>3
  <2>2. rank[d] = N - Cardinality(d) /\ rank[c] = N - Cardinality(c)
    BY <2>1
  <2> HIDE DEF d
  <2>3. Cardinality(c) <= Cardinality(d) /\ Cardinality(c) # Cardinality(d)
    BY <1>2, <2>1, FS_Subset
  <2> HIDE DEF rank, parent, N
  <2> QED BY <1>1, <1>2, <2>1, <2>2, <2>3
<1>6. GivesFrom(D, D, leaves, base, own)
  BY DEF GivesFrom
<1>7. PICK f \in [D -> D] : ObeysFrom(f, D, leaves, base, own, parent)
  <2>1. D # {} /\ N + 1 \in Nat
    BY <1>1
  <2> HIDE DEF D, leaves, parent, base, own, rank, N
  <2> QED BY <1>4, <1>5, <1>6, <2>1, RecursionFromLeaves
<1>8. \A chosen \in D : f[chosen] = IF Cardinality(chosen) = r.k THEN chosen
                                    ELSE IF best(chosen) = {} THEN {} ELSE f[chosen \cup best(chosen)]
  <2> SUFFICES ASSUME NEW c \in D
               PROVE  f[c] = IF Cardinality(c) = r.k THEN c
                             ELSE IF best(c) = {} THEN {} ELSE f[c \cup best(c)]
    OBVIOUS
  <2>1. f[c] = IF c \in leaves THEN base[c] ELSE own[<<c, f[parent[c]]>>]
    BY <1>7 DEF ObeysFrom
  <2>2. CASE c \in leaves
    BY <2>1, <2>2
  <2>3. CASE c \notin leaves
    <3>1. parent[c] = c \cup best(c) /\ parent[c] \in D /\ f[parent[c]] \in D
      BY <1>3
    <3>2. own[<<c, f[parent[c]]>>] = f[c \cup best(c)]
      BY <3>1
    <3> QED BY <2>1, <2>3, <3>2
  <2> QED BY <2>2, <2>3
<1>9. Is(f)
  BY <1>8
<1> DEFINE select == CHOOSE g : Is(g)
<1>10. Is(select)
  BY <1>9
<1>11. Rounds(r) = select
  BY DEF Rounds, all, best
<1> HIDE DEF select
<1>12. \A chosen \in D : select[chosen] = IF Cardinality(chosen) = r.k THEN chosen
                                          ELSE IF best(chosen) = {} THEN {} ELSE select[chosen \cup best(chosen)]
  BY <1>10
<1> QED BY <1>11, <1>12 DEF all, best

\* A selection that can be completed is completed.
LEMMA RoundsServe ==
    ASSUME SkillTyped, FreshIndex, NEW r \in Requests
    PROVE  \A chosen \in SUBSET EligibleSkills(r) :
              Cardinality(chosen) <= r.k /\ Completable(r, chosen) =>
                  Rounds(r)[chosen] \in kSubset(r.k, EligibleSkills(r)) /\ Serves(r, Rounds(r)[chosen])
<1> DEFINE all == EligibleSkills(r)
           D == {c \in SUBSET all : Cardinality(c) <= r.k /\ Completable(r, c)}
           Right(c) == Rounds(r)[c] \in kSubset(r.k, all) /\ Serves(r, Rounds(r)[c])
           Bad == {c \in D : ~Right(c)}
           rank == [c \in D |-> r.k - Cardinality(c)]
<1>1. all \in SUBSET SkillIds /\ IsFiniteSet(all) /\ r.k \in Nat
  BY RequestsAre, CostsAre
<1>2. \A c \in SUBSET all : Cardinality(c) \in Nat /\ IsFiniteSet(c)
  BY <1>1, CostsAre
<1>3. ASSUME NEW c \in D, Cardinality(c) = r.k PROVE Right(c)
  <2>1. PICK T \in SUBSET (all \ c) : Completes(r, c, T)
    BY <1>3 DEF Completable
  <2>2. c \cup T \in SUBSET all /\ c \in SUBSET (c \cup T) /\ Cardinality(c \cup T) = r.k /\ Serves(r, c \cup T)
    BY <2>1 DEF Completes
  <2>3. c = c \cup T
    BY <1>2, <1>3, <2>2, FS_Subset
  <2>4. Rounds(r)[c] = c
    BY <1>3, RoundsAre
  <2> QED BY <1>3, <2>2, <2>3, <2>4 DEF kSubset
<1>4. ASSUME NEW c \in D, Cardinality(c) # r.k
      PROVE  \E d \in D : rank[d] < rank[c] /\ Rounds(r)[c] = Rounds(r)[d]
  <2>1. Cardinality(c) < r.k /\ Cardinality(c) \in Nat
    BY <1>1, <1>2, <1>4
  <2>2. PICK T \in SUBSET (all \ c) : Completes(r, c, T)
    BY <1>4 DEF Completable
  <2>3. T # {}
    <3>1. c \cup {} = c
      OBVIOUS
    <3> QED BY <1>4, <2>2, <3>1 DEF Completes
  <2>4. PICK s \in T : TRUE
    BY <2>3
  <2>5. Completable(r, c \cup {s})
    <3>1. T \ {s} \in SUBSET (all \ (c \cup {s})) /\ (c \cup {s}) \cup (T \ {s}) = c \cup T
      OBVIOUS
    <3>2. Completes(r, c \cup {s}, T \ {s})
      BY <2>2, <3>1 DEF Completes
    <3> QED BY <3>1, <3>2 DEF Completable
  <2>6. CanComplete(r, s, c, all \ c)
    BY <2>1, <2>5, CompletionRemains
  <2> DEFINE best == Best(r, c, all \ c)
  <2>7. PICK b \in all \ c : CanComplete(r, b, c, all \ c) /\ best = {b}
    BY <1>1, <2>6, BestIsOne
  <2>8. Completable(r, c \cup {b})
    BY <2>1, <2>7, CompletionRemains
  <2>9. Rounds(r)[c] = Rounds(r)[c \cup {b}]
    <3>1. Rounds(r)[c] = IF Cardinality(c) = r.k THEN c
                         ELSE IF best = {} THEN {} ELSE Rounds(r)[c \cup best]
      BY RoundsAre
    <3> HIDE DEF best
    <3> QED BY <1>4, <2>7, <3>1
  <2> DEFINE d == c \cup {b}
  <2>10. Cardinality(d) = Cardinality(c) + 1
    BY <1>2, FS_AddElement
  <2>11. d \in D
    <3>1. Cardinality(d) <= r.k
      <4> HIDE DEF d
      <4> QED BY <1>1, <2>1, <2>10
    <3> QED BY <2>8, <3>1
  <2>12. rank[d] = r.k - Cardinality(d) /\ rank[c] = r.k - Cardinality(c)
    BY <2>11
  <2>13. rank[d] < rank[c]
    <3> HIDE DEF d, rank
    <3> QED BY <1>1, <2>1, <2>10, <2>12
  <2> QED BY <2>9, <2>11, <2>13
<1>5. \A c \in D : rank[c] \in Nat
  <2> SUFFICES ASSUME NEW c \in D PROVE rank[c] \in Nat
    OBVIOUS
  <2>1. rank[c] = r.k - Cardinality(c) /\ Cardinality(c) <= r.k /\ Cardinality(c) \in Nat
    BY <1>2
  <2> HIDE DEF rank
  <2> QED BY <1>1, <2>1
<1> HIDE DEF rank
<1>6. Bad = {}
  <2> SUFFICES ASSUME Bad # {} PROVE FALSE
    OBVIOUS
  <2>1. PICK c \in Bad : \A d \in Bad : rank[c] <= rank[d]
    <3>1. \A c \in Bad : rank[c] \in Nat
      BY <1>5
    <3> HIDE DEF Bad
    <3> QED BY <3>1, LeastOf
  <2>2. Cardinality(c) # r.k
    BY <1>3, <2>1
  <2>3. PICK d \in D : rank[d] < rank[c] /\ Rounds(r)[c] = Rounds(r)[d]
    BY <1>4, <2>1, <2>2
  <2>4. rank[c] \in Nat /\ rank[d] \in Nat
    BY <1>5, <2>1
  <2>5. ~(rank[c] <= rank[d])
    BY <2>3, <2>4
  <2>6. Right(d)
    BY <2>1, <2>5
  <2> QED BY <2>1, <2>3, <2>6
<1> QED BY <1>6

\* compose_skills answers whenever it can, and only with what serves.
LEMMA SelectionServes ==
    ASSUME SkillTyped, FreshIndex, NEW r \in Requests
    PROVE  IF Selection(r) = {}
           THEN \A S \in kSubset(r.k, EligibleSkills(r)) : ~Serves(r, S)
           ELSE Selection(r) \in kSubset(r.k, EligibleSkills(r)) /\ Serves(r, Selection(r))
<1> DEFINE all == EligibleSkills(r)
<1>1. all \in SUBSET SkillIds /\ IsFiniteSet(all) /\ r.k \in Nat \ {0} /\ Cardinality(all) \in Nat
  BY RequestsAre, CostsAre
<1>2. Cardinality({}) = 0 /\ {} \in SUBSET all
  BY FS_EmptySet
<1>3. ASSUME NEW S \in kSubset(r.k, all), Serves(r, S)
      PROVE  Selection(r) \in kSubset(r.k, all) /\ Serves(r, Selection(r)) /\ Selection(r) # {}
  <2>1. S \in SUBSET all /\ Cardinality(S) = r.k
    BY DEF kSubset
  <2>2. Cardinality(all) >= r.k
    BY <1>1, <2>1, FS_Subset
  <2>3. r.required \subseteq CapsOf(all)
    BY <1>3, <2>1 DEF Serves, CapsOf
  <2>4. Selection(r) = Rounds(r)[{}]
    BY <2>2, <2>3 DEF Selection
  <2>5. Completable(r, {})
    <3>1. S \in SUBSET (all \ {}) /\ {} \cup S = S
      BY <2>1
    <3>2. Completes(r, {}, S)
      BY <1>3, <2>1, <3>1 DEF Completes
    <3> QED BY <3>1, <3>2 DEF Completable
  <2>6. Cardinality({}) <= r.k
    BY <1>1, <1>2
  <2>7. Rounds(r)[{}] \in kSubset(r.k, all) /\ Serves(r, Rounds(r)[{}])
    BY <1>2, <2>5, <2>6, RoundsServe
  <2>8. Rounds(r)[{}] # {}
    BY <1>1, <1>2, <2>7 DEF kSubset
  <2> QED BY <2>4, <2>7, <2>8
<1>4. ASSUME Selection(r) # {} PROVE \E S \in kSubset(r.k, all) : Serves(r, S)
  <2>1. Selection(r) = Rounds(r)[{}]
    BY <1>4 DEF Selection
  <2> DEFINE best == Best(r, {}, all \ {})
  <2>2. Rounds(r)[{}] = IF Cardinality({}) = r.k THEN {}
                        ELSE IF best = {} THEN {} ELSE Rounds(r)[{} \cup best]
    BY <1>2, RoundsAre
  <2>3. best # {}
    <3> HIDE DEF best
    <3> QED BY <1>4, <2>1, <2>2
  <2>4. PICK s \in all \ {} : CanComplete(r, s, {}, all \ {})
    <3>1. all \ {} \in SUBSET SkillIds /\ {} \in SUBSET SkillIds
      BY <1>1
    <3> QED BY <2>3, <3>1, BestIsOne
  <2>5. Cardinality({}) < r.k
    BY <1>1, <1>2
  <2>6. Completable(r, {} \cup {s})
    BY <1>2, <2>4, <2>5, CompletionRemains
  <2>7. PICK T \in SUBSET (all \ ({} \cup {s})) : Completes(r, {} \cup {s}, T)
    BY <2>6 DEF Completable
  <2> DEFINE S == ({} \cup {s}) \cup T
  <2>8. S \in SUBSET all /\ Cardinality(S) = r.k /\ Serves(r, S)
    BY <2>7 DEF Completes
  <2> QED BY <2>8 DEF kSubset
<1> QED BY <1>3, <1>4

\* The skills of an index, but for their versions.
SameSkills ==
    /\ skillIndex'.similar = skillIndex.similar
    /\ \A s \in SkillIds : /\ Skill(s)'.caps = Skill(s).caps /\ Skill(s)'.cost = Skill(s).cost
                           /\ Skill(s)'.usable = Skill(s).usable

\* The answers about skills stay right while the skills stay the same.
AnswersRight == ComposesWhenPossible /\ \A g \in groups : IsComponent(g)

\* An answer stays right while the skills it is about do.
LEMMA AnswersStayRight ==
    ASSUME SkillTyped, skillIndex # NoIndex, SameSkills, AnswersRight, UNCHANGED <<answer, groups>>
    PROVE  AnswersRight'
<1>1. \A s \in SkillIds : /\ Skill(s)'.caps = Skill(s).caps /\ Skill(s)'.cost = Skill(s).cost
                          /\ Skill(s)'.usable = Skill(s).usable
  BY DEF SameSkills
<1>2. \A S \in SUBSET SkillIds : CapsOf(S)' = CapsOf(S)
  BY <1>1 DEF CapsOf
<1>3. Costs' = Costs
  BY <1>1 DEF Costs
<1>4. \A S : CostOf(S)' = CostOf(S)
  BY <1>3 DEF CostOf, Costs
<1>5. \A r : EligibleSkills(r)' = EligibleSkills(r) /\ EligibleSkills(r) \subseteq SkillIds
  BY <1>1 DEF EligibleSkills
<1>6. ComposesWhenPossible'
  <2>1. PICK r : r = answer.request
    OBVIOUS
  <2>2. PICK S : S = answer.selected
    OBVIOUS
  <2>3. answer' = answer
    OBVIOUS
  <2> SUFFICES ASSUME answer.asked
               PROVE  IF S = {}
                      THEN \A T \in kSubset(r.k, EligibleSkills(r)') :
                              ~(r.required \subseteq CapsOf(T)' /\ CostOf(T)' <= r.budget)
                      ELSE /\ S \in kSubset(r.k, EligibleSkills(r)')
                           /\ r.required \subseteq CapsOf(S)' /\ CostOf(S)' <= r.budget
    BY <2>1, <2>2, <2>3 DEF ComposesWhenPossible
  <2>4. IF S = {}
        THEN \A T \in kSubset(r.k, EligibleSkills(r)) :
                ~(r.required \subseteq CapsOf(T) /\ CostOf(T) <= r.budget)
        ELSE /\ S \in kSubset(r.k, EligibleSkills(r))
             /\ r.required \subseteq CapsOf(S) /\ CostOf(S) <= r.budget
    BY <2>1, <2>2 DEF AnswersRight, ComposesWhenPossible
  <2>5. \A T \in kSubset(r.k, EligibleSkills(r)) : CapsOf(T)' = CapsOf(T) /\ CostOf(T)' = CostOf(T)
    BY <1>2, <1>4, <1>5 DEF kSubset
  <2>6. EligibleSkills(r)' = EligibleSkills(r)
    BY <1>5
  <2> QED BY <2>4, <2>5, <2>6
<1>7. ASSUME NEW g \in groups PROVE IsComponent(g)'
  <2>1. IsComponent(g)
    BY DEF AnswersRight
  <2>2. skillIndex'.similar = skillIndex.similar
    BY DEF SameSkills
  <2>3. \A S : EdgesWithin(S)' = EdgesWithin(S)
    BY <2>2 DEF EdgesWithin
  <2>4. ConnectedBy(g.members)' <=> ConnectedBy(g.members)
    BY <2>3 DEF ConnectedBy
  <2> QED BY <1>1, <2>1, <2>2, <2>3, <2>4 DEF IsComponent
<1> QED BY <1>6, <1>7 DEF AnswersRight

\* The invariant of the skills: what is kept is typed and what was answered is
\* right.
SkillInv == SkillTyped /\ AnswersRight /\ ProposalsAreEarned

\* Before anything is asked the invariant holds.
LEMMA SkillInvInit == ASSUME SkillInit PROVE SkillInv
<1>1. SkillTyped
  BY FS_EmptySet DEF SkillInit, SkillTyped, NoAnswer, NoIndex
<1>2. AnswersRight
  BY DEF SkillInit, AnswersRight, ComposesWhenPossible, NoAnswer
<1>3. ProposalsAreEarned
  BY DEF SkillInit, ProposalsAreEarned
<1> QED BY <1>1, <1>2, <1>3 DEF SkillInv

\* Proposals stay earned while plans are only added to.
LEMMA ProposalsStayEarned ==
    ASSUME ProposalsAreEarned, proposals' = proposals, plans \subseteq plans'
    PROVE  ProposalsAreEarned'
BY DEF ProposalsAreEarned

\* The fields of an index that is published.
LEMMA PublishedIndex ==
    ASSUME SkillTyped, NEW content \in Indexes, PublishIndex(content)
    PROVE  skillIndex' \in IndexRecords /\ EdgesJoin(skillIndex'.similar) /\ skillIndex' # NoIndex
<1>1. /\ content.skills \in [SkillIds -> SkillDescriptors]
      /\ \A pair \in content.similar : \E s, t \in SkillIds : s # t /\ pair = {s, t}
  BY SkillTypes
<1>2. content.similar \in SUBSET SUBSET SkillIds
  BY <1>1
<1>3. skillIndex' = [skills |-> content.skills, similar |-> content.similar,
                     content |-> content, at |-> day, source |-> 1]
  BY DEF PublishIndex
<1>4. day \in Nat
  BY DEF SkillTyped
<1>5. skillIndex' \in IndexRecords
  BY <1>1, <1>2, <1>3, <1>4 DEF IndexRecords
<1>6. EdgesJoin(skillIndex'.similar)
  BY <1>1, <1>3 DEF EdgesJoin
<1>7. skillIndex'.source = 1 /\ NoIndex.source = 0
  BY <1>3 DEF NoIndex
<1> QED BY <1>5, <1>6, <1>7

\* A child in the place of its parent.
LEMMA ChildPublished ==
    ASSUME SkillTyped, NEW l \in lineages, PublishChild(l)
    PROVE  /\ skillIndex # NoIndex /\ SameSkills
           /\ skillIndex' \in IndexRecords /\ EdgesJoin(skillIndex'.similar) /\ skillIndex' # NoIndex
<1>1. skillIndex.source \in 1..(MaxSources - 1) /\ MaxSources \in Nat
  BY SkillTypes DEF PublishChild
<1>2. skillIndex # NoIndex
  BY <1>1 DEF NoIndex
<1>3. /\ skillIndex \in IndexRecords /\ EdgesJoin(skillIndex.similar)
      /\ day \in Nat /\ l.child[2] \in Nat
  BY <1>2 DEF SkillTyped
<1> DEFINE old == skillIndex.skills
           new == [old EXCEPT ![l.child[1]].version = l.child[2]]
<1>4. skillIndex' = [skillIndex EXCEPT !.skills = new, !.at = day, !.source = @ + 1]
  BY DEF PublishChild
<1>5. old \in [SkillIds -> SkillDescriptors] /\ skillIndex.source \in Nat \ {0}
  BY <1>3 DEF IndexRecords
<1>6. /\ skillIndex'.skills = new /\ skillIndex'.similar = skillIndex.similar
      /\ skillIndex' = [skills |-> new, similar |-> skillIndex.similar, content |-> skillIndex.content,
                        at |-> day, source |-> skillIndex.source + 1]
  <2> HIDE DEF new
  <2> QED BY <1>3, <1>4 DEF IndexRecords
<1>7. ASSUME NEW s \in SkillIds
      PROVE  /\ new[s] \in SkillDescriptors /\ new[s].caps = old[s].caps /\ new[s].cost = old[s].cost
             /\ new[s].usable = old[s].usable
  <2>1. new[s] = IF s = l.child[1] THEN [old[s] EXCEPT !.version = l.child[2]] ELSE old[s]
    BY <1>5
  <2>2. old[s] \in SkillDescriptors
    BY <1>5
  <2> HIDE DEF new, old
  <2> QED BY <1>3, <2>1, <2>2 DEF SkillDescriptors
<1>8. new \in [SkillIds -> SkillDescriptors]
  <2>1. new = [s \in SkillIds |-> new[s]]
    BY <1>5
  <2> HIDE DEF new
  <2> QED BY <1>7, <2>1
<1> HIDE DEF new
<1>9. skillIndex' \in IndexRecords
  <2>1. skillIndex.similar \in SUBSET SUBSET SkillIds /\ skillIndex.content \in Indexes
    BY <1>3 DEF IndexRecords
  <2>2. skillIndex.source + 1 \in Nat \ {0}
    BY <1>5
  <2> QED BY <1>3, <1>6, <1>8, <2>1, <2>2 DEF IndexRecords
<1>10. SameSkills
  BY <1>6, <1>7 DEF SameSkills, Skill
<1>11. skillIndex' # NoIndex
  BY <1>5, <1>6 DEF NoIndex
<1> QED BY <1>2, <1>3, <1>6, <1>9, <1>10, <1>11

\* Composing: the answer is right about the index it was asked of.
LEMMA ComposeIsRight ==
    ASSUME SkillTyped, FreshIndex, \A g \in groups : IsComponent(g), NEW r \in Requests, Compose(r)
    PROVE  AnswersRight'
<1> DEFINE S == Selection(r)
<1>1. answer' = [asked |-> TRUE, request |-> r, selected |-> S] /\ UNCHANGED <<skillIndex, groups>>
  BY DEF Compose
<1>2. IF S = {} THEN \A T \in kSubset(r.k, EligibleSkills(r)) : ~Serves(r, T)
      ELSE S \in kSubset(r.k, EligibleSkills(r)) /\ Serves(r, S)
  BY SelectionServes
<1>3. PICK T : T = S
  OBVIOUS
<1>4. answer'.request = r /\ answer'.selected = T
  BY <1>1, <1>3
<1>5. IF T = {} THEN \A U \in kSubset(r.k, EligibleSkills(r)) : ~Serves(r, U)
      ELSE T \in kSubset(r.k, EligibleSkills(r)) /\ Serves(r, T)
  BY <1>2, <1>3
<1>6. /\ EligibleSkills(r)' = EligibleSkills(r)
      /\ \A U : CapsOf(U)' = CapsOf(U) /\ CostOf(U)' = CostOf(U)
  BY <1>1 DEF EligibleSkills, CapsOf, CostOf, Skill
<1> HIDE DEF S
<1>7. ComposesWhenPossible'
  BY <1>4, <1>5, <1>6 DEF ComposesWhenPossible, Serves
<1>8. \A g \in groups' : IsComponent(g)'
  BY <1>1 DEF IsComponent, ConnectedBy, EdgesWithin, Skill
<1> QED BY <1>7, <1>8 DEF AnswersRight

\* Analyzing: the groups are the parts of the graph of the index.
LEMMA AnalyzeIsRight ==
    ASSUME SkillTyped, AnswersRight, Analyze
    PROVE  AnswersRight'
<1>1. FreshIndex /\ groups' = RedundancyGroups /\ UNCHANGED <<skillIndex, answer>>
  BY DEF Analyze
<1>2. \A g \in RedundancyGroups : IsComponent(g)
  BY <1>1, GroupIsComponent
<1>3. \A g \in groups' : IsComponent(g)'
  BY <1>1, <1>2 DEF IsComponent, ConnectedBy, EdgesWithin, Skill
<1>4. ComposesWhenPossible'
  BY <1>1 DEF AnswersRight, ComposesWhenPossible, EligibleSkills, CapsOf, CostOf, Skill
<1> QED BY <1>3, <1>4 DEF AnswersRight

\* Every step keeps the invariant.
LEMMA SkillInvKept ==
    ASSUME SkillInv, [SkillNext]_skillVars
    PROVE  SkillInv'
<1> USE DEF SkillInv
<1>1. ASSUME UNCHANGED <<skillIndex, answer, groups>> PROVE AnswersRight'
  BY <1>1 DEF AnswersRight, ComposesWhenPossible, EligibleSkills, CapsOf, CostOf, Skill,
              IsComponent, ConnectedBy, EdgesWithin
<1>2. CASE skillIndex = NoIndex /\ \E content \in Indexes : PublishIndex(content)
  <2>1. PICK content \in Indexes : PublishIndex(content)
    BY <1>2
  <2>2. skillIndex' \in IndexRecords /\ EdgesJoin(skillIndex'.similar) /\ skillIndex' # NoIndex
    BY <2>1, PublishedIndex
  <2>3. UNCHANGED <<day, answer, groups, plans, outcomes, proposals, lineages>>
    BY <2>1 DEF PublishIndex
  <2>4. SkillTyped'
    BY <2>2, <2>3 DEF SkillTyped
  <2>5. AnswersRight'
    <3>1. answer' = NoAnswer /\ groups' = {}
      BY <1>2, <2>3 DEF SkillTyped
    <3> QED BY <3>1 DEF AnswersRight, ComposesWhenPossible, NoAnswer
  <2> QED BY <2>3, <2>4, <2>5, ProposalsStayEarned
<1>3. ASSUME NEW r \in Requests, Compose(r) PROVE SkillInv'
  <2>1. /\ FreshIndex /\ UNCHANGED <<day, skillIndex, groups, outcomes, proposals, lineages>>
        /\ answer' = [asked |-> TRUE, request |-> r, selected |-> Selection(r)]
        /\ plans \subseteq plans'
    BY <1>3 DEF Compose
  <2>2. SkillTyped'
    BY <2>1, IndexInUse DEF SkillTyped
  <2>3. AnswersRight'
    BY <1>3, <2>1, ComposeIsRight DEF AnswersRight
  <2> QED BY <2>1, <2>2, <2>3, ProposalsStayEarned
<1>4. CASE Analyze
  <2>1. FreshIndex /\ UNCHANGED <<day, skillIndex, answer, plans, outcomes, proposals, lineages>>
    BY <1>4 DEF Analyze
  <2>2. SkillTyped'
    BY <2>1, IndexInUse DEF SkillTyped
  <2> QED BY <1>4, <2>1, <2>2, AnalyzeIsRight, ProposalsStayEarned
<1>5. ASSUME NEW p \in plans, NEW report \in OutcomeReports, ReportOutcome(p, report) PROVE SkillInv'
  <2> DEFINE o == [plan |-> p.id, skills |-> {RefOf(s) : s \in report.skills}, at |-> day - report.age,
                   status |-> report.status, quality |-> report.quality, refs |-> report.refs]
  <2>1. outcomes' = outcomes \cup {o} /\ UNCHANGED <<day, skillIndex, answer, groups, plans, proposals, lineages>>
    BY <1>5 DEF ReportOutcome
  <2>2. report.age \in Nat /\ report.refs # {} /\ IsFiniteSet(report.refs)
    BY SkillTypes
  <2>3. o.at = day - report.age /\ o.refs = report.refs
    OBVIOUS
  <2> HIDE DEF o
  <2>4. o.at \in Int /\ o.refs # {} /\ IsFiniteSet(o.refs)
    BY <2>2, <2>3 DEF SkillTyped
  <2>5. IsFiniteSet(outcomes')
    BY <2>1, FS_AddElement DEF SkillTyped
  <2>6. SkillTyped'
    BY <2>1, <2>4, <2>5 DEF SkillTyped
  <2> QED BY <1>1, <2>1, <2>6, ProposalsStayEarned
<1>6. ASSUME NEW O \in SUBSET outcomes, NEW P \in SUBSET plans, ProposeEvolution(O, P) PROVE SkillInv'
  <2>1. /\ FreshIndex /\ Accepted(O, P) /\ proposals' = proposals \cup Proposals(O)
        /\ UNCHANGED <<day, skillIndex, answer, groups, plans, outcomes, lineages>>
    BY <1>6 DEF ProposeEvolution
  <2>2. SkillTyped'
    BY <2>1 DEF SkillTyped
  <2>3. ProposalsAreEarned'
    BY <2>1, ProposalIsEarned DEF ProposalsAreEarned
  <2> QED BY <1>1, <2>1, <2>2, <2>3
<1>7. ASSUME NEW p \in proposals, NEW version \in 1..MaxSources, LineageFromProposal(p, version)
      PROVE SkillInv'
  <2>1. /\ lineages' = lineages \cup {[parent |-> p.target, child |-> <<p.target[1], version>>]}
        /\ UNCHANGED <<day, skillIndex, answer, groups, plans, outcomes, proposals>>
    BY <1>7 DEF LineageFromProposal, SkillLineage
  <2>2. MaxSources \in Nat /\ version \in Nat
    BY SkillTypes
  <2>3. \A l \in lineages' : l.child[2] \in Nat
    BY <2>1, <2>2 DEF SkillTyped
  <2>4. SkillTyped'
    BY <2>1, <2>3 DEF SkillTyped
  <2> QED BY <1>1, <2>1, <2>4, ProposalsStayEarned
<1>8. ASSUME NEW l \in lineages, PublishChild(l) PROVE SkillInv'
  <2>1. /\ skillIndex # NoIndex /\ SameSkills
        /\ skillIndex' \in IndexRecords /\ EdgesJoin(skillIndex'.similar) /\ skillIndex' # NoIndex
    BY <1>8, ChildPublished
  <2>2. UNCHANGED <<day, answer, groups, plans, outcomes, proposals, lineages>>
    BY <1>8 DEF PublishChild
  <2>3. SkillTyped'
    BY <2>1, <2>2 DEF SkillTyped
  <2>4. AnswersRight'
    BY <2>1, <2>2, AnswersStayRight
  <2> QED BY <2>2, <2>3, <2>4, ProposalsStayEarned
<1>9. CASE DayPasses
  <2>1. day' = day + 1 /\ UNCHANGED <<skillIndex, answer, groups, plans, outcomes, proposals, lineages>>
    BY <1>9 DEF DayPasses
  <2>2. SkillTyped'
    BY <2>1 DEF SkillTyped
  <2> QED BY <1>1, <2>1, <2>2, ProposalsStayEarned
<1>10. CASE UNCHANGED skillVars
  <2>1. UNCHANGED <<day, skillIndex, answer, groups, plans, outcomes, proposals, lineages>>
    BY <1>10 DEF skillVars
  <2>2. SkillTyped'
    BY <2>1 DEF SkillTyped
  <2> QED BY <1>1, <2>1, <2>2, ProposalsStayEarned
<1> QED BY <1>2, <1>3, <1>4, <1>5, <1>6, <1>7, <1>8, <1>9, <1>10 DEF SkillNext

\* The invariant says what the answers are to be.
LEMMA SkillInvSays == ASSUME SkillInv PROVE SkillAnswersHold
<1>1. ComposesWhenPossible /\ ProposalsAreEarned /\ \A g \in groups : IsComponent(g)
  BY DEF SkillInv, AnswersRight
<1>2. GroupsAreComponents
  BY <1>1 DEF GroupsAreComponents, IsComponent, ConnectedBy, EdgesWithin
<1> QED BY <1>1, <1>2 DEF SkillAnswersHold

\* A composition is answered exactly when there is one and serves its request,
\* redundancy groups are the connected parts of the graph of similar skills,
\* and what is proposed for revision is earned (compose_skills,
\* analyze_latent_space, propose_evolution): whatever the indexes, the
\* requests, the reports and the order of the calls.
THEOREM SkillAnswersAlwaysHold == SkillSpec => []SkillAnswersHold
<1>1. SkillInit => SkillInv
  BY SkillInvInit
<1>2. SkillInv /\ [SkillNext]_skillVars => SkillInv'
  BY SkillInvKept
<1>3. SkillInv => SkillAnswersHold
  BY SkillInvSays
<1> QED BY <1>1, <1>2, <1>3, PTL DEF SkillSpec

-----------------------------------------------------------------------------
(* DispatchPlanner: one more of what is counted and summed *)

\* What is left at each place when an amount, one of each, or as much as there
\* is of an amount was taken.
Less(have, x, n) == [have EXCEPT ![x] = @ - n]
OneLess(D, have, places) == [x \in D |-> IF x \in places THEN have[x] - 1 ELSE have[x]]
AtMostLess(have, x, n) == [have EXCEPT ![x] = Max({0, @ - n})]

\* Amounts taken at places stay within what there is at each.
Within(S, at, amount, have) ==
    \A x \in DOMAIN have : SumOver(amount, {b \in S : at[b] = x}) <= have[x]
\* Together with one that takes its amount at its place.
LEMMA OneMoreWithin ==
    ASSUME NEW S, IsFiniteSet(S), NEW at, NEW amount, \A b \in S : amount[b] \in Nat,
           NEW a \in S, NEW D, NEW have \in [D -> Nat], at[a] \in D,
           NEW rest, rest = Less(have, at[a], amount[a])
    PROVE  Within(S, at, amount, have) <=>
              amount[a] <= have[at[a]] /\ Within(S \ {a}, at, amount, rest)
<1> DEFINE Here(x) == {b \in S : at[b] = x}
           Left(x) == {b \in S \ {a} : at[b] = x}
<1>1. \A x : /\ IsFiniteSet(Here(x)) /\ IsFiniteSet(Left(x))
             /\ (\A b \in Here(x) : amount[b] \in Nat) /\ (\A b \in Left(x) : amount[b] \in Nat)
  <2>1. \A x : Here(x) \in SUBSET S /\ Left(x) \in SUBSET S
    OBVIOUS
  <2> HIDE DEF Here, Left
  <2>2. \A x : IsFiniteSet(Here(x)) /\ IsFiniteSet(Left(x))
    BY <2>1, FS_Subset
  <2> QED BY <2>1, <2>2
<1>2. \A x : SumOver(amount, Here(x)) \in Nat /\ SumOver(amount, Left(x)) \in Nat
  <2> HIDE DEF Here, Left
  <2> QED BY <1>1, SumNat
<1>3. \A x : x # at[a] => Left(x) = Here(x)
  OBVIOUS
<1>4. a \in Here(at[a]) /\ Left(at[a]) = Here(at[a]) \ {a}
  OBVIOUS
<1> HIDE DEF Here, Left
<1>5. SumOver(amount, Here(at[a])) = amount[a] + SumOver(amount, Left(at[a]))
  <2>1. \A b \in Here(at[a]) : amount[b] \in Int
    BY <1>1
  <2> QED BY <1>1, <1>4, <2>1, SumOfRest
<1>6. DOMAIN rest = DOMAIN have /\ rest[at[a]] = have[at[a]] - amount[a]
      /\ \A x \in DOMAIN have : x # at[a] => rest[x] = have[x]
  BY DEF Less
<1>7. amount[a] \in Nat /\ have[at[a]] \in Nat
  OBVIOUS
<1>8. Within(S, at, amount, have) <=> \A x \in DOMAIN have : SumOver(amount, Here(x)) <= have[x]
  BY DEF Within, Here
<1>9. Within(S \ {a}, at, amount, rest) <=> \A x \in DOMAIN have : SumOver(amount, Left(x)) <= rest[x]
  BY <1>6 DEF Within, Left
<1>10. SumOver(amount, Here(at[a])) <= have[at[a]] <=>
          amount[a] <= have[at[a]] /\ SumOver(amount, Left(at[a])) <= rest[at[a]]
  <2> DEFINE s == SumOver(amount, Left(at[a]))
             n == amount[a]
             k == have[at[a]]
  <2>1. s \in Nat /\ n \in Nat /\ k \in Nat
    BY <1>2, <1>7
  <2>2. SumOver(amount, Here(at[a])) = n + s /\ rest[at[a]] = k - n
    BY <1>5, <1>6
  <2> HIDE DEF s, n, k
  <2>3. n + s <= k <=> n <= k /\ s <= k - n
    BY <2>1
  <2> QED BY <2>2, <2>3 DEF s, n, k
<1>11. \A x \in DOMAIN have : x # at[a] =>
          (SumOver(amount, Here(x)) <= have[x] <=> SumOver(amount, Left(x)) <= rest[x])
  BY <1>3, <1>6
<1> QED BY <1>8, <1>9, <1>10, <1>11

\* As many take a place as it has room for, where one may take several places.
RoomFor(S, at, have) ==
    \A x \in DOMAIN have : Cardinality({b \in S : x \in at[b]}) <= have[x]
\* Together with one that takes its places.
LEMMA OneMoreRoomFor ==
    ASSUME NEW S, IsFiniteSet(S), NEW at, NEW a \in S, NEW D, NEW have \in [D -> Nat],
           NEW rest, rest = OneLess(D, have, at[a])
    PROVE  RoomFor(S, at, have) <=>
              (\A x \in D : x \in at[a] => have[x] > 0) /\ RoomFor(S \ {a}, at, rest)
<1> DEFINE Here(x) == {b \in S : x \in at[b]}
           Left(x) == {b \in S \ {a} : x \in at[b]}
<1>1. \A x : IsFiniteSet(Here(x)) /\ IsFiniteSet(Left(x))
  <2>1. \A x : Here(x) \in SUBSET S /\ Left(x) \in SUBSET S
    OBVIOUS
  <2> HIDE DEF Here, Left
  <2> QED BY <2>1, FS_Subset
<1>2. \A x : (x \notin at[a] => Left(x) = Here(x))
             /\ (x \in at[a] => a \in Here(x) /\ Left(x) = Here(x) \ {a})
  OBVIOUS
<1> HIDE DEF Here, Left
<1>3. \A x : Cardinality(Here(x)) \in Nat /\ Cardinality(Left(x)) \in Nat
  BY <1>1, FS_CardinalityType
<1>4. ASSUME NEW x, x \in at[a] PROVE Cardinality(Left(x)) = Cardinality(Here(x)) - 1
  <2>1. a \in Here(x) /\ Left(x) = Here(x) \ {a} /\ IsFiniteSet(Here(x))
    BY <1>1, <1>2, <1>4
  <2> QED BY <2>1, FS_RemoveElement
<1>5. DOMAIN rest = DOMAIN have
      /\ \A x \in DOMAIN have : rest[x] = IF x \in at[a] THEN have[x] - 1 ELSE have[x]
  BY DEF OneLess
<1>6. RoomFor(S, at, have) <=> \A x \in DOMAIN have : Cardinality(Here(x)) <= have[x]
  BY DEF RoomFor, Here
<1>7. RoomFor(S \ {a}, at, rest) <=> \A x \in DOMAIN have : Cardinality(Left(x)) <= rest[x]
  BY <1>5 DEF RoomFor, Left
<1>8. ASSUME NEW x \in DOMAIN have
      PROVE Cardinality(Here(x)) <= have[x] <=>
               (x \in at[a] => have[x] > 0) /\ Cardinality(Left(x)) <= rest[x]
  <2>1. have[x] \in Nat
    OBVIOUS
  <2>2. CASE x \in at[a]
    <3> DEFINE c == Cardinality(Here(x))
               k == have[x]
    <3>1. c \in Nat /\ c - 1 \in Nat /\ k \in Nat /\ Cardinality(Left(x)) = c - 1 /\ rest[x] = k - 1
      <4>1. Cardinality(Left(x)) = c - 1 /\ c \in Nat /\ Cardinality(Left(x)) \in Nat
        BY <1>3, <1>4, <2>2
      <4> QED BY <1>5, <2>1, <2>2, <4>1
    <3> HIDE DEF c, k
    <3>2. c <= k <=> k > 0 /\ c - 1 <= k - 1
      BY <3>1
    <3> QED BY <2>2, <3>1, <3>2 DEF c, k
  <2>3. CASE x \notin at[a]
    BY <1>2, <1>5, <2>3
  <2> QED BY <2>2, <2>3
<1> QED BY <1>6, <1>7, <1>8

\* What those before it and its own cost together is there for each that is not
\* free to draw more.
Earlier(S, at, early, b) == {c \in S : at[c] = at[b] /\ <<c, b>> \in early}
Paid(S, at, cost, early, free, have) ==
    \A b \in S : b \in free \/ SumOver(cost, Earlier(S, at, early, b)) <= have[at[b]]
\* Together with one that is before all the others.
LEMMA OneMorePaid ==
    ASSUME NEW S, IsFiniteSet(S), NEW at, NEW cost, \A b \in S : cost[b] \in Nat \ {0},
           NEW early, \A b \in S : <<b, b>> \in early,
           NEW a \in S, \A b \in S \ {a} : <<a, b>> \in early /\ <<b, a>> \notin early,
           NEW free, NEW D, NEW have \in [D -> Nat], \A b \in S : at[b] \in D,
           NEW rest, rest = AtMostLess(have, at[a], cost[a])
    PROVE  Paid(S, at, cost, early, free, have) <=>
              /\ a \in free \/ cost[a] <= have[at[a]]
              /\ Paid(S \ {a}, at, cost, early, free, rest)
<1> DEFINE All(b) == Earlier(S, at, early, b)
           Left(b) == Earlier(S \ {a}, at, early, b)
<1>1. \A b : IsFiniteSet(All(b)) /\ IsFiniteSet(Left(b))
             /\ (\A c \in All(b) : cost[c] \in Nat) /\ (\A c \in Left(b) : cost[c] \in Nat)
  <2>1. \A b : All(b) \in SUBSET S /\ Left(b) \in SUBSET S
    BY DEF Earlier
  <2> HIDE DEF All, Left
  <2>2. \A b : IsFiniteSet(All(b)) /\ IsFiniteSet(Left(b))
    BY <2>1, FS_Subset
  <2> QED BY <2>1, <2>2
<1>2. \A b : SumOver(cost, All(b)) \in Nat /\ SumOver(cost, Left(b)) \in Nat
  <2> HIDE DEF All, Left
  <2> QED BY <1>1, SumNat
<1>3. All(a) = {a}
  BY DEF Earlier
<1>4. \A b \in S \ {a} : /\ at[b] = at[a] => a \in All(b) /\ Left(b) = All(b) \ {a}
                         /\ at[b] # at[a] => Left(b) = All(b)
                         /\ b \in Left(b)
  BY DEF Earlier
<1> HIDE DEF All, Left
<1>5. SumOver(cost, All(a)) = cost[a]
  <2>1. SumOver(cost, {a}) = cost[a] + SumOver(cost, {a} \ {a})
    <3> DEFINE T == {a}
    <3>1. IsFiniteSet(T)
      BY FS_Singleton
    <3>2. a \in T /\ \A c \in T : cost[c] \in Int
      OBVIOUS
    <3> HIDE DEF T
    <3>3. SumOver(cost, T) = cost[a] + SumOver(cost, T \ {a})
      BY <3>1, <3>2, SumOfRest
    <3> QED BY <3>3 DEF T
  <2>2. SumOver(cost, {}) = 0
    BY FS_EmptySet, SumType
  <2>3. {a} \ {a} = {} /\ cost[a] \in Nat
    OBVIOUS
  <2> QED BY <1>3, <2>1, <2>2, <2>3
<1>6. ASSUME NEW b \in S \ {a}, at[b] = at[a]
      PROVE SumOver(cost, All(b)) = cost[a] + SumOver(cost, Left(b))
  <2>1. \A c \in All(b) : cost[c] \in Int
    BY <1>1
  <2>2. a \in All(b) /\ Left(b) = All(b) \ {a} /\ IsFiniteSet(All(b))
    BY <1>1, <1>4, <1>6
  <2> QED BY <2>1, <2>2, SumOfRest
<1>7. ASSUME NEW b \in S \ {a} PROVE SumOver(cost, Left(b)) > 0
  <2>1. (\A c \in Left(b) : cost[c] \in Int) /\ b \in Left(b) /\ IsFiniteSet(Left(b))
    BY <1>1, <1>4
  <2>2. SumOver(cost, Left(b)) = cost[b] + SumOver(cost, Left(b) \ {b})
    BY <2>1, SumOfRest
  <2>3. SumOver(cost, Left(b) \ {b}) \in Nat
    <3>1. IsFiniteSet(Left(b) \ {b}) /\ \A c \in Left(b) \ {b} : cost[c] \in Nat
      BY <1>1, FS_Subset
    <3> QED BY <3>1, SumNat
  <2>4. cost[b] \in Nat \ {0}
    OBVIOUS
  <2> QED BY <2>2, <2>3, <2>4
<1>8. have[at[a]] \in Nat /\ cost[a] \in Nat \ {0} /\ at[a] \in DOMAIN have
  OBVIOUS
<1>9. /\ rest[at[a]] = IF cost[a] <= have[at[a]] THEN have[at[a]] - cost[a] ELSE 0
      /\ \A x \in DOMAIN have : x # at[a] => rest[x] = have[x]
  <2>1. Max({0, have[at[a]] - cost[a]}) = IF 0 >= have[at[a]] - cost[a] THEN 0 ELSE have[at[a]] - cost[a]
    BY <1>8, MinMaxOfTwo
  <2>2. rest[at[a]] = Max({0, have[at[a]] - cost[a]}) /\ \A x \in DOMAIN have : x # at[a] => rest[x] = have[x]
    BY DEF AtMostLess
  <2> QED BY <1>8, <2>1, <2>2
<1>10. ASSUME NEW b \in S \ {a}
       PROVE SumOver(cost, All(b)) <= have[at[b]] <=> SumOver(cost, Left(b)) <= rest[at[b]]
  <2>1. CASE at[b] = at[a]
    <3> DEFINE s == SumOver(cost, Left(b))
               n == cost[a]
               k == have[at[a]]
    <3>1. s \in Nat /\ s > 0 /\ n \in Nat \ {0} /\ k \in Nat
      BY <1>2, <1>7, <1>8
    <3>2. SumOver(cost, All(b)) = n + s /\ rest[at[b]] = IF n <= k THEN k - n ELSE 0
      BY <1>6, <1>9, <2>1
    <3> HIDE DEF s, n, k
    <3>3. n + s <= k <=> s <= (IF n <= k THEN k - n ELSE 0)
      BY <3>1
    <3> QED BY <2>1, <3>2, <3>3 DEF s, k
  <2>2. CASE at[b] # at[a]
    <3>1. at[b] \in DOMAIN have
      OBVIOUS
    <3> QED BY <1>4, <1>9, <2>2, <3>1
  <2> QED BY <2>1, <2>2
<1>11. Paid(S, at, cost, early, free, have) <=>
          \A b \in S : b \in free \/ SumOver(cost, All(b)) <= have[at[b]]
  BY DEF Paid, All
<1>12. Paid(S \ {a}, at, cost, early, free, rest) <=>
          \A b \in S \ {a} : b \in free \/ SumOver(cost, Left(b)) <= rest[at[b]]
  BY DEF Paid, Left
<1> QED BY <1>5, <1>10, <1>11, <1>12

-----------------------------------------------------------------------------
(* DispatchPlanner: what is known of the given jobs, pools and hosts *)

JobsTyped(T) ==
    /\ \A j, k \in T : j.id = k.id => j = k
    /\ \A j \in T : /\ j.id \in Int /\ j.priority \in Int /\ j.difficulty \in Int
                    /\ j.minutes \in Nat /\ j.cpu \in Nat /\ j.ram \in Nat /\ j.disk \in Nat
                    /\ j.gpu \in Nat /\ j.cost \in Nat /\ j.approved \in SUBSET Nat
PoolsTyped ==
    /\ IsFiniteSet(PoolIds) /\ PoolIds \subseteq Nat \ {0}
    /\ \A p \in PoolIds :
          /\ PoolAt(p).remaining \in Int /\ PoolAt(p).reserve \in Int /\ PoolAt(p).pilotCap \in Int
          /\ PoolAt(p).maxConcurrency \in Int /\ PoolAt(p).inflight \in Int
          /\ PoolAt(p).roleModels \in Seq(Nat)
HostsTyped ==
    /\ IsFiniteSet(HostIds) /\ HostIds \subseteq Nat \ {0}
    /\ \A h \in HostIds :
          /\ HostAt(h).cpu \in Int /\ HostAt(h).ram \in Int /\ HostAt(h).disk \in Int
          /\ HostAt(h).maxConcurrency \in Int /\ HostAt(h).inflight \in Int /\ HostAt(h).score \in Int
          /\ IsFiniteSet(HostAt(h).mounts) /\ (\A m \in HostAt(h).mounts : m.free \in Int)
          /\ HostAt(h).gpus \in Seq(Int)
ScoresTyped == \A j \in asked.tasks, p \in PoolIds : asked.scores[<<j.id, p>>] \in Int

LEMMA InputsTyped ==
    ASSUME asked \in PlanInputs
    PROVE  IsFiniteSet(asked.tasks) /\ JobsTyped(asked.tasks) /\ PoolsTyped /\ HostsTyped /\ ScoresTyped
<1> DEFINE ids == PoolIds \cup HostIds
<1>1. IsFiniteSet(asked.tasks) /\ IsFiniteSet(ids) /\ ids \subseteq Nat \ {0}
  BY PlannerAssumption DEF PoolIds, HostIds
<1>2. JobsTyped(asked.tasks)
  <2>1. \A j, k \in asked.tasks : j.id = k.id => j = k
    BY PlannerAssumption
  <2>2. ASSUME NEW j \in asked.tasks
        PROVE  /\ {j.id, j.priority, j.difficulty} \subseteq Int
               /\ {j.minutes, j.cpu, j.ram, j.disk, j.gpu, j.cost} \cup j.approved \subseteq Nat
    BY PlannerAssumption
  <2>3. ASSUME NEW j \in asked.tasks
        PROVE  /\ j.id \in Int /\ j.priority \in Int /\ j.difficulty \in Int
               /\ j.minutes \in Nat /\ j.cpu \in Nat /\ j.ram \in Nat /\ j.disk \in Nat
               /\ j.gpu \in Nat /\ j.cost \in Nat /\ j.approved \in SUBSET Nat
    BY <2>2
  <2> QED BY <2>1, <2>3 DEF JobsTyped
<1>3. IsFiniteSet(PoolIds) /\ IsFiniteSet(HostIds) /\ PoolIds \subseteq Nat \ {0} /\ HostIds \subseteq Nat \ {0}
  <2>1. PoolIds \in SUBSET ids /\ HostIds \in SUBSET ids
    OBVIOUS
  <2> HIDE DEF ids
  <2> QED BY <1>1, <2>1, FS_Subset
<1>4. PoolsTyped
  <2>1. ASSUME NEW p \in PoolIds
        PROVE  /\ {PoolAt(p).remaining, PoolAt(p).reserve, PoolAt(p).pilotCap,
                   PoolAt(p).maxConcurrency, PoolAt(p).inflight} \subseteq Int
               /\ PoolAt(p).roleModels \in Seq(Nat)
    BY PlannerAssumption DEF PoolIds, PoolAt
  <2>2. ASSUME NEW p \in PoolIds
        PROVE  /\ PoolAt(p).remaining \in Int /\ PoolAt(p).reserve \in Int /\ PoolAt(p).pilotCap \in Int
               /\ PoolAt(p).maxConcurrency \in Int /\ PoolAt(p).inflight \in Int
               /\ PoolAt(p).roleModels \in Seq(Nat)
    BY <2>1
  <2> QED BY <1>3, <2>2 DEF PoolsTyped
<1>5. HostsTyped
  <2>1. ASSUME NEW h \in HostIds
        PROVE  /\ {HostAt(h).cpu, HostAt(h).ram, HostAt(h).disk, HostAt(h).maxConcurrency,
                   HostAt(h).inflight, HostAt(h).score} \subseteq Int
               /\ IsFiniteSet(HostAt(h).mounts) /\ (\A m \in HostAt(h).mounts : m.free \in Int)
               /\ HostAt(h).gpus \in Seq(Int)
    BY PlannerAssumption DEF HostIds, HostAt
  <2>2. ASSUME NEW h \in HostIds
        PROVE  /\ HostAt(h).cpu \in Int /\ HostAt(h).ram \in Int /\ HostAt(h).disk \in Int
               /\ HostAt(h).maxConcurrency \in Int /\ HostAt(h).inflight \in Int /\ HostAt(h).score \in Int
               /\ IsFiniteSet(HostAt(h).mounts) /\ (\A m \in HostAt(h).mounts : m.free \in Int)
               /\ HostAt(h).gpus \in Seq(Int)
    BY <2>1
  <2> QED BY <1>3, <2>2 DEF HostsTyped
<1>6. ScoresTyped
  BY PlannerAssumption DEF ScoresTyped, PoolIds
<1> QED BY <1>1, <1>2, <1>4, <1>5, <1>6

\* What a host offers is a natural number.
LEMMA OffersTyped ==
    ASSUME asked \in PlanInputs, NEW h \in HostIds
    PROVE  /\ HostSlots(h) \in Nat /\ Max({0, HostAt(h).cpu}) \in Nat /\ Max({1, HostAt(h).ram}) \in Nat
           /\ Max({1, DiskFree(h)}) \in Nat /\ Len(HostAt(h).gpus) \in Nat
<1>1. /\ HostAt(h).cpu \in Int /\ HostAt(h).ram \in Int /\ HostAt(h).disk \in Int
      /\ HostAt(h).maxConcurrency \in Int /\ HostAt(h).inflight \in Int
      /\ IsFiniteSet(HostAt(h).mounts) /\ (\A m \in HostAt(h).mounts : m.free \in Int)
      /\ HostAt(h).gpus \in Seq(Int)
  BY InputsTyped DEF HostsTyped
<1>2. DiskFree(h) \in Int
  <2>1. CASE HostAt(h).mounts = {}
    BY <1>1, <2>1 DEF DiskFree
  <2>2. CASE HostAt(h).mounts # {} /\ \E m \in Writable(h) : m.preferred
    <3>1. PreferredOf(Writable(h)) \in Writable(h)
      BY <2>2 DEF PreferredOf
    <3>2. PreferredOf(Writable(h)).free \in Int
      BY <1>1, <3>1 DEF Writable
    <3> QED BY <2>2, <3>2 DEF DiskFree
  <2>3. CASE HostAt(h).mounts # {} /\ ~(\E m \in Writable(h) : m.preferred) /\ Writable(h) = {}
    BY <2>3 DEF DiskFree, Missing
  <2>4. CASE HostAt(h).mounts # {} /\ ~(\E m \in Writable(h) : m.preferred) /\ Writable(h) # {}
    <3> DEFINE free == [m \in Writable(h) |-> m.free]
               amounts == {m.free : m \in Writable(h)}
    <3>1. IsFiniteSet(Writable(h))
      BY <1>1, FS_Subset DEF Writable
    <3>2. free \in Surjection(Writable(h), amounts)
      BY DEF Surjection
    <3>3. amounts # {} /\ \A x \in amounts : x \in Int
      BY <1>1, <2>4 DEF Writable
    <3>4. DiskFree(h) = Max(amounts)
      BY <2>4 DEF DiskFree
    <3> HIDE DEF free, amounts
    <3>5. IsFiniteSet(amounts)
      BY <3>1, <3>2, FS_Surjection
    <3> QED BY <3>3, <3>4, <3>5, GreatestOf
  <2> QED BY <2>1, <2>2, <2>3, <2>4
<1>3. HostSlots(h) \in Nat
  <2> DEFINE n == HostAt(h).maxConcurrency - HostAt(h).inflight
  <2>1. n \in Int
    BY <1>1
  <2>2. HostSlots(h) = 0 \/ HostSlots(h) = Max({0, n})
    BY DEF HostSlots
  <2> HIDE DEF n
  <2>3. Max({0, n}) \in Nat
    BY <2>1, MinMaxOfTwo
  <2> QED BY <2>2, <2>3
<1>4. Max({0, HostAt(h).cpu}) \in Nat /\ Max({1, HostAt(h).ram}) \in Nat /\ Max({1, DiskFree(h)}) \in Nat
  <2>1. \A n \in Int : Max({0, n}) \in Nat /\ Max({1, n}) \in Nat
    BY MinMaxOfTwo
  <2> QED BY <1>1, <1>2, <2>1
<1> QED BY <1>1, <1>3, <1>4

\* So is what a pool that is open offers.
LEMMA PoolOffersTyped ==
    ASSUME asked \in PlanInputs, NEW p \in PoolIds
    PROVE  PoolSlots(p) \in Nat /\ (Open(p) => Budget(p) \in Nat)
<1>1. /\ PoolAt(p).remaining \in Int /\ PoolAt(p).reserve \in Int /\ PoolAt(p).pilotCap \in Int
      /\ PoolAt(p).maxConcurrency \in Int /\ PoolAt(p).inflight \in Int
  BY InputsTyped DEF PoolsTyped
<1>2. \A n \in Int : Max({0, n}) \in Nat
  BY MinMaxOfTwo
<1>3. ASSUME NEW n \in Nat PROVE Min({1, n}) \in Nat
  <2>1. 1 \in Int /\ n \in Int
    OBVIOUS
  <2>2. Min({1, n}) = IF 1 <= n THEN 1 ELSE n
    BY <2>1, MinMaxOfTwo, Zenon
  <2> QED BY <2>2
<1>4. PoolSlots(p) \in Nat
  <2> DEFINE n == PoolAt(p).maxConcurrency - PoolAt(p).inflight
  <2>1. Max({0, n}) \in Nat
    BY <1>1, <1>2
  <2>2. PoolSlots(p) = Min({1, Max({0, n})}) \/ PoolSlots(p) = Max({0, n})
    BY DEF PoolSlots
  <2> HIDE DEF n
  <2> QED BY <1>3, <2>1, <2>2
<1>5. ASSUME Open(p) PROVE Budget(p) \in Nat
  <2>1. CASE PoolAt(p).remaining = Missing
    <3>1. PoolAt(p).pilotCap > 0 /\ Budget(p) = PoolAt(p).pilotCap
      BY <1>5, <2>1 DEF Open, Budget
    <3> QED BY <1>1, <3>1
  <2>2. CASE PoolAt(p).remaining # Missing
    <3> DEFINE n == PoolAt(p).remaining - PoolAt(p).reserve
    <3>1. n \in Int /\ Budget(p) = Max({0, n})
      BY <1>1, <2>2 DEF Budget
    <3> HIDE DEF n
    <3> QED BY <1>2, <3>1
  <2> QED BY <2>1, <2>2
<1> QED BY <1>4, <1>5

LEMMA StockTyped ==
    ASSUME asked \in PlanInputs
    PROVE  Stock \in Stocks
<1>1. \A p \in PoolIds : (IF Open(p) THEN Budget(p) ELSE 0) \in Nat /\ (IF Open(p) THEN PoolSlots(p) ELSE 0) \in Nat
  BY PoolOffersTyped
<1>2. [p \in PoolIds |-> IF Open(p) THEN Budget(p) ELSE 0] \in [PoolIds -> Nat]
      /\ [p \in PoolIds |-> IF Open(p) THEN PoolSlots(p) ELSE 0] \in [PoolIds -> Nat]
  BY <1>1
<1>3. \A h \in HostIds : /\ HostSlots(h) \in Nat /\ Max({0, HostAt(h).cpu}) \in Nat /\ Max({1, HostAt(h).ram}) \in Nat
                         /\ Max({1, DiskFree(h)}) \in Nat /\ Len(HostAt(h).gpus) \in Nat
  BY OffersTyped
<1>4. /\ [h \in HostIds |-> HostSlots(h)] \in [HostIds -> Nat]
      /\ [h \in HostIds |-> Max({0, HostAt(h).cpu})] \in [HostIds -> Nat]
      /\ [h \in HostIds |-> Max({1, HostAt(h).ram})] \in [HostIds -> Nat]
      /\ [h \in HostIds |-> Max({1, DiskFree(h)})] \in [HostIds -> Nat]
      /\ [h \in HostIds |-> Len(HostAt(h).gpus)] \in [HostIds -> Nat]
  BY <1>3
<1> QED BY <1>2, <1>4 DEF Stock, Stocks

\* What a job asks for is a natural number, and it is never free.
LEMMA AmountsTyped ==
    ASSUME asked \in PlanInputs, NEW j \in asked.tasks
    PROVE  /\ j.cpu \in Nat /\ j.gpu \in Nat /\ Max({1, j.ram}) \in Nat /\ Max({1, j.disk}) \in Nat
           /\ \A p : Cost(j, p) \in Nat \ {0}
<1>1. j.cpu \in Nat /\ j.gpu \in Nat /\ j.ram \in Nat /\ j.disk \in Nat /\ j.cost \in Nat
  BY InputsTyped DEF JobsTyped
<1>2. \A n \in Nat : Max({1, n}) \in Nat \ {0}
  BY MinMaxOfTwo
<1>3. \A p : Cost(j, p) \in Nat \ {0}
  BY <1>1, <1>2 DEF Cost
<1> QED BY <1>1, <1>2, <1>3

-----------------------------------------------------------------------------
(* DispatchPlanner: the order of the jobs *)

LEMMA BeforeIsAnOrder ==
    ASSUME NEW T, JobsTyped(T), NEW j \in T, NEW k \in T
    PROVE  /\ ~Before(j, j)
           /\ j # k => Before(j, k) \/ Before(k, j)
           /\ \A l \in T : Before(j, k) /\ Before(k, l) => Before(j, l)
<1>1. \A x \in T : x.id \in Int /\ x.priority \in Int /\ x.difficulty \in Int /\ x.minutes \in Nat
  BY DEF JobsTyped
<1>2. j # k => j.id # k.id
  BY DEF JobsTyped
<1>3. ~Before(j, j)
  BY <1>1 DEF Before, Shorter
<1>4. j # k => Before(j, k) \/ Before(k, j)
  BY <1>1, <1>2 DEF Before, Shorter
<1>5. ASSUME NEW l \in T, Before(j, k), Before(k, l) PROVE Before(j, l)
  BY <1>1, <1>5 DEF Before, Shorter
<1> QED BY <1>3, <1>4, <1>5

LEMMA FirstJobIs ==
    ASSUME NEW T, IsFiniteSet(T), T # {}, JobsTyped(T)
    PROVE  /\ FirstJob(T) \in T
           /\ \A k \in T \ {FirstJob(T)} : Before(FirstJob(T), k) /\ ~Before(k, FirstJob(T))
<1> DEFINE Ahead(j) == {k \in T : Before(k, j)}
           rank == [j \in T |-> Cardinality(Ahead(j))]
<1>1. \A j \in T : IsFiniteSet(Ahead(j)) /\ rank[j] = Cardinality(Ahead(j)) /\ rank[j] \in Nat
  <2>1. \A j \in T : Ahead(j) \in SUBSET T /\ rank[j] = Cardinality(Ahead(j))
    OBVIOUS
  <2> HIDE DEF Ahead, rank
  <2>2. \A j \in T : IsFiniteSet(Ahead(j))
    BY <2>1, FS_Subset
  <2> QED BY <2>1, <2>2, FS_CardinalityType
<1>2. ASSUME NEW j \in T, NEW k \in T, Before(j, k) PROVE rank[j] < rank[k]
  <2>1. Ahead(j) \subseteq Ahead(k) \ {j} /\ j \in Ahead(k)
    BY <1>2, BeforeIsAnOrder
  <2> HIDE DEF Ahead, rank
  <2>2. IsFiniteSet(Ahead(k) \ {j}) /\ Cardinality(Ahead(k) \ {j}) = Cardinality(Ahead(k)) - 1
    BY <1>1, <2>1, FS_RemoveElement
  <2>3. Cardinality(Ahead(j)) <= Cardinality(Ahead(k) \ {j})
    BY <2>1, <2>2, FS_Subset
  <2> QED BY <1>1, <2>2, <2>3
<1>3. PICK j \in T : \A k \in T : rank[j] <= rank[k]
  <2> HIDE DEF Ahead, rank
  <2> QED BY <1>1, LeastOf
<1>4. \A k \in T \ {j} : Before(j, k)
  <2> SUFFICES ASSUME NEW k \in T \ {j}, ~Before(j, k) PROVE FALSE
    OBVIOUS
  <2>1. Before(k, j)
    BY BeforeIsAnOrder
  <2> HIDE DEF Ahead, rank
  <2>2. rank[k] < rank[j] /\ rank[j] <= rank[k] /\ rank[j] \in Nat /\ rank[k] \in Nat
    BY <1>1, <1>2, <1>3, <2>1
  <2> QED BY <2>2
<1>5. FirstJob(T) \in T /\ \A k \in T \ {FirstJob(T)} : Before(FirstJob(T), k)
  BY <1>4 DEF FirstJob
<1>6. ASSUME NEW k \in T, Before(FirstJob(T), k), Before(k, FirstJob(T)) PROVE FALSE
  BY <1>5, <1>6, BeforeIsAnOrder
<1> QED BY <1>5, <1>6

-----------------------------------------------------------------------------
(* DispatchPlanner: options and picks *)

LEMMA ConsideredIs ==
    ASSUME asked \in PlanInputs
    PROVE  /\ Considered \in SUBSET asked.tasks /\ IsFiniteSet(Considered) /\ JobsTyped(Considered)
           /\ \A j \in Considered : j.needs \subseteq asked.done
<1>1. Considered \in SUBSET asked.tasks /\ \A j \in Considered : j.needs \subseteq asked.done
  BY DEF Considered, Ready
<1>2. IsFiniteSet(asked.tasks) /\ JobsTyped(asked.tasks)
  BY InputsTyped
<1> QED BY <1>1, <1>2, FS_Subset DEF JobsTyped

LEMMA AgentIsAtAHost ==
    ASSUME asked \in PlanInputs, NEW p \in PoolIds, AgentHost(p) # Missing
    PROVE  AgentHost(p) \in HostIds
<1> DEFINE locals == {h \in HostIds : HostAt(h).reachable /\ HostAt(h).local}
<1>1. locals \in SUBSET HostIds /\ locals \in SUBSET Nat
  BY InputsTyped DEF HostsTyped
<1>2. locals # {} => Min(locals) \in locals
  <2> HIDE DEF locals
  <2> QED BY <1>1, LeastOfNumbers
<1>3. \/ AgentHost(p) = Missing
      \/ AgentHost(p) = PoolAt(p).host /\ PoolAt(p).host \in HostIds
      \/ AgentHost(p) = PoolAt(p).cliHost /\ PoolAt(p).cliHost \in locals
      \/ locals # {} /\ AgentHost(p) = Min(locals)
  BY DEF AgentHost
<1> HIDE DEF locals
<1> QED BY <1>1, <1>2, <1>3

\* A pool and a host that may take a job.
MayTake(j, p, h) ==
    /\ p \in PoolIds /\ h \in HostIds
    /\ Open(p) /\ AgentHost(p) \in HostIds /\ Model(j, p) # Missing
    /\ Value(j, <<p, h>>) \in Int

LEMMA OptionIs ==
    ASSUME asked \in PlanInputs, NEW j \in Considered, NEW o \in Options(j)
    PROVE  o = <<o[1], o[2]>> /\ MayTake(j, o[1], o[2])
<1>1. o \in PoolIds \X HostIds /\ PoolTakes(j, o[1])
  BY DEF Options, Assignable
<1>2. o = <<o[1], o[2]>> /\ o[1] \in PoolIds /\ o[2] \in HostIds
  BY <1>1
<1>3. Open(o[1]) /\ AgentHost(o[1]) # Missing /\ Model(j, o[1]) # Missing
  BY <1>1 DEF PoolTakes
<1>4. AgentHost(o[1]) \in HostIds
  BY <1>2, <1>3, AgentIsAtAHost
<1>5. Value(j, o) \in Int
  <2>1. asked.scores[<<j.id, o[1]>>] \in Int
    BY <1>2, InputsTyped, ConsideredIs DEF ScoresTyped
  <2>2. HostAt(o[2]).score \in Int
    BY <1>2, InputsTyped DEF HostsTyped
  <2> QED BY <2>1, <2>2 DEF Value
<1> QED BY <1>2, <1>3, <1>4, <1>5 DEF MayTake

LEMMA OptionsAreFinite ==
    ASSUME asked \in PlanInputs, NEW j
    PROVE  IsFiniteSet(Options(j))
<1>1. IsFiniteSet(PoolIds) /\ IsFiniteSet(HostIds)
  BY InputsTyped DEF PoolsTyped, HostsTyped
<1>2. IsFiniteSet(PoolIds \X HostIds)
  BY <1>1, FS_Product
<1>3. Options(j) \in SUBSET (PoolIds \X HostIds)
  BY DEF Options
<1> QED BY <1>2, <1>3, FS_Subset

\* A job with an option of its, and the ways of giving jobs of T one each.
Picks == {a \in [task : Considered, pool : PoolIds, host : HostIds] : <<a.pool, a.host>> \in Options(a.task)}
PickSets(T) == {S \in SUBSET Picks : /\ \A a \in S : a.task \in T
                                    /\ \A a, b \in S : a.task = b.task => a = b}

LEMMA PickIs ==
    ASSUME asked \in PlanInputs, NEW a \in Picks
    PROVE  /\ a.task \in Considered /\ a.task \in asked.tasks
           /\ MayTake(a.task, a.pool, a.host) /\ <<a.pool, a.host>> \in Options(a.task)
<1>1. a.task \in Considered /\ <<a.pool, a.host>> \in Options(a.task)
  BY DEF Picks
<1> DEFINE o == <<a.pool, a.host>>
<1>2. o[1] = a.pool /\ o[2] = a.host /\ o \in Options(a.task)
  BY <1>1
<1> HIDE DEF o
<1>3. MayTake(a.task, o[1], o[2])
  BY <1>1, <1>2, OptionIs
<1> QED BY <1>1, <1>2, <1>3, ConsideredIs

LEMMA ChoiceIsFinite ==
    ASSUME asked \in PlanInputs, NEW T \in SUBSET Considered, NEW S \in PickSets(T)
    PROVE  IsFiniteSet(S) /\ S \subseteq Picks
<1> DEFINE job == [a \in S |-> a.task]
<1>1. S \subseteq Picks /\ \A a, b \in S : a.task = b.task => a = b
  BY DEF PickSets
<1>2. \A a \in S : job[a] = a.task /\ job[a] \in Considered
  BY <1>1 DEF Picks
<1>3. job \in [S -> Considered]
  BY <1>2
<1>4. job \in Injection(S, Considered)
  <2>1. \A a, b \in S : job[a] = job[b] => a = b
    BY <1>1
  <2> HIDE DEF job
  <2>2. IsInjective(job)
    <3>1. DOMAIN job = S
      BY <1>3
    <3> QED BY <2>1, <3>1, Zenon DEF IsInjective
  <2> QED BY <1>3, <2>2 DEF Injection
<1>5. IsFiniteSet(Considered)
  BY ConsideredIs
<1> HIDE DEF job
<1>6. IsFiniteSet(S)
  BY <1>4, <1>5, FS_Injection
<1> QED BY <1>1, <1>6

-----------------------------------------------------------------------------
(* DispatchPlanner: what fits into a call of solve *)

CpuOf == [a \in Picks |-> a.task.cpu]
RamOf == [a \in Picks |-> Max({1, a.task.ram})]
DiskOf == [a \in Picks |-> Max({1, a.task.disk})]
GpuOf == [a \in Picks |-> a.task.gpu]
QuotaOf == [a \in Picks |-> Cost(a.task, a.pool)]
ValueOf == [a \in Picks |-> Value(a.task, <<a.pool, a.host>>)]
HostOf == [a \in Picks |-> a.host]
PoolOf == [a \in Picks |-> a.pool]
OnePoolOf == [a \in Picks |-> {a.pool}]
LanesTaken == [a \in Picks |-> LanesOf(a.pool, a.host)]
NotAfter == {x \in Picks \X Picks : ~Before(x[2].task, x[1].task)}
MayDraw == {a \in Picks : MayDrawReserve(a.task)}

Amounts(S, left) ==
    /\ Within(S, HostOf, CpuOf, left.cpu)
    /\ Within(S, HostOf, RamOf, left.ram)
    /\ Within(S, HostOf, DiskOf, left.disk)
    /\ Within(S, HostOf, GpuOf, left.gpu)
    /\ RoomFor(S, OnePoolOf, left.pool)
    /\ RoomFor(S, LanesTaken, left.lane)
    /\ Paid(S, PoolOf, QuotaOf, NotAfter, MayDraw, left.budget)
Apart(S, chosen) ==
    /\ \A a \in S, k \in chosen : ~ScopesConflict(a.task, k)
    /\ \A a, b \in S : a # b => ~ScopesConflict(a.task, b.task)
Fits(S, call) == Cardinality(S) <= call.lanes /\ Apart(S, call.chosen) /\ Amounts(S, call.left)

LEMMA PickAmounts ==
    ASSUME asked \in PlanInputs, NEW a \in Picks
    PROVE  /\ CpuOf[a] = a.task.cpu /\ RamOf[a] = Max({1, a.task.ram}) /\ DiskOf[a] = Max({1, a.task.disk})
           /\ GpuOf[a] = a.task.gpu /\ QuotaOf[a] = Cost(a.task, a.pool)
           /\ ValueOf[a] = Value(a.task, <<a.pool, a.host>>) /\ ValueOf[a] \in Int
           /\ HostOf[a] = a.host /\ HostOf[a] \in HostIds /\ PoolOf[a] = a.pool /\ PoolOf[a] \in PoolIds
           /\ OnePoolOf[a] = {a.pool} /\ LanesTaken[a] = LanesOf(a.pool, a.host)
           /\ CpuOf[a] \in Nat /\ RamOf[a] \in Nat /\ DiskOf[a] \in Nat /\ GpuOf[a] \in Nat
           /\ QuotaOf[a] \in Nat \ {0}
<1>1. a.task \in asked.tasks /\ MayTake(a.task, a.pool, a.host)
  BY PickIs
<1>2. /\ a.task.cpu \in Nat /\ a.task.gpu \in Nat /\ Max({1, a.task.ram}) \in Nat /\ Max({1, a.task.disk}) \in Nat
      /\ Cost(a.task, a.pool) \in Nat \ {0}
  BY <1>1, AmountsTyped
<1>3. a.pool \in PoolIds /\ a.host \in HostIds /\ Value(a.task, <<a.pool, a.host>>) \in Int
  BY <1>1 DEF MayTake
<1> QED BY <1>2, <1>3 DEF CpuOf, RamOf, DiskOf, GpuOf, QuotaOf, ValueOf, HostOf, PoolOf, OnePoolOf, LanesTaken

\* What is left when an option with room was taken.
LEMMA SpentIs ==
    ASSUME asked \in PlanInputs, NEW left \in Stocks, NEW a \in Picks,
           NEW o, o = <<a.pool, a.host>>, NEW rest, rest = Spent(left, a.task, o)
    PROVE  /\ rest.cpu = Less(left.cpu, HostOf[a], CpuOf[a])
           /\ rest.ram = Less(left.ram, HostOf[a], RamOf[a])
           /\ rest.disk = Less(left.disk, HostOf[a], DiskOf[a])
           /\ rest.gpu = Less(left.gpu, HostOf[a], GpuOf[a])
           /\ rest.pool = OneLess(PoolIds, left.pool, OnePoolOf[a])
           /\ rest.lane = OneLess(HostIds, left.lane, LanesTaken[a])
           /\ rest.budget = AtMostLess(left.budget, PoolOf[a], QuotaOf[a])
           /\ Room(left, a.task, o) => rest \in Stocks
<1>1. o[1] = a.pool /\ o[2] = a.host
  OBVIOUS
<1>2. a.pool \in PoolIds /\ a.host \in HostIds /\ AgentHost(a.pool) \in HostIds
  BY PickIs DEF MayTake
<1>3. /\ left.cpu \in [HostIds -> Nat] /\ left.ram \in [HostIds -> Nat] /\ left.disk \in [HostIds -> Nat]
      /\ left.gpu \in [HostIds -> Nat] /\ left.pool \in [PoolIds -> Nat] /\ left.lane \in [HostIds -> Nat]
      /\ left.budget \in [PoolIds -> Nat]
  BY DEF Stocks
<1>4. /\ rest.cpu = [left.cpu EXCEPT ![a.host] = @ - a.task.cpu]
      /\ rest.ram = [left.ram EXCEPT ![a.host] = @ - Max({1, a.task.ram})]
      /\ rest.disk = [left.disk EXCEPT ![a.host] = @ - Max({1, a.task.disk})]
      /\ rest.gpu = [left.gpu EXCEPT ![a.host] = @ - a.task.gpu]
      /\ rest.pool = [left.pool EXCEPT ![a.pool] = @ - 1]
      /\ rest.lane = [h \in HostIds |-> IF h \in LanesOf(a.pool, a.host) THEN left.lane[h] - 1 ELSE left.lane[h]]
      /\ rest.budget = [left.budget EXCEPT ![a.pool] = Max({0, @ - Cost(a.task, a.pool)})]
      /\ rest = [budget |-> rest.budget, pool |-> rest.pool, lane |-> rest.lane, cpu |-> rest.cpu,
                 ram |-> rest.ram, disk |-> rest.disk, gpu |-> rest.gpu]
  BY <1>1 DEF Spent
<1>5. rest.pool = [p \in PoolIds |-> IF p \in {a.pool} THEN left.pool[p] - 1 ELSE left.pool[p]]
  BY <1>2, <1>3, <1>4
<1>6. ASSUME Room(left, a.task, o) PROVE rest \in Stocks
  <2>1. /\ left.pool[a.pool] > 0 /\ left.lane[a.host] > 0 /\ left.lane[AgentHost(a.pool)] > 0
        /\ a.task.cpu <= left.cpu[a.host] /\ Max({1, a.task.ram}) <= left.ram[a.host]
        /\ Max({1, a.task.disk}) <= left.disk[a.host] /\ a.task.gpu <= left.gpu[a.host]
    BY <1>1, <1>6 DEF Room
  <2>2. \A n, m \in Nat : m <= n => n - m \in Nat
    OBVIOUS
  <2>3. /\ CpuOf[a] = a.task.cpu /\ RamOf[a] = Max({1, a.task.ram}) /\ DiskOf[a] = Max({1, a.task.disk})
        /\ GpuOf[a] = a.task.gpu /\ QuotaOf[a] = Cost(a.task, a.pool)
        /\ CpuOf[a] \in Nat /\ RamOf[a] \in Nat /\ DiskOf[a] \in Nat /\ GpuOf[a] \in Nat /\ QuotaOf[a] \in Nat
    BY PickAmounts
  <2> DEFINE ram == Max({1, a.task.ram})
             disk == Max({1, a.task.disk})
             cost == Cost(a.task, a.pool)
  <2>4. a.task.cpu \in Nat /\ ram \in Nat /\ disk \in Nat /\ a.task.gpu \in Nat /\ cost \in Nat
    BY <2>3
  <2>5. Max({0, left.budget[a.pool] - cost}) \in Nat
    <3>1. left.budget[a.pool] - cost \in Int
      BY <1>2, <1>3, <2>4
    <3> QED BY <3>1, MinMaxOfTwo
  <2>6. rest.budget \in [PoolIds -> Nat]
    BY <1>2, <1>3, <1>4, <2>5
  <2>7. ram <= left.ram[a.host] /\ disk <= left.disk[a.host]
        /\ rest.ram = [left.ram EXCEPT ![a.host] = @ - ram] /\ rest.disk = [left.disk EXCEPT ![a.host] = @ - disk]
    BY <1>4, <2>1
  <2> HIDE DEF ram, disk, cost
  <2>8. left.ram[a.host] - ram \in Nat /\ left.disk[a.host] - disk \in Nat
        /\ left.cpu[a.host] - a.task.cpu \in Nat /\ left.gpu[a.host] - a.task.gpu \in Nat
        /\ left.pool[a.pool] - 1 \in Nat
    BY <1>2, <1>3, <2>1, <2>4, <2>7
  <2>9. rest.ram \in [HostIds -> Nat] /\ rest.disk \in [HostIds -> Nat]
    BY <1>3, <2>7, <2>8
  <2>10. rest.cpu \in [HostIds -> Nat] /\ rest.gpu \in [HostIds -> Nat] /\ rest.pool \in [PoolIds -> Nat]
    <3>1. /\ rest.cpu = [left.cpu EXCEPT ![a.host] = @ - a.task.cpu]
          /\ rest.gpu = [left.gpu EXCEPT ![a.host] = @ - a.task.gpu]
          /\ rest.pool = [left.pool EXCEPT ![a.pool] = @ - 1]
      BY <1>4
    <3> QED BY <1>3, <2>8, <3>1
  <2>11. rest.lane \in [HostIds -> Nat]
    <3>1. \A h \in HostIds : h \in LanesOf(a.pool, a.host) => left.lane[h] - 1 \in Nat
      BY <1>3, <2>1 DEF LanesOf
    <3> QED BY <1>3, <1>4, <3>1
  <2> QED BY <1>4, <2>6, <2>9, <2>10, <2>11 DEF Stocks
<1>7. /\ CpuOf[a] = a.task.cpu /\ RamOf[a] = Max({1, a.task.ram}) /\ DiskOf[a] = Max({1, a.task.disk})
      /\ GpuOf[a] = a.task.gpu /\ QuotaOf[a] = Cost(a.task, a.pool) /\ HostOf[a] = a.host /\ PoolOf[a] = a.pool
      /\ OnePoolOf[a] = {a.pool} /\ LanesTaken[a] = LanesOf(a.pool, a.host)
  BY PickAmounts
<1>8. /\ rest.cpu = Less(left.cpu, HostOf[a], CpuOf[a])
      /\ rest.ram = Less(left.ram, HostOf[a], RamOf[a])
      /\ rest.disk = Less(left.disk, HostOf[a], DiskOf[a])
      /\ rest.gpu = Less(left.gpu, HostOf[a], GpuOf[a])
  <2>1. /\ rest.cpu = [left.cpu EXCEPT ![a.host] = @ - a.task.cpu]
        /\ rest.ram = [left.ram EXCEPT ![a.host] = @ - Max({1, a.task.ram})]
        /\ rest.disk = [left.disk EXCEPT ![a.host] = @ - Max({1, a.task.disk})]
        /\ rest.gpu = [left.gpu EXCEPT ![a.host] = @ - a.task.gpu]
    BY <1>4
  <2> QED BY ONLY <1>7, <2>1 DEF Less
<1>9. rest.budget = AtMostLess(left.budget, PoolOf[a], QuotaOf[a])
  <2>1. rest.budget = [left.budget EXCEPT ![a.pool] = Max({0, @ - Cost(a.task, a.pool)})]
    BY <1>4
  <2> QED BY ONLY <1>7, <2>1 DEF AtMostLess
<1>10. /\ rest.pool = OneLess(PoolIds, left.pool, OnePoolOf[a])
       /\ rest.lane = OneLess(HostIds, left.lane, LanesTaken[a])
  <2>1. rest.lane = [h \in HostIds |-> IF h \in LanesOf(a.pool, a.host) THEN left.lane[h] - 1 ELSE left.lane[h]]
    BY <1>4
  <2> QED BY ONLY <1>5, <1>7, <2>1 DEF OneLess
<1> QED BY <1>6, <1>8, <1>9, <1>10

\* There is room for an option, and the rest fits into what it leaves.
LEMMA OneMoreAmounts ==
    ASSUME asked \in PlanInputs, NEW T \in SUBSET Considered, NEW S \in PickSets(T), NEW a \in S,
           \A b \in S \ {a} : Before(a.task, b.task), NEW left \in Stocks,
           NEW o, o = <<a.pool, a.host>>, NEW rest, rest = Spent(left, a.task, o)
    PROVE  Amounts(S, left) <=> Room(left, a.task, o) /\ Amounts(S \ {a}, rest)
<1>1. IsFiniteSet(S) /\ S \subseteq Picks /\ a \in Picks
  BY ChoiceIsFinite
<1>2. /\ left.cpu \in [HostIds -> Nat] /\ left.ram \in [HostIds -> Nat] /\ left.disk \in [HostIds -> Nat]
      /\ left.gpu \in [HostIds -> Nat] /\ left.pool \in [PoolIds -> Nat] /\ left.lane \in [HostIds -> Nat]
      /\ left.budget \in [PoolIds -> Nat]
  BY DEF Stocks
<1>3. /\ rest.cpu = Less(left.cpu, HostOf[a], CpuOf[a])
      /\ rest.ram = Less(left.ram, HostOf[a], RamOf[a])
      /\ rest.disk = Less(left.disk, HostOf[a], DiskOf[a])
      /\ rest.gpu = Less(left.gpu, HostOf[a], GpuOf[a])
      /\ rest.pool = OneLess(PoolIds, left.pool, OnePoolOf[a])
      /\ rest.lane = OneLess(HostIds, left.lane, LanesTaken[a])
      /\ rest.budget = AtMostLess(left.budget, PoolOf[a], QuotaOf[a])
  BY <1>1, SpentIs
<1>4. \A b \in S : /\ CpuOf[b] \in Nat /\ RamOf[b] \in Nat /\ DiskOf[b] \in Nat /\ GpuOf[b] \in Nat
                   /\ QuotaOf[b] \in Nat \ {0} /\ HostOf[b] \in HostIds /\ PoolOf[b] \in PoolIds
  BY <1>1, PickAmounts
<1>5. Within(S, HostOf, CpuOf, left.cpu) <=>
         CpuOf[a] <= left.cpu[HostOf[a]] /\ Within(S \ {a}, HostOf, CpuOf, rest.cpu)
  <2>1. /\ \A b \in S : CpuOf[b] \in Nat
        /\ left.cpu \in [HostIds -> Nat] /\ HostOf[a] \in HostIds
        /\ rest.cpu = Less(left.cpu, HostOf[a], CpuOf[a])
    BY <1>2, <1>3, <1>4
  <2> QED BY ONLY <1>1, <2>1, a \in S, OneMoreWithin
<1>6. Within(S, HostOf, RamOf, left.ram) <=>
         RamOf[a] <= left.ram[HostOf[a]] /\ Within(S \ {a}, HostOf, RamOf, rest.ram)
  <2>1. /\ \A b \in S : RamOf[b] \in Nat
        /\ left.ram \in [HostIds -> Nat] /\ HostOf[a] \in HostIds
        /\ rest.ram = Less(left.ram, HostOf[a], RamOf[a])
    BY <1>2, <1>3, <1>4
  <2> QED BY ONLY <1>1, <2>1, a \in S, OneMoreWithin
<1>7. Within(S, HostOf, DiskOf, left.disk) <=>
         DiskOf[a] <= left.disk[HostOf[a]] /\ Within(S \ {a}, HostOf, DiskOf, rest.disk)
  <2>1. /\ \A b \in S : DiskOf[b] \in Nat
        /\ left.disk \in [HostIds -> Nat] /\ HostOf[a] \in HostIds
        /\ rest.disk = Less(left.disk, HostOf[a], DiskOf[a])
    BY <1>2, <1>3, <1>4
  <2> QED BY ONLY <1>1, <2>1, a \in S, OneMoreWithin
<1>8. Within(S, HostOf, GpuOf, left.gpu) <=>
         GpuOf[a] <= left.gpu[HostOf[a]] /\ Within(S \ {a}, HostOf, GpuOf, rest.gpu)
  <2>1. /\ \A b \in S : GpuOf[b] \in Nat
        /\ left.gpu \in [HostIds -> Nat] /\ HostOf[a] \in HostIds
        /\ rest.gpu = Less(left.gpu, HostOf[a], GpuOf[a])
    BY <1>2, <1>3, <1>4
  <2> QED BY ONLY <1>1, <2>1, a \in S, OneMoreWithin
<1>9. RoomFor(S, OnePoolOf, left.pool) <=>
         (\A p \in PoolIds : p \in OnePoolOf[a] => left.pool[p] > 0) /\ RoomFor(S \ {a}, OnePoolOf, rest.pool)
  <2>1. left.pool \in [PoolIds -> Nat] /\ rest.pool = OneLess(PoolIds, left.pool, OnePoolOf[a])
    BY <1>2, <1>3
  <2> QED BY ONLY <1>1, <2>1, a \in S, OneMoreRoomFor
<1>10. RoomFor(S, LanesTaken, left.lane) <=>
         (\A h \in HostIds : h \in LanesTaken[a] => left.lane[h] > 0) /\ RoomFor(S \ {a}, LanesTaken, rest.lane)
  <2>1. left.lane \in [HostIds -> Nat] /\ rest.lane = OneLess(HostIds, left.lane, LanesTaken[a])
    BY <1>2, <1>3
  <2> QED BY ONLY <1>1, <2>1, a \in S, OneMoreRoomFor
<1>11. Paid(S, PoolOf, QuotaOf, NotAfter, MayDraw, left.budget) <=>
         /\ a \in MayDraw \/ QuotaOf[a] <= left.budget[PoolOf[a]]
         /\ Paid(S \ {a}, PoolOf, QuotaOf, NotAfter, MayDraw, rest.budget)
  <2>1. JobsTyped(Considered) /\ \A b \in S : b.task \in Considered /\ b \in Picks
    BY <1>1, PickIs, ConsideredIs
  <2>2. \A b \in S : <<b, b>> \in NotAfter
    BY <2>1, BeforeIsAnOrder DEF NotAfter
  <2>3. \A b \in S \ {a} : <<a, b>> \in NotAfter /\ <<b, a>> \notin NotAfter
    <3> SUFFICES ASSUME NEW b \in S \ {a} PROVE <<a, b>> \in NotAfter /\ <<b, a>> \notin NotAfter
      OBVIOUS
    <3>1. Before(a.task, b.task)
      OBVIOUS
    <3>2. ~Before(b.task, a.task)
      BY <2>1, <3>1, BeforeIsAnOrder
    <3> QED BY <2>1, <3>1, <3>2 DEF NotAfter
  <2> QED BY <1>1, <1>2, <1>3, <1>4, <2>2, <2>3, OneMorePaid
<1>12. Room(left, a.task, o) <=>
         /\ CpuOf[a] <= left.cpu[HostOf[a]] /\ RamOf[a] <= left.ram[HostOf[a]]
         /\ DiskOf[a] <= left.disk[HostOf[a]] /\ GpuOf[a] <= left.gpu[HostOf[a]]
         /\ \A p \in PoolIds : p \in OnePoolOf[a] => left.pool[p] > 0
         /\ \A h \in HostIds : h \in LanesTaken[a] => left.lane[h] > 0
         /\ a \in MayDraw \/ QuotaOf[a] <= left.budget[PoolOf[a]]
  <2>1. /\ CpuOf[a] = a.task.cpu /\ RamOf[a] = Max({1, a.task.ram}) /\ DiskOf[a] = Max({1, a.task.disk})
        /\ GpuOf[a] = a.task.gpu /\ QuotaOf[a] = Cost(a.task, a.pool) /\ HostOf[a] = a.host /\ PoolOf[a] = a.pool
        /\ OnePoolOf[a] = {a.pool} /\ LanesTaken[a] = {a.host, AgentHost(a.pool)}
    BY <1>1, PickAmounts DEF LanesOf
  <2>2. a.pool \in PoolIds /\ a.host \in HostIds /\ AgentHost(a.pool) \in HostIds
    BY <1>1, PickIs DEF MayTake
  <2>3. a \in MayDraw <=> MayDrawReserve(a.task)
    BY <1>1 DEF MayDraw
  <2>4. (\A p \in PoolIds : p \in {a.pool} => left.pool[p] > 0) <=> left.pool[a.pool] > 0
    BY <2>2
  <2>5. (\A h \in HostIds : h \in {a.host, AgentHost(a.pool)} => left.lane[h] > 0)
          <=> left.lane[a.host] > 0 /\ left.lane[AgentHost(a.pool)] > 0
    BY <2>2
  <2>6. Room(left, a.task, o) <=>
          /\ left.pool[a.pool] > 0 /\ left.lane[a.host] > 0 /\ left.lane[AgentHost(a.pool)] > 0
          /\ a.task.cpu <= left.cpu[a.host] /\ Max({1, a.task.ram}) <= left.ram[a.host]
          /\ Max({1, a.task.disk}) <= left.disk[a.host] /\ a.task.gpu <= left.gpu[a.host]
          /\ Cost(a.task, a.pool) <= left.budget[a.pool] \/ MayDrawReserve(a.task)
    <3>1. o[1] = a.pool /\ o[2] = a.host
      OBVIOUS
    <3> QED BY <3>1 DEF Room
  <2> QED BY <2>1, <2>3, <2>4, <2>5, <2>6
<1> QED BY <1>5, <1>6, <1>7, <1>8, <1>9, <1>10, <1>11, <1>12 DEF Amounts

\* What a call of solve goes on with.
LEMMA GoesOn ==
    ASSUME asked \in PlanInputs, NEW call \in Calls, call.todo # {}, NEW j, j = FirstJob(call.todo)
    PROVE  /\ j \in call.todo /\ j \in Considered
           /\ \A k \in call.todo \ {j} : Before(j, k) /\ ~Before(k, j)
           /\ Skipping(call, j) \in Calls
           /\ Skipping(call, j).todo = call.todo \ {j} /\ Skipping(call, j).left = call.left
           /\ Skipping(call, j).chosen = call.chosen /\ Skipping(call, j).lanes = call.lanes
<1>1. /\ call.todo \in SUBSET Considered /\ call.left \in Stocks /\ call.chosen \in SUBSET Considered
      /\ call.lanes \in 0..MaxLanes
      /\ call = [todo |-> call.todo, left |-> call.left, chosen |-> call.chosen, lanes |-> call.lanes]
  BY DEF Calls
<1>2. IsFiniteSet(call.todo) /\ JobsTyped(call.todo)
  BY <1>1, ConsideredIs, FS_Subset DEF JobsTyped
<1>3. j \in call.todo /\ \A k \in call.todo \ {j} : Before(j, k) /\ ~Before(k, j)
  BY <1>2, FirstJobIs
<1>4. Skipping(call, j) = [todo |-> call.todo \ {j}, left |-> call.left, chosen |-> call.chosen, lanes |-> call.lanes]
  <2> DEFINE t == call.todo
             l == call.left
             c == call.chosen
             n == call.lanes
  <2>1. call = [todo |-> t, left |-> l, chosen |-> c, lanes |-> n] /\ Skipping(call, j) = [call EXCEPT !.todo = t \ {j}]
    BY <1>1 DEF Skipping
  <2> HIDE DEF t, l, c, n
  <2>2. [call EXCEPT !.todo = t \ {j}] = [todo |-> t \ {j}, left |-> l, chosen |-> c, lanes |-> n]
    BY ONLY <2>1
  <2> QED BY <2>1, <2>2 DEF t, l, c, n
<1>5. Skipping(call, j) \in Calls
  BY <1>1, <1>4 DEF Calls
<1> QED BY <1>1, <1>3, <1>4, <1>5

LEMMA GoesOnTaking ==
    ASSUME asked \in PlanInputs, NEW call \in Calls, call.todo # {}, call.lanes # 0,
           NEW j, j = FirstJob(call.todo), NEW o \in OpenTo(call, j),
           NEW a, a = [task |-> j, pool |-> o[1], host |-> o[2]]
    PROVE  /\ a \in Picks /\ o = <<a.pool, a.host>>
           /\ Taking(call, j, o) \in Calls /\ Taking(call, j, o).todo = call.todo \ {j}
<1>1. /\ call.todo \in SUBSET Considered /\ call.left \in Stocks /\ call.chosen \in SUBSET Considered
      /\ call.lanes \in 0..MaxLanes
  BY DEF Calls
<1>2. j \in call.todo /\ j \in Considered
  BY GoesOn
<1>3. o \in Options(j) /\ Room(call.left, j, o)
  BY DEF OpenTo
<1>4. o = <<o[1], o[2]>> /\ o[1] \in PoolIds /\ o[2] \in HostIds
  BY <1>2, <1>3, OptionIs DEF MayTake
<1>5. a.task = j /\ a.pool = o[1] /\ a.host = o[2] /\ a \in [task : Considered, pool : PoolIds, host : HostIds]
  BY <1>2, <1>4
<1>6. a \in Picks /\ o = <<a.pool, a.host>>
  BY <1>3, <1>4, <1>5 DEF Picks
<1>7. Spent(call.left, j, o) \in Stocks
  BY <1>1, <1>3, <1>5, <1>6, SpentIs
<1>8. call.lanes - 1 \in 0..MaxLanes
  BY <1>1, PlannerAssumption
<1>9. Taking(call, j, o) \in Calls
  <2>1. call.todo \ {j} \in SUBSET Considered /\ call.chosen \cup {j} \in SUBSET Considered
    BY <1>1, <1>2
  <2> QED BY <1>7, <1>8, <2>1 DEF Taking, Calls
<1> QED BY <1>6, <1>9 DEF Taking

\* A selection that gives the first job an option fits into a call when the
\* option is open to it and the rest fits into the call after.
LEMMA OneMoreFits ==
    ASSUME asked \in PlanInputs, NEW call \in Calls, call.todo # {}, NEW j, j = FirstJob(call.todo),
           NEW S \in PickSets(call.todo), NEW a \in S, a.task = j, NEW o, o = <<a.pool, a.host>>
    PROVE  Fits(S, call) <=>
              call.lanes # 0 /\ o \in OpenTo(call, j) /\ Fits(S \ {a}, Taking(call, j, o))
<1>1. /\ call.todo \in SUBSET Considered /\ call.left \in Stocks /\ call.chosen \in SUBSET Considered
      /\ call.lanes \in Nat
  BY DEF Calls
<1>2. IsFiniteSet(S) /\ S \subseteq Picks
  BY <1>1, ChoiceIsFinite
<1>3. \A b \in S \ {a} : Before(a.task, b.task)
  <2>1. \A b \in S \ {a} : b.task \in call.todo /\ b.task # j
    BY DEF PickSets
  <2> QED BY <2>1, GoesOn
<1>4. Amounts(S, call.left) <=> Room(call.left, j, o) /\ Amounts(S \ {a}, Spent(call.left, j, o))
  BY <1>1, <1>3, OneMoreAmounts
<1>5. Cardinality(S) <= call.lanes <=> call.lanes # 0 /\ Cardinality(S \ {a}) <= call.lanes - 1
  <2>1. Cardinality(S) \in Nat /\ Cardinality(S \ {a}) = Cardinality(S) - 1 /\ Cardinality(S \ {a}) \in Nat
    <3>1. Cardinality(S \ {a}) = Cardinality(S) - 1 /\ IsFiniteSet(S \ {a})
      BY <1>2, FS_RemoveElement
    <3> QED BY <1>2, <3>1, FS_CardinalityType
  <2> QED BY <1>1, <2>1
<1>6. Apart(S, call.chosen) <=>
         (\A k \in call.chosen : ~ScopesConflict(j, k)) /\ Apart(S \ {a}, call.chosen \cup {j})
  <2>1. \A k, l : ScopesConflict(k, l) <=> ScopesConflict(l, k)
    BY DEF ScopesConflict
  <2> QED BY <2>1 DEF Apart
<1>7. o \in Options(j)
  BY <1>2, PickIs
<1>8. o \in OpenTo(call, j) <=> Room(call.left, j, o) /\ \A k \in call.chosen : ~ScopesConflict(j, k)
  BY <1>7 DEF OpenTo
<1>9. Fits(S \ {a}, Taking(call, j, o)) <=>
         /\ Cardinality(S \ {a}) <= call.lanes - 1
         /\ Apart(S \ {a}, call.chosen \cup {j})
         /\ Amounts(S \ {a}, Spent(call.left, j, o))
  BY DEF Fits, Taking
<1> QED BY <1>4, <1>5, <1>6, <1>8, <1>9 DEF Fits

LEMMA NothingFits ==
    ASSUME asked \in PlanInputs, NEW call \in Calls
    PROVE  /\ {} \in PickSets(call.todo) /\ Fits({}, call) /\ SumOver(ValueOf, {}) = 0
           /\ call.todo = {} \/ call.lanes = 0 => \A S \in PickSets(call.todo) : Fits(S, call) => S = {}
<1>1. /\ call.todo \in SUBSET Considered /\ call.left \in Stocks /\ call.lanes \in Nat
  BY DEF Calls
<1>2. IsFiniteSet({}) /\ Cardinality({}) = 0
  BY FS_EmptySet
<1>3. \A f : SumOver(f, {}) = 0
  BY <1>2, SumType
<1>4. Amounts({}, call.left)
  <2>1. /\ call.left.cpu \in [HostIds -> Nat] /\ call.left.ram \in [HostIds -> Nat]
        /\ call.left.disk \in [HostIds -> Nat] /\ call.left.gpu \in [HostIds -> Nat]
        /\ call.left.pool \in [PoolIds -> Nat] /\ call.left.lane \in [HostIds -> Nat]
    BY <1>1 DEF Stocks
  <2>2. ASSUME NEW at, NEW amount, NEW D, NEW have \in [D -> Nat]
        PROVE  Within({}, at, amount, have) /\ RoomFor({}, at, have)
    <3>1. \A x : {b \in {} : at[b] = x} = {} /\ {b \in {} : x \in at[b]} = {}
      OBVIOUS
    <3>2. \A x \in DOMAIN have : 0 <= have[x]
      OBVIOUS
    <3> QED BY <1>2, <1>3, <3>1, <3>2 DEF Within, RoomFor
  <2>3. Paid({}, PoolOf, QuotaOf, NotAfter, MayDraw, call.left.budget)
    BY DEF Paid
  <2> QED BY <2>1, <2>2, <2>3 DEF Amounts
<1>5. Fits({}, call)
  BY <1>1, <1>2, <1>4 DEF Fits, Apart
<1>6. ASSUME NEW S \in PickSets(call.todo), Fits(S, call), call.todo = {} \/ call.lanes = 0 PROVE S = {}
  <2>1. CASE call.todo = {}
    BY <2>1 DEF PickSets
  <2>2. CASE call.lanes = 0
    <3>1. IsFiniteSet(S) /\ Cardinality(S) <= 0
      BY <1>1, <1>6, <2>2, ChoiceIsFinite DEF Fits
    <3>2. Cardinality(S) = 0
      BY <3>1, FS_CardinalityType
    <3> QED BY <3>1, <3>2, FS_EmptySet
  <2> QED BY <1>6, <2>1, <2>2
<1> QED BY <1>3, <1>5, <1>6 DEF PickSets

-----------------------------------------------------------------------------
(* DispatchPlanner: solve finds the best that fits *)

Answers == [score : Int, picks : SUBSET Picks]

\* The best selection that fits into a call.
BestFor(call, r) ==
    /\ r \in Answers
    /\ r.picks \in PickSets(call.todo) /\ Fits(r.picks, call)
    /\ r.score = SumOver(ValueOf, r.picks)
    /\ \A S \in PickSets(call.todo) : Fits(S, call) => SumOver(ValueOf, S) <= r.score

LEMMA OneFewer ==
    ASSUME NEW T, IsFiniteSet(T), NEW j \in T
    PROVE  Cardinality(T \ {j}) < Cardinality(T)
<1>1. Cardinality(T \ {j}) = Cardinality(T) - 1
  BY FS_RemoveElement
<1>2. Cardinality(T) \in Nat
  BY FS_CardinalityType
<1> QED BY <1>1, <1>2

\* The highest of a finite set of answers.
LEMMA HighestIs ==
    ASSUME NEW found, IsFiniteSet(found), found # {}, \A x \in found : x.score \in Int
    PROVE  Highest(found) \in found /\ \A x \in found : x.score <= Highest(found).score
<1> DEFINE scores == {x.score : x \in found}
           score == [x \in found |-> x.score]
<1>1. score \in Surjection(found, scores)
  BY DEF Surjection
<1>2. scores # {} /\ \A n \in scores : n \in Int
  OBVIOUS
<1>3. \A x \in found : x.score \in scores
  OBVIOUS
<1>4. \A n \in scores : \E x \in found : n = x.score
  OBVIOUS
<1> HIDE DEF scores, score
<1>5. IsFiniteSet(scores)
  BY <1>1, FS_Surjection
<1>6. Max(scores) \in scores /\ \A n \in scores : n <= Max(scores)
  BY <1>2, <1>5, GreatestOf
<1>7. PICK best \in found : \A x \in found : x.score <= best.score
  BY <1>3, <1>4, <1>6
<1>8. \A x \in found : best.score >= x.score
  BY <1>7
<1>9. Highest(found) \in found /\ \A x \in found : Highest(found).score >= x.score
  BY <1>8 DEF Highest
<1> QED BY <1>9

\* What a call chooses from.
Found(call, solve) ==
    LET j == FirstJob(call.todo)
    IN  {solve[Skipping(call, j)]} \cup {Adding(j, o, solve[Taking(call, j, o)]) : o \in OpenTo(call, j)}

LEMMA FoundIsFinite ==
    ASSUME asked \in PlanInputs, NEW call, NEW solve
    PROVE  IsFiniteSet(Found(call, solve)) /\ Found(call, solve) # {}
<1> DEFINE j == FirstJob(call.todo)
           others == {Adding(j, o, solve[Taking(call, j, o)]) : o \in OpenTo(call, j)}
           add == [o \in OpenTo(call, j) |-> Adding(j, o, solve[Taking(call, j, o)])]
<1>1. add \in Surjection(OpenTo(call, j), others)
  BY DEF Surjection
<1>2. IsFiniteSet(OpenTo(call, j))
  <2> HIDE DEF j
  <2>1. OpenTo(call, j) \in SUBSET Options(j) /\ IsFiniteSet(Options(j))
    BY OptionsAreFinite DEF OpenTo
  <2> QED BY <2>1, FS_Subset
<1>3. Found(call, solve) = others \cup {solve[Skipping(call, j)]}
  BY DEF Found
<1> HIDE DEF j, others, add
<1>4. IsFiniteSet(others)
  BY <1>1, <1>2, FS_Surjection
<1>5. IsFiniteSet(others \cup {solve[Skipping(call, j)]})
  BY <1>4, FS_AddElement
<1> QED BY <1>3, <1>5

LEMMA SolveStepIs ==
    ASSUME NEW call, NEW solve
    PROVE  SolveStep(call, solve) =
              IF call.todo = {} \/ call.lanes = 0 THEN [score |-> 0, picks |-> {}] ELSE Highest(Found(call, solve))
BY DEF SolveStep, Found

\* With an option for its job an answer stays one, and is worth that much more.
LEMMA AddingIs ==
    ASSUME asked \in PlanInputs, NEW a \in Picks, NEW j, j = a.task, NEW o, o = <<a.pool, a.host>>,
           NEW rest \in Answers
    PROVE  /\ Adding(j, o, rest) \in Answers
           /\ Adding(j, o, rest).score = ValueOf[a] + rest.score
<1>1. a = [task |-> a.task, pool |-> a.pool, host |-> a.host]
  BY DEF Picks
<1>2. o[1] = a.pool /\ o[2] = a.host
  OBVIOUS
<1>3. Adding(j, o, rest) = [score |-> Value(j, o) + rest.score, picks |-> {a} \cup rest.picks]
  BY <1>1, <1>2 DEF Adding
<1>4. ValueOf[a] = Value(j, o) /\ ValueOf[a] \in Int
  BY PickAmounts
<1>5. rest.score \in Int /\ rest.picks \in SUBSET Picks
  BY DEF Answers
<1> QED BY <1>3, <1>4, <1>5 DEF Answers

\* Answers for what a call goes on with give it one.
LEMMA StepAnswers ==
    ASSUME asked \in PlanInputs, NEW call \in Calls, NEW solve,
           \A c \in Calls : Cardinality(c.todo) < Cardinality(call.todo) => solve[c] \in Answers
    PROVE  SolveStep(call, solve) \in Answers
<1>1. CASE call.todo = {} \/ call.lanes = 0
  <2>1. [score |-> 0, picks |-> {}] \in Answers
    BY DEF Answers
  <2> QED BY <1>1, <2>1, SolveStepIs
<1>2. CASE ~(call.todo = {} \/ call.lanes = 0)
  <2>1. PICK j : j = FirstJob(call.todo)
    OBVIOUS
  <2>2. Cardinality(call.todo \ {j}) < Cardinality(call.todo)
    <3>1. IsFiniteSet(call.todo) /\ j \in call.todo
      BY <1>2, <2>1, GoesOn, ConsideredIs, FS_Subset DEF Calls
    <3> QED BY <3>1, OneFewer
  <2>3. solve[Skipping(call, j)] \in Answers
    BY <1>2, <2>1, <2>2, GoesOn
  <2>4. ASSUME NEW o \in OpenTo(call, j) PROVE Adding(j, o, solve[Taking(call, j, o)]) \in Answers
    <3>1. PICK a : a = [task |-> j, pool |-> o[1], host |-> o[2]]
      OBVIOUS
    <3>2. a \in Picks /\ o = <<a.pool, a.host>> /\ a.task = j /\ Taking(call, j, o) \in Calls
          /\ Taking(call, j, o).todo = call.todo \ {j}
      BY <1>2, <2>1, <3>1, GoesOnTaking
    <3>3. solve[Taking(call, j, o)] \in Answers
      BY <2>2, <3>2
    <3> QED BY <3>2, <3>3, AddingIs
  <2>5. \A x \in Found(call, solve) : x \in Answers
    BY <2>1, <2>3, <2>4 DEF Found
  <2>6. Highest(Found(call, solve)) \in Found(call, solve)
    <3>1. \A x \in Found(call, solve) : x.score \in Int
      BY <2>5 DEF Answers
    <3> QED BY <3>1, FoundIsFinite, HighestIs
  <2> QED BY <1>2, <2>5, <2>6, SolveStepIs
<1> QED BY <1>1, <1>2

\* The best of what a call goes on with make its own.
LEMMA StepIsBest ==
    ASSUME asked \in PlanInputs, NEW call \in Calls, NEW solve,
           \A c \in Calls : Cardinality(c.todo) < Cardinality(call.todo) => BestFor(c, solve[c])
    PROVE  BestFor(call, SolveStep(call, solve))
<1>1. CASE call.todo = {} \/ call.lanes = 0
  <2>1. PICK r : r = [score |-> 0, picks |-> {}]
    OBVIOUS
  <2>2. r \in Answers /\ r.score = 0 /\ r.picks = {}
    BY <2>1 DEF Answers
  <2>3. SolveStep(call, solve) = r
    BY <1>1, <2>1, SolveStepIs
  <2>4. {} \in PickSets(call.todo) /\ Fits({}, call) /\ SumOver(ValueOf, {}) = 0
    BY NothingFits
  <2>5. \A S \in PickSets(call.todo) : Fits(S, call) => S = {}
    BY <1>1, NothingFits
  <2>6. \A S \in PickSets(call.todo) : Fits(S, call) => SumOver(ValueOf, S) <= r.score
    <3> SUFFICES ASSUME NEW S \in PickSets(call.todo), Fits(S, call) PROVE SumOver(ValueOf, S) <= r.score
      OBVIOUS
    <3>1. S = {}
      BY <2>5
    <3>2. SumOver(ValueOf, S) = 0
      BY <2>4, <3>1
    <3> QED BY <2>2, <3>2
  <2>7. BestFor(call, r)
    BY <2>2, <2>4, <2>6 DEF BestFor
  <2> QED BY <2>3, <2>7
<1>2. CASE ~(call.todo = {} \/ call.lanes = 0)
  <2>1. PICK j : j = FirstJob(call.todo)
    OBVIOUS
  <2>2. PICK r : r = SolveStep(call, solve)
    OBVIOUS
  <2>3. Cardinality(call.todo \ {j}) < Cardinality(call.todo) /\ call.todo \in SUBSET Considered /\ j \in call.todo
    <3>1. IsFiniteSet(call.todo) /\ j \in call.todo /\ call.todo \in SUBSET Considered
      BY <1>2, <2>1, GoesOn, ConsideredIs, FS_Subset DEF Calls
    <3> QED BY <3>1, OneFewer
  <2>4. PICK skip : skip = solve[Skipping(call, j)]
    OBVIOUS
  <2>5. BestFor(Skipping(call, j), skip) /\ Skipping(call, j).todo = call.todo \ {j}
    BY <1>2, <2>1, <2>3, <2>4, GoesOn
  <2>6. \A S : Fits(S, Skipping(call, j)) <=> Fits(S, call)
    BY <1>2, <2>1, GoesOn DEF Fits
  <2>7. ASSUME NEW a \in Picks, NEW o, o = <<a.pool, a.host>>, a.task = j, o \in OpenTo(call, j)
        PROVE  /\ BestFor(Taking(call, j, o), solve[Taking(call, j, o)])
               /\ Taking(call, j, o).todo = call.todo \ {j}
    <3>1. o[1] = a.pool /\ o[2] = a.host /\ a = [task |-> j, pool |-> o[1], host |-> o[2]]
      BY <2>7 DEF Picks
    <3>2. Taking(call, j, o) \in Calls /\ Taking(call, j, o).todo = call.todo \ {j}
      BY <1>2, <2>1, <2>7, <3>1, GoesOnTaking
    <3> QED BY <2>3, <3>2
  <2>8. ASSUME NEW o \in OpenTo(call, j)
        PROVE  \E a \in Picks : o = <<a.pool, a.host>> /\ a.task = j
    <3>1. PICK a : a = [task |-> j, pool |-> o[1], host |-> o[2]]
      OBVIOUS
    <3> QED BY <1>2, <2>1, <3>1, GoesOnTaking
  \* Each answer found fits.
  <2>9. ASSUME NEW x \in Found(call, solve)
        PROVE  /\ x \in Answers /\ x.picks \in PickSets(call.todo) /\ Fits(x.picks, call)
               /\ x.score = SumOver(ValueOf, x.picks)
    <3>1. x = skip \/ \E o \in OpenTo(call, j) : x = Adding(j, o, solve[Taking(call, j, o)])
      BY <2>1, <2>4 DEF Found
    <3>2. CASE x = skip
      BY <2>5, <2>6, <3>2 DEF BestFor, PickSets
    <3>3. ASSUME NEW o \in OpenTo(call, j), x = Adding(j, o, solve[Taking(call, j, o)])
          PROVE  /\ x \in Answers /\ x.picks \in PickSets(call.todo) /\ Fits(x.picks, call)
                 /\ x.score = SumOver(ValueOf, x.picks)
      <4>1. PICK a \in Picks : o = <<a.pool, a.host>> /\ a.task = j
        BY <2>8
      <4>2. PICK rest : rest = solve[Taking(call, j, o)]
        OBVIOUS
      <4>3. BestFor(Taking(call, j, o), rest) /\ Taking(call, j, o).todo = call.todo \ {j}
        BY <2>7, <4>1, <4>2
      <4>4. /\ rest \in Answers /\ rest.picks \in PickSets(call.todo \ {j}) /\ Fits(rest.picks, Taking(call, j, o))
            /\ rest.score = SumOver(ValueOf, rest.picks)
        BY <4>3 DEF BestFor
      <4>5. x \in Answers /\ x.picks = {a} \cup rest.picks /\ x.score = ValueOf[a] + rest.score
        <5>1. a \in Picks /\ j = a.task /\ o = <<a.pool, a.host>> /\ rest \in Answers
          BY <4>1, <4>4
        <5>2. x = Adding(j, o, rest)
          BY <3>3, <4>2
        <5>3. Adding(j, o, rest) \in Answers
          BY <5>1, AddingIs
        <5>4. Adding(j, o, rest).score = ValueOf[a] + rest.score
          BY <5>1, AddingIs
        <5>5. Adding(j, o, rest).picks = {a} \cup rest.picks
          <6>1. a = [task |-> j, pool |-> o[1], host |-> o[2]]
            BY <5>1 DEF Picks
          <6> QED BY <6>1 DEF Adding
        <5> QED BY <5>2, <5>3, <5>4, <5>5
      <4>6. x.picks \in PickSets(call.todo) /\ a \in x.picks /\ x.picks \ {a} = rest.picks
        BY <2>3, <4>1, <4>4, <4>5 DEF PickSets
      <4>7. Fits(x.picks, call)
        BY <1>2, <2>1, <4>1, <4>4, <4>6, OneMoreFits
      <4>8. x.score = SumOver(ValueOf, x.picks)
        <5>1. IsFiniteSet(x.picks) /\ \A b \in x.picks : ValueOf[b] \in Int
          BY <2>3, <4>6, ChoiceIsFinite, PickAmounts
        <5>2. SumOver(ValueOf, x.picks) = ValueOf[a] + SumOver(ValueOf, x.picks \ {a})
          BY <4>6, <5>1, SumOfRest
        <5> QED BY <4>4, <4>5, <4>6, <5>2
      <4> QED BY <4>5, <4>6, <4>7, <4>8
    <3> QED BY <3>1, <3>2, <3>3
  <2>10. r \in Found(call, solve) /\ \A x \in Found(call, solve) : x.score <= r.score
    <3>1. \A x \in Found(call, solve) : x.score \in Int
      BY <2>9 DEF Answers
    <3> QED BY <1>2, <2>2, <3>1, FoundIsFinite, HighestIs, SolveStepIs
  \* None that fits is worth more.
  <2>11. ASSUME NEW S \in PickSets(call.todo), Fits(S, call) PROVE SumOver(ValueOf, S) <= r.score
    <3>1. IsFiniteSet(S) /\ S \subseteq Picks /\ \A b \in S : ValueOf[b] \in Int
      BY <2>3, ChoiceIsFinite, PickAmounts
    <3>2. CASE \A a \in S : a.task # j
      <4>1. S \in PickSets(call.todo \ {j}) /\ Fits(S, Skipping(call, j))
        BY <2>6, <2>11, <3>2 DEF PickSets
      <4>2. SumOver(ValueOf, S) <= skip.score /\ skip.score \in Int
        BY <2>5, <4>1 DEF BestFor, Answers
      <4>3. skip.score <= r.score /\ r.score \in Int
        BY <2>1, <2>4, <2>9, <2>10 DEF Found, Answers
      <4>4. SumOver(ValueOf, S) \in Int
        BY <3>1, SumType
      <4> QED BY <4>2, <4>3, <4>4
    <3>3. CASE \E a \in S : a.task = j
      <4>1. PICK a \in S : a.task = j
        BY <3>3
      <4>2. PICK o : o = <<a.pool, a.host>>
        OBVIOUS
      <4>3. o \in OpenTo(call, j) /\ Fits(S \ {a}, Taking(call, j, o))
        BY <1>2, <2>1, <2>11, <4>1, <4>2, OneMoreFits
      <4>4. PICK rest : rest = solve[Taking(call, j, o)]
        OBVIOUS
      <4>5. BestFor(Taking(call, j, o), rest) /\ Taking(call, j, o).todo = call.todo \ {j}
        BY <2>7, <3>1, <4>1, <4>2, <4>3, <4>4
      <4>6. S \ {a} \in PickSets(call.todo \ {j})
        BY <4>1 DEF PickSets
      <4>7. SumOver(ValueOf, S \ {a}) <= rest.score /\ rest \in Answers
        BY <4>3, <4>5, <4>6 DEF BestFor
      <4>8. Adding(j, o, rest).score = ValueOf[a] + rest.score
        <5>1. a \in Picks /\ j = a.task /\ o = <<a.pool, a.host>> /\ rest \in Answers
          BY <3>1, <4>1, <4>2, <4>7
        <5> QED BY <5>1, AddingIs
      <4>9. Adding(j, o, rest).score <= r.score /\ r.score \in Int
        BY <2>1, <2>9, <2>10, <4>3, <4>4 DEF Found, Answers
      <4>10. SumOver(ValueOf, S) = ValueOf[a] + SumOver(ValueOf, S \ {a})
        BY <3>1, SumOfRest
      <4>11. SumOver(ValueOf, S \ {a}) \in Int /\ ValueOf[a] \in Int /\ rest.score \in Int
        <5>1. IsFiniteSet(S \ {a}) /\ \A b \in S \ {a} : ValueOf[b] \in Int
          BY <3>1, FS_Subset
        <5> QED BY <3>1, <4>7, <5>1, SumType DEF Answers
      <4> QED BY <4>7, <4>8, <4>9, <4>10, <4>11
    <3> QED BY <3>2, <3>3
  <2>12. BestFor(call, r)
    BY <2>9, <2>10, <2>11 DEF BestFor
  <2> QED BY <2>2, <2>12
<1> QED BY <1>1, <1>2

\* So solve is defined on every call, and finds the best for each.
LEMMA SolveIs ==
    ASSUME asked \in PlanInputs
    PROVE  \A call \in Calls : Solve[call] = SolveStep(call, Solve)
<1> DEFINE rank == [c \in Calls |-> Cardinality(c.todo)]
           N == Cardinality(Considered) + 1
           step == [x \in Calls \X [Calls -> Answers] |-> SolveStep(x[1], x[2])]
<1>1. \A c \in Calls : rank[c] = Cardinality(c.todo) /\ IsFiniteSet(c.todo) /\ rank[c] \in Nat /\ rank[c] < N
  <2>1. ASSUME NEW c \in Calls
        PROVE /\ IsFiniteSet(c.todo) /\ Cardinality(c.todo) \in Nat
              /\ Cardinality(c.todo) <= Cardinality(Considered) /\ Cardinality(Considered) \in Nat
    <3>1. c.todo \in SUBSET Considered /\ IsFiniteSet(Considered)
      BY ConsideredIs DEF Calls
    <3> QED BY <3>1, FS_Subset, FS_CardinalityType
  <2>2. \A c \in Calls : rank[c] = Cardinality(c.todo)
    OBVIOUS
  <2> HIDE DEF rank
  <2> QED BY <2>1, <2>2
<1>2. N \in Nat
  BY ConsideredIs, FS_CardinalityType
<1>3. \A c \in Calls : \A g \in [Calls -> Answers] : step[<<c, g>>] = SolveStep(c, g)
  OBVIOUS
<1> HIDE DEF rank, N, step
<1>4. Answers # {}
  <2>1. [score |-> 0, picks |-> {}] \in Answers
    BY DEF Answers
  <2> QED BY <2>1
<1>5. StepsInto(Calls, Answers, step)
  <2>1. ASSUME NEW c \in Calls, NEW g \in [Calls -> Answers] PROVE step[<<c, g>>] \in Answers
    <3>1. \A d \in Calls : g[d] \in Answers
      OBVIOUS
    <3> QED BY <1>3, <3>1, StepAnswers
  <2> QED BY <2>1 DEF StepsInto
<1>6. LooksLower(Calls, Answers, rank, step)
  <2>1. ASSUME NEW c \in Calls, NEW g \in [Calls -> Answers], NEW h \in [Calls -> Answers],
               \A d \in Calls : rank[d] < rank[c] => g[d] = h[d]
        PROVE  SolveStep(c, g) = SolveStep(c, h)
    <3>1. CASE c.todo = {} \/ c.lanes = 0
      BY <3>1, SolveStepIs
    <3>2. CASE ~(c.todo = {} \/ c.lanes = 0)
      <4>1. PICK j : j = FirstJob(c.todo)
        OBVIOUS
      <4>2. j \in c.todo /\ Skipping(c, j) \in Calls /\ Skipping(c, j).todo = c.todo \ {j}
        BY <3>2, <4>1, GoesOn
      <4>3. Cardinality(c.todo \ {j}) < Cardinality(c.todo)
        BY <1>1, <4>2, OneFewer
      <4>4. g[Skipping(c, j)] = h[Skipping(c, j)]
        BY <1>1, <2>1, <4>2, <4>3
      <4>5. ASSUME NEW o \in OpenTo(c, j) PROVE g[Taking(c, j, o)] = h[Taking(c, j, o)]
        <5>1. PICK a : a = [task |-> j, pool |-> o[1], host |-> o[2]]
          OBVIOUS
        <5>2. Taking(c, j, o) \in Calls /\ Taking(c, j, o).todo = c.todo \ {j}
          BY <3>2, <4>1, <5>1, GoesOnTaking
        <5> QED BY <1>1, <2>1, <4>3, <5>2
      <4>6. {Adding(j, o, g[Taking(c, j, o)]) : o \in OpenTo(c, j)}
              = {Adding(j, o, h[Taking(c, j, o)]) : o \in OpenTo(c, j)}
        BY <4>5
      <4>7. Found(c, g) = Found(c, h)
        BY <4>1, <4>4, <4>6 DEF Found
      <4> QED BY <3>2, <4>7, SolveStepIs
    <3> QED BY <3>1, <3>2
  <2> QED BY <1>3, <2>1 DEF LooksLower
<1>7. RanksBelow(Calls, rank, N)
  BY <1>1 DEF RanksBelow
<1>8. PICK f \in [Calls -> Answers] : Obeys(f, Calls, step)
  BY <1>2, <1>4, <1>5, <1>6, <1>7, RecursionEnds
<1>9. f = [c \in Calls |-> SolveStep(c, f)]
  <2>1. \A c \in Calls : f[c] = SolveStep(c, f)
    BY <1>3, <1>8 DEF Obeys
  <2> QED BY <2>1
<1>10. Solve = [c \in Calls |-> SolveStep(c, Solve)]
  BY <1>9 DEF Solve
<1> QED BY <1>10

LEMMA SolveFindsBest ==
    ASSUME asked \in PlanInputs
    PROVE  \A call \in Calls : BestFor(call, Solve[call])
<1> DEFINE Bad == {c \in Calls : ~BestFor(c, Solve[c])}
           rank == [c \in Calls |-> Cardinality(c.todo)]
<1>1. \A c \in Calls : rank[c] = Cardinality(c.todo) /\ rank[c] \in Nat
  <2>1. \A c \in Calls : rank[c] = Cardinality(c.todo) /\ c.todo \in SUBSET Considered
    BY DEF Calls
  <2> HIDE DEF rank
  <2>2. \A c \in Calls : IsFiniteSet(c.todo)
    BY <2>1, ConsideredIs, FS_Subset
  <2> QED BY <2>1, <2>2, FS_CardinalityType
<1>2. SUFFICES ASSUME Bad # {} PROVE FALSE
  OBVIOUS
<1>3. PICK c \in Bad : \A d \in Bad : rank[c] <= rank[d]
  <2>1. \A d \in Bad : rank[d] \in Nat
    BY <1>1
  <2> HIDE DEF rank, Bad
  <2> QED BY <1>2, <2>1, LeastOf
<1>4. c \in Calls /\ ~BestFor(c, Solve[c])
  OBVIOUS
<1>5. \A d \in Calls : Cardinality(d.todo) < Cardinality(c.todo) => BestFor(d, Solve[d])
  <2> SUFFICES ASSUME NEW d \in Calls, Cardinality(d.todo) < Cardinality(c.todo), ~BestFor(d, Solve[d]) PROVE FALSE
    OBVIOUS
  <2>1. d \in Bad
    OBVIOUS
  <2> HIDE DEF rank, Bad
  <2>2. rank[c] <= rank[d] /\ rank[d] < rank[c] /\ rank[c] \in Nat /\ rank[d] \in Nat
    BY <1>1, <1>3, <1>4, <2>1
  <2> QED BY <2>2
<1> HIDE DEF rank, Bad
<1> QED BY <1>4, <1>5, SolveIs, StepIsBest

-----------------------------------------------------------------------------
(* DispatchPlanner: what fits together *)

LEMMA SelectionsAreChoices ==
    ASSUME asked \in PlanInputs
    PROVE  Selections = PickSets(Considered)
<1> DEFINE none == <<0, 0>>
           all == [Considered -> (PoolIds \X HostIds) \cup {none}]
           given == {g \in all : \A j \in Considered : g[j] \in Options(j) \cup {none}}
           Of(f) == {[task |-> j, pool |-> f[j][1], host |-> f[j][2]] : j \in {k \in Considered : f[k] # none}}
<1>1. Selections = {Of(f) : f \in given}
  BY DEF Selections
<1>2. \A o \in PoolIds \X HostIds : o # none
  BY InputsTyped DEF PoolsTyped
<1>3. ASSUME NEW f \in given PROVE Of(f) \in PickSets(Considered)
  <2>1. ASSUME NEW a \in Of(f) PROVE a \in Picks
    <3>1. PICK j \in Considered : f[j] # none /\ a = [task |-> j, pool |-> f[j][1], host |-> f[j][2]]
      OBVIOUS
    <3>2. f[j] \in Options(j)
      BY <3>1
    <3>3. f[j] = <<f[j][1], f[j][2]>> /\ f[j][1] \in PoolIds /\ f[j][2] \in HostIds
      BY <3>2, OptionIs DEF MayTake
    <3>4. a.task = j /\ a.pool = f[j][1] /\ a.host = f[j][2] /\ a \in [task : Considered, pool : PoolIds, host : HostIds]
      BY <3>1, <3>3
    <3> QED BY <3>2, <3>3, <3>4 DEF Picks
  <2>2. \A a \in Of(f) : a.task \in Considered
    OBVIOUS
  <2>3. \A a, b \in Of(f) : a.task = b.task => a = b
    OBVIOUS
  <2> HIDE DEF Of
  <2> QED BY <2>1, <2>2, <2>3 DEF PickSets
<1>4. ASSUME NEW S \in PickSets(Considered) PROVE \E f \in given : S = Of(f)
  <2> DEFINE its(j) == CHOOSE a \in S : a.task = j
             f == [j \in Considered |-> IF \E a \in S : a.task = j THEN <<its(j).pool, its(j).host>> ELSE none]
  <2>1. /\ \A a \in S : a \in Picks /\ a.task \in Considered
        /\ \A a, b \in S : a.task = b.task => a = b
    BY DEF PickSets
  <2>2. \A a \in S : its(a.task) = a
    BY <2>1
  <2> HIDE DEF its
  <2>3. \A a \in S : f[a.task] = <<a.pool, a.host>>
    BY <2>1, <2>2
  <2>4. \A j \in Considered : (\A a \in S : a.task # j) => f[j] = none
    OBVIOUS
  <2>5. DOMAIN f = Considered /\ f = [j \in Considered |-> f[j]]
    OBVIOUS
  <2> HIDE DEF f
  <2>6. \A a \in S : /\ <<a.pool, a.host>> \in Options(a.task) /\ <<a.pool, a.host>> \in PoolIds \X HostIds
                     /\ a = [task |-> a.task, pool |-> a.pool, host |-> a.host]
    <3> SUFFICES ASSUME NEW a \in S
                 PROVE  /\ <<a.pool, a.host>> \in Options(a.task) /\ <<a.pool, a.host>> \in PoolIds \X HostIds
                        /\ a = [task |-> a.task, pool |-> a.pool, host |-> a.host]
      OBVIOUS
    <3>1. a \in [task : Considered, pool : PoolIds, host : HostIds] /\ <<a.pool, a.host>> \in Options(a.task)
      BY <2>1 DEF Picks
    <3> QED BY <3>1
  <2>7. ASSUME NEW j \in Considered
        PROVE  f[j] \in Options(j) \cup {none} /\ f[j] \in (PoolIds \X HostIds) \cup {none}
    <3>1. CASE \E a \in S : a.task = j
      BY <2>3, <2>6, <3>1
    <3>2. CASE \A a \in S : a.task # j
      BY <2>4, <3>2
    <3> QED BY <3>1, <3>2
  <2>8. f \in given
    BY <2>5, <2>7
  <2>9. ASSUME NEW a \in S PROVE a \in Of(f)
    <3>1. f[a.task] # none /\ a.task \in Considered
      BY <1>2, <2>1, <2>3, <2>6
    <3>2. a = [task |-> a.task, pool |-> f[a.task][1], host |-> f[a.task][2]]
      <4>1. f[a.task] = <<a.pool, a.host>>
        BY <2>3
      <4>2. f[a.task][1] = a.pool /\ f[a.task][2] = a.host
        BY <4>1
      <4>3. a = [task |-> a.task, pool |-> a.pool, host |-> a.host]
        BY <2>6
      <4> QED BY <4>2, <4>3
    <3> QED BY <3>1, <3>2
  <2>10. ASSUME NEW a \in Of(f) PROVE a \in S
    <3>1. PICK j \in Considered : f[j] # none /\ a = [task |-> j, pool |-> f[j][1], host |-> f[j][2]]
      BY <2>10
    <3>2. PICK b \in S : b.task = j
      BY <2>4, <3>1
    <3>3. f[j] = <<b.pool, b.host>>
      BY <2>3, <3>2
    <3>4. a = [task |-> b.task, pool |-> b.pool, host |-> b.host]
      BY <3>1, <3>2, <3>3
    <3>5. a = b
      BY <2>6, <3>4
    <3> QED BY <3>5
  <2>11. S = Of(f)
    BY <2>9, <2>10
  <2> QED BY <2>8, <2>11
<1> HIDE DEF Of, given
<1> QED BY <1>1, <1>3, <1>4

LEMMA FunctionSum ==
    ASSUME NEW f, NEW S
    PROVE  SumFunctionOnSet(f, S) = SumOver(f, S)
BY DEF SumFunctionOnSet, SumFunction, FoldFunctionOnSet, SumOver, MapThenSumSet

LEMMA WorthIs ==
    ASSUME asked \in PlanInputs, NEW S \in PickSets(Considered)
    PROVE  Worth(S) = SumOver(ValueOf, S)
<1> DEFINE f == [a \in S |-> Value(a.task, <<a.pool, a.host>>)]
<1>1. IsFiniteSet(S) /\ S \subseteq Picks
  BY ChoiceIsFinite
<1>2. \A a \in S : ValueOf[a] \in Int /\ f[a] = ValueOf[a]
  BY <1>1, PickAmounts
<1>3. Worth(S) = SumOver(f, S)
  BY FunctionSum DEF Worth
<1> HIDE DEF f
<1> QED BY <1>1, <1>2, <1>3, SumsAgree

\* Sums of amounts over part of a selection.
LEMMA PartSum ==
    ASSUME NEW S, IsFiniteSet(S), NEW amount, \A a \in S : amount[a] \in Nat,
           NEW f, \A a \in S : f[a] = amount[a], NEW T \in SUBSET S
    PROVE  SumFunctionOnSet(f, T) = SumOver(amount, T)
<1>1. IsFiniteSet(T) /\ \A a \in T : amount[a] \in Int /\ f[a] = amount[a]
  BY FS_Subset
<1>2. SumOver(f, T) = SumOver(amount, T)
  BY <1>1, SumsAgree
<1> QED BY <1>2, FunctionSum

LEMMA FitTogetherIs ==
    ASSUME asked \in PlanInputs, NEW S \in PickSets(Considered)
    PROVE  FitTogether(S) <=> Fits(S, AllOpen)
<1>1. IsFiniteSet(S) /\ S \subseteq Picks
  BY ChoiceIsFinite
<1>2. \A a \in S : /\ CpuOf[a] = a.task.cpu /\ RamOf[a] = Max({1, a.task.ram}) /\ DiskOf[a] = Max({1, a.task.disk})
                   /\ GpuOf[a] = a.task.gpu /\ QuotaOf[a] = Cost(a.task, a.pool)
                   /\ HostOf[a] = a.host /\ PoolOf[a] = a.pool /\ OnePoolOf[a] = {a.pool}
                   /\ LanesTaken[a] = LanesOf(a.pool, a.host)
                   /\ CpuOf[a] \in Nat /\ RamOf[a] \in Nat /\ DiskOf[a] \in Nat /\ GpuOf[a] \in Nat
                   /\ QuotaOf[a] \in Nat
  BY <1>1, PickAmounts
<1>3. \A a \in S : a.pool \in PoolIds /\ Open(a.pool) /\ a \in Picks
  BY <1>1, PickIs DEF MayTake
<1>4. /\ Stock.cpu = [h \in HostIds |-> Max({0, HostAt(h).cpu})]
      /\ Stock.ram = [h \in HostIds |-> Max({1, HostAt(h).ram})]
      /\ Stock.disk = [h \in HostIds |-> Max({1, DiskFree(h)})]
      /\ Stock.gpu = [h \in HostIds |-> Len(HostAt(h).gpus)]
      /\ Stock.lane = [h \in HostIds |-> HostSlots(h)]
      /\ Stock.pool = [p \in PoolIds |-> IF Open(p) THEN PoolSlots(p) ELSE 0]
      /\ Stock.budget = [p \in PoolIds |-> IF Open(p) THEN Budget(p) ELSE 0]
  BY DEF Stock
<1> DEFINE here(h) == {a \in S : a.host = h}
<1>5. \A h : here(h) \in SUBSET S /\ here(h) = {b \in S : HostOf[b] = h}
  BY <1>2
<1>6. Within(S, HostOf, CpuOf, Stock.cpu) <=>
         \A h \in HostIds : SumFunctionOnSet([a \in S |-> a.task.cpu], here(h)) <= Max({0, HostAt(h).cpu})
  <2> DEFINE f == [a \in S |-> a.task.cpu]
  <2>1. (\A a \in S : f[a] = CpuOf[a]) /\ \A a \in S : CpuOf[a] \in Nat
    BY <1>2
  <2> HIDE DEF f
  <2>2. \A h : SumFunctionOnSet(f, here(h)) = SumOver(CpuOf, here(h))
    BY <1>1, <1>5, <2>1, PartSum
  <2>3. DOMAIN Stock.cpu = HostIds /\ \A h \in HostIds : Stock.cpu[h] = Max({0, HostAt(h).cpu})
    BY <1>4
  <2> HIDE DEF here
  <2>4. Within(S, HostOf, CpuOf, Stock.cpu) <=> \A h \in HostIds : SumFunctionOnSet(f, here(h)) <= Max({0, HostAt(h).cpu})
    BY <1>5, <2>2, <2>3 DEF Within
  <2> QED BY <2>4 DEF f
<1>7. Within(S, HostOf, RamOf, Stock.ram) <=>
         \A h \in HostIds : SumFunctionOnSet([a \in S |-> Max({1, a.task.ram})], here(h)) <= Max({1, HostAt(h).ram})
  <2> DEFINE f == [a \in S |-> Max({1, a.task.ram})]
  <2>1. (\A a \in S : f[a] = RamOf[a]) /\ \A a \in S : RamOf[a] \in Nat
    BY <1>2
  <2> HIDE DEF f
  <2>2. \A h : SumFunctionOnSet(f, here(h)) = SumOver(RamOf, here(h))
    BY <1>1, <1>5, <2>1, PartSum
  <2>3. DOMAIN Stock.ram = HostIds /\ \A h \in HostIds : Stock.ram[h] = Max({1, HostAt(h).ram})
    BY <1>4
  <2> HIDE DEF here
  <2>4. Within(S, HostOf, RamOf, Stock.ram) <=> \A h \in HostIds : SumFunctionOnSet(f, here(h)) <= Max({1, HostAt(h).ram})
    BY <1>5, <2>2, <2>3 DEF Within
  <2> QED BY <2>4 DEF f
<1>8. Within(S, HostOf, DiskOf, Stock.disk) <=>
         \A h \in HostIds : SumFunctionOnSet([a \in S |-> Max({1, a.task.disk})], here(h)) <= Max({1, DiskFree(h)})
  <2> DEFINE f == [a \in S |-> Max({1, a.task.disk})]
  <2>1. (\A a \in S : f[a] = DiskOf[a]) /\ \A a \in S : DiskOf[a] \in Nat
    BY <1>2
  <2> HIDE DEF f
  <2>2. \A h : SumFunctionOnSet(f, here(h)) = SumOver(DiskOf, here(h))
    BY <1>1, <1>5, <2>1, PartSum
  <2>3. DOMAIN Stock.disk = HostIds /\ \A h \in HostIds : Stock.disk[h] = Max({1, DiskFree(h)})
    BY <1>4
  <2> HIDE DEF here
  <2>4. Within(S, HostOf, DiskOf, Stock.disk) <=> \A h \in HostIds : SumFunctionOnSet(f, here(h)) <= Max({1, DiskFree(h)})
    BY <1>5, <2>2, <2>3 DEF Within
  <2> QED BY <2>4 DEF f
<1>9. Within(S, HostOf, GpuOf, Stock.gpu) <=>
         \A h \in HostIds : SumFunctionOnSet([a \in S |-> a.task.gpu], here(h)) <= Len(HostAt(h).gpus)
  <2> DEFINE f == [a \in S |-> a.task.gpu]
  <2>1. (\A a \in S : f[a] = GpuOf[a]) /\ \A a \in S : GpuOf[a] \in Nat
    BY <1>2
  <2> HIDE DEF f
  <2>2. \A h : SumFunctionOnSet(f, here(h)) = SumOver(GpuOf, here(h))
    BY <1>1, <1>5, <2>1, PartSum
  <2>3. DOMAIN Stock.gpu = HostIds /\ \A h \in HostIds : Stock.gpu[h] = Len(HostAt(h).gpus)
    BY <1>4
  <2> HIDE DEF here
  <2>4. Within(S, HostOf, GpuOf, Stock.gpu) <=> \A h \in HostIds : SumFunctionOnSet(f, here(h)) <= Len(HostAt(h).gpus)
    BY <1>5, <2>2, <2>3 DEF Within
  <2> QED BY <2>4 DEF f
<1>10. RoomFor(S, LanesTaken, Stock.lane) <=>
         \A h \in HostIds : Cardinality({a \in S : h \in {a.host, AgentHost(a.pool)}}) <= HostSlots(h)
  <2>1. DOMAIN Stock.lane = HostIds /\ \A h \in HostIds : Stock.lane[h] = HostSlots(h)
    BY <1>4
  <2>2. \A h : {b \in S : h \in LanesTaken[b]} = {a \in S : h \in {a.host, AgentHost(a.pool)}}
    BY <1>2 DEF LanesOf
  <2> QED BY <2>1, <2>2 DEF RoomFor
<1>11. RoomFor(S, OnePoolOf, Stock.pool) <=>
         \A p \in PoolIds : Cardinality({a \in S : a.pool = p}) <= PoolSlots(p)
  <2> DEFINE On(p) == {a \in S : a.pool = p}
  <2>1. DOMAIN Stock.pool = PoolIds /\ \A p \in PoolIds : Stock.pool[p] = IF Open(p) THEN PoolSlots(p) ELSE 0
    BY <1>4
  <2>2. \A p : {b \in S : p \in OnePoolOf[b]} = On(p)
    BY <1>2
  <2>3. \A p \in PoolIds : ~Open(p) => On(p) = {}
    BY <1>3
  <2>4. \A p \in PoolIds : PoolSlots(p) \in Nat
    BY PoolOffersTyped
  <2> HIDE DEF On
  <2>5. \A p \in PoolIds : Cardinality(On(p)) <= Stock.pool[p] <=> Cardinality(On(p)) <= PoolSlots(p)
    <3>1. Cardinality({}) = 0
      BY FS_EmptySet
    <3> QED BY <2>1, <2>3, <2>4, <3>1
  <2>6. RoomFor(S, OnePoolOf, Stock.pool) <=> \A p \in PoolIds : Cardinality(On(p)) <= PoolSlots(p)
    BY <2>1, <2>2, <2>5 DEF RoomFor
  <2> QED BY <2>6 DEF On
<1>12. Paid(S, PoolOf, QuotaOf, NotAfter, MayDraw, Stock.budget) <=>
         \A a \in S :
            \/ MayDrawReserve(a.task)
            \/ SumFunctionOnSet([b \in S |-> Cost(b.task, b.pool)],
                    {b \in S : b.pool = a.pool /\ ~Before(a.task, b.task)}) <= Budget(a.pool)
  <2> DEFINE f == [b \in S |-> Cost(b.task, b.pool)]
             upto(a) == {b \in S : b.pool = a.pool /\ ~Before(a.task, b.task)}
  <2>1. (\A a \in S : f[a] = QuotaOf[a]) /\ \A a \in S : QuotaOf[a] \in Nat
    BY <1>2
  <2>2. \A a \in S : upto(a) \in SUBSET S /\ upto(a) = Earlier(S, PoolOf, NotAfter, a)
    BY <1>2, <1>3 DEF Earlier, NotAfter
  <2>3. \A a \in S : Stock.budget[PoolOf[a]] = Budget(a.pool)
    <3>1. Stock.budget = [p \in PoolIds |-> IF Open(p) THEN Budget(p) ELSE 0]
      BY <1>4
    <3>2. \A a \in S : PoolOf[a] = a.pool /\ a.pool \in PoolIds /\ Open(a.pool)
      BY <1>2, <1>3
    <3> QED BY ONLY <3>1, <3>2
  <2>4. \A a \in S : a \in MayDraw <=> MayDrawReserve(a.task)
    BY <1>3 DEF MayDraw
  <2> HIDE DEF f, upto
  <2>5. \A a \in S : SumFunctionOnSet(f, upto(a)) = SumOver(QuotaOf, Earlier(S, PoolOf, NotAfter, a))
    BY <1>1, <2>1, <2>2, PartSum
  <2>6. Paid(S, PoolOf, QuotaOf, NotAfter, MayDraw, Stock.budget) <=>
           \A a \in S : MayDrawReserve(a.task) \/ SumFunctionOnSet(f, upto(a)) <= Budget(a.pool)
    BY <2>3, <2>4, <2>5 DEF Paid
  <2> QED BY <2>6 DEF f, upto
<1>13. AllOpen.left = Stock /\ AllOpen.chosen = {} /\ AllOpen.lanes = MaxLanes
  BY DEF AllOpen
<1>14. Fits(S, AllOpen) <=>
          /\ Cardinality(S) <= MaxLanes
          /\ \A a, b \in S : a # b => ~ScopesConflict(a.task, b.task)
          /\ Amounts(S, Stock)
  BY <1>13 DEF Fits, Apart
<1>15. Amounts(S, Stock) <=>
          /\ \A h \in HostIds :
                /\ SumFunctionOnSet([a \in S |-> a.task.cpu], here(h)) <= Max({0, HostAt(h).cpu})
                /\ SumFunctionOnSet([a \in S |-> Max({1, a.task.ram})], here(h)) <= Max({1, HostAt(h).ram})
                /\ SumFunctionOnSet([a \in S |-> Max({1, a.task.disk})], here(h)) <= Max({1, DiskFree(h)})
                /\ SumFunctionOnSet([a \in S |-> a.task.gpu], here(h)) <= Len(HostAt(h).gpus)
                /\ Cardinality({a \in S : h \in {a.host, AgentHost(a.pool)}}) <= HostSlots(h)
          /\ \A p \in PoolIds : Cardinality({a \in S : a.pool = p}) <= PoolSlots(p)
          /\ \A a \in S :
                \/ MayDrawReserve(a.task)
                \/ SumFunctionOnSet([b \in S |-> Cost(b.task, b.pool)],
                        {b \in S : b.pool = a.pool /\ ~Before(a.task, b.task)}) <= Budget(a.pool)
  BY <1>6, <1>7, <1>8, <1>9, <1>10, <1>11, <1>12, Zenon DEF Amounts
<1> QED BY <1>14, <1>15, Zenon DEF FitTogether

-----------------------------------------------------------------------------
(* DispatchPlanner: plans *)

\* What PlanIsBestFit asks of a plan.
BestFit(plan) ==
    /\ plan.picks \in Selections /\ FitTogether(plan.picks)
    /\ plan.score = Worth(plan.picks)
    /\ \A S \in Selections : FitTogether(S) => Worth(S) <= plan.score
    /\ \A a \in plan.picks :
          /\ a.task.needs \subseteq asked.done
          /\ PoolAt(a.pool).provider = "opencode" =>
                Model(a.task, a.pool) \in a.task.approved \cup Range(a.task.exact)
          /\ PoolAt(a.pool).remaining = Missing => PoolAt(a.pool).pilotCap > 0

\* What is spent of a shared subscription was approved.
LEMMA ModelIsApproved ==
    ASSUME asked \in PlanInputs, NEW j \in asked.tasks, NEW p \in PoolIds,
           PoolAt(p).provider = "opencode", Model(j, p) # Missing
    PROVE  Model(j, p) \in j.approved \cup Range(j.exact)
<1> DEFINE preferred == Preferred(j, p)
           fit == {i \in DOMAIN preferred : /\ EligibleModel(j, p, preferred[i])
                                            /\ MustApprove(j, p) => preferred[i] \in j.approved}
           others == {m \in j.approved \ Range(preferred) : EligibleModel(j, p, m)}
<1>1. j.approved \in SUBSET Nat /\ PoolAt(p).roleModels \in Seq(Nat)
  BY InputsTyped DEF JobsTyped, PoolsTyped
<1>2. fit \in SUBSET Nat /\ others \in SUBSET j.approved /\ others \in SUBSET Nat
  <2>1. DOMAIN preferred \in SUBSET Nat
    <3>1. \A x : DOMAIN <<x>> = 1..1
      OBVIOUS
    <3>2. DOMAIN PoolAt(p).roleModels \in SUBSET Nat
      BY <1>1
    <3> QED BY <3>1, <3>2 DEF Preferred
  <2>2. fit \subseteq DOMAIN preferred /\ others \in SUBSET j.approved
    OBVIOUS
  <2> HIDE DEF fit, others, preferred
  <2> QED BY <1>1, <2>1, <2>2
<1>3. Model(j, p) = IF fit # {} THEN preferred[Min(fit)]
                    ELSE IF MustApprove(j, p) /\ others # {} THEN Min(others) ELSE Missing
  BY DEF Model
<1>4. CASE fit # {}
  <2>1. Min(fit) \in fit
    <3> HIDE DEF fit, others, preferred
    <3> QED BY <1>2, <1>4, LeastOfNumbers
  <2>2. Model(j, p) = preferred[Min(fit)] /\ (MustApprove(j, p) => preferred[Min(fit)] \in j.approved)
        /\ Min(fit) \in DOMAIN preferred
    BY <1>3, <1>4, <2>1
  <2>3. CASE MustApprove(j, p)
    BY <2>2, <2>3
  <2>4. CASE ~MustApprove(j, p)
    <3>1. p \in DOMAIN j.exact /\ preferred = <<j.exact[p]>>
      BY <2>4 DEF MustApprove, Preferred
    <3>2. DOMAIN <<j.exact[p]>> = 1..1 /\ <<j.exact[p]>>[1] = j.exact[p]
      OBVIOUS
    <3> HIDE DEF fit, others, preferred
    <3>3. Min(fit) = 1
      BY <2>2, <3>1, <3>2
    <3>4. Model(j, p) = j.exact[p]
      BY <2>2, <3>1, <3>2, <3>3
    <3>5. j.exact[p] \in Range(j.exact)
      BY <3>1 DEF Range
    <3> QED BY <3>4, <3>5
  <2> QED BY <2>3, <2>4
<1>5. CASE fit = {}
  <2>1. MustApprove(j, p) /\ others # {} /\ Model(j, p) = Min(others)
    BY <1>3, <1>5
  <2> HIDE DEF fit, others, preferred
  <2>2. Min(others) \in others
    BY <1>2, <2>1, LeastOfNumbers
  <2> QED BY <1>2, <2>1, <2>2
<1> QED BY <1>4, <1>5

LEMMA SolvedIsBestFit ==
    ASSUME asked \in PlanInputs
    PROVE  BestFit(Solve[AllOpen])
<1>1. AllOpen \in Calls /\ AllOpen.todo = Considered
  BY StockTyped, PlannerAssumption DEF AllOpen, Calls
<1>2. PICK best : best = Solve[AllOpen]
  OBVIOUS
<1>3. BestFor(AllOpen, best)
  BY <1>1, <1>2, SolveFindsBest
<1>4. /\ best.picks \in PickSets(Considered) /\ Fits(best.picks, AllOpen)
      /\ best.score = SumOver(ValueOf, best.picks)
      /\ \A S \in PickSets(Considered) : Fits(S, AllOpen) => SumOver(ValueOf, S) <= best.score
  BY <1>1, <1>3 DEF BestFor
<1>5. best.picks \in Selections /\ FitTogether(best.picks) /\ best.score = Worth(best.picks)
  BY <1>4, SelectionsAreChoices, FitTogetherIs, WorthIs
<1>6. ASSUME NEW S \in Selections, FitTogether(S) PROVE Worth(S) <= best.score
  <2>1. S \in PickSets(Considered)
    BY SelectionsAreChoices
  <2>2. Fits(S, AllOpen) /\ Worth(S) = SumOver(ValueOf, S)
    BY <1>6, <2>1, FitTogetherIs, WorthIs
  <2> QED BY <1>4, <2>1, <2>2
<1>7. ASSUME NEW a \in best.picks
      PROVE  /\ a.task.needs \subseteq asked.done
             /\ PoolAt(a.pool).provider = "opencode" =>
                   Model(a.task, a.pool) \in a.task.approved \cup Range(a.task.exact)
             /\ PoolAt(a.pool).remaining = Missing => PoolAt(a.pool).pilotCap > 0
  <2>1. a \in Picks
    BY <1>4 DEF PickSets
  <2>2. /\ a.task \in Considered /\ a.task \in asked.tasks /\ a.pool \in PoolIds
        /\ Open(a.pool) /\ Model(a.task, a.pool) # Missing
    BY <2>1, PickIs DEF MayTake
  <2> QED BY <2>2, ConsideredIs, ModelIsApproved DEF Open
<1> QED BY <1>2, <1>5, <1>6, <1>7 DEF BestFit

-----------------------------------------------------------------------------
(* DispatchPlanner: a plan does not change what was given *)

LEMMA SamePoolsAndHosts ==
    ASSUME asked' = asked
    PROVE  /\ PoolIds' = PoolIds /\ HostIds' = HostIds
           /\ \A p : PoolAt(p)' = PoolAt(p)
           /\ \A h : HostAt(h)' = HostAt(h)
BY DEF PoolIds, HostIds, PoolAt, HostAt

LEMMA SamePoolTakes ==
    ASSUME asked' = asked
    PROVE  /\ \A p : Open(p)' <=> Open(p)
           /\ \A p : Budget(p)' = Budget(p)
           /\ \A p : PoolSlots(p)' = PoolSlots(p)
           /\ \A p : AgentHost(p)' = AgentHost(p)
           /\ \A j, p : Model(j, p)' = Model(j, p)
           /\ \A j, p : Cost(j, p)' = Cost(j, p)
           /\ \A j, p : PoolTakes(j, p)' <=> PoolTakes(j, p)
<1>1. /\ PoolIds' = PoolIds /\ HostIds' = HostIds
      /\ \A p : PoolAt(p)' = PoolAt(p)
      /\ \A h : HostAt(h)' = HostAt(h)
  BY SamePoolsAndHosts
<1>2. \A p : UnknownPolicy(p)' = UnknownPolicy(p)
  BY <1>1 DEF UnknownPolicy
<1>3. \A p : Open(p)' <=> Open(p)
  BY <1>1, <1>2 DEF Open
<1>4. \A p : Budget(p)' = Budget(p)
  BY <1>1 DEF Budget
<1>5. \A p : PoolSlots(p)' = PoolSlots(p)
  BY <1>1, <1>2 DEF PoolSlots
<1>6. \A j, p, m : EligibleModel(j, p, m)' <=> EligibleModel(j, p, m)
  BY <1>1 DEF EligibleModel
<1>7. \A j, p : Preferred(j, p)' = Preferred(j, p)
  BY <1>1 DEF Preferred
<1>8. \A j, p : MustApprove(j, p)' <=> MustApprove(j, p)
  BY <1>1 DEF MustApprove
<1>9. \A j, p : Model(j, p)' = Model(j, p)
  BY <1>6, <1>7, <1>8 DEF Model
<1>10. \A j, p : Cost(j, p)' = Cost(j, p)
  BY <1>1 DEF Cost
<1>11. \A j : AllowedPools(j)' = AllowedPools(j)
  BY <1>1 DEF AllowedPools
<1>12. \A j, p : ServerLocalAllowed(j, p)' <=> ServerLocalAllowed(j, p)
  BY <1>1 DEF ServerLocalAllowed
<1>13. \A p : AgentHost(p)' = AgentHost(p)
  BY <1>1 DEF AgentHost
<1>14. \A j, p : PoolTakes(j, p)' <=> PoolTakes(j, p)
  BY <1>1, <1>3, <1>4, <1>5, <1>9, <1>10, <1>11, <1>12, <1>13 DEF PoolTakes
<1> QED BY <1>3, <1>4, <1>5, <1>9, <1>10, <1>13, <1>14

LEMMA SameHostFits ==
    ASSUME asked' = asked
    PROVE  /\ \A h : DiskFree(h)' = DiskFree(h)
           /\ \A h : HostSlots(h)' = HostSlots(h)
           /\ \A j, h : HostFits(j, h)' <=> HostFits(j, h)
<1>1. \A h : HostAt(h)' = HostAt(h)
  BY SamePoolsAndHosts
<1>2. \A h : Writable(h)' = Writable(h)
  BY <1>1 DEF Writable
<1>3. \A h : DiskFree(h)' = DiskFree(h)
  BY <1>1, <1>2 DEF DiskFree
<1>4. \A h : StorageFresh(h)' <=> StorageFresh(h)
  BY <1>1 DEF StorageFresh
<1>5. \A h : ClockStatus(h)' = ClockStatus(h)
  BY <1>1 DEF ClockStatus
<1>6. \A j, h : EvidenceFor(j, h)' <=> EvidenceFor(j, h)
  BY <1>1, <1>5 DEF EvidenceFor
<1>7. \A h : CapacityKnown(h)' <=> CapacityKnown(h)
  BY <1>1, <1>3 DEF CapacityKnown
<1>8. \A j, h : EnoughFor(j, h)' <=> EnoughFor(j, h)
  BY <1>1, <1>3, <1>7 DEF EnoughFor
<1>9. \A j, h : RouteOpen(j, h)' <=> RouteOpen(j, h)
  BY <1>1 DEF RouteOpen
<1>10. \A j, h : HostFits(j, h)' <=> HostFits(j, h)
  BY <1>1, <1>2, <1>4, <1>6, <1>8, <1>9 DEF HostFits
<1>11. \A h : HostSlots(h)' = HostSlots(h)
  BY <1>1 DEF HostSlots
<1> QED BY <1>3, <1>10, <1>11

LEMMA SameBestFit ==
    ASSUME asked' = asked, NEW plan
    PROVE  BestFit(plan)' <=> BestFit(plan)
<1>1. /\ PoolIds' = PoolIds /\ HostIds' = HostIds
      /\ \A p : PoolAt(p)' = PoolAt(p)
      /\ \A h : HostAt(h)' = HostAt(h)
  BY SamePoolsAndHosts
<1>2. /\ \A p : Budget(p)' = Budget(p)
      /\ \A p : PoolSlots(p)' = PoolSlots(p)
      /\ \A p : AgentHost(p)' = AgentHost(p)
      /\ \A j, p : Model(j, p)' = Model(j, p)
      /\ \A j, p : Cost(j, p)' = Cost(j, p)
      /\ \A j, p : PoolTakes(j, p)' <=> PoolTakes(j, p)
  BY SamePoolTakes
<1>3. /\ \A h : DiskFree(h)' = DiskFree(h)
      /\ \A h : HostSlots(h)' = HostSlots(h)
      /\ \A j, h : HostFits(j, h)' <=> HostFits(j, h)
  BY SameHostFits
<1>4. Ready' = Ready
  BY DEF Ready
<1>5. Considered' = Considered
  BY <1>4 DEF Considered
<1>6. \A j : AllowedHosts(j)' = AllowedHosts(j)
  BY <1>1 DEF AllowedHosts
<1>7. \A j, p, h : Assignable(j, p, h)' <=> Assignable(j, p, h)
  BY <1>1, <1>2, <1>3, <1>6 DEF Assignable
<1>8. \A j : Options(j)' = Options(j)
  BY <1>1, <1>7 DEF Options
<1>9. \A j, o : Value(j, o)' = Value(j, o)
  BY <1>1 DEF Value
<1>10. \A S : Worth(S)' = Worth(S)
  <2>1. \A S : [a \in S |-> Value(a.task, <<a.pool, a.host>>)'] = [a \in S |-> Value(a.task, <<a.pool, a.host>>)]
    BY <1>9
  <2> QED BY <2>1 DEF Worth
<1>11. Selections' = Selections
  <2> DEFINE Given(jobs, pools, hosts, options) ==
                {g \in [jobs -> (pools \X hosts) \cup {<<0, 0>>}] : \A j \in jobs : g[j] \in options[j] \cup {<<0, 0>>}}
             Of(jobs, f) == {[task |-> j, pool |-> f[j][1], host |-> f[j][2]] : j \in {k \in jobs : f[k] # <<0, 0>>}}
  <2>1. Selections = {Of(Considered, f) : f \in Given(Considered, PoolIds, HostIds, [j \in Considered |-> Options(j)])}
    BY DEF Selections
  <2>2. Selections' = {Of(Considered', f) : f \in Given(Considered', PoolIds', HostIds', [j \in Considered' |-> Options(j)'])}
    BY DEF Selections
  <2>3. [j \in Considered' |-> Options(j)'] = [j \in Considered |-> Options(j)]
    BY <1>5, <1>8
  <2> HIDE DEF Given, Of
  <2> QED BY <1>1, <1>5, <2>1, <2>2, <2>3
<1>12. \A S : FitTogether(S)' <=> FitTogether(S)
  BY <1>1, <1>2, <1>3 DEF FitTogether
<1> QED BY <1>1, <1>2, <1>10, <1>11, <1>12 DEF BestFit

\* Whatever is planned for is one of the inputs, and what was planned fits best.
PlanInv == asked \in PlanInputs /\ PlanIsBestFit

\* Every plan fits the machines it was made from, and no other selection of
\* options that fits scores higher: the search over what is left after each
\* choice finds the best by the sums over all of them (plan, solve).
THEOREM PlanIsAlwaysBestFit == PlannerSpec => []PlanIsBestFit
<1>1. PlanIsBestFit <=> (planOut # NoPlan => BestFit(planOut))
  BY DEF PlanIsBestFit, BestFit
<1>2. PlannerInit => PlanInv
  BY DEF PlannerInit, PlanInv, PlanIsBestFit
<1>3. PlanInv /\ [PlannerNext]_plannerVars => PlanInv'
  <2> SUFFICES ASSUME PlanInv, [PlannerNext]_plannerVars PROVE PlanInv'
    OBVIOUS
  <2>1. asked' = asked /\ asked \in PlanInputs
    BY DEF PlanInv, PlannerNext, MakePlan, plannerVars
  <2>2. PlanIsBestFit' <=> (planOut' # NoPlan => BestFit(planOut)')
    BY DEF PlanIsBestFit, BestFit
  <2>3. PICK plan : plan = planOut'
    OBVIOUS
  <2>4. BestFit(planOut)' <=> BestFit(plan)'
    BY <2>3 DEF BestFit
  <2>5. CASE MakePlan
    <3>1. plan.picks = Solve[AllOpen].picks /\ plan.score = Solve[AllOpen].score
      BY <2>3, <2>5 DEF MakePlan
    <3>2. BestFit(Solve[AllOpen])
      BY <2>1, SolvedIsBestFit
    <3>3. BestFit(plan)
      BY <3>1, <3>2 DEF BestFit
    <3> QED BY <2>1, <2>2, <2>4, <3>3, SameBestFit DEF PlanInv
  <2>6. CASE UNCHANGED plannerVars
    <3>1. planOut # NoPlan => BestFit(plan)
      BY <1>1, <2>3, <2>6 DEF PlanInv, plannerVars
    <3> QED BY <2>1, <2>2, <2>4, <2>6, <3>1, SameBestFit DEF PlanInv, plannerVars
  <2> QED BY <2>5, <2>6 DEF PlannerNext
<1>4. PlanInv => PlanIsBestFit
  BY DEF PlanInv
<1> QED BY <1>2, <1>3, <1>4, PTL DEF PlannerSpec
=============================================================================
