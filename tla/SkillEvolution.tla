--------------------------- MODULE SkillEvolution ---------------------------
(***************************************************************************)
(* Skills are composed into plans, plans have outcomes, and outcomes lead   *)
(* to proposals (src/local_agent_dispatch/skills: composition.py,           *)
(* latent.py, evolution.py, models.py).  The functions keep no state: the   *)
(* variables are what their callers keep of the answers and give back       *)
(* later, when the index may be another one.  Facets, relevance and         *)
(* uncertainty of a skill are one number, its appeal; the limits on the     *)
(* size of one request are not reached.                                     *)
(***************************************************************************)
EXTENDS Integers, FiniteSets, FiniteSetsExt, Functions

CONSTANTS
    SkillCount,         \* the skills are numbered in the order of their ids
    Indexes,            \* contents of an index: [skills, similar]
    Requests,           \* [k, required, budget]
    ReportedIndexes,    \* the indexes whose plans have outcomes (a bound)
    OutcomeReports,     \* [skills, age, status, quality, refs]
    MinObservations,
    IndexTtl, OutcomeTtl,
    LastDay, MaxOutcomes, MaxSources \* bounds

SkillIds == 1..SkillCount
TooDear == 1000     \* no budget reaches it

\* What the records of models.py and evolution.py must be when they are built.
\* Of a descriptor's capabilities only those that some request names are kept,
\* so there may be none; "usable" sums up its platforms, harnesses, uncertainty
\* and availability, "appeal" its facets and its closeness to what is asked.
SkillDescriptors ==
    [caps : SUBSET STRING, cost : Nat, usable : BOOLEAN, appeal : Int, version : Nat]

\* One version of each skill; similar ones are pairs of different skills.
SkillIndexSnapshot(content) ==
    /\ content.skills \in [SkillIds -> SkillDescriptors]
    /\ \A pair \in content.similar : \E s, t \in SkillIds : s # t /\ pair = {s, t}

CompositionRequest(r) ==
    /\ r.k \in Nat \ {0} /\ r.budget \in 0..(TooDear - 1)
    /\ r.required # {} /\ IsFiniteSet(r.required)

SkillOutcome(report) ==
    /\ report.skills # {} /\ report.age \in Nat
    /\ report.status \in {"success", "partial", "failure"}
    /\ report.refs # {} /\ IsFiniteSet(report.refs)

EvolutionPolicy == MinObservations \in Nat \ {0} /\ OutcomeTtl \in Nat \ {0}

ASSUME SkillAssumption ==
    /\ SkillCount \in Nat
    /\ \A content \in Indexes : SkillIndexSnapshot(content)
    /\ \A r \in Requests : CompositionRequest(r)
    /\ \A report \in OutcomeReports : SkillOutcome(report)
    /\ EvolutionPolicy
    /\ {IndexTtl, MaxSources} \subseteq Nat

VARIABLES
    day,
    skillIndex, \* the index in use: its contents, generated_at and source_digest
    answer,     \* what compose_skills last answered to which request
    groups,     \* what analyze_latent_space last answered
    plans, outcomes, proposals, lineages

skillVars == <<day, skillIndex, answer, groups, plans, outcomes, proposals, lineages>>

NoIndex == [source |-> 0]
NoAnswer == [asked |-> FALSE]

SkillInit ==
    /\ day = 0
    /\ skillIndex = NoIndex
    /\ answer = NoAnswer
    /\ groups = {}
    /\ plans = {} /\ outcomes = {} /\ proposals = {} /\ lineages = {}

\* SkillIndexSnapshot.freshness(): an index of the future counts as unknown.
FreshIndex ==
    /\ skillIndex # NoIndex
    /\ skillIndex.at <= day /\ day - skillIndex.at <= IndexTtl

-----------------------------------------------------------------------------
\* Composition.

Skill(s) == skillIndex.skills[s]
CapsOf(S) == UNION {Skill(s).caps : s \in S}
CostOf(S) == SumFunctionOnSet([s \in SkillIds |-> Skill(s).cost], S)

\* _hard_filter(): available, allowed, of this platform and harness, certain
\* enough and within the budget on its own.
EligibleSkills(r) ==
    {s \in SkillIds : Skill(s).usable /\ Skill(s).cost <= r.budget}

\* _minimum_covering_completion_cost(): the cheapest choice of "slots" skills
\* for each number of skills and set of capabilities reached.
MutCheapestCompletion(S, missing, slots) ==     \* mutant: the cheapest skills
    IF Cardinality(S) < slots THEN TooDear
    ELSE Min({CostOf(T) : T \in kSubset(slots, S)})

\* One skill more, and the cheapest of the states that reach the same.
With(b, s, missing) ==
    [n |-> b.n + 1, caps |-> b.caps \cup (Skill(s).caps \cap missing), cost |-> b.cost + Skill(s).cost]
Cheapest(B) == {b \in B : \A c \in B : c.n = b.n /\ c.caps = b.caps => b.cost <= c.cost}
CompletionStates(missing, slots) ==
    LET states[U \in SUBSET SkillIds] ==
            IF U = {} THEN {[n |-> 0, caps |-> {}, cost |-> 0]}
            ELSE LET s == Max(U)
                     B == states[U \ {s}]
                 IN  Cheapest(B \cup {With(b, s, missing) : b \in {c \in B : c.n < slots}})
    IN  states
CheapestCompletion(S, missing, slots) ==
    Min({b.cost : b \in {c \in CompletionStates(missing, slots)[S] : c.n = slots /\ c.caps = missing}}
        \cup {TooDear})

\* _completion_remains_possible()
CanComplete(r, s, chosen, remaining) ==
    LET slots == r.k - Cardinality(chosen) - 1
        cost == CostOf(chosen \cup {s})
        missing == r.required \ CapsOf(chosen \cup {s})
    IN  /\ cost <= r.budget
        /\ Cardinality(remaining \ {s}) >= slots
        /\ IF slots = 0 THEN missing = {}
           ELSE cost + CheapestCompletion(remaining \ {s}, missing, slots) <= r.budget

\* _marginal_score()
Score(r, s, chosen) ==
    LET new == (Skill(s).caps \cap r.required) \ CapsOf(chosen)
        alike == {t \in chosen : {s, t} \in skillIndex.similar}
    IN  (100 * Cardinality(new)) \div Cardinality(r.required) + Skill(s).appeal
        - IF chosen = {} THEN 0 ELSE (18 * Cardinality(alike)) \div Cardinality(chosen)

\* The skill a round selects: of those that still allow a completion, the
\* first by name among the highest scores.
Best(r, chosen, remaining) ==
    LET possible == {s \in remaining : CanComplete(r, s, chosen, remaining)}
        Better(s, t) == \/ Score(r, s, chosen) > Score(r, t, chosen)
                        \/ Score(r, s, chosen) = Score(r, t, chosen) /\ s <= t
    IN  {s \in possible : \A t \in possible : Better(s, t)}

\* compose_skills(): the skills selected, or {} for CompositionConstraintError.
Rounds(r) ==
    LET select[chosen \in SUBSET EligibleSkills(r)] ==
            IF Cardinality(chosen) = r.k THEN chosen
            ELSE LET best == Best(r, chosen, EligibleSkills(r) \ chosen)
                 IN  IF best = {} THEN {} ELSE select[chosen \cup best]
    IN  select
Selection(r) ==
    LET eligible == EligibleSkills(r)
    IN  IF Cardinality(eligible) >= r.k /\ r.required \subseteq CapsOf(eligible)
        THEN Rounds(r)[{}] ELSE {}

RefOf(s) == <<s, Skill(s).version>>

\* The plan's id is a digest of the index, the request and the selection: it
\* is the same when the same request is composed on another day.
PlanOfSelection(r, S) ==
    [id |-> <<skillIndex.source, r, {RefOf(s) : s \in S}>>,
     selected |-> {RefOf(s) : s \in S},
     indexAt |-> skillIndex.at, source |-> skillIndex.source, at |-> day]

Compose(r) ==
    /\ FreshIndex
    /\ LET S == Selection(r) IN
       /\ answer' = [asked |-> TRUE, request |-> r, selected |-> S]
       /\ plans' = IF S = {} \/ skillIndex.content \notin ReportedIndexes THEN plans
                   ELSE plans \cup {PlanOfSelection(r, S)}
    /\ UNCHANGED <<day, skillIndex, groups, outcomes, proposals, lineages>>

-----------------------------------------------------------------------------
\* Redundancy.

FindRoot(parent, s) ==
    LET root[i \in DOMAIN parent] == IF parent[i] = i THEN i ELSE root[parent[i]]
    IN  root[s]

\* _RedundancySets.add_edge(): the smaller root adopts the larger one.
AddEdge(sets, pair) ==
    LET l == FindRoot(sets.parent, pair[1])
        r == FindRoot(sets.parent, pair[2])
        root == Min({l, r})
        child == Max({l, r})
    IN  IF l = r THEN [sets EXCEPT !.edges[l] = @ + 1]
        ELSE [parent |-> [sets.parent EXCEPT ![child] = root],
              edges |-> [sets.edges EXCEPT ![root] = @ + sets.edges[child] + 1]]

\* combinations(range(n), 2): by the first of a pair, then by the second.
Combinations == {p \in SkillIds \X SkillIds : p[1] < p[2]}
LastPair(E) == CHOOSE p \in E : \A q \in E : q[1] < p[1] \/ (q[1] = p[1] /\ q[2] <= p[2])

\* analyze_latent_space(): what has been put together after some pairs.
AvailableSkills == {s \in SkillIds : Skill(s).usable}
SimilarPairs ==
    {p \in Combinations : {p[1], p[2]} \subseteq AvailableSkills /\ {p[1], p[2]} \in skillIndex.similar}
RedundancySets ==
    LET sets[E \in SUBSET SimilarPairs] ==
            IF E = {} THEN [parent |-> [s \in AvailableSkills |-> s],
                            edges |-> [s \in AvailableSkills |-> 0]]
            ELSE AddEdge(sets[E \ {LastPair(E)}], LastPair(E))
    IN  sets[SimilarPairs]

\* _redundancy_groups(): the groups of available skills and their edges.
RedundancyGroups ==
    LET sets == RedundancySets
        Members(r) == {s \in AvailableSkills : FindRoot(sets.parent, s) = r}
    IN  {[members |-> Members(r), pairs |-> sets.edges[r]] :
            r \in {s \in AvailableSkills : FindRoot(sets.parent, s) = s /\ sets.edges[s] > 0}}

Analyze ==
    /\ FreshIndex
    /\ groups' = RedundancyGroups
    /\ UNCHANGED <<day, skillIndex, answer, plans, outcomes, proposals, lineages>>

-----------------------------------------------------------------------------
\* Evolution.

\* Whether propose_evolution() raises no error for these outcomes and plans,
\* and the outcomes it then counts: one that is too old is skipped unread.
Known(O, P) == \A o \in O : \E p \in P : p.id = o.plan
Bound(O, P) == \A p \in P : (\E o \in O : o.plan = p.id) =>
                   /\ p.indexAt = skillIndex.at
                   /\ p.source = skillIndex.source
Counted(O) == {o \in O : day - o.at <= OutcomeTtl}

Consistent(o, P) ==
    LET p == CHOOSE p \in P : p.id = o.plan IN
    /\ \A ref \in o.skills : ref[1] \in SkillIds /\ RefOf(ref[1]) = ref
    /\ p.at <= o.at
    /\ o.skills \subseteq p.selected

Independent(O) ==
    \A o1, o2 \in O : o1 # o2 => o1.refs \cap o2.refs = {}

Accepted(O, P) ==
    /\ Known(O, P) /\ Bound(O, P)
    /\ \A o \in O : o.at <= day
    /\ \A o \in Counted(O) : Consistent(o, P)
    /\ Independent(Counted(O))

\* The reasons to revise a skill, from the outcomes that name it, by the
\* default policy; good quality is 1 and poor quality 0.2.
FailsOften(E) == 2 * Cardinality({o \in E : o.status = "failure"}) >= Cardinality(E)
PoorQuality(E) ==
    LET rated == {o \in E : o.quality # "none"}
        poor == {o \in rated : o.quality = "poor"}
    IN  rated # {} /\ 2 * Cardinality(poor) > Cardinality(rated)

\* A proposal names the outcomes it is based on.
SkillEvolutionProposal(ref, evidence) ==
    [target |-> ref, basis |-> evidence, at |-> day, source |-> skillIndex.source]

Proposals(O) ==
    LET evidence(ref) == {o \in Counted(O) : ref \in o.skills}
        targets == {ref \in UNION {o.skills : o \in Counted(O)} :
                       /\ Cardinality(evidence(ref)) >= MinObservations
                       /\ FailsOften(evidence(ref)) \/ PoorQuality(evidence(ref))}
    IN  {SkillEvolutionProposal(ref, evidence(ref)) : ref \in targets}

ProposeEvolution(O, P) ==
    /\ FreshIndex
    /\ \A p, q \in P : p.id = q.id => p = q
    /\ Accepted(O, P)
    /\ proposals' = proposals \cup Proposals(O)
    /\ UNCHANGED <<day, skillIndex, answer, groups, plans, outcomes, lineages>>

\* lineage_from_proposal(), for a proposal that was reviewed: a "revise" has
\* one parent, which is not its own child.
SkillLineage(p, version) == [parent |-> p.target, child |-> <<p.target[1], version>>]

LineageFromProposal(p, version) ==
    /\ version > p.target[2]
    /\ lineages' = lineages \cup {SkillLineage(p, version)}
    /\ UNCHANGED <<day, skillIndex, answer, groups, plans, outcomes, proposals>>

-----------------------------------------------------------------------------
\* The callers.

PublishIndex(content) ==
    /\ skillIndex' = [skills |-> content.skills, similar |-> content.similar,
                      content |-> content, at |-> day, source |-> 1]
    /\ UNCHANGED <<day, answer, groups, plans, outcomes, proposals, lineages>>

\* A child of a lineage takes the place of its parent in a new index.
PublishChild(l) ==
    /\ skillIndex.source \in 1..(MaxSources - 1)
    /\ RefOf(l.parent[1]) = l.parent
    /\ skillIndex' = [skillIndex EXCEPT !.skills[l.child[1]].version = l.child[2],
                                        !.at = day, !.source = @ + 1]
    /\ UNCHANGED <<day, answer, groups, plans, outcomes, proposals, lineages>>

\* An outcome names skills by the version of today's index, in the order of
\* their ids, and an observation of some days ago.
ReportOutcome(p, report) ==
    /\ Cardinality(outcomes) < MaxOutcomes
    /\ report.age <= day
    /\ outcomes' = outcomes \cup
          {[plan |-> p.id, skills |-> {RefOf(s) : s \in report.skills}, at |-> day - report.age,
            status |-> report.status, quality |-> report.quality, refs |-> report.refs]}
    /\ UNCHANGED <<day, skillIndex, answer, groups, plans, proposals, lineages>>

DayPasses ==
    /\ skillIndex.source > 0 /\ skillIndex.content \in ReportedIndexes
    /\ day < LastDay
    /\ day' = day + 1
    /\ UNCHANGED <<skillIndex, answer, groups, plans, outcomes, proposals, lineages>>

SkillNext ==
    \/ skillIndex = NoIndex /\ \E content \in Indexes : PublishIndex(content)
    \/ \E r \in Requests : Compose(r)
    \/ Analyze
    \/ \E p \in plans, report \in OutcomeReports : ReportOutcome(p, report)
    \/ \E O \in SUBSET outcomes, P \in SUBSET plans : O # {} /\ ProposeEvolution(O, P)
    \/ \E p \in proposals, version \in 1..MaxSources : LineageFromProposal(p, version)
    \/ \E l \in lineages : PublishChild(l)
    \/ DayPasses

SkillSpec == SkillInit /\ [][SkillNext]_skillVars

-----------------------------------------------------------------------------
\* The greedy selection never runs into a dead end: it answers exactly when
\* some k eligible skills cover what is required within the budget, and its
\* answer is such a set (compose_skills, _completion_remains_possible).
ComposesWhenPossible ==
    answer.asked =>
        LET r == answer.request
            Serves(S) == r.required \subseteq CapsOf(S) /\ CostOf(S) <= r.budget
        IN  IF answer.selected = {}
            THEN \A S \in kSubset(r.k, EligibleSkills(r)) : ~Serves(S)
            ELSE /\ answer.selected \in kSubset(r.k, EligibleSkills(r))
                 /\ Serves(answer.selected)

\* The groups are the connected parts of the graph of similar skills, however
\* their pairs are ordered, and no edge is counted twice (_RedundancySets).
GroupsAreComponents ==
    LET EdgesIn(S) == {e \in skillIndex.similar : e \subseteq S}
        Connected(S) == \A T \in (SUBSET S) \ {{}, S} :
                            \E e \in EdgesIn(S) : e \cap T # {} /\ e \cap (S \ T) # {}
    IN  \A g \in groups :
            /\ Connected(g.members) /\ Cardinality(g.members) > 1
            /\ g.pairs = Cardinality(EdgesIn(g.members))
            /\ \A s \in SkillIds \ g.members :
                  Skill(s).usable => \A t \in g.members : {s, t} \notin skillIndex.similar

\* Whatever the callers keep and give back in the meantime, a version of a
\* skill is only proposed for revision on enough outcomes of plans that
\* selected that version, each with evidence of its own, none of them too old
\* or earlier than its plan (propose_evolution).
ProposalsAreEarned ==
    \A p \in proposals :
        /\ Cardinality(p.basis) >= MinObservations
        /\ Cardinality(UNION {o.refs : o \in p.basis}) >= Cardinality(p.basis)
        /\ \A o \in p.basis :
              /\ o.at \in (p.at - OutcomeTtl)..p.at
              /\ \E plan \in plans :
                    /\ plan.id = o.plan /\ plan.at <= o.at
                    /\ p.target \in plan.selected /\ plan.source = p.source
        /\ \E o \in p.basis : o.status = "failure" \/ o.quality = "poor"

SkillAnswersHold == ComposesWhenPossible /\ GroupsAreComponents /\ ProposalsAreEarned
=============================================================================
