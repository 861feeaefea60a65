--------------------------- MODULE PackageCatalog ---------------------------
(***************************************************************************)
(* The package resolver (local_agent_dispatch/packages/catalog.py) and the  *)
(* lock made from its result (lockfile.py): a backtracking search that      *)
(* tries the highest version first, over a catalog that grows by add.       *)
(* Names and versions are numbers in their sort order; a dependency names   *)
(* the versions its constraint accepts; the platform filter is part of      *)
(* which manifests a catalog holds.                                         *)
(***************************************************************************)
EXTENDS Integers, FiniteSets

CONSTANTS
    CatalogNames,   \* package names, by sort order
    CatalogVersions,\* versions, by precedence
    Manifests,      \* coordinate -> the dependency sets its manifest may have
    RootSets        \* requirement lists asked for

\* Names and versions are numbered; <<0, 0>> is no coordinate.
ASSUME CatalogAssumption ==
    /\ CatalogNames \subseteq Nat \ {0} /\ IsFiniteSet(CatalogNames)
    /\ CatalogVersions \subseteq Nat /\ IsFiniteSet(CatalogVersions)
    /\ \A deps \in RootSets \cup UNION {Manifests[c] : c \in CatalogNames \X CatalogVersions} :
          \A d \in deps : d.name \in Nat

VARIABLES
    catalog,        \* the manifests known: coordinate -> dependency set
    lockfile        \* the package lock that verify_lock accepts

catalogVars == <<catalog, lockfile>>

NoResult == {<<0, 0>>}
NoLockfile == [pins |-> {}, roots |-> {}, optional |-> FALSE]
CatalogCoords == CatalogNames \X CatalogVersions
Lowest(names) == CHOOSE n \in names : \A m \in names : n <= m
Highest(coords) == CHOOSE c \in coords : \A d \in coords : d[2] <= c[2]

CatalogInit ==
    /\ catalog = [c \in {} |-> {}]
    /\ lockfile = NoLockfile

\* The dependencies of a coordinate the resolver follows.
Followed(c, optional) == {d \in catalog[c] : d.optional => optional}
Allows(constraints, c) == \A d \in constraints : d.name = c[1] => c[2] \in d.accepts

\* _dependency_order finds an order iff the selected packages have no cycle.
Ordered(selected, optional) ==
    \E rank \in [selected -> 1..Cardinality(CatalogNames)] :
        \A c, d \in selected :
            (\E dep \in Followed(c, optional) : dep.name = d[1]) => rank[d] < rank[c]

\* The candidate the loop returns with: the highest whose search succeeds.
MutFirstGood(candidates, good) ==         \* mutant: only the highest candidate is tried
    {Highest(candidates)} \cap good
FirstGood(candidates, good) == IF good = {} THEN {} ELSE {Highest(good)}

\* What the requirements and the dependencies of the selected packages ask for.
Demanded(selected, roots, optional) ==
    roots \cup UNION {Followed(c, optional) : c \in selected}

\* One call of _search, from what the calls below it return: a conflict ends
\* it, a selection that leaves no name open is the result when it has an order,
\* and else the versions of the lowest open name are tried.
SearchStep(selected, below, roots, optional) ==
    LET constraints == Demanded(selected, roots, optional)
        open == {d.name : d \in constraints} \ {c[1] : c \in selected}
        candidates == {c \in DOMAIN catalog :
                          c[1] = Lowest(open) /\ Allows(constraints, c)}
        chosen == FirstGood(candidates,
                            {c \in candidates : below[selected \cup {c}] # NoResult})
    IN  IF \E c \in selected : ~Allows(constraints, c) THEN NoResult
        ELSE IF open = {} THEN IF Ordered(selected, optional) THEN selected ELSE NoResult
        ELSE IF candidates = {} \/ chosen = {} THEN NoResult
        ELSE below[selected \cup {CHOOSE c \in chosen : TRUE}]

Search(roots, optional) ==
    LET found[selected \in SUBSET DOMAIN catalog] ==
            SearchStep(selected, found, roots, optional)
    IN  found[{}]

-----------------------------------------------------------------------------
\* PackageCatalog.add: another manifest of a known coordinate raises.  The
\* catalog digest changes, so verify_lock refuses the locks made before.
AddManifest(c, deps) ==
    /\ c \notin DOMAIN catalog
    /\ catalog' = [x \in DOMAIN catalog \cup {c} |-> IF x = c THEN deps ELSE catalog[x]]
    /\ lockfile' = NoLockfile

\* resolve_to_lock, which raises when there is no resolution.
ResolveToLock(roots, optional) ==
    LET pins == Search(roots, optional)
    IN  /\ lockfile' = [pins |-> pins, roots |-> roots, optional |-> optional]
        /\ UNCHANGED catalog

CatalogNext ==
    \/ \E c \in CatalogCoords : \E deps \in Manifests[c] : AddManifest(c, deps)
    \/ \E roots \in RootSets, optional \in BOOLEAN : ResolveToLock(roots, optional)

CatalogSpec == CatalogInit /\ [][CatalogNext]_catalogVars

-----------------------------------------------------------------------------
(* What a resolution is, without the search. *)

Closed(pins, roots, optional) ==
    /\ \A c, d \in pins : c[1] = d[1] => c = d
    /\ \A d \in roots \cup UNION {Followed(c, optional) : c \in pins} :
          \E c \in pins : c[1] = d.name /\ c[2] \in d.accepts
    /\ \E rank \in [pins -> 1..Cardinality(CatalogNames)] :
          \A c, e \in pins :
              (\E d \in Followed(c, optional) : d.name = e[1]) => rank[e] < rank[c]

\* The search finds a resolution exactly when one exists, and what it finds is
\* a closed, acyclic pin set: PackageStore will activate it.  The pruning of
\* conflicts, the fixed name order and the early choice of the highest version
\* lose no solution ("the solver backtracks when a later constraint conflicts",
\* catalog.py resolve).
ResolutionComplete ==
    lockfile # NoLockfile =>
        LET solutions == {pins \in SUBSET DOMAIN catalog :
                            Closed(pins, lockfile.roots, lockfile.optional)}
        IN  IF lockfile.pins = NoResult THEN solutions = {} ELSE lockfile.pins \in solutions
=============================================================================
