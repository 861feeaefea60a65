---------------------------- MODULE PackageStore ----------------------------
(***************************************************************************)
(* The local package store (local_agent_dispatch/packages/store.py): the    *)
(* directories of installed packages, the numbered lock generations, and    *)
(* active-v1.json, which names the generation in force.  Every mutation     *)
(* runs under a lock directory made with mkdir, so at most one is under     *)
(* way; its writes to disk are steps of their own, and the process may die  *)
(* between two of them.  The lock directory then stays until an operator    *)
(* removes it.                                                              *)
(*                                                                          *)
(* A coordinate has one manifest: a source with another digest raises       *)
(* before anything is written.  Platform, path and file-type checks are     *)
(* part of which sources are offered.                                       *)
(***************************************************************************)
EXTENDS Integers, FiniteSets

CONSTANTS
    Names,          \* package names
    Versions,       \* versions
    Depends,        \* coordinate -> the <<name, versions accepted>> it requires
    MaxGenerations  \* bound: lock generations written

ASSUME PackageAssumption ==
    /\ MaxGenerations \in Nat \ {0}
    /\ Depends \in [Names \X Versions -> SUBSET (Names \X SUBSET Versions)]

VARIABLES
    installed,      \* what is in the directory of each coordinate
    locks,          \* the lock file of each generation
    current,        \* the generation active-v1.json holds, 0 without the file
    litter,         \* is there a temporary file left in the locks directory?
    mutation        \* the mutation under way

packageVars == <<installed, locks, current, litter, mutation>>

Coords == Names \X Versions
Generations == 1..MaxGenerations
NoLock == [written |-> FALSE, pins |-> {}, previous |-> 0]
Idle == [step |-> "idle", coord |-> <<>>, pins |-> {}, generation |-> 0]

PackageInit ==
    /\ installed = [c \in Coords |-> "absent"]
    /\ locks = [g \in Generations |-> NoLock]
    /\ current = 0
    /\ litter = FALSE
    /\ mutation = Idle

-----------------------------------------------------------------------------
(* Pin sets and generations.  A pin set is a set of coordinates, one a name. *)

ActivePins == IF current = 0 THEN {} ELSE locks[current].pins

\* dict.update of pins by other pins.
Updated(pins, new) == {p \in pins : \A n \in new : n[1] # p[1]} \cup new

\* _validate_active_graph, with the coordinates whose manifest it was handed.
Satisfied(pins) ==
    /\ \A p \in pins : \A d \in Depends[p] : \E q \in pins : q[1] = d[1] /\ q[2] \in d[2]
    /\ \E rank \in [{p[1] : p \in pins} -> 1..Cardinality(Names)] :
          \A p \in pins : \A d \in Depends[p] : rank[d[1]] < rank[p[1]]
Valid(pins, given) ==
    /\ \A p \in pins \ given : installed[p] = "intact"
    /\ Satisfied(pins)

\* _history_generations: every lock file, orphans included.
History == {g \in Generations : locks[g].written}

\* _committed_generations: the lineage of the active generation.
Committed ==
    LET back[g \in 0..MaxGenerations] ==
          IF g = 0 THEN {} ELSE {g} \cup back[locks[g].previous]
    IN  back[current]

Newest(generations) == CHOOSE g \in generations : \A h \in generations : h <= g

Stale == [Idle EXCEPT !.step = "stale"]
Done == [Idle EXCEPT !.step = "release"]
Begin(step, coord, pins) ==
    mutation' = IF step = "release" THEN Done
                ELSE [step |-> step, coord |-> coord, pins |-> pins, generation |-> 0]

-----------------------------------------------------------------------------
(* Mutations.  The first step takes the lock directory and does the reads   *)
(* and checks; a check that fails raises and changes nothing.               *)

\* install: publish the payload if the coordinate is new, then commit the new
\* pins unless they are the active ones or activation was not asked for.
Install(c, activate) ==
    /\ mutation = Idle
    /\ installed[c] \in {"absent", "intact"}
    /\ activate => Valid(Updated(ActivePins, {c}), {c})
    /\ Begin(IF installed[c] = "absent" THEN "publish"
             ELSE IF activate /\ c \notin ActivePins THEN "lock" ELSE "release",
             IF installed[c] = "absent" THEN c ELSE <<>>, IF activate THEN Updated(ActivePins, {c}) ELSE ActivePins)
    /\ UNCHANGED <<installed, locks, current, litter>>

\* _stage_and_publish: os.replace of the staged payload.
Publish ==
    /\ mutation.step = "publish"
    /\ installed' = [installed EXCEPT ![mutation.coord] = "intact"]
    /\ Begin(IF mutation.pins # ActivePins THEN "lock" ELSE "release", <<>>, mutation.pins)
    /\ UNCHANGED <<locks, current, litter>>

\* activate and activate_pins.
ActivatePins(pins, replace) ==
    /\ mutation = Idle
    /\ LET next == IF replace THEN pins ELSE Updated(ActivePins, pins)
       IN  Valid(next, {}) /\ Begin("lock", <<>>, next)
    /\ UNCHANGED <<installed, locks, current, litter>>

\* rollback: to a generation of the lineage, the newest when none is named.
Rollback(g) ==
    /\ mutation = Idle
    /\ g \in Committed \ {current}
    /\ Valid(locks[g].pins, {})
    /\ Begin("lock", <<>>, locks[g].pins)
    /\ UNCHANGED <<installed, locks, current, litter>>
RollbackToNewest ==
    /\ Committed \ {current} # {}
    /\ Rollback(Newest(Committed \ {current}))

\* uninstall: neither an active coordinate nor one a committed generation pins.
MutUninstall(c) ==                        \* mutant: rollback generations are not consulted
    /\ mutation = Idle
    /\ installed[c] = "intact"
    /\ c \notin ActivePins
    /\ Begin("remove", c, ActivePins)
    /\ UNCHANGED <<installed, locks, current, litter>>
Uninstall(c) ==
    /\ mutation = Idle
    /\ installed[c] = "intact"
    /\ \A g \in Committed : c \notin locks[g].pins
    /\ Begin("remove", c, ActivePins)
    /\ UNCHANGED <<installed, locks, current, litter>>

\* shutil.rmtree removes the files one by one.
RemoveFiles ==
    /\ mutation.step = "remove"
    /\ installed' = [installed EXCEPT
          ![mutation.coord] = IF @ = "intact" THEN "partial" ELSE "absent"]
    /\ mutation' = IF installed[mutation.coord] = "intact" THEN mutation ELSE Done
    /\ UNCHANGED <<locks, current, litter>>

\* _commit_active, first write: the immutable lock file of a new generation.
\* A foreign file among the locks makes _history_generations raise.
WriteLock ==
    /\ mutation.step = "lock"
    /\ IF litter \/ ~Valid(mutation.pins, {})
       THEN mutation' = Done /\ UNCHANGED locks
       ELSE LET g == 1 + Newest(History \cup {current})
            IN  /\ g \in Generations
                /\ locks' = [locks EXCEPT ![g] =
                      [written |-> TRUE, pins |-> mutation.pins, previous |-> current]]
                /\ mutation' = [mutation EXCEPT !.step = "active", !.generation = g]
    /\ UNCHANGED <<installed, current, litter>>

\* _commit_active, second write: the atomic replacement of active-v1.json.
WriteActive ==
    /\ mutation.step = "active"
    /\ current' = mutation.generation
    /\ mutation' = Done
    /\ UNCHANGED <<installed, locks, litter>>

Release ==
    /\ mutation.step = "release"
    /\ mutation' = Idle
    /\ UNCHANGED <<installed, locks, current, litter>>

\* The process dies: the lock directory stays, and _atomic_write_json may leave
\* its temporary file beside the lock files.
PackageCrash ==
    /\ mutation \notin {Idle, Stale}
    /\ mutation' = Stale
    /\ litter' \in {litter, litter \/ mutation.step = "lock"}
    /\ UNCHANGED <<installed, locks, current>>

\* An operator removes the stale lock directory.
ClearStaleLock ==
    /\ mutation = Stale
    /\ mutation' = Idle
    /\ UNCHANGED <<installed, locks, current, litter>>

PackageNext ==
    \/ \E c \in Coords, a \in BOOLEAN : Install(c, a)
    \/ \E pins \in {{c} : c \in Coords} \cup {{}}, r \in BOOLEAN : ActivatePins(pins, r)
    \/ \E g \in Generations : Rollback(g)
    \/ RollbackToNewest
    \/ \E c \in Coords : Uninstall(c)
    \/ Publish
    \/ RemoveFiles
    \/ WriteLock
    \/ WriteActive
    \/ Release
    \/ PackageCrash
    \/ ClearStaleLock

PackageSpec == PackageInit /\ [][PackageNext]_packageVars

-----------------------------------------------------------------------------
\* Whatever was interrupted on the way, the active generation and every
\* generation rollback may restore still name a closed, acyclic set of packages
\* that are installed whole, and no lock file left by an interrupted commit is
\* among them (docs/package-ecosystem.md, "Store and lock layout").
RollbackReady ==
    \A g \in Committed :
        /\ locks[g].written
        /\ Satisfied(locks[g].pins)
        /\ \A c \in locks[g].pins : installed[c] = "intact"
        /\ g # mutation.generation
=============================================================================
