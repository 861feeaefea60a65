--------------------------- MODULE ReservationBook ---------------------------
(***************************************************************************)
(* The scheduler's reservations: assess_candidate filters execution targets *)
(* by evidence (src/local_agent_dispatch/scheduler/core.py), with the disk  *)
(* of the exact workspace path (resources/topology.py), and ReservationBook *)
(* replans and reserves under one lock, records actual use and releases.    *)
(*                                                                          *)
(* Amounts are small numbers, a path is a sequence of components, and an    *)
(* observation is fresh or it is not.  Verdicts short of eligible have one  *)
(* effect, so they are one; the score only picks among eligible targets and *)
(* is a choice here.                                                        *)
(***************************************************************************)
EXTENDS Integers, Sequences, FiniteSets, FiniteSetsExt, SequencesExt

CONSTANTS
    Keys,           \* idempotency keys
    Workloads,      \* WorkloadRequirements
    Offers,         \* what a caller may offer: target -> CandidateTarget
    Actuals,        \* what a run may report to have used
    MaxRevision     \* bound: changes of the book

Unknown == -1
Shares == {"cpu", "ram", "disk", "inodes", "gpu", "lanes"}

\* What a workload asks for is positive, memory and disk are always asked for;
\* evidence is a number or Unknown, a path is mounted once, and use is counted.
ASSUME BookAssumption ==
    /\ \A w \in Workloads :
          /\ w.headroom \in Nat
          /\ \A d \in Shares \ {"lanes"} : w.amount[d] \in (Nat \ {0}) \cup {Unknown}
          /\ \A d \in {"ram", "disk"} : w.amount[d] # Unknown
    /\ \A offer \in Offers : \A t \in DOMAIN offer :
          LET c == offer[t] IN
          /\ {c.maxLanes, c.activeLanes, c.threads, c.ram, c.cgroupFree} \subseteq Int
          /\ c.ramReserved \in Nat
          /\ IsFiniteSet(c.gpus) /\ \A g \in c.gpus : g.free \in Int /\ g.reserved \in Int
          /\ c.path \in Seq(STRING)
          /\ \A m \in c.mounts :
                /\ m.path \in Seq(STRING)
                /\ {m.bytes, m.quotaFree, m.inodes, m.reserved} \subseteq Int
                /\ \A other \in c.mounts : other.path = m.path => other = m
    /\ Actuals \subseteq [Shares -> Nat]

VARIABLES
    bookRevision,   \* _revision
    rows,           \* _reservations, by number
    keyed,          \* _by_idempotency: key -> number, 0 for none
    offered         \* the offer the last step reserved from, if it did

bookVars == <<bookRevision, rows, keyed, offered>>

-----------------------------------------------------------------------------
(* Workloads and usage *)

\* P90 plus headroom, in percent; the counts have none.
Needed(w, d) ==
    IF d = "lanes" THEN 1
    ELSE IF w.amount[d] = Unknown THEN 0
    ELSE w.amount[d]
            + (IF d \in {"ram", "disk", "gpu"} THEN (w.amount[d] * w.headroom) \div 100 ELSE 0)
Needs(w) == [d \in Shares |-> Needed(w, d)]

\* usage_by_target: the larger of promise and use, summed over a target's rows.
MutCharge(row, d) == row.reserved[d]      \* mutant: use above the promise is not charged
Charge(row, d) == Max({row.reserved[d], row.actual[d]})
ActiveOn(t) == {n \in DOMAIN rows : rows[n].state = "active" /\ rows[n].target = t}
Usage(t) == [d \in Shares |->
                SumFunction([n \in ActiveOn(t) |-> Charge(rows[n], d)])]

-----------------------------------------------------------------------------
(* resolve_mount and evaluate_placement: disk evidence of one exact path *)

\* The mount listed at the path, else the deepest one above it except the root.
MountsOf(c) ==
    LET exact == {m \in c.mounts : m.path = c.path}
        above == {m \in c.mounts : m.path # << >> /\ IsPrefix(m.path, c.path)}
    IN  IF exact # {} THEN exact
        ELSE {m \in above : \A other \in above : Len(other.path) <= Len(m.path)}

FreeBytes(m) == IF m.quota = "none" THEN m.bytes ELSE Min({m.bytes, m.quotaFree})
MountFits(m, w, used) ==
    /\ m.probed /\ m.fresh /\ m.writable
    /\ m.bytes # Unknown
    /\ m.quota = "known" \/ m.quota = "none"
    /\ w.amount["inodes"] # Unknown =>
          m.inodes # Unknown /\ m.inodes - used["inodes"] >= w.amount["inodes"]
    /\ FreeBytes(m) - m.reserved - Needed(w, "disk") - used["disk"] >= 0

-----------------------------------------------------------------------------
(* assess_candidate: every gate that must hold *)

MemoryFree(c) ==
    LET group == IF c.cgroup = "known" THEN {Max({0, c.cgroupFree})} ELSE {}
    IN  Min({c.ram} \cup group) - c.ramReserved
MemoryFits(c, w, used) ==
    /\ c.ramFresh /\ c.ram # Unknown
    /\ c.cgroup # "half"
    /\ Max({0, MemoryFree(c) - used["ram"]}) >= Needed(w, "ram")

\* All promises are charged against the best device that is known.
Devices(c) == {g \in c.gpus : g.fresh /\ g.free # Unknown}
GpuFits(c, w, used) ==
    w.amount["gpu"] # Unknown =>
        /\ Devices(c) # {}
        /\ Max({0, Max({g.free - g.reserved : g \in Devices(c)}) - used["gpu"]}) >= Needed(w, "gpu")

CpuFits(c, w, used) ==
    w.amount["cpu"] # Unknown =>
        c.threads # Unknown /\ c.threads - used["cpu"] >= w.amount["cpu"]

Eligible(c, w, used) ==
    /\ c.ready = "yes"
    /\ c.remote => c.route = "yes"
    /\ w.capabilities \subseteq c.capabilities
    /\ c.maxLanes - c.activeLanes - used["lanes"] >= 1
    /\ CpuFits(c, w, used)
    /\ MemoryFits(c, w, used)
    /\ \E m \in MountsOf(c) : MountFits(m, w, used)
    /\ GpuFits(c, w, used)

\* rank_candidates over the book's own usage.
Placeable(offer, w) == {t \in DOMAIN offer : Eligible(offer[t], w, Usage(t))}

-----------------------------------------------------------------------------
(* ReservationBook *)

NoUse == [d \in Shares |-> 0]
NoOffer == << >>

\* reserve_best with a new key: the caller may insist on a revision.  A known
\* key returns its reservation or a conflict, a blocked plan returns no
\* reservation: neither changes the book.
ReserveBest(key, w, offer, expected) ==
    /\ keyed[key] = 0
    /\ expected \in {Unknown, bookRevision}
    /\ bookRevision < MaxRevision
    /\ \E t \in Placeable(offer, w) :
          LET number == bookRevision + 1
              row == [key |-> key, workload |-> w, target |-> t, fence |-> number,
                      state |-> "active", reserved |-> Needs(w), actual |-> NoUse,
                      overage |-> FALSE]
          IN  /\ rows' = [n \in DOMAIN rows \cup {number} |->
                             IF n = number THEN row ELSE rows[n]]
              /\ keyed' = [keyed EXCEPT ![key] = number]
              /\ bookRevision' = number
              /\ offered' = offer

\* reconcile: a holder of the fence reports its use; a row that has ended only
\* answers the very report that ended it.  cancel reports no use.
Reconcile(n, fence, actual, ending) ==
    /\ rows[n].fence = fence
    /\ rows[n].state = "active"
    /\ bookRevision < MaxRevision
    /\ LET updated == [rows[n] EXCEPT
              !.actual = actual,
              !.overage = \E d \in Shares : actual[d] > rows[n].reserved[d],
              !.state = IF ending = "none" THEN "active" ELSE ending]
       IN  /\ updated # rows[n]
           /\ rows' = [rows EXCEPT ![n] = updated]
    /\ bookRevision' = bookRevision + 1
    /\ offered' = NoOffer
    /\ UNCHANGED keyed

Cancel(n, fence) == Reconcile(n, fence, NoUse, "cancelled")

BookInit ==
    /\ bookRevision = 0
    /\ rows = << >>
    /\ keyed = [k \in Keys |-> 0]
    /\ offered = NoOffer

BookNext ==
    \/ \E key \in Keys, w \in Workloads, offer \in Offers, expected \in {Unknown} \cup 0..MaxRevision :
          ReserveBest(key, w, offer, expected)
    \/ \E n \in DOMAIN rows, fence \in 1..MaxRevision :
          \/ \E actual \in Actuals, ending \in {"none", "completed", "cancelled"} :
                Reconcile(n, fence, actual, ending)
          \/ Cancel(n, fence)

BookSpec == BookInit /\ [][BookNext]_bookVars

-----------------------------------------------------------------------------
(* Properties *)

\* What a target has for this scheduler at most, by the evidence of one offer.
Capacity(c, d) ==
    CASE d = "lanes" -> c.maxLanes - c.activeLanes
      [] d = "cpu" -> c.threads
      [] d = "ram" -> (IF c.cgroup = "known" THEN Min({c.ram, c.cgroupFree}) ELSE c.ram) - c.ramReserved
      [] d = "disk" -> LET m == CHOOSE x \in MountsOf(c) : TRUE
                       IN  FreeBytes(m) - m.reserved
      [] d = "inodes" -> (CHOOSE x \in MountsOf(c) : TRUE).inodes
      [] d = "gpu" -> Max({g.free - g.reserved : g \in Devices(c)})

Asked(w) == {d \in Shares : d = "lanes" \/ w.amount[d] # Unknown}

\* A promise is only made where it fits on top of everything promised or used
\* there, and what has ended stays as it was reported: however reservations,
\* overages, replays and late reports interleave, right after reserve_best the
\* target's active rows together fit the evidence the plan was made from, in
\* every amount the new workload asks for, and reconcile changes no row that
\* has ended, no other holder's row and no key.
PromisesFit ==
    [][/\ \A n \in DOMAIN rows' \ DOMAIN rows :
             LET row == rows'[n]
                 there == {k \in DOMAIN rows' : rows'[k].state = "active"
                                                /\ rows'[k].target = row.target}
             IN  \A d \in Asked(row.workload) :
                    SumFunction([k \in there |-> Max({rows'[k].reserved[d], rows'[k].actual[d]})])
                        <= Capacity(offered'[row.target], d)
       /\ \A n \in DOMAIN rows :
             /\ rows[n].state # "active" => rows'[n] = rows[n]
             /\ keyed'[rows[n].key] = n
             /\ rows'[n].reserved = rows[n].reserved /\ rows'[n].target = rows[n].target]_bookVars

\* Targets of one host share it; their promises together need not fit.
HostPromisesFit ==
    \A h \in {offered[t].host : t \in DOMAIN offered} :
       LET here == {t \in DOMAIN offered : offered[t].host = h}
           held == {n \in DOMAIN rows : rows[n].state = "active" /\ rows[n].target \in here}
       IN  MapThenSumSet(LAMBDA n : Charge(rows[n], "ram"), held)
              <= Max({Capacity(offered[t], "ram") : t \in here})
=============================================================================
