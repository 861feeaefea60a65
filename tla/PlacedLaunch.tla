---------------------------- MODULE PlacedLaunch ----------------------------
(***************************************************************************)
(* A task packet placed on another host, from its evidence to its child     *)
(* (scripts/remote_cli_placement.py, desktop_split_placement.py,            *)
(* remote_resource_evidence.py, remote_cli_execution.py and the gates of    *)
(* sqlite_controller.py).  The contract is built from fresh evidence and    *)
(* attached to the packet, the packet is queued, admitted, launched, and on *)
(* the server the attempt is executed, each at a later time; between the    *)
(* steps other programs may rewrite the packet.                             *)
(* A digest is modelled by the value it was computed over; evidence that    *)
(* does not verify (not installed, not authenticated, no route, incomplete) *)
(* names the host "none".  The server runs one attempt at a time.           *)
(***************************************************************************)
EXTENDS Integers

CONSTANTS
    LocalHosts, SshHosts,
    CliRoutes,      \* the pools _REMOTE_CLI_ROUTES approves
    DesktopRoutes,  \* the pools _DESKTOP_ROUTES approves
    ServerRoutes,   \* the pools remote_cli_execution's _ROUTES approves
    Assignments,    \* assignments of a planner
    Probes,         \* evidence: [auth, route, resource], ages in place of times
    Receipts,       \* [capacity, quota] receipts of a packet, ages in place of times
    Rewrites(_),    \* what other programs may make of a packet
    Ttl, MaxSkew, MaxTime

VARIABLES
    moment,       \* the time
    contract,   \* the report of the builder: a contract, or "block"
    placed,     \* the packet, before it is queued
    queued,     \* the packet in the store and its state
    approval,   \* the authorization record
    execution,  \* run_once() on the server
    outcome     \* the result file and the receipt

placedVars == <<moment, contract, placed, queued, approval, execution, outcome>>

Unset == [none |-> TRUE]

PlacedInit ==
    /\ moment = 0
    /\ contract = Unset
    /\ placed = Unset
    /\ queued = [state |-> "none"]
    /\ approval = Unset
    /\ execution = [state |-> "idle"]
    /\ outcome = [result |-> "none", receipt |-> "none"]

\* An observation counts from a minute ahead of the clock to the end of its ttl.
FreshAt(e, now) == now - e.at <= Ttl /\ e.at - now <= MaxSkew

\* Capacity and quota receipts may not come from the future at all.
StillValid(r, now) == now - r.at <= Ttl /\ r.at <= now

\* What age-relative evidence says at the time it is read.
Dated(evidence) ==
    [f \in DOMAIN evidence |-> [evidence[f] EXCEPT !.at = moment - @]]

-----------------------------------------------------------------------------
\* Building a contract.

\* validate_remote_resource_evidence(): what was observed on the host that
\* bears the workload covers the request.
ResourceValid(e, plan, now) ==
    /\ e.host = plan.workload
    /\ FreshAt(e, now)
    /\ e.workspace = plan.workspace
    /\ plan.ram <= e.ram

\* The exact route, the hosts and the paths of both kinds of contract.
CliShape(c) ==
    /\ c.pool \in CliRoutes /\ c.exact
    /\ c.confined
    /\ c.execution \in SshHosts
    /\ c.auth.host = c.execution
    /\ c.route.host = c.execution

SplitShape(c) ==
    /\ c.pool \in DesktopRoutes /\ c.exact
    /\ c.confined
    /\ c.execution # c.workload
    /\ c.auth.host = c.execution
    /\ c.route.host = c.workload

PlanFields == {"kind", "pool", "exact", "confined", "execution", "workload",
               "workspace", "ram"}
PlanOf(r) == [f \in PlanFields |-> r[f]]

Draft(a, evidence) ==
    [f \in PlanFields \cup {"versioned", "auth", "route", "resource"} |->
        CASE f \in PlanFields -> a[f]
          [] f = "versioned" -> FALSE
          [] OTHER -> evidence[f]]

BuildAdmits(c) ==
    /\ FreshAt(c.auth, moment) /\ FreshAt(c.route, moment)
    /\ \/ c.kind = "cli" /\ CliShape(c)
       \/ /\ c.kind = "split" /\ SplitShape(c)
          /\ c.execution \in LocalHosts /\ c.workload \in SshHosts
          /\ ResourceValid(c.resource, c, moment)

Build(a, probe) ==
    /\ contract = Unset
    /\ contract' = LET c == Draft(a, Dated(probe)) IN
                   IF BuildAdmits(c) THEN c ELSE [none |-> FALSE]
    /\ UNCHANGED <<moment, placed, queued, approval, execution, outcome>>

\* A blocked report is dropped and built again.
Blocked == contract = [none |-> FALSE]
BuildAgain ==
    /\ Blocked
    /\ contract' = Unset
    /\ UNCHANGED <<moment, placed, queued, approval, execution, outcome>>

-----------------------------------------------------------------------------
\* The packet.

\* validate_remote_cli_placement_packet(), validate_desktop_split_...packet():
\* the digest, the shape and the projection, but no ttl: "leave freshness to
\* the claim-time resource admission gate".  A field that is missing is an error.
Ingress(p) ==
    /\ PlanFields \subseteq DOMAIN p.contract
    /\ p.sealed = p.contract
    /\ p.plan = PlanOf(p.contract)
    /\ \/ p.contract.kind = "cli" /\ CliShape(p.contract)
       \/ /\ p.contract.kind = "split" /\ SplitShape(p.contract)
          /\ p.resource = p.contract.resource
          /\ ResourceValid(p.resource, p.plan, p.resource.at)

\* A server-local packet takes its resource evidence from the preflight, a
\* split packet from its contract.
Attach(receipts) ==
    /\ contract # Unset /\ ~Blocked
    /\ placed = Unset
    /\ placed' = [contract |-> contract, sealed |-> contract, plan |-> PlanOf(contract),
                  resource |-> contract.resource,
                  capacity |-> Dated(receipts).capacity, quota |-> Dated(receipts).quota]
    /\ UNCHANGED <<moment, contract, queued, approval, execution, outcome>>

Rewrite ==
    /\ placed # Unset /\ queued.state = "none"
    /\ placed' \in Rewrites(placed)
    /\ UNCHANGED <<moment, contract, queued, approval, execution, outcome>>

EnqueuePlaced ==
    /\ placed # Unset /\ queued.state = "none"
    /\ Ingress(placed)
    /\ queued' = [state |-> "queued", packet |-> placed]
    /\ UNCHANGED <<moment, contract, placed, approval, execution, outcome>>

-----------------------------------------------------------------------------
\* The controller.

\* _packet_quota_snapshot(), validate_capacity_receipt(): a strict packet must
\* carry both, another one may do without.
QuotaValid(p, now) ==
    IF p.quota.pool = "absent" THEN ~p.quota.required
    ELSE /\ StillValid(p.quota, now)
         /\ p.quota.pool = p.plan.pool
         /\ p.quota.enough

CapacityCurrent(p, now) ==
    /\ StillValid(p.capacity, now)
    /\ p.capacity.bound /\ p.capacity.enough

CapacityValid(p, now) ==
    IF p.capacity.absent THEN ~p.capacity.required ELSE CapacityCurrent(p, now)

Admitted(p, now) ==
    /\ QuotaValid(p, now)
    /\ CapacityValid(p, now)
    /\ ResourceValid(p.resource, p.plan, now)

\* A refused job stays queued and is looked at again.
ReserveAndClaim ==
    /\ queued.state = "queued"
    /\ Admitted(queued.packet, moment)
    /\ queued' = [state |-> "claimed", packet |-> queued.packet, claimedAt |-> moment]
    /\ UNCHANGED <<moment, contract, placed, approval, execution, outcome>>

\* What "launch-time drift" means at the boundary of the child.
MutDrift(p) == ~QuotaValid(p, moment)

Drift(p) ==
    \/ ~p.capacity.absent /\ ~CapacityCurrent(p, moment)
    \/ ~QuotaValid(p, moment)

LaunchChild ==
    /\ queued.state = "claimed"
    /\ ~Drift(queued.packet)
    /\ queued' = [state |-> "launched", packet |-> queued.packet,
                  claimedAt |-> queued.claimedAt, launchedAt |-> moment]
    /\ UNCHANGED <<moment, contract, placed, approval, execution, outcome>>

LaunchFails ==
    /\ queued.state = "claimed"
    /\ Drift(queued.packet)
    /\ queued' = [state |-> "failed"]
    /\ UNCHANGED <<moment, contract, placed, approval, execution, outcome>>

-----------------------------------------------------------------------------
\* The server.

\* An operator stamps the contract with the schema version the adapter asks
\* for (the builder leaves it out) and approves exactly that contract.
Stamped(c) == [c EXCEPT !.versioned = TRUE]

Approve ==
    /\ queued.state = "launched" /\ approval = Unset
    /\ queued.packet.contract.kind = "cli"
    /\ approval' = [contract |-> Stamped(queued.packet.contract), at |-> moment]
    /\ UNCHANGED <<moment, contract, placed, queued, execution, outcome>>

\* run_once(execute=True) up to the child: _validate_contract() and
\* _validate_authorization() at one reading of the clock.
Authorized(c, auth, now) ==
    /\ c.versioned
    /\ c.pool \in ServerRoutes /\ c.exact /\ c.confined
    /\ c.auth.host = c.execution /\ FreshAt(c.auth, now)
    /\ c.route.host = c.execution /\ FreshAt(c.route, now)
    /\ auth.contract = c /\ FreshAt(auth, now)

RunOnce(c) ==
    /\ execution.state = "idle"
    /\ Authorized(c, approval, moment)
    /\ outcome.result = "none"
    /\ execution' = [state |-> "running", contract |-> c, since |-> moment]
    /\ UNCHANGED <<moment, contract, placed, queued, approval, outcome>>

\* The child may leave a result behind, however it ends; only a result that
\* can be read after exit status 0 completes the attempt.
RunEnds(status, left) ==
    /\ execution.state = "running"
    /\ status = "completed" => left = "text"
    /\ execution' = [execution EXCEPT !.state = "idle"]
    /\ outcome' = [result |-> left, receipt |-> status]
    /\ UNCHANGED <<moment, contract, placed, queued, approval>>

Elapse ==
    /\ moment < MaxTime
    /\ moment' = moment + 1
    /\ UNCHANGED <<contract, placed, queued, approval, execution, outcome>>

PlacedNext ==
    \/ \E a \in Assignments, probe \in Probes : Build(a, probe)
    \/ BuildAgain
    \/ \E receipts \in Receipts : Attach(receipts)
    \/ Rewrite \/ EnqueuePlaced
    \/ ReserveAndClaim \/ LaunchChild \/ LaunchFails
    \/ Approve
    \/ /\ approval # Unset
       /\ RunOnce(queued.packet.contract) \/ RunOnce(Stamped(queued.packet.contract))
    \/ \E status \in {"completed", "failed", "timed_out"}, left \in {"none", "empty", "text"} :
          RunEnds(status, left)
    \/ Elapse

PlacedSpec == PlacedInit /\ [][PlacedNext]_placedVars

-----------------------------------------------------------------------------
\* Evidence is checked where it is made, where it is queued, where it is
\* claimed and where it is used, and in between time passes and the packet may
\* be rewritten.  A child is launched only for a packet that still says what
\* its contract says, on an approved route, with its workload on a host whose
\* resources were observed within their ttl when it was claimed and cover the
\* request, under receipts that are current when the child starts; and a
\* provider's CLI is started only under evidence and an approval that are fresh
\* then (validate_*_placement_packet, _reserve_candidates, _execute_claim,
\* run_once).
LaunchesAreBacked ==
    /\ queued.state = "launched" =>
          LET p == queued.packet IN
          /\ p.plan = PlanOf(p.contract)
          /\ p.plan.exact /\ p.plan.confined
          /\ p.plan.pool \in CliRoutes \cup DesktopRoutes
          /\ p.resource.host = p.plan.workload /\ p.plan.ram <= p.resource.ram
          /\ queued.claimedAt - p.resource.at <= Ttl
          /\ ~p.capacity.absent => queued.launchedAt - p.capacity.at <= Ttl
          /\ p.quota.pool # "absent" =>
                p.quota.pool = p.plan.pool /\ queued.launchedAt - p.quota.at <= Ttl
    /\ execution.state = "running" =>
          LET c == execution.contract IN
          /\ approval.contract = c
          /\ \A e \in {c.auth, c.route, approval} : execution.since - e.at <= Ttl
          /\ PlanOf(c) = queued.packet.plan
=============================================================================
