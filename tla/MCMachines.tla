----------------------------- MODULE MCMachines -----------------------------
(***************************************************************************)
(* Small instances of the machines that share no state with the others: run *)
(* segments, the worker's spool, the JSON queue, packages and their         *)
(* catalogue, the provenance ledger, the memory governor, remote            *)
(* preparation, the tunnel, the git integrator and the fake replay.  A      *)
(* behaviour is one machine's own; the rest keep their initial state.       *)
(***************************************************************************)
EXTENDS RunSegments, WorkerSpool, ContinuityQueue, PackageStore, PackageCatalog,
        ProvenanceLedger, ResourceGovernor, PrepareTransport, TLC,
        TunnelSupervisor, ProjectIntegrator, FakeReplay

\* The memory governor: three lanes, one of them twice as large.
MCCandidates == <<"j1", "j2", "j3">>
MCRam == [j \in {"j1", "j2", "j3"} |-> IF j = "j3" THEN 2 ELSE 1]
MCRamP90 == [j \in {"j1", "j2", "j3"} |-> 2]
MCReadings == {<<"normal", 3>>, <<"normal", 5>>, <<"conserve", 2>>, <<"critical", 0>>}

VARIABLE machine    \* the machine this behaviour is about

Machines == {"segments", "spool", "queue", "packages", "catalog", "ledger", "governor",
             "prepare", "tunnel", "integrator", "replay"}
vars == <<svars, spoolVars, queueVars, packageVars, catalogVars, ledgerVars,
          governorVars, transportVars, tunnelVars, integratorVars, replayVars,
          machine>>

MCInit ==
    /\ machine \in Machines
    /\ SInit /\ SpoolInit /\ QueueInit /\ PackageInit
    /\ CatalogInit /\ LedgerInit /\ GovernorInit /\ TransportInit
    /\ TunnelInit /\ IntegratorInit /\ ReplayInit
    /\ machine # "spool" => disk = [a \in Artifacts |-> "missing"]
    /\ machine # "replay" => policy = "greedy"

MCNext ==
    \/ /\ machine = "segments" /\ SNext
       /\ UNCHANGED <<spoolVars, queueVars, packageVars, catalogVars, ledgerVars,
                      governorVars, transportVars, tunnelVars,
                      integratorVars, replayVars, machine>>
    \/ /\ machine = "spool" /\ SpoolNext
       /\ UNCHANGED <<svars, queueVars, packageVars, catalogVars, ledgerVars,
                      governorVars, transportVars, tunnelVars,
                      integratorVars, replayVars, machine>>
    \/ /\ machine = "queue" /\ QueueNext
       /\ UNCHANGED <<svars, spoolVars, packageVars, catalogVars, ledgerVars,
                      governorVars, transportVars, tunnelVars,
                      integratorVars, replayVars, machine>>
    \/ /\ machine = "packages" /\ PackageNext
       /\ UNCHANGED <<svars, spoolVars, queueVars, catalogVars, ledgerVars,
                      governorVars, transportVars, tunnelVars,
                      integratorVars, replayVars, machine>>
    \/ /\ machine = "catalog" /\ CatalogNext
       /\ UNCHANGED <<svars, spoolVars, queueVars, packageVars, ledgerVars,
                      governorVars, transportVars, tunnelVars,
                      integratorVars, replayVars, machine>>
    \/ /\ machine = "ledger" /\ LedgerNext
       /\ UNCHANGED <<svars, spoolVars, queueVars, packageVars, catalogVars,
                      governorVars, transportVars, tunnelVars,
                      integratorVars, replayVars, machine>>
    \/ /\ machine = "governor" /\ GovernorNext
       /\ UNCHANGED <<svars, spoolVars, queueVars, packageVars, catalogVars,
                      ledgerVars, transportVars, tunnelVars,
                      integratorVars, replayVars, machine>>
    \/ /\ machine = "prepare" /\ TransportNext
       /\ UNCHANGED <<svars, spoolVars, queueVars, packageVars, catalogVars,
                      ledgerVars, governorVars, tunnelVars,
                      integratorVars, replayVars, machine>>
    \/ /\ machine = "tunnel" /\ TunnelNext
       /\ UNCHANGED <<svars, spoolVars, queueVars, packageVars, catalogVars,
                      ledgerVars, governorVars, transportVars,
                      integratorVars, replayVars, machine>>
    \/ /\ machine = "integrator" /\ IntegratorNext
       /\ UNCHANGED <<svars, spoolVars, queueVars, packageVars, catalogVars,
                      ledgerVars, governorVars, transportVars,
                      tunnelVars, replayVars, machine>>
    \/ /\ machine = "replay" /\ ReplayNext
       /\ UNCHANGED <<svars, spoolVars, queueVars, packageVars, catalogVars,
                      ledgerVars, governorVars, transportVars,
                      tunnelVars, integratorVars, machine>>

MCSpec == MCInit /\ [][MCNext]_vars

-----------------------------------------------------------------------------
\* ContinuityQueue: j2 depends on j1, whose artifact already exists; j3 has no attempts.
MCNeeds == "j1" :> {} @@ "j2" :> {"j1"} @@ "j3" :> {}
MCLegs == "j1" :> <<"local", "ssh">> @@ "j2" :> <<"local">> @@ "j3" :> << >>

\* PackageStore: version 2 of a needs version 2 of b.
MCDepends == [c \in {"a", "b"} \X {1, 2} |->
    CASE c = <<"a", 2>> -> {<<"b", {2}>>}
      [] c = <<"a", 1>> -> {<<"b", {1, 2}>>}
      [] OTHER -> {}]

\* PackageCatalog: cycles, optional dependencies and constraints that only meet
\* after backtracking.
Dep(name, accepts, optional) == [name |-> name, accepts |-> accepts, optional |-> optional]
MCManifests == [c \in (1..3) \X (1..2) |->
    CASE c[1] = 1 -> {{}, {Dep(2, {1}, FALSE)}, {Dep(2, {1, 2}, FALSE), Dep(3, {1, 2}, FALSE)}}
      [] c[1] = 2 -> {{}, {Dep(3, {1}, FALSE)}, {Dep(3, {2}, TRUE)}, {Dep(1, {1, 2}, FALSE)}}
      [] c = <<3, 1>> -> {{}, {Dep(1, {1, 2}, TRUE)}}
      [] OTHER -> {{}}]
MCRoots == {{Dep(1, {1, 2}, FALSE)}, {Dep(1, {1, 2}, FALSE), Dep(3, {1}, FALSE)}}

MCKinds == {<<"completed", "none">>, <<"validation", "passed">>, <<"validation", "failed">>,
            <<"review", "approve">>}

\* PrepareTransport: approvals 1 and 2 differ only locally.
MCProjection == 1 :> "p1" @@ 2 :> "p1" @@ 3 :> "p3"

\* ProjectIntegrator: b on top of a; somebody commits h beside them.
MCParentOf == "a" :> "r" @@ "b" :> "a" @@ "h" :> "r"

\* FakeReplay: two models of a calendar pool and a rolling one, one of a pool
\* without a window whose quota is not displayed; job 3 arrives too late.
SimWindow(kind, cap, length) == [kind |-> kind, cap |-> cap, length |-> length]
MCWindowOf == <<SimWindow("calendar", 1, 3), SimWindow("rolling", 1, 2), SimWindow("none", 0, 1)>>
MCArrival == <<0, 1, 4>>
MCPoolOf == <<1, 1, 2, 3>>
MCCost == <<1, 2, 2, 3>>
MCWorkersOf == "h1" :> {"s1", "s2"}
=============================================================================
