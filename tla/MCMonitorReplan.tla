--------------------------- MODULE MCMonitorReplan ---------------------------
(***************************************************************************)
(* Two workers: one runs here and computes on host h2, reached through the  *)
(* agent's host h1; the other runs on h2 altogether.                        *)
(***************************************************************************)
EXTENDS MonitorReplan

MCAgents ==
    {[job |-> "j1", pool |-> "p1", model |-> "m1", execution |-> "h1", workload |-> "h2", telemetry |-> TRUE],
     [job |-> "j2", pool |-> "p1", model |-> "m2", execution |-> "h2", workload |-> "h2", telemetry |-> FALSE]}
Fact(alive, artifact, log, moved) ==
    [alive |-> alive, artifact |-> artifact, log |-> log, moved |-> moved, outside |-> FALSE]
MCFacts ==
    {Fact("yes", FALSE, "none", TRUE), Fact("yes", FALSE, "none", FALSE),
     Fact("unknown", FALSE, "quota", TRUE), Fact("no", TRUE, "capability", FALSE)}
MCControls ==
    {[status |-> "none", error |-> "none", verified |-> FALSE],
     [status |-> "completed", error |-> "none", verified |-> TRUE]}
MCInput(status) ==
    [status |-> status, pools |-> {}, models |-> {}, execution |-> {}, workload |-> {}]
MCInputs == {"j1" :> MCInput("running") @@ "j2" :> MCInput("running") @@ "j3" :> MCInput("completed")}
=============================================================================
