-------------------------- MODULE MCDispatchPlanner --------------------------
EXTENDS DispatchPlanner, TLC

-----------------------------------------------------------------------------
(* Jobs: three that compete, and variations of the third *)

PlainTask ==
    [id |-> 1, priority |-> 2, minutes |-> 0, difficulty |-> 2, needs |-> {}, scope |-> <<"a">>,
     cpu |-> 2, ram |-> 2, disk |-> 1, gpu |-> 0, vram |-> 0, measured |-> TRUE, commands |-> {},
     serverFirst |-> FALSE, separate |-> FALSE, private |-> FALSE, allowLocal |-> FALSE,
     allowUnknown |-> FALSE, allowReserve |-> FALSE, cost |-> 4, pools |-> {}, notPools |-> {},
     hosts |-> {}, notHosts |-> {}, notExecution |-> {}, notWorkload |-> {}, exact |-> << >>,
     approved |-> {}, optIn |-> {}, requires |-> {}, serverLocal |-> TRUE, highStakes |-> FALSE,
     unreviewed |-> FALSE, data |-> [at |-> Missing, public |-> FALSE, size |-> "none", authorized |-> FALSE]]
ServerTask == [PlainTask EXCEPT !.id = 2, !.scope = <<"b">>, !.serverFirst = TRUE, !.cpu = 3, !.minutes = 20]
MCTasks == {
    {PlainTask, ServerTask, [ServerTask EXCEPT !.id = 3, !.scope = <<"c">>, !.gpu = 1, !.vram = 4]},
    {PlainTask, ServerTask, [PlainTask EXCEPT !.id = 3, !.scope = <<"a", "x">>, !.priority = 4, !.cost = 9]},
    {PlainTask, ServerTask, [PlainTask EXCEPT !.id = 3, !.scope = << >>, !.separate = TRUE, !.approved = {2, 3}]},
    {[PlainTask EXCEPT !.needs = {2}, !.exact = 3 :> 3, !.optIn = {3}],
     [ServerTask EXCEPT !.requires = {"clock", "network"}, !.difficulty = 4, !.allowUnknown = TRUE],
     [PlainTask EXCEPT !.id = 3, !.scope = <<"c">>, !.private = TRUE, !.ram = 5, !.priority = 1, !.allowReserve = TRUE]},
    {[ServerTask EXCEPT !.id = 1, !.data = [at |-> AtLaptop, public |-> FALSE, size |-> "bulk", authorized |-> TRUE]],
     [ServerTask EXCEPT !.hosts = {2}, !.notPools = {1}, !.approved = {2},
                        !.data = [at |-> AtLaptop, public |-> FALSE, size |-> "small", authorized |-> TRUE]],
     [PlainTask EXCEPT !.id = 3, !.scope = <<"c">>, !.measured = FALSE]}}

-----------------------------------------------------------------------------
(* Pools: codex, server_local and opencode, richer or poorer *)

Codex == [provider |-> "codex", health |-> "ready", remaining |-> 30, reserve |-> 20, unknownPolicy |-> "block",
          pilotCap |-> 5, maxConcurrency |-> 2, inflight |-> 0, catalog |-> {}, policyExcluded |-> {},
          rejected |-> {}, roleModels |-> << >>, default |-> 1, cliHost |-> Missing, host |-> Missing,
          maxDifficulty |-> 3, exhausted |-> FALSE, reset |-> 0]
ServerLocal == [Codex EXCEPT !.provider = "server_local", !.host = 2, !.reserve = 0, !.maxConcurrency = 1]
OpenCode == [Codex EXCEPT !.provider = "opencode", !.catalog = {2}, !.policyExcluded = {3},
             !.roleModels = <<2>>, !.maxConcurrency = 1, !.cliHost = 1]
MCPools == {
    <<Codex, ServerLocal>>,
    <<Codex, ServerLocal, OpenCode>>,
    <<[Codex EXCEPT !.remaining = Missing, !.unknownPolicy = "pilot"], [ServerLocal EXCEPT !.inflight = 1], OpenCode>>,
    <<[Codex EXCEPT !.health = "blocked", !.exhausted = TRUE, !.reset = 5],
      [ServerLocal EXCEPT !.host = Missing], [OpenCode EXCEPT !.rejected = {2}]>>}

-----------------------------------------------------------------------------
(* Hosts: the laptop and a server *)

Proof(status) == [status |-> status, age |-> "fresh"]
Laptop == [reachable |-> TRUE, local |-> TRUE, cpu |-> 4, ram |-> 6, disk |-> 8, mounts |-> {}, probed |-> "unknown",
           requireFresh |-> TRUE, projectWritable |-> TRUE, kernel |-> Proof("verified"), network |-> Proof("verified"),
           sync |-> Proof("synchronized"), clock |-> Proof("verified"), commands |-> {}, gpus |-> << >>, calm |-> TRUE,
           roomy |-> TRUE, launchAllowed |-> TRUE, maxConcurrency |-> 2, inflight |-> 0, score |-> 3]
Server == [Laptop EXCEPT !.local = FALSE, !.cpu = 6, !.ram = 7, !.gpus = <<8, 2>>, !.score = 4, !.probed = "fresh",
           !.mounts = {[writable |-> FALSE, preferred |-> FALSE, free |-> 90], [writable |-> TRUE, preferred |-> FALSE, free |-> 3]}]
MCHosts == {
    <<Laptop, Server>>,
    <<[Laptop EXCEPT !.maxConcurrency = 3, !.inflight = 2], Server>>,
    <<Laptop, [Server EXCEPT !.cpu = Missing, !.clock.age = "stale"]>>,
    <<[Laptop EXCEPT !.roomy = FALSE, !.maxConcurrency = 4], [Server EXCEPT !.reachable = FALSE]>>,
    <<[Laptop EXCEPT !.launchAllowed = FALSE], [Server EXCEPT !.probed = "unknown"]>>,
    <<Laptop, [Server EXCEPT !.mounts = {}, !.network.age = "missing", !.sync.status = "unsynchronized"]>>}

MCPlanInputs ==
    {[tasks |-> tasks, active |-> active, done |-> done, pools |-> pools, hosts |-> hosts,
      scores |-> [x \in (1..3) \X (1..3) |-> 10 + x[1] * x[2]]] :
        tasks \in MCTasks, pools \in MCPools, hosts \in MCHosts, active \in {{}, {3}}, done \in {{}, {2}}}
=============================================================================
