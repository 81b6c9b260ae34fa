---------------------------- MODULE MCSimulation ----------------------------
(***************************************************************************)
(* The simulation framework for TLC: Monitor, Stats, Simulate, SimulRuns   *)
(* and RunFile.  They share no state: the module named by active runs, and *)
(* the others stay as they are at first.                                   *)
(***************************************************************************)
EXTENDS Monitor, Stats, Simulate, SimulRuns, RunFile, TLC

CONSTANTS h1, h2, h3, h4, p1, p2

\* A client of the monitor and two of the proxy.
MCMeasures == h4 :> 1 @@ p1 :> 1 @@ p2 :> 0

\* One measure is filtered at its median.
MCPercentiles == "f" :> 50

\* Four nodes on three servers, and the tree of CloseAll on the servers.
MCParentOf == [n \in 2..4 |-> IF n = 4 THEN 2 ELSE 1]
MCServerOf == <<h1, h2, h3, h3>>
MCCloseParent == [s \in {h2, h3} |-> h1]

\* Runs given by two of hosts, bf and depth, with enough hosts and without, and one that
\* is not complete.
RunConf(h, f, p) == [hosts |-> h, bf |-> f, depth |-> p]
MCRunConfigs == {RunConf(0, 2, 2), RunConf(6, 0, 2), RunConf(7, 2, 0), RunConf(0, 0, 2)}

\* Files with and without pairs, header and rows, with rows that are too short, blank or
\* too long, with a pair given twice, and with a row where a pair should be.
MCLower == [k \in {"Hosts", "hosts", "bf", "5", "6", ""} |-> IF k = "Hosts" THEN "hosts" ELSE k]
MCUnquoted == "" :> "" @@ "'5'" :> "5" @@ "5" :> "5" @@ "6" :> "6"
FilePair(k, v) == [kind |-> "pair", cells |-> <<k, v>>]
FileRow(cs) == [kind |-> "row", cells |-> cs]
FileComment == [kind |-> "comment", cells |-> <<"">>]
MCRunFiles ==
    {pairs \o <<Blank>> \o header \o body :
        pairs \in {<<>>, <<FilePair("Hosts", "'5'")>>,
                  <<FilePair("Hosts", "6"), FileComment, FilePair("hosts", "5")>>,
                  <<FileRow(<<"5">>)>>},
        header \in {<<>>, <<FileRow(<<"hosts", "bf">>)>>, <<Blank, FileRow(<<"bf", "hosts">>)>>},
        body \in UNION {[1..n -> {FileRow(<<"5">>), FileRow(<<"6", "5">>), Blank}] : n \in 0..3}
                \cup {<<FileRow(<<"5", "6", "5">>)>>}}
MCSimRanges == {<<NaN>>, <<1>>, <<1, NaN>>, <<0, 1>>, <<1, 2>>, <<NaN, 1>>, <<2, 1>>}

VARIABLE active   \* the module that runs

sim_all == <<mon_vars, stats_vars, sim_vars, run_vars, file_vars>>

MCSimInit == MonitorInit /\ StatsInit /\ SimInit /\ RunsInit /\ RunFileInit

MCSimNext ==
    \/ active = "monitor" /\ MonitorNext /\ UNCHANGED <<stats_vars, sim_vars, run_vars, file_vars>>
    \/ active = "stats" /\ StatsNext /\ UNCHANGED <<mon_vars, sim_vars, run_vars, file_vars>>
    \/ active = "simulate" /\ SimNext /\ UNCHANGED <<mon_vars, stats_vars, run_vars, file_vars>>
    \/ active = "runs" /\ RunsNext /\ UNCHANGED <<mon_vars, stats_vars, sim_vars, file_vars>>
    \/ active = "runfile" /\ RunFileNext /\ UNCHANGED <<mon_vars, stats_vars, sim_vars, run_vars>>

\* The fairness of the modules, for the one that runs.
MCSimFairness ==
    /\ \A k \in Clients : WF_mon_vars(active = "monitor" /\ ClientStep(k))
    /\ \A k \in Proxied : WF_mon_vars(active = "monitor" /\ ProxyStep(k))
    /\ \A p \in Peers : WF_mon_vars(active = "monitor" /\ PeerStep(p))
    /\ \A s \in SimServers : WF_sim_vars(active = "simulate" /\ ServerStep(s))
    /\ WF_sim_vars(active = "simulate" /\ RootStep)
    /\ \A n \in TreeNodes : WF_sim_vars(active = "simulate" /\ FuncC(n))
    /\ WF_sim_vars(active = "simulate" /\ ArrivalStep)
    /\ WF_run_vars(active = "runs" /\ Experiment)
    /\ WF_run_vars(active = "runs" /\ RunOver)

=============================================================================
