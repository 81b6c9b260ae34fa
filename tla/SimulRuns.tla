----------------------------- MODULE SimulRuns -----------------------------
(***************************************************************************)
(* The experiment: RunTests runs the configurations one after the other on *)
(* the local platform.  RunTest starts a monitor, the platform starts one  *)
(* goroutine for each server, and Wait ends when a server fails or all are *)
(* done.  The platform object, its WaitGroup and the connection to the     *)
(* monitor are shared by all runs, so that what is left of an earlier run  *)
(* can meet a later one.                                                   *)
(***************************************************************************)
EXTENDS Naturals, Sequences, FiniteSets

CONSTANTS
    MaxRuns,        \* the number of configurations
    SimHosts,       \* the servers of a run
    RunConfigs      \* configurations: hosts, bf and depth, 0 where not given

VARIABLES
    rpc,        \* where RunTests is
    cur,        \* the run it is at
    rc,         \* the configuration, the same for all runs
    hostSt,     \* the goroutine of each server, by run
    wgRun,      \* the WaitGroup of the platform
    errChan,    \* the error channel of each run
    waitSt,     \* Wait of each run, and the goroutine in it that waits for the group
    connected,       \* the run whose monitor the measures go to, or 0
    mon,        \* the monitor of each run
    meas,       \* the measures in the statistics of each run
    rows,       \* the rows written
    expired     \* the runs that timed out

run_vars == <<rpc, cur, rc, hostSt, wgRun, errChan, waitSt, connected, mon, meas, rows, expired>>

AllRuns == 1..MaxRuns

-----------------------------------------------------------------------------
Least(S) == CHOOSE x \in S : \A y \in S : x <= y

calcHosts(bf, depth) == IF bf = 1 THEN depth + 1 ELSE (bf ^ (depth + 1) - 1) \div (bf - 1)

\* What CheckHosts cannot complete stops the program.
Incomplete(c) ==
    \/ c.hosts = 0 /\ (c.depth = 0 \/ c.bf = 0)
    \/ c.bf = 0 /\ (c.depth = 0 \/ c.hosts = 0)

CheckHosts(c) ==
    LET hosts == IF c.hosts = 0 THEN calcHosts(c.bf, c.depth) ELSE c.hosts
        bf == IF c.bf = 0 THEN Least({b \in 1..hosts : calcHosts(b, c.depth) >= hosts}) ELSE c.bf
        depth == IF c.depth = 0 THEN Least({d \in 1..hosts : calcHosts(bf, d) >= hosts}) ELSE c.depth
    IN [hosts |-> hosts, bf |-> bf, depth |-> depth]

-----------------------------------------------------------------------------
NoConfig == [hosts |-> 0, bf |-> 0, depth |-> 0]

RunsInit ==
    /\ rpc = "off" /\ cur = 1 /\ rc = NoConfig /\ wgRun = 0 /\ connected = 0
    /\ hostSt = [r \in AllRuns |-> [h \in SimHosts |-> "no"]]
    /\ errChan = [r \in AllRuns |-> <<>>]
    /\ waitSt = [r \in AllRuns |-> [wait |-> "no", group |-> "no"]]
    /\ mon = [r \in AllRuns |-> "no"]
    /\ meas = [r \in AllRuns |-> {}]
    /\ rows = <<>> /\ expired = {}

\* startBuild: the configurations are read, RunTests runs.
startBuild(c) ==
    /\ rpc = "off" /\ rpc' = "loop" /\ rc' = c
    /\ UNCHANGED <<cur, hostSt, wgRun, errChan, waitSt, connected, mon, meas, rows, expired>>

\* The wait of startBuild for RunTests ends, whatever run it is at.
ExperimentTimeout ==
    /\ rpc \in {"loop", "start", "select"} /\ rpc' = "fatal"
    /\ UNCHANGED <<cur, rc, hostSt, wgRun, errChan, waitSt, connected, mon, meas, rows, expired>>

\* RunTest up to Deploy, whose end adds the servers to the group; then the monitor listens.
Deploy ==
    /\ rpc = "loop" /\ cur <= MaxRuns /\ ~Incomplete(rc)
    /\ rc' = CheckHosts(rc)
    /\ wgRun' = wgRun + Cardinality(SimHosts)
    /\ mon' = [mon EXCEPT ![cur] = "listening"]
    /\ rpc' = "start"
    /\ UNCHANGED <<cur, hostSt, errChan, waitSt, connected, meas, rows, expired>>

DeployFails ==
    /\ rpc = "loop" /\ cur <= MaxRuns /\ ~Incomplete(rc)
    /\ rc' = CheckHosts(rc)
    /\ cur' = cur + 1
    /\ UNCHANGED <<rpc, hostSt, wgRun, errChan, waitSt, connected, mon, meas, rows, expired>>

CheckHostsFatal ==
    /\ rpc = "loop" /\ cur <= MaxRuns /\ Incomplete(rc)
    /\ rpc' = "fatal"
    /\ UNCHANGED <<cur, rc, hostSt, wgRun, errChan, waitSt, connected, mon, meas, rows, expired>>

\* Start: the program stops when it is still connected to the monitor of an earlier run.
Start ==
    /\ rpc = "start"
    /\ IF connected # 0
       THEN rpc' = "fatal" /\ UNCHANGED <<connected, hostSt, waitSt>>
       ELSE /\ rpc' = "select"
            /\ connected' = cur
            /\ hostSt' = [hostSt EXCEPT ![cur] = [h \in SimHosts |-> "running"]]
            /\ waitSt' = [waitSt EXCEPT ![cur] = [wait |-> "waiting", group |-> "waiting"]]
    /\ UNCHANGED <<cur, rc, wgRun, errChan, mon, meas, rows, expired>>

\* The channel of the run deployed last, as the goroutines read it from the platform.
Deployed == Least({r \in AllRuns : mon[r] # "no" /\ \A s \in AllRuns : s > r => mon[s] = "no"})
HasErrRoom == Len(errChan[Deployed]) <= Cardinality(SimHosts)

\* A server records its measures, with whatever monitor the process is connected to.
HostRecord(r, h) ==
    /\ hostSt[r][h] = "running"
    /\ hostSt' = [hostSt EXCEPT ![r][h] = "recorded"]
    /\ meas' = IF connected # 0 /\ mon[connected] = "listening"
               THEN [meas EXCEPT ![connected] = @ \cup {<<r, h>>}] ELSE meas
    /\ UNCHANGED <<rpc, cur, rc, wgRun, errChan, waitSt, connected, mon, rows, expired>>

HostEnds(r, h) ==
    /\ hostSt[r][h] = "recorded"
    /\ hostSt' = [hostSt EXCEPT ![r][h] = "ended"]
    /\ wgRun' = wgRun - 1
    /\ UNCHANGED <<rpc, cur, rc, errChan, waitSt, connected, mon, meas, rows, expired>>

HostFails(r, h) ==
    /\ hostSt[r][h] = "running" /\ HasErrRoom
    /\ hostSt' = [hostSt EXCEPT ![r][h] = "failed"]
    /\ errChan' = [errChan EXCEPT ![Deployed] = Append(@, "err")]
    /\ wgRun' = wgRun - 1
    /\ UNCHANGED <<rpc, cur, rc, waitSt, connected, mon, meas, rows, expired>>

AllDone == wgRun = 0

\* The goroutine of Wait.
GroupDone(r) ==
    /\ waitSt[r].group = "waiting" /\ AllDone /\ HasErrRoom
    /\ waitSt' = [waitSt EXCEPT ![r].group = "done"]
    /\ errChan' = [errChan EXCEPT ![Deployed] = Append(@, "nil")]
    /\ UNCHANGED <<rpc, cur, rc, hostSt, wgRun, connected, mon, meas, rows, expired>>

\* Wait: the first error or the end of all, and the end of the measures is sent.
Wait(r) ==
    /\ waitSt[r].wait = "waiting" /\ errChan[r] # <<>>
    /\ waitSt' = [waitSt EXCEPT ![r].wait = Head(errChan[r])]
    /\ errChan' = [errChan EXCEPT ![r] = Tail(@)]
    /\ mon' = IF connected # 0 THEN [mon EXCEPT ![connected] = "ended"] ELSE mon
    /\ UNCHANGED <<rpc, cur, rc, hostSt, wgRun, connected, meas, rows, expired>>

\* The rest of EndAndCleanup, under the lock again, and RunTest's goroutine, which stops
\* the monitor after an error.
EndMonitor(r) ==
    /\ waitSt[r].wait \in {"err", "nil"}
    /\ connected' = 0
    /\ mon' = IF waitSt[r].wait = "err" THEN [mon EXCEPT ![r] = "ended"] ELSE mon
    /\ waitSt' = [waitSt EXCEPT ![r].wait = "over"]
    /\ UNCHANGED <<rpc, cur, rc, hostSt, wgRun, errChan, meas, rows, expired>>

\* RunTest returns the statistics and RunTests writes them.
RunDone ==
    /\ rpc = "select" /\ mon[cur] = "ended"
    /\ rows' = Append(rows, [run |-> cur, meas |-> meas[cur]])
    /\ cur' = cur + 1 /\ rpc' = "loop"
    /\ UNCHANGED <<rc, hostSt, wgRun, errChan, waitSt, connected, mon, meas, expired>>

\* Mutation: there is no timeout.
NoTimeout == FALSE

TimesOut == rpc = "select"

RunTimeout ==
    /\ TimesOut
    /\ mon' = [mon EXCEPT ![cur] = "ended"]
    /\ expired' = expired \cup {cur}
    /\ cur' = cur + 1 /\ rpc' = "loop"
    /\ UNCHANGED <<rc, hostSt, wgRun, errChan, waitSt, connected, meas, rows>>

RunsEnd ==
    /\ rpc = "loop" /\ cur > MaxRuns
    /\ rpc' = "end"
    /\ UNCHANGED <<cur, rc, hostSt, wgRun, errChan, waitSt, connected, mon, meas, rows, expired>>

RunsNext ==
    \/ \E c \in RunConfigs : startBuild(c)
    \/ ExperimentTimeout
    \/ Deploy \/ DeployFails \/ CheckHostsFatal \/ Start \/ RunDone \/ RunTimeout \/ RunsEnd
    \/ /\ rpc # "fatal"
       /\ \E r \in AllRuns :
            \/ GroupDone(r) \/ Wait(r) \/ EndMonitor(r)
            \/ \E h \in SimHosts : HostRecord(r, h) \/ HostEnds(r, h) \/ HostFails(r, h)

\* What goes on by itself: RunTests and the wait of RunTest; a server may hang.
Experiment == Deploy \/ CheckHostsFatal \/ Start \/ RunsEnd
RunOver == RunDone \/ RunTimeout

-----------------------------------------------------------------------------
(* As long as no server has failed and no run has timed out, the row of a run holds *)
(* the measures of all of its servers and of no other run: Wait sends the end only  *)
(* after every server is done.                                                      *)
RowsAreOwn == \A i \in DOMAIN rows :
    LET r == rows[i].run IN
    (/\ expired \cap (1..r) = {}
     /\ \A s \in 1..r, h \in SimHosts : hostSt[s][h] # "failed")
        => rows[i].meas = {<<r, h>> : h \in SimHosts}

\* The nodes of a tree with all its levels.
RECURSIVE NodesOfTree(_, _)
NodesOfTree(bf, depth) == IF depth = 0 THEN 1 ELSE bf ^ depth + NodesOfTree(bf, depth - 1)

(* The completed configuration has room for its hosts: a tree of that branching and *)
(* depth holds them, and one level less would not where the depth was left open.    *)
HostsFit == \A c \in RunConfigs : (~Incomplete(c) /\ rpc = "start") =>
    LET d == CheckHosts(c) IN
    /\ (c.depth = 0 \/ c.bf = 0 \/ c.hosts = 0) => NodesOfTree(d.bf, d.depth) >= d.hosts
    /\ (c.depth = 0 /\ d.depth > 1) => NodesOfTree(d.bf, d.depth - 1) < d.hosts

(* The experiment ends whatever the servers do, even when one hangs: every run is  *)
(* done or times out.                                                              *)
ExperimentEnds == []<>(rpc \in {"off", "end", "fatal"})

(* The runs of an experiment fit their servers, do not mix and come to an end.         *)
RunsPromise == []RowsAreOwn /\ []HostsFit /\ ExperimentEnds

=============================================================================
