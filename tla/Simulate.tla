------------------------------ MODULE Simulate ------------------------------
(***************************************************************************)
(* One run of a simulation: the root counts the nodes that are up until it *)
(* finds all of them (protocol Count), has every server set up its part,   *)
(* runs the simulation, and closes all servers (protocol CloseAll).        *)
(*                                                                         *)
(* A node of the tree is named with its parent; a server may hold several  *)
(* nodes (SingleHost), in which case CloseAll runs on a tree of its own.   *)
(* The instances of an earlier count cannot meet those of a later one,     *)
(* whose token is another: a new count starts afresh.                      *)
(***************************************************************************)
EXTENDS Naturals, FiniteSets, FiniteSetsExt

CONSTANTS
    TreeNodes, TopNode,     \* the nodes of the tree and its root
    ParentOf,               \* the parent of each node but the root
    ServerOf,               \* the server of each node
    CloseParent,            \* the tree of CloseAll: the parent of each server but the root's
    MaxDoublings            \* bound: how often the timeout doubles until no answer is later

VARIABLES
    phase,      \* what the root does
    up,         \* the servers that listen
    closedHosts,\* the servers that have closed
    inst,       \* the Count instance of each node
    replies,    \* Replies of the root
    countAt,     \* the Count messages each node has received, by child
    doublings,  \* how often the timeout was doubled
    setUp,      \* the servers that ran Node
    pendingInit,\* wgSimulInit
    closingAt,    \* what each server does in CloseAll
    simWire        \* the messages on their way

sim_vars == <<phase, up, closedHosts, inst, replies, countAt, doublings, setUp, pendingInit,
              closingAt, simWire>>

SimServers == {ServerOf[n] : n \in TreeNodes}
ChildrenOf(n) == {c \in TreeNodes \ {TopNode} : ParentOf[c] = n}
RootServer == ServerOf[TopNode]
ClosersOf(s) == {c \in SimServers \ {RootServer} : CloseParent[c] = s}

\* A message; of tells relayed ones apart.
Msg(type, from, to, of, count) == [type |-> type, from |-> from, to |-> to, of |-> of, count |-> count]

NoCounts == [n \in TreeNodes |-> {}]
NoInstances == [n \in TreeNodes |-> "none"]

SimInit ==
    /\ phase = "off" /\ up = {RootServer} /\ closedHosts = {} /\ inst = NoInstances
    /\ replies = 0 /\ countAt = NoCounts /\ doublings = 0 /\ setUp = {} /\ pendingInit = 0
    /\ closingAt = [s \in SimServers |-> "no"] /\ simWire = {}

\* The process of the root has loaded the configuration.
Simulate ==
    /\ phase = "off" /\ phase' = "idle"
    /\ UNCHANGED <<up, closedHosts, inst, replies, countAt, doublings, setUp, pendingInit, closingAt, simWire>>

\* server.Start of another process.
ServerUp(s) ==
    /\ s \notin up /\ phase # "off"
    /\ up' = up \cup {s}
    /\ UNCHANGED <<phase, closedHosts, inst, replies, countAt, doublings, setUp, pendingInit, closingAt, simWire>>

-----------------------------------------------------------------------------
(* Count *)

\* FuncPC: a node says that it is up and hands the request down.
FuncPC(n) ==
    (IF n = TopNode THEN {} ELSE {Msg("up", n, ParentOf[n], n, 0)})
        \cup {Msg("prepare", n, c, n, 0) : c \in ChildrenOf(n)}

\* CreateProtocol and Start, in the loop of Simulate.
StartCount ==
    /\ phase = "idle"
    /\ phase' = "count"
    /\ inst' = [NoInstances EXCEPT ![TopNode] = "waiting"]
    /\ simWire' = FuncPC(TopNode)
    /\ replies' = 0
    /\ countAt' = NoCounts
    /\ UNCHANGED <<up, closedHosts, doublings, setUp, pendingInit, closingAt>>

PrepareCount(m) ==
    /\ m \in simWire /\ m.type = "prepare" /\ ServerOf[m.to] \in up
    /\ inst' = [inst EXCEPT ![m.to] = "waiting"]
    /\ simWire' = (simWire \ {m}) \cup FuncPC(m.to)
    /\ UNCHANGED <<phase, up, closedHosts, replies, countAt, doublings, setUp, pendingInit, closingAt>>

\* The request to a server that does not listen yet is lost.
PrepareLost(m) ==
    /\ m \in simWire /\ m.type = "prepare" /\ ServerOf[m.to] \notin up
    /\ simWire' = simWire \ {m}
    /\ UNCHANGED <<phase, up, closedHosts, inst, replies, countAt, doublings, setUp, pendingInit, closingAt>>

\* Passed on to the root; an instance that is done drops it.
NodeIsUp(m) ==
    /\ m \in simWire /\ m.type = "up"
    /\ simWire' = (simWire \ {m}) \cup
         (IF m.to # TopNode /\ inst[m.to] = "waiting"
          THEN {[m EXCEPT !.from = m.to, !.to = ParentOf[m.to]]} ELSE {})
    /\ replies' = IF m.to = TopNode /\ inst[TopNode] = "waiting" THEN replies + 1 ELSE replies
    /\ UNCHANGED <<phase, up, closedHosts, inst, countAt, doublings, setUp, pendingInit, closingAt>>

CountArrives(m) ==
    /\ m \in simWire /\ m.type = "count"
    /\ countAt' = [countAt EXCEPT ![m.to] = @ \cup {m}]
    /\ simWire' = simWire \ {m}
    /\ UNCHANGED <<phase, up, closedHosts, inst, replies, doublings, setUp, pendingInit, closingAt>>

\* Mutation: the first answer is enough.
SomeCounts(n) == ChildrenOf(n) = {} \/ countAt[n] # {}

\* The answers of all children are handed over together; a leaf waits for none.
AllCounts(n) == Cardinality(countAt[n]) = Cardinality(ChildrenOf(n))

FoundAll(count) == count = Cardinality(TreeNodes)

\* What Simulate does with a count: go on, or double the timeout and count again.
CountedOnce(count) ==
    /\ phase' = IF FoundAll(count) THEN "broadcast" ELSE "idle"
    /\ doublings' = IF doublings < MaxDoublings THEN doublings + 1 ELSE doublings

\* FuncC: one more than what the children counted.  What the instances of this count still
\* send once the root is done reaches nobody.
FuncC(n) ==
    LET count == 1 + MapThenSumSet(LAMBDA m : m.count, countAt[n]) IN
    /\ inst[n] = "waiting" /\ AllCounts(n)
    /\ inst' = [inst EXCEPT ![n] = "done"]
    /\ IF n = TopNode THEN CountedOnce(count) /\ simWire' = {}
       ELSE /\ simWire' = simWire \cup {Msg("count", n, ParentOf[n], n, count)}
            /\ UNCHANGED <<phase, doublings>>
    /\ UNCHANGED <<up, closedHosts, replies, countAt, setUp, pendingInit, closingAt>>

\* The root gives up waiting; after enough doublings only when nothing more will come.
CountTimeout ==
    /\ phase = "count" /\ inst[TopNode] = "waiting"
    /\ doublings = MaxDoublings =>
        simWire = {} /\ \A n \in TreeNodes : ~(inst[n] = "waiting" /\ AllCounts(n))
    /\ inst' = [inst EXCEPT ![TopNode] = "done"]
    /\ CountedOnce(replies)
    /\ simWire' = {}
    /\ UNCHANGED <<up, closedHosts, replies, countAt, setUp, pendingInit, closingAt>>

-----------------------------------------------------------------------------
(* The set-up of every server, and the simulation itself *)

Broadcast ==
    /\ phase = "broadcast"
    /\ phase' = "init"
    /\ pendingInit' = Cardinality(SimServers)
    /\ simWire' = {Msg("init", RootServer, s, s, 0) : s \in SimServers}
    /\ UNCHANGED <<up, closedHosts, inst, replies, countAt, doublings, setUp, closingAt>>

\* sim.Node, and the answer.  (A send that failed would not be tried again.)
SimulInit(m) ==
    /\ m \in simWire /\ m.type = "init" /\ m.to \in up
    /\ setUp' = setUp \cup {m.to}
    /\ simWire' = (simWire \ {m}) \cup {Msg("initdone", m.to, RootServer, m.to, 0)}
    /\ UNCHANGED <<phase, up, closedHosts, inst, replies, countAt, doublings, pendingInit, closingAt>>

SimulInitDone(m) ==
    /\ m \in simWire /\ m.type = "initdone"
    /\ pendingInit' = pendingInit - 1
    /\ simWire' = simWire \ {m}
    /\ UNCHANGED <<phase, up, closedHosts, inst, replies, countAt, doublings, setUp, closingAt>>

AllInitialised == phase = "init" /\ pendingInit = 0

\* rootSim.Run; when it fails Simulate returns and nothing is closed.
Run(fails) ==
    /\ AllInitialised
    /\ phase' = IF fails THEN "failed" ELSE "run"
    /\ UNCHANGED <<up, closedHosts, inst, replies, countAt, doublings, setUp, pendingInit, closingAt, simWire>>

-----------------------------------------------------------------------------
(* CloseAll, whose nodes are servers *)

\* FuncPrepareClose
PrepareCloseAt(s) ==
    /\ closingAt' = [closingAt EXCEPT ![s] = IF ClosersOf(s) = {} THEN "report" ELSE "wait"]
    /\ simWire' = (simWire \ {m \in simWire : m.type = "prepareclose" /\ m.to = s})
                \cup {Msg("prepareclose", s, c, s, 0) : c \in ClosersOf(s)}

StartClose ==
    /\ phase = "run"
    /\ phase' = "close"
    /\ PrepareCloseAt(RootServer)
    /\ UNCHANGED <<up, closedHosts, inst, replies, countAt, doublings, setUp, pendingInit>>

PrepareClose(m) ==
    /\ m \in simWire /\ m.type = "prepareclose"
    /\ PrepareCloseAt(m.to)
    /\ UNCHANGED <<phase, up, closedHosts, inst, replies, countAt, doublings, setUp, pendingInit>>

ChildrenClose(s) == \A c \in ClosersOf(s) : Msg("close", c, s, c, 0) \in simWire

\* FuncClose, first half: the Close messages of all children have come, and one goes to
\* the parent, unless it no longer listens.
SendClose(s) ==
    /\ closingAt[s] = "report" \/ (closingAt[s] = "wait" /\ ChildrenClose(s))
    /\ closingAt' = [closingAt EXCEPT ![s] = "sleep"]
    /\ simWire' = {m \in simWire : ~(m.type = "close" /\ m.to = s)} \cup
         (IF s = RootServer \/ CloseParent[s] \in closedHosts THEN {}
          ELSE {Msg("close", s, CloseParent[s], s, 0)})
    /\ UNCHANGED <<phase, up, closedHosts, inst, replies, countAt, doublings, setUp, pendingInit>>

\* FuncClose, second half: the host closes after a second.
CloseHost(s) ==
    /\ closingAt[s] = "sleep"
    /\ closingAt' = [closingAt EXCEPT ![s] = "done"]
    /\ closedHosts' = closedHosts \cup {s}
    /\ phase' = IF s = RootServer THEN "closed" ELSE phase
    /\ simWire' = {m \in simWire : m.to # s}
    /\ UNCHANGED <<up, inst, replies, countAt, doublings, setUp, pendingInit>>

-----------------------------------------------------------------------------
\* What goes on by itself: the processes, the goroutines of the root, and the messages
\* on their way.
ServerStep(s) == ServerUp(s) \/ SendClose(s) \/ CloseHost(s)
RootStep == StartCount \/ CountTimeout \/ Broadcast \/ StartClose \/ \E fails \in BOOLEAN : Run(fails)
ArrivalStep == \E m \in simWire :
    \/ PrepareCount(m) \/ PrepareLost(m) \/ NodeIsUp(m) \/ CountArrives(m)
    \/ SimulInit(m) \/ SimulInitDone(m) \/ PrepareClose(m)

SimNext ==
    \/ Simulate
    \/ \E s \in SimServers : ServerStep(s)
    \/ RootStep
    \/ \E n \in TreeNodes : FuncC(n)
    \/ ArrivalStep

-----------------------------------------------------------------------------
(* The simulation runs only once every server listens and has set up its part. *)
RunAfterSetup ==
    phase \in {"run", "close", "closed", "failed"} => up = SimServers /\ setUp = SimServers

\* The servers below s in the tree of CloseAll.
RECURSIVE BelowOf(_)
BelowOf(s) == ClosersOf(s) \cup UNION {BelowOf(c) : c \in ClosersOf(s)}

(* Servers close from the leaves: when one closes, all those below have reported, so *)
(* that no Close is sent to a server that no longer listens.                         *)
ClosedFromLeaves ==
    \A s \in closedHosts : \A c \in BelowOf(s) : closingAt[c] \in {"sleep", "done"}

(* A simulation ends: the count finds all nodes however late their servers come up,  *)
(* and all servers are closed, unless the simulation itself fails.                   *)
SimulationEnds == []<>(phase \in {"off", "failed"} \/ closedHosts = SimServers)

(* A simulation starts when all servers are ready, closes them from the leaves, and ends. *)
SimulationPromise == []RunAfterSetup /\ []ClosedFromLeaves /\ SimulationEnds

=============================================================================
