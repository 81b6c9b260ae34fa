------------------------------ MODULE Overlay ------------------------------
(***************************************************************************)
(* The overlays of a set of onet servers: how a protocol message finds the *)
(* tree, the roster and the protocol instance it is for, on a server that  *)
(* has none of them yet.                                                   *)
(*                                                                         *)
(* A tree stands for one round of a protocol on that tree, so on a server  *)
(* it is also the token of the one instance of that round.  Two goroutines *)
(* of a server transmit messages: the router's, which handles one message  *)
(* after the other (the dispatcher is locked meanwhile), and the one of    *)
(* checkPendingMessages (pendingMsgLock).                                  *)
(***************************************************************************)
EXTENDS Naturals, Sequences, FiniteSets

CONSTANTS
    Servers,
    Trees,
    Root,       \* the server at the root of each tree
    RosterOf,   \* the roster each tree is made of
    Sends,      \* bound: <<tree, from, to>> -> the messages of the protocol
    Local,      \* <<server, tree>> where a simulation hands the tree to the server
    Refusing,   \* <<server, tree>> where the service may refuse the instance
    Finishing,  \* <<server, tree>> where the protocol may call Done
    Faulty,     \* the servers that may shut down or restart, once
    Nothing     \* the ID of an empty tree or roster

ASSUME OverlayAssumption ==
    /\ Root \in [Trees -> Servers]
    /\ DOMAIN RosterOf = Trees
    /\ Nothing \notin Servers \cup Trees \cup {RosterOf[t] : t \in Trees}
    /\ DOMAIN Sends \subseteq Trees \X Servers \X Servers
    /\ Sends \in [DOMAIN Sends -> Nat]
    /\ Local \subseteq Servers \X Trees
    /\ Refusing \subseteq Servers \X Trees
    /\ Finishing \subseteq Servers \X Trees
    /\ Faulty \subseteq Servers

VARIABLES
    net,        \* the messages between two servers, in the order of their sending
    trees,      \* the trees each overlay knows
    rosters,    \* the rosters it knows
    pendingMsg, \* the messages that wait for their tree
    pendingTree,\* pendingTreeMarshal: the trees that wait for their roster
    treeLocked, \* whether pendingTreeLock stays locked
    checks,     \* the trees for which a checkPendingMessages has not run yet
    configs,    \* pendingConfigs: the tokens a config has arrived for
    instances,  \* the tokens with a TreeNodeInstance
    protocols,  \* protocolInstances: those with a ProtocolInstance bound to it
    finished,   \* instancesInfo: those that are done
    started,    \* history: how many protocol instances were started for a token
    firstFrom,  \* history: whose message an instance was created for
    configured, \* history: the tokens whose instance got a config
    worker,     \* where the two goroutines are, and with which message
    sent,       \* how many messages were sent
    got,        \* history: the messages passed to ProcessProtocolMsg
    failed      \* the servers that have shut down or restarted

local == <<trees, rosters, pendingMsg, pendingTree, treeLocked, checks, configs>>
tokens == <<instances, protocols, finished, started, firstFrom, configured>>
vars == <<net, local, tokens, worker, sent, got, failed>>

Workers == {"router", "pending"}
Idle == [pc |-> "idle", msg |-> Nothing]
Msg(kind, id, from, nr) == [kind |-> kind, id |-> id, from |-> from, nr |-> nr]

Init ==
    /\ net = [l \in Servers \X Servers |-> <<>>]
    /\ trees = [s \in Servers |-> {}]
    /\ rosters = [s \in Servers |-> {}]
    /\ pendingMsg = [s \in Servers |-> <<>>]
    /\ pendingTree = [s \in Servers |-> {}]
    /\ treeLocked = [s \in Servers |-> FALSE]
    /\ checks = [s \in Servers |-> {}]
    /\ configs = [s \in Servers |-> {}]
    /\ instances = [s \in Servers |-> {}]
    /\ protocols = [s \in Servers |-> {}]
    /\ finished = [s \in Servers |-> {}]
    /\ started = [s \in Servers |-> [t \in Trees |-> 0]]
    /\ firstFrom = [s \in Servers |-> [t \in Trees |-> Nothing]]
    /\ configured = [s \in Servers |-> {}]
    /\ worker = [s \in Servers |-> [w \in Workers |-> Idle]]
    /\ sent = [l \in DOMAIN Sends |-> 0]
    /\ got = [s \in Servers |-> <<>>]
    /\ failed = {}

-----------------------------------------------------------------------------
Add(f, s, x) == [f EXCEPT ![s] = @ \cup {x}]
Goes(s, w, pc, m) == worker' = [worker EXCEPT ![s][w] = [pc |-> pc, msg |-> m]]
Returns(s, w) == worker' = [worker EXCEPT ![s][w] = Idle]

\* The trees some message waits for, or is about to wait for.
Awaited(s) ==
    {pendingMsg[s][i].id : i \in DOMAIN pendingMsg[s]}
        \cup (IF worker[s]["router"].pc = "request" THEN {worker[s]["router"].msg.id} ELSE {})

\* Mutation: a tree that is known already is not looked at again.
OnlyNew(s, ts) == (ts \ trees[s]) \cap Awaited(s)

\* RegisterTree starts a goroutine that looks for messages that wait for the tree; one
\* that cannot find any is left out.
ToCheck(s, ts) == ts \cap Awaited(s)

RegisterTrees(s, ts) ==
    /\ trees' = [trees EXCEPT ![s] = @ \cup ts]
    /\ checks' = [checks EXCEPT ![s] = @ \cup ToCheck(s, ts)]

\* CreateProtocol on the root, with its NewTreeNodeInstanceFromService: tree, roster
\* and bound instance are there before its Dispatch starts.
CreateProtocol(t) ==
    LET s == Root[t] IN
    /\ started[s][t] = 0 /\ s \notin failed
    /\ RegisterTrees(s, {t})
    /\ rosters' = Add(rosters, s, RosterOf[t])
    /\ instances' = Add(instances, s, t)
    /\ protocols' = Add(protocols, s, t)
    /\ started' = [started EXCEPT ![s][t] = 1]
    /\ UNCHANGED <<net, pendingMsg, pendingTree, treeLocked, configs, finished, firstFrom,
                   configured, worker, sent, got, failed>>

\* SimulationBFTree.Node hands the tree of the simulation to the overlay.
Node(s, t) ==
    /\ <<s, t>> \in Local /\ t \notin trees[s]
    /\ RegisterTrees(s, {t})
    /\ rosters' = Add(rosters, s, RosterOf[t])
    /\ UNCHANGED <<net, pendingMsg, pendingTree, treeLocked, configs, tokens, worker,
                   sent, got, failed>>

Running(s, t) == started[s][t] > 0 /\ t \notin finished[s]

\* Mutation: the config follows the message.
ConfigLast(t, s, m) == <<m, Msg("config", t, s, 0)>>

\* SendToTreeNode for the first message to a node: the config of the service that
\* started the protocol goes first.
ConfigFirst(t, s, m) == <<Msg("config", t, s, 0), m>>

SendTo(t, s, d) ==
    LET m == Msg("proto", t, s, sent[<<t, s, d>>] + 1)
        first == sent[<<t, s, d>>] = 0 /\ s = Root[t] IN
    /\ Running(s, t)
    /\ sent[<<t, s, d>>] < Sends[<<t, s, d>>]
    /\ sent' = [sent EXCEPT ![<<t, s, d>>] = @ + 1]
    /\ net' = [net EXCEPT ![<<s, d>>] = @ \o IF first THEN ConfigFirst(t, s, m) ELSE <<m>>]
    /\ UNCHANGED <<local, tokens, worker, got, failed>>

-----------------------------------------------------------------------------
(* Overlay.Process, called by the router for the next message of a connection. *)

Received(s, d, kind) ==
    /\ net[<<s, d>>] # <<>> /\ Head(net[<<s, d>>]).kind = kind
    /\ worker[d]["router"] = Idle

Taken(s, d) == [net EXCEPT ![<<s, d>>] = Tail(@)]
Answered(s, d, m) == [Taken(s, d) EXCEPT ![<<d, s>>] = Append(@, m)]

handleConfigMessage(s, d) ==
    /\ Received(s, d, "config")
    /\ net' = Taken(s, d)
    /\ configs' = Add(configs, d, Head(net[<<s, d>>]).id)
    /\ UNCHANGED <<trees, rosters, pendingMsg, pendingTree, treeLocked, checks, tokens, worker,
                   sent, got, failed>>

\* A tree that is not known is answered with an empty one.
handleRequestTree(s, d) ==
    LET t == Head(net[<<s, d>>]).id IN
    /\ Received(s, d, "reqTree")
    /\ net' = Answered(s, d, Msg("tree", IF t \in trees[d] THEN t ELSE Nothing, d, 0))
    /\ UNCHANGED <<local, tokens, worker, sent, got, failed>>

handleRequestRoster(s, d) ==
    LET r == Head(net[<<s, d>>]).id IN
    /\ Received(s, d, "reqRoster")
    /\ net' = Answered(s, d, Msg("roster", IF r \in rosters[d] THEN r ELSE Nothing, d, 0))
    /\ UNCHANGED <<local, tokens, worker, sent, got, failed>>

\* A handler that needs pendingTreeLock and does not get it never returns.
WaitsForLock(d, needed) ==
    IF needed /\ treeLocked[d] THEN Goes(d, "router", "blocked", Nothing) ELSE UNCHANGED worker

\* A tree whose roster is not known waits for it.
handleSendTree(s, d) ==
    LET t == Head(net[<<s, d>>]).id IN
    /\ Received(s, d, "tree")
    /\ \/ /\ t = Nothing
          /\ net' = Taken(s, d)
          /\ UNCHANGED <<trees, checks, pendingTree>>
       \/ /\ t # Nothing /\ RosterOf[t] \notin rosters[d]
          /\ net' = Answered(s, d, Msg("reqRoster", RosterOf[t], d, 0))
          /\ pendingTree' = IF treeLocked[d] THEN pendingTree ELSE Add(pendingTree, d, t)
          /\ UNCHANGED <<trees, checks>>
       \/ /\ t # Nothing /\ RosterOf[t] \in rosters[d]
          /\ net' = Taken(s, d)
          /\ RegisterTrees(d, {t})
          /\ UNCHANGED pendingTree
    /\ WaitsForLock(d, t # Nothing /\ RosterOf[t] \notin rosters[d])
    /\ UNCHANGED <<rosters, pendingMsg, treeLocked, configs, tokens, sent, got, failed>>

\* checkPendingTreeMarshal leaves the list of a roster as it is,
StillPending(d, r) == pendingTree[d]

\* and returns with the lock held if there is none.
checkPendingTreeMarshal(d, r) ==
    LET ready == {t \in pendingTree[d] : RosterOf[t] = r} IN
    IF treeLocked[d] THEN UNCHANGED <<treeLocked, pendingTree, trees, checks>>
    ELSE /\ treeLocked' = [treeLocked EXCEPT ![d] = ready = {}]
         /\ pendingTree' = [pendingTree EXCEPT ![d] = StillPending(d, r)]
         /\ RegisterTrees(d, ready)

handleSendRoster(s, d) ==
    LET r == Head(net[<<s, d>>]).id IN
    /\ Received(s, d, "roster")
    /\ net' = Taken(s, d)
    /\ IF r = Nothing
       THEN UNCHANGED <<rosters, trees, checks, pendingTree, treeLocked>>
       ELSE rosters' = Add(rosters, d, r) /\ checkPendingTreeMarshal(d, r)
    /\ WaitsForLock(d, r # Nothing)
    /\ UNCHANGED <<pendingMsg, configs, tokens, sent, got, failed>>

\* TransmitMsg looks for the tree first.
ProcessMsg(s, d) ==
    LET m == Head(net[<<s, d>>]) IN
    /\ Received(s, d, "proto")
    /\ net' = Taken(s, d)
    /\ Goes(d, "router", IF m.id \in trees[d] THEN "transmit" ELSE "request", m)
    /\ UNCHANGED <<local, tokens, sent, got, failed>>

-----------------------------------------------------------------------------
\* requestTree; savePendingMsg waits while checkPendingMessages is at work.
requestTree(s) ==
    LET m == worker[s]["router"].msg IN
    /\ worker[s]["router"].pc = "request"
    /\ worker[s]["pending"] = Idle
    /\ pendingMsg' = [pendingMsg EXCEPT ![s] = Append(@, m)]
    /\ net' = [net EXCEPT ![<<s, m.from>>] = Append(@, Msg("reqTree", m.id, s, 0))]
    /\ Returns(s, "router")
    /\ UNCHANGED <<trees, rosters, pendingTree, treeLocked, checks, configs, tokens, sent,
                   got, failed>>

\* The list without its i-th message.
Without(list, i) == SubSeq(list, 1, i - 1) \o SubSeq(list, i + 1, Len(list))

\* The first message that waits for tree t.
FirstPending(s, t) ==
    {i \in DOMAIN pendingMsg[s] :
        pendingMsg[s][i].id = t /\ \A j \in 1..i - 1 : pendingMsg[s][j].id # t}

checkPendingMessages(s, t) ==
    /\ t \in checks[s] /\ worker[s]["pending"] = Idle
    /\ checks' = [checks EXCEPT ![s] = @ \ {t}]
    /\ Goes(s, "pending", "next", Msg("tree", t, s, 0))
    /\ UNCHANGED <<net, trees, rosters, pendingMsg, pendingTree, treeLocked, configs, tokens, sent,
                   got, failed>>

\* The loop takes the messages for its tree one by one; the others become the new list.
\* Nobody sees the list before the loop has ended.
NextPending(s) ==
    LET t == worker[s]["pending"].msg.id IN
    /\ worker[s]["pending"].pc = "next"
    /\ \/ \E i \in FirstPending(s, t) :
            /\ pendingMsg' = [pendingMsg EXCEPT ![s] = Without(@, i)]
            /\ Goes(s, "pending", "transmit", pendingMsg[s][i])
       \/ /\ FirstPending(s, t) = {}
          /\ Returns(s, "pending") /\ UNCHANGED pendingMsg
    /\ UNCHANGED <<net, trees, rosters, pendingTree, treeLocked, checks, configs, tokens, sent, got,
                   failed>>

-----------------------------------------------------------------------------
\* The end of TransmitMsg: back to the router or to the next message for the tree.
Ends(s, w) ==
    IF w = "router" THEN Returns(s, w) ELSE Goes(s, w, "next", worker[s][w].msg)

\* Mutation: no mutual exclusion of the two goroutines.
NoMux(s, w) == TRUE

\* transmitMux is free.
transmitMux(s, w) == \A v \in Workers \ {w} : worker[s][v].pc \notin {"create", "register"}

\* An instance that is done ignores the message, one that exists gets it.
TransmitMsg(s, w) ==
    LET m == worker[s][w].msg IN
    /\ worker[s][w].pc = "transmit"
    /\ transmitMux(s, w)
    /\ \/ /\ m.id \in finished[s]
          /\ Ends(s, w) /\ UNCHANGED got
       \/ /\ m.id \in protocols[s] \ finished[s]
          /\ got' = [got EXCEPT ![s] = Append(@, m)]
          /\ Ends(s, w)
       \/ /\ m.id \notin protocols[s] \cup finished[s]
          /\ Goes(s, w, "create", m) /\ UNCHANGED got
    /\ UNCHANGED <<net, local, tokens, sent, failed>>

\* newTreeNodeInstanceFromToken, getConfig, newProtocol and the start of Dispatch.
CreateInstance(s, w) ==
    LET m == worker[s][w].msg IN
    /\ worker[s][w].pc = "create"
    /\ instances' = Add(instances, s, m.id)
    /\ configs' = [configs EXCEPT ![s] = @ \ {m.id}]
    /\ \/ /\ <<s, m.id>> \in Refusing
          /\ Ends(s, w)
          /\ UNCHANGED <<started, firstFrom, configured>>
       \/ /\ started' = [started EXCEPT ![s][m.id] = @ + 1]
          /\ firstFrom' = [firstFrom EXCEPT ![s][m.id] = m.from]
          /\ configured' = IF m.id \in configs[s] THEN Add(configured, s, m.id) ELSE configured
          /\ Goes(s, w, "register", m)
    /\ UNCHANGED <<net, trees, rosters, pendingMsg, pendingTree, treeLocked, checks, protocols,
                   finished, sent, got, failed>>

\* RegisterProtocolInstance fails if Dispatch has already called Done.
RegisterProtocolInstance(s, w) ==
    LET m == worker[s][w].msg IN
    /\ worker[s][w].pc = "register"
    /\ IF m.id \in instances[s]
       THEN /\ protocols' = Add(protocols, s, m.id)
            /\ got' = [got EXCEPT ![s] = Append(@, m)]
       ELSE UNCHANGED <<protocols, got>>
    /\ Ends(s, w)
    /\ UNCHANGED <<net, local, instances, finished, started, firstFrom, configured, sent,
                   failed>>

\* nodeDelete of each of the tokens; their entries in protocolInstances stay.
nodeDelete(s, ts) ==
    /\ finished' = [finished EXCEPT ![s] = @ \cup (ts \cap instances[s])]
    /\ instances' = [instances EXCEPT ![s] = @ \ ts]

DoneInstance(s, t) ==
    /\ <<s, t>> \in Finishing /\ Running(s, t)
    /\ nodeDelete(s, {t})
    /\ UNCHANGED <<net, local, protocols, started, firstFrom, configured, worker, sent,
                   got, failed>>

-----------------------------------------------------------------------------
\* A server that shuts down closes its overlay first.
CloseOverlay(s) ==
    /\ s \in Faulty \ failed
    /\ nodeDelete(s, instances[s])
    /\ failed' = failed \cup {s}
    /\ UNCHANGED <<net, local, protocols, started, firstFrom, configured, worker, sent, got>>

\* A restart loses everything but what the others have sent and not yet received.
Restart(s) ==
    /\ s \in Faulty \ failed
    /\ failed' = failed \cup {s}
    /\ net' = [l \in Servers \X Servers |-> IF l[2] = s THEN <<>> ELSE net[l]]
    /\ trees' = [trees EXCEPT ![s] = {}]
    /\ rosters' = [rosters EXCEPT ![s] = {}]
    /\ pendingMsg' = [pendingMsg EXCEPT ![s] = <<>>]
    /\ pendingTree' = [pendingTree EXCEPT ![s] = {}]
    /\ treeLocked' = [treeLocked EXCEPT ![s] = FALSE]
    /\ checks' = [checks EXCEPT ![s] = {}]
    /\ configs' = [configs EXCEPT ![s] = {}]
    /\ instances' = [instances EXCEPT ![s] = {}]
    /\ protocols' = [protocols EXCEPT ![s] = {}]
    /\ finished' = [finished EXCEPT ![s] = {}]
    /\ started' = [started EXCEPT ![s] = [t \in Trees |-> 0]]
    /\ firstFrom' = [firstFrom EXCEPT ![s] = [t \in Trees |-> Nothing]]
    /\ configured' = [configured EXCEPT ![s] = {}]
    /\ worker' = [worker EXCEPT ![s] = [w \in Workers |-> Idle]]
    /\ UNCHANGED <<sent, got>>

Handle(s, d) ==
    \/ handleConfigMessage(s, d) \/ handleRequestTree(s, d) \/ handleRequestRoster(s, d)
    \/ handleSendTree(s, d) \/ handleSendRoster(s, d) \/ ProcessMsg(s, d)

Pending(s) == NextPending(s) \/ \E t \in Trees : checkPendingMessages(s, t)

Transmit(s, w) == TransmitMsg(s, w) \/ CreateInstance(s, w) \/ RegisterProtocolInstance(s, w)

Next ==
    \/ \E t \in Trees : CreateProtocol(t)
    \/ \E s \in Servers, t \in Trees : Node(s, t) \/ DoneInstance(s, t)
    \/ \E l \in DOMAIN Sends : SendTo(l[1], l[2], l[3])
    \/ \E s, d \in Servers : Handle(s, d)
    \/ \E s \in Servers : requestTree(s) \/ Pending(s)
    \/ \E s \in Servers, w \in Workers : Transmit(s, w)
    \/ \E s \in Servers : CloseOverlay(s) \/ Restart(s)

Spec == Init /\ [][Next]_vars

\* The router's and the other goroutines of a server run, and a message that was sent
\* arrives.  Protocols need not send anything and need not end.
FairSpec ==
    /\ Spec
    /\ \A s, d \in Servers : WF_vars(Handle(s, d))
    /\ \A s \in Servers : WF_vars(requestTree(s)) /\ WF_vars(Pending(s))
    /\ \A s \in Servers, w \in Workers : WF_vars(Transmit(s, w))

-----------------------------------------------------------------------------
\* checkPendingTreeMarshal returns without unlocking when no tree waits for the
\* roster.  Rosters are only sent on request, and a request is only made for a tree
\* that then waits for ever: no overlay locks itself up, whoever restarts.
NeverLeftLocked == \A s \in Servers : s \notin failed => ~treeLocked[s]

\* However the two goroutines of a server interleave, with Done before the instance
\* is registered or with messages that come after Done, at most one protocol instance
\* is started for a token.
OneInstance == \A s \in Servers, t \in Trees : started[s][t] <= 1

\* No message is passed to an instance twice, although the messages that wait for a
\* tree are looked for whenever the tree comes, and it may come several times.
NotTwice ==
    \A s \in Servers : \A i, j \in DOMAIN got[s] : got[s][i] = got[s][j] => i = j

\* An instance that is created for a message of the root got the config that was sent
\* before that message, if neither of the two servers has failed.  A service that
\* refuses an instance has used the config up: the next message comes without.
ConfigInTime ==
    \A s \in Servers \ failed, t \in Trees :
        firstFrom[s][t] = Root[t] /\ Root[t] \notin failed /\ <<s, t>> \notin Refusing
            => t \in configured[s]

\* A message between two servers that do not fail reaches its instance, unless that
\* is done: neither the tree nor the message is forgotten while one waits for the other.
Delivered ==
    []<>(\A l \in DOMAIN Sends :
            {l[2], l[3]} \cap Faulty = {} /\ <<l[3], l[1]>> \notin Refusing =>
                \A n \in 1..sent[l] :
                    \/ \E i \in DOMAIN got[l[3]] : got[l[3]][i] = Msg("proto", l[1], l[2], n)
                    \/ l[1] \in finished[l[3]])

\* What handleSendTree says of a tree whose roster it has to ask for: "put the tree
\* marshal into pending queue so when we receive the entitylist we can create the
\* real Tree".  Not so on a server that has restarted while a roster was on its way.
PendingTreeCreated ==
    \A s, d \in Servers, t \in Trees :
        Received(s, d, "tree") /\ Head(net[<<s, d>>]).id = t /\ d \in failed
            ~> t \in trees[d]

(* A message is handled once and with its configuration, and no handler returns with a *)
(* lock that the next one needs.                                                       *)
HandledInTime == NeverLeftLocked /\ NotTwice /\ ConfigInTime

=============================================================================
