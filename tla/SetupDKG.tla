------------------------------ MODULE SetupDKG ------------------------------
(***************************************************************************)
(* One round of the SetupDKG protocol: the nodes of a roster generate a    *)
(* shared key.  The tree has depth one (see GenerateNaryTreeWithRoot), so  *)
(* every other node is a child of the root, and node 1 is the root.        *)
(*                                                                         *)
(* A message carries nothing but its kind and, for a response, the dealer  *)
(* it is about.  Every kind has its own channel, from which Dispatch takes *)
(* the messages in its own order; messages of one sender keep theirs.      *)
(***************************************************************************)
EXTENDS Naturals, Sequences, FiniteSets

CONSTANTS
    Size,           \* the length of the roster
    DkgThreshold,   \* the approvals a deal needs
    Wait,           \* whether the root waits for all others at the end
    Stopping        \* the nodes that may stop

ASSUME DkgAssumption ==
    /\ Size \in Nat \ {0, 1}
    /\ DkgThreshold \in 1..Size
    /\ Wait \in BOOLEAN
    /\ Stopping \subseteq 1..Size

Nodes == 1..Size
DkgRoot == 1
Others == Nodes \ {DkgRoot}

VARIABLES
    pc,           \* where Dispatch of a node is
    keys,         \* the nodes whose public key the root has got
    inits,        \* the nodes an Init message is under way to
    start,        \* the nodes with a StartDeal in their channel
    deals,        \* the dealers of the deals in a node's channel
    resps,        \* the dealers of the responses in its channel, for each sender
    comms,        \* the number of commits in its channel, for each sender
    verified,     \* the dealers whose deal a node has processed
    responded,    \* the responses it has processed: <<sender, dealer>>
    commit,       \* the nodes that have sent their commits
    secrets,      \* the commits a node has processed
    ncomms,       \* and how many that were
    setup,        \* the children with a WaitSetup in their channel
    waitReplies,  \* the children that have sent a WaitReply
    stopped       \* the nodes that have stopped

dkgVars == <<pc, keys, inits, start, deals, resps, comms, verified, responded, commit,
             secrets, ncomms, setup, waitReplies, stopped>>

DkgInit ==
    /\ pc = [n \in Nodes |-> "start"]
    /\ keys = {}
    /\ inits = {}
    /\ start = {}
    /\ deals = [n \in Nodes |-> {}]
    /\ resps = [n \in Nodes |-> [m \in Nodes |-> <<>>]]
    /\ comms = [n \in Nodes |-> [m \in Nodes |-> 0]]
    /\ verified = [n \in Nodes |-> {}]
    /\ responded = [n \in Nodes |-> {}]
    /\ commit = {}
    /\ secrets = [n \in Nodes |-> {}]
    /\ ncomms = [n \in Nodes |-> 0]
    /\ setup = {}
    /\ waitReplies = {}
    /\ stopped = {}

Up(n) == n \notin stopped

\* Multicast stops at the first node it cannot reach; a send to a node that has
\* stopped may also seem to succeed.
Multicast == {Nodes} \cup {{n \in Nodes : n < d} : d \in stopped}

\* The deals are in a map: the order in which they are sent is arbitrary.
SendDeals == {Nodes} \cup (IF stopped = {} THEN {} ELSE SUBSET (Nodes \ stopped))

-----------------------------------------------------------------------------
\* Start: Broadcast to all but the root itself.
StartDKG ==
    /\ Up(DkgRoot) /\ inits = {} /\ keys = {}
    /\ inits' \in {to \ {DkgRoot} : to \in Multicast}
    /\ keys' = {DkgRoot}
    /\ UNCHANGED <<pc, start, deals, resps, comms, verified, responded, commit,
                   secrets, ncomms, setup, waitReplies, stopped>>

childInit(n) ==
    /\ Up(n) /\ n \in inits
    /\ inits' = inits \ {n}
    /\ keys' = keys \cup {n}
    /\ UNCHANGED <<pc, start, deals, resps, comms, verified, responded, commit,
                   secrets, ncomms, setup, waitReplies, stopped>>

\* The replies are aggregated: the handler runs when all children have answered.
rootStartDeal ==
    /\ Up(DkgRoot) /\ keys = Nodes
    /\ start = {} /\ pc[DkgRoot] = "start"
    /\ start' \in Multicast
    /\ UNCHANGED <<pc, keys, inits, deals, resps, comms, verified, responded, commit,
                   secrets, ncomms, setup, waitReplies, stopped>>

\* A deal to every other node; the own one is processed by the key generator.
allStartDeal(n) ==
    /\ Up(n) /\ pc[n] = "start" /\ n \in start
    /\ pc' = [pc EXCEPT ![n] = "deals"]
    /\ \E to \in SendDeals :
           deals' = [m \in Nodes |-> deals[m] \cup (IF m \in to \ {n} THEN {n} ELSE {})]
    /\ verified' = [verified EXCEPT ![n] = {n}]
    /\ UNCHANGED <<keys, inits, start, resps, comms, responded, commit, secrets,
                   ncomms, setup, waitReplies, stopped>>

allDeal(n, d) ==
    /\ Up(n) /\ pc[n] = "deals" /\ d \in deals[n]
    /\ deals' = [deals EXCEPT ![n] = @ \ {d}]
    /\ verified' = [verified EXCEPT ![n] = @ \cup {d}]
    /\ pc' = [pc EXCEPT ![n] = IF verified'[n] = Nodes THEN "responses" ELSE @]
    /\ \E to \in Multicast :
           resps' = [m \in Nodes |->
                       IF m \in to THEN [resps[m] EXCEPT ![n] = Append(@, d)] ELSE resps[m]]
    /\ UNCHANGED <<keys, inits, start, comms, responded, commit, secrets, ncomms,
                   setup, waitReplies, stopped>>

\* The key generator: a node approves the deals it has processed, and a dealer its own.
Approvals(n, d) == {n, d} \cup {m \in Nodes : <<m, d>> \in responded'[n]}

\* DKG.SecretCommits succeeds once every deal has enough approvals.
SecretCommits(n) == \A d \in Nodes : Cardinality(Approvals(n, d)) >= DkgThreshold

\* Mutation: the commits are sent again with every further response.
CommitAgain(n) == TRUE

NotCommitted(n) == n \notin commit

\* Mutation: every node is taken to answer its own deal, too.
ResponsesOfAll(n) == Cardinality(responded'[n]) = Size * Size

AllResponses(n) == Cardinality(responded'[n]) = Size * (Size - 1)

\* The node's own response is a duplicate for its key generator: an error, which is as
\* good at any time and comes first here.
allResponse(n, m) ==
    /\ Up(n) /\ pc[n] = "responses" /\ resps[n][m] # <<>>
    /\ m = n \/ resps[n][n] = <<>>
    /\ resps' = [resps EXCEPT ![n][m] = Tail(@)]
    /\ responded' = [responded EXCEPT ![n] = @ \cup {<<m, Head(resps[n][m])>>}]
    /\ pc' = [pc EXCEPT ![n] = IF AllResponses(n) THEN "commits" ELSE @]
    /\ IF m # n /\ NotCommitted(n) /\ SecretCommits(n)
       THEN /\ commit' = commit \cup {n}
            /\ \E to \in Multicast :
                   comms' = [k \in Nodes |->
                               IF k \in to THEN [comms[k] EXCEPT ![n] = @ + 1] ELSE comms[k]]
       ELSE UNCHANGED <<commit, comms>>
    /\ UNCHANGED <<keys, inits, start, deals, verified, secrets, ncomms, setup,
                   waitReplies, stopped>>

\* After the last commit the root announces the end to its children and waits.
AfterCommits(n) ==
    IF ncomms[n] + 1 < Size THEN "commits" ELSE IF Wait THEN "wait" ELSE "finished"

allSecretCommit(n, m) ==
    /\ Up(n) /\ pc[n] = "commits" /\ comms[n][m] > 0
    /\ comms' = [comms EXCEPT ![n][m] = @ - 1]
    /\ secrets' = [secrets EXCEPT ![n] = @ \cup {m}]
    /\ ncomms' = [ncomms EXCEPT ![n] = @ + 1]
    /\ pc' = [pc EXCEPT ![n] = AfterCommits(n)]
    /\ IF n = DkgRoot /\ pc'[n] = "wait"
       THEN \E to \in Multicast : setup' = to \cap Others
       ELSE UNCHANGED setup
    /\ UNCHANGED <<keys, inits, start, deals, resps, verified, responded, commit,
                   waitReplies, stopped>>

\* Mutation: the WaitSetup message is answered before the commits are there.
RepliesEarly(n) == pc[n] \in {"commits", "wait"}

AtEnd(n) == pc[n] = "wait"

ChildWaits(n) ==
    /\ Up(n) /\ n \in setup \ waitReplies /\ AtEnd(n)
    /\ waitReplies' = waitReplies \cup {n}
    /\ pc' = [pc EXCEPT ![n] = IF @ = "wait" THEN "finished" ELSE @]
    /\ UNCHANGED <<keys, inits, start, deals, resps, comms, verified, responded,
                   commit, secrets, ncomms, setup, stopped>>

RootWaits ==
    /\ Up(DkgRoot) /\ pc[DkgRoot] = "wait"
    /\ waitReplies = Others
    /\ pc' = [pc EXCEPT ![DkgRoot] = "finished"]
    /\ UNCHANGED <<keys, inits, start, deals, resps, comms, verified, responded,
                   commit, secrets, ncomms, setup, waitReplies, stopped>>

StopNode(n) ==
    /\ n \in Stopping \ stopped
    /\ stopped' = stopped \cup {n}
    /\ UNCHANGED <<pc, keys, inits, start, deals, resps, comms, verified, responded,
                   commit, secrets, ncomms, setup, waitReplies>>

DkgStep(n) ==
    \/ childInit(n) \/ allStartDeal(n) \/ ChildWaits(n)
    \/ \E m \in Nodes : allDeal(n, m) \/ allResponse(n, m) \/ allSecretCommit(n, m)
    \/ n = DkgRoot /\ (StartDKG \/ rootStartDeal \/ RootWaits)

-----------------------------------------------------------------------------
\* DKG.Finished: the node has the commits of all.
Finished(n) == secrets[n] = Nodes

\* Dispatch counts the commits and does not look at who sent them; still nobody comes
\* to its end without the commits of every node, so nobody logs "protocol is finished
\* but dkg is not!".
EndIsFinished == \A n \in Nodes : pc[n] \in {"wait", "finished"} => Finished(n)

\* With Wait the root only ends when all nodes hold their part of the key, whoever
\* stops at whichever moment.
WaitIsBarrier == Wait /\ pc[DkgRoot] = "finished" => \A n \in Nodes : Finished(n)

\* If nobody stops, the key generation ends on all nodes.
KeyGenerated == []<>(keys # {} => stopped # {} \/ \A n \in Nodes : pc[n] = "finished")

=============================================================================
