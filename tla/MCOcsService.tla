---------------------------- MODULE MCOcsService ----------------------------
(* Instances of OcsService for TLC. *)
EXTENDS OcsService, FiniteSets

CONSTANTS n1, n2, n3, r1, r2, r3, alice, bob

\* Two thirds of three nodes, or both of two.
MCQuorums == {Q \in SUBSET Nodes : 3 * Cardinality(Q) >= 2 * Cardinality(Nodes)}

Write(ok, readers) ==
    [kind |-> "ots", sharesOK |-> ok, readers |-> readers, doc |-> 0, signer |-> alice]

LtsWrite ==
    [kind |-> "lts", sharesOK |-> TRUE, readers |-> {alice}, doc |-> 0, signer |-> alice]

Read(who, doc) ==
    [kind |-> "read", sharesOK |-> TRUE, readers |-> {}, doc |-> doc, signer |-> who]

\* A valid and an invalid write, reads of that write by a reader and by another,
\* and a read of the genesis block.
MCPayloads ==
    {Write(TRUE, {alice}), Write(FALSE, {alice}), LtsWrite,
     Read(alice, 2), Read(bob, 2), Read(alice, 1)}

MCSmallPayloads == {Write(TRUE, {alice}), Read(alice, 2)}

\* A later start: CreateSkipchains has answered, the blocks of c were appended and
\* have reached every node, and nothing is under way.
QuietInit(c) ==
    /\ chain = c
    /\ busy = None
    /\ votes = NoVotes
    /\ stored = [n \in Nodes |-> 1..Len(c)]
    /\ fwd = [n \in Nodes |-> 1..(Len(c) - 1)]
    /\ latest = [n \in Nodes |-> Len(c)]
    /\ shared = Nodes
    /\ disk = [n \in Nodes |->
                 IF Len(c) > 1 THEN Snapshot(n) ELSE NothingSaved]
    /\ inbox = [n \in Nodes |-> {}]
    /\ fetching = [n \in Nodes |-> {}]
    /\ saving = [n \in Nodes |-> {}]
    /\ pc = [r \in Requests |-> "idle"]
    /\ at = [r \in Requests |-> Leader]
    /\ body = [r \in Requests |-> GenesisBlock]
    /\ base = [r \in Requests |-> 0]
    /\ block = [r \in Requests |-> 0]
    /\ create = "replied"
    /\ dkg = "complete"
    /\ deals = {}

CreatedInit == QuietInit(<<GenesisBlock>>)

CreatedSpec == CreatedInit /\ [][Next]_vars

CreatedFairSpec == CreatedSpec /\ Fairness

=============================================================================
