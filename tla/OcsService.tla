----------------------------- MODULE OcsService -----------------------------
(***************************************************************************)
(* The access-control cothority: the `onchain-secrets` service on every    *)
(* node of one roster, its store of skipblocks (one SkipBlockBunch), and   *)
(* the skipchain the blocks are appended to.                               *)
(*                                                                         *)
(* A block is known by its position in the chain: position i is the block  *)
(* with Index i - 1, and stands for its hash.  The chains of this service  *)
(* are created with base and maximum height 1, so block i has one backlink *)
(* (to i - 1) and at most one forward link (to i + 1).                     *)
(*                                                                         *)
(* A handler runs as a thread of its own.  What it does while it holds     *)
(* saveMutex is one step; what it does between two critical sections (a    *)
(* call to the skipchain, a propagation) interleaves with everything else. *)
(***************************************************************************)
EXTENDS Naturals, Sequences

CONSTANTS
    Nodes,      \* the roster
    Leader,     \* the node that is asked to create the skipchain
    Entry,      \* the nodes that clients send write and read requests to
    Requests,   \* one identifier per write or read request
    Payloads,   \* the data clients may ask to have appended
    Quorums,    \* the sets of nodes whose agreement lets the skipchain append
    Faulty,     \* the nodes that may restart or be out of reach
    BadDisk,    \* the nodes on which saving and loading may fail
    None        \* no request

Genesis == 1

\* struct.go DataOCS: exactly one of Write ("lts"), OTSWrite ("ots") and Read is
\* set, none of them in the genesis block.  A nil and an empty list of readers
\* are the same to every reader.
Kinds == {"genesis", "lts", "ots", "read"}

GenesisBlock ==
    [kind |-> "genesis", sharesOK |-> TRUE, readers |-> {}, doc |-> 0, signer |-> None]

ASSUME RosterAssumption ==
    /\ Leader \in Nodes
    /\ Entry \subseteq Nodes
    /\ Faulty \subseteq Nodes
    /\ BadDisk \subseteq Nodes
    /\ None \notin Requests

ASSUME QuorumAssumption ==
    \A Q \in Quorums : Q \subseteq Nodes /\ Q # {}

ASSUME PayloadAssumption ==
    \A p \in Payloads :
        /\ p.kind \in {"lts", "ots", "read"}
        /\ p.sharesOK \in BOOLEAN
        /\ p.doc \in Nat

VARIABLES
    \* the skipchain (external)
    chain,      \* the blocks appended so far
    busy,       \* the request whose block is being appended, or None
    votes,      \* what each node's verifyOCS said of that block
    \* Storage on each node
    stored,     \* the positions in the node's bunch; empty: there is no bunch
    fwd,        \* the stored positions whose forward link the node knows
    latest,     \* bunch.Latest; 0: there is no bunch
    shared,     \* the nodes that hold their part of the distributed key
    disk,       \* what save() wrote last
    \* propagateOCS: blocks on their way to a node, and the handlers there
    inbox, fetching, saving,
    \* the request handlers
    pc, at, body, base, block,
    \* the CreateSkipchains handler and the key generation it starts
    create, dkg, deals

chainVars == <<chain, busy, votes>>
storeVars == <<stored, fwd, latest>>
propVars  == <<inbox, fetching, saving>>
reqVars   == <<pc, at, body, base, block>>
dkgVars   == <<create, dkg, deals, shared>>
vars == <<chainVars, storeVars, propVars, reqVars, dkgVars, disk>>

-----------------------------------------------------------------------------
Final == {"replied", "failed", "lost"}

NothingSaved == [stored |-> {}, fwd |-> {}, latest |-> 0, shared |-> FALSE]

NoVotes == [n \in Nodes |-> "none"]

Init ==
    /\ chain = <<>>
    /\ busy = None
    /\ votes = NoVotes
    /\ stored = [n \in Nodes |-> {}]
    /\ fwd = [n \in Nodes |-> {}]
    /\ latest = [n \in Nodes |-> 0]
    /\ shared = {}
    /\ disk = [n \in Nodes |-> NothingSaved]
    /\ inbox = [n \in Nodes |-> {}]
    /\ fetching = [n \in Nodes |-> {}]
    /\ saving = [n \in Nodes |-> {}]
    /\ pc = [r \in Requests |-> "idle"]
    /\ at = [r \in Requests |-> Leader]
    /\ body = [r \in Requests |-> GenesisBlock]
    /\ base = [r \in Requests |-> 0]
    /\ block = [r \in Requests |-> 0]
    /\ create = "none"
    /\ dkg = "none"
    /\ deals = {}

-----------------------------------------------------------------------------
(* The store: bunch.go *)

\* Mutation: the last block stored becomes Latest.
StoreBlockLast(n, b) ==
    /\ stored' = [stored EXCEPT ![n] = @ \cup {b}]
    /\ latest' = [latest EXCEPT ![n] = b]

\* SBBStorage.Store and SkipBlockBunch.Store of a block that carries no forward
\* link: a new block is added, and becomes Latest if its index is higher; the
\* first block creates the bunch and is its Latest, whatever its index.
StoreBlock(n, b) ==
    /\ stored' = [stored EXCEPT ![n] = @ \cup {b}]
    /\ latest' = [latest EXCEPT ![n] = IF b > @ THEN b ELSE @]

\* The same, of a block that carries its forward link: a known block gets the
\* link, a new one is stored with it.
StoreLinkedBlock(n, b) ==
    /\ StoreBlock(n, b)
    /\ fwd' = [fwd EXCEPT ![n] = @ \cup {b}]

\* Whether GetBunch(OCS) and then GetByID(OCS) both find something.
KnowsChain(n) == Genesis \in stored[n]

-----------------------------------------------------------------------------
(* Propagation: propagateOCS starts one propagateOCSFunc per node *)

\* One copy of block b is sent to every node, the sender included.  A node that is
\* out of reach gets none; propagateOCS counts fewer replies and returns no error.
SendToAll(b) ==
    \E missed \in SUBSET Faulty :
        inbox' = [n \in Nodes |-> IF n \in missed THEN inbox[n] ELSE inbox[n] \cup {b}]

\* The blocks whose backlinks the handler goes on to fetch: for the genesis block
\* it ends after its first critical section, without a save.
LinkedBack(b) == IF b = Genesis THEN {} ELSE {b}

\* Mutation: the backlinks are fetched before the block itself is stored.
PropagateStoreLate(n, b) ==
    /\ b \in inbox[n]
    /\ IF b = Genesis THEN StoreBlock(n, b) ELSE UNCHANGED <<stored, latest>>
    /\ inbox' = [inbox EXCEPT ![n] = @ \ {b}]
    /\ fetching' = [fetching EXCEPT ![n] = @ \cup LinkedBack(b)]
    /\ UNCHANGED <<chainVars, fwd, saving, reqVars, dkgVars, disk>>

\* propagateOCSFunc up to its first unlock.
PropagateStore(n, b) ==
    /\ b \in inbox[n]
    /\ StoreBlock(n, b)
    /\ inbox' = [inbox EXCEPT ![n] = @ \ {b}]
    /\ fetching' = [fetching EXCEPT ![n] = @ \cup LinkedBack(b)]
    /\ UNCHANGED <<chainVars, fwd, saving, reqVars, dkgVars, disk>>

\* Mutation: a failed fetch ends the handler before its save.
PropagateFetchOrReturn(n, b) ==
    /\ b \in fetching[n]
    /\ \/ StoreLinkedBlock(n, b - 1) /\ saving' = [saving EXCEPT ![n] = @ \cup {b}]
       \/ UNCHANGED <<storeVars, saving>>
    /\ fetching' = [fetching EXCEPT ![n] = @ \ {b}]
    /\ UNCHANGED <<chainVars, inbox, reqVars, dkgVars, disk>>

\* The loop over the backlinks: the previous block is fetched from the skipchain,
\* where it has its forward link by now, and stored; a failed fetch is logged.
PropagateFetch(n, b) ==
    /\ b \in fetching[n]
    /\ \/ StoreLinkedBlock(n, b - 1)
       \/ UNCHANGED storeVars
    /\ fetching' = [fetching EXCEPT ![n] = @ \ {b}]
    /\ saving' = [saving EXCEPT ![n] = @ \cup {b}]
    /\ UNCHANGED <<chainVars, inbox, reqVars, dkgVars, disk>>

Snapshot(n) ==
    [stored |-> stored[n], fwd |-> fwd[n], latest |-> latest[n], shared |-> n \in shared]

\* save(): the whole Storage is written under all locks; a failure is logged.
PropagateSave(n, b) ==
    /\ b \in saving[n]
    /\ \/ disk' = [disk EXCEPT ![n] = Snapshot(n)]
       \/ n \in BadDisk /\ UNCHANGED disk
    /\ saving' = [saving EXCEPT ![n] = @ \ {b}]
    /\ UNCHANGED <<chainVars, storeVars, inbox, fetching, reqVars, dkgVars>>

-----------------------------------------------------------------------------
(* CreateSkipchains, run once, on the leader *)

\* The genesis block is created.  If that fails the handler ends with nothing
\* changed anywhere.
CreateSkipchains ==
    /\ create = "none"
    /\ chain' = <<GenesisBlock>>
    /\ create' = "propagate"
    /\ UNCHANGED <<busy, votes, storeVars, propVars, reqVars, dkg, deals, shared, disk>>

\* propagateOCS of the genesis block starts, or fails before anything is sent.
CreatePropagate ==
    /\ create = "propagate"
    /\ \/ SendToAll(Genesis) /\ create' = "wait"
       \/ UNCHANGED inbox /\ create' = "failed"
    /\ UNCHANGED <<chainVars, storeVars, fetching, saving, reqVars, dkg, deals, shared, disk>>

\* The propagation returns, with all replies or after its timeout: a shortfall
\* is only logged.  The key generation is started; the handler waits for it.
CreateStartDKG ==
    /\ create = "wait"
    /\ \/ create' = "dkg" /\ dkg' = "running" /\ deals' = Nodes
       \/ create' = "failed" /\ UNCHANGED <<dkg, deals>>
    /\ UNCHANGED <<chainVars, storeVars, propVars, reqVars, shared, disk>>

\* SetupDKG, seen from the service: once every node has sent everything it has
\* to send, the instance on each node can finish.
DKGComplete ==
    /\ dkg = "running"
    /\ dkg' = "complete"
    /\ UNCHANGED <<chainVars, storeVars, propVars, reqVars, create, deals, shared, disk>>

\* The leader's select receives from Done: its part of the key is stored, not
\* saved, and the client is answered.
CreateDone ==
    /\ create = "dkg"
    /\ dkg = "complete"
    /\ create' = "replied"
    /\ shared' = shared \cup {Leader}
    /\ deals' = deals \ {Leader}
    /\ UNCHANGED <<chainVars, storeVars, propVars, reqVars, dkg, disk>>

\* The other case of the select.  The key generation goes on.
CreateTimeout ==
    /\ create = "dkg"
    /\ create' = "failed"
    /\ UNCHANGED <<chainVars, storeVars, propVars, reqVars, dkg, deals, shared, disk>>

\* Mutation: the part of the key that SharedSecret returns is dropped.
StoreSharedDropped(n) ==
    /\ dkg = "complete"
    /\ n \in deals \ {Leader}
    /\ deals' = deals \ {n}
    /\ UNCHANGED <<chainVars, storeVars, propVars, reqVars, create, dkg, shared, disk>>

\* The goroutine that NewProtocol leaves waiting on every other node.
StoreShared(n) ==
    /\ dkg = "complete"
    /\ n \in deals \ {Leader}
    /\ shared' = shared \cup {n}
    /\ deals' = deals \ {n}
    /\ UNCHANGED <<chainVars, storeVars, propVars, reqVars, create, dkg, disk>>

-----------------------------------------------------------------------------
(* WriteRequest, OTSWriteRequest and ReadRequest *)

\* The part they share: the lookup of the bunch and of the genesis block.
Submit(r, n, p) ==
    /\ pc[r] = "idle"
    /\ chain # <<>>
    /\ at' = [at EXCEPT ![r] = n]
    /\ body' = [body EXCEPT ![r] = p]
    /\ pc' = [pc EXCEPT ![r] = IF KnowsChain(n) THEN "add" ELSE "failed"]
    /\ UNCHANGED <<chainVars, storeVars, propVars, base, block, dkgVars, disk>>

WriteRequest(r, n, p) == p.kind = "lts" /\ Submit(r, n, p)

OTSWriteRequest(r, n, p) == p.kind = "ots" /\ Submit(r, n, p)

ReadRequest(r, n, p) == p.kind = "read" /\ Submit(r, n, p)

\* BunchAddBlock copies Latest under saveMutex.
CopyLatest(r) ==
    /\ pc[r] = "add"
    /\ base' = [base EXCEPT ![r] = latest[at[r]]]
    /\ pc' = [pc EXCEPT ![r] = "call"]
    /\ UNCHANGED <<chainVars, storeVars, propVars, at, body, block, dkgVars, disk>>

\* StoreSkipBlock answers ErrorBlockInProgress while another block is being
\* appended: the loop sleeps and starts over.
BlockInProgress(r) ==
    /\ pc[r] = "call"
    /\ busy # None
    /\ pc' = [pc EXCEPT ![r] = "add"]
    /\ UNCHANGED <<chainVars, storeVars, propVars, at, body, base, block, dkgVars, disk>>

\* StoreSkipBlock refuses to append after a block that is not the last one: any
\* other error ends the request.
StoreRefused(r) ==
    /\ pc[r] = "call"
    /\ base[r] # Len(chain)
    /\ pc' = [pc EXCEPT ![r] = "failed"]
    /\ UNCHANGED <<chainVars, storeVars, propVars, at, body, base, block, dkgVars, disk>>

\* StoreSkipBlock takes the block and asks the nodes to verify it.
StoreStart(r) ==
    /\ pc[r] = "call"
    /\ busy = None
    /\ base[r] = Len(chain)
    /\ busy' = r
    /\ pc' = [pc EXCEPT ![r] = "verify"]
    /\ UNCHANGED <<chain, votes, storeVars, propVars, at, body, base, block, dkgVars, disk>>

\* Mutation: the result of VerifyEncShareBatch is ignored.
AnyWrite(p) == TRUE

\* Mutation: the signature of a read is not held against the readers of the write.
AnyReader(n, p) ==
    /\ p.doc \in stored[n]
    /\ chain[p.doc].kind = "ots"

\* Mutation: a write of either kind is taken, and so is a read of either.
EitherKind(n, p) ==
    /\ Genesis \in stored[n]
    /\ \/ p.kind \in {"lts", "ots"} /\ p.sharesOK
       \/ /\ p.kind = "read"
          /\ p.doc \in stored[n]
          /\ p.signer \in chain[p.doc].readers

\* verifyOCS on node n: what it says of block p depends on the blocks n has.
ValidWrite(p) == p.sharesOK

ValidRead(n, p) ==
    /\ p.doc \in stored[n]
    /\ chain[p.doc].kind = "ots"
    /\ p.signer \in chain[p.doc].readers

verifyOCS(n, p) ==
    /\ Genesis \in stored[n]
    /\ \/ p.kind = "ots" /\ ValidWrite(p)
       \/ p.kind = "read" /\ ValidRead(n, p)

Vote(n) ==
    /\ busy # None
    /\ votes[n] = "none"
    /\ votes' = [votes EXCEPT ![n] = IF verifyOCS(n, body[busy]) THEN "yes" ELSE "no"]
    /\ UNCHANGED <<chain, busy, storeVars, propVars, reqVars, dkgVars, disk>>

\* Enough nodes agree: the block is appended and StoreSkipBlock returns it, to a
\* handler that may be gone.
StoreCommit ==
    /\ busy # None
    /\ \E Q \in Quorums : \A n \in Q : votes[n] = "yes"
    /\ chain' = Append(chain, body[busy])
    /\ busy' = None
    /\ votes' = NoVotes
    /\ block' = [block EXCEPT ![busy] = Len(chain) + 1]
    /\ pc' = [pc EXCEPT ![busy] = IF @ = "verify" THEN "bunch" ELSE @]
    /\ UNCHANGED <<storeVars, propVars, at, body, base, dkgVars, disk>>

\* Mutation: the block in progress is not given up when its verification fails.
StoreAbortHeld ==
    /\ busy # None
    /\ \/ \A Q \in Quorums : \E n \in Q : votes[n] = "no"
       \/ \E n \in Nodes : votes[n] = "none"
    /\ pc[busy] = "verify"
    /\ pc' = [pc EXCEPT ![busy] = "failed"]
    /\ UNCHANGED <<chainVars, storeVars, propVars, at, body, base, block, dkgVars, disk>>

\* Too many nodes disagree, or some did not answer in time.
StoreAbort ==
    /\ busy # None
    /\ \/ \A Q \in Quorums : \E n \in Q : votes[n] = "no"
       \/ \E n \in Nodes : votes[n] = "none"
    /\ busy' = None
    /\ votes' = NoVotes
    /\ pc' = [pc EXCEPT ![busy] = IF @ = "verify" THEN "failed" ELSE @]
    /\ UNCHANGED <<chain, storeVars, propVars, at, body, base, block, dkgVars, disk>>

\* Mutation: the loop goes on after the block was added.
AddToBunchAgain(r) ==
    /\ pc[r] = "bunch"
    /\ StoreBlock(at[r], block[r])
    /\ pc' = [pc EXCEPT ![r] = "add"]
    /\ UNCHANGED <<chainVars, fwd, propVars, at, body, base, block, dkgVars, disk>>

\* Mutation: the new block is left to the propagation.
AddToBunchSkipped(r) ==
    /\ pc[r] = "bunch"
    /\ pc' = [pc EXCEPT ![r] = "propagate"]
    /\ UNCHANGED <<chainVars, storeVars, propVars, at, body, base, block, dkgVars, disk>>

\* BunchAddBlock stores the new block; nothing is saved yet.
AddToBunch(r) ==
    /\ pc[r] = "bunch"
    /\ StoreBlock(at[r], block[r])
    /\ pc' = [pc EXCEPT ![r] = "propagate"]
    /\ UNCHANGED <<chainVars, fwd, propVars, at, body, base, block, dkgVars, disk>>

\* propagateOCS: an error is returned to the client although the block is in the
\* chain.
Propagate(r) ==
    /\ pc[r] = "propagate"
    /\ \/ SendToAll(block[r]) /\ pc' = [pc EXCEPT ![r] = "wait"]
       \/ UNCHANGED inbox /\ pc' = [pc EXCEPT ![r] = "failed"]
    /\ UNCHANGED <<chainVars, storeVars, fetching, saving, at, body, base, block, dkgVars, disk>>

\* The propagation returns, with all replies or after propagationTimeout.
Reply(r) ==
    /\ pc[r] = "wait"
    /\ pc' = [pc EXCEPT ![r] = "replied"]
    /\ UNCHANGED <<chainVars, storeVars, propVars, at, body, base, block, dkgVars, disk>>

-----------------------------------------------------------------------------
\* Mutation: tryLoad finds nothing.
LoadNothing(n) == {NothingSaved}

\* The Storage that tryLoad may leave in a node that starts again: what was saved,
\* or an empty one if that cannot be read; newService only logs the error.
tryLoad(n) == {disk[n]} \cup (IF n \in BadDisk THEN {NothingSaved} ELSE {})

\* Node n stops and starts again: newService and tryLoad.  Its handlers, what was
\* sent to it and its part in a running key generation are gone.
Restart(n) ==
    /\ \E saved \in tryLoad(n) :
        /\ stored' = [stored EXCEPT ![n] = saved.stored]
        /\ fwd' = [fwd EXCEPT ![n] = saved.fwd]
        /\ latest' = [latest EXCEPT ![n] = saved.latest]
        /\ shared' = IF saved.shared THEN shared \cup {n} ELSE shared \ {n}
    /\ inbox' = [inbox EXCEPT ![n] = {}]
    /\ fetching' = [fetching EXCEPT ![n] = {}]
    /\ saving' = [saving EXCEPT ![n] = {}]
    /\ pc' = [r \in Requests |->
                IF at[r] = n /\ pc[r] # "idle" /\ pc[r] \notin Final THEN "lost" ELSE pc[r]]
    /\ create' = IF n = Leader /\ create \in {"propagate", "wait", "dkg"} THEN "lost" ELSE create
    /\ dkg' = IF dkg = "running" THEN "stuck" ELSE dkg
    /\ deals' = deals \ {n}
    /\ UNCHANGED <<chainVars, at, body, base, block, disk>>

Create ==
    \/ CreateSkipchains
    \/ CreatePropagate
    \/ CreateStartDKG
    \/ DKGComplete
    \/ CreateDone
    \/ CreateTimeout

Request(r) ==
    \/ \E n \in Entry, p \in Payloads :
        WriteRequest(r, n, p) \/ OTSWriteRequest(r, n, p) \/ ReadRequest(r, n, p)
    \/ CopyLatest(r)
    \/ BlockInProgress(r)
    \/ StoreRefused(r)
    \/ StoreStart(r)
    \/ AddToBunch(r)
    \/ Propagate(r)
    \/ Reply(r)

Node(n) ==
    \/ \E b \in inbox[n] : PropagateStore(n, b)
    \/ \E b \in fetching[n] : PropagateFetch(n, b)
    \/ \E b \in saving[n] : PropagateSave(n, b)
    \/ StoreShared(n)
    \/ Vote(n)

\* What the nodes, the handlers and the skipchain do while nobody restarts.
Step ==
    \/ Create
    \/ \E r \in Requests : Request(r)
    \/ \E n \in Nodes : Node(n)
    \/ StoreCommit
    \/ StoreAbort

Next == Step \/ \E n \in Faulty : Restart(n)

Spec == Init /\ [][Next]_vars

-----------------------------------------------------------------------------
(* Fairness: a handler that can take its next step takes it, a message that  *)
(* was sent is handled, and the skipchain ends what it started.  Clients need *)
(* not send anything, and nobody has to restart.                             *)

Handler(r) ==
    \/ CopyLatest(r)
    \/ BlockInProgress(r)
    \/ StoreRefused(r)
    \/ StoreStart(r)
    \/ AddToBunch(r)
    \/ Propagate(r)
    \/ Reply(r)

CreateHandler ==
    \/ CreatePropagate
    \/ CreateStartDKG
    \/ CreateDone
    \/ CreateTimeout

Fairness ==
    /\ WF_vars(CreateHandler)
    /\ WF_vars(StoreCommit \/ StoreAbort)
    /\ \A r \in Requests : WF_vars(Handler(r))
    /\ \A n \in Nodes :
        /\ WF_vars(\E b \in inbox[n] : PropagateStore(n, b))
        /\ WF_vars(\E b \in fetching[n] : PropagateFetch(n, b))
        /\ WF_vars(\E b \in saving[n] : PropagateSave(n, b))
        /\ WF_vars(StoreShared(n))
        /\ WF_vars(Vote(n))

FairSpec == Spec /\ Fairness

-----------------------------------------------------------------------------
(* Properties *)

Positions == 1..Len(chain)

\* The type of every variable; a position that is stored, saved or on its way to
\* a node is one of the chain.
TypeOK ==
    /\ chain \in Seq(Payloads \cup {GenesisBlock})
    /\ busy \in Requests \cup {None}
    /\ votes \in [Nodes -> {"none", "yes", "no"}]
    /\ stored \in [Nodes -> SUBSET Positions]
    /\ fwd \in [Nodes -> SUBSET Positions]
    /\ latest \in [Nodes -> Nat]
    /\ shared \subseteq Nodes
    /\ disk \in [Nodes -> [stored : SUBSET Positions, fwd : SUBSET Positions,
                           latest : Nat, shared : BOOLEAN]]
    /\ inbox \in [Nodes -> SUBSET Positions]
    /\ fetching \in [Nodes -> SUBSET (Positions \ {Genesis})]
    /\ saving \in [Nodes -> SUBSET (Positions \ {Genesis})]
    /\ pc \in [Requests -> {"idle", "add", "call", "verify", "bunch", "propagate", "wait"}
                            \cup Final]
    /\ at \in [Requests -> Nodes]
    /\ body \in [Requests -> Payloads \cup {GenesisBlock}]
    /\ base \in [Requests -> Nat]
    /\ block \in [Requests -> Nat]
    /\ create \in {"none", "propagate", "wait", "dkg"} \cup Final
    /\ dkg \in {"none", "running", "complete", "stuck"}
    /\ deals \subseteq Nodes

\* Latest of a bunch (bunch.go Store) is its block of the highest index, in
\* whatever order blocks and the backlinks fetched for them arrive.
IsLatest(b, S) ==
    \/ S = {} /\ b = 0
    \/ b \in S /\ \A i \in S : i <= b

LatestIsHighest ==
    \A n \in Nodes :
        /\ IsLatest(latest[n], stored[n])
        /\ IsLatest(disk[n].latest, disk[n].stored)

\* A node that knows a forward link has the block it leads to, also after it has
\* restarted from any state it saved: the walk of GetReadRequests along forward
\* links never meets a nil block.
ForwardLinksResolve ==
    \A n \in Nodes :
        /\ \A i \in fwd[n] : i \in stored[n] /\ i + 1 \in stored[n]
        /\ \A i \in disk[n].fwd : i \in disk[n].stored /\ i + 1 \in disk[n].stored

\* verifyOCS: every read in the chain is signed by a reader that an earlier write
\* names, although each node decides by the blocks that reached it.
ReadsAuthorised ==
    \A i \in Positions :
        chain[i].kind = "read" =>
            LET d == chain[i].doc IN
                /\ d \in 1..(i - 1)
                /\ chain[d].kind = "ots"
                /\ chain[i].signer \in chain[d].readers

\* The retry loop of the three handlers: a request that is answered has its data in
\* the chain, at the position it is told; no request appends twice and no two
\* requests are told the same block, whatever was retried, refused or lost.
OneBlockPerRequest ==
    /\ \A r \in Requests : block[r] # 0 => block[r] \in Positions /\ chain[block[r]] = body[r]
    /\ \A r, q \in Requests : block[r] = block[q] /\ block[r] # 0 => r = q
    /\ \A i \in Positions \ {Genesis} : \E r \in Requests : block[r] = i
    /\ \A r \in Requests : pc[r] = "replied" => block[r] # 0

\* BunchAddBlock appends to the Latest it knows.  If one node gets all the requests
\* and does not restart, its Latest is the end of the chain, but for the moment
\* between the append and bunch.Store.
EntryIsCurrent ==
    \A n \in Nodes :
        /\ Entry = {n}
        /\ n \notin Faulty
        /\ Len(chain) > 1
        /\ \A r \in Requests : pc[r] # "bunch"
        => latest[n] = Len(chain)

\* save and tryLoad: what a node has saved is never lost again, neither by a
\* restart nor by a later save, as long as its disk can be read.
SavedIsKept ==
    [][\A n \in Nodes \ BadDisk :
            /\ disk[n].stored \subseteq disk'[n].stored
            /\ disk[n].fwd \subseteq disk'[n].fwd]_vars

\* WriteRequest: the test suite writes with it and expects an answer
\* (service_test.go:114-115), so the nodes that know the chain accept its block.
LtsWriteAccepted ==
    \A n \in Nodes : busy # None /\ body[busy].kind = "lts" => votes[n] # "no"

\* The service keeps the promises of AccLedger.
Ledger == INSTANCE AccLedger WITH
    First <- GenesisBlock,
    ledger <- chain,
    answer <- [r \in Requests |-> IF pc[r] = "replied" THEN block[r] ELSE 0]

LedgerSpec == Ledger!Spec

\* Every request and the creation of the skipchain end: the retry loop does not
\* wait for ever behind other requests.
RequestsReturn ==
    /\ \A r \in Requests : (pc[r] # "idle") ~> (pc[r] \in Final)
    /\ (create # "none") ~> (create \in Final)

\* A block a client was answered with reaches the store and the disk of every node
\* that keeps running and can save.
AnsweredBlocksSpread ==
    \A r \in Requests, n \in Nodes \ (Faulty \cup BadDisk) :
        (pc[r] = "replied") ~> (block[r] \in disk[n].stored)

\* Once CreateSkipchains has answered with the shared key, every node that keeps
\* running comes to hold its part of it.
SharesSpread ==
    \A n \in Nodes \ Faulty : (create = "replied") ~> (n \in shared)

\* CreateSkipchains ends, with its answer or after its timeout, and its answer leads to
\* a key that all nodes share.
KeyIsShared == RequestsReturn /\ SharesSpread

=============================================================================
