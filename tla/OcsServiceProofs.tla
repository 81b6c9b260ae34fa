-------------------------- MODULE OcsServiceProofs --------------------------
(***************************************************************************)
(* Theorems about OcsService, for every roster, every set of requests and  *)
(* payloads, every choice of quorums and of the nodes that fail.           *)
(***************************************************************************)
EXTENDS OcsService, TLAPS

\* Leaves are for Zenon; those with arithmetic, and a few others, cite SMTT.
USE ZenonT(60)

Block == Payloads \cup {GenesisBlock}

-----------------------------------------------------------------------------
(* Types.  TypeOK needs to know where the positions it speaks of come from. *)

\* A chain exists once CreateSkipchains has run, and before any request; a handler
\* that has a block to store or to propagate has one of the chain.
PositionsInv ==
    /\ create = "none" <=> chain = <<>>
    /\ chain = <<>> => busy = None /\ \A r \in Requests : pc[r] = "idle"
    /\ \A r \in Requests : pc[r] \in {"bunch", "propagate", "wait"} => block[r] \in Positions

TypeInv == TypeOK /\ PositionsInv

LEMMA InitType == Init => TypeInv
  BY RosterAssumption, SMTT(60)
  DEF Init, TypeInv, TypeOK, PositionsInv, Positions, NoVotes, NothingSaved,
     Final, Genesis

LEMMA PositionsOfOne == \A x : 1..Len(<<x>>) = {1}
  BY SMTT(60)

LEMMA PositionsGrow ==
  ASSUME NEW S, NEW s \in Seq(S), NEW x \in S
  PROVE  /\ Append(s, x) \in Seq(S)
         /\ Len(Append(s, x)) = Len(s) + 1
         /\ Len(s) \in Nat
         /\ 1..Len(s) \subseteq 1..Len(Append(s, x))
         /\ Len(s) + 1 \in 1..Len(Append(s, x))
         /\ \A i \in 1..Len(s) : Append(s, x)[i] = s[i]
         /\ Append(s, x)[Len(s) + 1] = x
  BY SMTT(60)

LEMMA SendType ==
  ASSUME NEW S, NEW b \in S, inbox \in [Nodes -> SUBSET S], SendToAll(b)
  PROVE  inbox' \in [Nodes -> SUBSET S]
  BY DEF SendToAll

\* Every step of the system is one of these; the cases of the proofs below.
StepCases ==
    \/ Create
    \/ \E r \in Requests, n \in Entry, p \in Payloads : Submit(r, n, p)
    \/ \E r \in Requests : Handler(r)
    \/ \E n \in Nodes : Node(n)
    \/ StoreCommit
    \/ StoreAbort
    \/ \E n \in Faulty : Restart(n)

LEMMA NextCases == [Next]_vars => StepCases \/ UNCHANGED vars
  BY DEF Next, Step, Request, Handler, StepCases, WriteRequest, OTSWriteRequest, ReadRequest

LEMMA TypeStep == TypeInv /\ [Next]_vars => TypeInv'
<1> SUFFICES ASSUME TypeInv, StepCases \/ UNCHANGED vars
             PROVE  TypeInv'
  BY NextCases
<1> USE DEF TypeInv, TypeOK, PositionsInv, Positions, Final, Genesis,
            vars, chainVars, storeVars, propVars, reqVars, dkgVars
<1>0. CASE UNCHANGED vars
  BY <1>0
<1>1. CASE Create
  <2>1. CASE CreateSkipchains
    BY <2>1, SMTT(60) DEF CreateSkipchains
  <2>2. CASE CreatePropagate
    <3>1. Genesis \in Positions
      BY <2>2, SMTT(60) DEF CreatePropagate
    <3>2. inbox' \in [Nodes -> SUBSET Positions]
      BY <2>2, <3>1, SendType DEF CreatePropagate
    <3>3. QED BY <2>2, <3>2 DEF CreatePropagate
  <2>3. CASE CreateStartDKG
    BY <2>3 DEF CreateStartDKG
  <2>4. CASE DKGComplete
    BY <2>4 DEF DKGComplete
  <2>5. CASE CreateDone
    BY <2>5, RosterAssumption DEF CreateDone
  <2>6. CASE CreateTimeout
    BY <2>6 DEF CreateTimeout
  <2>7. QED BY <1>1, <2>1, <2>2, <2>3, <2>4, <2>5, <2>6 DEF Create
<1>2. ASSUME NEW r \in Requests, NEW n \in Entry, NEW p \in Payloads, Submit(r, n, p)
      PROVE  TypeInv'
  BY <1>2, RosterAssumption DEF Submit
<1>3. ASSUME NEW r \in Requests, Handler(r)
      PROVE  TypeInv'
  <2>1. CASE CopyLatest(r)
    BY <2>1 DEF CopyLatest
  <2>2. CASE BlockInProgress(r)
    BY <2>2 DEF BlockInProgress
  <2>3. CASE StoreRefused(r)
    BY <2>3 DEF StoreRefused
  <2>4. CASE StoreStart(r)
    BY <2>4 DEF StoreStart
  <2>5. CASE AddToBunch(r)
    BY <2>5, SMTT(60) DEF AddToBunch, StoreBlock
  <2>6. CASE Propagate(r)
    <3>1. inbox' \in [Nodes -> SUBSET Positions]
      BY <2>6, SendType DEF Propagate
    <3>2. QED BY <2>6, <3>1 DEF Propagate
  <2>7. CASE Reply(r)
    BY <2>7 DEF Reply
  <2>8. QED BY <1>3, <2>1, <2>2, <2>3, <2>4, <2>5, <2>6, <2>7 DEF Handler
<1>4. ASSUME NEW n \in Nodes, Node(n)
      PROVE  TypeInv'
  <2>1. ASSUME NEW b \in inbox[n], PropagateStore(n, b)
        PROVE  TypeInv'
    <3>1. /\ stored' \in [Nodes -> SUBSET Positions]
          /\ latest' \in [Nodes -> Nat]
      BY <2>1, SMTT(60) DEF PropagateStore, StoreBlock
    <3>2. /\ inbox' \in [Nodes -> SUBSET Positions]
          /\ fetching' \in [Nodes -> SUBSET (Positions \ {Genesis})]
      BY <2>1, SMTT(60) DEF PropagateStore, LinkedBack
    <3>3. QED BY <2>1, <3>1, <3>2 DEF PropagateStore
  <2>2. ASSUME NEW b \in fetching[n], PropagateFetch(n, b)
        PROVE  TypeInv'
    <3>1. b \in Positions \ {Genesis} /\ b - 1 \in Positions
      BY <2>2, SMTT(60)
    <3>2. /\ stored' \in [Nodes -> SUBSET Positions]
          /\ fwd' \in [Nodes -> SUBSET Positions]
          /\ latest' \in [Nodes -> Nat]
      <4>1. CASE StoreLinkedBlock(n, b - 1)
        BY <3>1, <4>1, SMTT(60) DEF StoreLinkedBlock, StoreBlock
      <4>2. CASE UNCHANGED storeVars
        BY <4>2
      <4>3. QED BY <2>2, <4>1, <4>2 DEF PropagateFetch
    <3>3. /\ fetching' \in [Nodes -> SUBSET (Positions \ {Genesis})]
          /\ saving' \in [Nodes -> SUBSET (Positions \ {Genesis})]
      BY <2>2, <3>1 DEF PropagateFetch
    <3>4. QED BY <2>2, <3>2, <3>3 DEF PropagateFetch
  <2>3. ASSUME NEW b \in saving[n], PropagateSave(n, b)
        PROVE  TypeInv'
    <3>1. Snapshot(n) \in [stored : SUBSET Positions, fwd : SUBSET Positions,
                            latest : Nat, shared : BOOLEAN]
      BY SMTT(60) DEF Snapshot
    <3>2. disk' \in [Nodes -> [stored : SUBSET Positions, fwd : SUBSET Positions,
                               latest : Nat, shared : BOOLEAN]]
      <4>1. CASE disk' = [disk EXCEPT ![n] = Snapshot(n)]
        BY <3>1, <4>1
      <4>2. CASE UNCHANGED disk
        BY <4>2
      <4>3. QED BY <2>3, <4>1, <4>2 DEF PropagateSave
    <3>3. saving' \in [Nodes -> SUBSET (Positions \ {Genesis})]
      BY <2>3 DEF PropagateSave
    <3>4. QED BY <2>3, <3>2, <3>3 DEF PropagateSave
  <2>4. CASE StoreShared(n)
    BY <2>4 DEF StoreShared
  <2>5. CASE Vote(n)
    BY <2>5 DEF Vote
  <2>6. QED BY <1>4, <2>1, <2>2, <2>3, <2>4, <2>5 DEF Node
<1>5. CASE StoreCommit
  <2>1. /\ busy \in Requests
        /\ body[busy] \in Block
    BY <1>5 DEF StoreCommit, Block
  <2>2. /\ chain' \in Seq(Block)
        /\ Len(chain) + 1 \in Positions'
        /\ Positions \subseteq Positions'
        /\ chain' # <<>>
    BY <1>5, <2>1, PositionsGrow, SMTT(60) DEF StoreCommit, Block
  <2>3. disk' \in [Nodes -> [stored : SUBSET Positions', fwd : SUBSET Positions',
                             latest : Nat, shared : BOOLEAN]]
    BY <1>5, <2>2 DEF StoreCommit
  <2>4. PositionsInv'
    BY <1>5, <2>1, <2>2 DEF StoreCommit
  <2>5. TypeOK'
    BY <1>5, <2>1, <2>2, <2>3, SMTT(60) DEF StoreCommit, NoVotes, Block
  <2>6. QED BY <2>4, <2>5
<1>6. CASE StoreAbort
  BY <1>6 DEF StoreAbort, NoVotes
<1>7. ASSUME NEW n \in Faulty, Restart(n)
      PROVE  TypeInv'
  <2>1. n \in Nodes
    BY RosterAssumption
  <2>2. \A saved \in tryLoad(n) :
          saved \in [stored : SUBSET Positions, fwd : SUBSET Positions,
                    latest : Nat, shared : BOOLEAN]
    <3>1. disk[n] \in [stored : SUBSET Positions, fwd : SUBSET Positions,
                       latest : Nat, shared : BOOLEAN]
      BY <2>1
    <3>2. NothingSaved \in [stored : SUBSET Positions, fwd : SUBSET Positions,
                            latest : Nat, shared : BOOLEAN]
      BY DEF NothingSaved
    <3>3. QED BY <3>1, <3>2 DEF tryLoad
  <2>3. QED BY <1>7, <2>1, <2>2 DEF Restart
<1>8. QED BY <1>0, <1>1, <1>2, <1>3, <1>4, <1>5, <1>6, <1>7 DEF StepCases

\* TypeOK holds in every state of the service.
THEOREM TypeCorrect == Spec => []TypeOK
<1>1. TypeInv => TypeOK
  BY DEF TypeInv
<1>2. QED BY <1>1, InitType, TypeStep, PTL DEF Spec

-----------------------------------------------------------------------------
(* Requests and their blocks.  OneBlockPerRequest is not inductive: a request *)
(* that has not got its block yet must not have one, and the block in progress *)
(* must belong to a request that still waits for it or was lost.              *)

RequestInv ==
    /\ \A r \in Requests :
        /\ pc[r] \in {"idle", "add", "call", "verify"} => block[r] = 0
        /\ pc[r] \in {"bunch", "propagate", "wait", "replied"} => block[r] # 0
        /\ block[r] # Genesis
        /\ pc[r] = "verify" => busy = r
        /\ pc[r] # "idle" => body[r] \in Payloads
    /\ busy # None => block[busy] = 0 /\ pc[busy] \in {"verify", "lost"}

LEMMA InitRequest == Init => RequestInv /\ OneBlockPerRequest
  BY SMTT(60) DEF Init, RequestInv, OneBlockPerRequest, Positions, Genesis

LEMMA RequestStep ==
  TypeInv /\ RequestInv /\ OneBlockPerRequest /\ [Next]_vars => (RequestInv /\ OneBlockPerRequest)'
<1> SUFFICES ASSUME TypeInv, RequestInv, OneBlockPerRequest, StepCases \/ UNCHANGED vars
             PROVE  RequestInv' /\ OneBlockPerRequest'
  BY NextCases
<1> USE DEF TypeInv, TypeOK, PositionsInv, RequestInv, OneBlockPerRequest, Positions, Final, Genesis,
            vars, chainVars, storeVars, propVars, reqVars, dkgVars
\* Nothing that the invariant speaks of changes.
<1>0. CASE UNCHANGED <<chain, busy, pc, body, block>>
  BY <1>0
<1>1. CASE Create
  <2>1. CASE CreateSkipchains
    BY <2>1, SMTT(60) DEF CreateSkipchains
  <2>2. CASE UNCHANGED <<chain, busy, pc, body, block>>
    BY <1>0, <2>2
  <2>3. QED
    BY <1>1, <2>1, <2>2 DEF Create, CreatePropagate, CreateStartDKG, DKGComplete, CreateDone,
       CreateTimeout
<1>2. ASSUME NEW r \in Requests, NEW n \in Entry, NEW p \in Payloads, Submit(r, n, p)
      PROVE  RequestInv' /\ OneBlockPerRequest'
  BY <1>2, RosterAssumption, SMTT(60) DEF Submit
<1>3. ASSUME NEW r \in Requests, Handler(r)
      PROVE  RequestInv' /\ OneBlockPerRequest'
  <2>1. CASE CopyLatest(r)
    BY <2>1, SMTT(60) DEF CopyLatest
  <2>2. CASE BlockInProgress(r)
    BY <2>2, SMTT(60) DEF BlockInProgress
  <2>3. CASE StoreRefused(r)
    BY <2>3, SMTT(60) DEF StoreRefused
  <2>4. CASE StoreStart(r)
    BY <2>4, RosterAssumption, SMTT(60) DEF StoreStart
  <2>5. CASE AddToBunch(r)
    BY <2>5, SMTT(60) DEF AddToBunch
  <2>6. CASE Propagate(r)
    BY <2>6, SMTT(60) DEF Propagate
  <2>7. CASE Reply(r)
    BY <2>7, SMTT(60) DEF Reply
  <2>8. QED BY <1>3, <2>1, <2>2, <2>3, <2>4, <2>5, <2>6, <2>7 DEF Handler
<1>4. ASSUME NEW n \in Nodes, Node(n)
      PROVE  RequestInv' /\ OneBlockPerRequest'
  <2>1. UNCHANGED <<chain, busy, pc, body, block>>
    BY <1>4 DEF Node, PropagateStore, PropagateFetch, PropagateSave, StoreShared, Vote
  <2>2. QED BY <1>0, <2>1
<1>5. CASE StoreCommit
  <2>1. /\ busy \in Requests
        /\ body[busy] \in Block
        /\ Len(chain) \in Nat
    BY <1>5, SMTT(60) DEF StoreCommit, Block
  <2>2. /\ Positions' = Positions \cup {Len(chain) + 1}
        /\ Len(chain) + 1 \notin Positions
        /\ \A i \in Positions : chain'[i] = chain[i]
        /\ chain'[Len(chain) + 1] = body[busy]
    BY <1>5, <2>1, PositionsGrow, SMTT(60) DEF StoreCommit, Block
  <2>3. /\ block' = [block EXCEPT ![busy] = Len(chain) + 1]
        /\ body' = body
    BY <1>5 DEF StoreCommit
  <2>4. RequestInv'
    BY <1>5, <2>1, SMTT(60) DEF StoreCommit
  <2>5. OneBlockPerRequest'
    <3>1. /\ busy # None
          /\ block[busy] = 0
      BY <1>5 DEF StoreCommit
    <3>2. ASSUME NEW r \in Requests, block'[r] # 0
          PROVE  block'[r] \in Positions' /\ chain'[block'[r]] = body'[r]
      BY <2>1, <2>2, <2>3, <3>2
    <3>3. ASSUME NEW r \in Requests, NEW q \in Requests, block'[r] = block'[q], block'[r] # 0
          PROVE  r = q
      <4>1. \A x \in Requests \ {busy} : block'[x] = block[x] /\ block[x] # Len(chain) + 1
        BY <2>1, <2>2, <2>3, SMTT(60)
      <4>2. block'[busy] = Len(chain) + 1
        BY <2>1, <2>3
      <4>3. CASE r # busy /\ q # busy
        <5>1. block[r] = block[q] /\ block[r] # 0
          BY <3>3, <4>1, <4>3
        <5>2. QED BY <5>1
      <4>4. ASSUME NEW x \in Requests, x # busy
            PROVE  block'[x] # block'[busy]
        BY <4>1, <4>2, <4>4
      <4>5. QED BY <3>3, <4>3, <4>4
    <3>4. ASSUME NEW i \in Positions' \ {Genesis}
          PROVE  \E r \in Requests : block'[r] = i
      <4>1. CASE i = Len(chain) + 1
        BY <2>1, <2>3, <4>1, SMTT(60)
      <4>2. CASE i \in Positions \ {Genesis}
        <5>1. PICK r \in Requests : block[r] = i
          BY <4>2
        <5>2. r # busy
          BY <3>1, <4>2, <5>1, SMTT(60)
        <5>3. QED BY <2>3, <5>1, <5>2, SMTT(60)
      <4>3. QED BY <2>2, <3>4, <4>1, <4>2
    <3>5. ASSUME NEW r \in Requests, pc'[r] = "replied"
          PROVE  block'[r] # 0
      BY <2>4, <3>5
    <3>6. QED BY <3>2, <3>3, <3>4, <3>5
  <2>6. QED BY <2>4, <2>5
<1>6. CASE StoreAbort
  BY <1>6, RosterAssumption, SMTT(60) DEF StoreAbort
<1>7. ASSUME NEW n \in Faulty, Restart(n)
      PROVE  RequestInv' /\ OneBlockPerRequest'
  BY <1>7, RosterAssumption, SMTT(60) DEF Restart
<1>8. CASE UNCHANGED vars
  BY <1>0, <1>8
<1>9. QED BY <1>1, <1>2, <1>3, <1>4, <1>5, <1>6, <1>7, <1>8 DEF StepCases

\* In every state of the service each answered request has its data in the chain,
\* and every block of the chain belongs to exactly one request.
THEOREM OneBlock == Spec => []OneBlockPerRequest
<1>1. QED BY InitType, TypeStep, InitRequest, RequestStep, PTL DEF Spec

-----------------------------------------------------------------------------
(* Reads.  Each node judges by its own store; what it accepts is allowed by the *)
(* chain because its store is part of the chain, and the chain does not change  *)
(* between the vote and the append.                                            *)

VoteInv == \A n \in Nodes : votes[n] = "yes" => busy # None /\ Ledger!Allowed(chain, body[busy])

LEMMA VerifiedIsAllowed ==
  ASSUME TypeInv, NEW n \in Nodes, NEW p, verifyOCS(n, p)
  PROVE  Ledger!Allowed(chain, p)
  BY DEF verifyOCS, ValidWrite, ValidRead, Ledger!Allowed, TypeInv, TypeOK, Positions

LEMMA InitVote == Init => VoteInv /\ ReadsAuthorised
  BY SMTT(60) DEF Init, VoteInv, NoVotes, ReadsAuthorised, Positions

LEMMA AppendedIsAllowed ==
  ASSUME TypeInv, RequestInv, VoteInv, StoreCommit
  PROVE  /\ busy \in Requests
         /\ body[busy] \in Payloads
         /\ chain # <<>>
         /\ Ledger!Allowed(chain, body[busy])
         /\ chain' = Append(chain, body[busy])
<1>1. PICK Q \in Quorums : \A n \in Q : votes[n] = "yes"
  BY DEF StoreCommit
<1>2. PICK n \in Nodes : votes[n] = "yes"
  BY <1>1, QuorumAssumption
<1>3. busy \in Requests /\ pc[busy] # "idle"
  BY DEF StoreCommit, TypeInv, TypeOK, RequestInv
<1>4. QED
  BY <1>2, <1>3 DEF StoreCommit, VoteInv, RequestInv, TypeInv, PositionsInv

LEMMA VoteStep ==
  TypeInv /\ RequestInv /\ VoteInv /\ [Next]_vars => VoteInv'
<1> SUFFICES ASSUME TypeInv, RequestInv, VoteInv, StepCases \/ UNCHANGED vars
             PROVE  VoteInv'
  BY NextCases
<1> USE DEF vars, chainVars, storeVars, propVars, reqVars, dkgVars
\* A body is replaced only while its request is idle, and the one in progress is not.
<1>0. CASE UNCHANGED <<chain, busy, votes, body>>
  BY <1>0 DEF VoteInv, Ledger!Allowed
<1>1. CASE Create
  <2>1. CASE CreateSkipchains
    BY <2>1 DEF CreateSkipchains, TypeInv, PositionsInv, VoteInv
  <2>2. QED
    BY <1>0, <1>1, <2>1 DEF Create, CreatePropagate, CreateStartDKG, DKGComplete, CreateDone,
       CreateTimeout
<1>2. ASSUME NEW r \in Requests, NEW n \in Entry, NEW p \in Payloads, Submit(r, n, p)
      PROVE  VoteInv'
  <2>1. busy # None => body'[busy] = body[busy]
    BY <1>2 DEF Submit, RequestInv, TypeInv, TypeOK
  <2>2. UNCHANGED <<chain, busy, votes>>
    BY <1>2 DEF Submit
  <2>3. QED BY <2>1, <2>2 DEF VoteInv, Ledger!Allowed
<1>3. ASSUME NEW r \in Requests, Handler(r)
      PROVE  VoteInv'
  <2>1. CASE StoreStart(r)
    BY <2>1 DEF StoreStart, VoteInv
  <2>2. QED
    BY <1>0, <1>3, <2>1 DEF Handler, CopyLatest, BlockInProgress, StoreRefused, AddToBunch,
       Propagate, Reply
<1>4. ASSUME NEW n \in Nodes, Node(n)
      PROVE  VoteInv'
  <2>1. CASE Vote(n)
    <3>1. UNCHANGED <<chain, busy, body>> /\ busy # None
      BY <2>1 DEF Vote
    <3>2. ASSUME NEW m \in Nodes, votes'[m] = "yes"
          PROVE  votes[m] = "yes" \/ verifyOCS(m, body[busy])
      BY <2>1, <3>2 DEF Vote, TypeInv, TypeOK
    <3>3. ASSUME NEW m \in Nodes, votes'[m] = "yes"
          PROVE  Ledger!Allowed(chain, body[busy])
      <4>1. CASE votes[m] = "yes"
        BY <4>1 DEF VoteInv
      <4>2. CASE verifyOCS(m, body[busy])
        BY <4>2, VerifiedIsAllowed
      <4>3. QED BY <3>2, <3>3, <4>1, <4>2
    <3>4. QED BY <3>1, <3>3 DEF VoteInv, Ledger!Allowed
  <2>2. QED
    BY <1>0, <1>4, <2>1 DEF Node, PropagateStore, PropagateFetch, PropagateSave, StoreShared
<1>5. CASE StoreCommit
  BY <1>5 DEF StoreCommit, NoVotes, VoteInv
<1>6. CASE StoreAbort
  BY <1>6 DEF StoreAbort, NoVotes, VoteInv
<1>7. ASSUME NEW n \in Faulty, Restart(n)
      PROVE  VoteInv'
  BY <1>0, <1>7 DEF Restart
<1>8. CASE UNCHANGED vars
  BY <1>0, <1>8
<1>9. QED BY <1>1, <1>2, <1>3, <1>4, <1>5, <1>6, <1>7, <1>8 DEF StepCases

\* What can happen to the chain, seen from the ledger.
LEMMA ChainStep ==
  ASSUME TypeInv, RequestInv, VoteInv, [Next]_vars
  PROVE  \/ UNCHANGED chain
         \/ CreateSkipchains
         \/ StoreCommit
<1> USE DEF vars, chainVars
<1>1. StepCases \/ UNCHANGED vars
  BY NextCases
<1>2. ASSUME NEW r \in Requests, NEW n \in Entry, NEW p \in Payloads, Submit(r, n, p)
      PROVE  UNCHANGED chain
  BY <1>2 DEF Submit
<1>3. ASSUME NEW r \in Requests, Handler(r)
      PROVE  UNCHANGED chain
  BY <1>3 DEF Handler, CopyLatest, BlockInProgress, StoreRefused, StoreStart, AddToBunch,
     Propagate, Reply
<1>4. ASSUME NEW n \in Nodes, Node(n)
      PROVE  UNCHANGED chain
  BY <1>4 DEF Node, PropagateStore, PropagateFetch, PropagateSave, StoreShared, Vote
<1>5. ASSUME NEW n \in Faulty, Restart(n)
      PROVE  UNCHANGED chain
  BY <1>5 DEF Restart
<1>6. Create => UNCHANGED chain \/ CreateSkipchains
  BY DEF Create, CreatePropagate, CreateStartDKG, DKGComplete, CreateDone, CreateTimeout
<1>7. StoreAbort => UNCHANGED chain
  BY DEF StoreAbort
<1>8. QED BY <1>1, <1>2, <1>3, <1>4, <1>5, <1>6, <1>7 DEF StepCases

LEMMA ReadsStep ==
  TypeInv /\ RequestInv /\ VoteInv /\ ReadsAuthorised /\ [Next]_vars => ReadsAuthorised'
<1> SUFFICES ASSUME TypeInv, RequestInv, VoteInv, ReadsAuthorised, [Next]_vars
             PROVE  ReadsAuthorised'
  OBVIOUS
<1>1. CASE UNCHANGED chain
  BY <1>1 DEF ReadsAuthorised, Positions
<1>2. CASE CreateSkipchains
  BY <1>2, PositionsOfOne, SMTT(60) DEF CreateSkipchains, ReadsAuthorised, Positions, GenesisBlock
<1>3. CASE StoreCommit
  <2>1. /\ body[busy] \in Block
        /\ Ledger!Allowed(chain, body[busy])
        /\ chain' = Append(chain, body[busy])
        /\ chain \in Seq(Block)
    BY <1>3, AppendedIsAllowed DEF Block, TypeInv, TypeOK
  <2>2. /\ Positions' = Positions \cup {Len(chain) + 1}
        /\ Len(chain) \in Nat
        /\ \A i \in Positions : chain'[i] = chain[i]
        /\ chain'[Len(chain) + 1] = body[busy]
    BY <2>1, PositionsGrow, SMTT(60) DEF Positions
  <2>3. QED
    BY <2>1, <2>2, SMTT(60) DEF ReadsAuthorised, Positions, Ledger!Allowed
<1>4. QED BY <1>1, <1>2, <1>3, ChainStep

\* In every state of the service each read in the chain was signed by a reader that
\* an earlier write names (verifyOCS), whatever the nodes had in store when they
\* voted.
THEOREM ReadPolicy == Spec => []ReadsAuthorised
<1>1. QED
  BY InitType, TypeStep, InitRequest, RequestStep, InitVote, VoteStep, ReadsStep, PTL DEF Spec

-----------------------------------------------------------------------------
(* The service implements the ledger. *)

answer == [r \in Requests |-> IF pc[r] = "replied" THEN block[r] ELSE 0]

LEMMA AnswerStep ==
  ASSUME TypeInv, RequestInv, OneBlockPerRequest, [Next]_vars
  PROVE  UNCHANGED answer \/ \E r \in Requests : Reply(r)
<1> USE DEF TypeInv, TypeOK, RequestInv, Final, vars, chainVars, storeVars, propVars, reqVars, dkgVars,
        answer
<1>0. CASE UNCHANGED <<pc, block>>
  BY <1>0
<1>1. CASE Create
  BY <1>0, <1>1 DEF Create, CreateSkipchains, CreatePropagate, CreateStartDKG, DKGComplete,
     CreateDone, CreateTimeout
<1>2. ASSUME NEW r \in Requests, NEW n \in Entry, NEW p \in Payloads, Submit(r, n, p)
      PROVE  UNCHANGED answer
  BY <1>2 DEF Submit
<1>3. ASSUME NEW r \in Requests, Handler(r), ~Reply(r)
      PROVE  UNCHANGED answer
  BY <1>3 DEF Handler, CopyLatest, BlockInProgress, StoreRefused, StoreStart, AddToBunch, Propagate
<1>4. ASSUME NEW n \in Nodes, Node(n)
      PROVE  UNCHANGED answer
  <2>1. UNCHANGED <<pc, block>>
    BY <1>4 DEF Node, PropagateStore, PropagateFetch, PropagateSave, StoreShared, Vote
  <2>2. QED BY <2>1
<1>5. CASE StoreCommit
  BY <1>5 DEF StoreCommit
<1>6. CASE StoreAbort
  BY <1>6 DEF StoreAbort
<1>7. ASSUME NEW n \in Faulty, Restart(n)
      PROVE  UNCHANGED answer
  BY <1>7 DEF Restart
<1>8. CASE UNCHANGED vars
  BY <1>0, <1>8
<1>9. QED BY NextCases, <1>1, <1>2, <1>3, <1>4, <1>5, <1>6, <1>7, <1>8 DEF StepCases

LEMMA LedgerStep ==
  ASSUME TypeInv, RequestInv, OneBlockPerRequest, VoteInv, [Next]_vars
  PROVE  [Ledger!Next]_(Ledger!vars)
<1>1. CASE UNCHANGED <<chain, answer>>
  BY <1>1 DEF Ledger!vars, answer
<1>2. ASSUME NEW r \in Requests, Reply(r)
      PROVE  Ledger!Next
  <2>1. /\ block[r] \in 2..Len(chain)
        /\ UNCHANGED chain
    BY <1>2, SMTT(60) DEF Reply, chainVars, TypeInv, TypeOK, PositionsInv, RequestInv, Positions, Genesis
  <2>2. /\ answer[r] = 0
        /\ \A q \in Requests : answer[q] # block[r]
        /\ answer' = [answer EXCEPT ![r] = block[r]]
    BY <1>2 DEF Reply, answer, TypeInv, TypeOK, RequestInv, OneBlockPerRequest
  <2>3. PICK i \in 2..Len(chain) : i = block[r]
    BY <2>1
  <2>4. Ledger!Answer(r, i)
    BY <2>1, <2>2, <2>3 DEF Ledger!Answer, answer
  <2>5. QED BY <2>4 DEF Ledger!Next
<1>3. CASE CreateSkipchains
  <2>1. chain = <<>> /\ chain' = <<GenesisBlock>> /\ UNCHANGED <<pc, block>>
    BY <1>3 DEF CreateSkipchains, TypeInv, PositionsInv, reqVars
  <2>2. QED BY <2>1 DEF Ledger!Next, Ledger!Open
<1>4. CASE StoreCommit
  <2>1. /\ body[busy] \in Payloads
        /\ chain # <<>>
        /\ Ledger!Allowed(chain, body[busy])
        /\ chain' = Append(chain, body[busy])
    BY <1>4, AppendedIsAllowed
  <2>2. UNCHANGED answer
    BY <1>4 DEF StoreCommit, answer, TypeInv, TypeOK, RequestInv
  <2>3. Ledger!Add(body[busy])
    BY <2>1, <2>2 DEF Ledger!Add, answer
  <2>4. QED BY <2>1, <2>3 DEF Ledger!Next
<1>5. QED BY <1>1, <1>2, <1>3, <1>4, ChainStep, AnswerStep DEF CreateSkipchains, StoreCommit, Reply

\* Every behaviour of the service, seen through the chain and the answers to clients,
\* is one of the ledger: stores, votes, propagation and restarts do not show.
THEOREM ServiceImplementsLedger == Spec => LedgerSpec
<1>1. Init => Ledger!Init
  BY DEF Init, Ledger!Init
<1>2. TypeInv /\ RequestInv /\ OneBlockPerRequest /\ VoteInv /\ [Next]_vars
        => [Ledger!Next]_(Ledger!vars)
  BY LedgerStep
<1>3. QED
  BY <1>1, <1>2, InitType, TypeStep, InitRequest, RequestStep, InitVote, VoteStep, PTL
     DEF Spec, LedgerSpec, Ledger!Spec

-----------------------------------------------------------------------------
(* The stores.  A forward link is stored only by a handler that stored the block *)
(* it leads to, and what a good disk holds is part of what is in memory.        *)

StoreInv ==
    /\ LatestIsHighest
    /\ ForwardLinksResolve
    /\ \A n \in Nodes : fetching[n] \subseteq stored[n]
    /\ \A n \in Nodes \ BadDisk :
        /\ disk[n].stored \subseteq stored[n]
        /\ disk[n].fwd \subseteq fwd[n]

LEMMA InitStore == Init => StoreInv
  BY SMTT(60) DEF Init, StoreInv, LatestIsHighest, ForwardLinksResolve, IsLatest, NothingSaved

LEMMA LatestAfterStore ==
  ASSUME NEW S \in SUBSET Nat, NEW l \in Nat, NEW b \in Nat \ {0}, IsLatest(l, S)
  PROVE  IsLatest(IF b > l THEN b ELSE l, S \cup {b})
  BY SMTT(60) DEF IsLatest

LEMMA SnapshotFields ==
  ASSUME NEW n
  PROVE  /\ Snapshot(n).stored = stored[n]
         /\ Snapshot(n).fwd = fwd[n]
         /\ Snapshot(n).latest = latest[n]
  BY DEF Snapshot

LEMMA SavedDisk ==
  ASSUME TypeInv, NEW n \in Nodes, NEW b, PropagateSave(n, b), NEW m \in Nodes
  PROVE  disk'[m] = disk[m] \/ disk'[m] = Snapshot(m)
<1>1. DOMAIN disk = Nodes
  BY DEF TypeInv, TypeOK
<1>2. disk' = disk \/ disk' = [disk EXCEPT ![n] = Snapshot(n)]
  BY DEF PropagateSave
<1>3. QED BY <1>1, <1>2

LEMMA StoreStep == TypeInv /\ StoreInv /\ [Next]_vars => StoreInv'
<1> SUFFICES ASSUME TypeInv, StoreInv, StepCases \/ UNCHANGED vars
             PROVE  StoreInv'
  BY NextCases
<1> USE DEF vars, chainVars, storeVars, propVars, reqVars, dkgVars
<1>0. CASE UNCHANGED <<stored, fwd, latest, fetching, disk>>
  BY <1>0 DEF StoreInv, LatestIsHighest, ForwardLinksResolve, IsLatest
<1>1. CASE Create
  BY <1>0, <1>1 DEF Create, CreateSkipchains, CreatePropagate, CreateStartDKG, DKGComplete,
     CreateDone, CreateTimeout
<1>2. ASSUME NEW r \in Requests, NEW n \in Entry, NEW p \in Payloads, Submit(r, n, p)
      PROVE  StoreInv'
  BY <1>0, <1>2 DEF Submit
\* A block is stored on node n: the other nodes, and all disks, stay as they are.
<1>3. ASSUME NEW n \in Nodes, NEW b \in Positions, StoreBlock(n, b), UNCHANGED disk,
             \/ UNCHANGED fwd
             \/ b + 1 \in stored[n] /\ fwd' = [fwd EXCEPT ![n] = @ \cup {b}],
             \A m \in Nodes : fetching'[m] \subseteq stored'[m]
      PROVE  StoreInv'
  <2> USE DEF TypeInv, TypeOK, Positions, StoreBlock
  <2>1. /\ stored[n] \in SUBSET Nat
        /\ latest[n] \in Nat
        /\ b \in Nat \ {0}
    BY SMTT(60)
  <2>2. IsLatest(latest'[n], stored'[n])
    BY <1>3, <2>1, LatestAfterStore DEF StoreInv, LatestIsHighest
  <2>3. ASSUME NEW m \in Nodes
        PROVE  IsLatest(latest'[m], stored'[m]) /\ IsLatest(disk'[m].latest, disk'[m].stored)
    BY <1>3, <2>2 DEF StoreInv, LatestIsHighest
  <2>4. ASSUME NEW m \in Nodes
        PROVE  /\ \A i \in fwd'[m] : i \in stored'[m] /\ i + 1 \in stored'[m]
               /\ m \notin BadDisk => /\ disk'[m].stored \subseteq stored'[m]
                                    /\ disk'[m].fwd \subseteq fwd'[m]
    <3>1. stored[m] \subseteq stored'[m]
      BY <1>3
    <3>2. QED BY <1>3, <3>1, SMTT(60) DEF StoreInv, ForwardLinksResolve
  <2>5. QED BY <1>3, <2>3, <2>4 DEF StoreInv, LatestIsHighest, ForwardLinksResolve
<1>4. ASSUME NEW r \in Requests, Handler(r)
      PROVE  StoreInv'
  <2>1. CASE AddToBunch(r)
    <3>1. /\ at[r] \in Nodes
          /\ block[r] \in Positions
      BY <2>1 DEF AddToBunch, TypeInv, TypeOK, PositionsInv
    <3>2. \A m \in Nodes : fetching'[m] \subseteq stored'[m]
      BY <2>1, <3>1 DEF AddToBunch, StoreBlock, TypeInv, TypeOK, StoreInv
    <3>3. QED BY <1>3, <2>1, <3>1, <3>2 DEF AddToBunch
  <2>2. QED
    BY <1>0, <1>4, <2>1 DEF Handler, CopyLatest, BlockInProgress, StoreRefused, StoreStart,
       Propagate, Reply
<1>5. ASSUME NEW n \in Nodes, Node(n)
      PROVE  StoreInv'
  <2>1. ASSUME NEW b \in inbox[n], PropagateStore(n, b)
        PROVE  StoreInv'
    <3>1. b \in Positions
      BY DEF TypeInv, TypeOK
    <3>2. \A m \in Nodes : fetching'[m] \subseteq stored'[m]
      BY <2>1, <3>1 DEF PropagateStore, StoreBlock, LinkedBack, TypeInv, TypeOK, StoreInv
    <3>3. QED BY <1>3, <2>1, <3>1, <3>2 DEF PropagateStore
  <2>2. ASSUME NEW b \in fetching[n], PropagateFetch(n, b)
        PROVE  StoreInv'
    <3>1. /\ b - 1 \in Positions
          /\ (b - 1) + 1 \in stored[n]
      BY SMTT(60) DEF TypeInv, TypeOK, Positions, Genesis, StoreInv
    <3>2. CASE StoreLinkedBlock(n, b - 1)
      <4>1. \A m \in Nodes : fetching'[m] \subseteq stored'[m]
        BY <2>2, <3>2 DEF PropagateFetch, StoreLinkedBlock, StoreBlock, TypeInv, TypeOK, StoreInv
      <4>2. QED BY <1>3, <2>2, <3>1, <3>2, <4>1 DEF PropagateFetch, StoreLinkedBlock
    <3>3. CASE UNCHANGED storeVars
      BY <2>2, <3>3
      DEF PropagateFetch, IsLatest, TypeInv, TypeOK, StoreInv, LatestIsHighest, ForwardLinksResolve
    <3>4. QED BY <2>2, <3>2, <3>3 DEF PropagateFetch
  <2>3. ASSUME NEW b \in saving[n], PropagateSave(n, b)
        PROVE  StoreInv'
    <3>1. ASSUME NEW m \in Nodes
          PROVE  \/ /\ disk'[m].stored = stored[m]
                    /\ disk'[m].fwd = fwd[m]
                    /\ disk'[m].latest = latest[m]
                 \/ disk'[m] = disk[m]
      BY <2>3, SavedDisk, SnapshotFields
    <3>2. UNCHANGED <<stored, fwd, latest, fetching>>
      BY <2>3 DEF PropagateSave
    <3>3. QED BY <3>1, <3>2 DEF StoreInv, LatestIsHighest, ForwardLinksResolve, IsLatest
  <2>4. QED
    BY <1>0, <1>5, <2>1, <2>2, <2>3 DEF Node, StoreShared, Vote
<1>6. CASE StoreCommit
  BY <1>0, <1>6 DEF StoreCommit
<1>7. CASE StoreAbort
  BY <1>0, <1>7 DEF StoreAbort
<1>8. ASSUME NEW n \in Faulty, Restart(n)
      PROVE  StoreInv'
  <2>1. n \in Nodes
    BY RosterAssumption
  <2>2. PICK saved \in tryLoad(n) :
          /\ stored' = [stored EXCEPT ![n] = saved.stored]
          /\ fwd' = [fwd EXCEPT ![n] = saved.fwd]
          /\ latest' = [latest EXCEPT ![n] = saved.latest]
    BY <1>8 DEF Restart
  <2>3. /\ IsLatest(saved.latest, saved.stored)
        /\ \A i \in saved.fwd : i \in saved.stored /\ i + 1 \in saved.stored
        /\ n \notin BadDisk => saved = disk[n]
    <3>1. saved = disk[n] \/ (n \in BadDisk /\ saved = NothingSaved)
      BY <2>2 DEF tryLoad
    <3>2. CASE saved = disk[n]
      <4>1. IsLatest(disk[n].latest, disk[n].stored)
        BY <2>1 DEF StoreInv, LatestIsHighest
      <4>2. \A i \in disk[n].fwd : i \in disk[n].stored /\ i + 1 \in disk[n].stored
        BY <2>1 DEF StoreInv, ForwardLinksResolve
      <4>3. QED BY <3>2, <4>1, <4>2
    <3>3. CASE n \in BadDisk /\ saved = NothingSaved
      <4>1. saved.stored = {} /\ saved.fwd = {} /\ saved.latest = 0
        BY <3>3 DEF NothingSaved
      <4>2. QED BY <3>3, <4>1 DEF IsLatest
    <3>4. QED BY <3>1, <3>2, <3>3
  <2>4. /\ fetching' = [fetching EXCEPT ![n] = {}]
        /\ UNCHANGED disk
    BY <1>8 DEF Restart
  <2>5. ASSUME NEW m \in Nodes
        PROVE  /\ IsLatest(latest'[m], stored'[m])
               /\ \A i \in fwd'[m] : i \in stored'[m] /\ i + 1 \in stored'[m]
               /\ fetching'[m] \subseteq stored'[m]
               /\ m \notin BadDisk => /\ disk[m].stored \subseteq stored'[m]
                                    /\ disk[m].fwd \subseteq fwd'[m]
    BY <2>1, <2>2, <2>3, <2>4 DEF TypeInv, TypeOK, StoreInv, LatestIsHighest, ForwardLinksResolve
  <2>6. QED BY <2>4, <2>5 DEF StoreInv, LatestIsHighest, ForwardLinksResolve
<1>9. CASE UNCHANGED vars
  BY <1>0, <1>9
<1>10. QED BY <1>1, <1>2, <1>4, <1>5, <1>6, <1>7, <1>8, <1>9 DEF StepCases

\* In every state of the service Latest is the highest block of its bunch, in memory
\* and on disk.
THEOREM LatestCorrect == Spec => []LatestIsHighest
<1>1. StoreInv => LatestIsHighest
  BY DEF StoreInv
<1>2. QED BY <1>1, InitType, TypeStep, InitStore, StoreStep, PTL DEF Spec

\* In every state of the service a known forward link leads to a stored block, in
\* memory and on disk: the walk of GetReadRequests never gets a nil block.
THEOREM LinksResolve == Spec => []ForwardLinksResolve
<1>1. StoreInv => ForwardLinksResolve
  BY DEF StoreInv
<1>2. QED BY <1>1, InitType, TypeStep, InitStore, StoreStep, PTL DEF Spec

LEMMA DiskStep ==
  ASSUME TypeInv, StoreInv, [Next]_vars, NEW n \in Nodes \ BadDisk
  PROVE  disk[n].stored \subseteq disk'[n].stored /\ disk[n].fwd \subseteq disk'[n].fwd
<1> USE DEF vars
<1>1. CASE UNCHANGED disk
  BY <1>1
<1>2. ASSUME NEW m \in Nodes, NEW b \in saving[m], PropagateSave(m, b)
      PROVE  disk[n].stored \subseteq disk'[n].stored /\ disk[n].fwd \subseteq disk'[n].fwd
  <2>1. \/ disk'[n].stored = stored[n] /\ disk'[n].fwd = fwd[n]
        \/ disk'[n] = disk[n]
    BY <1>2, SavedDisk, SnapshotFields
  <2>2. QED BY <2>1 DEF StoreInv
<1>3. Create => UNCHANGED disk
  BY DEF Create, CreateSkipchains, CreatePropagate, CreateStartDKG, DKGComplete, CreateDone,
     CreateTimeout
<1>4. ASSUME NEW r \in Requests, NEW m \in Entry, NEW p \in Payloads, Submit(r, m, p)
      PROVE  UNCHANGED disk
  BY <1>4 DEF Submit
<1>5. ASSUME NEW r \in Requests, Handler(r)
      PROVE  UNCHANGED disk
  BY <1>5 DEF Handler, CopyLatest, BlockInProgress, StoreRefused, StoreStart, AddToBunch,
     Propagate, Reply
<1>6. ASSUME NEW m \in Nodes, Node(m)
      PROVE  UNCHANGED disk \/ \E b \in saving[m] : PropagateSave(m, b)
  BY <1>6 DEF Node, PropagateStore, PropagateFetch, StoreShared, Vote
<1>7. StoreCommit \/ StoreAbort => UNCHANGED disk
  BY DEF StoreCommit, StoreAbort
<1>8. ASSUME NEW m \in Faulty, Restart(m)
      PROVE  UNCHANGED disk
  BY <1>8 DEF Restart
<1>9. QED BY NextCases, <1>1, <1>2, <1>3, <1>4, <1>5, <1>6, <1>7, <1>8 DEF StepCases

\* save and tryLoad: no step of the service takes anything from a disk that can be
\* read.
THEOREM SavedBlocksAreKept == Spec => SavedIsKept
<1>1. TypeInv /\ StoreInv /\ [Next]_vars
        => [\A n \in Nodes \ BadDisk : /\ disk[n].stored \subseteq disk'[n].stored
                                       /\ disk[n].fwd \subseteq disk'[n].fwd]_vars
  BY DiskStep
<1>2. QED BY <1>1, InitType, TypeStep, InitStore, StoreStep, PTL DEF Spec, SavedIsKept

=============================================================================
