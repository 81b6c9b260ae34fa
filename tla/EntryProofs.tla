----------------------------- MODULE EntryProofs -----------------------------
(***************************************************************************)
(* Theorems about a node that clients contact: that it is up to date when  *)
(* all requests go through it, and what it answers to the queries of       *)
(* ReadListing (GetReadRequests) and KeyRequest (DecryptKeyRequest) while  *)
(* blocks are written.                                                     *)
(***************************************************************************)
EXTENDS OcsServiceProofs, ReadListing, KeyRequest

\* Leaves are for Zenon; those with arithmetic, and a few others, cite SMTT.
USE ZenonT(60)

-----------------------------------------------------------------------------
(* One entry node that does not restart.  A request appends to the Latest it *)
(* copied, Latest does not go back, and the block that was appended last      *)
(* reaches the store of its node by bunch.Store before any other way.        *)

Current(n) ==
    /\ \A r \in Requests : pc[r] # "lost" /\ (pc[r] # "idle" => at[r] = n)
    /\ \A r \in Requests : pc[r] \in {"call", "verify"} => base[r] <= latest[n]
    /\ busy # None => base[busy] = Len(chain)
    /\ \A r \in Requests : pc[r] = "bunch" =>
        block[r] = Len(chain) /\ latest[n] < Len(chain) /\ block[r] \notin inbox[n]
    /\ Len(chain) > 1 /\ (\A r \in Requests : pc[r] # "bunch") => latest[n] = Len(chain)

CurrentInv == \A n \in Nodes : Entry = {n} /\ n \notin Faulty => Current(n)

LEMMA InitCurrent == Init => CurrentInv
  BY DEF Init, CurrentInv, Current

LEMMA LatestInChain ==
  ASSUME TypeInv, StoreInv, NEW n \in Nodes
  PROVE  latest[n] \in Nat /\ Len(chain) \in Nat /\ latest[n] <= Len(chain)
<1>1. latest[n] \in Nat /\ Len(chain) \in Nat /\ stored[n] \subseteq 1..Len(chain)
  BY SMTT(60) DEF TypeInv, TypeOK, Positions
<1>2. latest[n] = 0 \/ latest[n] \in stored[n]
  BY DEF StoreInv, LatestIsHighest, IsLatest
<1>3. QED BY <1>1, <1>2, SMTT(60)

\* What a step must not do to the entry node as long as it leaves the requests alone.
LEMMA CurrentKept ==
  ASSUME TypeInv, StoreInv, TypeInv', StoreInv', NEW n \in Nodes, Current(n),
         UNCHANGED <<chain, busy, pc, at, base, block>>,
         latest[n] <= latest'[n],
         \A r \in Requests : pc[r] = "bunch" => latest'[n] < Len(chain) /\ block[r] \notin inbox'[n]
  PROVE  Current(n)'
<1>1. PICK l \in Nat, k \in Nat, c \in Nat :
        l = latest[n] /\ k = latest'[n] /\ c = Len(chain) /\ l <= c /\ k <= c /\ l <= k
  <2>1. latest[n] \in Nat /\ Len(chain) \in Nat /\ latest[n] <= Len(chain)
    BY LatestInChain
  <2>2. latest'[n] \in Nat /\ stored'[n] \subseteq 1..Len(chain)
    BY DEF TypeInv, TypeOK, Positions
  <2>3. latest'[n] = 0 \/ latest'[n] \in stored'[n]
    BY DEF StoreInv, LatestIsHighest, IsLatest
  <2>4. latest'[n] <= Len(chain)
    BY <2>1, <2>2, <2>3, SMTT(60)
  <2>5. QED BY <2>1, <2>2, <2>4
<1>2. \A r \in Requests : base[r] \in Nat
  BY DEF TypeInv, TypeOK
<1>3. \A r \in Requests : pc[r] \in {"call", "verify"} => base[r] <= k
  BY <1>1, <1>2, SMTT(60) DEF Current
<1>4. c > 1 /\ (\A r \in Requests : pc[r] # "bunch") => k = c
  BY <1>1, SMTT(60) DEF Current
<1>5. QED BY <1>1, <1>3, <1>4 DEF Current

LEMMA CreateCurrent ==
  ASSUME TypeInv, RequestInv, StoreInv, TypeInv', StoreInv', NEW n \in Nodes, Current(n), Create
  PROVE  Current(n)'
<1> USE DEF vars, chainVars, storeVars, propVars, reqVars, dkgVars
<1>1. latest[n] \in Nat
  BY LatestInChain
<1>2. CASE CreateSkipchains
  <2>1. busy' = None /\ Len(chain') = 1
    BY <1>2 DEF CreateSkipchains, TypeInv, PositionsInv
  <2>2. \A r \in Requests : pc'[r] = "idle"
    BY <1>2 DEF CreateSkipchains, TypeInv, PositionsInv
  <2>3. QED BY <2>1, <2>2, SMTT(60) DEF Current
<1>3. CASE CreatePropagate
  <2>1. /\ UNCHANGED <<chain, busy, pc, at, base, block, latest>>
        /\ inbox'[n] \subseteq inbox[n] \cup {Genesis}
    BY <1>3 DEF CreatePropagate, SendToAll
  <2>2. \A r \in Requests : block[r] # Genesis
    BY DEF RequestInv
  <2>3. \A r \in Requests : pc[r] = "bunch" => block[r] \notin inbox'[n]
    BY <2>1, <2>2 DEF Current
  <2>4. QED BY <1>1, <2>1, <2>3, CurrentKept DEF Current
<1>4. CASE UNCHANGED <<chain, busy, pc, at, base, block, latest, inbox>>
  BY <1>1, <1>4, CurrentKept DEF Current
<1>5. QED
  BY <1>2, <1>3, <1>4 DEF Create, CreateStartDKG, DKGComplete, CreateDone, CreateTimeout

\* A block arrives: it is not the one a handler still has to put into the bunch.
LEMMA StoredCurrent ==
  ASSUME TypeInv, StoreInv, TypeInv', StoreInv', NEW n \in Nodes, Current(n),
         NEW m \in Nodes, NEW b \in Positions, StoreBlock(m, b),
         m = n /\ (\E r \in Requests : pc[r] = "bunch") => b < Len(chain),
         UNCHANGED <<chain, busy, pc, at, base, block>>, inbox'[n] \subseteq inbox[n]
  PROVE  Current(n)'
<1>1. PICK l \in Nat, c \in Nat : l = latest[n] /\ c = Len(chain)
  BY LatestInChain
<1>2. latest'[n] = l \/ (m = n /\ latest'[n] = b /\ b > l)
  BY <1>1 DEF StoreBlock, TypeInv, TypeOK
<1>3. b \in Nat
  BY SMTT(60) DEF Positions
<1>4. latest[n] <= latest'[n]
  BY <1>1, <1>2, <1>3, SMTT(60)
<1>5. ASSUME NEW r \in Requests, pc[r] = "bunch"
      PROVE  latest'[n] < Len(chain) /\ block[r] \notin inbox'[n]
  BY <1>1, <1>2, <1>3, <1>5 DEF Current
<1>6. QED BY <1>4, <1>5, CurrentKept

LEMMA NodeCurrent ==
  ASSUME TypeInv, StoreInv, TypeInv', StoreInv', NEW n \in Nodes, Current(n),
         NEW m \in Nodes, Node(m)
  PROVE  Current(n)'
<1> USE DEF vars, chainVars, storeVars, propVars, reqVars, dkgVars
<1>1. ASSUME NEW b \in inbox[m], PropagateStore(m, b)
      PROVE  Current(n)'
  <2>1. b \in Positions /\ b \in Nat /\ b <= Len(chain) /\ Len(chain) \in Nat
    BY SMTT(60) DEF TypeInv, TypeOK, Positions
  <2>2. ASSUME m = n, NEW r \in Requests, pc[r] = "bunch"
        PROVE  b < Len(chain)
    <3>1. block[r] = Len(chain) /\ block[r] # b
      BY <2>2 DEF Current
    <3>2. QED BY <2>1, <3>1, SMTT(60)
  <2>3. UNCHANGED <<chain, busy, pc, at, base, block>> /\ inbox'[n] \subseteq inbox[n]
    BY <1>1 DEF PropagateStore, TypeInv, TypeOK
  <2>4. StoreBlock(m, b)
    BY <1>1 DEF PropagateStore
  <2>5. QED BY <2>1, <2>2, <2>3, <2>4, StoredCurrent
<1>2. ASSUME NEW b \in fetching[m], PropagateFetch(m, b), StoreLinkedBlock(m, b - 1)
      PROVE  Current(n)'
  <2>1. b - 1 \in Positions /\ b - 1 < Len(chain)
    <3>1. Len(chain) \in Nat
      BY LatestInChain
    <3>2. fetching[m] \subseteq Positions \ {Genesis}
      BY DEF TypeInv, TypeOK
    <3>3. QED BY <3>1, <3>2, SMTT(60) DEF Positions, Genesis
  <2>2. UNCHANGED <<chain, busy, pc, at, base, block>> /\ inbox'[n] \subseteq inbox[n]
    BY <1>2 DEF PropagateFetch
  <2>3. StoreBlock(m, b - 1)
    BY <1>2 DEF StoreLinkedBlock
  <2>4. QED BY <2>1, <2>2, <2>3, StoredCurrent
<1>3. ASSUME UNCHANGED <<chain, busy, pc, at, base, block, latest, inbox>>
      PROVE  Current(n)'
  BY <1>3, CurrentKept, LatestInChain DEF Current
<1>4. QED
  BY <1>1, <1>2, <1>3 DEF Node, PropagateFetch, PropagateSave, StoreShared, Vote

LEMMA RestartCurrent ==
  ASSUME TypeInv, StoreInv, TypeInv', StoreInv', NEW n \in Nodes, Current(n),
         NEW m \in Nodes \ {n}, Restart(m)
  PROVE  Current(n)'
<1>1. latest'[n] = latest[n] /\ inbox'[n] = inbox[n]
  BY SMTT(60) DEF Restart, TypeInv, TypeOK
<1>2. \A r \in Requests : pc'[r] = pc[r]
  BY DEF Restart, Current
<1>3. pc' = pc
  BY <1>2 DEF Restart, TypeInv, TypeOK
<1>4. UNCHANGED <<chain, busy, at, base, block>>
  BY DEF Restart, chainVars
<1>5. QED BY <1>1, <1>3, <1>4, CurrentKept, LatestInChain DEF Current

\* The request handlers of the entry node.
LEMMA HandlerCurrent ==
  ASSUME TypeInv, RequestInv, OneBlockPerRequest, StoreInv, TypeInv', StoreInv',
         NEW n \in Nodes, Current(n), NEW r \in Requests, Handler(r)
  PROVE  Current(n)'
<1> USE DEF vars, chainVars, storeVars, propVars, reqVars, dkgVars
<1>1. latest[n] \in Nat /\ Len(chain) \in Nat /\ latest[n] <= Len(chain)
  BY LatestInChain
<1>2. CASE CopyLatest(r)
  <2>1. at[r] = n
    BY <1>2 DEF CopyLatest, Current
  <2>2. /\ UNCHANGED <<chain, busy, at, block, latest, inbox>>
        /\ pc' = [pc EXCEPT ![r] = "call"] /\ base' = [base EXCEPT ![r] = latest[n]]
        /\ pc[r] = "add"
    BY <1>2, <2>1 DEF CopyLatest
  <2>3. busy # r
    BY <2>2, RosterAssumption DEF RequestInv
  <2>4. QED BY <1>1, <2>1, <2>2, <2>3, SMTT(60) DEF Current, TypeInv, TypeOK
<1>3. CASE BlockInProgress(r)
  BY <1>3 DEF BlockInProgress, Current, TypeInv, TypeOK
<1>4. CASE StoreRefused(r)
  BY <1>4 DEF StoreRefused, Current, TypeInv, TypeOK
<1>5. CASE StoreStart(r)
  BY <1>5 DEF StoreStart, Current, TypeInv, TypeOK
<1>6. CASE AddToBunch(r)
  <2>1. /\ pc[r] = "bunch" /\ at[r] = n /\ block[r] = Len(chain) /\ latest[n] < Len(chain)
        /\ pc' = [pc EXCEPT ![r] = "propagate"]
        /\ UNCHANGED <<chain, busy, at, base, block, inbox>>
    BY <1>6 DEF AddToBunch, Current
  <2>2. latest'[n] = Len(chain)
    BY <1>1, <1>6, <2>1 DEF AddToBunch, StoreBlock, TypeInv, TypeOK
  <2>3. \A q \in Requests : pc'[q] # "bunch"
    <3>1. ASSUME NEW q \in Requests \ {r}, pc[q] = "bunch"
          PROVE  FALSE
      <4>1. block[q] = block[r] /\ block[r] # 0
        BY <2>1, <3>1 DEF Current, RequestInv
      <4>2. QED BY <3>1, <4>1 DEF OneBlockPerRequest
    <3>2. QED BY <2>1, <3>1 DEF TypeInv, TypeOK
  <2>4. \A q \in Requests : /\ pc'[q] \in {"call", "verify", "lost", "idle"} => pc'[q] = pc[q]
                            /\ pc[q] = "idle" => pc'[q] = "idle"
    BY <2>1 DEF TypeInv, TypeOK
  <2>5. \A q \in Requests : pc'[q] # "lost" /\ (pc'[q] # "idle" => at'[q] = n)
    BY <2>1, <2>4 DEF Current
  <2>6. \A q \in Requests : pc'[q] \in {"call", "verify"} => base'[q] <= latest'[n]
    <3>1. ASSUME NEW q \in Requests, pc'[q] \in {"call", "verify"}
          PROVE  base[q] <= Len(chain)
      <4>1. base[q] <= latest[n] /\ base[q] \in Nat
        BY <2>4, <3>1 DEF Current, TypeInv, TypeOK
      <4>2. QED BY <1>1, <4>1, SMTT(60)
    <3>2. QED BY <2>1, <2>2, <3>1
  <2>7. QED BY <2>1, <2>2, <2>3, <2>5, <2>6 DEF Current
<1>7. CASE Propagate(r)
  <2>1. /\ UNCHANGED <<chain, busy, at, base, block, latest>> /\ pc[r] = "propagate"
        /\ inbox'[n] \subseteq inbox[n] \cup {block[r]}
        /\ pc' = [pc EXCEPT ![r] = "wait"] \/ pc' = [pc EXCEPT ![r] = "failed"]
    BY <1>7 DEF Propagate, SendToAll
  <2>2. \A q \in Requests : /\ pc'[q] \in {"call", "verify", "lost", "idle", "bunch"} => pc'[q] = pc[q]
                            /\ pc[q] # pc'[q] => q = r
    BY <2>1 DEF TypeInv, TypeOK
  <2>3. ASSUME NEW q \in Requests, pc'[q] = "bunch"
        PROVE  pc[q] = "bunch" /\ block[q] \notin inbox'[n]
    <3>1. pc[q] = "bunch" /\ q # r
      BY <2>1, <2>2, <2>3
    <3>2. block[q] # block[r]
      BY <2>1, <3>1 DEF OneBlockPerRequest, RequestInv
    <3>3. QED BY <2>1, <3>1, <3>2 DEF Current
  <2>4. QED BY <2>1, <2>2, <2>3 DEF Current
<1>8. CASE Reply(r)
  BY <1>8 DEF Reply, Current, TypeInv, TypeOK
<1>9. QED BY <1>2, <1>3, <1>4, <1>5, <1>6, <1>7, <1>8 DEF Handler

LEMMA SubmitCurrent ==
  ASSUME TypeInv, RequestInv, NEW n \in Nodes, Current(n),
         NEW r \in Requests, NEW p \in Payloads, Submit(r, n, p)
  PROVE  Current(n)'
<1>1. /\ UNCHANGED <<chain, busy, base, block, latest, inbox>> /\ pc[r] = "idle"
      /\ at' = [at EXCEPT ![r] = n]
      /\ pc' = [pc EXCEPT ![r] = "add"] \/ pc' = [pc EXCEPT ![r] = "failed"]
  BY DEF Submit, chainVars, storeVars, propVars
<1>2. QED BY <1>1 DEF Current, TypeInv, TypeOK

\* The block is appended to the Latest of the entry node, and no other handler waits to
\* put an earlier one into the bunch.
LEMMA CommitCurrent ==
  ASSUME TypeInv, RequestInv, StoreInv, NEW n \in Nodes, Current(n), StoreCommit
  PROVE  Current(n)'
<1> USE DEF chainVars, storeVars, propVars
<1>1. PICK l \in Nat, c \in Nat : l = latest[n] /\ c = Len(chain) /\ l <= c
  BY LatestInChain
<1>2. /\ busy \in Requests /\ pc[busy] = "verify" /\ base[busy] = c
      /\ base[busy] <= l
  BY <1>1 DEF StoreCommit, TypeInv, TypeOK, RequestInv, Current
<1>3. \A r \in Requests : pc[r] # "bunch"
  BY <1>1, <1>2, SMTT(60) DEF Current
<1>4. Len(chain') = c + 1
  BY <1>1, <1>2, SMTT(60) DEF StoreCommit, TypeInv, TypeOK
<1>5. /\ UNCHANGED <<at, base, latest, inbox>> /\ busy' = None
      /\ pc' = [pc EXCEPT ![busy] = "bunch"] /\ block' = [block EXCEPT ![busy] = c + 1]
  BY <1>1, <1>2 DEF StoreCommit
<1>6. c + 1 \notin inbox[n]
  BY <1>1, SMTT(60) DEF TypeInv, TypeOK, Positions
<1>7. \A r \in Requests : IF r = busy THEN pc'[r] = "bunch" /\ block'[r] = c + 1
                                      ELSE pc'[r] = pc[r] /\ pc[r] # "bunch"
  BY <1>2, <1>3, <1>5 DEF TypeInv, TypeOK
<1>8. \A r \in Requests : pc'[r] # "lost" /\ (pc'[r] # "idle" => at'[r] = n)
  BY <1>2, <1>5, <1>7 DEF Current
<1>9. \A r \in Requests : pc'[r] \in {"call", "verify"} => base'[r] <= latest'[n]
  BY <1>5, <1>7 DEF Current
<1>10. l < c + 1
  BY <1>1, SMTT(60)
<1>11. QED
  BY <1>1, <1>2, <1>4, <1>5, <1>6, <1>7, <1>8, <1>9, <1>10 DEF Current

LEMMA CurrentStep ==
  TypeInv /\ RequestInv /\ OneBlockPerRequest /\ StoreInv /\ CurrentInv /\ [Next]_vars => CurrentInv'
<1> SUFFICES ASSUME TypeInv, RequestInv, OneBlockPerRequest, StoreInv, CurrentInv, [Next]_vars,
                    NEW n \in Nodes, Entry = {n}, n \notin Faulty
             PROVE  Current(n)'
  BY DEF CurrentInv
<1>1. Current(n) /\ TypeInv' /\ StoreInv'
  BY TypeStep, StoreStep DEF CurrentInv
<1>2. CASE Create
  BY <1>1, <1>2, CreateCurrent
<1>3. ASSUME NEW r \in Requests, NEW m \in Entry, NEW p \in Payloads, Submit(r, m, p)
      PROVE  Current(n)'
  BY <1>1, <1>3, SubmitCurrent
<1>4. ASSUME NEW r \in Requests, Handler(r)
      PROVE  Current(n)'
  BY <1>1, <1>4, HandlerCurrent
<1>5. ASSUME NEW m \in Nodes, Node(m)
      PROVE  Current(n)'
  BY <1>1, <1>5, NodeCurrent
<1>6. CASE StoreCommit
  BY <1>1, <1>6, CommitCurrent
<1>7. CASE StoreAbort
  BY <1>1, <1>7 DEF StoreAbort, Current, TypeInv, TypeOK, storeVars, propVars
<1>8. ASSUME NEW m \in Faulty, Restart(m)
      PROVE  Current(n)'
  BY <1>1, <1>8, RestartCurrent, RosterAssumption
<1>9. CASE UNCHANGED vars
  BY <1>1, <1>9 DEF Current, vars, chainVars, storeVars, propVars, reqVars
<1>10. QED
  BY NextCases, <1>2, <1>3, <1>4, <1>5, <1>6, <1>7, <1>8, <1>9 DEF StepCases

\* BunchAddBlock: as long as one node gets all the requests and does not restart, its
\* Latest is the end of the chain but for the moment between the append and
\* bunch.Store, for any number of requests in whatever order their steps come.
THEOREM EntryStaysCurrent == Spec => []EntryIsCurrent
<1>1. CurrentInv => EntryIsCurrent
  BY DEF CurrentInv, Current, EntryIsCurrent
<1>2. QED
  BY <1>1, InitType, TypeStep, InitRequest, RequestStep, InitStore, StoreStep, InitCurrent,
     CurrentStep, PTL DEF Spec

-----------------------------------------------------------------------------
(* Queries.  They leave the service alone, so that what holds of it holds     *)
(* beside them.                                                              *)

ServiceInv ==
    /\ TypeInv
    /\ RequestInv
    /\ OneBlockPerRequest
    /\ VoteInv
    /\ ReadsAuthorised
    /\ StoreInv

LEMMA InitService == Init => ServiceInv
  BY InitType, InitRequest, InitVote, InitStore DEF ServiceInv

LEMMA ServiceStep == ServiceInv /\ [Next]_vars => ServiceInv'
  BY TypeStep, RequestStep, VoteStep, ReadsStep, StoreStep DEF ServiceInv

\* DecryptKeyRequest never waits for other nodes with saveMutex held, at any node and
\* for any block: a read that is in the chain is of a document without a Write field.
THEOREM KeyNeverWaits == KeySpec => []NeverWaitsLocked
<1>1. KeyInit => NeverWaitsLocked
  BY DEF KeyInit, NeverWaitsLocked
<1>2. [KeyNext]_<<vars, keyVars>> => [Next]_vars
  BY DEF KeyNext, KeyRequests, DecryptKeyRequest
<1>3. ServiceInv /\ NeverWaitsLocked /\ [KeyNext]_<<vars, keyVars>> => NeverWaitsLocked'
  <2> SUFFICES ASSUME ServiceInv, NeverWaitsLocked, [KeyNext]_<<vars, keyVars>>
               PROVE  NeverWaitsLocked'
    OBVIOUS
  <2>1. CASE UNCHANGED keyVars
    BY <2>1 DEF NeverWaitsLocked, keyVars
  <2>2. ASSUME NEW n \in Nodes, NEW b \in Positions, DecryptKeyRequest(n, b)
        PROVE  NeverWaitsLocked'
    <3>1. ~Reencryptable(n, b)
      BY DEF Reencryptable, ServiceInv, ReadsAuthorised
    <3>2. QED BY <2>2, <3>1 DEF DecryptKeyRequest, NeverWaitsLocked
  <2>3. QED BY <2>1, <2>2 DEF KeyNext, KeyRequests
<1>4. QED BY <1>1, <1>2, <1>3, InitService, ServiceStep, PTL DEF KeySpec

-----------------------------------------------------------------------------
(* The walk of GetReadRequests.  Blocks of the chain do not change, and the   *)
(* node that walks loses none as long as it does not restart.                *)

ListTypeInv ==
    /\ lpc \in {"idle", "walk", "done", "error", "lost"}
    /\ lat \in Nodes
    /\ start \in Nat /\ count \in Nat /\ current \in Nat
    /\ docs \in Seq(Nat)

WalkInv ==
    /\ lpc \in {"idle", "error"} => docs = <<>>
    /\ lpc \in {"walk", "done"} => start \in 1..current /\ current \in Positions
    /\ CurrentIsStored

ListInv == ListTypeInv /\ WalkInv /\ ReplyIsExact

LEMMA InitList == ListInit => ListInv
  BY RosterAssumption, SMTT(60)
  DEF ListInit, ListInv, ListTypeInv, WalkInv, ReplyIsExact, CurrentIsStored

\* No step of the service but a restart takes a block from a store.
LEMMA StoredGrows ==
  ASSUME TypeInv, Step, NEW n \in Nodes
  PROVE  stored[n] \subseteq stored'[n]
<1> USE DEF chainVars, storeVars, propVars, reqVars, dkgVars
<1>1. ASSUME NEW m \in Nodes, NEW b, StoreBlock(m, b)
      PROVE  stored[n] \subseteq stored'[n]
  BY <1>1 DEF StoreBlock, TypeInv, TypeOK
<1>2. Create => UNCHANGED stored
  BY DEF Create, CreateSkipchains, CreatePropagate, CreateStartDKG, DKGComplete, CreateDone,
     CreateTimeout
<1>3. ASSUME NEW r \in Requests, Request(r)
      PROVE  stored[n] \subseteq stored'[n]
  <2>1. AddToBunch(r) => at[r] \in Nodes /\ StoreBlock(at[r], block[r])
    BY DEF AddToBunch, TypeInv, TypeOK
  <2>2. AddToBunch(r) \/ UNCHANGED stored
    BY <1>3 DEF Request, WriteRequest, OTSWriteRequest, ReadRequest, Submit, CopyLatest,
       BlockInProgress, StoreRefused, StoreStart, Propagate, Reply
  <2>3. QED BY <1>1, <2>1, <2>2
<1>4. ASSUME NEW m \in Nodes, Node(m)
      PROVE  stored[n] \subseteq stored'[n]
  <2>1. UNCHANGED stored \/ \E b : StoreBlock(m, b)
    BY <1>4 DEF Node, PropagateStore, PropagateFetch, PropagateSave, StoreShared, Vote,
       StoreLinkedBlock
  <2>2. QED BY <1>1, <2>1
<1>5. StoreCommit \/ StoreAbort => UNCHANGED stored
  BY DEF StoreCommit, StoreAbort
<1>6. QED BY <1>2, <1>3, <1>4, <1>5 DEF Step

LEMMA ChainGrows ==
  ASSUME TypeInv, RequestInv, VoteInv, [Next]_vars
  PROVE  /\ Positions \subseteq Positions'
         /\ \A i \in Positions : chain'[i] = chain[i]
<1>1. CASE UNCHANGED chain
  BY <1>1 DEF Positions
<1>2. CASE CreateSkipchains
  <2>1. chain = <<>>
    BY <1>2 DEF CreateSkipchains, TypeInv, PositionsInv
  <2>2. QED BY <2>1, SMTT(60) DEF Positions
<1>3. CASE StoreCommit
  <2>1. chain \in Seq(Block) /\ body[busy] \in Block /\ chain' = Append(chain, body[busy])
    BY <1>3 DEF StoreCommit, TypeInv, TypeOK, Block
  <2>2. QED BY <2>1, PositionsGrow, SMTT(60) DEF Positions
<1>4. QED BY <1>1, <1>2, <1>3, ChainStep

\* What is before a block of the chain does not change.
LEMMA ReadsBeforeKept ==
  ASSUME TypeInv, RequestInv, VoteInv, [Next]_vars, UNCHANGED <<start, count>>,
         NEW c \in Positions, start \in 1..c, NEW b \in {c, c + 1}
  PROVE  ReadsBefore(b)' = ReadsBefore(b)
<1>1. c \in Nat /\ b \in Nat /\ Len(chain) \in Nat /\ c <= Len(chain) /\ start \in Nat
  BY SMTT(60) DEF Positions, TypeInv, TypeOK
<1>2. start..(b - 1) \subseteq Positions
  BY <1>1, SMTT(60) DEF Positions
<1>3. \A i \in start..(b - 1) : chain'[i] = chain[i]
  BY <1>2, ChainGrows
<1>4. QED BY <1>3 DEF ReadsBefore

\* A step of the service while a listing is under way, or over.
LEMMA ListBeside ==
  ASSUME ServiceInv, ListInv, Next, lpc' \in {lpc, "lost"}, lpc' = "lost" => lpc \in {"walk", "lost"},
         UNCHANGED <<lat, start, count, current, docs>>,
         lpc' = "walk" => stored[lat] \subseteq stored'[lat]
  PROVE  ListInv'
<1>1. ListTypeInv'
  BY DEF ListInv, ListTypeInv
<1>2. WalkInv'
  BY ChainGrows DEF ListInv, WalkInv, CurrentIsStored, ServiceInv
<1>3. /\ count > 0 => Len(docs) <= count
      /\ \A i, j \in 1..Len(docs) : i < j => docs[i] < docs[j]
  BY DEF ListInv, ReplyIsExact
<1>4. ASSUME lpc' = "walk"
      PROVE  {docs[i] : i \in 1..Len(docs)} = ReadsBefore(current)'
  <2>1. current \in Positions /\ start \in 1..current
    BY <1>4 DEF ListInv, WalkInv
  <2>2. ReadsBefore(current)' = ReadsBefore(current)
    BY <2>1, ReadsBeforeKept DEF ServiceInv
  <2>3. QED BY <1>4, <2>2 DEF ListInv, ReplyIsExact
<1>5. ASSUME lpc' = "done"
      PROVE  \E b \in {current, current + 1} :
                {docs[i] : i \in 1..Len(docs)} = ReadsBefore(b)'
  <2>1. current \in Positions /\ start \in 1..current
    BY <1>5 DEF ListInv, WalkInv
  <2>2. PICK b \in {current, current + 1} : {docs[i] : i \in 1..Len(docs)} = ReadsBefore(b)
    BY <1>5 DEF ListInv, ReplyIsExact
  <2>3. ReadsBefore(b)' = ReadsBefore(b)
    BY <2>1, <2>2, ReadsBeforeKept DEF ServiceInv
  <2>4. QED BY <2>2, <2>3
<1>6. ReplyIsExact'
  BY <1>3, <1>4, <1>5 DEF ReplyIsExact
<1>7. QED BY <1>1, <1>2, <1>6 DEF ListInv

LEMMA ListStarts ==
  ASSUME ServiceInv, ListInv, NEW n \in Nodes, GetReadRequests(n)
  PROVE  ListInv'
<1>1. PICK b \in Positions, c \in Counts :
        /\ start' = b /\ count' = c /\ current' = b
        /\ lpc' = IF b \in stored[n] /\ (c = 0 => chain[b].kind = "ots") THEN "walk" ELSE "error"
  BY DEF GetReadRequests
<1>2. docs' = <<>> /\ lat' = n /\ UNCHANGED vars
  BY DEF GetReadRequests, ListInv, WalkInv
<1>3. b \in Nat \ {0} /\ c \in Nat
  BY CountsAssumption, SMTT(60) DEF Positions
<1>4. lpc' \in {"walk", "error"} /\ (lpc' = "walk" => b \in stored[n])
  BY <1>1
<1>5. UNCHANGED <<chain, stored>>
  BY <1>2 DEF vars, chainVars, storeVars
<1>6. ListTypeInv'
  BY <1>1, <1>2, <1>3, <1>4, SMTT(60) DEF ListTypeInv
<1>7. WalkInv'
  BY <1>1, <1>2, <1>3, <1>4, <1>5, SMTT(60) DEF WalkInv, CurrentIsStored, Positions
<1>8. ReplyIsExact'
  <2>1. ReadsBefore(current)' = {}
    BY <1>1, <1>3, SMTT(60) DEF ReadsBefore
  <2>2. Len(docs') = 0
    BY <1>2
  <2>3. QED BY <1>1, <1>3, <1>4, <2>1, <2>2, SMTT(60) DEF ReplyIsExact
<1>9. QED BY <1>6, <1>7, <1>8 DEF ListInv

LEMMA DocsGrow ==
  ASSUME NEW s \in Seq(Nat), NEW x \in Nat
  PROVE  /\ Append(s, x) \in Seq(Nat) /\ Len(Append(s, x)) = Len(s) + 1
         /\ {Append(s, x)[i] : i \in 1..(Len(s) + 1)} = {s[i] : i \in 1..Len(s)} \cup {x}
         /\ \A i \in 1..Len(s) : Append(s, x)[i] = s[i]
         /\ Append(s, x)[Len(s) + 1] = x
  BY SMTT(60)

LEMMA ListVisits ==
  ASSUME ServiceInv, ListInv, VisitBlock
  PROVE  ListInv'
<1> DEFINE Found(s) == {s[i] : i \in 1..Len(s)}
<1>1. /\ lpc = "walk" /\ current \in Positions /\ start \in 1..current /\ current \in Nat
      /\ start \in Nat /\ count \in Nat /\ docs \in Seq(Nat) /\ lat \in Nodes
      /\ current \in stored[lat]
  BY DEF VisitBlock, ListInv, ListTypeInv, WalkInv, CurrentIsStored
<1>2. /\ docs' = IF IsRead THEN Append(docs, current) ELSE docs
      /\ IsRead /\ count = 0 => chain[current].doc = start
      /\ count = 0 \/ Len(docs) < count
      /\ UNCHANGED <<lat, start, count, chain, stored, fwd>>
  BY DEF VisitBlock, WantsMore, vars, chainVars, storeVars
<1>3. \/ current' = current + 1 /\ lpc' = "walk" /\ current \in fwd[lat]
      \/ current' = current /\ lpc' = "done"
  BY <1>1 DEF VisitBlock
<1>4. current \in fwd[lat] => current + 1 \in stored[lat] /\ current + 1 \in Positions
  BY <1>1 DEF ServiceInv, StoreInv, ForwardLinksResolve, TypeInv, TypeOK
<1>5. ReadsBefore(current + 1) = ReadsBefore(current) \cup (IF IsRead THEN {current} ELSE {})
  <2>1. start..((current + 1) - 1) = (start..(current - 1)) \cup {current}
    BY <1>1, SMTT(60)
  <2>2. current \notin start..(current - 1)
    BY <1>1, SMTT(60)
  <2>3. QED BY <1>2, <2>1, <2>2 DEF ReadsBefore, IsRead
<1>6. Found(docs) = ReadsBefore(current)
  BY <1>1 DEF ListInv, ReplyIsExact
<1>7. /\ docs' \in Seq(Nat) /\ Found(docs') = ReadsBefore(current + 1)
      /\ count > 0 => Len(docs') <= count
      /\ \A i, j \in 1..Len(docs') : i < j => docs'[i] < docs'[j]
  <2>1. \A i, j \in 1..Len(docs) : i < j => docs[i] < docs[j]
    BY DEF ListInv, ReplyIsExact
  <2>2. CASE IsRead
    <3>1. \A i \in 1..Len(docs) : docs[i] < current
      <4>1. \A x \in ReadsBefore(current) : x < current
        BY <1>1, SMTT(60) DEF ReadsBefore
      <4>2. QED BY <1>6, <4>1
    <3>2. PICK k \in Nat : k = Len(docs)
      BY <1>1, SMTT(60)
    <3>3. docs' = Append(docs, current) /\ Len(docs') = k + 1 /\ docs' \in Seq(Nat)
      BY <1>1, <1>2, <2>2, <3>2, DocsGrow
    <3>4. Found(docs') = ReadsBefore(current + 1)
      BY <1>1, <1>5, <1>6, <2>2, <3>2, <3>3, DocsGrow, SMTT(60)
    <3>5. /\ \A i \in 1..k : docs'[i] = docs[i]
          /\ docs'[k + 1] = current
      BY <1>1, <3>2, <3>3, DocsGrow
    <3>6. \A i, j \in 1..(k + 1) : i < j => docs'[i] < docs'[j]
      <4>1. ASSUME NEW i \in 1..(k + 1), NEW j \in 1..(k + 1), i < j
            PROVE  docs'[i] < docs'[j]
        <5>1. i \in 1..k
          BY <3>2, <4>1, SMTT(60)
        <5>2. CASE j = k + 1
          BY <3>1, <3>2, <3>5, <5>1, <5>2
        <5>3. CASE j \in 1..k
          BY <2>1, <3>2, <3>5, <4>1, <5>1, <5>3
        <5>4. QED BY <3>2, <5>2, <5>3, SMTT(60)
      <4>2. QED BY <4>1
    <3>7. count > 0 => Len(docs') <= count
      BY <1>1, <1>2, <3>2, <3>3, SMTT(60)
    <3>8. QED BY <3>3, <3>4, <3>6, <3>7
  <2>3. CASE ~IsRead
    BY <1>1, <1>2, <1>5, <1>6, <2>1, <2>3, SMTT(60)
  <2>4. QED BY <2>2, <2>3
<1>8. ListTypeInv'
  BY <1>1, <1>2, <1>3, <1>7, SMTT(60) DEF ListTypeInv
<1>9. WalkInv'
  <2>1. Positions' = Positions
    BY <1>2 DEF Positions
  <2>2. current' \in Positions /\ start \in 1..current'
    BY <1>1, <1>3, <1>4, SMTT(60)
  <2>3. CurrentIsStored'
    BY <1>2, <1>3, <1>4 DEF CurrentIsStored
  <2>4. QED BY <1>2, <1>3, <2>1, <2>2, <2>3 DEF WalkInv
<1>10. ReplyIsExact'
  <2>1. lpc' = "walk" => Found(docs') = ReadsBefore(current)'
    BY <1>2, <1>3, <1>7 DEF ReadsBefore
  <2>2. lpc' = "done" => \E b \in {current', current' + 1} : Found(docs') = ReadsBefore(b)'
    <3>1. current' \in {current', current' + 1} /\ current' + 1 \in {current', current' + 1}
      OBVIOUS
    <3>2. QED BY <1>2, <1>3, <1>7, <3>1 DEF ReadsBefore
  <2>3. QED BY <1>2, <1>7, <2>1, <2>2 DEF ReplyIsExact
<1>11. QED BY <1>8, <1>9, <1>10 DEF ListInv

LEMMA ListEnds ==
  ASSUME ServiceInv, ListInv, EnoughReads
  PROVE  ListInv'
<1>1. /\ lpc = "walk" /\ lpc' = "done"
      /\ UNCHANGED <<lat, start, count, current, docs, chain>>
  BY DEF EnoughReads, vars, chainVars
<1>2. ListTypeInv' /\ WalkInv'
  BY <1>1 DEF ListInv, ListTypeInv, WalkInv, CurrentIsStored, Positions
<1>3. ReadsBefore(current)' = ReadsBefore(current)
  BY <1>1 DEF ReadsBefore
<1>4. ReplyIsExact'
  BY <1>1, <1>3, SMTT(60) DEF ListInv, ReplyIsExact, ReadsBefore
<1>5. QED BY <1>2, <1>4 DEF ListInv

LEMMA ListStep == ServiceInv /\ ListInv /\ [ListNext]_allVars => ListInv'
<1> SUFFICES ASSUME ServiceInv, ListInv, [ListNext]_allVars
             PROVE  ListInv'
  OBVIOUS
<1>1. CASE UNCHANGED allVars
  <2>1. UNCHANGED <<lpc, lat, start, count, current, docs, chain, stored>>
    BY <1>1 DEF allVars, listVars, vars, chainVars, storeVars
  <2>2. QED
    BY <2>1, SMTT(60) DEF ListInv, ListTypeInv, WalkInv, CurrentIsStored, ReplyIsExact, ReadsBefore,
       Positions
<1>2. CASE Step /\ UNCHANGED listVars
  <2>1. lat \in Nodes /\ Next /\ UNCHANGED <<lpc, lat, start, count, current, docs>>
    BY <1>2 DEF ListInv, ListTypeInv, Next, listVars
  <2>2. stored[lat] \subseteq stored'[lat]
    BY <1>2, <2>1, StoredGrows DEF ServiceInv
  <2>3. QED BY <2>1, <2>2, ListBeside
<1>3. ASSUME NEW n \in Faulty, ListRestart(n)
      PROVE  ListInv'
  <2>1. /\ lat \in Nodes /\ n \in Nodes /\ Next
        /\ UNCHANGED <<lat, start, count, current, docs>>
        /\ lpc' = IF lpc = "walk" /\ lat = n THEN "lost" ELSE lpc
    BY <1>3, RosterAssumption DEF ListRestart, ListInv, ListTypeInv, Next
  <2>2. lpc' = "walk" => stored[lat] \subseteq stored'[lat]
    BY <1>3, <2>1 DEF ListRestart, Restart, ServiceInv, TypeInv, TypeOK
  <2>3. QED BY <2>1, <2>2, ListBeside
<1>4. ASSUME NEW n \in Nodes, GetReadRequests(n)
      PROVE  ListInv'
  BY <1>4, ListStarts
<1>5. CASE VisitBlock
  BY <1>5, ListVisits
<1>6. CASE EnoughReads
  BY <1>6, ListEnds
<1>7. SkipRead => UNCHANGED allVars
  BY DEF SkipRead, allVars
<1>8. QED BY <1>1, <1>2, <1>3, <1>4, <1>5, <1>6, <1>7 DEF ListNext, List

LEMMA ListIsOfService == [ListNext]_allVars => [Next]_vars
  BY DEF ListNext, List, SkipRead, VisitBlock, EnoughReads, GetReadRequests, ListRestart, allVars,
     Next

\* GetReadRequests returns exactly the reads from Start on that it walked over, in the
\* order of the chain and never more than Count, for any node, Start and Count and
\* however many blocks and links are stored between two steps of the walk.
THEOREM ListingIsExact == ListSpec => []ReplyIsExact
<1>1. ListInv => ReplyIsExact
  BY DEF ListInv
<1>2. QED
  BY <1>1, InitService, ServiceStep, InitList, ListStep, ListIsOfService, PTL DEF ListSpec

\* GetFromGenesisByID in the loop of GetReadRequests always finds its block, so that
\* the walk never dereferences a nil block.
THEOREM WalkNeverMissesABlock == ListSpec => []CurrentIsStored
<1>1. ListInv => CurrentIsStored
  BY DEF ListInv, WalkInv
<1>2. QED
  BY <1>1, InitService, ServiceStep, InitList, ListStep, ListIsOfService, PTL DEF ListSpec

=============================================================================
