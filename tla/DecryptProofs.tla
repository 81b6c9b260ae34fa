---------------------------- MODULE DecryptProofs ----------------------------
(***************************************************************************)
(* Theorems about the two ways a document is decrypted: OtsWorkflow, where *)
(* each trustee decrypts its share, and SetupDKG with OCS, where the       *)
(* trustees share one key.  They hold for every size of a roster, every    *)
(* threshold and every set of nodes that stop.                             *)
(***************************************************************************)
EXTENDS OtsWorkflow, OCS, FiniteSetTheorems, TLAPS

\* Leaves are for Zenon; those with arithmetic, and a few others, cite SMTT.
USE ZenonT(60)

-----------------------------------------------------------------------------
(* No share without a read.  The argument has three layers: what the       *)
(* ledger holds (LedgerInv), that the request of the reader is made of     *)
(* blocks of the ledger (DataInv), and that nothing is decrypted unless    *)
(* the request has been verified (ShareInv).                               *)

\* Every read in the ledger was allowed by an earlier write, with one reader.
ReadAllowed(l, i) ==
    l[i].kind = "read" =>
        /\ l[i].doc \in 1..(i - 1)
        /\ l[l[i].doc].kind = "ots"
        /\ \E r : l[l[i].doc].readers = {r} /\ l[i].signer = r

LedgerInv ==
    /\ ledger \in Seq(Payloads \cup {First})
    /\ \A i \in 1..Len(ledger) : ReadAllowed(ledger, i)

\* The request of a reader is about a write and a read that are in the ledger.
DataOK(d) ==
    /\ d.write.id \in 1..Len(ledger)
    /\ d.write.reader = ReaderPk(d.write.id)
    /\ d.read.id \in 1..Len(ledger)
    /\ ledger[d.read.id].kind = "read"
    /\ d.read.doc = ledger[d.read.id].doc

DataInv == handler # "idle" => DataOK(req.data)

\* There are shares only of a request that was verified.
ShareInv ==
    /\ handler = "idle" => announced = {} /\ dispatch = "none"
    /\ replies # <<>> \/ result # <<>> =>
            handler # "idle" /\ verifyDecryptionRequest(req.data)

Inv == LedgerInv /\ DataInv /\ ShareInv

\* Next, with the steps of the trustees apart from those of ledger and client.
LEMMA NextCases ==
    ASSUME [Next]_vars
    PROVE  \/ Acc!Next /\ UNCHANGED <<smcVars, client, call, decShares>>
           \/ \E roster \in Rosters, w, r \in 1..Len(ledger),
                 signer \in UNION {p.readers : p \in Payloads} :
                    GetDecryptedShares(roster, w, r, signer)
           \/ UNCHANGED <<smcVars, ledger>>
           \/ SmcNext /\ UNCHANGED ledger
  <1>1. CASE Client
    BY <1>1 DEF Client, DecryptFails, SharesDecrypted, RecoverSecret
  <1>2. CASE UNCHANGED vars
    BY <1>2 DEF vars
  <1> QED
    BY <1>1, <1>2 DEF Next

\* The ledger grows, one entry at a time, or stays as it is.
LEMMA LedgerGrows ==
    ASSUME LedgerInv, [Next]_vars
    PROVE  \/ ledger' = ledger
           \/ ledger = <<>> /\ ledger' = <<First>>
           \/ \E p \in Payloads : Acc!Allowed(ledger, p) /\ ledger' = Append(ledger, p)
  <1>1. CASE Acc!Next
    BY <1>1 DEF Acc!Next, Acc!Open, Acc!Add, Acc!Answer
  <1>2. ASSUME NEW roster, NEW w, NEW r, NEW signer, GetDecryptedShares(roster, w, r, signer)
        PROVE  ledger' = ledger
    BY <1>2 DEF GetDecryptedShares
  <1> QED
    BY <1>1, <1>2, NextCases

\* An entry that was there keeps its place.
LEMMA EntriesStay ==
    ASSUME LedgerInv, [Next]_vars, NEW i \in 1..Len(ledger)
    PROVE  i \in 1..Len(ledger') /\ ledger'[i] = ledger[i]
  <1>1. ASSUME NEW p, ledger' = Append(ledger, p)
        PROVE  i \in 1..Len(ledger') /\ ledger'[i] = ledger[i]
    BY <1>1, SMTT(60) DEF LedgerInv
  <1>2. ledger # <<>>
    BY SMTT(60)
  <1> QED
    BY <1>1, <1>2, LedgerGrows

\* AccLedger lets in a read only if an earlier write names its signer; the write has
\* one reader.
LEMMA AllowedIsRead ==
    ASSUME LedgerInv, NEW p \in Payloads, Acc!Allowed(ledger, p), p.kind = "read"
    PROVE  /\ p.doc \in 1..Len(ledger)
           /\ ledger[p.doc].kind = "ots"
           /\ \E r : ledger[p.doc].readers = {r} /\ p.signer = r
  <1>1. /\ p.doc \in 1..Len(ledger)
        /\ ledger[p.doc].kind = "ots"
        /\ p.signer \in ledger[p.doc].readers
    BY DEF Acc!Allowed
  <1>2. ledger[p.doc] \in Payloads
    BY <1>1, FirstAssumption, SMTT(60) DEF LedgerInv
  <1> QED
    BY <1>1, <1>2, WriteAssumption

LEMMA LedgerStep ==
    ASSUME LedgerInv, [Next]_vars
    PROVE  LedgerInv'
  <1>1. CASE ledger' = ledger
    BY <1>1 DEF LedgerInv
  <1>2. CASE ledger = <<>> /\ ledger' = <<First>>
    BY <1>2, FirstAssumption, SMTT(60) DEF LedgerInv, ReadAllowed
  <1>3. ASSUME NEW p \in Payloads, Acc!Allowed(ledger, p), ledger' = Append(ledger, p)
        PROVE  LedgerInv'
    <2>1. /\ ledger \in Seq(Payloads \cup {First})
          /\ ledger' \in Seq(Payloads \cup {First})
          /\ Len(ledger') = Len(ledger) + 1
          /\ Len(ledger) \in Nat
          /\ ledger'[Len(ledger) + 1] = p
      BY <1>3, SMTT(60) DEF LedgerInv
    <2>2. \A i \in 1..Len(ledger) : ledger'[i] = ledger[i]
      BY <1>3, SMTT(60) DEF LedgerInv
    <2>3. ASSUME NEW i \in 1..Len(ledger) PROVE ReadAllowed(ledger', i)
      <3>1. ReadAllowed(ledger, i)
        BY DEF LedgerInv
      <3>2. ASSUME ledger[i].doc \in 1..(i - 1)
            PROVE  ledger'[ledger[i].doc] = ledger[ledger[i].doc]
        <4>1. ledger[i].doc \in 1..Len(ledger)
          BY <3>2, <2>1, SMTT(60)
        <4> QED
          BY <4>1, <2>2
      <3> QED
        BY <2>2, <3>1, <3>2 DEF ReadAllowed
    <2>4. ReadAllowed(ledger', Len(ledger) + 1)
      <3>1. CASE p.kind = "read"
        <4>1. p.doc \in 1..Len(ledger) /\ ledger'[p.doc] = ledger[p.doc]
          BY <1>3, <2>2, <3>1, AllowedIsRead
        <4>2. p.doc \in 1..((Len(ledger) + 1) - 1)
          BY <4>1, <2>1, SMTT(60)
        <4> QED
          BY <1>3, <2>1, <3>1, <4>1, <4>2, AllowedIsRead DEF ReadAllowed
      <3> QED
        BY <2>1, <3>1 DEF ReadAllowed
    <2> QED
      BY <2>1, <2>3, <2>4, SMTT(60) DEF LedgerInv
  <1> QED
    BY <1>1, <1>2, <1>3, LedgerGrows

LEMMA DataStaysOK ==
    ASSUME LedgerInv, [Next]_vars, NEW d, DataOK(d)
    PROVE  DataOK(d)'
  BY EntriesStay DEF DataOK, ReaderPk

\* The trustees change nothing in the request, and a request does not go away.
LEMMA SmcKeepsRequest ==
    ASSUME ShareInv, SmcNext
    PROVE  /\ req' = req
           /\ handler' = "idle" <=> handler = "idle"
  BY DEF ShareInv, SmcNext, SmcStep, Start, Started, Leaf, LeafReplies, LeafRefuses,
         LeafPanics, Collect, Deliver, Stop

\* A reader's call, seen from the trustees: nothing, or the start of a request.
LEMMA ReaderAsks ==
    ASSUME NEW roster, NEW w \in 1..Len(ledger), NEW r \in 1..Len(ledger), NEW signer,
           GetDecryptedShares(roster, w, r, signer)
    PROVE  /\ ledger' = ledger
           /\ \/ UNCHANGED smcVars
              \/ /\ handler = "idle"
                 /\ handler' = "start"
                 /\ DataOK(req.data)'
                 /\ UNCHANGED <<replies, result>>
  <1>1. ledger' = ledger /\ ledger[r].kind = "read"
    BY DEF GetDecryptedShares
  <1>2. ASSUME NEW proof, OTSDecrypt(roster, w, r, proof, signer)
        PROVE  /\ handler = "idle"
               /\ handler' = "start"
               /\ DataOK(req.data)'
               /\ UNCHANGED <<replies, result>>
    <2>1. /\ handler = "idle"
          /\ handler' = "start"
          /\ UNCHANGED <<replies, result>>
      BY <1>2 DEF OTSDecrypt, DecryptRequest
    <2>2. /\ req'.data.write.id = w
          /\ req'.data.write.reader = ReaderPk(w)
          /\ req'.data.read.id = r
          /\ req'.data.read.doc = ledger[r].doc
      BY <1>2 DEF OTSDecrypt, DecryptRequest
    <2>3. ReaderPk(w)' = ReaderPk(w)
      BY <1>1 DEF ReaderPk
    <2>4. DataOK(req.data)'
      BY <1>1, <2>2, <2>3 DEF DataOK, ReaderPk
    <2> QED
      BY <2>1, <2>4
  <1>3. \/ UNCHANGED smcVars
        \/ OTSDecrypt(roster, w, r, GetForward(w, r - w - 1), signer)
    BY DEF GetDecryptedShares
  <1> QED
    BY <1>1, <1>2, <1>3

LEMMA DataStep ==
    ASSUME Inv, [Next]_vars
    PROVE  DataInv'
  <1>1. CASE UNCHANGED smcVars
    <2>1. CASE handler # "idle"
      BY <1>1, <2>1, DataStaysOK DEF Inv, DataInv, DataOK, ReaderPk, smcVars
    <2> QED
      BY <1>1, <2>1 DEF DataInv, smcVars
  <1>2. ASSUME NEW roster, NEW w \in 1..Len(ledger), NEW r \in 1..Len(ledger), NEW signer,
               GetDecryptedShares(roster, w, r, signer)
        PROVE  DataInv'
    BY <1>1, <1>2, ReaderAsks DEF DataInv
  <1>3. CASE SmcNext /\ UNCHANGED ledger
    BY <1>3, SmcKeepsRequest DEF Inv, DataInv, DataOK, ReaderPk
  <1> QED
    BY <1>1, <1>2, <1>3, NextCases

\* A trustee that decrypts has verified the request first.
LEMMA ShareStep ==
    ASSUME Inv, [Next]_vars
    PROVE  ShareInv'
  <1> USE DEF Inv
  <1>1. CASE UNCHANGED smcVars
    BY <1>1 DEF ShareInv, smcVars, verifyDecryptionRequest
  <1>2. ASSUME NEW roster, NEW w \in 1..Len(ledger), NEW r \in 1..Len(ledger), NEW signer,
               GetDecryptedShares(roster, w, r, signer)
        PROVE  ShareInv'
    BY <1>1, <1>2, ReaderAsks DEF ShareInv
  <1>3. CASE SmcNext
    <2>1. req' = req /\ (handler' = "idle" <=> handler = "idle")
      BY <1>3, SmcKeepsRequest
    <2>2. ASSUME NEW t, Leaf(t) PROVE ShareInv'
      BY <2>1, <2>2
      DEF ShareInv, Leaf, LeafReplies, LeafRefuses, LeafPanics, verifyDecryptionRequest
    <2>3. CASE Start \/ Started
      BY <2>1, <2>3 DEF ShareInv, Start, Started, verifyDecryptionRequest
    <2>4. CASE Collect \/ Deliver
      BY <2>1, <2>4 DEF ShareInv, Collect, Deliver, verifyDecryptionRequest
    <2>5. ASSUME NEW t, Stop(t) PROVE ShareInv'
      BY <2>1, <2>5 DEF ShareInv, Stop, verifyDecryptionRequest
    <2> QED
      BY <1>3, <2>2, <2>3, <2>4, <2>5 DEF SmcNext, SmcStep
  <1> QED
    BY <1>1, <1>2, <1>3, NextCases

LEMMA InvStep == Inv /\ [Next]_vars => Inv'
  BY LedgerStep, DataStep, ShareStep DEF Inv

LEMMA InvInit == Init => Inv
  BY SMTT(60) DEF Init, SmcInit, Acc!Init, Inv, LedgerInv, DataInv, ShareInv

\* The two cothorities together: a request that was verified is about a read that the
\* ledger let in.
LEMMA InvImpliesRead == Inv => DecryptedOnlyAfterRead
  <1> SUFFICES ASSUME Inv, replies # <<>> \/ result # <<>>
               PROVE  DecryptedOnlyAfterRead
    BY DEF DecryptedOnlyAfterRead
  <1> DEFINE i == req.data.read.id
  <1>1. DataOK(req.data) /\ verifyDecryptionRequest(req.data)
    BY DEF Inv, DataInv, ShareInv
  <1>2. /\ i \in 1..Len(ledger)
        /\ ledger[i].kind = "read"
        /\ ledger[i].doc = req.data.write.id
        /\ req.data.signer = ReaderPk(ledger[i].doc)
    BY <1>1 DEF DataOK, verifyDecryptionRequest
  <1>3. PICK r : ledger[ledger[i].doc].readers = {r} /\ ledger[i].signer = r
    BY <1>2 DEF Inv, LedgerInv, ReadAllowed
  <1>4. req.data.signer = r
    BY <1>2, <1>3 DEF ReaderPk
  <1> QED
    BY <1>2, <1>3, <1>4 DEF DecryptedOnlyAfterRead

\* For every list of trustees, every roster a reader asks and every ledger: no trustee
\* decrypts a share (OTSDecrypt.Dispatch) before a read by the reader of the write is
\* in the ledger, whoever stops and however the ledger grows meanwhile.
THEOREM SharesNeedRead == Spec => []DecryptedOnlyAfterRead
  BY InvInit, InvStep, InvImpliesRead, PTL DEF Spec

-----------------------------------------------------------------------------
(* The shares.  A child is announced to once, replies at most once, and    *)
(* with the number of its own place in the tree or without contents        *)
(* (ReplyInv).  So when no share is without contents, as many as the tree  *)
(* has nodes are all the numbers there are (ResultInv).                    *)

DistinctShares(s) == \A i, j \in 1..Len(s) : s[i] = s[j] /\ s[i] # 0 => i = j

TreeInv ==
    /\ sent \in Nat
    /\ handler = "idle" => tree = <<>> /\ sent = 0 /\ idx = 0
    /\ handler # "idle" =>
            /\ tree \in Seq(Trustees) /\ IsInjective(tree)
            /\ sent < Len(tree)
            /\ idx = 1

ReplyInv ==
    /\ \A t \in announced : \E k \in 2..(sent + 1) : tree[k] = t
    /\ replies \in Seq(0..Len(SC))
    /\ \A i \in 1..Len(replies) :
        replies[i] # 0 => replies[i] \in 2..(sent + 1) /\ tree[replies[i]] \notin announced
    /\ DistinctShares(replies)

ResultInv ==
    /\ result \in Seq(0..Len(SC)) /\ DistinctShares(result)
    /\ dispatch = "deliver" \/ handler = "replied" => result # <<>>
    /\ result # <<>> =>
            /\ dispatch # "collect" /\ handler # "idle"
            /\ Len(result) = Len(tree)
            /\ \A i \in 1..Len(result) : result[i] \in 0..Len(tree)

ClientInv ==
    client \in {"shares", "recovered"} => result # <<>> /\ decShares = 1..Len(result)

SliceInv == TypeOK /\ TreeInv /\ ReplyInv /\ ResultInv /\ ClientInv

\* The root is the first of the roster already, so the tree keeps the order.
LEMMA RootFirst ==
    ASSUME NEW r \in Seq(Trustees), r # <<>>
    PROVE  GenerateNaryTreeWithRoot(r, 1) = r
  <1>1. SubSeq(r, 1, 1 - 1) = <<>>
    BY SMTT(60)
  <1>2. SubSeq(r, 2, Len(r)) = Tail(r) /\ <<r[1]>> \o Tail(r) = r
    BY SMTT(60)
  <1> QED
    BY <1>1, <1>2, SMTT(60) DEF GenerateNaryTreeWithRoot

\* Distinct numbers from 1 to the length of the list are all of them.
LEMMA SharesAreAll ==
    ASSUME NEW s \in Seq(Nat), DistinctShares(s), \A i \in 1..Len(s) : s[i] \in 1..Len(s)
    PROVE  Range(s) = 1..Len(s)
  <1>1. s \in [1..Len(s) -> 1..Len(s)] /\ Len(s) \in Nat /\ DOMAIN s = 1..Len(s)
    BY SMTT(60)
  <1>2. s \in Injection(1..Len(s), 1..Len(s))
    BY <1>1, SMTT(60) DEF Injection, IsInjective, DistinctShares
  <1>3. IsFiniteSet(1..Len(s))
    BY <1>1, FS_Interval, SMTT(60)
  <1>4. s \in Surjection(1..Len(s), 1..Len(s))
    BY <1>2, <1>3, FS_Injection
  <1>5. \A k \in 1..Len(s) : \E i \in 1..Len(s) : s[i] = k
    BY <1>4 DEF Surjection
  <1> QED
    BY <1>1, <1>5 DEF Range

LEMMA SliceInit == Init => SliceInv
  <1> SUFFICES ASSUME Init PROVE SliceInv
    OBVIOUS
  <1> USE DEF Init, SmcInit
  <1>1. <<>> \in Seq(0..Len(SC)) /\ Len(<<>>) = 0
    BY SMTT(60)
  <1>2. TypeOK
    BY <1>1 DEF TypeOK, SmcTypeOK
  <1>3. TreeInv /\ ClientInv
    BY DEF TreeInv, ClientInv
  <1>4. ReplyInv /\ ResultInv
    BY <1>1, SMTT(60) DEF ReplyInv, ResultInv, DistinctShares
  <1> QED
    BY <1>2, <1>3, <1>4 DEF SliceInv

\* A reader's call.
LEMMA SliceAsked ==
    ASSUME LedgerInv, ShareInv, SliceInv, NEW roster \in Rosters,
           NEW w \in 1..Len(ledger), NEW r \in 1..Len(ledger),
           NEW signer, GetDecryptedShares(roster, w, r, signer)
    PROVE  SliceInv'
  <1>1. w \in Nat /\ r \in Nat
    BY SMTT(60) DEF LedgerInv
  <1>2. call' \in [write : Nat, read : Nat] /\ decShares' = decShares /\ client = "idle"
    BY <1>1 DEF GetDecryptedShares
  <1>3. CASE UNCHANGED smcVars /\ client' \in {"failed", "noLink"}
    <2>1. TypeOK'
      BY <1>2, <1>3 DEF SliceInv, TypeOK, SmcTypeOK, smcVars
    <2>2. TreeInv' /\ ReplyInv' /\ ResultInv'
      BY <1>3 DEF SliceInv, TreeInv, ReplyInv, ResultInv, DistinctShares, smcVars
    <2> QED
      BY <1>3, <2>1, <2>2 DEF SliceInv, ClientInv
  <1>4. ASSUME NEW proof, OTSDecrypt(roster, w, r, proof, signer), client' = "asked"
        PROVE  SliceInv'
    <2>1. /\ handler = "idle" /\ handler' = "start"
          /\ tree' = GenerateNaryTreeWithRoot(roster, 1)
          /\ dispatch' \in {"announce", "collect"}
          /\ idx' = 1
          /\ UNCHANGED <<sent, announced, replies, result, down>>
      BY <1>4 DEF OTSDecrypt, DecryptRequest
    <2>2. roster \in Seq(Trustees) /\ roster # <<>> /\ IsInjective(roster)
      BY RosterAssumption
    <2>3. tree' = roster
      BY <2>1, <2>2, RootFirst
    <2>4. sent = 0 /\ announced = {} /\ replies = <<>> /\ result = <<>>
      BY <2>1 DEF SliceInv, TreeInv, ShareInv, ResultInv
    <2>5. TypeOK'
      BY <1>2, <1>4, <2>1, <2>4 DEF SliceInv, TypeOK, SmcTypeOK
    <2>6. TreeInv'
      BY <2>1, <2>2, <2>3, <2>4, SMTT(60) DEF TreeInv
    <2>7. ReplyInv'
      BY <2>1, <2>4, SMTT(60) DEF SliceInv, ReplyInv, DistinctShares
    <2>8. ResultInv'
      BY <2>1, <2>4, SMTT(60) DEF SliceInv, ResultInv, DistinctShares
    <2> QED
      BY <1>4, <2>5, <2>6, <2>7, <2>8 DEF SliceInv, ClientInv
  <1> QED
    BY <1>3, <1>4 DEF GetDecryptedShares

\* The client's own steps.
LEMMA SliceClient ==
    ASSUME SliceInv, Client
    PROVE  SliceInv'
  <1>1. UNCHANGED <<smcVars, call>>
    BY DEF Client, DecryptFails, SharesDecrypted, RecoverSecret
  <1>2. TreeInv' /\ ReplyInv' /\ ResultInv' /\ SmcTypeOK' /\ call' \in [write : Nat, read : Nat]
    BY <1>1 DEF SliceInv, TypeOK, SmcTypeOK, TreeInv, ReplyInv, ResultInv, DistinctShares, smcVars
  <1>3. result' = result
    BY <1>1 DEF smcVars
  <1>4. CASE client' = "failed" /\ UNCHANGED decShares
    BY <1>2, <1>4 DEF SliceInv, TypeOK, ClientInv
  <1>5. CASE client = "shares" /\ client' = "recovered" /\ UNCHANGED decShares
    BY <1>2, <1>3, <1>5 DEF SliceInv, TypeOK, ClientInv
  <1>6. CASE /\ handler = "replied" /\ 0 \notin Range(result)
             /\ client' = "shares" /\ decShares' = Range(result)
    <2>1. result \in Seq(0..Len(SC)) /\ result # <<>> /\ DistinctShares(result)
      BY <1>6 DEF SliceInv, ResultInv
    <2>2. \A i \in 1..Len(result) : result[i] \in 1..Len(result) /\ result[i] \in 1..Len(SC)
      <3>1. \A i \in 1..Len(result) : result[i] # 0
        BY <1>6, <2>1, SMTT(60) DEF Range
      <3>2. \A i \in 1..Len(result) : result[i] \in 0..Len(result) /\ result[i] \in 0..Len(SC)
        BY <2>1, SMTT(60) DEF SliceInv, ResultInv
      <3> QED
        BY <3>1, <3>2, SMTT(60)
    <2>3. result \in Seq(Nat)
      BY <2>1, SMTT(60)
    <2>4. decShares' = 1..Len(result)
      BY <1>6, <2>1, <2>2, <2>3, SharesAreAll
    <2>5. decShares' \subseteq 1..Len(SC)
      BY <1>6, <2>1, <2>2, SMTT(60) DEF Range
    <2> QED
      BY <1>2, <1>3, <1>6, <2>1, <2>4, <2>5 DEF SliceInv, TypeOK, ClientInv
  <1> QED
    BY <1>4, <1>5, <1>6 DEF Client, DecryptFails, SharesDecrypted, RecoverSecret

LEMMA SliceLeaf ==
    ASSUME SliceInv, ShareInv, NEW t \in Trustees, LeafReplies(t),
           UNCHANGED <<client, call, decShares>>
    PROVE  TypeOK' /\ TreeInv' /\ ReplyInv'
  <1>1. /\ t \in announced /\ announced' = announced \ {t}
        /\ Index(t) <= Len(SC)
        /\ replies' = IF Root \in down THEN replies ELSE Append(replies, DecShare(t, Index(t)))
        /\ UNCHANGED <<req, tree, handler, dispatch, idx, sent, result, down>>
    BY DEF LeafReplies
  <1>2. handler # "idle"
    BY <1>1 DEF ShareInv
  <1>3. tree \in Seq(Trustees) /\ IsInjective(tree) /\ sent \in Nat /\ sent < Len(tree)
    BY <1>2 DEF SliceInv, TreeInv
  <1>4. PICK k \in 2..(sent + 1) : tree[k] = t
    BY <1>1 DEF SliceInv, ReplyInv
  <1>5. k \in DOMAIN tree /\ DOMAIN tree = 1..Len(tree)
    BY <1>3, SMTT(60)
  <1>6. Index(t) = k
    BY <1>3, <1>4, <1>5 DEF Index, IsInjective
  <1>7. DecShare(t, k) \in {0, k} /\ DecShare(t, k) \in 0..Len(SC)
    BY <1>1, <1>3, <1>6, TrusteesAssumption, SMTT(60) DEF DecShare
  <1>8. \A i \in 1..Len(replies) : replies[i] # k
    BY <1>1, <1>3, <1>4, SMTT(60) DEF SliceInv, ReplyInv
  <1>9. replies \in Seq(0..Len(SC)) /\ Len(replies) \in Nat
    BY SMTT(60) DEF SliceInv, ReplyInv
  <1>10. TreeInv'
    BY <1>1 DEF SliceInv, TreeInv
  <1>11. ReplyInv' /\ replies' \in Seq(0..Len(SC))
    <2>1. CASE replies' = replies
      BY <1>1, <2>1 DEF SliceInv, ReplyInv, DistinctShares
    <2>2. CASE replies' = Append(replies, DecShare(t, k))
      <3>1. /\ replies' \in Seq(0..Len(SC)) /\ Len(replies') = Len(replies) + 1
            /\ replies'[Len(replies) + 1] = DecShare(t, k)
            /\ \A i \in 1..Len(replies) : replies'[i] = replies[i]
            /\ \A i \in 1..Len(replies') : i \in 1..Len(replies) \/ i = Len(replies) + 1
        BY <1>7, <1>9, <2>2, SMTT(60)
      <3>2. \A u \in announced' : \E l \in 2..(sent + 1) : tree[l] = u
        BY <1>1 DEF SliceInv, ReplyInv
      <3>3. \A i \in 1..Len(replies') :
                replies'[i] # 0 => replies'[i] \in 2..(sent + 1) /\ tree[replies'[i]] \notin announced'
        BY <1>1, <1>4, <1>7, <3>1, SMTT(60) DEF SliceInv, ReplyInv
      <3>4. DistinctShares(replies')
        BY <1>7, <1>8, <3>1 DEF SliceInv, ReplyInv, DistinctShares
      <3> QED
        BY <1>1, <3>1, <3>2, <3>3, <3>4 DEF ReplyInv
    <2> QED
      BY <1>1, <1>6, <2>1, <2>2
  <1>12. announced' \subseteq Range(tree')
    BY <1>1 DEF SliceInv, TypeOK, SmcTypeOK
  <1>13. TypeOK'
    BY <1>1, <1>11, <1>12 DEF SliceInv, TypeOK, SmcTypeOK
  <1> QED
    BY <1>10, <1>11, <1>13

LEMMA SliceStart ==
    ASSUME SliceInv, Start, UNCHANGED <<client, call, decShares>>
    PROVE  SliceInv'
  <1>1. /\ handler = "start" /\ sent + 1 < Len(tree)
        /\ UNCHANGED <<req, tree, dispatch, idx, replies, result, down>>
    BY DEF Start
  <1>2. tree \in Seq(Trustees) /\ IsInjective(tree) /\ sent \in Nat /\ Len(tree) \in Nat
    BY <1>1, SMTT(60) DEF SliceInv, TreeInv
  <1>3. CASE handler' = "error" /\ UNCHANGED <<sent, announced>>
    <2>1. TypeOK' /\ TreeInv'
      BY <1>1, <1>3 DEF SliceInv, TypeOK, SmcTypeOK, TreeInv
    <2>2. ReplyInv' /\ ResultInv' /\ ClientInv'
      BY <1>1, <1>3 DEF SliceInv, ReplyInv, ResultInv, ClientInv, DistinctShares
    <2> QED
      BY <2>1, <2>2 DEF SliceInv
  <1>4. CASE sent' = sent + 1 /\ announced' = announced \cup {tree[sent + 2]} /\ UNCHANGED handler
    <2>1. DOMAIN tree = 1..Len(tree) /\ sent + 2 \in DOMAIN tree
      BY <1>1, <1>2, SMTT(60)
    <2>2. TypeOK'
      <3>1. tree[sent + 2] \in Range(tree) /\ announced \subseteq Range(tree)
        BY <2>1 DEF SliceInv, TypeOK, SmcTypeOK, Range
      <3>2. announced' \subseteq Range(tree')
        BY <1>1, <1>4, <3>1
      <3>3. sent' \in Nat
        BY <1>2, <1>4, SMTT(60)
      <3> QED
        BY <1>1, <1>4, <3>2, <3>3 DEF SliceInv, TypeOK, SmcTypeOK
    <2>3. TreeInv'
      BY <1>1, <1>2, <1>4, SMTT(60) DEF SliceInv, TreeInv
    <2>4. \A u \in announced' : \E l \in 2..(sent' + 1) : tree[l] = u
      <3>1. sent + 2 \in 2..(sent' + 1) /\ 2..(sent + 1) \subseteq 2..(sent' + 1)
        BY <1>2, <1>4, SMTT(60)
      <3> QED
        BY <1>4, <3>1 DEF SliceInv, ReplyInv
    <2>5. ASSUME NEW i \in 1..Len(replies), replies[i] # 0
          PROVE  replies[i] \in 2..(sent' + 1) /\ tree[replies[i]] \notin announced'
      <3>1. replies[i] \in 2..(sent + 1) /\ tree[replies[i]] \notin announced
        BY <2>5 DEF SliceInv, ReplyInv
      <3>2. replies[i] \in DOMAIN tree /\ replies[i] # sent + 2
        BY <1>1, <1>2, <2>1, <3>1, SMTT(60)
      <3>3. tree[replies[i]] # tree[sent + 2]
        BY <1>2, <2>1, <3>2 DEF IsInjective
      <3> QED
        BY <1>2, <1>4, <3>1, <3>3, SMTT(60)
    <2>6. ReplyInv'
      BY <1>1, <2>4, <2>5 DEF SliceInv, ReplyInv, DistinctShares
    <2>7. ResultInv' /\ ClientInv'
      BY <1>1, <1>4 DEF SliceInv, ResultInv, ClientInv, DistinctShares
    <2> QED
      BY <2>2, <2>3, <2>6, <2>7 DEF SliceInv
  <1> QED
    BY <1>3, <1>4 DEF Start

LEMMA SliceCollect ==
    ASSUME SliceInv, ShareInv, Collect, UNCHANGED <<client, call, decShares>>
    PROVE  SliceInv'
  <1>1. /\ dispatch = "collect" /\ Len(replies) = Len(tree) - 1
        /\ UNCHANGED <<req, tree, handler, idx, sent, announced, replies, down>>
    BY DEF Collect
  <1>2. handler # "idle" /\ tree \in Seq(Trustees) /\ idx = 1 /\ sent \in Nat /\ sent < Len(tree)
    BY <1>1 DEF ShareInv, SliceInv, TreeInv
  <1>3. TreeInv' /\ ReplyInv'
    BY <1>1 DEF SliceInv, TreeInv, ReplyInv, DistinctShares
  <1>4. handler # "replied" /\ result = <<>>
    BY <1>1 DEF SliceInv, ResultInv
  <1>5. CASE dispatch' = "refused" /\ UNCHANGED result
    <2>1. TypeOK'
      BY <1>1, <1>5 DEF SliceInv, TypeOK, SmcTypeOK
    <2>2. ResultInv' /\ ClientInv'
      BY <1>1, <1>4, <1>5, SMTT(60) DEF SliceInv, ResultInv, ClientInv, DistinctShares
    <2> QED
      BY <1>3, <2>1, <2>2 DEF SliceInv
  <1>6. CASE dispatch' = "deliver" /\ result' = Append(replies, DecShare(Root, idx))
    <2>1. DecShare(Root, idx) \in {0, 1} /\ DecShare(Root, idx) \in 0..Len(SC)
      BY <1>2, TrusteesAssumption, SMTT(60) DEF DecShare
    <2>2. replies \in Seq(0..Len(SC)) /\ Len(replies) \in Nat /\ Len(tree) \in Nat
      BY <1>2, SMTT(60) DEF SliceInv, ReplyInv
    <2>3. /\ result' \in Seq(0..Len(SC)) /\ Len(result') = Len(replies) + 1
          /\ result'[Len(replies) + 1] = DecShare(Root, idx)
          /\ \A i \in 1..Len(replies) : result'[i] = replies[i]
          /\ \A i \in 1..Len(result') : i \in 1..Len(replies) \/ i = Len(replies) + 1
      BY <1>6, <2>1, <2>2, SMTT(60)
    <2>4. \A i \in 1..Len(replies) : replies[i] # 1 /\ replies[i] \in 0..Len(tree)
      BY <1>2, <2>2, SMTT(60) DEF SliceInv, ReplyInv
    <2>5. DistinctShares(result')
      BY <2>1, <2>3, <2>4 DEF SliceInv, ReplyInv, DistinctShares
    <2>6. \A i \in 1..Len(result') : result'[i] \in 0..Len(tree)
      <3>1. DecShare(Root, idx) \in 0..Len(tree)
        BY <1>2, <2>1, <2>2, SMTT(60)
      <3> QED
        BY <2>3, <2>4, <3>1
    <2>7. Len(result') = Len(tree) /\ result' # <<>>
      BY <1>1, <2>2, <2>3, SMTT(60)
    <2>8. ResultInv'
      BY <1>1, <1>2, <1>6, <2>3, <2>5, <2>6, <2>7 DEF ResultInv
    <2>9. TypeOK'
      BY <1>1, <1>6, <2>3 DEF SliceInv, TypeOK, SmcTypeOK
    <2>10. ClientInv'
      BY <1>4 DEF SliceInv, ClientInv
    <2> QED
      BY <1>3, <2>8, <2>9, <2>10 DEF SliceInv
  <1> QED
    BY <1>5, <1>6 DEF Collect

LEMMA SliceSmc ==
    ASSUME SliceInv, ShareInv, SmcNext, UNCHANGED <<client, call, decShares>>
    PROVE  SliceInv'
  <1>1. ASSUME UNCHANGED <<tree, idx, sent, replies, result>>, announced' \subseteq announced,
               SmcTypeOK', handler' = "idle" <=> handler = "idle",
               dispatch' \in {dispatch, "none"}, handler' = "replied" => handler = "replied"
        PROVE  SliceInv'
    <2>1. TypeOK' /\ TreeInv'
      BY <1>1 DEF SliceInv, TypeOK, TreeInv
    <2>2. ReplyInv'
      BY <1>1 DEF SliceInv, ReplyInv, DistinctShares
    <2>3. ResultInv' /\ ClientInv'
      BY <1>1 DEF SliceInv, ResultInv, ClientInv, DistinctShares
    <2> QED
      BY <2>1, <2>2, <2>3 DEF SliceInv
  <1>2. CASE Started
    BY <1>1, <1>2 DEF Started, SliceInv, TypeOK, SmcTypeOK
  <1>3. CASE Deliver
    <2>1. TypeOK' /\ TreeInv'
      BY <1>3 DEF Deliver, SliceInv, TypeOK, SmcTypeOK, TreeInv
    <2>2. ReplyInv' /\ ResultInv' /\ ClientInv'
      BY <1>3 DEF Deliver, SliceInv, ReplyInv, ResultInv, ClientInv, DistinctShares
    <2> QED
      BY <2>1, <2>2 DEF SliceInv
  <1>4. ASSUME NEW t \in Trustees, LeafReplies(t) PROVE SliceInv'
    <2>1. ResultInv' /\ ClientInv'
      BY <1>4 DEF LeafReplies, SliceInv, ResultInv, ClientInv, DistinctShares
    <2> QED
      BY <1>4, <2>1, SliceLeaf DEF SliceInv
  <1>5. ASSUME NEW t \in Trustees, LeafRefuses(t) \/ LeafPanics(t) PROVE SliceInv'
    <2>1. /\ announced' = announced \ {t}
          /\ UNCHANGED <<tree, handler, dispatch, idx, sent, replies, result>>
      BY <1>5 DEF LeafRefuses, LeafPanics
    <2> QED
      BY <1>1, <2>1 DEF SliceInv, TypeOK, SmcTypeOK
  <1>6. ASSUME NEW t, Stop(t) PROVE SliceInv'
    <2>1. /\ announced' = announced \ {t}
          /\ UNCHANGED <<tree, idx, sent, replies, result>>
      BY <1>6 DEF Stop
    <2>2. CASE UNCHANGED <<dispatch, handler>>
      BY <1>1, <2>1, <2>2 DEF SliceInv, TypeOK, SmcTypeOK
    <2>3. CASE /\ dispatch' = "none"
               /\ handler' = IF handler \in {"start", "wait"} THEN "lost" ELSE handler
      <3>1. CASE handler' = handler
        BY <1>1, <2>1, <2>3, <3>1 DEF SliceInv, TypeOK, SmcTypeOK
      <3>2. CASE handler \in {"start", "wait"} /\ handler' = "lost"
        BY <1>1, <2>1, <2>3, <3>2 DEF SliceInv, TypeOK, SmcTypeOK
      <3> QED
        BY <2>3, <3>1, <3>2
    <2> QED
      BY <1>6, <2>2, <2>3 DEF Stop
  <1> QED
    BY <1>2, <1>3, <1>4, <1>5, <1>6, SliceStart, SliceCollect DEF SmcNext, SmcStep, Leaf

LEMMA SliceStep ==
    ASSUME LedgerInv, ShareInv, SliceInv, [Next]_vars
    PROVE  SliceInv'
  <1>1. CASE UNCHANGED <<smcVars, client, call, decShares>>
    <2>1. TypeOK'
      BY <1>1 DEF SliceInv, TypeOK, SmcTypeOK, smcVars
    <2>2. TreeInv' /\ ReplyInv' /\ ResultInv' /\ ClientInv'
      BY <1>1 DEF SliceInv, TreeInv, ReplyInv, ResultInv, ClientInv, DistinctShares, smcVars
    <2> QED
      BY <2>1, <2>2 DEF SliceInv
  <1>2. CASE UNCHANGED vars
    BY <1>1, <1>2 DEF vars
  <1> QED
    BY <1>1, <1>2, SliceAsked, SliceClient, SliceSmc DEF Next

LEMMA SliceAlways == Spec => []SliceInv
  <1>1. Inv /\ SliceInv /\ [Next]_vars => SliceInv'
    BY SliceStep DEF Inv
  <1> QED
    BY <1>1, InvInit, InvStep, SliceInit, PTL DEF Spec

\* For every list of trustees and every roster: what the trustees send and the client
\* keeps has its type; no trustee replies with the number of a share the writer did
\* not make.
THEOREM WorkflowTypeCorrect == Spec => []TypeOK
  <1>1. SliceInv => TypeOK
    BY DEF SliceInv
  <1> QED
    BY <1>1, SliceAlways, PTL

\* GetDecryptedShares fills its slice without a gap and never indexes out of range,
\* for every roster, every order of the replies and whoever stops meanwhile.
THEOREM SliceIsFilled == Spec => []SharesFillTheSlice
  <1>1. SliceInv => SharesFillTheSlice
    BY DEF SliceInv, ClientInv, SharesFillTheSlice
  <1> QED
    BY <1>1, SliceAlways, PTL

-----------------------------------------------------------------------------
(* The end of a key generation.  Dispatch counts commits and looks at no   *)
(* sender; the count is right because a node sends its commits once, and   *)
(* so every commit a node takes from its channel is of a further node.     *)

Places == {"start", "deals", "responses", "commits", "wait", "finished"}

DkgTypes ==
    /\ pc \in [Nodes -> Places]
    /\ comms \in [Nodes -> [Nodes -> Nat]]
    /\ secrets \in [Nodes -> SUBSET Nodes]
    /\ ncomms \in [Nodes -> Nat]
    /\ setup \subseteq Others /\ waitReplies \subseteq Others

\* A commit is in the channel of a node, or it was processed, or neither.
CommitsOnce ==
    \A n, m \in Nodes :
        /\ m \notin commit => comms[n][m] = 0 /\ m \notin secrets[n]
        /\ comms[n][m] <= IF m \in secrets[n] THEN 0 ELSE 1

CountIsRight ==
    \A n \in Nodes :
        /\ ncomms[n] = Cardinality(secrets[n])
        /\ pc[n] \in {"wait", "finished"} => ncomms[n] >= Size

\* A child that has answered is at its end, and the root waits for all of them.
Barrier ==
    /\ \A n \in waitReplies : pc[n] = "finished"
    /\ Wait /\ pc[DkgRoot] = "finished" => waitReplies = Others

DkgInv == DkgTypes /\ CommitsOnce /\ CountIsRight /\ Barrier

LEMMA NodesAreFinite == IsFiniteSet(Nodes) /\ Cardinality(Nodes) = Size
  BY DkgAssumption, FS_Interval, SMTT(60) DEF Nodes

LEMMA RootIsNode == DkgRoot \in Nodes /\ Others \subseteq Nodes /\ DkgRoot \notin Others
  BY DkgAssumption, SMTT(60) DEF Nodes, DkgRoot, Others

LEMMA DkgInvInit == OcsInit => DkgInv
  <1> SUFFICES ASSUME OcsInit PROVE DkgInv
    OBVIOUS
  <1> USE DEF OcsInit, DkgInit
  <1>1. DkgTypes
    BY DEF DkgTypes, Places
  <1>2. CommitsOnce
    BY SMTT(60) DEF CommitsOnce
  <1>3. CountIsRight
    BY FS_EmptySet DEF CountIsRight
  <1>4. Barrier
    BY RootIsNode DEF Barrier
  <1> QED
    BY <1>1, <1>2, <1>3, <1>4 DEF DkgInv

\* The steps that leave the commits and the end of the protocol alone.
LEMMA EarlyStep ==
    ASSUME DkgInv, UNCHANGED <<comms, commit, secrets, ncomms, setup, waitReplies>>,
           pc' \in [Nodes -> Places],
           \A n \in Nodes : pc'[n] # pc[n] =>
                pc[n] \in {"start", "deals", "responses"} /\ pc'[n] \notin {"wait", "finished"}
    PROVE  DkgInv'
  <1>1. DkgTypes' /\ CommitsOnce'
    BY DEF DkgInv, DkgTypes, CommitsOnce
  <1>2. CountIsRight'
    BY DEF DkgInv, CountIsRight
  <1>3. Barrier'
    BY RootIsNode DEF DkgInv, Barrier, DkgTypes
  <1> QED
    BY <1>1, <1>2, <1>3 DEF DkgInv

LEMMA ResponseStep ==
    ASSUME DkgInv, NEW n \in Nodes, NEW m \in Nodes, allResponse(n, m)
    PROVE  DkgInv'
  <1>1. /\ pc[n] = "responses"
        /\ pc' = [pc EXCEPT ![n] = IF AllResponses(n) THEN "commits" ELSE @]
        /\ UNCHANGED <<secrets, ncomms, setup, waitReplies>>
    BY DEF allResponse
  <1>2. /\ pc' \in [Nodes -> Places]
        /\ pc'[n] \in {"responses", "commits"}
        /\ \A k \in Nodes \ {n} : pc'[k] = pc[k]
    BY <1>1 DEF DkgInv, DkgTypes, Places
  <1>3. CASE UNCHANGED <<commit, comms>>
    BY <1>1, <1>2, <1>3, EarlyStep
  <1>4. ASSUME NotCommitted(n), commit' = commit \cup {n}, NEW to,
               comms' = [k \in Nodes |->
                            IF k \in to THEN [comms[k] EXCEPT ![n] = @ + 1] ELSE comms[k]]
        PROVE  DkgInv'
    <2>1. /\ comms' \in [Nodes -> [Nodes -> Nat]]
          /\ \A k, l \in Nodes : l # n => comms'[k][l] = comms[k][l]
          /\ \A k \in Nodes : comms'[k][n] \in {comms[k][n], comms[k][n] + 1}
      BY <1>4, SMTT(60) DEF DkgInv, DkgTypes
    <2>2. \A k \in Nodes : comms[k][n] = 0 /\ n \notin secrets[k]
      BY <1>4 DEF DkgInv, CommitsOnce, NotCommitted
    <2>3. CommitsOnce'
      BY <1>1, <1>4, <2>1, <2>2, SMTT(60) DEF DkgInv, DkgTypes, CommitsOnce
    <2>4. CountIsRight'
      BY <1>1, <1>2 DEF DkgInv, CountIsRight
    <2>5. Barrier'
      BY <1>1, <1>2, RootIsNode DEF DkgInv, Barrier, DkgTypes
    <2> QED
      BY <1>1, <1>2, <2>1, <2>3, <2>4, <2>5 DEF DkgInv, DkgTypes
  <1> QED
    BY <1>3, <1>4 DEF allResponse

LEMMA CommitStep ==
    ASSUME DkgInv, NEW n \in Nodes, NEW m \in Nodes, allSecretCommit(n, m)
    PROVE  DkgInv'
  <1>1. /\ pc[n] = "commits" /\ comms[n][m] > 0
        /\ comms' = [comms EXCEPT ![n][m] = @ - 1]
        /\ secrets' = [secrets EXCEPT ![n] = @ \cup {m}]
        /\ ncomms' = [ncomms EXCEPT ![n] = @ + 1]
        /\ pc' = [pc EXCEPT ![n] = AfterCommits(n)]
        /\ UNCHANGED <<commit, waitReplies>>
    BY DEF allSecretCommit
  <1>2. DkgTypes
    BY DEF DkgInv
  <1>3. m \in commit /\ m \notin secrets[n] /\ comms[n][m] = 1
    <2>1. /\ m \notin commit => comms[n][m] = 0
          /\ comms[n][m] <= (IF m \in secrets[n] THEN 0 ELSE 1)
      BY DEF DkgInv, CommitsOnce
    <2>2. comms[n][m] \in Nat
      BY <1>2 DEF DkgTypes
    <2> QED
      BY <1>1, <2>1, <2>2, SMTT(60)
  <1>4. setup' \subseteq Others
    BY <1>2 DEF allSecretCommit, DkgTypes
  <1>5. AfterCommits(n) \in {"commits", "wait", "finished"}
    BY DEF AfterCommits
  <1>6. DkgTypes'
    BY <1>1, <1>2, <1>3, <1>4, <1>5, SMTT(60) DEF DkgTypes, Places
  <1>7. CommitsOnce'
    <2> SUFFICES ASSUME NEW k \in Nodes, NEW l \in Nodes
                 PROVE  /\ l \notin commit => comms'[k][l] = 0 /\ l \notin secrets'[k]
                        /\ comms'[k][l] <= IF l \in secrets'[k] THEN 0 ELSE 1
      BY <1>1 DEF CommitsOnce
    <2>1. CASE k = n /\ l = m
      BY <1>1, <1>2, <1>3, <2>1, SMTT(60) DEF DkgTypes
    <2>2. CASE ~(k = n /\ l = m)
      <3>1. comms'[k][l] = comms[k][l] /\ (l \in secrets'[k] <=> l \in secrets[k])
        BY <1>1, <1>2, <2>2 DEF DkgTypes
      <3> QED
        BY <3>1 DEF DkgInv, CommitsOnce
    <2> QED
      BY <2>1, <2>2
  <1>8. CountIsRight'
    <2>1. ASSUME NEW k \in Nodes \ {n}
          PROVE  ncomms'[k] = ncomms[k] /\ secrets'[k] = secrets[k] /\ pc'[k] = pc[k]
      BY <1>1, <1>2 DEF DkgTypes
    <2>2. ncomms'[n] = ncomms[n] + 1 /\ secrets'[n] = secrets[n] \cup {m} /\ pc'[n] = AfterCommits(n)
      BY <1>1, <1>2 DEF DkgTypes
    <2>3. IsFiniteSet(secrets[n])
      BY <1>2, NodesAreFinite, FS_Subset DEF DkgTypes
    <2>4. Cardinality(secrets[n] \cup {m}) = Cardinality(secrets[n]) + 1
      BY <1>3, <2>3, FS_AddElement
    <2>5. AfterCommits(n) \in {"wait", "finished"} => ncomms[n] + 1 >= Size
      BY <1>2, DkgAssumption, SMTT(60) DEF AfterCommits, DkgTypes
    <2> QED
      BY <2>1, <2>2, <2>4, <2>5 DEF DkgInv, CountIsRight
  <1>9. Barrier'
    <2>1. \A k \in waitReplies : pc'[k] = "finished"
      BY <1>1, <1>2, RootIsNode DEF DkgInv, Barrier, DkgTypes
    <2>2. ASSUME Wait, pc'[DkgRoot] = "finished" PROVE waitReplies = Others
      <3>1. AfterCommits(n) # "finished"
        BY <2>2 DEF AfterCommits
      <3>2. pc[DkgRoot] = "finished"
        BY <1>1, <1>2, <2>2, <3>1, RootIsNode DEF DkgTypes
      <3> QED
        BY <2>2, <3>2 DEF DkgInv, Barrier
    <2> QED
      BY <1>1, <2>1, <2>2 DEF Barrier
  <1> QED
    BY <1>6, <1>7, <1>8, <1>9 DEF DkgInv

LEMMA WaitStep ==
    ASSUME DkgInv, RootWaits \/ \E n \in Nodes : ChildWaits(n)
    PROVE  DkgInv'
  <1>1. DkgTypes
    BY DEF DkgInv
  <1>2. CASE RootWaits
    <2>1. /\ pc' = [pc EXCEPT ![DkgRoot] = "finished"] /\ pc[DkgRoot] = "wait"
          /\ waitReplies = Others
          /\ UNCHANGED <<comms, commit, secrets, ncomms, setup, waitReplies>>
      BY <1>2 DEF RootWaits
    <2>2. DkgTypes'
      BY <1>1, <2>1 DEF DkgTypes, Places
    <2>3. CommitsOnce'
      BY <2>1 DEF DkgInv, CommitsOnce
    <2>4. CountIsRight'
      BY <1>1, <2>1 DEF DkgInv, CountIsRight, DkgTypes
    <2>5. Barrier'
      BY <1>1, <2>1, SMTT(60) DEF DkgInv, Barrier, DkgTypes
    <2> QED
      BY <2>2, <2>3, <2>4, <2>5 DEF DkgInv
  <1>3. ASSUME NEW n \in Nodes, ChildWaits(n) PROVE DkgInv'
    <2>1. /\ pc[n] = "wait" /\ pc' = [pc EXCEPT ![n] = "finished"]
          /\ n \in setup /\ waitReplies' = waitReplies \cup {n}
          /\ UNCHANGED <<comms, commit, secrets, ncomms, setup>>
      BY <1>1, <1>3 DEF ChildWaits, AtEnd, DkgTypes
    <2>2. n \in Others
      BY <1>1, <2>1 DEF DkgTypes
    <2>3. DkgTypes'
      BY <1>1, <2>1, <2>2 DEF DkgTypes, Places
    <2>4. CommitsOnce'
      BY <2>1 DEF DkgInv, CommitsOnce
    <2>5. CountIsRight'
      BY <1>1, <2>1 DEF DkgInv, CountIsRight, DkgTypes
    <2>6. Barrier'
      BY <1>1, <2>1, <2>2, RootIsNode DEF DkgInv, Barrier, DkgTypes
    <2> QED
      BY <2>3, <2>4, <2>5, <2>6 DEF DkgInv
  <1> QED
    BY <1>2, <1>3

LEMMA DkgInvStep ==
    ASSUME DkgInv, [OcsNext]_ocs_vars
    PROVE  DkgInv'
  <1>1. ASSUME UNCHANGED <<pc, comms, commit, secrets, ncomms, setup, waitReplies>>
        PROVE  DkgInv'
    BY <1>1 DEF DkgInv, DkgTypes, CommitsOnce, CountIsRight, Barrier
  <1>2. ASSUME NEW n \in Nodes, DkgStep(n) PROVE DkgInv'
    <2>1. CASE childInit(n) \/ StartDKG \/ rootStartDeal
      BY <1>1, <2>1 DEF childInit, StartDKG, rootStartDeal
    <2>2. CASE allStartDeal(n)
      BY <2>2, EarlyStep DEF allStartDeal, DkgInv, DkgTypes, Places
    <2>3. ASSUME NEW m \in Nodes, allDeal(n, m) PROVE DkgInv'
      <3>1. pc' \in [Nodes -> Places]
        BY <2>3 DEF allDeal, DkgInv, DkgTypes, Places
      <3>2. \A k \in Nodes : pc'[k] # pc[k] => pc[k] = "deals" /\ pc'[k] = "responses"
        BY <2>3 DEF allDeal, DkgInv, DkgTypes
      <3> QED
        BY <2>3, <3>1, <3>2, EarlyStep DEF allDeal
    <2> QED
      BY <1>2, <2>1, <2>2, <2>3, ResponseStep, CommitStep, WaitStep DEF DkgStep
  <1>3. ASSUME NEW n \in Nodes, StopNode(n) PROVE DkgInv'
    BY <1>1, <1>3 DEF StopNode
  <1>4. ASSUME NEW n \in Nodes, OcsStep(n) \/ StartOCS(n) PROVE DkgInv'
    BY <1>1, <1>4 DEF OcsStep, StoreSharedSecret, reencrypt, reencryptReply, StartOCS, dkgVars
  <1>5. CASE UNCHANGED ocs_vars
    BY <1>1, <1>5 DEF ocs_vars, dkgVars
  <1> QED
    BY <1>2, <1>3, <1>4, <1>5 DEF OcsNext

LEMMA EndHasAll ==
    ASSUME DkgInv, NEW n \in Nodes, pc[n] \in {"wait", "finished"}
    PROVE  Finished(n)
  <1>1. secrets[n] \in SUBSET Nodes /\ Cardinality(secrets[n]) >= Size
    BY DEF DkgInv, DkgTypes, CountIsRight
  <1>2. Cardinality(secrets[n]) <= Size /\ (Size = Cardinality(secrets[n]) => Nodes = secrets[n])
    BY <1>1, NodesAreFinite, FS_Subset
  <1>3. Cardinality(secrets[n]) \in Nat
    BY <1>1, NodesAreFinite, FS_Subset, FS_CardinalityType
  <1> QED
    BY <1>1, <1>2, <1>3, DkgAssumption, SMTT(60) DEF Finished

\* A node counts the commits it gets: for every roster and threshold it has those of
\* all nodes when the count is reached, however deals, responses and commits overtake
\* each other and whoever stops.
THEOREM DkgIsFinished == OcsSpec => []EndIsFinished
  <1>1. DkgInv => EndIsFinished
    BY EndHasAll DEF EndIsFinished
  <1> QED
    BY <1>1, DkgInvInit, DkgInvStep, PTL DEF OcsSpec

\* SetupDKG with Wait: when the root ends, every node holds its part of the key.
THEOREM WaitHoldsAll == OcsSpec => []WaitIsBarrier
  <1>1. DkgInv => WaitIsBarrier
    <2> SUFFICES ASSUME DkgInv, Wait, pc[DkgRoot] = "finished", NEW n \in Nodes
                 PROVE  Finished(n)
      BY DEF WaitIsBarrier
    <2>1. pc[n] = "finished"
      BY DEF DkgInv, Barrier, Others
    <2> QED
      BY <2>1, EndHasAll
  <1> QED
    BY <1>1, DkgInvInit, DkgInvStep, PTL DEF OcsSpec

-----------------------------------------------------------------------------
(* The slots of a re-encryption.                                           *)

UiReplyInv ==
    /\ asked \subseteq Nodes /\ answers \subseteq Nodes
    /\ ocsRoot \in Nodes \cup {0}
    /\ UisRecover

LEMMA RepliesAreKept ==
    ASSUME UiReplyInv, ocsRoot # 0, AllReplies,
           Uis' = [i \in Nodes |-> IF i \in answers THEN i ELSE IF i = 1 THEN ocsRoot ELSE NoUi]
    PROVE  UisRecover'
  <1> DEFINE found == {Uis'[i] : i \in Nodes} \ {NoUi}
  <1>1. \A i \in answers : Uis'[i] = i /\ i # NoUi
    BY SMTT(60) DEF UiReplyInv, Nodes, NoUi
  <1>2. answers \subseteq found
    BY <1>1 DEF UiReplyInv
  <1>3. found \subseteq Nodes
    BY DEF UiReplyInv
  <1>4. IsFiniteSet(found)
    BY <1>3, NodesAreFinite, FS_Subset
  <1>5. Cardinality(answers) <= Cardinality(found)
    BY <1>2, <1>4, FS_Subset
  <1>6. Cardinality(found) >= Size - 1
    BY <1>4, <1>5, FS_CardinalityType, DkgAssumption DEF AllReplies
  <1> QED
    BY <1>6 DEF UisRecover

LEMMA ReplyStep ==
    ASSUME UiReplyInv, [OcsNext]_ocs_vars
    PROVE  UiReplyInv'
  <1>1. CASE UNCHANGED ocsVars
    BY <1>1 DEF UiReplyInv, UisRecover, ocsVars
  <1>2. ASSUME NEW n \in Nodes, StartOCS(n) PROVE UiReplyInv'
    <2>1. asked' \subseteq Nodes
      BY <1>2 DEF StartOCS, Multicast
    <2> QED
      BY <1>2, <2>1 DEF UiReplyInv, UisRecover, StartOCS
  <1>3. ASSUME NEW n \in Nodes, StoreSharedSecret(n) \/ reencrypt(n) PROVE UiReplyInv'
    BY <1>3 DEF UiReplyInv, UisRecover, StoreSharedSecret, reencrypt
  <1>4. CASE reencryptReply
    BY <1>4, RepliesAreKept DEF UiReplyInv, reencryptReply
  <1>5. CASE UNCHANGED ocs_vars
    BY <1>1, <1>5 DEF ocs_vars
  <1> QED
    BY <1>1, <1>2, <1>3, <1>4, <1>5 DEF OcsNext, OcsStep

\* reencryptReply puts the root's share into the first slot whatever its index, and a
\* reply may overwrite it: for every roster and every root, the shares that are left
\* are as many as RecoverCommit is asked to use.
THEOREM UisAreEnough == OcsSpec => []UisRecover
  <1>1. OcsInit => UiReplyInv
    BY DEF OcsInit, UiReplyInv, UisRecover
  <1>2. UiReplyInv => UisRecover
    BY DEF UiReplyInv
  <1> QED
    BY <1>1, <1>2, ReplyStep, PTL DEF OcsSpec

=============================================================================
