----------------------------- MODULE OtsWorkflow -----------------------------
(***************************************************************************)
(* The OTS workflow: a reader's client library (`otsclient`) between the   *)
(* two cothorities.  The access-control cothority is the ledger it is      *)
(* proved to implement (AccLedger); the secret-management cothority is     *)
(* OtsSmc.  Writers and other readers go on appending while the reader     *)
(* asks for the shares of a document.                                      *)
(***************************************************************************)
EXTENDS OtsSmc

CONSTANTS
    Requests, Payloads, First,  \* of AccLedger
    Rosters,                    \* the lists of trustees a reader may ask
    MaxLedger                   \* bound: the length of the ledger

VARIABLES
    ledger, answer,             \* of AccLedger
    client,                     \* the reader's call to GetDecryptedShares
    call,                       \* the write and the read block it is about
    decShares                   \* the shares it holds, by index

Acc == INSTANCE AccLedger

vars == <<smcVars, ledger, answer, client, call, decShares>>

\* otsclient.WriteRequest makes the one reader of the write its ReaderPk.
ASSUME WriteAssumption ==
    \A p \in Payloads : p.kind = "ots" => \E r \in p.readers : p.readers = {r}

ASSUME FirstAssumption == First.kind = "genesis"

ASSUME RosterAssumption ==
    \A r \in Rosters : r \in Seq(Trustees) \ {<<>>} /\ IsInjective(r)

Init ==
    /\ SmcInit
    /\ Acc!Init
    /\ client = "idle"
    /\ call = [write |-> 0, read |-> 0]
    /\ decShares = {}

-----------------------------------------------------------------------------
\* SetupPVSS: how many shares recover the secret.
Threshold == (2 * Len(SC)) \div 3 + 1

ReaderPk(w) == CHOOSE r \in ledger[w].readers : TRUE

\* The forward link number i of block w, as the block it leads to; 0: nil.  The
\* chains have height one, so a block has one link, to the next block.
GetForward(w, i) == IF i = 0 /\ w < Len(ledger) THEN w + 1 ELSE 0

\* Client.OTSDecrypt: the request goes to the first of the roster.
OTSDecrypt(roster, w, r, proof, signer) ==
    DecryptRequest([roster |-> roster, rootIndex |-> 1,
                    data |-> [write |-> [id |-> w, reader |-> ReaderPk(w)],
                              read |-> [id |-> r, doc |-> ledger[r].doc],
                              proof |-> proof, signer |-> signer]])

\* GetDecryptedShares with a write block w that GetUpdatedWriteSB fetched and a
\* read block r: the link that proves the read is looked up by the distance.
GetDecryptedShares(roster, w, r, signer) ==
    /\ client = "idle"
    /\ ledger[w].kind = "ots"
    /\ ledger[r].kind = "read"
    /\ call' = [write |-> w, read |-> r]
    /\ IF r <= w \/ GetForward(w, r - w - 1) = 0
         THEN /\ client' = IF r <= w THEN "failed" ELSE "noLink"
              /\ UNCHANGED smcVars
         ELSE /\ client' = "asked"
              /\ OTSDecrypt(roster, w, r, GetForward(w, r - w - 1), signer)
    /\ UNCHANGED <<ledger, answer, decShares>>

\* The call to the service returns an error.
DecryptFails ==
    /\ client = "asked"
    /\ handler \in {"error", "lost"}
    /\ client' = "failed"
    /\ UNCHANGED <<smcVars, ledger, answer, call, decShares>>

\* Mutation: ElGamalDecrypt leaves the shares without contents out.
SharesWithContents ==
    /\ client = "asked"
    /\ handler = "replied"
    /\ client' = "shares"
    /\ decShares' = Range(result) \ {0}
    /\ UNCHANGED <<smcVars, ledger, answer, call>>

\* ElGamalDecrypt: one share without contents fails them all.  Otherwise each goes
\* to the place of its index.
SharesDecrypted ==
    /\ client = "asked"
    /\ handler = "replied"
    /\ IF 0 \in Range(result)
         THEN client' = "failed" /\ UNCHANGED decShares
         ELSE client' = "shares" /\ decShares' = Range(result)
    /\ UNCHANGED <<smcVars, ledger, answer, call>>

\* pvss.RecoverSecret, and DecryptMessage with the secret.
RecoverSecret ==
    /\ client = "shares"
    /\ client' = IF Cardinality(decShares) >= Threshold THEN "recovered" ELSE "failed"
    /\ UNCHANGED <<smcVars, ledger, answer, call, decShares>>

Client == DecryptFails \/ SharesDecrypted \/ RecoverSecret

Next ==
    \/ /\ Acc!Next
       /\ Len(ledger') <= MaxLedger
       /\ UNCHANGED <<smcVars, client, call, decShares>>
    \/ \E roster \in Rosters, w, r \in 1..Len(ledger),
          signer \in UNION {p.readers : p \in Payloads} :
            GetDecryptedShares(roster, w, r, signer)
    \/ Client
    \/ SmcNext /\ UNCHANGED <<ledger, answer, client, call, decShares>>

Spec == Init /\ [][Next]_vars

\* Fairness: the threads of a trustee that runs, and of the client, go on, and what
\* they sent is handled.
Fairness ==
    /\ WF_vars(Client)
    /\ WF_vars((Start \/ Started \/ Collect \/ Deliver)
                 /\ UNCHANGED <<ledger, answer, client, call, decShares>>)
    /\ \A t \in Trustees :
        WF_vars(Leaf(t) /\ UNCHANGED <<ledger, answer, client, call, decShares>>)

FairSpec == Spec /\ Fairness

-----------------------------------------------------------------------------
(* Properties *)

TypeOK ==
    /\ SmcTypeOK
    /\ client \in {"idle", "asked", "shares", "recovered", "failed", "noLink"}
    /\ call \in [write : Nat, read : Nat]
    /\ decShares \subseteq 1..Len(SC)

\* verifyDecryptionRequest over AccLedger: a trustee has only decrypted a share of a
\* write for the reader the write names, and after a read of that write, signed by
\* that reader, is in the ledger.
DecryptedOnlyAfterRead ==
    replies # <<>> \/ result # <<>> =>
        \E i \in 1..Len(ledger) :
            /\ ledger[i].kind = "read"
            /\ ledger[i].doc = req.data.write.id
            /\ ledger[i].signer = req.data.signer
            /\ ledger[ledger[i].doc].readers = {req.data.signer}

\* GetDecryptedShares puts each share at its index in a slice as long as the list of
\* replies (ots.go:102-105): in whatever order the trustees reply, no index is
\* out of range and no place stays empty.
SharesFillTheSlice ==
    client \in {"shares", "recovered"} => decShares = 1..Len(result)

\* A reader that asks the trustees in the writer's order, at least Threshold of them
\* from the start of the list, for a document it may read, recovers the secret when
\* nobody stops.
PrefixRecovers ==
    /\ client = "asked"
    /\ verifyDecryptionRequest(req.data)
    /\ Len(req.roster) <= Len(SC) /\ req.roster = SubSeq(SC, 1, Len(req.roster))
    /\ Len(req.roster) >= Threshold
    ~> client = "recovered" \/ down # {}

\* DecryptRequest: a request of more than one trustee that the trustees accept is
\* answered, even if shares cannot be decrypted, when nobody stops.
AcceptedIsAnswered ==
    /\ client = "asked"
    /\ verifyDecryptionRequest(req.data)
    /\ Len(req.roster) \in 2..Len(SC)
    ~> client \in {"recovered", "failed"} \/ down # {}

(* A reader who is let in is answered, and gets the secret when the roster starts like *)
(* the list of the writer and is long enough.                                          *)
ReadersAreServed == AcceptedIsAnswered /\ PrefixRecovers

\* README.md:45-47: once enough trustees have decrypted their shares correctly, the
\* reader recovers the secret.
EnoughSharesRecover ==
    Cardinality({i \in Range(replies) : i # 0}) >= Threshold
        ~> client = "recovered"

\* README.md:33-36: a reader whose read of a document is in the ledger can prove it to
\* the secret-management cothority.
ReadCanBeProved ==
    client = "noLink" => ledger[call.read].doc # call.write

=============================================================================
