----------------------------- MODULE KeyRequest -----------------------------
(***************************************************************************)
(* DecryptKeyRequest: a client asks a node to have the key of a document   *)
(* re-encrypted for the signer of a read block, while the service goes on. *)
(* All its checks are made under one lock of saveMutex, which the handler  *)
(* keeps while it waits for the re-encryption protocol.                    *)
(***************************************************************************)
EXTENDS OcsService

VARIABLES
    kpc,        \* "idle", "reencrypt" or "failed"
    kat,        \* the node that was asked
    kread       \* the block that was asked for

keyVars == <<kpc, kat, kread>>

KeyInit ==
    /\ kpc = "idle"
    /\ kat = Leader
    /\ kread = 0

\* What stands between the request and the re-encryption: the node has the read and
\* the document (a block it lacks is dereferenced as nil, and the connection breaks),
\* and the document has a Write field.
Reencryptable(n, b) ==
    /\ b \in stored[n]
    /\ chain[b].kind = "read"
    /\ chain[b].doc \in stored[n]
    /\ chain[chain[b].doc].kind = "lts"

\* Clients name any block of the chain.
DecryptKeyRequest(n, b) ==
    /\ kpc = "idle"
    /\ kat' = n
    /\ kread' = b
    /\ kpc' = IF Reencryptable(n, b) THEN "reencrypt" ELSE "failed"
    /\ UNCHANGED vars

KeyRequests == \E n \in Nodes, b \in Positions : DecryptKeyRequest(n, b)

KeyNext == (Next /\ UNCHANGED keyVars) \/ KeyRequests

KeySpec == Init /\ KeyInit /\ [][KeyNext]_<<vars, keyVars>>

-----------------------------------------------------------------------------
\* DecryptKeyRequest never waits for other nodes while it holds saveMutex
\* (service.go:336-367), so that two nodes serving one each cannot wait for each
\* other: no read in the chain is of a document with a Write field, as verifyOCS
\* lets in neither such a document nor a read of one.
NeverWaitsLocked == kpc # "reencrypt"

=============================================================================
