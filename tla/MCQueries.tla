------------------------------ MODULE MCQueries ------------------------------
(* Instances of ReadListing and KeyRequest for TLC, on one service. *)
EXTENDS ReadListing, KeyRequest, MCOcsService

\* Two writes are in the chain and on all nodes; reads of both may follow, or an LTS
\* write and a read of it.
WrittenInit ==
    /\ QuietInit(<<GenesisBlock, Write(TRUE, {alice}), Write(TRUE, {alice})>>)
    /\ ListInit
    /\ KeyInit

MCReads == {Read(alice, 2), Read(alice, 3), LtsWrite, Read(alice, 4)}

\* Bound: a client makes one query, of either kind.
QueryNext ==
    \/ ListNext /\ (lpc' = "idle" \/ kpc = "idle") /\ UNCHANGED keyVars
    \/ KeyRequests /\ lpc = "idle" /\ UNCHANGED listVars

WrittenSpec == WrittenInit /\ [][QueryNext]_<<allVars, keyVars>>

WrittenFairSpec == WrittenSpec /\ WF_<<allVars, keyVars>>(List /\ UNCHANGED keyVars)

=============================================================================
