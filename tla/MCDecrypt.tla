----------------------------- MODULE MCDecrypt -----------------------------
(***************************************************************************)
(* The decryption of a document, the protocols of the shared key (SetupDKG *)
(* and OCS), the encoding of keys and secrets and the bunches of           *)
(* skipblocks, for TLC.  They share no state: in each behaviour one of     *)
(* them runs and the others stay as they are at first.                     *)
(***************************************************************************)
EXTENDS MCOtsWorkflow, OCS, KeyEncoding, Bunches

\* Two skipchains, the genesis block of the second below a block of the first, and a
\* block without its links back.
MCChains == {<<<<1, 2, 3>>, <<2, 3, 1>>, <<3, 1, 1>>>>, <<<<3, 1, 2>>>>}
MCParent == [g \in {<<3, 1, 2>>} |-> <<2, 3, 1>>]
MCBackless == {<<3, 1, 1>>}

\* Keys of every length up to five for re-encryption, and polynomials with zero and
\* extreme coefficients for both.
MCSecrets ==
    [kind : {"lts"}, poly : {<<3, 4>>, <<10, 0>>, <<0, 7>>}, reader : {1, 8}, r : {2, 9},
     data : UNION {[1..n -> Bytes] : n \in 0..5}]
    \cup
    [kind : {"ots"}, poly : {<<x, y, z>> : x \in {0, 5, 10}, y \in {1, 6}, z \in {0, 4}},
     reader : {1, 3, 8}, r : {2, 9}, data : {<<1, 0>>}]

VARIABLE active   \* the module that runs

MCInit ==
    /\ Init /\ OcsInit /\ KeyCaseInit /\ BunchInit
    /\ active \in {"decrypt", "keys", "encoding", "bunches"}

MCNext ==
    \/ active = "decrypt" /\ Next /\ UNCHANGED <<ocs_vars, key_vars, bunches, active>>
    \/ active = "keys" /\ OcsNext /\ UNCHANGED <<vars, key_vars, bunches, active>>
    \/ active = "encoding" /\ KeyCaseNext /\ UNCHANGED <<vars, ocs_vars, bunches, active>>
    \/ active = "bunches" /\ BunchNext /\ UNCHANGED <<vars, ocs_vars, key_vars, active>>

\* The fairness of FairSpec and OcsFairSpec, for the module that runs.
MCSpec ==
    /\ MCInit /\ [][MCNext]_<<vars, ocs_vars, key_vars, bunches, active>>
    /\ WF_vars(active = "decrypt" /\ Client)
    /\ WF_vars(active = "decrypt" /\ (Start \/ Started \/ Collect \/ Deliver)
                 /\ UNCHANGED <<ledger, answer, client, call, decShares>>)
    /\ \A t \in Trustees :
        WF_vars(active = "decrypt" /\ Leaf(t)
                 /\ UNCHANGED <<ledger, answer, client, call, decShares>>)
    /\ \A n \in Nodes : WF_ocs_vars(active = "keys" /\ DkgStep(n) /\ UNCHANGED ocsVars)
    /\ \A n \in Nodes : WF_ocs_vars(active = "keys" /\ OcsStep(n))

=============================================================================
