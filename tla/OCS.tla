-------------------------------- MODULE OCS --------------------------------
(***************************************************************************)
(* The OCS protocol: the nodes that hold the key of a SetupDKG round       *)
(* re-encrypt a point for a reader.  Any node can be the root of an OCS    *)
(* round; one round is enough, as rounds share nothing.  The number of a   *)
(* node is the index of its share.                                         *)
(***************************************************************************)
EXTENDS SetupDKG

VARIABLES
    shared,     \* the nodes whose service has stored its SharedSecret
    ocsRoot,    \* the root of the OCS round, or 0
    complete,   \* history: whether all services had their secret when it started
    asked,      \* the nodes a Reencrypt message is under way to
    answers,    \* the nodes that have replied to the root
    Uis         \* the re-encrypted shares by slot, when the round is done

ocsVars == <<shared, ocsRoot, complete, asked, answers, Uis>>
ocs_vars == <<dkgVars, ocsVars>>

NoUi == 0

OcsInit ==
    /\ DkgInit
    /\ shared = {}
    /\ ocsRoot = 0
    /\ complete = FALSE
    /\ asked = {}
    /\ answers = {}
    /\ Uis = <<>>

\* The goroutine of Service.NewProtocol, or CreateSkipchains on the root, waits for
\* the protocol's Done and stores the secret.
StoreSharedSecret(n) ==
    /\ Up(n) /\ pc[n] = "finished" /\ n \notin shared
    /\ shared' = shared \cup {n}
    /\ UNCHANGED <<dkgVars, ocsRoot, complete, asked, answers, Uis>>

\* Start, with the Shared that the service has looked up.
StartOCS(r) ==
    /\ Up(r) /\ ocsRoot = 0 /\ r \in shared
    /\ ocsRoot' = r
    /\ complete' = (shared = Nodes)
    /\ asked' \in {to \ {r} : to \in Multicast}
    /\ UNCHANGED <<dkgVars, shared, answers, Uis>>

\* Service.NewProtocol refuses the instance if there is no secret; the message is lost.
reencrypt(n) ==
    /\ Up(n) /\ n \in asked
    /\ asked' = asked \ {n}
    /\ answers' = IF n \in shared THEN answers \cup {n} ELSE answers
    /\ UNCHANGED <<dkgVars, shared, ocsRoot, complete, Uis>>

\* Mutation: one reply may be missing.
AllButOne == Cardinality(answers) + 1 >= Size - 1

AllReplies == Cardinality(answers) = Size - 1

\* The root puts its own share first, and then each reply at its index.
reencryptReply ==
    /\ ocsRoot # 0 /\ Up(ocsRoot) /\ Uis = <<>>
    /\ AllReplies
    /\ Uis' = [i \in Nodes |->
                 IF i \in answers THEN i ELSE IF i = 1 THEN ocsRoot ELSE NoUi]
    /\ UNCHANGED <<dkgVars, shared, ocsRoot, complete, asked, answers>>

OcsStep(n) ==
    \/ StoreSharedSecret(n)
    \/ reencrypt(n)
    \/ n = ocsRoot /\ reencryptReply

OcsNext ==
    \/ \E n \in Nodes : \/ DkgStep(n) /\ UNCHANGED ocsVars
                        \/ StopNode(n) /\ UNCHANGED ocsVars
                        \/ OcsStep(n)
                        \/ StartOCS(n)

OcsSpec == OcsInit /\ [][OcsNext]_ocs_vars

\* Every node that has not stopped goes on; nobody has to ask for a re-encryption.
OcsFairSpec ==
    /\ OcsSpec
    /\ \A n \in Nodes : WF_ocs_vars(DkgStep(n) /\ UNCHANGED ocsVars) /\ WF_ocs_vars(OcsStep(n))

-----------------------------------------------------------------------------
\* RecoverCommit is called with a threshold of one less than the nodes.  A root whose
\* index is not the first loses its own share to the reply of the first node; the
\* other ones are still enough.
UisRecover == Uis # <<>> => Cardinality({Uis[i] : i \in Nodes} \ {NoUi}) >= Size - 1

\* A re-encryption that starts when every service has its secret ends, if nobody stops.
ReencryptionEnds == []<>(complete => stopped # {} \/ Uis # <<>>)

(* Key generation and re-encryption end with a key and its use, unless somebody stops. *)
KeysAreServed == KeyGenerated /\ ReencryptionEnds

=============================================================================
