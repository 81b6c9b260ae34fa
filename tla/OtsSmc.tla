------------------------------- MODULE OtsSmc -------------------------------
(***************************************************************************)
(* The secret-management cothority: one decryption request, from the       *)
(* `otssmc` service of the trustee that receives it through the OTSDecrypt *)
(* protocol on all the trustees of the request's roster.                   *)
(*                                                                         *)
(* Requests share nothing, so one is enough.  A trustee is known by its    *)
(* public key; a decrypted share by its index in the write's EncShares     *)
(* (from 1 here), or 0 for the share without contents that a trustee sends *)
(* when it could not decrypt.                                              *)
(***************************************************************************)
EXTENDS Naturals, Sequences, FiniteSets, Functions

CONSTANTS
    Trustees,   \* the servers that run the service
    SC,         \* SCPublicKeys: those the writer made shares for, in order
    Faulty,     \* the trustees that may stop
    NoRequest   \* nothing asked yet

ASSUME TrusteesAssumption ==
    /\ SC \in Seq(Trustees) \ {<<>>}
    /\ IsInjective(SC)
    /\ Faulty \subseteq Trustees

VARIABLES
    req,        \* the DecryptRequest, or NoRequest
    tree,       \* the roster of the protocol's tree, its root first
    handler,    \* the DecryptRequest handler on the root
    dispatch,   \* OTSDecrypt.Dispatch on the root
    idx,        \* the index of its own share that the root works with
    sent,       \* how many children Start has announced the request to
    announced,  \* the children with an announcement they have not handled
    replies,    \* the shares the children replied, in the order of arrival
    result,     \* DecShares: what the root's Dispatch hands over
    down        \* the trustees that have stopped

smcVars == <<req, tree, handler, dispatch, idx, sent, announced, replies, result, down>>

SmcInit ==
    /\ req = NoRequest
    /\ tree = <<>>
    /\ handler = "idle"
    /\ dispatch = "none"
    /\ idx = 0
    /\ sent = 0
    /\ announced = {}
    /\ replies = <<>>
    /\ result = <<>>
    /\ down = {}

-----------------------------------------------------------------------------
\* Roster.GenerateNaryTreeWithRoot with one child for each of the others: the tree
\* has depth one, and its nodes are numbered by a roster that starts with the root.
GenerateNaryTreeWithRoot(r, k) ==
    <<r[k]>> \o SubSeq(r, 1, k - 1) \o SubSeq(r, k + 1, Len(r))

\* Mutation: the read block is not checked to be a read of this write.
AnyDocument(d) ==
    /\ d.signer = d.write.reader
    /\ d.proof = d.read.id

\* The request is signed by the reader of the write, the forward link leads to the
\* read block, and the read is one of this write.
verifyDecryptionRequest(d) ==
    /\ d.signer = d.write.reader
    /\ d.proof = d.read.id
    /\ d.read.doc = d.write.id

\* pvss.DecShare with the key of trustee t: the proof of share i only verifies for
\* the trustee the share was made for.
DecShare(t, i) == IF SC[i] = t THEN i ELSE 0

\* CreateProtocol starts Dispatch before the handler has set RootIndex, which
\* Dispatch reads at once.  A root without children takes itself for a leaf.
DecryptRequest(q) ==
    /\ handler = "idle"
    /\ req' = q
    /\ tree' = GenerateNaryTreeWithRoot(q.roster, q.rootIndex)
    /\ handler' = "start"
    /\ dispatch' = IF Len(q.roster) = 1 THEN "announce" ELSE "collect"
    /\ idx' \in {1, q.rootIndex}
    /\ UNCHANGED <<sent, announced, replies, result, down>>

Root == tree[1]

\* Start: the children get the announcement one after the other; the first one that
\* cannot be reached ends the request with an error.
Start ==
    /\ handler = "start"
    /\ sent + 1 < Len(tree)
    /\ LET child == tree[sent + 2] IN
        IF child \in down
          THEN /\ handler' = "error"
               /\ UNCHANGED <<sent, announced>>
          ELSE /\ sent' = sent + 1
               /\ announced' = announced \cup {child}
               /\ UNCHANGED handler
    /\ UNCHANGED <<req, tree, dispatch, idx, replies, result, down>>

Started ==
    /\ handler = "start"
    /\ sent + 1 = Len(tree)
    /\ handler' = "wait"
    /\ UNCHANGED <<req, tree, dispatch, idx, sent, announced, replies, result, down>>

\* TreeNodeInstance.Index of trustee t.
Index(t) == CHOOSE i \in DOMAIN tree : tree[i] = t

\* Mutation: a share that cannot be decrypted is not replied.
LeafRepliesShares(t) ==
    /\ t \in announced
    /\ announced' = announced \ {t}
    /\ verifyDecryptionRequest(req.data)
    /\ Index(t) <= Len(SC)
    /\ replies' = IF Root \in down \/ DecShare(t, Index(t)) = 0 THEN replies
                  ELSE Append(replies, DecShare(t, Index(t)))
    /\ UNCHANGED <<req, tree, handler, dispatch, idx, sent, result, down>>

\* Dispatch on a leaf that accepts the request: its share goes to the root, without
\* contents if it could not be decrypted.
LeafReplies(t) ==
    /\ t \in announced
    /\ announced' = announced \ {t}
    /\ verifyDecryptionRequest(req.data)
    /\ Index(t) <= Len(SC)
    /\ replies' = IF Root \in down THEN replies ELSE Append(replies, DecShare(t, Index(t)))
    /\ UNCHANGED <<req, tree, handler, dispatch, idx, sent, result, down>>

\* A leaf that refuses the request ends without a reply.
LeafRefuses(t) ==
    /\ t \in announced
    /\ announced' = announced \ {t}
    /\ ~verifyDecryptionRequest(req.data)
    /\ UNCHANGED <<req, tree, handler, dispatch, idx, sent, replies, result, down>>

\* There is no share for a leaf beyond the end of the writer's list: indexing
\* EncProofs panics, and the trustee is gone.
LeafPanics(t) ==
    /\ t \in announced
    /\ announced' = announced \ {t}
    /\ verifyDecryptionRequest(req.data)
    /\ Index(t) > Len(SC)
    /\ down' = down \cup {t}
    /\ UNCHANGED <<req, tree, handler, dispatch, idx, sent, replies, result>>

Leaf(t) == LeafReplies(t) \/ LeafRefuses(t) \/ LeafPanics(t)

\* Dispatch on the root: aggregate hands over the replies once there are as many as
\* children; then the root verifies the request itself and adds its own share.
Collect ==
    /\ dispatch = "collect"
    /\ Len(replies) = Len(tree) - 1
    /\ IF verifyDecryptionRequest(req.data)
         THEN /\ dispatch' = "deliver"
              /\ result' = Append(replies, DecShare(Root, idx))
         ELSE /\ dispatch' = "refused"
              /\ UNCHANGED result
    /\ UNCHANGED <<req, tree, handler, idx, sent, announced, replies, down>>

\* The unbuffered channel DecShares: Dispatch sends when the handler receives.
Deliver ==
    /\ handler = "wait"
    /\ dispatch = "deliver"
    /\ handler' = "replied"
    /\ dispatch' = "done"
    /\ UNCHANGED <<req, tree, idx, sent, announced, replies, result, down>>

\* A trustee stops, with its instance of the protocol.  The client of a root that
\* stops loses its connection.
Stop(t) ==
    /\ t \notin down
    /\ down' = down \cup {t}
    /\ announced' = announced \ {t}
    /\ IF req # NoRequest /\ t = Root
         THEN /\ dispatch' = "none"
              /\ handler' = IF handler \in {"start", "wait"} THEN "lost" ELSE handler
         ELSE UNCHANGED <<dispatch, handler>>
    /\ UNCHANGED <<req, tree, idx, sent, replies, result>>

SmcStep ==
    \/ Start
    \/ Started
    \/ \E t \in Trustees : Leaf(t)
    \/ Collect
    \/ Deliver

SmcNext == SmcStep \/ \E t \in Faulty : Stop(t)

-----------------------------------------------------------------------------
(* Properties *)

SmcTypeOK ==
    /\ handler \in {"idle", "start", "wait", "replied", "error", "lost"}
    /\ dispatch \in {"none", "announce", "collect", "deliver", "refused", "done"}
    /\ idx \in Nat
    /\ sent \in Nat
    /\ announced \subseteq Range(tree)
    /\ replies \in Seq(0..Len(SC))
    /\ result \in Seq(0..Len(SC))

=============================================================================
