------------------------------ MODULE Bunches ------------------------------
(***************************************************************************)
(* The store of skipblocks that applications keep: SBBStorage, with one    *)
(* SkipBlockBunch for each skipchain.  Copies of a block reach it in any   *)
(* order, with more or fewer of its forward links and child links, and     *)
(* some links carry a signature that does not verify.                      *)
(*                                                                         *)
(* Store, AddBunch and the bunch's own Store run under a lock, so each is  *)
(* one step.  The n-th forward link of a block leads to the n-th block     *)
(* after it.                                                               *)
(***************************************************************************)
EXTENDS Naturals, Sequences, FiniteSets, SequencesExt

CONSTANTS
    Skipchains,   \* each a sequence of hashes; a hash is a sequence of hex digits
    ParentOf,     \* the parent block of the genesis blocks that have one
    Backless      \* the blocks without back links

VARIABLE bunches  \* Bunches: by the hash of the genesis block

NoHash == <<>>

ChainOf(h) == CHOOSE c \in Skipchains : h \in ToSet(c)
IndexOf(h) == CHOOSE i \in DOMAIN ChainOf(h) : ChainOf(h)[i] = h
AllHashes == UNION {ToSet(c) : c \in Skipchains}
Later(h) == SubSeq(ChainOf(h), IndexOf(h) + 1, Len(ChainOf(h)))
ChildrenOf(h) == SetToSeq({g \in DOMAIN ParentOf : ParentOf[g] = h})

SkipChainID(h) == ChainOf(h)[1]
ParentBlockID(h) == IF h \in DOMAIN ParentOf THEN ParentOf[h] ELSE NoHash
BackLink(h) == ChainOf(h)[IndexOf(h) - 1]

\* The copies of block h that may be met: at most one bad signature in each.
Copies(h) ==
    {[hash |-> h,
      links |-> [i \in 1..n |-> [to |-> Later(h)[i], ok |-> i # bad]],
      children |-> SubSeq(ChildrenOf(h), 1, k)] :
        n \in 0..Len(Later(h)), bad \in 0..Len(Later(h)), k \in 0..Len(ChildrenOf(h))}

Good(links) == \A i \in DOMAIN links : links[i].ok

\* VerifySignature of one link after the other, up to the first one that fails.
Verified(links) ==
    SubSeq(links, 1, CHOOSE n \in 0..Len(links) :
        /\ Good(SubSeq(links, 1, n))
        /\ n < Len(links) => ~links[n + 1].ok)

-----------------------------------------------------------------------------
(* SkipBlockBunch *)

\* history: the most links with good signatures that a copy has shown.
Stored(sb) ==
    [links |-> sb.links, children |-> sb.children, best |-> Len(Verified(sb.links))]

NewSkipBlockBunch(sb) ==
    [Latest |-> sb.hash, SkipBlocks |-> [h \in {sb.hash} |-> Stored(sb)]]

NewLinks(old, sb) == SubSeq(sb.links, Len(old.links) + 1, Len(sb.links))

\* Mutation: the signatures are not verified.
Unverified(links) == links

Accepted(links) == Verified(links)

\* A known block: the new forward links up to the first bad signature, and, without
\* one, the new children.
Merged(old, sb) ==
    LET new == NewLinks(old, sb)
    IN [links |-> old.links \o Accepted(new),
        children |->
          IF Len(Accepted(new)) = Len(new)
            THEN old.children \o SubSeq(sb.children, Len(old.children) + 1, Len(sb.children))
            ELSE old.children,
        best |-> IF Len(Verified(sb.links)) > old.best THEN Len(Verified(sb.links)) ELSE old.best]

IsLatest(bunch, sb) == IndexOf(sb.hash) > IndexOf(bunch.Latest)

StoreIn(bunch, sb) ==
    IF sb.hash \in DOMAIN bunch.SkipBlocks
      THEN [bunch EXCEPT !.SkipBlocks[sb.hash] = Merged(@, sb)]
      ELSE [Latest |-> IF IsLatest(bunch, sb) THEN sb.hash ELSE bunch.Latest,
            SkipBlocks |-> [h \in DOMAIN bunch.SkipBlocks \cup {sb.hash} |->
                              IF h = sb.hash THEN Stored(sb) ELSE bunch.SkipBlocks[h]]]

Has(bunch, h) == h \in DOMAIN bunch.SkipBlocks

\* The hash of the block responsible for h, or NoHash for an error.
GetResponsible(bunch, h) ==
    LET id == IF IndexOf(h) > 1 THEN IF h \in Backless THEN NoHash ELSE BackLink(h)
              ELSE IF ParentBlockID(h) = NoHash THEN h ELSE ParentBlockID(h)
    IN IF id = h \/ Has(bunch, id) THEN id ELSE NoHash

VerifyForwardSignatures(bunch, h) == Good(bunch.SkipBlocks[h].links)

ParentKnowsUs(bunch, h) ==
    LET parent == ParentBlockID(h)
    IN /\ Has(bunch, parent)
       /\ VerifyForwardSignatures(bunch, parent)
       /\ h \in ToSet(bunch.SkipBlocks[parent].children)

\* The previous block has to refer to this one.  GetForward(0) is nil for a previous
\* block without forward links, and taking its Hash panics.
BackRefersToUs(bunch, h) ==
    LET back == BackLink(h)
    IN CASE ~Has(bunch, back) ->
              IF bunch.SkipBlocks[h].links # <<>> THEN "ok" ELSE "error"
         [] Has(bunch, back) /\ ~VerifyForwardSignatures(bunch, back) -> "error"
         [] OTHER ->
              IF bunch.SkipBlocks[back].links = <<>> THEN "panic"
              ELSE IF bunch.SkipBlocks[back].links[1].to = h THEN "ok" ELSE "error"

\* A stored block h: "ok", "error" or "panic".
VerifyLinks(bunch, h) ==
    CASE h \in Backless -> "error"
      [] ~VerifyForwardSignatures(bunch, h) -> "error"
      [] ParentBlockID(h) # NoHash /\ ~ParentKnowsUs(bunch, h) -> "error"
      [] OTHER -> IF IndexOf(h) = 1 THEN "ok" ELSE BackRefersToUs(bunch, h)

-----------------------------------------------------------------------------
(* SBBStorage *)

BunchInit == bunches = <<>>

With(g, bunch) ==
    bunches' = [x \in DOMAIN bunches \cup {g} |-> IF x = g THEN bunch ELSE bunches[x]]

\* AddBunch does nothing for a chain it knows.
AddBunch(sb) ==
    /\ SkipChainID(sb.hash) \notin DOMAIN bunches
    /\ With(SkipChainID(sb.hash), NewSkipBlockBunch(sb))

\* SBBStorage.Store stores the block of a new bunch a second time.
Store(sb) ==
    LET g == SkipChainID(sb.hash)
        bunch == IF g \in DOMAIN bunches THEN bunches[g] ELSE NewSkipBlockBunch(sb)
    IN With(g, StoreIn(bunch, sb))

\* Storing in the bunch that GetBunch returned: blocks of the chain, and the genesis
\* blocks of chains that have their parent in it.
BunchStore(g, sb) ==
    /\ g \in DOMAIN bunches
    /\ SkipChainID(ParentBlockID(sb.hash)) = g
    /\ With(g, StoreIn(bunches[g], sb))

BunchNext ==
    \E h \in AllHashes : \E sb \in Copies(h) :
        \/ AddBunch(sb)
        \/ Store(sb)
        \/ h \in DOMAIN ParentOf /\ BunchStore(SkipChainID(ParentOf[h]), sb)

\* The blocks of all bunches.
Everywhere == UNION {DOMAIN bunches[g].SkipBlocks : g \in DOMAIN bunches}

Within(h, id) == id = <<>> \/ \E i, j \in DOMAIN h : SubSeq(h, i, j) = id

\* GetFuzzy: the pattern is looked for as a beginning, then as an end, then anywhere.
\* The order of a map is not defined, so any of the blocks found may be returned.
FuzzyIn(hashes, id) ==
    LET prefix == {h \in hashes : IsPrefix(id, h)}
        suffix == {h \in hashes : IsSuffix(id, h)}
    IN IF prefix # {} THEN prefix
       ELSE IF suffix # {} THEN suffix
       ELSE {h \in hashes : Within(h, id)}

\* SBBStorage.GetFuzzy does the same with regular expressions over all the bunches.
GetFuzzy(id) == FuzzyIn(Everywhere, id)

GetLatest(g) == bunches[g].Latest

-----------------------------------------------------------------------------
(* Properties *)

\* In whatever order the copies come, the forward links of a stored block are the next
\* blocks of its chain, without a gap or a repetition, and as many as any copy has
\* shown with good signatures.
LinksAreTrue ==
    \A g \in DOMAIN bunches : \A h \in DOMAIN bunches[g].SkipBlocks :
        LET sb == bunches[g].SkipBlocks[h]
        IN /\ IsPrefix([i \in DOMAIN sb.links |-> sb.links[i].to], Later(h))
           /\ IsPrefix(sb.children, ChildrenOf(h))
           /\ Len(sb.links) >= sb.best

\* GetLatest is the newest of the blocks of the chain, though they are stored in any
\* order and a bunch may hold genesis blocks of other chains.
GetLatestIsHighest ==
    \A g \in DOMAIN bunches :
        /\ SkipChainID(GetLatest(g)) = g
        /\ \A h \in DOMAIN bunches[g].SkipBlocks : IndexOf(h) <= IndexOf(GetLatest(g))

\* A block that VerifyLinks accepts, and whose responsible block is stored, is accepted
\* for ever: no copy that Store merges later can spoil it.
VerifiedStays ==
    [][\A g \in DOMAIN bunches : \A h \in DOMAIN bunches[g].SkipBlocks :
        VerifyLinks(bunches[g], h) = "ok" /\ GetResponsible(bunches[g], h) # NoHash
            => VerifyLinks(bunches'[g], h) = "ok"]_bunches

\* GetFuzzy finds a block whenever some stored hash contains the pattern, and never
\* one that only contains it where another one begins or ends with it.
Rank(h, id) ==
    IF IsPrefix(id, h) THEN 1 ELSE IF IsSuffix(id, h) THEN 2 ELSE IF Within(h, id) THEN 3 ELSE 4

FuzzyIsBest ==
    \A id \in UNION {{SubSeq(x, 1, n) : n \in 1..2} \cup {SubSeq(x, n, n + 1) : n \in 1..Len(x) - 1} : x \in AllHashes} :
        LET best == {h \in Everywhere : \A x \in Everywhere : Rank(h, id) <= Rank(x, id)}
        IN GetFuzzy(id) = {h \in best : Rank(h, id) < 4}

(* What a bunch answers about its chain is true and stays true, in whatever order the  *)
(* copies of its blocks came.                                                          *)
BunchIsTrue == []LinksAreTrue /\ []GetLatestIsHighest /\ []FuzzyIsBest /\ VerifiedStays

=============================================================================
