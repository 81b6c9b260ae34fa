----------------------------- MODULE MCOverlay -----------------------------
(* Instances of Overlay for TLC. *)
EXTENDS Overlay, TLC

CONSTANTS a, b, c, t1, t2, r1, r2

MCRoot == t1 :> a @@ t2 :> c

MCRosterOf == t1 :> r1 @@ t2 :> r1

\* The protocol on t1 sends two messages down, the other one.
MCSends == <<t1, a, b>> :> 2 @@ <<t2, c, b>> :> 1

\* Two protocols of the same server on trees of different rosters.
MCOneRoot == t1 :> a @@ t2 :> a

MCTwoRosters == t1 :> r1 @@ t2 :> r2

MCOneSend == <<t1, a, b>> :> 1 @@ <<t2, a, b>> :> 1

MCLocal == {<<b, t1>>}

MCFinishing == {<<b, t1>>}

MCRefusing == {<<b, t2>>}

=============================================================================
