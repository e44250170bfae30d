----------------------- MODULE MCRepositoryPopulation -----------------------
(* An upstream revision, one derived from it with two patches and one        *)
(* derived from that with another patch; worktrees of the first two.  The    *)
(* second manifest pins a later upstream commit.                             *)
EXTENDS RepositoryPopulation, TLC

CONSTANTS base, derived, further, x1, x2, x3, w1, w2, c1, c2, p1, p2

McDerivedFrom == [r \in {derived, further} |-> IF r = derived THEN base ELSE derived]
McPatchesOf == [r \in {derived, further} |-> IF r = derived THEN <<x1, x2>> ELSE <<x3>>]
McRevisionOf == [w \in {w1, w2} |-> IF w = w1 THEN base ELSE derived]
McManifests == {[r \in {base} |-> c1], [r \in {base} |-> c2]}
McUpstream == <<c1, c2>>
McSymmetry == Permutations({p1, p2})
=============================================================================
