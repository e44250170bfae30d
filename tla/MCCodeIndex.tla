----------------------------- MODULE MCCodeIndex -----------------------------
(* A base revision and one derived from it, which share a blob, and a local  *)
(* revision over the derived one.  The second manifest moves the base and    *)
(* stops indexing the derived one, the third does not list the repository.   *)
EXTENDS CodeIndex, TLC

CONSTANTS base, derived, work, c1, c2, c3, b1, b2, b3, p1, p2

McTreeOf == [c \in {c1, c2, c3} |->
    CASE c = c1 -> <<b1, b2>>
      [] c = c2 -> <<b1, b3>>
      [] c = c3 -> <<b3>>]
AllPaths == {1, 2}
P(c, index, filter) == [commit |-> c, index |-> index, filter |-> filter]
McLocalPin == [r \in {work} |-> P(c2, TRUE, AllPaths)]
Pins(b, d) == [r \in {base, derived} |-> IF r = base THEN b ELSE d]
McManifests == {
    Pins(P(c1, TRUE, AllPaths), P(c2, TRUE, AllPaths)),
    Pins(P(c3, TRUE, {1}), P(c2, FALSE, AllPaths)),
    [r \in {} |-> P(c1, FALSE, {})]}
McSelections == {{base, derived, work}, {derived}}
McSymmetry == Permutations({p1, p2})
=============================================================================
