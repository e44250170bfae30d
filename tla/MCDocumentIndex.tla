--------------------------- MODULE MCDocumentIndex ---------------------------
(* Two documents and a third that only the first manifest lists.  In the    *)
(* second manifest one moves, unchanged, to the path of the document that is *)
(* gone and the other to the path of the first; the third manifest exchanges *)
(* the paths of two documents of the first and changes tags, an extractor    *)
(* and a content, to one that cannot be extracted.                           *)
EXTENDS DocumentIndex, TLC

CONSTANTS guide, manual, notes, a, b, c, v1, v2, p1, p2

At(path, sha256, e, tags) ==
    [path |-> path, sha256 |-> sha256, extractor |-> e, tags |-> tags]
McManifests == {
    [d \in {guide, manual, notes} |->
        CASE d = guide -> At(1, a, v1, TRUE) [] d = manual -> At(2, b, v1, TRUE)
          [] d = notes -> At(3, a, v1, FALSE)],
    [d \in {guide, manual} |->
        IF d = guide THEN At(3, a, v1, TRUE) ELSE At(1, a, v2, TRUE)],
    [d \in {guide, manual} |->
        IF d = guide THEN At(2, b, v2, FALSE) ELSE At(1, c, v1, FALSE)]}
McRequests == {{}, {guide}, {manual}}
McSymmetry == Permutations({p1, p2})
=============================================================================
