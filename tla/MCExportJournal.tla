--------------------------- MODULE MCExportJournal ---------------------------
(* Two patch paths, two contents and ranges of at most two commits. *)
EXTENDS ExportJournal, TLC

CONSTANTS d1, d2, a, b

TwoPaths == {d1, d2}
TwoContents == {a, b}
Symmetry == Permutations(TwoPaths) \cup Permutations(TwoContents)
=============================================================================
