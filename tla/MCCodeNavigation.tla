--------------------------- MODULE MCCodeNavigation ---------------------------
(* Names 1 and 2.  Nested scopes of one name with a definition after the     *)
(* inner one, and the same with one line changed; a scope opened twice, the  *)
(* second time with a member on its first line; two definitions on one line  *)
(* and one beside them; a parser that reports no ends.                       *)
EXTENDS CodeNavigation, TLC

CONSTANTS b1, b2

D(name, first, last, in) ==
    [name |-> name, kind |-> "scope", first |-> first,
     last |-> last, in |-> in]
Nested == <<D(1, 1, 5, 0), D(1, 2, 3, 1), D(2, 4, 4, 1)>>
Reopened == <<D(1, 1, 2, 0), D(2, 2, 2, 1), D(1, 4, 5, 0), D(2, 4, 4, 3)>>
OneLine == <<D(1, 2, 2, 0), D(2, 2, 2, 0), D(2, 4, 6, 0)>>
Lines(n) == [i \in 1..n |-> i]
McSources == {
    [text |-> Lines(5), ends |-> TRUE, defs |-> Nested],
    [text |-> <<1, 2, 9, 4, 5>>, ends |-> TRUE, defs |-> Nested],
    [text |-> Lines(5), ends |-> TRUE, defs |-> Reopened],
    [text |-> Lines(6), ends |-> TRUE, defs |-> OneLine],
    [text |-> Lines(5), ends |-> FALSE, defs |-> Nested]}
McHistories == {<<b1, b1, b2>>, <<b1, b2, b1>>}
=============================================================================
