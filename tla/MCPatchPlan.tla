----------------------------- MODULE MCPatchPlan -----------------------------
(* Two directories; numbers are written in base 5 with one digit, so that 5  *)
(* is the number that needs a second.  People annotate with a name of the    *)
(* first directory, one of the second, one with leading zeros, one without a *)
(* number and one outside.                                                   *)
EXTENDS PatchPlan

Name(d, n, w, s) == [dir |-> d, number |-> n, width |-> w, slug |-> s]
McImports == {
    {Name(1, 1, 1, 1), Name(1, 3, 1, 2)},
    {Name(1, 2, 1, 1), Name(2, 1, 1, 2)},
    {Name(1, 4, 1, 1), Name(1, NoNumber, 1, 2)}}
McDestinations == {Name(1, 2, 1, 3), Name(2, 1, 1, 4), Name(1, 3, 2, 5),
                   Name(1, NoNumber, 1, 6), Name(0, 1, 1, 7)}
=============================================================================
