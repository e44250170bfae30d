------------------------ MODULE MCOverrideAttachment ------------------------
(***************************************************************************)
(* Instances of OverrideAttachment: constant functions over the model      *)
(* values a configuration file names.                                      *)
(***************************************************************************)
EXTENDS OverrideAttachment

CONSTANTS w1, w2, c1, c2, p1, p2

\* Both workspaces develop the same package.
OnePackage == [w \in Workspace |-> p1]

\* Each workspace develops its own package.
TwoPackages == [w \in Workspace |-> IF w = w1 THEN p1 ELSE p2]

FromFirst == [w \in Workspace |-> c1]

HumanLine(pkg, ended) ==
    [id |-> 0, pkg |-> pkg, path |-> Elsewhere, sep |-> FALSE, ended |-> ended]

\* No file, an empty file, and a file that already overrides the package and
\* lacks the newline at its end.
SomeContents == {NoFile, <<>>, <<HumanLine(p1, FALSE)>>}

\* A process may be killed anywhere, or anywhere but between the replacement
\* of an override file and the flag in the journal that says so.
Anywhere == Label
ButUnmarked == Label \ {"mark"}

\* No override file yet.
NoContents == {NoFile}

\* A file with an unmanaged override of the first package, or none.
FewContents == {NoFile, <<HumanLine(p1, TRUE)>>}

\* Its last line lacks the newline.
UnendedContents == {<<HumanLine(p1, FALSE)>>}
=============================================================================
