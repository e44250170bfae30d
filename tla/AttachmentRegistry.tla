------------------------- MODULE AttachmentRegistry -------------------------
(***************************************************************************)
(* What attaching promises, with the override files, the journal, the      *)
(* locks and the crashes left out: a table that says which workspace, if   *)
(* any, a configuration uses for a package.  A package has one holder at a *)
(* time, the holder is a workspace of that package which is still open,    *)
(* and it changes only by detaching.  A workspace closes only when nothing *)
(* uses it, and never opens again.                                         *)
(***************************************************************************)
CONSTANTS Config, Package, Workspace, PackageOf, None

VARIABLES holder, closed

registry == <<holder, closed>>

TypeOK ==
    /\ holder \in [Config \X Package -> Workspace \cup {None}]
    /\ closed \subseteq Workspace

Init ==
    /\ holder = [cp \in Config \X Package |-> None]
    /\ closed = {}

Attach(c, pkg, w) ==
    /\ holder[<<c, pkg>>] = None
    /\ PackageOf[w] = pkg
    /\ w \notin closed
    /\ holder' = [holder EXCEPT ![<<c, pkg>>] = w]
    /\ UNCHANGED closed

Detach(c, pkg) ==
    /\ holder' = [holder EXCEPT ![<<c, pkg>>] = None]
    /\ UNCHANGED closed

Close(w) ==
    /\ \A cp \in Config \X Package : holder[cp] # w
    /\ closed' = closed \cup {w}
    /\ UNCHANGED holder

Next ==
    \/ \E c \in Config, pkg \in Package :
          \/ Detach(c, pkg)
          \/ \E w \in Workspace : Attach(c, pkg, w)
    \/ \E w \in Workspace : Close(w)

Spec == Init /\ [][Next]_registry
=============================================================================
