---------------------------- MODULE AtomicExport ----------------------------
(***************************************************************************)
(* What publishing an export promises: the patch files of a workspace and  *)
(* the record of its latest export change together or not at all.  An      *)
(* export writes every patch of the planned series; a path that was not    *)
(* recorded must be free, and a recorded one must still hold what was      *)
(* recorded or already hold the new patch.                                 *)
(***************************************************************************)
CONSTANTS Dest, Content, Absent

VARIABLES files, record

published == <<files, record>>

Series == UNION {[S -> Content] : S \in SUBSET Dest}

Init ==
    /\ files \in [Dest -> Content \cup {Absent}]
    /\ record = files

Acceptable(d, new) ==
    \/ record[d] = Absent /\ files[d] = Absent
    \/ record[d] # Absent /\ files[d] \in {record[d], new[d]}

Export(new) ==
    /\ \A d \in DOMAIN new : Acceptable(d, new)
    /\ files' = [d \in Dest |-> IF d \in DOMAIN new THEN new[d] ELSE files[d]]
    /\ record' = [d \in Dest |-> IF d \in DOMAIN new THEN new[d] ELSE Absent]

Next == \E new \in Series : Export(new)

Spec == Init /\ [][Next]_published
=============================================================================
