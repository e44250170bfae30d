------------------------- MODULE WorkspaceLifecycle -------------------------
(***************************************************************************)
(* Opening and closing the workspaces of one package under one name:       *)
(* open_workspace and its clean-up, and close_workspace with the phases    *)
(* its journal entry goes through (workspaces.py), over the tables of      *)
(* workspace_store.py and the shared Git repository.                       *)
(*                                                                         *)
(* Row, checkout path and branch are named after package and name, and the *)
(* manager's locks leave one operation for them at a time, so one control  *)
(* state suffices and other names are independent.  Every workspace opened *)
(* under the name has its own id and notes ref; the checkout, the branch   *)
(* and the row of the name each show whose they are.  Humans work in the   *)
(* checkout and put directories of their own at the path: no lock stops    *)
(* them.  Attachments are modelled in OverrideAttachment; here detaching   *)
(* them is one step, which may raise.                                      *)
(***************************************************************************)
EXTENDS Naturals

CONSTANTS
    None,           \* nothing there
    Foreign,        \* a directory a human put at the checkout path
    Registered,     \* the checkout is deleted but Git still lists it
    WorkPoints,     \* when humans work in the checkout, see Work
    CrashPoints,    \* where the process may be killed, see CrashPoint
    MaxOpens,       \* bound: ids issued to workspaces
    MaxCrashes,     \* bound: processes killed
    MaxFaults,      \* bound: steps that raise
    MaxHuman        \* bound: things humans do

VARIABLES
    row,            \* state of each workspace in the table, or None
    imported,       \* workspaces with an import or export recorded
    journal,        \* the pending close operation, or None
    tree,           \* what is at the checkout path
    branch,         \* the workspace whose branch exists, or None
    notes,          \* workspaces whose notes ref exists
    work,           \* the checkout holds work that is not exported
    pc, job,        \* control: label; the workspace, and force of a close
    issued, crashes, faults, acts

database == <<row, imported, journal>>
git == <<tree, branch, notes>>
bounds == <<issued, crashes, faults, acts>>
vars == <<database, git, work, pc, job, bounds>>

ASSUME LifecycleAssumption ==
    /\ MaxOpens \in Nat /\ MaxCrashes \in Nat
    /\ MaxFaults \in Nat /\ MaxHuman \in Nat
    /\ WorkPoints \subseteq {"resting", "closing", "interrupted"}
    /\ CrashPoints \subseteq {"elsewhere", "half-removed"}

Id == 1 .. MaxOpens

Close ==
    [ws : Id, force : BOOLEAN,
     phase : {"prepared", "worktree-removed", "refs-removed"}]

OpenLabels == {"construct", "writenotes", "addbranch", "addtree", "register",
               "import", "ready"}
CleanupLabels == {"unregister", "removefailed", "dropfailed", "dropnotes"}
CloseLabels == {"detach", "saveclose", "remove", "unlist", "markremoved",
                "dropbranch", "dropref", "markrefs", "retire"}

ASSUME NullAssumption ==
    /\ None \notin Id \cup Close \cup {"opening", "ready", "closed"}
    /\ Foreign \notin Id /\ Registered \notin Id
    /\ None # Foreign /\ None # Registered /\ Foreign # Registered

Label == {"idle"} \cup OpenLabels \cup CleanupLabels \cup CloseLabels

TypeOK ==
    /\ row \in [Id -> {None, "opening", "ready", "closed"}]
    /\ imported \subseteq Id
    /\ journal \in Close \cup {None}
    /\ tree \in Id \cup {None, Foreign, Registered}
    /\ branch \in Id \cup {None}
    /\ notes \subseteq Id
    /\ work \in BOOLEAN
    /\ pc \in Label
    /\ job \in [ws : Id \cup {None}, force : BOOLEAN]
    /\ issued \in 0 .. MaxOpens /\ crashes \in 0 .. MaxCrashes
    /\ faults \in 0 .. MaxFaults /\ acts \in 0 .. MaxHuman

NoJob == [ws |-> None, force |-> FALSE]

Init ==
    /\ row = [w \in Id |-> None]
    /\ imported = {}
    /\ journal = None
    /\ tree = None /\ branch = None /\ notes = {}
    /\ work = FALSE
    /\ pc = "idle" /\ job = NoJob
    /\ issued = 0 /\ crashes = 0 /\ faults = 0 /\ acts = 0

-----------------------------------------------------------------------------

\* retired_at IS NULL
Live(w) == row[w] \in {"opening", "ready"}

From(label) == pc = label
Goto(label) == pc' = label /\ UNCHANGED job
Return == pc' = "idle" /\ job' = NoJob

\* Both workspace ids and directories show that the path exists.
PathExists == tree \in Id \cup {Foreign}

-----------------------------------------------------------------------------
(* open_workspace.  Opening a name that has a live workspace, or whose path  *)
(* or branch exists, changes nothing and is left out.                        *)

BeginOpen ==
    /\ From("idle")
    /\ issued < MaxOpens
    /\ \A w \in Id : ~Live(w)
    /\ ~PathExists
    /\ branch = None
    /\ issued' = issued + 1
    /\ pc' = "construct"
    /\ job' = [NoJob EXCEPT !.ws = issued']
    /\ UNCHANGED <<database, git, work, crashes, faults, acts>>

\* The patches are committed in a temporary checkout, which may raise.
Construct ==
    /\ From("construct")
    /\ Goto("writenotes") \/ Return
    /\ UNCHANGED <<database, git, work, bounds>>

WriteNotes ==
    /\ From("writenotes")
    /\ notes' = notes \cup {job.ws}
    /\ Goto("addbranch")
    /\ UNCHANGED <<database, tree, branch, work, bounds>>

\* git worktree add -b creates the branch and then the checkout, which must not
\* exist by then.
AddBranch ==
    /\ From("addbranch")
    /\ IF tree = None
       THEN branch' = job.ws /\ Goto("addtree")
       ELSE UNCHANGED branch /\ Goto("unregister")
    /\ UNCHANGED <<database, tree, notes, work, bounds>>

AddTree ==
    /\ From("addtree")
    /\ IF tree = None
       THEN tree' = job.ws /\ work' = FALSE /\ Goto("register")
       ELSE UNCHANGED <<tree, work>> /\ Goto("unregister")
    /\ UNCHANGED <<database, branch, notes, bounds>>

\* Mutant of Register: the workspace is inserted as ready.
RegisterReady ==
    /\ From("register")
    /\ IF \A w \in Id : row[w] = None
       THEN row' = [row EXCEPT ![job.ws] = "ready"] /\ Goto("import")
       ELSE UNCHANGED row /\ Goto("unregister")
    /\ UNCHANGED <<imported, journal, git, work, bounds>>

\* create_workspace.  The name is unique in the table, which keeps the rows of
\* closed workspaces: under the name of one the insertion raises.
Register ==
    /\ From("register")
    /\ IF \A w \in Id : row[w] = None
       THEN row' = [row EXCEPT ![job.ws] = "opening"] /\ Goto("import")
       ELSE UNCHANGED row /\ Goto("unregister")
    /\ UNCHANGED <<imported, journal, git, work, bounds>>

\* record_export of the imported stack
Import ==
    /\ From("import")
    /\ imported' = imported \cup {job.ws}
    /\ Goto("ready")
    /\ UNCHANGED <<row, journal, git, work, bounds>>

MarkReady ==
    /\ From("ready")
    /\ row' = [row EXCEPT ![job.ws] = "ready"]
    /\ Return
    /\ UNCHANGED <<imported, journal, git, work, bounds>>

\* Any step of the try block may raise.
FailOpen ==
    /\ pc \in OpenLabels \ {"construct"}
    /\ faults < MaxFaults
    /\ faults' = faults + 1
    /\ Goto("unregister")
    /\ UNCHANGED <<database, git, work, issued, crashes, acts>>

-----------------------------------------------------------------------------
(* The clean-up of a failed open *)

\* delete_failed_workspace, one transaction
Unregister ==
    /\ From("unregister")
    /\ imported' = imported \ {job.ws}
    /\ row' = [row EXCEPT ![job.ws] = IF @ = "opening" THEN None ELSE @]
    /\ Goto("removefailed")
    /\ UNCHANGED <<journal, git, work, bounds>>

\* Mutant of RemoveFailed: whatever is at the path is deleted.
RemoveAnything ==
    /\ From("removefailed")
    /\ tree' = None
    /\ work' = FALSE
    /\ Goto("dropfailed")
    /\ UNCHANGED <<database, branch, notes, bounds>>

\* git worktree remove --force if the path exists; Git refuses when the path is
\* not a checkout of its own, and that is ignored.
RemoveFailed ==
    /\ From("removefailed")
    /\ tree' = IF tree \in Id THEN None ELSE tree
    /\ work' = IF tree \in Id THEN FALSE ELSE work
    /\ Goto("dropfailed")
    /\ UNCHANGED <<database, branch, notes, bounds>>

DropFailedBranch ==
    /\ From("dropfailed")
    /\ branch' = None
    /\ Goto("dropnotes")
    /\ UNCHANGED <<database, tree, notes, work, bounds>>

\* Mutant of DropFailedNotes: the notes ref stays.
KeepFailedNotes ==
    /\ From("dropnotes")
    /\ Return
    /\ UNCHANGED <<database, git, work, bounds>>

DropFailedNotes ==
    /\ From("dropnotes")
    /\ notes' = notes \ {job.ws}
    /\ Return
    /\ UNCHANGED <<database, tree, branch, work, bounds>>

-----------------------------------------------------------------------------
(* close_workspace *)

\* What an unforced close requires of the status: a checkout on its branch,
\* clean, and everything exported.
Exported(w) == tree = w /\ branch = w /\ w \in imported /\ ~work

\* A close that is refused changes nothing and is left out.
BeginClose(w, force) ==
    /\ From("idle")
    /\ journal = None
    /\ Live(w)
    /\ force \/ Exported(w)
    /\ pc' = "detach"
    /\ job' = [ws |-> w, force |-> force]
    /\ UNCHANGED <<database, git, work, bounds>>

\* Mutant of PhaseLabel: a close resumes behind the removal of the checkout.
PhaseLabelLate(phase) == IF phase = "refs-removed" THEN "retire" ELSE "dropbranch"

\* Where a resumed close goes on.
PhaseLabel(phase) ==
    CASE phase = "prepared" -> "remove"
      [] phase = "worktree-removed" -> "dropbranch"
      [] phase = "refs-removed" -> "retire"

\* With a close pending the status is not looked at, and force is what it was
\* when the close began.
ResumeClose ==
    /\ From("idle")
    /\ journal # None
    /\ Live(journal.ws)
    /\ pc' = PhaseLabel(journal.phase)
    /\ job' = [ws |-> journal.ws, force |-> journal.force]
    /\ UNCHANGED <<database, git, work, bounds>>

Detach ==
    /\ From("detach")
    /\ Goto("saveclose") \/ Return
    /\ UNCHANGED <<database, git, work, bounds>>

Save(phase) ==
    journal' = [ws |-> job.ws, force |-> job.force, phase |-> phase]

SaveClose ==
    /\ From("saveclose")
    /\ Save("prepared")
    /\ Goto("remove")
    /\ UNCHANGED <<row, imported, git, work, bounds>>

\* The checkout must belong to the repository, or the path to no repository and
\* not be listed; the path of a human's directory may be in one of his.
\* git worktree remove --force deletes the checkout and then takes it off the list.
Remove ==
    /\ From("remove")
    /\ \/ /\ tree = job.ws
          /\ tree' = Registered
          /\ work' = FALSE
          /\ Goto("unlist")
       \/ /\ tree \in {None, Foreign}
          /\ Goto("markremoved")
          /\ UNCHANGED <<tree, work>>
       \/ /\ tree \in {Registered, Foreign}
          /\ Return
          /\ UNCHANGED <<tree, work>>
    /\ UNCHANGED <<database, branch, notes, bounds>>

Unlist ==
    /\ From("unlist")
    /\ tree' = None
    /\ Goto("markremoved")
    /\ UNCHANGED <<database, branch, notes, work, bounds>>

MarkRemoved ==
    /\ From("markremoved")
    /\ Save("worktree-removed")
    /\ Goto("dropbranch")
    /\ UNCHANGED <<row, imported, git, work, bounds>>

\* update-ref -d succeeds, too, for a ref that does not exist.
DropBranch ==
    /\ From("dropbranch")
    /\ branch' = None
    /\ Goto("dropref")
    /\ UNCHANGED <<database, tree, notes, work, bounds>>

DropNotes ==
    /\ From("dropref")
    /\ notes' = notes \ {job.ws}
    /\ Goto("markrefs")
    /\ UNCHANGED <<database, tree, branch, work, bounds>>

MarkRefs ==
    /\ From("markrefs")
    /\ Save("refs-removed")
    /\ Goto("retire")
    /\ UNCHANGED <<row, imported, git, work, bounds>>

\* Mutant of Retire: the journal entry outlives the close.
RetireOnly ==
    /\ From("retire")
    /\ row' = [row EXCEPT ![job.ws] = "closed"]
    /\ Return
    /\ UNCHANGED <<imported, journal, git, work, bounds>>

\* complete_close_operation, one transaction
Retire ==
    /\ From("retire")
    /\ row' = [row EXCEPT ![job.ws] = "closed"]
    /\ journal' = None
    /\ Return
    /\ UNCHANGED <<imported, git, work, bounds>>

-----------------------------------------------------------------------------

CrashPoint == IF pc = "unlist" THEN "half-removed" ELSE "elsewhere"

\* The process is killed, or a step of a close or of a clean-up raises.
Crash ==
    /\ pc # "idle"
    /\ crashes < MaxCrashes
    /\ CrashPoint \in CrashPoints
    /\ crashes' = crashes + 1
    /\ Return
    /\ UNCHANGED <<database, git, work, issued, faults, acts>>

Acting == acts < MaxHuman /\ acts' = acts + 1

\* A human edits or commits in the checkout: while nothing is being closed, while
\* a close runs, or after one was interrupted.
WorkPoint ==
    IF pc \in CloseLabels THEN "closing"
    ELSE IF journal # None THEN "interrupted" ELSE "resting"

Work ==
    /\ Acting
    /\ tree \in Id /\ Live(tree)
    /\ WorkPoint \in WorkPoints
    /\ work' = TRUE
    /\ UNCHANGED <<database, git, pc, job, issued, crashes, faults>>

\* export_workspace, here one step, records what the checkout holds, also that of
\* a workspace whose opening was killed.  It refuses while a close is pending.
Export ==
    /\ From("idle") /\ journal = None
    /\ tree \in Id /\ Live(tree) /\ branch = tree
    /\ work \/ tree \notin imported
    /\ work' = FALSE
    /\ imported' = imported \cup {tree}
    /\ UNCHANGED <<row, journal, git, pc, job, bounds>>

\* A human makes a directory of his own at the path.
Occupy ==
    /\ Acting
    /\ tree = None
    /\ tree' = Foreign
    /\ UNCHANGED <<database, branch, notes, work, pc, job, issued, crashes, faults>>

Step ==
    \/ Construct \/ WriteNotes \/ AddBranch \/ AddTree \/ Register \/ Import
    \/ MarkReady
    \/ Unregister \/ RemoveFailed \/ DropFailedBranch \/ DropFailedNotes
    \/ Detach \/ SaveClose \/ Remove \/ Unlist \/ MarkRemoved \/ DropBranch
    \/ DropNotes \/ MarkRefs \/ Retire

Next ==
    \/ BeginOpen
    \/ \E w \in Id, force \in BOOLEAN : BeginClose(w, force)
    \/ ResumeClose
    \/ Step \/ FailOpen \/ Crash
    \/ Work \/ Export \/ Occupy

Spec == Init /\ [][Next]_vars

\* A running operation goes on, and whoever began to close a workspace tries
\* again when it was interrupted.
FairSpec == Spec /\ WF_vars(Step) /\ WF_vars(ResumeClose)

-----------------------------------------------------------------------------
(* Properties *)

\* A workspace shown as ready, unless its close is pending, has everything it
\* needs: checkout, branch, notes ref and the record of its import, whichever
\* step of opening it or of an earlier workspace was interrupted.
Whole(w) == tree = w /\ branch = w /\ w \in notes /\ w \in imported

ReadyIsWhole == journal = None => \A w \in Id : row[w] = "ready" => Whole(w)

\* A closed workspace has left nothing in the repository, also when its close
\* was interrupted and resumed.
Gone(w) == tree # w /\ branch # w /\ w \notin notes

ClosedLeavesNothing == \A w \in Id : row[w] = "closed" => Gone(w)

\* A failed open that was not killed leaves nothing: whatever exists at rest
\* belongs to a workspace in the table.
Traces(w) == ~Gone(w) \/ (w \in imported /\ row[w] # "closed")

FailedOpenLeavesNothing ==
    From("idle") /\ crashes = 0 => \A w \in Id : Traces(w) => Live(w)

\* No operation removes a directory a human put at the checkout path.
ForeignSpared == [][tree = Foreign => tree' = Foreign]_vars

\* What the guide promises ("without force protects dirty or unexported work"):
\* only a close that was asked to discard work does.  A close that was interrupted
\* is resumed without another look at the checkout, so the code breaks this for
\* work done in between.
WorkProtected ==
    [][work /\ pc \in CloseLabels /\ tree' # tree => job.force]_vars

\* A close that was interrupted is finished when it is tried again, whatever
\* phase it had reached, unless git was killed while it removed the checkout or
\* the path is occupied, which close refuses for good.
CloseResumes ==
    \/ []<>(journal = None)
    \/ <>[](tree \in {Registered, Foreign})

-----------------------------------------------------------------------------
(* The inductive invariant behind the safety properties above: what the       *)
(* control state of an open and of a close says about tables and repository.  *)

\* Ids are new when they are issued.
FreshIds == \A w \in Id : w > issued => row[w] = None /\ w \notin imported /\ Gone(w)

\* The name has one row at most, that of a closed workspace included.
OneRow == \A v, w \in Id : row[v] # None /\ row[w] # None => v = w

\* How far an open, or its clean-up, has come.
OpenProgress ==
    LET At(labels) == pc \in labels IN
    At(OpenLabels \cup CleanupLabels) =>
        /\ job.ws \in 1 .. issued /\ job.ws \in Id
        /\ journal = None
        /\ row[job.ws] =
              IF At({"import", "ready"}) THEN "opening"
              ELSE IF At({"unregister"}) /\ row[job.ws] = "opening" THEN "opening"
              ELSE None
        /\ \A w \in Id : Live(w) => w = job.ws
        /\ At({"construct"}) => Gone(job.ws) /\ job.ws \notin imported
        /\ At({"addbranch", "addtree", "register", "import", "ready"}) =>
              job.ws \in notes
        /\ At({"addtree", "register", "import", "ready"}) => branch = job.ws
        /\ At({"register", "import", "ready"}) => tree = job.ws
        /\ At({"ready"}) => job.ws \in imported
        /\ At({"removefailed", "dropfailed", "dropnotes"}) => job.ws \notin imported
        /\ At({"dropfailed", "dropnotes"}) => tree # job.ws
        /\ At({"dropnotes"}) => branch # job.ws

\* How far a close has come, and what its journal entry says.
CloseProgress ==
    LET At(labels) == pc \in labels IN
    At(CloseLabels) =>
        /\ job.ws \in Id /\ Live(job.ws)
        /\ IF At({"detach", "saveclose"}) THEN journal = None
           ELSE /\ journal \in Close
                /\ journal.ws = job.ws /\ journal.force = job.force
                /\ journal.phase =
                      IF At({"remove", "unlist", "markremoved"}) THEN "prepared"
                      ELSE IF At({"retire"}) THEN "refs-removed"
                      ELSE "worktree-removed"
        /\ At({"unlist"}) => tree = Registered
        /\ At({"markremoved"}) => tree # job.ws
        /\ At({"dropref", "markrefs"}) => branch # job.ws
        /\ At({"markrefs"}) => job.ws \notin notes

\* What the phase in the journal promises to whoever resumes the close.
JournalPromise ==
    journal # None =>
        /\ Live(journal.ws)
        /\ journal.phase # "prepared" => tree # journal.ws
        /\ journal.phase = "refs-removed" => Gone(journal.ws)

\* While nothing was killed, what exists belongs to a live workspace or to the
\* one being opened.
NothingOrphaned ==
    crashes = 0 =>
        \A w \in Id : Traces(w) =>
            \/ Live(w)
            \/ pc \in OpenLabels \cup CleanupLabels /\ w = job.ws

\* The conjunction, which every step preserves.
LifecycleInv ==
    /\ TypeOK
    /\ FreshIds /\ OneRow
    /\ OpenProgress /\ CloseProgress /\ JournalPromise
    /\ ReadyIsWhole /\ ClosedLeavesNothing /\ NothingOrphaned
=============================================================================
