---------------------------- MODULE ExportJournal ----------------------------
(***************************************************************************)
(* Publishing the patches of one workspace: export_workspace, with         *)
(* annotate_workspace_commit, and _recover_export_operation, which undoes  *)
(* an export that was interrupted (workspaces.py).                         *)
(*                                                                         *)
(* The manager's locks leave one operation of the workspace at a time, so  *)
(* one control state suffices; but it may be killed between any two steps, *)
(* a step of it may fail with an exception, and humans, whom no lock       *)
(* stops, may edit the patch files and rewrite the workspace's commits.    *)
(*                                                                         *)
(* The loops of the code run in the order of the series; here a loop takes *)
(* the members of its set in any order.  Hashes are compared as the        *)
(* contents they are hashes of.  Files are abstract contents and paths     *)
(* abstract names: the allocation of numbers is not modelled, a path that  *)
(* plan_export allocates is any free one.                                  *)
(***************************************************************************)
EXTENDS Naturals, FiniteSets

CONSTANTS
    Dest,           \* patch paths in the selected editable directories
    Content,        \* contents of patch files
    NCommits,       \* bound: commits in the export range
    Absent,         \* no such file, patch, commit, note or backup
    None,           \* no operation
    CrashPoints,    \* where the process may be killed, see CrashPoint
    MaxRuns,        \* bound: exports begun
    MaxCommits,     \* bound: times the workspace's history is rewritten
    MaxAnnotates,   \* bound: annotations
    MaxCrashes,     \* bound: processes killed
    MaxFaults,      \* bound: steps failing with an exception
    MaxEdits        \* bound: human edits of patch files

VARIABLES
    patch,          \* the patch files
    staged,         \* paths whose .new file is on disk
    backup,         \* the .bak file of each path, or Absent
    note,           \* the path the note of each commit names, by tip and commit
    recorded,       \* the paths and contents of the latest recorded export
    journal,        \* the pending export operation, or None
    text,           \* what format-patch gives for each commit of the range
    pc, todo, cur,  \* control: label, members left in the loop, member at hand
    mem,            \* the payload the running export has in memory
    restored,       \* this recovery has put a published file back
    runs, commits, annotates, crashes, faults, edits

disk == <<patch, staged, backup, note>>
database == <<recorded, journal>>
control == <<pc, todo, cur, mem, restored>>
bounds == <<runs, crashes, faults>>
human == <<text, commits, annotates, edits>>
vars == <<disk, database, control, bounds, human>>

Commit == 1 .. NCommits     \* positions in the export range
Tip == 0 .. MaxCommits      \* successive heads of the workspace
MaybeContent == Content \cup {Absent}
MaybeDest == Dest \cup {Absent}

Payload ==
    [phase : {"prepared", "publishing", "notes", "complete", "failed"},
     tip : Tip,
     path : [Commit -> MaybeDest],      \* the plan
     files : SUBSET Dest,               \* paths staged so far
     old : [Dest -> MaybeContent],      \* what they held when staged
     new : [Dest -> MaybeContent],      \* the generated patches
     backed : SUBSET Dest,              \* paths with a backup
     published : SUBSET Dest,           \* paths flagged as replaced
     notes : SUBSET Commit,             \* commits to be given a note
     oldnote : [Commit -> MaybeDest]]   \* the notes they had

ASSUME ExportAssumption ==
    /\ Absent \notin Content \cup Dest
    /\ None \notin Payload
    /\ CrashPoints \subseteq {"elsewhere", "unmarked", "restored"}
    /\ NCommits \in Nat
    /\ MaxRuns \in Nat /\ MaxCommits \in Nat /\ MaxAnnotates \in Nat
    /\ MaxCrashes \in Nat /\ MaxFaults \in Nat /\ MaxEdits \in Nat

RecoveryLabels ==
    {"recover", "undonotes", "undofiles", "restore", "cleanfile", "sweep", "drop"}

PublishLabels ==
    {"stage", "prepare", "announce", "publish", "replace", "mark",
     "notes", "marknote", "complete"}

Label == {"idle", "refused", "plan", "planned", "failing", "tidy", "finish"}
             \cup RecoveryLabels \cup PublishLabels

TypeOK ==
    /\ patch \in [Dest -> MaybeContent]
    /\ staged \subseteq Dest
    /\ backup \in [Dest -> MaybeContent]
    /\ note \in [Tip \X Commit -> MaybeDest]
    /\ recorded \in [Dest -> MaybeContent]
    /\ journal \in Payload \cup {None}
    /\ text \in [Commit -> MaybeContent]
    /\ pc \in Label
    /\ todo \subseteq Dest \cup Commit
    /\ cur \in Dest \cup Commit \cup {None}
    /\ mem \in Payload \cup {None}
    /\ restored \in BOOLEAN
    /\ runs \in 0 .. MaxRuns /\ commits \in Tip /\ annotates \in 0 .. MaxAnnotates
    /\ crashes \in 0 .. MaxCrashes /\ faults \in 0 .. MaxFaults
    /\ edits \in 0 .. MaxEdits

Series(t) == {c \in Commit : t[c] # Absent}

\* A range of commits: the positions from 1 on.
IsRange(t) == \A c \in Series(t) : 1 .. c \subseteq Series(t)

\* A workspace was just opened: the editable patches are its commits, each with
\* a note of its path, and they are recorded as its first export.
Init ==
    /\ text \in {t \in [Commit -> MaybeContent] : IsRange(t)}
    /\ \E at \in [Commit -> MaybeDest] :
          /\ \A c \in Commit : at[c] = Absent <=> text[c] = Absent
          /\ \A c, e \in Series(text) : at[c] = at[e] => c = e
          /\ note = [te \in Tip \X Commit |-> IF te[1] = 0 THEN at[te[2]] ELSE Absent]
          /\ patch = [d \in Dest |->
                IF \E c \in Commit : at[c] = d
                THEN text[CHOOSE c \in Commit : at[c] = d]
                ELSE Absent]
    /\ staged = {}
    /\ backup = [d \in Dest |-> Absent]
    /\ recorded = patch
    /\ journal = None
    /\ pc = "idle" /\ todo = {} /\ cur = None /\ mem = None /\ restored = FALSE
    /\ runs = 0 /\ commits = 0 /\ annotates = 0
    /\ crashes = 0 /\ faults = 0 /\ edits = 0

-----------------------------------------------------------------------------

Goto(label, members) ==
    /\ pc' = label /\ todo' = members /\ cur' = None
    /\ UNCHANGED <<mem, restored>>

\* The operation returns or raises; what it had in memory is gone.
Return(label) ==
    /\ pc' = label /\ todo' = {} /\ cur' = None
    /\ mem' = None /\ restored' = FALSE

\* An export, or another operation of the workspace that recovers first.
Begin ==
    /\ pc = "idle"
    /\ runs < MaxRuns
    /\ runs' = runs + 1
    /\ Goto("recover", {})
    /\ UNCHANGED <<disk, database, crashes, faults, human>>

\* annotate_workspace_commit, which does not recover first
Annotate ==
    /\ pc = "idle"
    /\ annotates < MaxAnnotates
    /\ \E c \in Series(text), d \in Dest :
          note' = [note EXCEPT ![<<commits, c>>] = d]
    /\ annotates' = annotates + 1
    /\ UNCHANGED <<patch, staged, backup, database, control, bounds, text, commits, edits>>

-----------------------------------------------------------------------------
(* recover_workspace_operations, _recover_export_operation *)

Recover ==
    /\ pc = "recover"
    /\ \/ journal = None /\ Goto("plan", {})
       \/ journal # None /\ journal.phase = "complete" /\ Goto("sweep", {})
       \/ journal # None /\ journal.phase # "complete"
             /\ Goto("undonotes", journal.notes)
    /\ UNCHANGED <<disk, database, bounds, human>>

\* Mutant of UndoNote: a note that replaced another is removed.
UndoNoteByRemoval ==
    /\ pc = "undonotes"
    /\ \/ /\ todo = {}
          /\ Goto("undofiles", journal.files)
          /\ UNCHANGED note
       \/ \E c \in todo :
             /\ note' = [note EXCEPT ![<<journal.tip, c>>] = Absent]
             /\ Goto("undonotes", todo \ {c})
    /\ UNCHANGED <<patch, staged, backup, database, bounds, human>>

\* A note the export wrote is removed or set back; one that is neither as
\* written nor as before makes the recovery refuse.
UndoNote ==
    /\ pc = "undonotes"
    /\ \/ /\ todo = {}
          /\ Goto("undofiles", journal.files)
          /\ UNCHANGED note
       \/ \E c \in todo : LET n == note[<<journal.tip, c>>] IN
             \/ /\ n \in {journal.path[c], journal.oldnote[c]}
                /\ note' = [note EXCEPT ![<<journal.tip, c>>] = journal.oldnote[c]]
                /\ Goto("undonotes", todo \ {c})
             \/ /\ n \notin {journal.path[c], journal.oldnote[c]}
                /\ Return("refused")
                /\ UNCHANGED note
    /\ UNCHANGED <<patch, staged, backup, database, bounds, human>>

\* A published file must still be as published, or the recovery refuses.
UndoFile ==
    /\ pc = "undofiles"
    /\ \/ todo = {} /\ Goto("drop", {})
       \/ \E d \in todo :
             \/ /\ d \in journal.published
                /\ patch[d] # journal.new[d]
                /\ Return("refused")
             \/ /\ d \in journal.published => patch[d] = journal.new[d]
                /\ pc' = IF d \in journal.published THEN "restore" ELSE "cleanfile"
                /\ cur' = d
                /\ UNCHANGED <<todo, mem, restored>>
    /\ UNCHANGED <<disk, database, bounds, human>>

\* Mutant of Restore: a file the export created stays.
RestoreBackedOnly ==
    /\ pc = "restore"
    /\ patch' = [patch EXCEPT ![cur] =
                    IF cur \in journal.backed THEN backup[cur] ELSE @]
    /\ backup' = [backup EXCEPT ![cur] = Absent]
    /\ pc' = "cleanfile" /\ restored' = TRUE
    /\ UNCHANGED <<todo, cur, mem, staged, note, database, bounds, human>>

\* os.replace(backup, destination), which needs the backup, or unlink a file
\* the export created.
Restore ==
    /\ pc = "restore"
    /\ IF cur \in journal.backed /\ backup[cur] = Absent
       THEN Return("refused") /\ UNCHANGED <<patch, backup>>
       ELSE /\ patch' = [patch EXCEPT ![cur] =
                            IF cur \in journal.backed THEN backup[cur] ELSE Absent]
            /\ backup' = [backup EXCEPT ![cur] = Absent]
            /\ pc' = "cleanfile" /\ restored' = TRUE
            /\ UNCHANGED <<todo, cur, mem>>
    /\ UNCHANGED <<staged, note, database, bounds, human>>

\* backup.unlink (of a file never published), staged.unlink
CleanFile ==
    /\ pc = "cleanfile"
    /\ staged' = staged \ {cur}
    /\ backup' = [backup EXCEPT ![cur] = Absent]
    /\ Goto("undofiles", todo \ {cur})
    /\ UNCHANGED <<patch, note, database, bounds, human>>

\* A complete export only left its temporary files.
Sweep ==
    /\ pc = "sweep"
    /\ staged' = staged \ journal.files
    /\ backup' = [d \in Dest |-> IF d \in journal.files THEN Absent ELSE backup[d]]
    /\ Goto("drop", {})
    /\ UNCHANGED <<patch, note, database, bounds, human>>

\* delete_operation; the operation that recovered need not be an export.
Drop ==
    /\ pc = "drop"
    /\ journal' = None
    /\ \E label \in {"plan", "idle"} : Return(label)
    /\ UNCHANGED <<disk, recorded, bounds, human>>

Refused ==
    /\ pc = "refused"
    /\ Return("idle")
    /\ UNCHANGED <<disk, database, bounds, human>>

-----------------------------------------------------------------------------
(* export_workspace after the recovery *)

NoteOf(c) == note[<<commits, c>>]

\* A commit keeps the path its note names unless an earlier one claims it.
Explicit(c) ==
    /\ NoteOf(c) # Absent
    /\ \A e \in Series(text) : e < c => NoteOf(e) # NoteOf(c)

\* The plans that plan_export may make: the other commits get free paths.
Plans ==
    {p \in [Commit -> MaybeDest] :
        /\ \A c \in Commit : p[c] = Absent <=> text[c] = Absent
        /\ \E c \in Series(text) : Explicit(c)
        /\ \A c \in Series(text) :
              /\ \A e \in Series(text) : p[c] = p[e] => c = e
              /\ IF Explicit(c) THEN p[c] = NoteOf(c) ELSE patch[p[c]] = Absent}

\* The destination checks of the plan.
Publishable(d, content) ==
    IF recorded[d] = Absent
    THEN patch[d] = Absent
    ELSE patch[d] \in {recorded[d], content}

Planned(p) ==
    [phase |-> "prepared", tip |-> commits, path |-> p, files |-> {},
     old |-> [d \in Dest |-> Absent],
     new |-> [d \in Dest |->
                IF \E c \in Series(text) : p[c] = d
                THEN text[CHOOSE c \in Series(text) : p[c] = d]
                ELSE Absent],
     backed |-> {}, published |-> {},
     notes |-> {c \in Series(text) : ~Explicit(c)},
     oldnote |-> [c \in Commit |-> NoteOf(c)]]

\* Either one of the many checks raises, or it is a dry run, or the export goes
\* on, with names of its own for its .new and .bak files.
Plan ==
    /\ pc = "plan"
    /\ \/ /\ Return("idle")
          /\ UNCHANGED <<staged, backup>>
       \/ \E p \in Plans :
             /\ \A c \in Series(text) : Publishable(p[c], text[c])
             /\ mem' = Planned(p)
             /\ pc' = "planned"
             /\ staged' = {}
             /\ backup' = [d \in Dest |-> Absent]
             /\ UNCHANGED <<todo, cur, restored>>
    /\ UNCHANGED <<patch, note, database, bounds, human>>

\* The paths of the plan in memory.
Target == {d \in Dest : mem.new[d] # Absent}

Recheck ==
    /\ pc = "planned"
    /\ IF commits = mem.tip THEN Goto("stage", Target) ELSE Return("idle")
    /\ UNCHANGED <<disk, database, bounds, human>>

\* Mutant of StageFile: the backup is a copy of the wrong file.
StageWrongBackup ==
    /\ pc = "stage"
    /\ \/ /\ todo = {}
          /\ Goto("prepare", {})
          /\ UNCHANGED <<staged, backup>>
       \/ \E d \in todo :
             /\ staged' = staged \cup {d}
             /\ backup' = [backup EXCEPT ![d] = mem.new[d]]
             /\ mem' = [mem EXCEPT
                          !.files = @ \cup {d},
                          !.old[d] = patch[d],
                          !.backed = IF patch[d] = Absent THEN @ ELSE @ \cup {d}]
             /\ todo' = todo \ {d}
             /\ UNCHANGED <<pc, cur, restored>>
    /\ UNCHANGED <<patch, note, database, bounds, human>>

\* The patch is written beside its destination, which is backed up.
StageFile ==
    /\ pc = "stage"
    /\ \/ /\ todo = {}
          /\ Goto("prepare", {})
          /\ UNCHANGED <<staged, backup>>
       \/ \E d \in todo :
             /\ staged' = staged \cup {d}
             /\ backup' = [backup EXCEPT ![d] = patch[d]]
             /\ mem' = [mem EXCEPT
                          !.files = @ \cup {d},
                          !.old[d] = patch[d],
                          !.backed = IF patch[d] = Absent THEN @ ELSE @ \cup {d}]
             /\ todo' = todo \ {d}
             /\ UNCHANGED <<pc, cur, restored>>
    /\ UNCHANGED <<patch, note, database, bounds, human>>

\* The first save_operation inserts the journal row, the second updates it.
Prepare ==
    /\ pc = "prepare"
    /\ journal' = mem
    /\ Goto("announce", {})
    /\ UNCHANGED <<disk, recorded, bounds, human>>

Announce ==
    /\ pc = "announce"
    /\ mem' = [mem EXCEPT !.phase = "publishing"]
    /\ journal' = mem'
    /\ pc' = "publish" /\ todo' = mem.files
    /\ UNCHANGED <<cur, restored, disk, recorded, bounds, human>>

\* Mutant of CheckFile: the file is flagged as published before it is.
CheckFileFlagging ==
    /\ pc = "publish"
    /\ \/ todo = {} /\ Goto("notes", mem.notes) /\ UNCHANGED journal
       \/ \E d \in todo :
             /\ pc' = IF patch[d] = mem.old[d] THEN "replace" ELSE "failing"
             /\ cur' = d
             /\ journal' = [mem EXCEPT !.published = @ \cup {d}]
             /\ UNCHANGED <<todo, mem, restored>>
    /\ UNCHANGED <<disk, recorded, bounds, human>>

\* A destination must still be as it was when it was staged.
CheckFile ==
    /\ pc = "publish"
    /\ \/ todo = {} /\ Goto("notes", mem.notes)
       \/ \E d \in todo :
             /\ pc' = IF patch[d] = mem.old[d] THEN "replace" ELSE "failing"
             /\ cur' = d
             /\ UNCHANGED <<todo, mem, restored>>
    /\ UNCHANGED <<disk, database, bounds, human>>

\* os.replace(staged, destination) and the flag in memory
Replace ==
    /\ pc = "replace"
    /\ patch' = [patch EXCEPT ![cur] = mem.new[cur]]
    /\ staged' = staged \ {cur}
    /\ mem' = [mem EXCEPT !.published = @ \cup {cur}]
    /\ pc' = "mark"
    /\ UNCHANGED <<backup, note, todo, cur, restored, database, bounds, human>>

Mark ==
    /\ pc = "mark"
    /\ journal' = mem
    /\ Goto("publish", todo \ {cur})
    /\ UNCHANGED <<disk, recorded, bounds, human>>

\* git notes add -f for a commit whose path was allocated
WriteNote ==
    /\ pc = "notes"
    /\ \/ /\ todo = {}
          /\ Goto("complete", {})
          /\ UNCHANGED note
       \/ \E c \in todo :
             /\ note' = [note EXCEPT ![<<mem.tip, c>>] = mem.path[c]]
             /\ pc' = "marknote" /\ cur' = c
             /\ UNCHANGED <<todo, mem, restored>>
    /\ UNCHANGED <<patch, staged, backup, database, bounds, human>>

MarkNote ==
    /\ pc = "marknote"
    /\ mem' = [mem EXCEPT !.phase = "notes"]
    /\ journal' = mem'
    /\ pc' = "notes" /\ todo' = todo \ {cur} /\ cur' = None
    /\ UNCHANGED <<restored, disk, recorded, bounds, human>>

\* complete_export_operation: record and journal in one transaction
Complete ==
    /\ pc = "complete"
    /\ mem' = [mem EXCEPT !.phase = "complete"]
    /\ journal' = mem'
    /\ recorded' = mem.new
    /\ pc' = "tidy"
    /\ UNCHANGED <<todo, cur, restored, disk, bounds, human>>

\* The backups go; a failure to unlink one is ignored.
Tidy ==
    /\ pc = "tidy"
    /\ backup' = [d \in Dest |-> IF d \in mem.files THEN Absent ELSE backup[d]]
    /\ Goto("finish", {})
    /\ UNCHANGED <<patch, staged, note, database, bounds, human>>

Finish ==
    /\ pc = "finish"
    /\ journal' = None
    /\ Return("idle")
    /\ UNCHANGED <<disk, recorded, bounds, human>>

\* A step raises; the handler saves what the payload holds by then.
Fail ==
    /\ pc \in PublishLabels
    /\ faults < MaxFaults
    /\ faults' = faults + 1
    /\ Goto("failing", {})
    /\ UNCHANGED <<disk, database, runs, crashes, human>>

Failing ==
    /\ pc = "failing"
    /\ journal' = [mem EXCEPT !.phase = "failed"]
    /\ Return("idle")
    /\ UNCHANGED <<disk, recorded, bounds, human>>

-----------------------------------------------------------------------------

\* Where a crash finds the operation: a file was replaced that the journal does
\* not flag, or a recovery has put a file back that the journal still flags.
CrashPoint ==
    IF mem # None /\ journal # None /\ ~(mem.published \subseteq journal.published)
    THEN "unmarked"
    ELSE IF restored THEN "restored" ELSE "elsewhere"

\* The process is killed, or a recovery or the last deletion raises.
Crash ==
    /\ pc # "idle"
    /\ crashes < MaxCrashes
    /\ CrashPoint \in CrashPoints
    /\ crashes' = crashes + 1
    /\ Return("idle")
    /\ UNCHANGED <<disk, database, runs, faults, human>>

\* A human commits, amends or rebases; git copies what notes it can.
Rewrite ==
    /\ commits < MaxCommits
    /\ commits' = commits + 1
    /\ text' \in {t \in [Commit -> MaybeContent] : IsRange(t)}
    /\ \E at \in [Series(text') -> MaybeDest] :
          note' = [te \in Tip \X Commit |->
                     IF te[1] = commits' /\ te[2] \in Series(text')
                     THEN at[te[2]]
                     ELSE note[te]]
    /\ UNCHANGED <<patch, staged, backup, database, control, bounds, annotates, edits>>

Edit ==
    /\ edits < MaxEdits
    /\ edits' = edits + 1
    /\ \E d \in Dest, content \in MaybeContent :
          patch' = [patch EXCEPT ![d] = content]
    /\ UNCHANGED <<staged, backup, note, database, control, bounds, text, commits, annotates>>

\* Nothing runs and no export is left to begin.
Quiet ==
    /\ pc = "idle" /\ runs = MaxRuns
    /\ UNCHANGED vars

Recovery ==
    \/ Recover \/ UndoNote \/ UndoFile \/ Restore \/ CleanFile
    \/ Sweep \/ Drop \/ Refused

Publish ==
    \/ Plan \/ Recheck \/ StageFile \/ Prepare \/ Announce
    \/ CheckFile \/ Replace \/ Mark \/ WriteNote \/ MarkNote
    \/ Complete \/ Tidy \/ Finish \/ Fail \/ Failing

Next ==
    \/ Begin \/ Recovery \/ Publish \/ Crash
    \/ Annotate \/ Rewrite \/ Edit \/ Quiet

Spec == Init /\ [][Next]_vars

-----------------------------------------------------------------------------
(* Properties *)

Unfinished == journal # None /\ journal.phase # "complete"

\* The patch files as the journal lets one see them: those of an unfinished
\* export as they were before it.
SettledFiles ==
    [d \in Dest |->
        IF Unfinished /\ d \in journal.files THEN journal.old[d] ELSE patch[d]]

Atomic == INSTANCE AtomicExport WITH files <- SettledFiles, record <- recorded

\* The patch files and the record of the export change together or not at all,
\* however the process dies and whichever step fails: the journal of
\* export_workspace and its recovery implement AtomicExport.
ImplementsAtomic == Atomic!Spec

\* While an export is unfinished, each file it may have replaced is as before
\* or has its old content in the backup the recovery will use; a file that did
\* not exist has none.
Restorable ==
    Unfinished =>
        \A d \in journal.files :
            patch[d] # journal.old[d] => backup[d] = journal.old[d]

\* _recover_export_operation calls a file or a note "changed externally" only
\* if somebody did change one: it accepts whatever state the export, the kill or
\* the failed step left.
RefusesOnlyForeign == pc = "refused" => edits > 0 \/ annotates > 0

\* The notes follow the files: an unfinished export is only forgotten when the
\* notes it had to write are as before it, and an export is only recorded when
\* every commit of it names its path.
NotesAllOrNothing ==
    [][/\ Unfinished /\ journal' = None =>
             \A c \in journal.notes :
                note[<<journal.tip, c>>] = journal.oldnote[c]
       /\ pc = "complete" /\ recorded' # recorded =>
             \A c \in Commit :
                mem.path[c] # Absent => note[<<mem.tip, c>>] = mem.path[c]]_vars
=============================================================================
