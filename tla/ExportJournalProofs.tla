------------------------ MODULE ExportJournalProofs ------------------------
(***************************************************************************)
(* Proofs about ExportJournal, for any paths, contents, plans and bounds:  *)
(* what recovery needs is always there, and an export with its recovery    *)
(* implements AtomicExport, as long as nobody edits the patch files and no *)
(* kill hits the window between replacing a patch and flagging that; the   *)
(* notes are all or nothing without such conditions.                       *)
(***************************************************************************)
EXTENDS ExportJournal, TLAPS

\* The export has a payload in memory that is not recorded yet.
Working == pc \in {"planned", "stage", "prepare", "announce", "publish", "replace",
                   "mark", "notes", "marknote", "complete", "failing"}

\* The journal row is inserted and is kept up to date.
Journalled == pc \in {"announce", "publish", "replace", "mark", "notes", "marknote",
                      "complete"}

Undoing == pc \in {"undofiles", "restore", "cleanfile"}

\* A payload is consistent in itself, and of a tip the workspace has had.
Consistent(m) ==
    /\ m.files \subseteq {d \in Dest : m.new[d] # Absent}
    /\ m.backed = {d \in m.files : m.old[d] # Absent}
    /\ m.published \subseteq m.files
    /\ m.tip <= commits

Payloads == /\ mem # None => Consistent(mem)
            /\ journal # None => Consistent(journal)

\* What is in the journal is what is in memory, but for the flag of a file
\* that was just replaced and the phase.
SameWork ==
    /\ journal # None /\ journal.phase # "complete"
    /\ journal.tip = mem.tip /\ journal.path = mem.path
    /\ journal.files = mem.files /\ journal.old = mem.old /\ journal.new = mem.new
    /\ journal.backed = mem.backed
    /\ journal.notes = mem.notes /\ journal.oldnote = mem.oldnote
    /\ journal.published \subseteq mem.published

\* Which payload is where, by label.
Phases ==
    /\ mem # None <=> Working \/ pc \in {"tidy", "finish"}
    /\ mem # None => (mem.phase = "complete" <=> pc \in {"tidy", "finish"})
    /\ pc \in {"plan", "planned", "stage", "prepare"} => journal = None
    /\ Journalled => SameWork /\ (pc # "mark" => journal.published = mem.published)
    /\ pc = "failing" => journal = None \/ SameWork
    /\ pc \in {"tidy", "finish", "sweep"} =>
         journal # None /\ journal.phase = "complete"
    /\ pc = "undonotes" \/ Undoing => Unfinished
    /\ restored => Undoing \/ pc = "drop"

\* What is left of a loop.
Loops ==
    /\ pc \in {"planned", "stage"} => mem.published = {}
    /\ pc = "planned" => mem.files = {}
    /\ pc = "stage" => todo \subseteq Target /\ mem.files = Target \ todo
    /\ pc = "prepare" => mem.published = {}
    /\ pc = "prepare" \/ Journalled => mem.files = Target
    /\ pc = "announce" => mem.published = {}
    /\ pc \in {"publish", "replace", "mark"} => todo \subseteq mem.files
    /\ pc \in {"publish", "replace"} => mem.published = mem.files \ todo
    /\ pc = "replace" => cur \in todo
    /\ pc = "mark" => cur \in todo /\ mem.published = mem.files \ (todo \ {cur})
    /\ pc \in {"notes", "marknote", "complete"} => mem.published = mem.files
    /\ pc = "failing" /\ journal = None => mem.published = {}
    /\ pc \in {"notes", "marknote"} => todo \subseteq mem.notes
    /\ pc = "marknote" => cur \in todo
    /\ pc = "undonotes" => todo \subseteq journal.notes
    /\ Undoing => todo \subseteq journal.files
    /\ pc \in {"restore", "cleanfile"} => cur \in todo
    /\ pc = "restore" => cur \in journal.published

StructureInv == TypeOK /\ Payloads /\ Phases /\ Loops

-----------------------------------------------------------------------------
(* The files *)

\* While an export works: replaced files are new, the others old, and all of
\* them are backed up.
WorkOnFiles ==
    Working => \A d \in mem.files :
        /\ patch[d] = IF d \in mem.published THEN mem.new[d] ELSE mem.old[d]
        /\ backup[d] = mem.old[d]

\* An interrupted export has changed no file it does not flag, and what it
\* changed is in the backup unless a recovery has put it back.
JournalOfFiles ==
    Unfinished /\ ~Working => \A d \in journal.files :
        /\ d \notin journal.published => patch[d] = journal.old[d]
        /\ patch[d] # journal.old[d] => backup[d] = journal.old[d]
        /\ backup[d] \in {Absent, journal.old[d]}

\* How far a recovery has come.
UndoneFiles ==
    /\ Undoing => \A d \in journal.files \ todo : patch[d] = journal.old[d]
    /\ pc = "cleanfile" => patch[cur] = journal.old[cur]
    /\ pc = "drop" /\ Unfinished =>
         \A d \in journal.files : patch[d] = journal.old[d]

\* The destinations are still as the checks of the plan accepted them.
AcceptedPlan ==
    Working => \A d \in Target :
        LET held == IF d \in mem.files THEN mem.old[d] ELSE patch[d] IN
        IF recorded[d] = Absent THEN held = Absent
        ELSE held \in {recorded[d], mem.new[d]}

FilesInv == edits = 0 =>
    WorkOnFiles /\ JournalOfFiles /\ UndoneFiles /\ AcceptedPlan

\* Before a recovery puts the first file back, all published files are as
\* published, with their backups; afterwards those it has not come to.
StillPublished ==
    /\ pc = "cleanfile" /\ cur \in journal.published => restored
    /\ edits = 0 /\ Unfinished /\ ~Working =>
        \A d \in journal.published :
            ~restored \/ (pc \in {"undofiles", "restore"} /\ d \in todo)
                      \/ (pc = "cleanfile" /\ d \in todo \ {cur})
            => patch[d] = journal.new[d] /\ backup[d] = journal.old[d]

\* The notes of an interrupted export are as it wrote them or as before it.
StillNoted ==
    annotates = 0 =>
        /\ Working => \A c \in mem.notes :
             note[<<mem.tip, c>>] \in {mem.path[c], mem.oldnote[c]}
        /\ Unfinished => \A c \in journal.notes :
             note[<<journal.tip, c>>] \in {journal.path[c], journal.oldnote[c]}

-----------------------------------------------------------------------------
(* The notes *)

UndoneNotes ==
    /\ pc = "undonotes" => \A c \in journal.notes \ todo :
         note[<<journal.tip, c>>] = journal.oldnote[c]
    /\ Undoing \/ (pc = "drop" /\ Unfinished) => \A c \in journal.notes :
         note[<<journal.tip, c>>] = journal.oldnote[c]

WrittenNotes ==
    /\ Working => \A c \in Commit :
         mem.path[c] # Absent => c \in mem.notes \/ note[<<mem.tip, c>>] = mem.path[c]
    /\ pc = "marknote" => note[<<mem.tip, cur>>] = mem.path[cur]
    /\ pc \in {"notes", "marknote"} => \A c \in mem.notes \ todo :
         note[<<mem.tip, c>>] = mem.path[c]
    /\ pc = "complete" => \A c \in mem.notes : note[<<mem.tip, c>>] = mem.path[c]

NotesInv == UndoneNotes /\ WrittenNotes

-----------------------------------------------------------------------------
(* Payloads *)

\* The parts of a payload that are fixed when it is planned.
SameButFor(m, r) ==
    /\ r.tip = m.tip /\ r.path = m.path /\ r.new = m.new
    /\ r.notes = m.notes /\ r.oldnote = m.oldnote

\* The types of the parts of a payload.
LEMMA PayloadParts ==
    ASSUME NEW m \in Payload
    PROVE  /\ m # None
           /\ m.phase \in {"prepared", "publishing", "notes", "complete", "failed"}
           /\ m.tip \in Tip /\ m.tip \in Nat
           /\ m.path \in [Commit -> MaybeDest] /\ m.oldnote \in [Commit -> MaybeDest]
           /\ m.files \subseteq Dest /\ m.backed \subseteq Dest
           /\ m.published \subseteq Dest
           /\ m.old \in [Dest -> MaybeContent] /\ m.new \in [Dest -> MaybeContent]
           /\ m.notes \subseteq Commit
<1>1. m # None BY ExportAssumption
<1> QED BY <1>1 DEF Payload, Tip

\* A payload given another phase.
LEMMA Rephased ==
    ASSUME NEW m \in Payload,
           NEW p \in {"prepared", "publishing", "notes", "complete", "failed"},
           NEW r, r = [m EXCEPT !.phase = p]
    PROVE  /\ r \in Payload /\ r # None /\ r.phase = p /\ SameButFor(m, r)
           /\ r.files = m.files /\ r.old = m.old
           /\ r.backed = m.backed /\ r.published = m.published
<1>1. r \in Payload BY DEF Payload
<1> QED BY <1>1, PayloadParts DEF Payload, SameButFor

\* What StageFile does to a payload m.
Staged(m, d, v, r) ==
    /\ r.phase = m.phase /\ r.published = m.published
    /\ r.files = m.files \cup {d}
    /\ \A e \in Dest : r.old[e] = IF e = d THEN v ELSE m.old[e]
    /\ r.backed = IF v = Absent THEN m.backed ELSE m.backed \cup {d}

LEMMA OneStaged ==
    ASSUME NEW m \in Payload, NEW d \in Dest, NEW v \in MaybeContent,
           NEW r, r = [m EXCEPT !.files = @ \cup {d}, !.old[d] = v,
                                !.backed = IF v = Absent THEN @ ELSE @ \cup {d}]
    PROVE  r \in Payload /\ r # None /\ SameButFor(m, r) /\ Staged(m, d, v, r)
<1>1. r.files = m.files \cup {d} /\ r.old = [m.old EXCEPT ![d] = v]
      /\ r.backed = IF v = Absent THEN m.backed ELSE m.backed \cup {d}
  BY DEF Payload
<1>2. r.phase = m.phase /\ SameButFor(m, r) /\ r.published = m.published
  BY DEF Payload, SameButFor
<1>3. [m.old EXCEPT ![d] = v] \in [Dest -> MaybeContent] BY PayloadParts
<1>4. r \in Payload BY <1>3 DEF Payload
<1>5. \A e \in Dest : r.old[e] = IF e = d THEN v ELSE m.old[e]
  BY <1>1, PayloadParts
<1> QED BY <1>1, <1>2, <1>4, <1>5, PayloadParts DEF Staged

\* A payload after Replace.
LEMMA OnePublished ==
    ASSUME NEW m \in Payload, NEW d \in Dest,
           NEW r, r = [m EXCEPT !.published = @ \cup {d}]
    PROVE  /\ r \in Payload /\ r # None /\ r.phase = m.phase /\ SameButFor(m, r)
           /\ r.files = m.files /\ r.old = m.old /\ r.backed = m.backed
           /\ r.published = m.published \cup {d}
<1>1. r \in Payload BY DEF Payload
<1> QED BY <1>1, PayloadParts DEF Payload, SameButFor

\* The new files of a payload r are the patches of the series where p puts them.
Realizes(p, r) ==
    /\ \A c \in Series(text) : r.new[p[c]] = text[c]
    /\ \A d \in Dest : r.new[d] # Absent => \E c \in Series(text) : p[c] = d

\* The payload a plan starts with.
LEMMA PlannedPayload ==
    ASSUME TypeOK, NEW p \in Plans, NEW r, r = Planned(p)
    PROVE  /\ r \in Payload /\ r # None /\ r.phase = "prepared" /\ r.tip = commits
           /\ r.path = p /\ r.files = {} /\ r.old = [d \in Dest |-> Absent]
           /\ r.backed = {} /\ r.published = {}
           /\ r.notes = {c \in Series(text) : ~Explicit(c)}
           /\ r.oldnote = [c \in Commit |-> NoteOf(c)]
           /\ Realizes(p, r)
<1> DEFINE new == [d \in Dest |-> IF \E c \in Series(text) : p[c] = d
                                 THEN text[CHOOSE c \in Series(text) : p[c] = d]
                                 ELSE Absent]
<1>1. p \in [Commit -> MaybeDest] BY DEF Plans
<1>2. ASSUME NEW c \in Series(text)
      PROVE  /\ p[c] \in Dest /\ new[p[c]] = text[c]
  <2>1. p[c] \in Dest BY <1>1 DEF Plans, Series, MaybeDest
  <2>2. \A e \in Series(text) : p[e] = p[c] => e = c BY DEF Plans
  <2>3. (CHOOSE e \in Series(text) : p[e] = p[c]) = c BY <2>2
  <2> QED BY <2>1, <2>3
<1>3. new \in [Dest -> MaybeContent]
  BY DEF TypeOK, Series, MaybeContent
<1>4. \A d \in Dest : new[d] # Absent => \E c \in Series(text) : p[c] = d OBVIOUS
<1>5. {c \in Series(text) : ~Explicit(c)} \subseteq Commit BY DEF Series
<1>6. [c \in Commit |-> NoteOf(c)] \in [Commit -> MaybeDest] BY DEF TypeOK, NoteOf
<1>7. [d \in Dest |-> Absent] \in [Dest -> MaybeContent] BY DEF MaybeContent
<1>8. r.new = new BY DEF Planned
<1> HIDE DEF new
<1>9. r \in Payload
  <2>1. r = [phase |-> "prepared", tip |-> commits, path |-> p, files |-> {},
             old |-> [d \in Dest |-> Absent], new |-> new,
             backed |-> {}, published |-> {},
             notes |-> {c \in Series(text) : ~Explicit(c)},
             oldnote |-> [c \in Commit |-> NoteOf(c)]]
    BY DEF Planned, new
  <2> QED BY <2>1, <1>1, <1>3, <1>5, <1>6, <1>7 DEF Payload, TypeOK
<1> QED BY <1>1, <1>2, <1>4, <1>8, <1>9, PayloadParts DEF Planned, Realizes

-----------------------------------------------------------------------------
(* Types *)

FileTypes ==
    /\ patch \in [Dest -> MaybeContent] /\ backup \in [Dest -> MaybeContent]
    /\ staged \subseteq Dest
    /\ note \in [Tip \X Commit -> MaybeDest]

DataTypes == recorded \in [Dest -> MaybeContent] /\ journal \in Payload \cup {None}

ControlTypes ==
    /\ pc \in Label /\ todo \subseteq Dest \cup Commit
    /\ cur \in Dest \cup Commit \cup {None}
    /\ mem \in Payload \cup {None} /\ restored \in BOOLEAN

CountTypes ==
    /\ text \in [Commit -> MaybeContent]
    /\ runs \in 0 .. MaxRuns /\ commits \in Tip /\ annotates \in 0 .. MaxAnnotates
    /\ crashes \in 0 .. MaxCrashes /\ faults \in 0 .. MaxFaults
    /\ edits \in 0 .. MaxEdits

\* TypeOK in parts, by who writes the variables.
LEMMA Types == TypeOK <=> FileTypes /\ DataTypes /\ ControlTypes /\ CountTypes
BY DEF TypeOK, FileTypes, DataTypes, ControlTypes, CountTypes

\* Return leaves the control variables well typed.
LEMMA Returned ==
    ASSUME NEW l \in Label, Return(l) PROVE ControlTypes'
BY DEF Return, ControlTypes

\* So does Goto.
LEMMA Went ==
    ASSUME ControlTypes, NEW l \in Label, NEW S \in SUBSET (Dest \cup Commit), Goto(l, S)
    PROVE  ControlTypes'
BY DEF Goto, ControlTypes

\* One file, backup or note overwritten.
LEMMA SomeWrite ==
    ASSUME FileTypes
    PROVE  /\ \A d \in Dest, v \in MaybeContent :
                 [patch EXCEPT ![d] = v] \in [Dest -> MaybeContent]
           /\ \A d \in Dest, v \in MaybeContent :
                 [backup EXCEPT ![d] = v] \in [Dest -> MaybeContent]
           /\ \A t \in Tip, c \in Commit, p \in MaybeDest :
                 [note EXCEPT ![<<t, c>>] = p] \in [Tip \X Commit -> MaybeDest]
BY DEF FileTypes

\* Each step keeps the types; the labels of Phases say which payloads exist.
LEMMA TypeStep ==
    ASSUME StructureInv, [Next]_vars PROVE TypeOK'
<1> USE ExportAssumption
<1>t. FileTypes /\ DataTypes /\ ControlTypes /\ CountTypes BY Types DEF StructureInv
<1>j. journal # None => journal \in Payload BY <1>t DEF DataTypes
<1>m. mem # None => mem \in Payload BY <1>t DEF ControlTypes
<1>b. CountTypes'
  <2>1. CASE UNCHANGED <<bounds, human>> BY <1>t, <2>1 DEF CountTypes, bounds, human
  <2>2. CASE Begin BY <1>t, <2>2 DEF CountTypes, Begin, human
  <2>3. CASE Fail BY <1>t, <2>3 DEF CountTypes, Fail, human
  <2>4. CASE Crash BY <1>t, <2>4 DEF CountTypes, Crash, human
  <2>5. CASE Annotate BY <1>t, <2>5 DEF CountTypes, Annotate, bounds
  <2>6. CASE Rewrite BY <1>t, <2>6 DEF CountTypes, Rewrite, bounds, Tip
  <2>7. CASE Edit BY <1>t, <2>7 DEF CountTypes, Edit, bounds
  <2> QED BY <2>1, <2>2, <2>3, <2>4, <2>5, <2>6, <2>7
          DEF Next, Recovery, Publish, vars, Recover, UndoNote, UndoFile, Restore,
              CleanFile, Sweep, Drop, Refused, Plan, Recheck, StageFile, Prepare,
              Announce, CheckFile, Replace, Mark, WriteNote, MarkNote, Complete, Tidy,
              Finish, Failing, Quiet
<1>d. DataTypes'
  <2>1. CASE UNCHANGED database BY <1>t, <2>1 DEF DataTypes, database
  <2>2. CASE Drop \/ Finish BY <1>t, <2>2 DEF DataTypes, Drop, Finish
  <2>3. CASE Prepare BY <1>t, <2>3 DEF DataTypes, ControlTypes, Prepare
  <2>m. ASSUME pc \in {"announce", "mark", "marknote", "complete", "failing"}
        PROVE  mem \in Payload
    BY <1>m, <2>m DEF StructureInv, Phases, Working
  <2>4. CASE Mark BY <1>t, <2>m, <2>4 DEF DataTypes, Mark
  <2>5. CASE Announce BY <1>t, <2>m, <2>5, Rephased DEF DataTypes, Announce
  <2>6. CASE MarkNote BY <1>t, <2>m, <2>6, Rephased DEF DataTypes, MarkNote
  <2>7. CASE Complete
    BY <1>t, <2>m, <2>7, Rephased, PayloadParts DEF DataTypes, Complete
  <2>8. CASE Failing BY <1>t, <2>m, <2>8, Rephased DEF DataTypes, Failing
  <2> QED BY <2>1, <2>2, <2>3, <2>4, <2>5, <2>6, <2>7, <2>8
          DEF Next, Recovery, Publish, vars, Begin, Recover, UndoNote, UndoFile, Restore,
              CleanFile, Sweep, Refused, Plan, Recheck, StageFile, CheckFile, Replace,
              WriteNote, Tidy, Fail, Crash, Annotate, Rewrite, Edit, Quiet
<1>l. Label = {"idle", "refused", "plan", "planned", "failing", "tidy", "finish",
               "recover", "undonotes", "undofiles", "restore", "cleanfile", "sweep",
               "drop", "stage", "prepare", "announce", "publish",
               "replace", "mark", "notes", "marknote", "complete"}
  BY DEF Label, RecoveryLabels, PublishLabels
<1>x. {} \subseteq Dest \cup Commit /\ \A v : todo \ {v} \subseteq Dest \cup Commit
  BY <1>t DEF ControlTypes
<1>c. ControlTypes'
  <2>0. CASE UNCHANGED control BY <1>t, <2>0 DEF ControlTypes, control
  <2>1. CASE Begin BY <1>t, <1>l, <1>x, <2>1, Went DEF Begin
  <2>2. CASE Recover
    <3>1. CASE journal = None \/ journal.phase = "complete"
      BY <1>t, <1>l, <1>x, <2>2, <3>1, Went DEF Recover
    <3>2. CASE journal # None /\ journal.phase # "complete"
      <4>1. journal.notes \subseteq Dest \cup Commit BY <1>j, <3>2, PayloadParts
      <4> QED BY <1>t, <1>l, <2>2, <3>2, <4>1, Went DEF Recover
    <3> QED BY <3>1, <3>2
  <2>3. CASE UndoNote
    <3>1. journal.files \subseteq Dest \cup Commit
      BY <1>j, <2>3, PayloadParts DEF StructureInv, Phases, Unfinished, UndoNote
    <3> QED BY <1>t, <1>l, <1>x, <2>3, <3>1, Went, Returned DEF UndoNote
  <2>4. CASE UndoFile
    <3>1. CASE todo = {} /\ Goto("drop", {}) BY <1>t, <1>l, <1>x, <3>1, Went
    <3>2. CASE Return("refused") BY <1>l, <3>2, Returned
    <3>3. CASE \E d \in todo : /\ pc' \in {"restore", "cleanfile"} /\ cur' = d
                              /\ UNCHANGED <<todo, mem, restored>>
      BY <1>t, <1>l, <3>3 DEF ControlTypes
    <3> QED BY <2>4, <3>1, <3>2, <3>3 DEF UndoFile
  <2>5. CASE Restore
    <3>1. CASE Return("refused") BY <1>l, <3>1, Returned
    <3>2. CASE pc' = "cleanfile" /\ restored' = TRUE /\ UNCHANGED <<todo, cur, mem>>
      BY <1>t, <1>l, <3>2 DEF ControlTypes
    <3> QED BY <2>5, <3>1, <3>2 DEF Restore
  <2>6. CASE CleanFile BY <1>t, <1>l, <1>x, <2>6, Went DEF CleanFile
  <2>7. CASE Sweep BY <1>t, <1>l, <1>x, <2>7, Went DEF Sweep
  <2>8. CASE Drop \/ Refused BY <1>l, <2>8, Returned DEF Drop, Refused
  <2>9. CASE Plan
    <3>1. CASE Return("idle") BY <1>l, <3>1, Returned
    <3>2. CASE \E p \in Plans : /\ mem' = Planned(p) /\ pc' = "planned"
                               /\ UNCHANGED <<todo, cur, restored>>
      <4>1. PICK p \in Plans : /\ mem' = Planned(p) /\ pc' = "planned"
                              /\ UNCHANGED <<todo, cur, restored>>
        BY <3>2
      <4>2. mem' \in Payload BY <4>1, PlannedPayload DEF StructureInv
      <4> QED BY <1>t, <1>l, <4>1, <4>2 DEF ControlTypes
    <3> QED BY <2>9, <3>1, <3>2 DEF Plan
  <2>10. CASE Recheck
    <3>1. Target \subseteq Dest \cup Commit BY DEF Target
    <3> QED BY <1>t, <1>l, <2>10, <3>1, Went, Returned DEF Recheck
  <2>11. CASE StageFile
    <3>1. mem \in Payload /\ todo \subseteq Dest
      BY <1>m, <2>11 DEF StructureInv, Phases, Loops, Target, Working, StageFile
    <3>2. CASE Goto("prepare", {}) BY <1>t, <1>l, <1>x, <3>2, Went
    <3>3. CASE \E d \in todo :
             /\ mem' = [mem EXCEPT !.files = @ \cup {d}, !.old[d] = patch[d],
                          !.backed = IF patch[d] = Absent THEN @ ELSE @ \cup {d}]
             /\ todo' = todo \ {d}
             /\ UNCHANGED <<pc, cur, restored>>
      <4>1. PICK d \in todo :
               /\ mem' = [mem EXCEPT !.files = @ \cup {d}, !.old[d] = patch[d],
                            !.backed = IF patch[d] = Absent THEN @ ELSE @ \cup {d}]
               /\ todo' = todo \ {d}
               /\ UNCHANGED <<pc, cur, restored>>
        BY <3>3
      <4>2. patch[d] \in MaybeContent BY <1>t, <3>1 DEF FileTypes
      <4>3. mem' \in Payload BY <3>1, <4>1, <4>2, OneStaged
      <4> QED BY <1>t, <1>x, <4>1, <4>3 DEF ControlTypes
    <3> QED BY <2>11, <3>2, <3>3 DEF StageFile
  <2>12. CASE Prepare BY <1>t, <1>l, <1>x, <2>12, Went DEF Prepare
  <2>13. CASE Announce
    <3>1. mem \in Payload BY <1>m, <2>13 DEF StructureInv, Phases, Working, Announce
    <3>2. mem' \in Payload BY <2>13, <3>1, Rephased DEF Announce
    <3>3. mem.files \subseteq Dest BY <3>1, PayloadParts
    <3> QED BY <1>t, <1>l, <2>13, <3>2, <3>3 DEF Announce, ControlTypes
  <2>14. CASE CheckFile
    <3>0. mem \in Payload BY <1>m, <2>14 DEF StructureInv, Phases, Working, CheckFile
    <3>1. CASE Goto("notes", mem.notes)
      <4>1. mem.notes \subseteq Dest \cup Commit BY <3>0, PayloadParts
      <4> QED BY <1>t, <1>l, <3>1, <4>1, Went
    <3>2. CASE \E d \in todo : /\ pc' \in {"replace", "failing"} /\ cur' = d
                              /\ UNCHANGED <<todo, mem, restored>>
      BY <1>t, <1>l, <3>2 DEF ControlTypes
    <3> QED BY <2>14, <3>1, <3>2 DEF CheckFile
  <2>15. CASE Replace
    <3>1. mem \in Payload BY <1>m, <2>15 DEF StructureInv, Phases, Working, Replace
    <3>2. cur \in Dest
      BY <2>15, <3>1, PayloadParts DEF StructureInv, Loops, Replace
    <3>3. mem' \in Payload BY <2>15, <3>1, <3>2, OnePublished DEF Replace
    <3> QED BY <1>t, <1>l, <2>15, <3>3 DEF Replace, ControlTypes
  <2>16. CASE Mark BY <1>t, <1>l, <1>x, <2>16, Went DEF Mark
  <2>17. CASE WriteNote
    <3>1. CASE Goto("complete", {}) BY <1>t, <1>l, <1>x, <3>1, Went
    <3>2. CASE \E c \in todo : /\ pc' = "marknote" /\ cur' = c
                              /\ UNCHANGED <<todo, mem, restored>>
      BY <1>t, <1>l, <3>2 DEF ControlTypes
    <3> QED BY <2>17, <3>1, <3>2 DEF WriteNote
  <2>18. CASE MarkNote \/ Complete
    <3>1. mem \in Payload
      BY <1>m, <2>18 DEF StructureInv, Phases, Working, MarkNote, Complete
    <3>2. mem' \in Payload BY <2>18, <3>1, Rephased DEF MarkNote, Complete
    <3> QED BY <1>t, <1>l, <1>x, <2>18, <3>2 DEF MarkNote, Complete, ControlTypes
  <2>19. CASE Tidy BY <1>t, <1>l, <1>x, <2>19, Went DEF Tidy
  <2>20. CASE Finish \/ Failing \/ Crash
    BY <1>l, <2>20, Returned DEF Finish, Failing, Crash
  <2>21. CASE Fail BY <1>t, <1>l, <1>x, <2>21, Went DEF Fail
  <2> QED
    BY <2>0, <2>1, <2>2, <2>3, <2>4, <2>5, <2>6, <2>7, <2>8, <2>9, <2>10, <2>11, <2>12,
       <2>13, <2>14, <2>15, <2>16, <2>17, <2>18, <2>19, <2>20, <2>21
          DEF Next, Recovery, Publish, vars, Annotate, Rewrite, Edit, Quiet
<1>f. FileTypes'
  <2>0. CASE UNCHANGED disk BY <1>t, <2>0 DEF FileTypes, disk
  <2>s. \A v : staged \ {v} \subseteq Dest BY <1>t DEF FileTypes
  <2>n. commits \in Tip BY <1>t DEF CountTypes
  <2>b. ASSUME NEW S PROVE
          [d \in Dest |-> IF d \in S THEN Absent ELSE backup[d]] \in [Dest -> MaybeContent]
    BY <1>t DEF FileTypes, MaybeContent
  <2>1. CASE Annotate
    <3>1. PICK c \in Series(text), d \in Dest : note' = [note EXCEPT ![<<commits, c>>] = d]
      BY <2>1 DEF Annotate
    <3>2. note' \in [Tip \X Commit -> MaybeDest]
      BY <1>t, <2>n, <3>1, SomeWrite DEF Series, MaybeDest
    <3> QED BY <1>t, <2>1, <3>2 DEF Annotate, FileTypes
  <2>2. CASE UndoNote
    <3>0. journal \in Payload /\ todo \subseteq journal.notes
      BY <1>j, <2>2 DEF StructureInv, Phases, Loops, Unfinished, UndoNote
    <3>1. CASE \E c \in todo :
                 note' = [note EXCEPT ![<<journal.tip, c>>] = journal.oldnote[c]]
      <4>1. PICK c \in todo :
                 note' = [note EXCEPT ![<<journal.tip, c>>] = journal.oldnote[c]]
        BY <3>1
      <4>2. c \in Commit /\ journal.tip \in Tip /\ journal.oldnote[c] \in MaybeDest
        BY <3>0, PayloadParts
      <4>3. note' \in [Tip \X Commit -> MaybeDest] BY <1>t, <4>1, <4>2, SomeWrite
      <4> QED BY <1>t, <2>2, <4>3 DEF UndoNote, FileTypes
    <3>2. CASE note' = note BY <1>t, <2>2, <3>2 DEF UndoNote, FileTypes
    <3> QED BY <2>2, <3>1, <3>2 DEF UndoNote
  <2>3. CASE Restore
    <3>0. cur \in Dest
      BY <1>j, <2>3, PayloadParts
         DEF StructureInv, Phases, Loops, Undoing, Unfinished, Restore
    <3>1. backup[cur] \in MaybeContent /\ Absent \in MaybeContent
      BY <1>t, <3>0 DEF FileTypes, MaybeContent
    <3>2. patch' \in [Dest -> MaybeContent]
      BY <1>t, <2>3, <3>0, <3>1, SomeWrite DEF Restore, FileTypes
    <3>3. backup' \in [Dest -> MaybeContent]
      BY <1>t, <2>3, <3>0, <3>1, SomeWrite DEF Restore, FileTypes
    <3> QED BY <1>t, <2>3, <3>2, <3>3 DEF Restore, FileTypes
  <2>4. CASE CleanFile
    <3>0. cur \in Dest
      BY <1>j, <2>4, PayloadParts
         DEF StructureInv, Phases, Loops, Undoing, Unfinished, CleanFile
    <3>1. backup' \in [Dest -> MaybeContent]
      BY <1>t, <2>4, <3>0, SomeWrite DEF CleanFile, MaybeContent
    <3> QED BY <1>t, <2>4, <2>s, <3>1 DEF CleanFile, FileTypes
  <2>5. CASE Sweep
    <3>1. backup' \in [Dest -> MaybeContent] BY <2>5, <2>b DEF Sweep
    <3> QED BY <1>t, <2>5, <3>1 DEF Sweep, FileTypes
  <2>6. CASE Plan
    <3>1. [d \in Dest |-> Absent] \in [Dest -> MaybeContent] BY DEF MaybeContent
    <3> QED BY <1>t, <2>6, <3>1 DEF Plan, FileTypes
  <2>7. CASE StageFile
    <3>1. todo \subseteq Dest
      BY <2>7 DEF StructureInv, Loops, Target, StageFile
    <3>2. CASE \E d \in todo : staged' = staged \cup {d}
                              /\ backup' = [backup EXCEPT ![d] = patch[d]]
      <4>1. PICK d \in todo : staged' = staged \cup {d}
                             /\ backup' = [backup EXCEPT ![d] = patch[d]]
        BY <3>2
      <4>2. patch[d] \in MaybeContent BY <1>t, <3>1 DEF FileTypes
      <4>3. backup' \in [Dest -> MaybeContent] BY <1>t, <3>1, <4>1, <4>2, SomeWrite
      <4> QED BY <1>t, <2>7, <3>1, <4>1, <4>3 DEF StageFile, FileTypes
    <3>3. CASE UNCHANGED <<staged, backup>>
      BY <1>t, <2>7, <3>3 DEF StageFile, FileTypes
    <3> QED BY <2>7, <3>2, <3>3 DEF StageFile
  <2>8. CASE Replace
    <3>1. mem \in Payload BY <1>m, <2>8 DEF StructureInv, Phases, Working, Replace
    <3>2. cur \in Dest /\ mem.new[cur] \in MaybeContent
      BY <2>8, <3>1, PayloadParts DEF StructureInv, Loops, Replace
    <3>3. patch' \in [Dest -> MaybeContent]
      BY <1>t, <2>8, <3>2, SomeWrite DEF Replace
    <3> QED BY <1>t, <2>8, <2>s, <3>3 DEF Replace, FileTypes
  <2>9. CASE WriteNote
    <3>0. mem \in Payload BY <1>m, <2>9 DEF StructureInv, Phases, Working, WriteNote
    <3>1. CASE \E c \in todo : note' = [note EXCEPT ![<<mem.tip, c>>] = mem.path[c]]
      <4>1. PICK c \in todo : note' = [note EXCEPT ![<<mem.tip, c>>] = mem.path[c]]
        BY <3>1
      <4>2. c \in Commit
        BY <2>9, <3>0, PayloadParts DEF StructureInv, Loops, WriteNote
      <4>3. mem.tip \in Tip /\ mem.path[c] \in MaybeDest BY <3>0, <4>2, PayloadParts
      <4>4. note' \in [Tip \X Commit -> MaybeDest]
        BY <1>t, <4>1, <4>2, <4>3, SomeWrite
      <4> QED BY <1>t, <2>9, <4>4 DEF WriteNote, FileTypes
    <3>2. CASE note' = note BY <1>t, <2>9, <3>2 DEF WriteNote, FileTypes
    <3> QED BY <2>9, <3>1, <3>2 DEF WriteNote
  <2>10. CASE Tidy
    <3>1. backup' \in [Dest -> MaybeContent] BY <2>10, <2>b DEF Tidy
    <3> QED BY <1>t, <2>10, <3>1 DEF Tidy, FileTypes
  <2>11. CASE Rewrite
    <3>1. PICK at \in [Series(text') -> MaybeDest] :
             note' = [te \in Tip \X Commit |->
                        IF te[1] = commits' /\ te[2] \in Series(text')
                        THEN at[te[2]] ELSE note[te]]
      BY <2>11 DEF Rewrite
    <3>2. note' \in [Tip \X Commit -> MaybeDest] BY <1>t, <3>1 DEF FileTypes
    <3> QED BY <1>t, <2>11, <3>2 DEF Rewrite, FileTypes
  <2>12. CASE Edit
    <3>1. patch' \in [Dest -> MaybeContent] BY <1>t, <2>12, SomeWrite DEF Edit
    <3> QED BY <1>t, <2>12, <3>1 DEF Edit, FileTypes
  <2> QED
    BY <2>0, <2>1, <2>2, <2>3, <2>4, <2>5, <2>6, <2>7, <2>8, <2>9, <2>10, <2>11, <2>12
          DEF Next, Recovery, Publish, vars, Begin, Recover, UndoFile, Drop, Refused,
              Recheck, Prepare, Announce, CheckFile, Mark, MarkNote, Complete, Finish,
              Fail, Failing, Crash, Quiet
<1> QED
  BY <1>b, <1>d, <1>c, <1>f DEF TypeOK, FileTypes, DataTypes, ControlTypes, CountTypes

-----------------------------------------------------------------------------
(* The structure of the operation *)

\* Each step keeps the payloads consistent.
LEMMA PayloadsStep ==
    ASSUME StructureInv, [Next]_vars PROVE Payloads'
<1>t. TypeOK /\ Payloads /\ Phases /\ Loops BY DEF StructureInv
<1>j. journal # None => journal \in Payload BY <1>t DEF TypeOK
<1>m. mem # None => mem \in Payload BY <1>t DEF TypeOK
<1>c. commits \in Nat /\ commits' \in Nat /\ commits <= commits'
  <2>1. commits \in Nat BY <1>t DEF TypeOK, Tip
  <2>2. commits' = commits \/ commits' = commits + 1
     BY
        DEF Next, Recovery, Publish, human, vars, Begin, Recover, UndoNote, UndoFile,
            Restore, CleanFile, Sweep, Drop, Refused, Plan, Recheck, StageFile, Prepare,
            Announce, CheckFile, Replace, Mark, WriteNote, MarkNote, Complete, Tidy,
            Finish, Fail, Failing, Crash, Annotate, Rewrite, Edit, Quiet
  <2> QED BY <2>1, <2>2
<1>s. ASSUME mem' \in {mem, None}, journal' \in {journal, mem, None} PROVE Payloads'
  BY <1>t, <1>j, <1>m, <1>c, <1>s, PayloadParts DEF Payloads, Consistent
<1>w. ASSUME pc \in {"stage", "prepare", "announce", "replace", "marknote", "complete", "failing"}
      PROVE  mem \in Payload /\ mem # None /\ Consistent(mem)
  BY <1>t, <1>m, <1>w, PayloadParts DEF Phases, Working, Payloads
<1>1. CASE Plan
  <2>1. CASE UNCHANGED mem \/ mem' = None BY <1>s, <1>1, <2>1 DEF Plan, database
  <2>2. CASE \E p \in Plans : mem' = Planned(p)
    <3>1. PICK p \in Plans : mem' = Planned(p) BY <2>2
    <3>2. mem'.files = {} /\ mem'.backed = {} /\ mem'.published = {} /\ mem'.tip = commits
      BY <1>t, <3>1, PlannedPayload
    <3>3. Consistent(mem)' BY <1>c, <3>2 DEF Consistent
    <3>4. journal = None /\ journal' = journal
      BY <1>1, <1>t DEF Plan, Phases, database
    <3> QED BY <3>3, <3>4 DEF Payloads
  <2> QED BY <1>1, <2>1, <2>2 DEF Plan, Return
<1>2. CASE StageFile
  <2>1. CASE todo = {} /\ Goto("prepare", {})
    BY <1>s, <1>2, <2>1 DEF StageFile, Goto, database
  <2>2. CASE \E d \in todo :
             mem' = [mem EXCEPT !.files = @ \cup {d}, !.old[d] = patch[d],
                          !.backed = IF patch[d] = Absent THEN @ ELSE @ \cup {d}]
    <3>1. PICK d \in todo :
             mem' = [mem EXCEPT !.files = @ \cup {d}, !.old[d] = patch[d],
                          !.backed = IF patch[d] = Absent THEN @ ELSE @ \cup {d}]
      BY <2>2
    <3>2. mem \in Payload /\ Consistent(mem) BY <1>2, <1>w DEF StageFile
    <3>3. d \in Dest /\ mem.new[d] # Absent /\ patch[d] \in MaybeContent /\ d \notin mem.files
      BY <1>2, <1>t DEF StageFile, Loops, Target, TypeOK
    <3>4. SameButFor(mem, mem') /\ Staged(mem, d, patch[d], mem')
      BY <3>1, <3>2, <3>3, OneStaged
    <3>5. mem.old \in [Dest -> MaybeContent] /\ mem.files \subseteq Dest
      BY <3>2, PayloadParts
    <3>7. /\ mem'.files \subseteq {e \in Dest : mem'.new[e] # Absent}
          /\ mem'.published \subseteq mem'.files
          /\ mem'.tip <= commits'
      BY <1>2, <3>2, <3>3, <3>4 DEF Consistent, SameButFor, Staged, StageFile, human
    <3>8. mem'.backed = {e \in mem'.files : mem'.old[e] # Absent}
      BY <3>2, <3>3, <3>4, <3>5 DEF Consistent, Staged
    <3>9. Consistent(mem)' BY <3>7, <3>8 DEF Consistent
    <3> QED BY <1>2, <1>t, <3>9 DEF Payloads, StageFile, Phases, database
  <2> QED BY <1>2, <2>1, <2>2 DEF StageFile
<1>3. CASE Announce \/ MarkNote \/ Complete
  <2>1. mem \in Payload /\ Consistent(mem)
    BY <1>3, <1>w DEF Announce, MarkNote, Complete
  <2>2. journal' = mem'
    BY <1>3 DEF Announce, MarkNote, Complete
  <2>3. /\ SameButFor(mem, mem') /\ mem'.files = mem.files /\ mem'.old = mem.old
        /\ mem'.backed = mem.backed /\ mem'.published = mem.published
    BY <1>3, <2>1, Rephased DEF Announce, MarkNote, Complete
  <2>4. Consistent(mem)'
    BY <1>c, <1>3, <2>1, <2>3
       DEF Consistent, SameButFor, Announce, MarkNote, Complete, human
  <2> QED BY <2>2, <2>4 DEF Payloads
<1>4. CASE Replace
  <2>1. mem \in Payload /\ Consistent(mem) BY <1>4, <1>w DEF Replace
  <2>2. cur \in mem.files /\ cur \in Dest
    BY <1>4, <1>t, <2>1, PayloadParts DEF Replace, Loops
  <2>3. /\ SameButFor(mem, mem') /\ mem'.files = mem.files /\ mem'.old = mem.old
        /\ mem'.backed = mem.backed /\ mem'.published = mem.published \cup {cur}
    BY <1>4, <2>1, <2>2, OnePublished DEF Replace
  <2>4. Consistent(mem)'
    BY <1>4, <2>1, <2>2, <2>3 DEF Consistent, SameButFor, Replace, human
  <2> QED BY <1>4, <1>t, <2>4 DEF Payloads, Consistent, Replace, database, human
<1>5. CASE Failing
  <2>1. mem \in Payload /\ Consistent(mem) BY <1>5, <1>w DEF Failing
  <2>2. /\ SameButFor(mem, journal') /\ journal'.files = mem.files /\ journal'.old = mem.old
        /\ journal'.backed = mem.backed /\ journal'.published = mem.published
    BY <1>5, <2>1, Rephased DEF Failing
  <2>3. mem' = None BY <1>5 DEF Failing, Return
  <2>4. Consistent(journal)'
    BY <1>5, <2>1, <2>2 DEF Consistent, SameButFor, Failing, human
  <2> QED BY <2>3, <2>4 DEF Payloads
<1>6. CASE ~(Plan \/ StageFile \/ Announce \/ MarkNote \/ Complete \/ Replace \/ Failing)
  <2>1. mem' \in {mem, None} /\ journal' \in {journal, mem, None}
    BY <1>6 DEF Next, Recovery, Publish, vars, control, database, Goto, Return,
       Begin, Recover, UndoNote, UndoFile, Restore, CleanFile, Sweep, Drop, Refused,
       Recheck, Prepare, CheckFile, Mark, WriteNote, Tidy, Finish, Fail, Crash,
       Annotate, Rewrite, Edit, Quiet
  <2> QED BY <1>s, <2>1
<1> QED BY <1>1, <1>2, <1>3, <1>4, <1>5, <1>6

\* Each step keeps the correspondence of label, memory and journal.
LEMMA PhasesStep ==
    ASSUME StructureInv, [Next]_vars PROVE Phases'
<1> USE DEF Phases, Working, Journalled, Undoing, Unfinished, SameWork
<1>t. TypeOK /\ Payloads /\ Phases /\ Loops BY DEF StructureInv
<1>m. mem # None => mem \in Payload BY <1>t DEF TypeOK
<1>1. CASE Begin BY <1>t, <1>1 DEF Begin, Goto, database
<1>2. CASE Recover BY <1>t, <1>2 DEF Recover, Goto, database
<1>3. CASE UndoNote
  <2>1. CASE Goto("undofiles", journal.files)
    BY <1>t, <1>3, <2>1 DEF UndoNote, Goto, database
  <2>2. CASE \E c \in todo : Goto("undonotes", todo \ {c})
    BY <1>t, <1>3, <2>2 DEF UndoNote, Goto, database
  <2>3. CASE Return("refused") BY <1>t, <1>3, <2>3 DEF UndoNote, Return, database
  <2> QED BY <1>3, <2>1, <2>2, <2>3 DEF UndoNote
<1>4. CASE UndoFile BY <1>t, <1>4 DEF UndoFile, Goto, Return, database
<1>5. CASE Restore BY <1>t, <1>5 DEF Restore, Return, database
<1>6. CASE CleanFile BY <1>t, <1>6 DEF CleanFile, Goto, database
<1>7. CASE Sweep BY <1>t, <1>7 DEF Sweep, Goto, database
<1>8. CASE Drop BY <1>t, <1>8 DEF Drop, Return
<1>9. CASE Refused BY <1>t, <1>9 DEF Refused, Return, database
<1>10. CASE Plan
  <2>1. CASE Return("idle") BY <1>t, <1>10, <2>1 DEF Plan, Return, database
  <2>2. CASE \E p \in Plans : /\ mem' = Planned(p) /\ pc' = "planned"
                             /\ UNCHANGED <<todo, cur, restored>>
    <3>1. mem' # None /\ mem'.phase = "prepared" BY <1>t, <2>2, PlannedPayload
    <3> QED BY <1>t, <1>10, <2>2, <3>1 DEF Plan, database
  <2> QED BY <1>10, <2>1, <2>2 DEF Plan
<1>11. CASE Recheck BY <1>t, <1>11 DEF Recheck, Goto, Return, database
<1>12. CASE StageFile
  <2>1. CASE Goto("prepare", {}) BY <1>t, <1>12, <2>1 DEF StageFile, Goto, database
  <2>2. CASE \E d \in todo :
             /\ mem' = [mem EXCEPT !.files = @ \cup {d}, !.old[d] = patch[d],
                          !.backed = IF patch[d] = Absent THEN @ ELSE @ \cup {d}]
             /\ UNCHANGED <<pc, cur, restored>>
    <3>1. PICK d \in todo :
             /\ mem' = [mem EXCEPT !.files = @ \cup {d}, !.old[d] = patch[d],
                          !.backed = IF patch[d] = Absent THEN @ ELSE @ \cup {d}]
             /\ UNCHANGED <<pc, cur, restored>>
      BY <2>2
    <3>2. mem \in Payload /\ d \in Dest /\ patch[d] \in MaybeContent
      BY <1>t, <1>m, <1>12 DEF StageFile, Loops, Target, TypeOK
    <3>3. mem' # None /\ Staged(mem, d, patch[d], mem') BY <3>1, <3>2, OneStaged
    <3> QED BY <1>t, <1>12, <3>1, <3>3 DEF StageFile, Staged, database
  <2> QED BY <1>12, <2>1, <2>2 DEF StageFile
<1>13. CASE Prepare BY <1>t, <1>13 DEF Prepare, Goto
<1>14. CASE Announce BY <1>t, <1>m, <1>14, Rephased DEF Announce, SameButFor
<1>15. CASE CheckFile BY <1>t, <1>15 DEF CheckFile, Goto, database
<1>16. CASE Replace
  <2>1. mem \in Payload /\ cur \in Dest
    BY <1>t, <1>m, <1>16, PayloadParts DEF Replace, Loops
  <2>2. /\ mem' # None /\ mem'.phase = mem.phase /\ SameButFor(mem, mem')
        /\ mem'.files = mem.files /\ mem'.old = mem.old /\ mem'.backed = mem.backed
        /\ mem'.published = mem.published \cup {cur}
    BY <1>16, <2>1, OnePublished DEF Replace
  <2> QED BY <1>t, <1>16, <2>2 DEF Replace, SameButFor, database
<1>17. CASE Mark BY <1>t, <1>17 DEF Mark, Goto
<1>18. CASE WriteNote
  <2>1. CASE Goto("complete", {}) BY <1>t, <1>18, <2>1 DEF WriteNote, Goto, database
  <2>2. CASE pc' = "marknote" /\ UNCHANGED <<mem, restored>>
    BY <1>t, <1>18, <2>2 DEF WriteNote, database
  <2> QED BY <1>18, <2>1, <2>2 DEF WriteNote
<1>19. CASE MarkNote BY <1>t, <1>m, <1>19, Rephased DEF MarkNote, SameButFor
<1>20. CASE Complete BY <1>t, <1>m, <1>20, Rephased DEF Complete, SameButFor
<1>21. CASE Tidy BY <1>t, <1>21 DEF Tidy, Goto, database
<1>22. CASE Finish BY <1>t, <1>22 DEF Finish, Return
<1>23. CASE Fail
  <2>1. pc \in {"stage", "prepare", "announce", "publish", "replace", "mark",
               "notes", "marknote", "complete"}
    BY <1>t, <1>23 DEF Fail, PublishLabels
  <2> QED BY <1>t, <1>23, <2>1 DEF Fail, Goto, database
<1>24. CASE Failing BY <1>t, <1>m, <1>24, Rephased DEF Failing, SameButFor, Return
<1>25. CASE Crash BY <1>t, <1>25 DEF Crash, Return, database
<1>26. CASE Annotate BY <1>t, <1>26 DEF Annotate, database, control
<1>27. CASE Rewrite BY <1>t, <1>27 DEF Rewrite, database, control
<1>28. CASE Edit BY <1>t, <1>28 DEF Edit, database, control
<1>29. CASE Quiet BY <1>t, <1>29 DEF Quiet, vars, database, control
<1>30. CASE UNCHANGED vars BY <1>t, <1>30 DEF vars, database, control
<1> QED
  BY <1>1, <1>2, <1>3, <1>4, <1>5, <1>6, <1>7, <1>8, <1>9, <1>10, <1>11, <1>12, <1>13,
     <1>14, <1>15, <1>16, <1>17, <1>18, <1>19, <1>20, <1>21, <1>22, <1>23, <1>24, <1>25,
     <1>26, <1>27, <1>28, <1>29, <1>30
     DEF Next, Recovery, Publish

\* Each step keeps track of what its loop has left to do.
LEMMA LoopsStep ==
    ASSUME StructureInv, [Next]_vars PROVE Loops'
<1> USE DEF Loops, Working, Journalled, Undoing
<1>t. TypeOK /\ Payloads /\ Phases /\ Loops BY DEF StructureInv
<1>m. mem # None => mem \in Payload BY <1>t DEF TypeOK
<1>1. CASE Begin BY <1>t, <1>1 DEF Begin, Goto, database, Target
<1>2. CASE Recover BY <1>t, <1>2 DEF Recover, Goto, database, Target
<1>3. CASE UndoNote BY <1>t, <1>3 DEF UndoNote, Goto, Return, database, Target
<1>4. CASE UndoFile BY <1>t, <1>4 DEF UndoFile, Goto, Return, database, Target
<1>5. CASE Restore BY <1>t, <1>5 DEF Restore, Return, database, Target
<1>6. CASE CleanFile BY <1>t, <1>6 DEF CleanFile, Goto, database, Target
<1>7. CASE Sweep BY <1>t, <1>7 DEF Sweep, Goto, database, Target
<1>8. CASE Drop BY <1>t, <1>8 DEF Drop, Return, Target
<1>9. CASE Refused BY <1>t, <1>9 DEF Refused, Return, database, Target
<1>10. CASE Plan
  BY <1>t, <1>m, <1>10, PlannedPayload
     DEF Plan, SameButFor, Return, Phases, Target, database
<1>11. CASE Recheck BY <1>t, <1>11 DEF Recheck, Goto, Return, database, Target
<1>12. CASE StageFile
  <2>1. CASE todo = {} /\ Goto("prepare", {})
    BY <1>t, <1>12, <2>1 DEF StageFile, Goto, Target
  <2>2. CASE \E d \in todo :
             /\ mem' = [mem EXCEPT !.files = @ \cup {d}, !.old[d] = patch[d],
                          !.backed = IF patch[d] = Absent THEN @ ELSE @ \cup {d}]
             /\ todo' = todo \ {d}
             /\ UNCHANGED <<pc, cur, restored>>
    <3>1. PICK d \in todo :
             /\ mem' = [mem EXCEPT !.files = @ \cup {d}, !.old[d] = patch[d],
                          !.backed = IF patch[d] = Absent THEN @ ELSE @ \cup {d}]
             /\ todo' = todo \ {d}
             /\ UNCHANGED <<pc, cur, restored>>
      BY <2>2
    <3>2. mem \in Payload /\ d \in Dest /\ patch[d] \in MaybeContent
      BY <1>t, <1>m, <1>12 DEF StageFile, Target, TypeOK, Phases
    <3>3. SameButFor(mem, mem') /\ Staged(mem, d, patch[d], mem')
      BY <3>1, <3>2, OneStaged
    <3>4. mem'.published = {} /\ mem'.new = mem.new /\ mem'.files = mem.files \cup {d}
          /\ todo \subseteq Target /\ mem.files = Target \ todo
      BY <1>t, <1>12, <3>3 DEF StageFile, Staged, SameButFor
    <3>5. Target' = Target BY <3>4 DEF Target
    <3>6. todo' \subseteq Target' /\ mem'.files = Target' \ todo' BY <3>1, <3>4, <3>5
    <3>7. pc' = "stage" BY <1>12, <3>1 DEF StageFile
    <3> QED BY <3>4, <3>6, <3>7
  <2> QED BY <1>12, <2>1, <2>2 DEF StageFile
<1>13. CASE Prepare BY <1>t, <1>13 DEF Prepare, Goto, Target
<1>14. CASE Announce
  BY <1>t, <1>m, <1>14, Rephased DEF Announce, SameButFor, Phases, Target
<1>15. CASE CheckFile
  <2>1. journal # None BY <1>t, <1>15 DEF CheckFile, Phases, SameWork
  <2> QED BY <1>t, <1>15, <2>1 DEF CheckFile, Goto, database, Target
<1>16. CASE Replace
  <2>1. mem \in Payload /\ cur \in Dest
    BY <1>t, <1>m, <1>16, PayloadParts DEF Replace, Phases
  <2>2. /\ SameButFor(mem, mem') /\ mem'.files = mem.files
        /\ mem'.published = mem.published \cup {cur}
    BY <1>16, <2>1, OnePublished DEF Replace
  <2> QED BY <1>t, <1>16, <2>2 DEF Replace, SameButFor, Target
<1>17. CASE Mark BY <1>t, <1>17 DEF Mark, Goto, Target
<1>18. CASE WriteNote BY <1>t, <1>18 DEF WriteNote, Goto, database, Target
<1>19. CASE MarkNote
  BY <1>t, <1>m, <1>19, Rephased DEF MarkNote, SameButFor, Phases, Target
<1>20. CASE Complete
  BY <1>t, <1>m, <1>20, Rephased DEF Complete, SameButFor, Phases, Target
<1>21. CASE Tidy BY <1>t, <1>21 DEF Tidy, Goto, database, Target
<1>22. CASE Finish BY <1>t, <1>22 DEF Finish, Return, Target
<1>23. CASE Fail
  <2>1. journal = None => mem.published = {}
    BY <1>t, <1>23 DEF Fail, PublishLabels, Phases, SameWork
  <2> QED BY <1>23, <2>1 DEF Fail, Goto, database
<1>24. CASE Failing
  BY <1>t, <1>m, <1>24, Rephased DEF Failing, SameButFor, Return, Phases, Target
<1>25. CASE Crash BY <1>t, <1>25 DEF Crash, Return, database, Target
<1>26. CASE Annotate BY <1>t, <1>26 DEF Annotate, database, control, Target
<1>27. CASE Rewrite BY <1>t, <1>27 DEF Rewrite, database, control, Target
<1>28. CASE Edit BY <1>t, <1>28 DEF Edit, database, control, Target
<1>29. CASE Quiet BY <1>t, <1>29 DEF Quiet, vars, Target, database, control
<1>30. CASE UNCHANGED vars BY <1>t, <1>30 DEF vars, database, control, Target
<1> QED
  BY <1>1, <1>2, <1>3, <1>4, <1>5, <1>6, <1>7, <1>8, <1>9, <1>10, <1>11, <1>12, <1>13,
     <1>14, <1>15, <1>16, <1>17, <1>18, <1>19, <1>20, <1>21, <1>22, <1>23, <1>24, <1>25,
     <1>26, <1>27, <1>28, <1>29, <1>30
     DEF Next, Recovery, Publish

\* A workspace that was just opened has the structure.
LEMMA StructureInit == ASSUME Init PROVE StructureInv
<1>0. pc = "idle" /\ mem = None /\ journal = None /\ todo = {} /\ cur = None
      /\ restored = FALSE
  BY DEF Init
<1>1. PICK at \in [Commit -> MaybeDest] :
         /\ note = [te \in Tip \X Commit |-> IF te[1] = 0 THEN at[te[2]] ELSE Absent]
         /\ patch = [d \in Dest |->
               IF \E c \in Commit : at[c] = d
               THEN text[CHOOSE c \in Commit : at[c] = d]
               ELSE Absent]
  BY DEF Init
<1>2. note \in [Tip \X Commit -> MaybeDest] BY <1>1 DEF MaybeDest
<1>3. text \in [Commit -> MaybeContent] BY DEF Init
<1>4. patch \in [Dest -> MaybeContent] BY <1>1, <1>3 DEF MaybeContent
<1>5. /\ backup \in [Dest -> MaybeContent] /\ recorded \in [Dest -> MaybeContent]
      /\ staged = {} /\ pc \in Label
  BY <1>0, <1>4 DEF Init, MaybeContent, Label
<1>8. runs = 0 /\ commits = 0 /\ annotates = 0 /\ crashes = 0 /\ faults = 0 /\ edits = 0
  BY DEF Init
<1>9. TypeOK
  <2>1. CountTypes BY <1>3, <1>8, ExportAssumption DEF CountTypes, Tip
  <2>2. FileTypes /\ DataTypes /\ ControlTypes
    BY <1>0, <1>2, <1>4, <1>5 DEF FileTypes, DataTypes, ControlTypes
  <2> QED BY <2>1, <2>2, Types
<1>6. Payloads /\ Phases BY <1>0 DEF Payloads, Phases, Working, Journalled, Undoing
<1>7. Loops BY <1>0 DEF Loops, Journalled, Undoing
<1> QED BY <1>9, <1>6, <1>7 DEF StructureInv

\* The structure is inductive on its own.
LEMMA StructureStep == ASSUME StructureInv, [Next]_vars PROVE StructureInv'
BY TypeStep, PayloadsStep, PhasesStep, LoopsStep DEF StructureInv

\* The operation keeps to its structure: what is on disk, in the journal and in
\* memory is well formed, and each step finds what the steps before it made,
\* whatever fails, dies or is edited.
THEOREM KeepsStructure == Spec => []StructureInv
<1>1. Init => StructureInv BY StructureInit
<1>2. StructureInv /\ [Next]_vars => StructureInv' BY StructureStep
<1> QED BY <1>1, <1>2, PTL DEF Spec

-----------------------------------------------------------------------------
\* What humans did is never undone.
LEMMA CountsGrow ==
    ASSUME TypeOK, [Next]_vars
    PROVE  /\ edits' = 0 => edits = 0 /\ ~Edit
           /\ annotates' = 0 => annotates = 0 /\ ~Annotate
           /\ edits > 0 => edits' > 0
           /\ annotates > 0 => annotates' > 0
<1>1. edits \in Nat /\ annotates \in Nat BY DEF TypeOK
<1>2. (edits' = edits /\ ~Edit) \/ edits' = edits + 1
   BY <1>1
      DEF Next, Recovery, Publish, human, vars, Begin, Recover, UndoNote, UndoFile,
          Restore, CleanFile, Sweep, Drop, Refused, Plan, Recheck, StageFile, Prepare,
          Announce, CheckFile, Replace, Mark, WriteNote, MarkNote, Complete, Tidy,
          Finish, Fail, Failing, Crash, Annotate, Rewrite, Edit, Quiet
<1>3. (annotates' = annotates /\ ~Annotate) \/ annotates' = annotates + 1
   BY <1>1
      DEF Next, Recovery, Publish, human, vars, Begin, Recover, UndoNote, UndoFile,
          Restore, CleanFile, Sweep, Drop, Refused, Plan, Recheck, StageFile, Prepare,
          Announce, CheckFile, Replace, Mark, WriteNote, MarkNote, Complete, Tidy,
          Finish, Fail, Failing, Crash, Annotate, Rewrite, Edit, Quiet
<1> QED BY <1>1, <1>2, <1>3

\* Each step keeps the files, backups and journal in accord, but a kill between
\* replacing a file and flagging it.
LEMMA FilesStep ==
    ASSUME StructureInv, FilesInv, [Next]_vars, "unmarked" \notin CrashPoints
    PROVE  FilesInv'
<1> SUFFICES ASSUME edits' = 0
             PROVE  (WorkOnFiles /\ JournalOfFiles /\ UndoneFiles /\ AcceptedPlan)'
  BY DEF FilesInv
<1> USE DEF WorkOnFiles, JournalOfFiles, UndoneFiles, AcceptedPlan, Working, Undoing,
   Unfinished
<1>t. TypeOK /\ Payloads /\ Phases /\ Loops BY DEF StructureInv
<1>m. mem # None => mem \in Payload BY <1>t DEF TypeOK
<1>e. edits = 0 /\ ~Edit BY <1>t, CountsGrow
<1>f. WorkOnFiles /\ JournalOfFiles /\ UndoneFiles /\ AcceptedPlan
  BY <1>e DEF FilesInv
<1>1. CASE Begin
  BY <1>f, <1>t, <1>1
     DEF Begin, Goto, Phases, Journalled, SameWork, Target, database, disk
<1>2. CASE Recover
  BY <1>f, <1>t, <1>2
     DEF Recover, Goto, Phases, Journalled, SameWork, Target, database, disk
<1>3. CASE UndoNote
  BY <1>f, <1>t, <1>3
     DEF UndoNote, Goto, Return, Phases, Journalled, SameWork, Target, database
<1>4. CASE UndoFile
  <2>1. UNCHANGED <<patch, backup, journal>> BY <1>4 DEF UndoFile, disk, database
  <2>2. Unfinished /\ ~Working /\ ~Working'
    BY <1>t, <1>4 DEF UndoFile, Phases, Goto, Return
  <2>3. JournalOfFiles' /\ WorkOnFiles' /\ AcceptedPlan' BY <1>f, <2>1, <2>2
  <2>4. CASE todo = {} /\ Goto("drop", {})
    BY <1>f, <1>4, <2>1, <2>3, <2>4 DEF UndoFile, Goto
  <2>5. CASE Return("refused") BY <2>3, <2>5 DEF Return
  <2>6. CASE \E d \in todo :
               /\ d \in journal.published => patch[d] = journal.new[d]
               /\ pc' = IF d \in journal.published THEN "restore" ELSE "cleanfile"
               /\ cur' = d
               /\ UNCHANGED <<todo, mem, restored>>
    <3>1. pc' = "cleanfile" => patch[cur'] = journal.old[cur']
      BY <1>f, <1>t, <1>4, <2>2, <2>6 DEF UndoFile, Loops
    <3>2. pc' \in {"restore", "cleanfile"} /\ todo' = todo BY <2>6
    <3> QED BY <1>f, <1>4, <2>1, <2>3, <3>1, <3>2 DEF UndoFile
  <2> QED BY <1>4, <2>4, <2>5, <2>6 DEF UndoFile
<1>5. CASE Restore
  <2>1. UNCHANGED <<journal, todo, cur>> \/ pc' = "refused"
    BY <1>5 DEF Restore, database, Return
  <2>2. Unfinished /\ ~Working /\ ~Working' /\ journal' = journal
    BY <1>t, <1>5 DEF Restore, Phases, Return, database
  <2>3. journal \in Payload /\ Consistent(journal) /\ cur \in journal.published /\ cur \in todo
    BY <1>t, <1>5, <2>2 DEF Restore, Loops, TypeOK, Payloads
  <2>4. /\ cur \in Dest /\ cur \in journal.files /\ journal.files \subseteq Dest
        /\ cur \notin journal.backed => journal.old[cur] = Absent
    BY <2>3, PayloadParts DEF Consistent
  <2>5. CASE Return("refused") /\ UNCHANGED <<patch, backup>>
    BY <1>f, <2>2, <2>5 DEF Return
  <2>6. CASE /\ ~(cur \in journal.backed /\ backup[cur] = Absent)
             /\ patch' = [patch EXCEPT ![cur] =
                            IF cur \in journal.backed THEN backup[cur] ELSE Absent]
             /\ backup' = [backup EXCEPT ![cur] = Absent]
             /\ pc' = "cleanfile" /\ UNCHANGED <<todo, cur, mem>>
    <3>1. patch \in [Dest -> MaybeContent] /\ backup \in [Dest -> MaybeContent]
      BY <1>t DEF TypeOK
    <3>2. patch'[cur] = journal.old[cur] /\ backup'[cur] = Absent
      BY <1>f, <2>2, <2>4, <2>6, <3>1
    <3>3. \A d \in Dest : d # cur => patch'[d] = patch[d] /\ backup'[d] = backup[d]
      BY <2>6, <3>1
    <3>4. JournalOfFiles' BY <1>f, <2>2, <2>3, <2>4, <3>2, <3>3
    <3>5. UndoneFiles' BY <1>f, <1>5, <2>2, <2>3, <2>4, <2>6, <3>2, <3>3 DEF Restore
    <3> QED BY <2>2, <3>4, <3>5
  <2> QED BY <1>5, <2>5, <2>6 DEF Restore
<1>6. CASE CleanFile
  BY <1>f, <1>t, <1>6
     DEF CleanFile, Goto, Phases, Journalled, SameWork, Target, database
<1>7. CASE Sweep
  BY <1>f, <1>t, <1>7 DEF Sweep, Goto, Phases, Journalled, SameWork, Target, database
<1>8. CASE Drop
  BY <1>f, <1>t, <1>8 DEF Drop, Return, Phases, Journalled, SameWork, Target, disk
<1>9. CASE Refused
  BY <1>f, <1>t, <1>9
     DEF Refused, Return, Phases, Journalled, SameWork, Target, database, disk
<1>10. CASE Plan
  <2>1. journal = None /\ journal' = None /\ UNCHANGED <<patch, recorded>>
    BY <1>t, <1>10 DEF Plan, Phases, database
  <2>2. CASE Return("idle") BY <2>1, <2>2 DEF Return
  <2>3. CASE \E p \in Plans :
             /\ \A c \in Series(text) : Publishable(p[c], text[c])
             /\ mem' = Planned(p)
             /\ pc' = "planned"
    <3>1. PICK p \in Plans :
             /\ \A c \in Series(text) : Publishable(p[c], text[c])
             /\ mem' = Planned(p)
             /\ pc' = "planned"
      BY <2>3
    <3>a. mem'.files = {} BY <1>t, <3>1, PlannedPayload
    <3>2. Realizes(p, mem') BY <1>t, <3>1, PlannedPayload
    <3>3. ASSUME NEW d \in Target'
          PROVE  Publishable(d, mem'.new[d])
      <4>1. PICK c \in Series(text) : p[c] = d BY <3>2, <3>3 DEF Target, Realizes
      <4>2. mem'.new[d] = text[c] BY <3>2, <4>1 DEF Realizes
      <4> QED BY <3>1, <4>1, <4>2
    <3> QED BY <2>1, <3>1, <3>a, <3>3 DEF Publishable
  <2> QED BY <1>10, <2>2, <2>3 DEF Plan
<1>11. CASE Recheck
  BY <1>f, <1>t, <1>11
     DEF Recheck, Goto, Return, Phases, Journalled, SameWork, Target, database, disk
<1>12. CASE StageFile
  <2>1. journal = None /\ UNCHANGED <<patch, journal, recorded>> /\ pc' \in {"stage", "prepare"}
    BY <1>t, <1>12 DEF StageFile, Phases, database, Goto
  <2>2. CASE Goto("prepare", {}) /\ UNCHANGED <<staged, backup>>
    BY <1>f, <1>12, <2>1, <2>2 DEF StageFile, Goto, Target
  <2>3. CASE \E d \in todo :
             /\ backup' = [backup EXCEPT ![d] = patch[d]]
             /\ mem' = [mem EXCEPT
                          !.files = @ \cup {d},
                          !.old[d] = patch[d],
                          !.backed = IF patch[d] = Absent THEN @ ELSE @ \cup {d}]
    <3>1. PICK d \in todo :
             /\ backup' = [backup EXCEPT ![d] = patch[d]]
             /\ mem' = [mem EXCEPT
                          !.files = @ \cup {d},
                          !.old[d] = patch[d],
                          !.backed = IF patch[d] = Absent THEN @ ELSE @ \cup {d}]
      BY <2>3
    <3>2. mem \in Payload /\ d \in Dest /\ patch[d] \in MaybeContent
          /\ mem.published = {} /\ d \notin mem.files
      BY <1>t, <1>m, <1>12 DEF StageFile, Phases, Loops, Target, TypeOK
    <3>3. SameButFor(mem, mem') /\ Staged(mem, d, patch[d], mem')
      BY <3>1, <3>2, OneStaged
    <3>4. mem.files \subseteq Dest BY <3>2, PayloadParts
    <3>5. /\ mem'.files = mem.files \cup {d} /\ mem'.published = {} /\ mem'.new = mem.new
          /\ \A e \in Dest : mem'.old[e] = IF e = d THEN patch[d] ELSE mem.old[e]
      BY <3>2, <3>3 DEF Staged, SameButFor
    <3>6. \A e \in Dest : backup'[e] = IF e = d THEN patch[d] ELSE backup[e]
      BY <1>t, <3>1, <3>2 DEF TypeOK
    <3>w. Working BY <1>12 DEF StageFile
    <3>7. WorkOnFiles'
      <4> SUFFICES ASSUME NEW e \in mem'.files
                   PROVE  patch[e] = mem'.old[e] /\ backup'[e] = mem'.old[e]
        BY <2>1, <3>5
      <4>1. e \in Dest BY <3>2, <3>4, <3>5
      <4>2. CASE e = d BY <3>5, <3>6, <4>1, <4>2
      <4>3. CASE e # d
        <5>1. e \in mem.files /\ e \notin mem.published BY <3>2, <3>5, <4>3
        <5> QED BY <1>f, <3>w, <3>5, <3>6, <4>1, <4>3, <5>1
      <4> QED BY <4>2, <4>3
    <3>8. Target' = Target /\ Target \subseteq Dest BY <3>5 DEF Target
    <3>9. AcceptedPlan'
      <4> DEFINE held(e) == IF e \in mem.files THEN mem.old[e] ELSE patch[e]
                 held1(e) == IF e \in mem'.files THEN mem'.old[e] ELSE patch[e]
      <4>1. \A e \in Dest : held1(e) = held(e) BY <3>2, <3>5
      <4>2. \A e \in Target : IF recorded[e] = Absent THEN held(e) = Absent
                             ELSE held(e) \in {recorded[e], mem.new[e]}
        BY <1>f, <3>w
      <4> HIDE DEF held, held1
      <4>3. \A e \in Target' : IF recorded'[e] = Absent THEN held1(e) = Absent
                              ELSE held1(e) \in {recorded'[e], mem'.new[e]}
        BY <2>1, <3>5, <3>8, <4>1, <4>2
      <4> QED BY <2>1, <4>3 DEF held1
    <3> QED BY <2>1, <3>7, <3>9
  <2> QED BY <1>12, <2>2, <2>3 DEF StageFile
<1>13. CASE Prepare
  BY <1>f, <1>t, <1>13 DEF Prepare, Goto, Phases, Journalled, SameWork, Target, disk
<1>14. CASE Announce
  BY <1>f, <1>t, <1>m, <1>14, Rephased
     DEF Announce, SameButFor, Phases, Journalled, Target, disk
<1>15. CASE CheckFile
  BY <1>f, <1>t, <1>15
     DEF CheckFile, Goto, Phases, Journalled, SameWork, Target, database, disk
<1>16. CASE Replace
  <2>1. mem \in Payload /\ cur \in Dest /\ cur \in mem.files /\ mem.files \subseteq Dest
    BY <1>t, <1>m, <1>16, PayloadParts DEF Replace, Loops, Phases
  <2>2. /\ SameButFor(mem, mem')
        /\ mem'.files = mem.files /\ mem'.old = mem.old
        /\ mem'.published = mem.published \cup {cur}
    BY <1>16, <2>1, OnePublished DEF Replace
  <2>3. \A d \in Dest : patch'[d] = IF d = cur THEN mem.new[cur] ELSE patch[d]
    BY <1>t, <1>16, <2>1 DEF Replace, TypeOK
  <2>4. pc = "replace" /\ pc' = "mark" /\ UNCHANGED <<backup, recorded>>
    BY <1>16 DEF Replace, database
  <2>5. WorkOnFiles' BY <1>f, <2>1, <2>2, <2>3, <2>4 DEF SameButFor
  <2>6. Target' = Target /\ Target = mem.files
    BY <1>t, <2>2, <2>4 DEF Target, SameButFor, Loops, Journalled
  <2>7. AcceptedPlan' BY <1>f, <2>1, <2>2, <2>4, <2>6 DEF SameButFor
  <2> QED BY <2>4, <2>5, <2>7
<1>17. CASE Mark
  BY <1>f, <1>t, <1>17 DEF Mark, Goto, Phases, Journalled, SameWork, Target, disk
<1>18. CASE WriteNote
  BY <1>f, <1>t, <1>18
     DEF WriteNote, Goto, Phases, Journalled, SameWork, Target, database
<1>19. CASE MarkNote
  BY <1>f, <1>t, <1>m, <1>19, Rephased
     DEF MarkNote, SameButFor, Phases, Journalled, Target, disk
<1>20. CASE Complete
  BY <1>f, <1>t, <1>m, <1>20, Rephased
     DEF Complete, SameButFor, Phases, Journalled, Target, disk
<1>21. CASE Tidy
  BY <1>f, <1>t, <1>21 DEF Tidy, Goto, Phases, Journalled, SameWork, Target, database
<1>22. CASE Finish
  BY <1>f, <1>t, <1>22 DEF Finish, Return, Phases, Journalled, SameWork, Target, disk
<1>23. CASE Fail
  <2>1. Working /\ Working' /\ pc' = "failing" /\ UNCHANGED <<patch, backup, mem, journal, recorded>>
    BY <1>23 DEF Fail, PublishLabels, Goto, disk, database
  <2> QED BY <1>f, <2>1 DEF Target
<1>24. CASE Failing
  BY <1>f, <1>t, <1>m, <1>24, Rephased
     DEF Failing, SameButFor, Return, Phases, Journalled, Target, disk
<1>25. CASE Crash
  <2>1. UNCHANGED <<patch, backup, journal>> /\ pc' = "idle"
    BY <1>25 DEF Crash, disk, database, Return
  <2>2. ASSUME Unfinished PROVE JournalOfFiles'
    <3>1. CASE ~Working BY <1>f, <2>1, <2>2, <3>1
    <3>2. CASE Working
      <4>1. SameWork BY <1>t, <2>2, <3>2 DEF Phases, Journalled
      <4>2. mem # None BY <1>t, <3>2 DEF Phases
      <4>3. CrashPoint # "unmarked" BY <1>25 DEF Crash
      <4>4. journal.published = mem.published
        BY <2>2, <4>1, <4>2, <4>3 DEF CrashPoint, SameWork
      <4> QED BY <1>f, <2>1, <3>2, <4>1, <4>4 DEF SameWork
    <3> QED BY <3>1, <3>2
  <2> QED BY <2>1, <2>2
<1>26. CASE Annotate
  BY <1>f, <1>t, <1>26
     DEF Annotate, Phases, Journalled, SameWork, Target, database, control
<1>27. CASE Rewrite
  BY <1>f, <1>t, <1>27
     DEF Rewrite, Phases, Journalled, SameWork, Target, database, control
<1>28. CASE Quiet
  BY <1>f, <1>t, <1>28
     DEF Quiet, Phases, Journalled, SameWork, Target, vars, disk, database, control
<1>29. CASE UNCHANGED vars BY <1>f, <1>29 DEF vars, database, control, disk, Target
<1> QED
  BY <1>e, <1>1, <1>2, <1>3, <1>4, <1>5, <1>6, <1>7, <1>8, <1>9, <1>10, <1>11, <1>12,
     <1>13, <1>14, <1>15, <1>16, <1>17, <1>18, <1>19, <1>20, <1>21, <1>22, <1>23, <1>24,
     <1>25, <1>26, <1>27, <1>28, <1>29
     DEF Next, Recovery, Publish

\* Nothing is at work at first.
LEMMA FilesInit == ASSUME Init PROVE FilesInv
<1> pc = "idle" /\ journal = None BY DEF Init
<1> QED BY DEF FilesInv, WorkOnFiles, JournalOfFiles, UndoneFiles, AcceptedPlan,
               Working, Undoing, Unfinished

\* What recovery needs is there: unless a human has edited a patch, or a kill hit
\* the window between os.replace and the flag of the file in the journal, every
\* file an unfinished export changed has its old content in its backup.
THEOREM BackupsSuffice ==
    ASSUME "unmarked" \notin CrashPoints
    PROVE  Spec => [](edits = 0 => Restorable)
<1>1. Init => StructureInv /\ FilesInv BY StructureInit, FilesInit
<1>2. StructureInv /\ FilesInv /\ [Next]_vars => (StructureInv /\ FilesInv)'
  BY StructureStep, FilesStep
<1>3. ASSUME StructureInv, FilesInv, edits = 0 PROVE Restorable
  <2> SUFFICES ASSUME Unfinished, NEW d \in journal.files, patch[d] # journal.old[d]
               PROVE  backup[d] = journal.old[d]
    BY DEF Restorable
  <2>1. CASE Working
    <3>1. SameWork
      BY <1>3, <2>1 DEF StructureInv, Phases, Working, Journalled, Unfinished
    <3> QED BY <1>3, <2>1, <3>1 DEF FilesInv, WorkOnFiles, SameWork
  <2>2. CASE ~Working BY <1>3, <2>2 DEF FilesInv, JournalOfFiles
  <2> QED BY <2>1, <2>2
<1> QED BY <1>1, <1>2, <1>3, PTL DEF Spec

-----------------------------------------------------------------------------
(* The refinement of AtomicExport *)

\* The patch files and the record as they were.
LEMMA SettledStays ==
    ASSUME \A d \in Dest :
              (IF Unfinished /\ d \in journal.files THEN journal.old[d] ELSE patch[d])' =
              (IF Unfinished /\ d \in journal.files THEN journal.old[d] ELSE patch[d]),
           recorded' = recorded
    PROVE  UNCHANGED Atomic!published
BY DEF Atomic!published, SettledFiles

\* Complete is the step that exports.
LEMMA CompleteExports ==
    ASSUME StructureInv, FilesInv, edits = 0, Complete
    PROVE  Atomic!Next
<1>t. TypeOK /\ Payloads /\ Phases /\ Loops BY DEF StructureInv
<1>c. pc = "complete" /\ Working /\ Journalled BY DEF Complete, Working, Journalled
<1>m. mem \in Payload BY <1>t, <1>c DEF TypeOK, Phases
<1>n. mem.new \in [Dest -> MaybeContent] /\ mem.files \subseteq Dest
  BY <1>m, PayloadParts
<1>s. /\ Unfinished /\ journal.files = mem.files /\ journal.old = mem.old
      /\ mem.files = Target /\ mem.published = mem.files
  BY <1>t, <1>c DEF Phases, Loops, SameWork, Unfinished
<1>f. WorkOnFiles /\ AcceptedPlan BY DEF FilesInv
<1> DEFINE new == [d \in Target |-> mem.new[d]]
<1>1. new \in Atomic!Series
  <2>1. Target \subseteq Dest BY DEF Target
  <2>2. \A d \in Target : mem.new[d] \in Content BY <1>n DEF Target, MaybeContent
  <2>3. new \in [Target -> Content] BY <2>2
  <2> QED BY <2>1, <2>3 DEF Atomic!Series
<1>2. \A d \in Dest : SettledFiles[d] = IF d \in Target THEN mem.old[d] ELSE patch[d]
  BY <1>s DEF SettledFiles
<1>3. SettledFiles' = patch
  <2>1. mem' # None /\ mem'.phase = "complete" BY <1>m, Rephased DEF Complete
  <2>2. ~Unfinished' BY <2>1 DEF Unfinished, Complete
  <2>3. patch' = patch /\ patch \in [Dest -> MaybeContent]
    BY <1>t DEF Complete, disk, TypeOK
  <2>4. SettledFiles' = [d \in Dest |-> patch[d]] BY <2>2, <2>3 DEF SettledFiles
  <2> QED BY <2>3, <2>4
<1>4. recorded' = mem.new BY DEF Complete
<1>5. ASSUME NEW d \in DOMAIN new PROVE Atomic!Acceptable(d, new)
  <2>1. d \in Target /\ d \in Dest /\ new[d] = mem.new[d] BY DEF Target
  <2>2. SettledFiles[d] = mem.old[d] BY <1>2, <2>1
  <2>3. IF recorded[d] = Absent THEN mem.old[d] = Absent
        ELSE mem.old[d] \in {recorded[d], mem.new[d]}
    BY <1>c, <1>f, <1>s, <2>1 DEF AcceptedPlan
  <2> QED BY <2>1, <2>2, <2>3 DEF Atomic!Acceptable
<1>6. SettledFiles' = [d \in Dest |-> IF d \in DOMAIN new THEN new[d] ELSE SettledFiles[d]]
  <2>1. \A d \in Dest :
           patch[d] = IF d \in DOMAIN new THEN new[d] ELSE SettledFiles[d]
    BY <1>2, <1>c, <1>f, <1>s DEF WorkOnFiles
  <2>2. patch \in [Dest -> MaybeContent] BY <1>t DEF TypeOK
  <2>3. patch = [d \in Dest |-> patch[d]] BY <2>2
  <2> QED BY <1>3, <2>1, <2>3
<1>7. recorded' = [d \in Dest |-> IF d \in DOMAIN new THEN new[d] ELSE Absent]
  <2>1. \A d \in Dest : mem.new[d] = IF d \in DOMAIN new THEN new[d] ELSE Absent
    BY DEF Target
  <2>2. mem.new = [d \in Dest |-> mem.new[d]] BY <1>n
  <2> QED BY <1>4, <2>1, <2>2
<1>8. Atomic!Export(new) BY <1>5, <1>6, <1>7 DEF Atomic!Export
<1> QED BY <1>1, <1>8 DEF Atomic!Next

\* Every other step leaves the settled files and the record alone.
LEMMA AtomicStep ==
    ASSUME StructureInv, FilesInv, edits = 0, edits' = 0, [Next]_vars
    PROVE  [Atomic!Next]_(Atomic!published)
<1>t. TypeOK /\ Payloads /\ Phases /\ Loops BY DEF StructureInv
<1>m. mem # None => mem \in Payload BY <1>t DEF TypeOK
<1>f. WorkOnFiles /\ JournalOfFiles /\ UndoneFiles BY DEF FilesInv
<1>0. CASE UNCHANGED <<patch, journal, recorded>>
  <2>1. UNCHANGED Unfinished BY <1>0 DEF Unfinished
  <2> QED BY <1>0, <2>1, SettledStays
<1>1. CASE Restore
  <2>1. Unfinished /\ cur \in journal.files /\ cur \in Dest
    BY <1>1, <1>t, PayloadParts DEF Restore, Phases, Loops, Undoing, Unfinished, TypeOK
  <2>2. UNCHANGED <<journal, recorded, Unfinished>>
    BY <1>1 DEF Restore, database, Unfinished
  <2>3. \A d \in Dest : d # cur => patch'[d] = patch[d]
    BY <1>1, <1>t, <2>1 DEF Restore, TypeOK
  <2> QED BY <2>1, <2>2, <2>3, SettledStays
<1>2. CASE Replace
  <2>1. Unfinished /\ cur \in journal.files /\ cur \in Dest
    BY <1>2, <1>t, <1>m, PayloadParts
       DEF Replace, Phases, Loops, Working, Journalled, SameWork, Unfinished
  <2>2. UNCHANGED <<journal, recorded, Unfinished>>
    BY <1>2 DEF Replace, database, Unfinished
  <2>3. \A d \in Dest : d # cur => patch'[d] = patch[d]
    BY <1>2, <1>t, <2>1 DEF Replace, TypeOK
  <2> QED BY <2>1, <2>2, <2>3, SettledStays
<1>3. CASE Drop
  <2>1. journal' = None /\ UNCHANGED <<patch, recorded>> /\ pc = "drop"
    BY <1>3 DEF Drop, disk
  <2>2. ~Unfinished' BY <2>1 DEF Unfinished
  <2>3. Unfinished => \A d \in journal.files : patch[d] = journal.old[d]
    BY <1>f, <2>1 DEF UndoneFiles
  <2> QED BY <2>1, <2>2, <2>3, SettledStays
<1>4. CASE Finish
  <2>1. journal' = None /\ UNCHANGED <<patch, recorded>> BY <1>4 DEF Finish, disk
  <2>2. ~Unfinished /\ ~Unfinished' BY <1>4, <1>t, <2>1 DEF Unfinished, Finish, Phases
  <2> QED BY <2>1, <2>2, SettledStays
<1>5. CASE Prepare \/ Failing \/ Announce \/ Mark \/ MarkNote
  <2>0. mem \in Payload /\ Working
    BY <1>5, <1>t, <1>m DEF Prepare, Failing, Announce, Mark, MarkNote, Working, Phases
  <2>1. /\ journal' # None /\ journal'.phase # "complete"
        /\ journal'.files = mem.files /\ journal'.old = mem.old
    <3>1. CASE Prepare \/ Mark
      BY <1>t, <2>0, <3>1, PayloadParts DEF Prepare, Mark, Phases
    <3>2. CASE Announce \/ MarkNote BY <2>0, <3>2, Rephased DEF Announce, MarkNote
    <3>3. CASE Failing BY <2>0, <3>3, Rephased DEF Failing
    <3> QED BY <1>5, <3>1, <3>2, <3>3
  <2>2. Unfinished' BY <2>1 DEF Unfinished
  <2>3. UNCHANGED <<patch, recorded>>
    BY <1>5 DEF Prepare, Failing, Announce, Mark, MarkNote, disk
  <2>4. CASE SameWork
    <3>1. Unfinished /\ journal.files = mem.files /\ journal.old = mem.old
      BY <2>4 DEF SameWork, Unfinished
    <3> QED BY <2>1, <2>2, <2>3, <3>1, SettledStays
  <2>5. CASE journal = None /\ mem.published = {}
    <3>1. ~Unfinished BY <2>5 DEF Unfinished
    <3>2. \A d \in mem.files : patch[d] = mem.old[d] BY <1>f, <2>0, <2>5 DEF WorkOnFiles
    <3> QED BY <2>1, <2>2, <2>3, <3>1, <3>2, SettledStays
  <2>6. SameWork \/ (journal = None /\ mem.published = {})
     BY <1>5, <1>t
        DEF Prepare, Failing, Announce, Mark, MarkNote, Phases, Loops, Journalled
  <2> QED BY <2>4, <2>5, <2>6
<1>6. CASE Complete BY <1>6, CompleteExports
<1>7. CASE Edit
  <2>1. edits' = edits + 1 BY <1>7 DEF Edit
  <2> QED BY <2>1
<1> QED
  BY <1>0, <1>1, <1>2, <1>3, <1>4, <1>5, <1>6, <1>7
     DEF Next, Recovery, Publish, vars, disk, database, Begin, Recover, UndoNote,
         UndoFile, CleanFile, Sweep, Refused, Plan, Recheck, StageFile, CheckFile,
         WriteNote, Tidy, Fail, Crash, Annotate, Rewrite, Quiet

\* The patch files and the record change together or not at all: without edits
\* by humans, and but for a kill between os.replace and the flag of the file,
\* export_workspace with its recovery implements AtomicExport.
THEOREM ExportIsAtomic ==
    ASSUME MaxEdits = 0, "unmarked" \notin CrashPoints
    PROVE  Spec => ImplementsAtomic
<1> DEFINE Inv == StructureInv /\ FilesInv
<1>1. Init => Inv BY StructureInit, FilesInit
<1>2. Inv /\ [Next]_vars => Inv' BY StructureStep, FilesStep
<1>3. StructureInv => edits = 0 BY DEF StructureInv, TypeOK
<1>4. Init => Atomic!Init
  <2> SUFFICES ASSUME Init PROVE Atomic!Init OBVIOUS
  <2>1. StructureInv BY StructureInit
  <2>2. patch \in [Dest -> Content \cup {Absent}]
    BY <2>1 DEF StructureInv, TypeOK, MaybeContent
  <2>3. ~Unfinished BY DEF Init, Unfinished
  <2>4. SettledFiles = [d \in Dest |-> patch[d]] BY <2>3 DEF SettledFiles
  <2>5. SettledFiles = patch BY <2>2, <2>4
  <2> QED BY <2>2, <2>5 DEF Init, Atomic!Init
<1>5. Inv /\ Inv' /\ [Next]_vars => [Atomic!Next]_(Atomic!published)
  <2>1. StructureInv' => edits' = 0 BY DEF StructureInv, TypeOK
  <2> QED BY <1>3, <2>1, AtomicStep
<1> QED BY <1>1, <1>2, <1>4, <1>5, PTL DEF Spec, ImplementsAtomic, Atomic!Spec

-----------------------------------------------------------------------------
(* The notes *)

\* A note that is written leaves the others as they are.
LEMMA NoteWritten ==
    ASSUME note \in [Tip \X Commit -> MaybeDest],
           NEW t \in Tip, NEW c \in Commit, NEW p,
           note' = [note EXCEPT ![<<t, c>>] = p]
    PROVE  \A u \in Tip, e \in Commit :
              note'[<<u, e>>] = IF u = t /\ e = c THEN p ELSE note[<<u, e>>]
OBVIOUS

\* Rewriting the history gives notes to a tip no payload is of yet.
LEMMA RewrittenNotes ==
    ASSUME StructureInv, Rewrite,
           NEW m \in Payload, Consistent(m), NEW c \in Commit
    PROVE  note'[<<m.tip, c>>] = note[<<m.tip, c>>]
<1>1. m.tip \in Tip /\ m.tip \in Nat /\ m.tip <= commits BY PayloadParts DEF Consistent
<1>2. commits' = commits + 1 /\ commits \in Nat
  BY DEF Rewrite, StructureInv, TypeOK, Tip
<1>3. m.tip # commits' BY <1>1, <1>2
<1>4. PICK at \in [Series(text') -> MaybeDest] :
         note' = [te \in Tip \X Commit |->
                    IF te[1] = commits' /\ te[2] \in Series(text')
                    THEN at[te[2]] ELSE note[te]]
  BY DEF Rewrite
<1> QED BY <1>1, <1>3, <1>4

\* Each step keeps the notes in accord with the payload and the labels.
LEMMA NotesStep ==
    ASSUME StructureInv, NotesInv, [Next]_vars
    PROVE  NotesInv'
<1> USE DEF NotesInv, UndoneNotes, WrittenNotes, Working, Undoing, Unfinished
<1>t. TypeOK /\ Payloads /\ Phases /\ Loops BY DEF StructureInv
<1>n. UndoneNotes /\ WrittenNotes OBVIOUS
<1>m. mem # None => mem \in Payload BY <1>t DEF TypeOK
<1>j. journal # None => journal \in Payload BY <1>t DEF TypeOK
<1>y. note \in [Tip \X Commit -> MaybeDest] BY <1>t DEF TypeOK
<1>1. CASE Begin BY <1>n, <1>t, <1>1 DEF Begin, Goto, Phases, Loops, database, disk
<1>2. CASE Recover BY <1>n, <1>t, <1>2 DEF Recover, Goto, Phases, Loops, database, disk
<1>3. CASE UndoNote
  <2>0. Unfinished /\ ~Working /\ journal' = journal /\ pc = "undonotes"
    BY <1>t, <1>3 DEF UndoNote, Phases, database
  <2>1. journal \in Payload /\ todo \subseteq journal.notes /\ journal.notes \subseteq Commit
        /\ journal.tip \in Tip
    BY <1>j, <1>t, <2>0, PayloadParts DEF Loops
  <2>2. CASE todo = {} /\ Goto("undofiles", journal.files) /\ UNCHANGED note
    BY <1>n, <2>0, <2>2 DEF Goto
  <2>3. CASE Return("refused") BY <2>3 DEF Return
  <2>4. CASE \E c \in todo :
             /\ note' = [note EXCEPT ![<<journal.tip, c>>] = journal.oldnote[c]]
             /\ Goto("undonotes", todo \ {c})
    <3>1. PICK c \in todo :
             /\ note' = [note EXCEPT ![<<journal.tip, c>>] = journal.oldnote[c]]
             /\ Goto("undonotes", todo \ {c})
      BY <2>4
    <3>2. \A e \in Commit :
             note'[<<journal.tip, e>>] = IF e = c THEN journal.oldnote[c]
                                         ELSE note[<<journal.tip, e>>]
      BY <1>y, <2>1, <3>1, NoteWritten
    <3>3. pc' = "undonotes" /\ todo' = todo \ {c} BY <3>1 DEF Goto
    <3>4. \A e \in journal.notes \ todo' : note'[<<journal.tip, e>>] = journal.oldnote[e]
      BY <1>n, <2>0, <2>1, <3>2, <3>3
    <3> QED BY <2>0, <3>3, <3>4
  <2> QED BY <1>3, <2>2, <2>3, <2>4 DEF UndoNote
<1>4. CASE UndoFile
  BY <1>n, <1>t, <1>4 DEF UndoFile, Goto, Return, Phases, Loops, database, disk
<1>5. CASE Restore BY <1>n, <1>t, <1>5 DEF Restore, Return, Phases, Loops, database
<1>6. CASE CleanFile BY <1>n, <1>t, <1>6 DEF CleanFile, Goto, Phases, Loops, database
<1>7. CASE Sweep BY <1>n, <1>t, <1>7 DEF Sweep, Goto, Phases, Loops, database
<1>8. CASE Drop BY <1>n, <1>t, <1>8 DEF Drop, Return, Phases, Loops, disk
<1>9. CASE Refused
  BY <1>n, <1>t, <1>9 DEF Refused, Return, Phases, Loops, database, disk
<1>10. CASE Plan
  <2>1. CASE Return("idle") BY <2>1 DEF Return
  <2>2. CASE \E p \in Plans : mem' = Planned(p) /\ pc' = "planned"
    <3>1. PICK p \in Plans : mem' = Planned(p) /\ pc' = "planned" BY <2>2
    <3>2. /\ mem'.tip = commits /\ mem'.path = p
          /\ mem'.notes = {c \in Series(text) : ~Explicit(c)}
      BY <1>t, <3>1, PlannedPayload
    <3>3. ASSUME NEW c \in Commit, p[c] # Absent
          PROVE  c \in mem'.notes \/ note[<<commits, c>>] = p[c]
      <4>1. c \in Series(text) BY <3>3 DEF Plans, Series
      <4>2. Explicit(c) => p[c] = NoteOf(c) BY <4>1 DEF Plans
      <4> QED BY <3>2, <4>1, <4>2 DEF NoteOf
    <3>4. note' = note BY <1>10 DEF Plan
    <3> QED BY <3>1, <3>2, <3>3, <3>4
  <2> QED BY <1>10, <2>1, <2>2 DEF Plan
<1>11. CASE Recheck
  BY <1>n, <1>t, <1>11 DEF Recheck, Goto, Return, Phases, Loops, database, disk
<1>12. CASE StageFile
  <2>1. CASE todo = {} /\ Goto("prepare", {}) BY <1>n, <1>12, <2>1 DEF StageFile, Goto
  <2>2. CASE \E d \in todo :
             /\ mem' = [mem EXCEPT !.files = @ \cup {d}, !.old[d] = patch[d],
                          !.backed = IF patch[d] = Absent THEN @ ELSE @ \cup {d}]
             /\ UNCHANGED <<pc, cur, restored>>
    <3>1. PICK d \in todo :
             /\ mem' = [mem EXCEPT !.files = @ \cup {d}, !.old[d] = patch[d],
                          !.backed = IF patch[d] = Absent THEN @ ELSE @ \cup {d}]
             /\ UNCHANGED <<pc, cur, restored>>
      BY <2>2
    <3>2. mem \in Payload /\ d \in Dest /\ patch[d] \in MaybeContent
      BY <1>t, <1>m, <1>12 DEF StageFile, Loops, Target, TypeOK, Phases
    <3>3. SameButFor(mem, mem') BY <3>1, <3>2, OneStaged
    <3> QED BY <1>n, <1>12, <3>1, <3>3 DEF StageFile, SameButFor
  <2> QED BY <1>12, <2>1, <2>2 DEF StageFile
<1>13. CASE Prepare BY <1>n, <1>t, <1>13 DEF Prepare, Goto, Phases, Loops, disk
<1>14. CASE Announce
  BY <1>n, <1>t, <1>m, <1>14, Rephased DEF Announce, SameButFor, Phases, disk
<1>15. CASE CheckFile
  BY <1>n, <1>t, <1>15 DEF CheckFile, Goto, Phases, Loops, database, disk
<1>16. CASE Replace
  <2>1. mem \in Payload /\ cur \in Dest
    BY <1>t, <1>m, <1>16, PayloadParts DEF Replace, Phases, Loops
  <2>2. SameButFor(mem, mem') BY <1>16, <2>1, OnePublished DEF Replace
  <2> QED BY <1>n, <1>16, <2>2 DEF Replace, SameButFor
<1>17. CASE Mark BY <1>n, <1>t, <1>17 DEF Mark, Goto, Phases, Loops, disk
<1>18. CASE WriteNote
  <2>1. mem \in Payload /\ todo \subseteq mem.notes /\ mem.notes \subseteq Commit
        /\ mem.tip \in Tip
    BY <1>t, <1>m, <1>18, PayloadParts DEF WriteNote, Phases, Loops
  <2>2. CASE todo = {} /\ Goto("complete", {}) /\ UNCHANGED note
    BY <1>n, <1>18, <2>2 DEF WriteNote, Goto
  <2>3. CASE \E c \in todo :
             /\ note' = [note EXCEPT ![<<mem.tip, c>>] = mem.path[c]]
             /\ pc' = "marknote" /\ cur' = c
             /\ UNCHANGED <<todo, mem, restored>>
    <3>1. PICK c \in todo :
             /\ note' = [note EXCEPT ![<<mem.tip, c>>] = mem.path[c]]
             /\ pc' = "marknote" /\ cur' = c
             /\ UNCHANGED <<todo, mem, restored>>
      BY <2>3
    <3>2. \A e \in Commit :
             note'[<<mem.tip, e>>] = IF e = c THEN mem.path[c] ELSE note[<<mem.tip, e>>]
      BY <1>y, <2>1, <3>1, NoteWritten
    <3> QED BY <1>n, <1>18, <2>1, <3>1, <3>2 DEF WriteNote
  <2> QED BY <1>18, <2>2, <2>3 DEF WriteNote
<1>19. CASE MarkNote
  BY <1>n, <1>t, <1>m, <1>19, Rephased DEF MarkNote, SameButFor, Phases, disk
<1>20. CASE Complete
  BY <1>n, <1>t, <1>m, <1>20, Rephased DEF Complete, SameButFor, Phases, disk
<1>21. CASE Tidy BY <1>n, <1>t, <1>21 DEF Tidy, Goto, Phases, Loops, database
<1>22. CASE Finish BY <1>n, <1>t, <1>22 DEF Finish, Return, Phases, Loops, disk
<1>23. CASE Fail
  BY <1>n, <1>t, <1>23 DEF Fail, Goto, Phases, Loops, PublishLabels, database, disk
<1>24. CASE Failing
  BY <1>n, <1>t, <1>m, <1>24, Rephased DEF Failing, SameButFor, Return, Phases, disk
<1>25. CASE Crash BY <1>n, <1>t, <1>25 DEF Crash, Return, Phases, Loops, database, disk
<1>26. CASE Annotate
  <2>1. pc' = "idle" BY <1>26 DEF Annotate, control
  <2> QED BY <2>1
<1>27. CASE Rewrite
  <2>1. UNCHANGED <<pc, todo, cur, mem, journal>>
    BY <1>27 DEF Rewrite, control, database
  <2>2. ASSUME mem # None
        PROVE  \A c \in Commit : note'[<<mem.tip, c>>] = note[<<mem.tip, c>>]
    BY <1>t, <1>m, <1>27, <2>2, RewrittenNotes DEF Payloads
  <2>3. ASSUME journal # None
        PROVE  \A c \in Commit : note'[<<journal.tip, c>>] = note[<<journal.tip, c>>]
    BY <1>t, <1>j, <1>27, <2>3, RewrittenNotes DEF Payloads
  <2>4. UndoneNotes'
    <3>1. CASE pc = "undonotes" \/ Undoing \/ (pc = "drop" /\ Unfinished)
      <4>1. journal \in Payload /\ journal # None BY <1>j, <1>t, <3>1 DEF Phases
      <4>2. journal.notes \subseteq Commit BY <4>1, PayloadParts
      <4> QED BY <1>n, <2>1, <2>3, <4>1, <4>2
    <3>2. CASE ~(pc = "undonotes" \/ Undoing \/ (pc = "drop" /\ Unfinished))
      BY <2>1, <3>2
    <3> QED BY <3>1, <3>2
  <2>5. WrittenNotes'
    <3>1. CASE Working
      <4>1. mem \in Payload /\ mem # None BY <1>m, <1>t, <3>1 DEF Phases
      <4>2. mem.notes \subseteq Commit BY <4>1, PayloadParts
      <4>3. pc = "marknote" => cur \in mem.notes BY <1>t DEF Loops
      <4> QED BY <1>n, <2>1, <2>2, <4>1, <4>2, <4>3
    <3>2. CASE ~Working BY <2>1, <3>2
    <3> QED BY <3>1, <3>2
  <2> QED BY <2>4, <2>5
<1>28. CASE Edit BY <1>n, <1>t, <1>28 DEF Edit, Phases, Loops, database, control
<1>29. CASE Quiet
  BY <1>n, <1>t, <1>29 DEF Quiet, Phases, Loops, vars, disk, database, control
<1>30. CASE UNCHANGED vars BY <1>n, <1>30 DEF vars, database, control, disk
<1> QED
  BY <1>1, <1>2, <1>3, <1>4, <1>5, <1>6, <1>7, <1>8, <1>9, <1>10, <1>11, <1>12, <1>13,
     <1>14, <1>15, <1>16, <1>17, <1>18, <1>19, <1>20, <1>21, <1>22, <1>23, <1>24, <1>25,
     <1>26, <1>27, <1>28, <1>29, <1>30
     DEF Next, Recovery, Publish

\* The notes follow the files: recovery forgets an export only with the notes as
\* they were, and complete_export_operation records one only when each of its
\* commits names its path, whatever humans, kills and failures do.
THEOREM NotesFollowFiles == Spec => NotesAllOrNothing
<1> DEFINE Kept == /\ Unfinished /\ journal' = None =>
                         \A c \in journal.notes :
                            note[<<journal.tip, c>>] = journal.oldnote[c]
                   /\ pc = "complete" /\ recorded' # recorded =>
                         \A c \in Commit :
                            mem.path[c] # Absent => note[<<mem.tip, c>>] = mem.path[c]
<1>1. Init => StructureInv /\ NotesInv
  <2>1. Init => NotesInv
    BY DEF Init, NotesInv, UndoneNotes, WrittenNotes, Working, Undoing
  <2> QED BY <2>1, StructureInit
<1>2. StructureInv /\ NotesInv /\ [Next]_vars => (StructureInv /\ NotesInv)'
  BY StructureStep, NotesStep
<1>3. ASSUME StructureInv, NotesInv, [Next]_vars PROVE Kept
  <2>t. TypeOK /\ Phases BY <1>3 DEF StructureInv
  <2>m. mem # None => mem \in Payload BY <2>t DEF TypeOK
  <2>1. ASSUME Unfinished, journal' = None PROVE pc = "drop"
    <3>1. journal' # journal BY <2>1 DEF Unfinished
    <3>2. ~(Prepare \/ Mark)
      BY <2>1, <2>t DEF Prepare, Mark, Phases, Working
    <3>3. ASSUME Announce \/ MarkNote \/ Complete \/ Failing PROVE FALSE
      <4>1. mem \in Payload
        BY <2>t, <2>m, <3>3 DEF Announce, MarkNote, Complete, Failing, Phases, Working
      <4> QED BY <2>1, <3>3, <4>1, Rephased DEF Announce, MarkNote, Complete, Failing
    <3>4. ~Finish BY <2>1, <2>t DEF Finish, Phases, Unfinished
    <3> QED
      BY <1>3, <3>1, <3>2, <3>3, <3>4
         DEF Next, Recovery, Publish, vars, database, Begin, Recover, UndoNote, UndoFile,
             Restore, CleanFile, Sweep, Drop, Refused, Plan, Recheck, StageFile,
             CheckFile, Replace, WriteNote, Tidy, Fail, Crash, Annotate, Rewrite, Edit,
             Quiet
  <2>2. Unfinished /\ pc = "drop" => \A c \in journal.notes :
           note[<<journal.tip, c>>] = journal.oldnote[c]
    BY <1>3 DEF NotesInv, UndoneNotes
  <2>3. pc = "complete" => \A c \in Commit :
           mem.path[c] # Absent => note[<<mem.tip, c>>] = mem.path[c]
    BY <1>3 DEF NotesInv, WrittenNotes, Working
  <2> QED BY <2>1, <2>2, <2>3
<1> QED BY <1>1, <1>2, <1>3, PTL DEF Spec, NotesAllOrNothing

-----------------------------------------------------------------------------
(* Refusals *)

\* Each step keeps published files as published until a recovery comes to them.
LEMMA PublishedStep ==
    ASSUME StructureInv, FilesInv, StillPublished, [Next]_vars,
           "unmarked" \notin CrashPoints, "restored" \notin CrashPoints
    PROVE  StillPublished'
<1> USE DEF StillPublished, Working, Unfinished
<1>t. TypeOK /\ Payloads /\ Phases /\ Loops BY DEF StructureInv
<1>m. mem # None => mem \in Payload BY <1>t DEF TypeOK
<1>j. journal # None => journal \in Payload BY <1>t DEF TypeOK
<1>y. patch \in [Dest -> MaybeContent] /\ backup \in [Dest -> MaybeContent]
  BY <1>t DEF TypeOK
<1>s. StillPublished OBVIOUS
<1>1. CASE Begin
  BY <1>s, <1>t, <1>1 DEF Begin, Goto, Phases, Undoing, Loops, database, disk, human
<1>2. CASE Recover
  BY <1>s, <1>t, <1>2 DEF Recover, Goto, Phases, Undoing, Loops, database, disk, human
<1>3. CASE UndoNote
  <2>1. UNCHANGED <<patch, backup, journal, edits>> /\ ~restored
    BY <1>t, <1>3 DEF UndoNote, Phases, Undoing, database, human
  <2>4. \/ Goto("undofiles", journal.files) \/ Return("refused")
        \/ \E c \in todo : Goto("undonotes", todo \ {c})
    BY <1>3 DEF UndoNote
  <2>2. ~restored' /\ pc' # "cleanfile" BY <2>1, <2>4 DEF Goto, Return
  <2>3. Unfinished /\ ~Working BY <1>t, <1>3 DEF UndoNote, Phases
  <2> QED BY <1>s, <2>1, <2>2, <2>3
<1>4. CASE UndoFile
  <2>1. UNCHANGED <<patch, backup, journal>> BY <1>4 DEF UndoFile, disk, database
  <2>2. Unfinished /\ ~Working /\ pc = "undofiles"
    BY <1>t, <1>4 DEF UndoFile, Phases, Undoing
  <2>3. CASE todo = {} /\ Goto("drop", {})
    BY <1>s, <1>4, <2>1, <2>2, <2>3 DEF UndoFile, Goto, human
  <2>4. CASE \E d \in todo : /\ d \in journal.published
                             /\ patch[d] # journal.new[d]
                             /\ Return("refused")
    <3>1. edits # 0 BY <1>s, <2>2, <2>4
    <3>2. edits' # 0 BY <1>4, <3>1 DEF UndoFile, human
    <3> QED BY <2>4, <3>2 DEF Return
  <2>5. CASE \E d \in todo :
               /\ pc' = IF d \in journal.published THEN "restore" ELSE "cleanfile"
               /\ cur' = d
               /\ UNCHANGED <<todo, mem, restored>>
    <3>1. pc' = "cleanfile" => cur' \notin journal'.published BY <2>1, <2>5
    <3>2. edits' = edits BY <1>4 DEF UndoFile, human
    <3> QED BY <1>s, <2>1, <2>2, <2>5, <3>1, <3>2
  <2> QED BY <1>4, <2>3, <2>4, <2>5 DEF UndoFile
<1>5. CASE Restore
  <2>1. Unfinished /\ ~Working /\ pc = "restore" /\ UNCHANGED <<journal, edits>>
    BY <1>t, <1>5 DEF Restore, Phases, Undoing, database, human
  <2>2. journal \in Payload /\ Consistent(journal) /\ cur \in journal.published /\ cur \in todo
    BY <1>j, <1>t, <2>1 DEF Loops, Payloads
  <2>3. cur \in Dest /\ (cur \in journal.backed => journal.old[cur] # Absent)
        /\ journal.published \subseteq Dest
    BY <2>2, PayloadParts DEF Consistent
  <2>4. CASE cur \in journal.backed /\ backup[cur] = Absent /\ Return("refused")
    <3>1. edits # 0 BY <1>s, <2>1, <2>2, <2>3, <2>4
    <3> QED BY <2>1, <2>4, <3>1 DEF Return
  <2>5. CASE /\ patch' = [patch EXCEPT ![cur] =
                            IF cur \in journal.backed THEN backup[cur] ELSE Absent]
             /\ backup' = [backup EXCEPT ![cur] = Absent]
             /\ pc' = "cleanfile" /\ restored' = TRUE
             /\ UNCHANGED <<todo, cur, mem>>
    <3>1. \A d \in Dest : d # cur => patch'[d] = patch[d] /\ backup'[d] = backup[d]
      BY <1>y, <2>5
    <3> QED BY <1>s, <2>1, <2>3, <2>5, <3>1
  <2> QED BY <1>5, <2>4, <2>5 DEF Restore
<1>6. CASE CleanFile
  <2>1. Unfinished /\ ~Working /\ pc = "cleanfile" /\ UNCHANGED <<patch, journal, edits, restored>>
    BY <1>t, <1>6 DEF CleanFile, Phases, Undoing, database, human, Goto
  <2>2. journal.published \subseteq Dest /\ cur \in todo
    BY <1>j, <1>t, <2>1, PayloadParts DEF Loops
  <2>3. \A d \in Dest : d # cur => backup'[d] = backup[d] BY <1>y, <1>6 DEF CleanFile
  <2>4. pc' = "undofiles" /\ todo' = todo \ {cur} BY <1>6 DEF CleanFile, Goto
  <2> QED BY <1>s, <2>1, <2>2, <2>3, <2>4
<1>7. CASE Sweep
  BY <1>s, <1>t, <1>7 DEF Sweep, Goto, Phases, Undoing, Loops, database, human
<1>8. CASE Drop
  BY <1>s, <1>t, <1>8 DEF Drop, Return, Phases, Undoing, Loops, disk, human
<1>9. CASE Refused
  BY <1>s, <1>t, <1>9 DEF Refused, Return, Phases, Undoing, Loops, database, disk, human
<1>10. CASE Plan
  BY <1>s, <1>t, <1>10 DEF Plan, Return, Phases, Undoing, Loops, database, human
<1>11. CASE Recheck
  BY <1>s, <1>t, <1>11
     DEF Recheck, Goto, Return, Phases, Undoing, Loops, database, disk, human
<1>12. CASE StageFile
  BY <1>s, <1>t, <1>12 DEF StageFile, Goto, Phases, Undoing, Loops, database, human
<1>13. CASE Prepare
  BY <1>s, <1>t, <1>13 DEF Prepare, Goto, Phases, Undoing, Loops, disk, human
<1>14. CASE Announce BY <1>s, <1>t, <1>m, <1>14, Rephased DEF Announce, Phases, disk
<1>15. CASE CheckFile
  BY <1>s, <1>t, <1>15
     DEF CheckFile, Goto, Phases, Undoing, Loops, database, disk, human
<1>16. CASE Replace
  BY <1>s, <1>t, <1>16 DEF Replace, Phases, Undoing, Loops, database, human
<1>17. CASE Mark
  BY <1>s, <1>t, <1>17 DEF Mark, Goto, Phases, Undoing, Loops, disk, human
<1>18. CASE WriteNote
  BY <1>s, <1>t, <1>18 DEF WriteNote, Goto, Phases, Undoing, Loops, database, human
<1>19. CASE MarkNote BY <1>s, <1>t, <1>m, <1>19, Rephased DEF MarkNote, Phases, disk
<1>20. CASE Complete BY <1>s, <1>t, <1>m, <1>20, Rephased DEF Complete, Phases, disk
<1>21. CASE Tidy
  BY <1>s, <1>t, <1>21 DEF Tidy, Goto, Phases, Undoing, Loops, database, human
<1>22. CASE Finish
  BY <1>s, <1>t, <1>22 DEF Finish, Return, Phases, Undoing, Loops, disk, human
<1>23. CASE Fail
  BY <1>s, <1>t, <1>23
     DEF Fail, Goto, Phases, Undoing, Loops, PublishLabels, database, disk, human
<1>24. CASE Failing
  <2>1. mem \in Payload /\ Working BY <1>t, <1>m, <1>24 DEF Failing, Phases
  <2>2. /\ journal'.files = mem.files /\ journal'.old = mem.old
        /\ journal'.published = mem.published /\ SameButFor(mem, journal')
    BY <1>24, <2>1, Rephased DEF Failing
  <2>3. mem.published \subseteq mem.files
    BY <1>t, <2>1, PayloadParts DEF Payloads, Consistent
  <2>4. edits' = 0 => WorkOnFiles BY <1>24 DEF Failing, FilesInv, human
  <2>5. UNCHANGED <<patch, backup>> /\ pc' = "idle" BY <1>24 DEF Failing, disk, Return
  <2> QED BY <2>1, <2>2, <2>3, <2>4, <2>5 DEF WorkOnFiles, SameButFor
<1>25. CASE Crash
  <2>1. UNCHANGED <<patch, backup, journal, edits>> /\ pc' = "idle"
    BY <1>25 DEF Crash, disk, database, human, Return
  <2>2. ~restored /\ CrashPoint # "unmarked" BY <1>25 DEF Crash, CrashPoint
  <2>3. ASSUME edits = 0, Unfinished, NEW d \in journal.published
        PROVE  patch[d] = journal.new[d] /\ backup[d] = journal.old[d]
    <3>1. CASE ~Working BY <1>s, <2>2, <2>3, <3>1
    <3>2. CASE Working
      <4>1. SameWork /\ mem # None BY <1>t, <2>3, <3>2 DEF Phases, Journalled
      <4>2. journal.published = mem.published
        BY <2>2, <4>1 DEF CrashPoint, SameWork
      <4>3. mem.published \subseteq mem.files BY <1>t, <4>1 DEF Payloads, Consistent
      <4> QED BY <2>3, <3>2, <4>1, <4>2, <4>3 DEF FilesInv, WorkOnFiles, SameWork
    <3> QED BY <3>1, <3>2
  <2> QED BY <2>1, <2>3
<1>26. CASE Annotate
  BY <1>s, <1>t, <1>26 DEF Annotate, Phases, Undoing, Loops, database, control
<1>27. CASE Rewrite
  BY <1>s, <1>t, <1>27 DEF Rewrite, Phases, Undoing, Loops, database, control
<1>28. CASE Edit BY <1>s, <1>t, <1>28, CountsGrow DEF Edit, control, database
<1>29. CASE Quiet
  BY <1>s, <1>t, <1>29
     DEF Quiet, Phases, Undoing, Loops, vars, disk, database, control, human
<1>30. CASE UNCHANGED vars BY <1>s, <1>30 DEF vars, database, control, disk, human
<1> QED
  BY <1>1, <1>2, <1>3, <1>4, <1>5, <1>6, <1>7, <1>8, <1>9, <1>10, <1>11, <1>12, <1>13,
     <1>14, <1>15, <1>16, <1>17, <1>18, <1>19, <1>20, <1>21, <1>22, <1>23, <1>24, <1>25,
     <1>26, <1>27, <1>28, <1>29, <1>30
     DEF Next, Recovery, Publish

\* Each step but an annotation keeps the notes as written or as before.
LEMMA NotedStep ==
    ASSUME StructureInv, StillNoted, [Next]_vars
    PROVE  StillNoted'
<1> SUFFICES ASSUME annotates' = 0
             PROVE  /\ Working' => \A c \in mem'.notes :
                         note'[<<mem'.tip, c>>] \in {mem'.path[c], mem'.oldnote[c]}
                    /\ Unfinished' => \A c \in journal'.notes :
                         note'[<<journal'.tip, c>>] \in {journal'.path[c], journal'.oldnote[c]}
  BY DEF StillNoted
<1> USE DEF Working, Unfinished
<1>t. TypeOK /\ Payloads /\ Phases /\ Loops BY DEF StructureInv
<1>m. mem # None => mem \in Payload BY <1>t DEF TypeOK
<1>j. journal # None => journal \in Payload BY <1>t DEF TypeOK
<1>y. note \in [Tip \X Commit -> MaybeDest] BY <1>t DEF TypeOK
<1>a. annotates = 0 /\ ~Annotate BY <1>t, CountsGrow
<1>n. /\ Working => \A c \in mem.notes :
           note[<<mem.tip, c>>] \in {mem.path[c], mem.oldnote[c]}
      /\ Unfinished => \A c \in journal.notes :
           note[<<journal.tip, c>>] \in {journal.path[c], journal.oldnote[c]}
  BY <1>a DEF StillNoted
<1>1. CASE Begin BY <1>n, <1>t, <1>1 DEF Begin, Goto, Phases, database, disk
<1>2. CASE Recover BY <1>n, <1>t, <1>2 DEF Recover, Goto, Phases, database, disk
<1>3. CASE UndoNote
  <2>0. Unfinished /\ ~Working /\ ~Working' /\ journal' = journal
    BY <1>t, <1>3 DEF UndoNote, Phases, database, Goto, Return
  <2>1. journal \in Payload /\ todo \subseteq journal.notes /\ journal.notes \subseteq Commit
        /\ journal.tip \in Tip
    BY <1>j, <1>t, <1>3, <2>0, PayloadParts DEF Loops, UndoNote
  <2>2. CASE UNCHANGED note BY <1>n, <2>0, <2>2
  <2>3. CASE \E c \in todo : note' = [note EXCEPT ![<<journal.tip,
     c>>] = journal.oldnote[c]]
    <3>1. PICK c \in todo : note' = [note EXCEPT ![<<journal.tip, c>>] = journal.oldnote[c]]
      BY <2>3
    <3>2. \A e \in Commit :
             note'[<<journal.tip, e>>] = IF e = c THEN journal.oldnote[c]
                                         ELSE note[<<journal.tip, e>>]
      BY <1>y, <2>1, <3>1, NoteWritten
    <3> QED BY <1>n, <2>0, <2>1, <3>2
  <2> QED BY <1>3, <2>2, <2>3 DEF UndoNote
<1>4. CASE UndoFile
  BY <1>n, <1>t, <1>4 DEF UndoFile, Goto, Return, Phases, database, disk
<1>5. CASE Restore BY <1>n, <1>t, <1>5 DEF Restore, Return, Phases, database
<1>6. CASE CleanFile BY <1>n, <1>t, <1>6 DEF CleanFile, Goto, Phases, database
<1>7. CASE Sweep BY <1>n, <1>t, <1>7 DEF Sweep, Goto, Phases, database
<1>8. CASE Drop BY <1>n, <1>t, <1>8 DEF Drop, Return, Phases, disk
<1>9. CASE Refused BY <1>n, <1>t, <1>9 DEF Refused, Return, Phases, database, disk
<1>10. CASE Plan
  <2>1. journal = None /\ journal' = None BY <1>t, <1>10 DEF Plan, Phases, database
  <2>2. CASE Return("idle") BY <2>1, <2>2 DEF Return
  <2>3. CASE \E p \in Plans : mem' = Planned(p)
    <3>1. PICK p \in Plans : mem' = Planned(p) BY <2>3
    <3>2. /\ mem'.tip = commits /\ mem'.oldnote = [c \in Commit |-> NoteOf(c)]
          /\ mem'.notes = {c \in Series(text) : ~Explicit(c)}
      BY <1>t, <3>1, PlannedPayload
    <3>3. mem'.notes \subseteq Commit BY <3>2 DEF Series
    <3>4. note' = note BY <1>10 DEF Plan
    <3> QED BY <2>1, <3>2, <3>3, <3>4 DEF NoteOf
  <2> QED BY <1>10, <2>2, <2>3 DEF Plan
<1>11. CASE Recheck
  BY <1>n, <1>t, <1>11 DEF Recheck, Goto, Return, Phases, database, disk
<1>12. CASE StageFile
  <2>0. journal' = journal /\ note' = note BY <1>12 DEF StageFile, database
  <2>1. CASE Goto("prepare", {}) BY <1>n, <1>12, <2>0, <2>1 DEF StageFile, Goto
  <2>2. CASE \E d \in todo :
             mem' = [mem EXCEPT !.files = @ \cup {d}, !.old[d] = patch[d],
                          !.backed = IF patch[d] = Absent THEN @ ELSE @ \cup {d}]
    <3>1. PICK d \in todo :
             mem' = [mem EXCEPT !.files = @ \cup {d}, !.old[d] = patch[d],
                          !.backed = IF patch[d] = Absent THEN @ ELSE @ \cup {d}]
      BY <2>2
    <3>2. mem \in Payload /\ d \in Dest /\ patch[d] \in MaybeContent
      BY <1>t, <1>m, <1>12 DEF StageFile, Loops, Target, TypeOK, Phases
    <3>3. SameButFor(mem, mem') BY <3>1, <3>2, OneStaged
    <3> QED BY <1>n, <1>12, <2>0, <3>3 DEF StageFile, SameButFor
  <2> QED BY <1>12, <2>1, <2>2 DEF StageFile
<1>13. CASE Prepare BY <1>n, <1>t, <1>13 DEF Prepare, Goto, Phases, disk
<1>14. CASE Announce
  BY <1>n, <1>t, <1>m, <1>14, Rephased DEF Announce, SameButFor, Phases, disk
<1>15. CASE CheckFile BY <1>n, <1>t, <1>15 DEF CheckFile, Goto, Phases, database, disk
<1>16. CASE Replace
  <2>1. mem \in Payload /\ cur \in Dest
    BY <1>t, <1>m, <1>16, PayloadParts DEF Replace, Phases, Loops
  <2>2. SameButFor(mem, mem') BY <1>16, <2>1, OnePublished DEF Replace
  <2> QED BY <1>n, <1>16, <2>2 DEF Replace, SameButFor, database
<1>17. CASE Mark BY <1>n, <1>t, <1>17 DEF Mark, Goto, Phases, disk
<1>18. CASE WriteNote
  <2>1. mem \in Payload /\ todo \subseteq mem.notes /\ mem.notes \subseteq Commit
        /\ mem.tip \in Tip
    BY <1>t, <1>m, <1>18, PayloadParts DEF WriteNote, Phases, Loops
  <2>2. SameWork /\ Working BY <1>t, <1>18 DEF WriteNote, Phases, Journalled
  <2>3. UNCHANGED <<mem, journal>> BY <1>18 DEF WriteNote, database, Goto
  <2>4. CASE UNCHANGED note BY <1>n, <2>2, <2>3, <2>4
  <2>5. CASE \E c \in todo : note' = [note EXCEPT ![<<mem.tip, c>>] = mem.path[c]]
    <3>1. PICK c \in todo : note' = [note EXCEPT ![<<mem.tip, c>>] = mem.path[c]]
      BY <2>5
    <3>2. \A e \in Commit :
             note'[<<mem.tip, e>>] = IF e = c THEN mem.path[c] ELSE note[<<mem.tip, e>>]
      BY <1>y, <2>1, <3>1, NoteWritten
    <3>3. \A e \in mem.notes :
             note'[<<mem.tip, e>>] \in {mem.path[e], mem.oldnote[e]}
      BY <1>n, <2>1, <2>2, <3>2
    <3> QED BY <2>2, <2>3, <3>3 DEF SameWork
  <2> QED BY <1>18, <2>4, <2>5 DEF WriteNote
<1>19. CASE MarkNote
  BY <1>n, <1>t, <1>m, <1>19, Rephased DEF MarkNote, SameButFor, Phases, disk
<1>20. CASE Complete
  BY <1>n, <1>t, <1>m, <1>20, Rephased DEF Complete, SameButFor, Phases, disk
<1>21. CASE Tidy BY <1>n, <1>t, <1>21 DEF Tidy, Goto, Phases, database
<1>22. CASE Finish BY <1>n, <1>t, <1>22 DEF Finish, Return, Phases, disk
<1>23. CASE Fail
  BY <1>n, <1>t, <1>23 DEF Fail, Goto, Phases, PublishLabels, database, disk
<1>24. CASE Failing
  BY <1>n, <1>t, <1>m, <1>24, Rephased DEF Failing, SameButFor, Return, Phases, disk
<1>25. CASE Crash BY <1>n, <1>t, <1>25 DEF Crash, Return, Phases, database, disk
<1>26. CASE Rewrite
  <2>1. UNCHANGED <<pc, todo, cur, mem, journal>>
    BY <1>26 DEF Rewrite, control, database
  <2>2. ASSUME Working
        PROVE  \A c \in mem.notes : note'[<<mem.tip, c>>] = note[<<mem.tip, c>>]
    <3>1. mem \in Payload /\ Consistent(mem) BY <1>t, <1>m, <2>2 DEF Payloads, Phases
    <3> QED BY <1>26, <3>1, PayloadParts, RewrittenNotes
  <2>3. ASSUME Unfinished
        PROVE  \A c \in journal.notes : note'[<<journal.tip, c>>] = note[<<journal.tip, c>>]
    <3>1. journal \in Payload /\ Consistent(journal) BY <1>t, <1>j, <2>3 DEF Payloads
    <3> QED BY <1>26, <3>1, PayloadParts, RewrittenNotes
  <2> QED BY <1>n, <2>1, <2>2, <2>3
<1>27. CASE Edit BY <1>n, <1>t, <1>27 DEF Edit, Phases, database, control
<1>28. CASE Quiet BY <1>n, <1>t, <1>28 DEF Quiet, Phases, vars, disk, database, control
<1>29. CASE UNCHANGED vars BY <1>n, <1>29 DEF vars, database, control, disk
<1> QED
  BY <1>a, <1>1, <1>2, <1>3, <1>4, <1>5, <1>6, <1>7, <1>8, <1>9, <1>10, <1>11, <1>12,
     <1>13, <1>14, <1>15, <1>16, <1>17, <1>18, <1>19, <1>20, <1>21, <1>22, <1>23, <1>24,
     <1>25, <1>26, <1>27, <1>28, <1>29
     DEF Next, Recovery, Publish

\* Before an edit or an annotation a recovery finds each file and note as the
\* export left it or as it was before.
LEMMA RefusalStep ==
    ASSUME StructureInv, FilesInv, StillPublished, StillNoted, RefusesOnlyForeign,
           [Next]_vars
    PROVE  RefusesOnlyForeign'
<1>t. TypeOK /\ Payloads /\ Phases /\ Loops BY DEF StructureInv
<1>c. edits \in Nat /\ annotates \in Nat BY <1>t DEF TypeOK
<1>g. (edits > 0 \/ annotates > 0) => RefusesOnlyForeign'
  BY <1>t, CountsGrow DEF RefusesOnlyForeign
<1>1. CASE UndoNote
  <2>1. CASE pc' = "refused"
    <3>1. PICK c \in todo : note[<<journal.tip, c>>] \notin {journal.path[c], journal.oldnote[c]}
      BY <1>1, <2>1 DEF UndoNote, Goto
    <3>2. Unfinished /\ c \in journal.notes BY <1>1, <1>t DEF UndoNote, Phases, Loops
    <3>3. annotates # 0 BY <3>1, <3>2 DEF StillNoted
    <3> QED BY <1>c, <1>g, <3>3
  <2> QED BY <2>1 DEF RefusesOnlyForeign
<1>2. CASE UndoFile
  <2>1. CASE pc' = "refused"
    <3>1. PICK d \in todo : d \in journal.published /\ patch[d] # journal.new[d]
      BY <1>2, <2>1 DEF UndoFile, Goto
    <3>2. Unfinished /\ ~Working BY <1>2, <1>t DEF UndoFile, Phases, Undoing, Working
    <3>3. edits # 0 BY <1>2, <3>1, <3>2 DEF StillPublished, UndoFile
    <3> QED BY <1>c, <1>g, <3>3
  <2> QED BY <2>1 DEF RefusesOnlyForeign
<1>3. CASE Restore
  <2>1. CASE pc' = "refused"
    <3>1. cur \in journal.backed /\ backup[cur] = Absent
      BY <1>3, <2>1 DEF Restore
    <3>2. Unfinished /\ ~Working BY <1>3, <1>t DEF Restore, Phases, Undoing, Working
    <3>3. cur \in journal.published /\ cur \in todo BY <1>3, <1>t DEF Restore, Loops
    <3>4. journal.old[cur] # Absent
      BY <1>t, <3>1, <3>2 DEF Payloads, Consistent, Unfinished
    <3>5. edits # 0 BY <1>3, <3>1, <3>2, <3>3, <3>4 DEF StillPublished, Restore
    <3> QED BY <1>c, <1>g, <3>5
  <2> QED BY <2>1 DEF RefusesOnlyForeign
<1>4. CASE UNCHANGED pc BY <1>4, <1>g DEF RefusesOnlyForeign
<1>5. CASE ~UNCHANGED pc /\ ~(UndoNote \/ UndoFile \/ Restore)
  <2>1. pc' # "refused"
     BY <1>5
        DEF Next, Recovery, Publish, vars, control, Goto, Return, Begin, Recover,
            CleanFile, Sweep, Drop, Refused, Plan, Recheck, StageFile, Prepare, Announce,
            CheckFile, Replace, Mark, WriteNote, MarkNote, Complete, Tidy, Finish, Fail,
            Failing, Crash, Annotate, Rewrite, Edit, Quiet
  <2> QED BY <2>1 DEF RefusesOnlyForeign
<1> QED BY <1>1, <1>2, <1>3, <1>4, <1>5

\* _recover_export_operation says "changed externally" only of what somebody
\* changed, when no kill hits the two windows in which its own steps leave a file
\* that the journal does not describe.
THEOREM RefusalsAreForeign ==
    ASSUME "unmarked" \notin CrashPoints, "restored" \notin CrashPoints
    PROVE  Spec => []RefusesOnlyForeign
<1> DEFINE Inv == /\ StructureInv /\ FilesInv /\ StillPublished /\ StillNoted
                  /\ RefusesOnlyForeign
<1>1. Init => Inv
  <2> SUFFICES ASSUME Init PROVE Inv OBVIOUS
  <2>1. pc = "idle" /\ journal = None BY DEF Init
  <2>2. StillPublished /\ StillNoted /\ RefusesOnlyForeign
    BY <2>1 DEF StillPublished, StillNoted, RefusesOnlyForeign, Unfinished, Working
  <2> QED BY <2>2, StructureInit, FilesInit
<1>2. Inv /\ [Next]_vars => Inv'
  BY StructureStep, FilesStep, PublishedStep, NotedStep, RefusalStep
<1>3. Inv => RefusesOnlyForeign OBVIOUS
<1> QED BY <1>1, <1>2, <1>3, PTL DEF Spec
=============================================================================
