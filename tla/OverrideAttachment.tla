------------------------- MODULE OverrideAttachment -------------------------
(***************************************************************************)
(* Attaching workspaces to Buildroot configurations: attach_workspace,     *)
(* detach_workspace, the detaching part of close_workspace, and the        *)
(* recovery of interrupted ones (workspaces.py), with the locks the        *)
(* manager takes around them (manager.py).                                 *)
(*                                                                         *)
(* A configuration has ONE override file, shared by all its packages.  It  *)
(* is a sequence of lines, each assigning a path to the override variable  *)
(* of a package; Make lets the last assignment win.  A line with id 0 was  *)
(* written by a human, one with another id is the managed block of the     *)
(* operation with that id.  A line says which newlines are its own: sep,   *)
(* one before it, and ended, one at its end.  Hashes are compared as the   *)
(* contents they are hashes of.                                            *)
(*                                                                         *)
(* Several processes run the operations.  Every change of a file, every    *)
(* database transaction and every read that is used later is a step, and a *)
(* process may be killed between any two steps.                            *)
(***************************************************************************)
EXTENDS Naturals, Sequences, FiniteSets, SequencesExt

CONSTANTS
    Proc,           \* manager processes
    Config,         \* Buildroot configurations
    Package,        \* Buildroot packages
    Workspace,      \* workspaces, all open at the start
    PackageOf,      \* the package a workspace is for
    OriginOf,       \* the configuration a workspace was opened from
    Contents,       \* override file contents before the manager's first step
    Elsewhere,      \* the source path human-written lines assign
    NoFile,         \* the override file does not exist
    None,           \* a NULL or absent value
    MaxOps,         \* bound: operations begun, of all processes
    MaxCrashes,     \* bound: processes killed
    CrashPoints     \* steps before which a process may be killed

VARIABLES
    file,           \* the override file of every configuration
    backup,         \* contents of the .bak files on disk, by operation id
    staged,         \* ids of the operations whose .new file is on disk
    row,            \* table workspace_attachments
    journal,        \* table workspace_operations, in order, by workspace
    retired,        \* workspaces with retired_at set
    loc,            \* control state and locals of every process
    issued,         \* operation ids handed out (uuid4 never repeats)
    begun,          \* operations begun
    crashes         \* processes killed so far

disk == <<file, backup, staged>>
database == <<row, journal, retired>>
counters == <<issued, begun, crashes>>
vars == <<disk, database, loc, counters>>

ASSUME AttachmentAssumption ==
    /\ PackageOf \in [Workspace -> Package]
    /\ OriginOf \in [Workspace -> Config]
    /\ Elsewhere \notin Workspace
    /\ None \notin Workspace \cup {Elsewhere}
    /\ MaxOps \in Nat /\ MaxCrashes \in Nat

\* The rows there can be: a package in a configuration has one attachment.
Cell == Config \X Package

-----------------------------------------------------------------------------
(* Override files *)

\* Ids of operations; the lines of humans have id 0.
Id == Nat \ {0}

Path == Workspace \cup {Elsewhere}
Line == [id : Nat, pkg : Package, path : Path, sep : BOOLEAN, ended : BOOLEAN]
Content == Seq(Line) \cup {NoFile}

\* The bytes an absent file is taken to have.
Lines(c) == IF c = NoFile THEN <<>> ELSE c

\* Before the manager's first step only humans have written; their last line
\* may lack its newline.
ASSUME ContentsAssumption ==
    /\ Contents \subseteq Content
    /\ NoFile \notin Seq(Line)
    /\ \A c \in Contents : \A i \in DOMAIN Lines(c) :
         /\ Lines(c)[i].id = 0 /\ ~ Lines(c)[i].sep
         /\ i < Len(Lines(c)) => Lines(c)[i].ended

\* effective_source_override: what Make reports for the package's variable.
Effective(c, pkg) ==
    LET assigned == {i \in DOMAIN Lines(c) : Lines(c)[i].pkg = pkg}
    IN  IF assigned = {} THEN None ELSE Lines(c)[Max(assigned)].path

\* Where the elements with an id stand in a sequence of lines or of operations,
\* and the sequence without the first of them.
Places(s, id) == {i \in DOMAIN s : s[i].id = id}
Removed(s, id) ==
    IF Places(s, id) = {} THEN s ELSE RemoveAt(s, Min(Places(s, id)))

\* content.count(block)
Occurrences(c, id) == Cardinality(Places(Lines(c), id))

\* The block attach_workspace appends: markers with the operation's id around
\* an assignment of the checkout's path, and before them the newline that the
\* bytes read lack at their end.  That one is part of the block from then on.
ManagedBlock(id, w, needsSeparator) ==
    [id |-> id, pkg |-> PackageOf[w], path |-> w, sep |-> needsSeparator, ended |-> TRUE]

\* Mutant of NeedsSeparator: the block is appended as it is.
NeverNeedsSeparator(c) == FALSE

NeedsSeparator(c) == Lines(c) # <<>> /\ ~ Last(Lines(c)).ended

\* Mutant of Restored: every assignment to the variable of the block's
\* package goes, the human's shadowed line too.
RestoredForPackage(c, id) ==
    LET mine == {Lines(c)[i].pkg : i \in {j \in DOMAIN Lines(c) : Lines(c)[j].id = id}}
    IN  SelectSeq(Lines(c), LAMBDA l : l.pkg \notin mine)

\* content.replace(block, b"", 1)
Restored(c, id) == Removed(Lines(c), id)

\* A marker of some managed block and an assignment for this package: the
\* attachment is refused as already containing an unrecorded block.
UnrecordedBlock(c, pkg) ==
    /\ \E i \in DOMAIN Lines(c) : Lines(c)[i].id # 0
    /\ \E i \in DOMAIN Lines(c) : Lines(c)[i].pkg = pkg

-----------------------------------------------------------------------------
(* Journal *)

Kind == {"attach", "detach", "close"}

Operation ==
    [id : Id, kind : Kind, cfg : Config,
     phase : {"prepared", "published", "complete"},
     published : BOOLEAN, remove : BOOLEAN, backed : BOOLEAN,
     old : Content, new : Content]

Attachment ==
    [ws : Workspace, id : Id, created : BOOLEAN,
     prior : Path \cup {None}]

ASSUME AbsentAssumption == None \notin Attachment

\* save_operation: insert, or update the row with the same id in place.
Saved(log, op) ==
    IF Places(log, op.id) = {}
    THEN Append(log, op)
    ELSE [i \in DOMAIN log |-> IF log[i].id = op.id THEN op ELSE log[i]]

\* delete_operation
Dropped(log, id) == Removed(log, id)

WorkspaceKey(w) == <<"workspace", w>>
ConfigKey(c, pkg) == <<"config", c, pkg>>
Key == {WorkspaceKey(w) : w \in Workspace}
           \cup {ConfigKey(c, pkg) : c \in Config, pkg \in Package}

-----------------------------------------------------------------------------
(* Processes *)

Label == {"idle", "locking", "pending", "recover", "undo", "clean", "forget",
          "row", "read", "stage", "prepare", "check", "replace", "mark",
          "recheck", "unlink", "markremove", "verify", "complete", "rollback",
          "tidy", "finish", "preflight", "next", "saveclose", "retire"}

ASSUME CrashAssumption == CrashPoints \subseteq Label

Idle == [pc |-> "idle", kind |-> None, ws |-> None, cfg |-> None,
         pkg |-> None, keys |-> {}, seen |-> None, orig |-> NoFile,
         op |-> None, att |-> None, todo |-> <<>>, after |-> "idle",
         rest |-> {}]

Local ==
    [pc : Label, kind : Kind \cup {None}, ws : Workspace \cup {None},
     cfg : Config \cup {None}, pkg : Package \cup {None}, keys : SUBSET Key,
     seen : Path \cup {None}, orig : Content, op : Operation \cup {None},
     att : Attachment \cup {None}, todo : Seq(Operation), after : Label,
     rest : SUBSET Cell]

TypeOK ==
    /\ file \in [Config -> Content]
    /\ DOMAIN backup \subseteq Id
    /\ \A id \in DOMAIN backup : backup[id] \in Seq(Line)
    /\ staged \subseteq Id
    /\ row \in [Cell -> Attachment \cup {None}]
    /\ journal \in [Workspace -> Seq(Operation)]
    /\ retired \subseteq Workspace
    /\ loc \in [Proc -> Local]
    /\ issued \in Nat
    /\ begun \in 0 .. MaxOps
    /\ crashes \in 0 .. MaxCrashes

Init ==
    /\ file \in [Config -> Contents]
    /\ backup = <<>>
    /\ staged = {}
    /\ row = [cp \in Cell |-> None]
    /\ journal = [w \in Workspace |-> <<>>]
    /\ retired = {}
    /\ loc = [p \in Proc |-> Idle]
    /\ issued = 0
    /\ begun = 0
    /\ crashes = 0

At(p, label) == loc[p].pc = label
Go(p, label) == loc' = [loc EXCEPT ![p].pc = label]

\* The operation returns or raises: its locks are released.
End(p) == loc' = [loc EXCEPT ![p] = Idle]

Pkg(p) == PackageOf[loc[p].ws]
File(p) == file[loc[p].cfg]
With(f, id, c) == [x \in DOMAIN f \cup {id} |-> IF x = id THEN c ELSE f[x]]
Without(f, id) == [x \in DOMAIN f \ {id} |-> f[x]]
Save(p, op) == journal' = [journal EXCEPT ![loc[p].ws] = Saved(@, op)]

-----------------------------------------------------------------------------
(* Beginning an operation: manager.py computes the keys and waits for them *)

Begin(p, kind, w, c, pkg, keys) ==
    /\ At(p, "idle")
    /\ begun < MaxOps
    /\ begun' = begun + 1
    /\ loc' = [loc EXCEPT ![p] =
          [Idle EXCEPT !.pc = "locking", !.kind = kind, !.ws = w, !.cfg = c,
                       !.pkg = pkg, !.keys = keys, !.after = "row"]]
    /\ UNCHANGED <<disk, database, issued, crashes>>

\* Mutant of AttachKeys: attach serializes on the workspace only.
WorkspaceKeyOnly(w, c) == {WorkspaceKey(w)}

AttachKeys(w, c) == {WorkspaceKey(w), ConfigKey(c, PackageOf[w])}

BeginAttach(p, w, c) == Begin(p, "attach", w, c, PackageOf[w], AttachKeys(w, c))

\* detach_workspace looks the attachment and its owner up BEFORE locking.
BeginDetach(p, c, pkg) ==
    LET found == row[<<c, pkg>>]
        owner == IF found = None THEN {} ELSE {WorkspaceKey(found.ws)}
    IN  Begin(p, "detach", None, c, pkg, {ConfigKey(c, pkg)} \cup owner)

BeginClose(p, w) ==
    Begin(p, "close", w, OriginOf[w], PackageOf[w],
          {WorkspaceKey(w), ConfigKey(OriginOf[w], PackageOf[w])})

Running(q) == loc[q].pc \notin {"idle", "locking"}

KeysFree(p) ==
    \A q \in Proc \ {p} : Running(q) => loc[q].keys \cap loc[p].keys = {}

\* Mutant of LockWorkspace: the override then effective is not noted.
LockUninspected(p) ==
    /\ At(p, "locking")
    /\ loc[p].kind \in {"attach", "close"}
    /\ KeysFree(p)
    /\ IF loc[p].ws \in retired THEN End(p) ELSE Go(p, "pending")
    /\ UNCHANGED <<disk, database, counters>>

\* The locks are held.  attach and close look up the workspace, which must not
\* be retired; attach inspects the package, with the override then effective.
LockWorkspace(p) ==
    /\ At(p, "locking")
    /\ loc[p].kind \in {"attach", "close"}
    /\ KeysFree(p)
    /\ IF loc[p].ws \in retired
       THEN End(p)
       ELSE loc' = [loc EXCEPT ![p].pc = "pending",
                               ![p].seen = Effective(File(p), Pkg(p))]
    /\ UNCHANGED <<disk, database, counters>>

\* detach reads the attachment again and works on the owner it finds now.
LockDetach(p) ==
    /\ At(p, "locking")
    /\ loc[p].kind = "detach"
    /\ KeysFree(p)
    /\ LET found == row[<<loc[p].cfg, loc[p].pkg>>]
       IN  IF found = None
           THEN End(p)
           ELSE loc' = [loc EXCEPT ![p].pc = "pending", ![p].att = found,
                                   ![p].ws = found.ws, ![p].after = "read"]
    /\ UNCHANGED <<disk, database, counters>>

-----------------------------------------------------------------------------
(* Recovery: recover_workspace_operations and _recover_file_operation *)

\* close recovers by itself before it detaches anything, and resumes its own
\* operation when there is one.
OwnRecovery(p) == loc[p].kind = "close" /\ loc[p].att = None

Pending(p) ==
    /\ At(p, "pending")
    /\ LET log == journal[loc[p].ws]
           closes == {i \in DOMAIN log : log[i].kind = "close"}
       IN  IF OwnRecovery(p)
           THEN IF closes = {}
                THEN loc' = [loc EXCEPT ![p].pc = "recover", ![p].todo = log,
                                        ![p].after = "preflight"]
                ELSE loc' = [loc EXCEPT ![p].pc = "recover",
                                        ![p].todo = RemoveAt(log, Min(closes)),
                                        ![p].op = log[Min(closes)],
                                        ![p].after = "retire"]
           ELSE loc' = [loc EXCEPT ![p].pc = "recover", ![p].todo = log]
    /\ UNCHANGED <<disk, database, counters>>

Item(p) == Head(loc[p].todo)

\* The file is as the interrupted operation published it.
AsPublished(item) ==
    \/ item.remove /\ file[item.cfg] = NoFile
    \/ file[item.cfg] = item.new

MustRestore(item) == item.phase # "complete" /\ item.published

\* Recovery raises on a close operation and on a file changed meanwhile.
Unrecoverable(item) ==
    \/ item.kind = "close"
    \/ MustRestore(item) /\ ~ AsPublished(item)

\* close forgets a complete operation without removing its files.
RecoveryOf(p) ==
    CASE MustRestore(Item(p)) -> "undo"
      [] Item(p).phase = "complete" /\ OwnRecovery(p) -> "forget"
      [] OTHER -> "clean"

\* Decide how to recover the next operation of the snapshot.
Recover(p) ==
    /\ At(p, "recover")
    /\ \/ /\ loc[p].todo = <<>>
          /\ IF loc[p].after = "idle" THEN End(p) ELSE Go(p, loc[p].after)
       \/ /\ loc[p].todo # <<>>
          /\ IF Unrecoverable(Item(p)) THEN End(p) ELSE Go(p, RecoveryOf(p))
    /\ UNCHANGED <<disk, database, counters>>

\* os.replace(backup, destination), or unlink a file the operation created.
Undo(p) ==
    /\ At(p, "undo")
    /\ LET item == Item(p)
           lost == item.backed /\ item.id \notin DOMAIN backup
       IN  IF lost
           THEN End(p) /\ UNCHANGED <<file, backup>>
           ELSE /\ file' = [file EXCEPT ![item.cfg] =
                              IF item.backed THEN backup[item.id] ELSE NoFile]
                /\ backup' = Without(backup, item.id)
                /\ Go(p, "clean")
    /\ UNCHANGED <<staged, database, counters>>

\* staged.unlink(missing_ok), backup.unlink(missing_ok)
Clean(p) ==
    /\ At(p, "clean")
    /\ staged' = staged \ {Item(p).id}
    /\ backup' = Without(backup, Item(p).id)
    /\ Go(p, "forget")
    /\ UNCHANGED <<file, database, counters>>

\* Mutant of Forget: the loop does not advance.
ForgetForever(p) ==
    /\ At(p, "forget")
    /\ journal' = [journal EXCEPT ![loc[p].ws] = Dropped(@, Item(p).id)]
    /\ Go(p, "recover")
    /\ UNCHANGED <<disk, row, retired, counters>>

Forget(p) ==
    /\ At(p, "forget")
    /\ journal' = [journal EXCEPT ![loc[p].ws] = Dropped(@, Item(p).id)]
    /\ loc' = [loc EXCEPT ![p].pc = "recover", ![p].todo = Tail(@)]
    /\ UNCHANGED <<disk, row, retired, counters>>

-----------------------------------------------------------------------------
(* attach_workspace and detach_workspace up to the publication *)

\* attach with an attachment already recorded checks it and changes nothing.
LookUpRow(p) ==
    /\ At(p, "row")
    /\ IF row[<<loc[p].cfg, Pkg(p)>>] # None THEN End(p) ELSE Go(p, "read")
    /\ UNCHANGED <<disk, database, counters>>

\* The new contents are computed from the bytes read here.
ReadOverride(p) ==
    /\ At(p, "read")
    /\ LET refused ==
              IF loc[p].kind = "attach"
              THEN UnrecordedBlock(File(p), Pkg(p))
              ELSE \/ File(p) = NoFile
                   \/ Occurrences(File(p), loc[p].att.id) # 1
       IN  IF refused
           THEN End(p)
           ELSE loc' = [loc EXCEPT ![p].pc = "stage", ![p].orig = File(p)]
    /\ UNCHANGED <<disk, database, counters>>

\* A closing process runs detach_workspace.
StepKind(p) == IF loc[p].kind = "attach" THEN "attach" ELSE "detach"

NewContent(p, id) ==
    IF loc[p].kind = "attach"
    THEN Append(Lines(loc[p].orig),
                ManagedBlock(id, loc[p].ws, NeedsSeparator(loc[p].orig)))
    ELSE Restored(loc[p].orig, loc[p].att.id)

\* Write and fsync the .new file; copy an existing destination to .bak.
Stage(p) ==
    /\ At(p, "stage")
    /\ LET id == issued + 1
           exists == File(p) # NoFile
       IN  /\ issued' = id
           /\ staged' = staged \cup {id}
           /\ backup' = IF exists THEN With(backup, id, File(p)) ELSE backup
           /\ loc' = [loc EXCEPT
                 ![p].pc = "prepare",
                 ![p].op = [id |-> id, kind |-> StepKind(p), cfg |-> loc[p].cfg,
                            phase |-> "prepared", published |-> FALSE,
                            remove |-> FALSE, backed |-> exists,
                            old |-> NoFile, new |-> NewContent(p, id)]]
    /\ UNCHANGED <<file, database, begun, crashes>>

\* Hash the destination once more and journal the operation as prepared.
Prepare(p) ==
    /\ At(p, "prepare")
    /\ LET op == [loc[p].op EXCEPT !.old = File(p)]
       IN  /\ Save(p, op)
           /\ loc' = [loc EXCEPT ![p].pc = "check", ![p].op = op]
    /\ UNCHANGED <<disk, row, retired, counters>>

\* "override file changed before ..." leaves the operation journalled.
Check(p) ==
    /\ At(p, "check")
    /\ IF File(p) = loc[p].op.old THEN Go(p, "replace") ELSE End(p)
    /\ UNCHANGED <<disk, database, counters>>

\* os.replace(staged, destination); the staged file may be gone.
Replace(p) ==
    /\ At(p, "replace")
    /\ LET op == loc[p].op
       IN  IF op.id \in staged
           THEN /\ file' = [file EXCEPT ![op.cfg] = op.new]
                /\ staged' = staged \ {op.id}
                /\ Go(p, "mark")
           ELSE End(p) /\ UNCHANGED <<file, staged>>
    /\ UNCHANGED <<backup, database, counters>>

\* The journal learns that the file was replaced.
MarkPublished(p) ==
    /\ At(p, "mark")
    /\ LET op == [loc[p].op EXCEPT !.published = TRUE, !.phase = "published"]
           empties == /\ op.kind = "detach"
                      /\ op.new = <<>>
                      /\ loc[p].att.created
       IN  /\ Save(p, op)
           /\ loc' = [loc EXCEPT ![p].pc = IF empties THEN "recheck" ELSE "verify",
                                 ![p].op = op]
    /\ UNCHANGED <<disk, row, retired, counters>>

\* detach: a file the attachment created is removed when nothing is left in it.
Recheck(p) ==
    /\ At(p, "recheck")
    /\ Go(p, IF File(p) = <<>> THEN "unlink" ELSE "rollback")
    /\ UNCHANGED <<disk, database, counters>>

UnlinkEmpty(p) ==
    /\ At(p, "unlink")
    /\ IF File(p) = NoFile
       THEN Go(p, "rollback") /\ UNCHANGED file
       ELSE /\ file' = [file EXCEPT ![loc[p].cfg] = NoFile]
            /\ Go(p, "markremove")
    /\ UNCHANGED <<backup, staged, database, counters>>

MarkRemoved(p) ==
    /\ At(p, "markremove")
    /\ LET op == [loc[p].op EXCEPT !.remove = TRUE]
       IN  /\ Save(p, op)
           /\ loc' = [loc EXCEPT ![p].pc = "verify", ![p].op = op]
    /\ UNCHANGED <<disk, row, retired, counters>>

\* Ask Make for the effective override and compare it with the expected one.
Verify(p) ==
    /\ At(p, "verify")
    /\ LET expected == IF StepKind(p) = "attach" THEN loc[p].ws
                                                 ELSE loc[p].att.prior
       IN  Go(p, IF Effective(File(p), Pkg(p)) = expected
                 THEN "complete" ELSE "rollback")
    /\ UNCHANGED <<disk, database, counters>>

-----------------------------------------------------------------------------
(* Completion: one transaction over the attachment and the journal *)

Completed(log, op) ==
    [i \in DOMAIN log |->
        IF log[i].id = op.id THEN [op EXCEPT !.phase = "complete"] ELSE log[i]]

\* Mutant of CompleteAttachment: the journal entry is not completed in the
\* transaction that inserts or deletes the attachment.
CompleteRowOnly(p) ==
    /\ At(p, "complete")
    /\ LET cp == <<loc[p].cfg, Pkg(p)>>
       IN  row' = [row EXCEPT ![cp] =
              IF StepKind(p) = "attach"
              THEN [ws |-> loc[p].ws, id |-> loc[p].op.id,
                    created |-> loc[p].orig = NoFile, prior |-> loc[p].seen]
              ELSE None]
    /\ Go(p, "tidy")
    /\ UNCHANGED <<disk, journal, retired, counters>>

\* complete_attachment_operation; the primary key of the table refuses a
\* second attachment of the package, and the caller rolls its file back.
CompleteAttachment(p) ==
    /\ At(p, "complete")
    /\ LET cp == <<loc[p].cfg, Pkg(p)>>
           attaching == StepKind(p) = "attach"
       IN  IF attaching /\ row[cp] # None
           THEN Go(p, "rollback") /\ UNCHANGED <<row, journal>>
           ELSE /\ row' = [row EXCEPT ![cp] =
                      IF attaching
                      THEN [ws |-> loc[p].ws, id |-> loc[p].op.id,
                            created |-> loc[p].orig = NoFile,
                            prior |-> loc[p].seen]
                      ELSE None]
                /\ journal' = [journal EXCEPT ![loc[p].ws] =
                                  Completed(@, loc[p].op)]
                /\ Go(p, "tidy")
    /\ UNCHANGED <<disk, retired, counters>>

\* An exception after the publication: recover this one operation, as the
\* journal has it, and raise.
Rollback(p) ==
    /\ At(p, "rollback")
    /\ LET log == journal[loc[p].ws]
           mine == Places(log, loc[p].op.id)
       IN  IF mine = {}
           THEN End(p)
           ELSE loc' = [loc EXCEPT ![p].pc = "recover",
                                   ![p].todo = <<log[Min(mine)]>>,
                                   ![p].after = "idle"]
    /\ UNCHANGED <<disk, database, counters>>

\* _finish_file_operation
Tidy(p) ==
    /\ At(p, "tidy")
    /\ backup' = Without(backup, loc[p].op.id)
    /\ Go(p, "finish")
    /\ UNCHANGED <<file, staged, database, counters>>

Finish(p) ==
    /\ At(p, "finish")
    /\ journal' = [journal EXCEPT ![loc[p].ws] = Dropped(@, loc[p].op.id)]
    /\ IF loc[p].kind = "close"
       THEN loc' = [loc EXCEPT ![p].pc = "next", ![p].op = None]
       ELSE End(p)
    /\ UNCHANGED <<disk, row, retired, counters>>

-----------------------------------------------------------------------------
(* close_workspace: detach everything, journal the close, retire *)

Attached(w) == {cp \in DOMAIN row : row[cp] # None /\ row[cp].ws = w}

\* Every attachment's block is verified before the first is detached.
Preflight(p) ==
    /\ At(p, "preflight")
    /\ LET mine == Attached(loc[p].ws)
       IN  IF \E cp \in mine : Occurrences(file[cp[1]], row[cp].id) # 1
           THEN End(p)
           ELSE loc' = [loc EXCEPT ![p].pc = "next", ![p].rest = mine]
    /\ UNCHANGED <<disk, database, counters>>

\* Mutant of DetachNext: the workspace is closed with its attachments.
DetachNothing(p) ==
    /\ At(p, "next")
    /\ Go(p, "saveclose")
    /\ UNCHANGED <<disk, database, counters>>

\* detach_workspace for the next attachment; it looks the row up again.
DetachNext(p) ==
    /\ At(p, "next")
    /\ IF loc[p].rest = {}
       THEN Go(p, "saveclose")
       ELSE \E cp \in loc[p].rest :
               loc' = [loc EXCEPT ![p].rest = @ \ {cp},
                          ![p].cfg = cp[1], ![p].att = row[cp],
                          ![p].after = "read",
                          ![p].pc = IF row[cp] = None THEN "next" ELSE "pending"]
    /\ UNCHANGED <<disk, database, counters>>

SaveClose(p) ==
    /\ At(p, "saveclose")
    /\ LET op == [id |-> issued + 1, kind |-> "close", cfg |-> loc[p].cfg,
                  phase |-> "prepared", published |-> FALSE, remove |-> FALSE,
                  backed |-> FALSE, old |-> NoFile, new |-> NoFile]
       IN  /\ issued' = op.id
           /\ Save(p, op)
           /\ loc' = [loc EXCEPT ![p].pc = "retire", ![p].op = op]
    /\ UNCHANGED <<disk, row, retired, begun, crashes>>

\* complete_close_operation, after the worktree and the refs are gone.
Retire(p) ==
    /\ At(p, "retire")
    /\ retired' = retired \cup {loc[p].ws}
    /\ journal' = [journal EXCEPT ![loc[p].ws] = Dropped(@, loc[p].op.id)]
    /\ End(p)
    /\ UNCHANGED <<disk, row, counters>>

-----------------------------------------------------------------------------

\* The process is killed; the kernel drops its locks.
Crash(p) ==
    /\ Running(p)
    /\ loc[p].pc \in CrashPoints
    /\ crashes < MaxCrashes
    /\ crashes' = crashes + 1
    /\ End(p)
    /\ UNCHANGED <<disk, database, issued, begun>>

BeginSome(p) ==
    \/ \E w \in Workspace, c \in Config : BeginAttach(p, w, c)
    \/ \E c \in Config, pkg \in Package : BeginDetach(p, c, pkg)
    \/ \E w \in Workspace : BeginClose(p, w)

Step(p) ==
    \/ LockWorkspace(p) \/ LockDetach(p)
    \/ Pending(p) \/ Recover(p) \/ Undo(p) \/ Clean(p) \/ Forget(p)
    \/ LookUpRow(p) \/ ReadOverride(p) \/ Stage(p) \/ Prepare(p) \/ Check(p)
    \/ Replace(p) \/ MarkPublished(p) \/ Recheck(p) \/ UnlinkEmpty(p)
    \/ MarkRemoved(p) \/ Verify(p) \/ CompleteAttachment(p) \/ Rollback(p)
    \/ Tidy(p) \/ Finish(p)
    \/ Preflight(p) \/ DetachNext(p) \/ SaveClose(p) \/ Retire(p)

AllIdle == \A p \in Proc : At(p, "idle")

\* Nothing left to do within the bounds.
Quiet == AllIdle /\ begun = MaxOps /\ UNCHANGED vars

Next ==
    \/ \E p \in Proc : BeginSome(p) \/ Step(p) \/ Crash(p)
    \/ Quiet

Spec == Init /\ [][Next]_vars

\* A running operation goes on (its subprocesses return); nobody has to begin
\* one, and nobody has to crash.
FairSpec == Spec /\ \A p \in Proc : WF_vars(Step(p))

-----------------------------------------------------------------------------
(* Properties *)

\* The attachment table of the code is the registry: reading each row as its
\* workspace, every step of every operation, recovery or crash is a step of
\* the registry or leaves it alone.  In particular no attachment refers to a
\* closed workspace, and none changes hands without being detached.
Registry == INSTANCE AttachmentRegistry WITH
    holder <- [cp \in DOMAIN row |->
                 IF row[cp] = None THEN None ELSE row[cp].ws],
    closed <- retired

ImplementsRegistry == Registry!Spec

\* At rest, and when recovery has no published operation left to roll back, the
\* attachments recorded in the table and the managed blocks in the override
\* files are the same, one for one: each attachment has its block once, which
\* detach, attach and close insist on before they act, and no block is left
\* that no operation would ever remove.
BlocksMatchRows ==
    /\ AllIdle
    /\ \A w \in Workspace : \A i \in DOMAIN journal[w] : ~ MustRestore(journal[w][i])
    =>
        /\ \A cp \in DOMAIN row :
              row[cp] # None => Occurrences(file[cp[1]], row[cp].id) = 1
        /\ \A c \in Config : \A i \in DOMAIN Lines(file[c]) :
              LET line == Lines(file[c])[i]
              IN  line.id # 0 => /\ row[<<c, line.pkg>>] # None
                                 /\ row[<<c, line.pkg>>].id = line.id

\* At rest, and as long as nobody was killed, removing the recorded block gives
\* back the effective value that was recorded when it was added, so the
\* attachment can be detached.
DetachWouldRestore ==
    AllIdle /\ crashes = 0 => \A cp \in DOMAIN row :
        row[cp] # None =>
            Effective(Restored(file[cp[1]], row[cp].id), cp[2]) = row[cp].prior

Humans(c) == Places(Lines(c), 0)

\* Both contents have the same human-written lines in the same order: those of
\* one correspond one to one to those of the other.
SameHumanLines(c, d) ==
    \E f \in [Humans(c) -> Humans(d)] :
        /\ \A i \in Humans(c) : Lines(d)[f[i]] = Lines(c)[i]
        /\ \A i, j \in Humans(c) : i < j => f[i] < f[j]
        /\ \A k \in Humans(d) : \E i \in Humans(c) : f[i] = k

\* Nothing separates a line from the one after it.
RunsOn(c, i) ==
    /\ i + 1 \in DOMAIN Lines(c)
    /\ ~ Lines(c)[i].ended /\ ~ Lines(c)[i + 1].sep

\* The manager never adds, drops or reorders a line a human wrote, nor joins one
\* to what follows it, through any interleaving, rollback or crash (the humans
\* of this model write before the manager's first step).  It is false of files
\* without a newline at their end in which several packages are attached:
\* removing the first block takes the newline that was added for it.
HumanLinesKept ==
    [][\A c \in Config :
         /\ SameHumanLines(file[c], file'[c])
         /\ \A i \in Humans(file'[c]) : ~ RunsOn(file'[c], i)]_vars

\* The attachment row and its journal entry change in one transaction, so what
\* recovery believes of an entry is true of the row: of an entry that recovery
\* would roll back, an attachment is not recorded yet and a detached one still
\* is; of a complete entry it is the other way round.
RowAgreesWithJournal ==
    \A w \in Workspace : \A i \in DOMAIN journal[w] :
        LET op == journal[w][i]
            found == row[<<op.cfg, PackageOf[w]>>]
        IN  /\ op.kind = "attach" =>
                 (found # None /\ found.id = op.id <=> op.phase = "complete")
            /\ op.kind = "detach" =>
                 (found # None /\ found.ws = w <=> op.phase # "complete")

\* Every operation that is begun ends (it returns or raises).
OperationsEnd == \A p \in Proc : ~ At(p, "idle") ~> At(p, "idle")
=============================================================================
