# Verification of paper-resources

This directory models the core of `tools/paper-resources`, the program of this
repository that keeps documentation, Git sources and *patch workspaces* for the
Kindle 3 Buildroot tree. It holds TLA+ modules, the TLC configurations that check
them on small instances, and TLAPS proofs for every value of the constants.
`PROJECT.json` lists the runs, a mutation of the code for each property, the source
lines of each definition, the hazards and the theorems.

Paths below are relative to `src/tools/paper-resources/src/paper_resources/`.

Check from this directory:

    tlc -workers 2 -config MCLifecycle.cfg MCWorkspaceLifecycle    # any run of PROJECT.json
    tlapm WorkspaceLifecycleProofs.tla                             # any *Proofs module

## 1. Inventory

The repository is a Buildroot tree (kernel and bootloader patches, device trees,
configurations, boot scripts: data for other programs) with one program of its own,
paper-resources: a command line (`cli.py`) and an MCP server (`mcp_server.py`) over
one manager (`manager.py`), a SQLite catalogue (`database.py`), shared bare Git
repositories, and several indexes. Each process runs one operation at a time; any
number of processes run at once. They meet in the database, in the Git repositories,
in lock files and in files of the project, which humans edit as well.

| component | state | operations | what makes it hard |
|---|---|---|---|
| operation locks (`workspace_store.operation_locks`) | lock files, `flock` held by a process | take all keys of an operation, run, release | several keys each, death while holding or waiting |
| workspaces (`workspaces.open_workspace`, `close_workspace`) | row, checkout, branch, notes ref, import record, close journal | open with clean-up, close in journalled phases | eight steps in three stores, kills between them, humans in the checkout |
| attachments (`attach_workspace`, `detach_workspace`, `_publish_override_change`) | a block in the Buildroot override file, a row, a journal entry, `.new`/`.bak` files | attach, detach, detaching close, recovery | one file shared by packages and humans, locks per workspace and per configuration and package, kills |
| patch export (`export_workspace`, `patch_export.py`) | patch files, notes, record of the last export, journal, `.new`/`.bak` files | plan, stage, publish, record, recover, annotate | many files replaced one by one, kills, failing steps, humans who rewrite commits and edit patches |
| export planning (`patch_export.plan_export`) | none | number and name the patches of a series | gaps between anchors, collisions, layers |
| schema (`database.open_database`) | schema version and tables | create, migrate, refuse | a kill between migration steps |
| document index (`catalog_index.py`) | documents, their extraction and fingerprint | synchronise with the manifest, report the status | documents that swap unique paths, extractions that fail, two runs at once |
| ctags session (`ctags.py`) | a child process, two threads, two pipes, a queue; rows it remembers | submit, take events, drain, close | late or malformed answers, a dying child, consumers that give up, everybody waiting |
| code index (`ctags_index.py`, `repository_index.py`) | revisions and their pins, analyses shared by revisions, path rows | synchronise, prune, analyse or reuse, write paths | re-pinned and local revisions, partial failures, cascades |
| code navigation (`code_navigation.py`) | none of its own; ids and cursors its clients keep | search, trace, read, outline, compare | the index changes between two requests; ranges, budgets, scopes with repeated names |
| Git sources (`git_resources.py`, `artifacts.py`) | a bare repository, refs, worktrees | fetch, construct revisions from patches in dependency order, place and move worktrees, check | interrupted constructions, moving upstream, worktrees humans use |
| Buildroot inspection, source search, front ends | none of their own | queries, parsing, dispatch | - |

How they interact: the manager takes the locks of an operation and calls the
functions of `workspaces.py`, which call `workspace_store.py` for single SQLite
transactions, Git for refs and checkouts, and the file system. A mutating operation on
several stores writes a row of `workspace_operations` (the *journal*) first and after
each step; the next operation of the same workspace recovers what is pending.

What correctness means, component by component: locks exclude, never deadlock and
never leak; a ready workspace is whole, a closed one is gone, and nobody's work is
discarded unasked (which an interrupted close does not keep, see section 3); attachment table, override file and journal agree, and every
attachment can be taken back leaving the humans' lines; patch files, notes and the
record of an export change together or not at all, and the names planned keep the order
of the series; an answer of ctags is taken for its own request; the indexes are what
building them from nothing would give, and a failure costs nothing that was there;
populating gives what checking asks for and leaves the work of humans alone; what a
client reads is complete or says that it is not.

## 2. Modules

| module | models | constants that bound it |
|---|---|---|
| `OperationLocks` | `operation_locks` step by step: sorted keys, one `flock` after another, body, reverse release, exceptions, process death | operations, number of keys, families of key sets |
| `AttachmentRegistry` | abstract: which workspace a configuration uses for a package | - |
| `OverrideAttachment` | attach, detach, the detaching part of close, and recovery, with the manager's locks, the override file as a sequence of lines, `.new`/`.bak`, journal and rows | `MaxOps`, `MaxCrashes`, `CrashPoints`, `Contents` |
| `AtomicExport` | abstract: patch files and record change together | - |
| `PatchPlan` | `plan_export` and `_allocate_run`: kept paths, runs between anchors, numbering, names in text order, refusals; and the edits of a series that lead to them | `Base`, `PadTo`, `MaxCommits`, `MaxEdits` |
| `ExportJournal` | any plan, staging, publishing, notes, completion, failure, recovery; annotate; rewritten commits; edited files | `MaxRuns`, `MaxCommits`, `MaxAnnotates`, `MaxCrashes`, `MaxFaults`, `MaxEdits` |
| `WorkspaceLifecycle` | `open_workspace` with its clean-up, every phase of `close_workspace`, kills, raising steps, humans at the checkout | `MaxOpens`, `MaxCrashes`, `MaxFaults`, `MaxHuman` |
| `CtagsSession` | the session, its reader and writer threads, the child, and the consumer `store_blob_analysis` with its transaction | `Chunks`, `PipeSize`, `QueueSize`, `MaxRequests`, `Faults`, `Answers` |
| `CodeIndex` | `index_repositories` over `synchronize_catalog`: one action per transaction and per query whose answer is used later, processes with different manifests, workspaces registering revisions | `MaxRuns`, `MixedOverlap` |
| `CodeNavigation` | storing tags and resolving their scopes; searches page by page, traces, batches of source, outlines and comparisons, while files are indexed again | `MaxAnalyses`, `MaxAsked`, budgets and limits |
| `RepositoryPopulation` | `populate` and `check_repository`: fetch, construction in a temporary worktree, refs, worktrees | `MaxRuns`, `MaxEdits` |
| `DocumentIndex` | `index_documents`, one transaction per document, and `index_status` | `MaxRuns`, `MaxEdits`, `FilesMove` |
| `SetOrder` | a set as a sequence in a given order | - |
| `LocksAndNavigationProofs` (of `OperationLocks` and `CodeNavigation`), `WorkspaceLifecycleProofs`, `CodeIndexProofs`, `ExportJournalProofs`, `OverrideAttachmentProofs`, `DocumentIndexProofs`, `CtagsSessionProofs`, `RepositoryPopulationProofs` | proofs | - |
| `MC...` | instances for TLC: constant functions, symmetry | - |

The correspondence is the same everywhere. An operation of the code is a sequence of
actions, one per step that another process, a kill or a human can get in front of: a
transaction, a Git command, a file replacement, a blocking call. `pc` holds the step to
come, and what the function keeps in local variables is in `job`, `mem`, `loc`, `run` or
`call`, which a kill forgets; tables, refs and files survive. A step that may raise leads
to the handler the code has. Reads that only decide whether the operation is refused are
guards or choices of the first step.

How the modules fit together:

- `OverrideAttachment` contains the locks of `OperationLocks` at the level its theorems
  give (keys are taken in one step and exclude); `WorkspaceLifecycle` uses that the locks
  leave one operation at a time for one workspace name.
- `OverrideAttachment` and `ExportJournal` cover in detail what `WorkspaceLifecycle` has
  as the single steps `Detach` and `Export`; `PatchPlan` computes the plan that
  `ExportJournal` takes as any assignment of free paths, so what holds there holds of the
  plans the code makes.
- `OverrideAttachment` implements `AttachmentRegistry` and `ExportJournal` implements
  `AtomicExport` (`INSTANCE ... WITH`, checked as `ImplementsRegistry` and
  `ImplementsAtomic`).
- `CtagsSession` is in detail what `CodeIndex` has as `Store` and `StoreFails` (one transaction);
  `CodeNavigation` has it as `Analyse`.
- `RepositoryPopulation` brings the objects that `CodeIndex` takes from `Populate`.

### What is abstracted

Contents of files are sequences of lines with an owner (in an override file also with the
newlines that belong to them), numbers, or model values; hashes are contents; the replay of
an export by Git succeeds or fails. Formatting of patches, the Make language and the rebuild
advice are left out. Commits are positions in the export
range, or sequences of the patches they were made from. The order of rows in a table is
left out where the code sorts them. A record of ctags is its kind and its request; one
language stands for all. In `CodeNavigation` a revision is the blob of its one path, and of the
filters of a search only the name is there.

## 3. Runs

Bounds are small on purpose: they are those where each kind of interference can still
happen to each step.

| run | question | bounds and why they are enough |
|---|---|---|
| `locks` | no waiting in a cycle, everybody served (fair) | three operations over three keys: cycles of two and three, chains of waiting |
| `attach` | file and table agree at rest; every attachment can be undone; the tables implement `AttachmentRegistry`; human lines kept, in files with and without a newline at the end | three processes, two workspaces of one package, five operations and one kill: attach, attach again, detach and close overlap, and the next operation of a killed one's workspace recovers; no kill between replacing the file and flagging that (`CrashPoints`) |
| `attach_crash` | entries of attach and of detach agree with the rows; human lines kept; operations end (fair) | two packages sharing the override file, three operations, one kill anywhere: an interrupted operation, its recovery, and one that runs beside it; no file, or one that ends with a newline |
| `export` | patch files and record change together (`AtomicExport`); each unfinished export can be undone | two paths, two commits, three exports, one rewrite of the history, one failing step and two kills, so that a recovery is killed as well |
| `export_humans` | recovery refuses only foreign changes; notes follow the files | the same with an annotation and an edited patch file, one kill |
| `lifecycle` | ready is whole, closed is gone, failed opens leave nothing, humans' directories are spared, a close resumes (fair) | three ids (open, fail, open, close, open again), two kills, two raising steps, three human acts |
| `session` | an answer belongs to its request; only committed rows are remembered; whole analyses are stored; every call returns, and so does close (fair) | three requests (one disturbed, one after it, one reusing its rows), pipes and queue of one element so that each fills, requests of two writes, well-formed and malformed answers, a child that dies while it works or after its last answer |
| `code_index` | rows are of the pinned trees; after a run alone "ok" is as good as a rebuild, and what it failed on or was not asked for is left; local revisions stay | two runs, also at once and killed; three revisions, one registered by a workspace; two paths, three blobs of which commits share some; two versions of ctags |
| `population` | populate, then check, finds nothing; failures have reasons outside; work in worktrees is left alone | two runs, also at once and killed; a fetched revision and two made from patches, one on top of the other; two worktrees; two steps of humans or of upstream |
| `documents` | reports agree with the status; failures keep the row; repeated full runs bring to date what nothing blocks | four runs of two processes, one changed file; manifests where two documents swap paths or move one after the other, tags or extractors change, a file cannot be extracted |
| `patch_plan` | only patches the notes name are written over; exporting again changes nothing; refusals are forced | series of at most four commits, three edits; names of up to two digits in base 5, so that widths differ |
| `navigation` | pages and batches are complete; traces are faithful; scopes, outlines and comparisons are true and agree | two files with every pair of five sources (nested scopes of one name, reopened scopes, definitions on one line, no ends, one changed line), three changes of the index, pages of one and two |

In the runs no constraint prunes the state space: bounds are guards of the actions
that begin something. `CHECK_DEADLOCK FALSE` stands where the instance may properly stop
when no operation is left to begin: `lifecycle`, `session`, `code_index`, `population`,
`documents`, `patch_plan` and `navigation`.

Fairness. `OperationLocks`: a process that can go on does, and so does one whose lock
file stays free (weak fairness; every operation of the model runs once, so a waiter
is not overtaken for ever, and nothing stronger is assumed of `flock`).
`OverrideAttachment` and `WorkspaceLifecycle`: a running operation takes its next step
(weak fairness; nothing in these operations waits except for locks), and whoever
began a close tries again. `CtagsSession`: threads run, ctags reads, prints and goes on
while it lives, and the consumer goes on with the event it has (weak fairness each; that
ctags answers at all is what the code relies on, it has no timeout). Nothing is assumed of
kills, faults or humans.

`CloseResumes` has an exception: a kill inside `git worktree remove`, between
deleting the checkout and taking it off Git's list, leaves a state close refuses for
good (`workspaces.py:1537`), and so may a directory a human made at the path.

### Known divergences

Nine configurations show the code doing something else than its documentation says, or
losing what the properties of the runs ask for; TLC reports a violation for each, with the
trace. They stand beside the runs.

- `tlc -config MCLostUpdate.cfg MCOverrideAttachment` violates `BlocksMatchRows`:
  attachments of two packages of one configuration rewrite one override file under
  different locks (`manager.py:398`), and a recorded block is lost
  (`workspaces.py:1272`). `workspace_store.py:29`: "Serialize manager mutations without
  pretending to lock human Git use."
- `tlc -config MCUnlockedOwner.cfg MCOverrideAttachment` violates `BlocksMatchRows`:
  detach chooses its locks from a row it reads before it has any (`manager.py:414`), so
  it runs at the same time as a close of that workspace, whose recovery rolls it back.
  Same sentence.
- `tlc -config MCAttachUnmarked.cfg MCOverrideAttachment` violates `BlocksMatchRows`: a
  kill between replacing the override file and flagging that in the journal
  (`workspaces.py:1210`) leaves a block, which the recovery to come takes for unpublished, or
  takes one from a row. `README.md:158-159`: "detachment restores the exact prior bytes
  and effective value", but detach then finds no attachment or no block. The run `attach`
  excludes this one window (`CrashPoints`).
- `tlc -config MCExportUnmarked.cfg MCExportJournal` violates `ImplementsAtomic`: a kill
  between replacing a patch and flagging that in the journal makes recovery forget the
  export and leave its patch (`workspaces.py:1096`). `README.md:140-141`: "Publishing
  journals individual atomic file replacements and recovers or safely rolls back
  interrupted operations." The runs exclude this one window (`CrashPoints`).
- `tlc -config MCCloseDiscards.cfg MCWorkspaceLifecycle` violates `WorkProtected`: a
  close that was interrupted is resumed without looking at the checkout again, so work
  done meanwhile is deleted (`workspaces.py:1522`). `agent-guide.md:170-171`:
  "`close_workspace` without force protects dirty or unexported work and changed patch
  outputs." A close that is not interrupted has nothing to protect after the check of its
  first step but what is done while it runs; so the property is stated in this configuration only.
- `tlc -config MCJoinedLine.cfg MCOverrideAttachment` violates `HumanLinesKept`: to a file that
  lacks the newline at its end two packages are attached, and the first is detached. The
  newline `_managed_block` puts before the first block belongs to that block
  (`workspaces.py:1163`) and goes with it, so the human's last line and the marker of the second
  block become one line. Every byte of the human is still there, Make takes the marker for a
  comment, and detaching the second package as well restores the file; `README.md:157` has
  "Attachments shadow but do not rewrite an unmanaged assignment". The runs have two packages
  with files that end with a newline, and files without one with one package.
- `tlc -config MCCodeIndexOverlap.cfg MCCodeIndex` violates `OverlapRebuilt`: of two runs with one
  manifest and one ctags, the first looks for the analysis of a blob and finds none
  (`ctags_index.py:514`), the second stores it, writes the paths and reports the revision as ok,
  and the first replaces the analysis without looking again (`ctags_index.py:318`), which deletes
  those paths by cascade. They come back when the first writes its own, if it gets to. The
  tables are so at the end of the run that reported; `OkIsRebuilt` and `RestKept` speak of
  runs that had no other beside them.
- `tlc -config MCCodeIndexRepin.cfg MCCodeIndex` violates `RowsMatchPins`: a run gathers the paths of
  a revision, a run of another process with another manifest pins it to another commit, and the
  first writes what it has (`ctags_index.py:605`) under the new pin. The run `code_index`
  lets processes run at once only with the same manifest (`MixedOverlap`).
- `tlc -config MCCtagsTail.cfg MCCtagsSession` violates `CallsReturn`: a consumer that fails on an
  event `analyze` yields after it has read "completed" (the profile of a blob without
  tags) closes the generator, which drains an answer that was already read to its end
  and waits for ever (`ctags.py:590`). `ctags.py:306`: "Consume the rest of a cancelled
  request so the session stays aligned." The run `session` lets consumers fail on the
  events before that (`Faults`).

Excluded from the runs by a named constant or bound, because the code does not handle it:

- `Faults` of `session` holds only `die`. If ctags dies after an answer it has not read
  up to and another request follows (`dieAnswered`), `_finish_request` takes the end of the output from the queue and
  raises for the writer, the session is free again, and the next request waits for a
  record that no thread is left to bring. `Aligned`, `CacheCommitted` and
  `StoredIsWhole` hold with all faults.
- `MixedOverlap = FALSE` in `code_index`: processes that run at once have the same
  manifest, the local revisions merged into it included, and the same ctags. With different
  manifests `RowsMatchPins` is false (`MCCodeIndexRepin.cfg`); runs one after the other may
  have any. What `OkIsRebuilt`, `RestKept` and `LocalKept` say does not depend on it.
- `RestKept` excepts rows whose blob was analysed anew for another ctags: replacing an
  analysis deletes, by cascade, the rows of revisions the run was not asked to index too; they
  come back when those are indexed.
- `FilesMove = FALSE` in `documents`: a file is not replaced between the check of its
  checksum and its extraction (`catalog_index.py:513`). If it is, the fingerprint vouches
  for the text of the other file.
- `BlocksMatchRows` does not speak of a workspace whose journal has a published operation. A
  kill leaves one for the next operation of the workspace to roll back; a kill while a
  rollback or the removal of an emptied file is under way leaves one that recovery refuses, as
  the file is not as published (`workspaces.py:1374`), until a human restores the file.
- In the attachment and lifecycle runs: an inspection made before recovery
  (`manager.py:407`), so that after a killed attach a prior value is recorded that
  detaching never finds again; close detaching in every configuration under the lock of
  one (`workspaces.py:1502`); annotating during a pending export (`workspaces.py:715`); a
  patch edited between the check of the plan and its staging (`workspaces.py:1063`); a
  killed open, which leaves refs and a checkout that every later open refuses to adopt
  (`workspaces.py:449`).

## 4. Proofs

`LocksAndNavigationProofs` holds the proofs about two components that share no state.

Operation locks, for any operations, any number of keys and any families of key
sets. `LocksInvariant` proves the inductive `LocksInv`: mutual exclusion alone is not
inductive, one needs that an operation inside its body holds all it named and that
acquisition goes upwards. From it `BodiesExclude`, `LocksDropped`, and `DeadlockFree`:
in a cycle of waiting operations the one that waits for the greatest key would hold a
greater one (a greatest element of a bounded set, by well-founded induction from the
library). Assumption: `LocksAssumption` (a finite number of keys, key sets over them).
What is proved there (`LocksInv`, `MutualExclusion`, `NothingLeftLocked`) is not checked
by a run again.

Code navigation, for any sources, histories, symbols, page sizes, match limits and any number of
analyses; the theorems have no hypothesis. `SearchOrder` and `SearchPage` say what one page is:
the matches after the cursor, each at its rank in the total order of names and ids, as many as
the limit allows, and all matches left out come after those listed (a rank is a cardinality, so
that every rank is taken is the pigeonhole principle of the library). `TagsAfter` says that storing or
forgetting a blob leaves the tags of all others as they were, ids included, and gives new ones
only ids that are free. `PagesAreComplete` needs `Paging`: while the search goes on the
cursor is the last position listed, and what was there from the beginning is listed or comes
after it; that positions are ordered throughout, adjacent or not, is what carries over a page.
A cursor outlives its tag for that reason: it is a position, and the tags after it do not
move. `TracesAreFaithful` needs `TracedSoFar`: the steps are adjacent ranges of revisions that end
just before the one the trace is at (`Chained`), and as long as the index has not
changed their matches are those of all revisions in them and differ from step to step.
Assumption: `CodeNavigationAssumption` (a page has at least one result, `None` is no id
and no cursor, definitions are inside of what they are in). TLC checked `PagesInv` and `TraceInv` on the
instance of `navigation` first.

`WorkspaceLifecycleProofs`, for any number of opens, kills, faults and human acts.
`LifecycleInvariant` proves the inductive `LifecycleInv`, `TypeOK` included. The safety
properties are not inductive: that a ready workspace is whole needs to know what an open
has made when it marks it ready (`OpenProgress`); that a closed one is gone needs what the
phase in the journal promises (`JournalPromise`) and how far the running close has
come (`CloseProgress`); both need that ids are new (`FreshIds`) and that a name has one
row (`OneRow`). From it `ReadyWorkspacesWhole`, `ClosedWorkspacesGone`,
`FailedOpensTidy` and `ForeignDirectoriesSpared`. Nothing is proved about `WorkProtected`, which
is false of the code. Steps that only let things disappear are treated
together (`Fading`). Assumptions: bounds are natural numbers and the special values
differ from ids (`LifecycleAssumption`, `NullAssumption`).

`CodeIndexProofs`, for any processes, revisions, trees, manifests and number of runs.
`LocalRevisionsKept`: a synchronisation deletes a revision for its pin only if its plan
has another one, and plans never have another pin for a local revision
(`PlansTrueToLocals`); runs with different manifests may overlap. `RowsTrueToPins` has the
hypothesis `MixedOverlap = FALSE`, which cannot be dropped (`MCCodeIndexRepin.cfg`). `RowsMatchPins` is not inductive: the rows a run writes
at the end of a revision were gathered before, one file at a time, so one needs that they
come from the trees of its plan (`GatheredFromTrees`), that the plan is in the catalogue
once the run has synchronised it and stays so whatever other runs do (`Synced`,
`SamePlans`), and that the catalogue has a local revision only if a workspace
registered it.

`OkMeansRebuilt` and `RestStays` have no hypothesis: they speak of runs that had no other beside
them, and hold of those whatever manifests the others have and whatever overlapping, failed or
killed runs have left in the tables. Their invariant is `ReportInv`. Of a run that is alone and
has not ended one needs that all others are idle and what it knows (`AloneRuns`, `Findings`): a
revision is reported one step of the run and the run ends many steps later, while it stores
analyses for other revisions, so whatever was reported as ok is exact from then on (`OkExact`);
the rows gathered are analysed by its ctags and stay so (`Sound`, `Analysed`); the blob it is
about to analyse still has no analysis that could be used (`Lacking`), which is what another run
could spoil between the query and the store; the catalogue has the index flags of the plan and
no row of what it does not index (`IndexSynced`, `Pruned`); and the tables the run saw when it
began compare with those of now (`BeforeSane`, `Untouched`, `AnalysesLast`, `RowsLast`): an
analysis that was of this ctags already is never replaced, and no other row goes.
`Referenced`, a row always has its revision and its analysis, is for all runs. TLC checked
the parts of both invariants on the instance of `code_index` first.
Assumption: `CodeIndexAssumption`.

`ExportJournalProofs`, for any files, contents, commits, number of exports, kills,
faults and edits. `KeepsStructure` proves `StructureInv`, inductive on its own: types, that
stored and remembered payloads agree (`Payloads`), what each journal phase says of an entry
(`Phases`) and where the loops stand (`Loops`). `BackupsSuffice` proves `Restorable` as long
as nobody edits the files: one needs that the journal describes the files up to the point
the work has reached (`WorkOnFiles`), that a journal left behind describes them
(`JournalOfFiles`), and that those a recovery has restored have their old content
(`UndoneFiles`). With the same invariant and the notes' `NotesInv` every step is a step of
`AtomicExport` or a stutter: `ExportIsAtomic`. `NotesFollowFiles` has no hypothesis: the
notes are decided by the journal alone (`StillNoted`, `UndoneNotes`, `WrittenNotes`).
`RefusalsAreForeign` follows from `StillPublished`: a file of an unfinished export that has
been replaced has the new content or somebody else's. Hypotheses: the theorems about files
exclude `"unmarked"` from `CrashPoints`, the kill between `os.replace` and the flag in the
journal; `MCExportUnmarked.cfg` shows what happens there, so the hypothesis cannot be dropped.
`RefusalsAreForeign` excludes `"restored"` too, a kill after a restored file and before its
journal entry: the recovery after it finds a file that is as before the export, not as
published. Assumption:
`ExportAssumption`. All parts of the invariants were checked by TLC on the instances of
`export` and `export_humans` first.

`OverrideAttachmentProofs`, for any processes, workspaces, packages, contents of override
files, number of operations and kills. `AttachmentStructure` proves `StructureInv`:
`TypeOK`, and what each step needs to find in the locals of its process (`Presence`); recovery
runs in the middle of the operation that begins it and returns to it, so this speaks of
the step to come and of the one after recovery. `TablesAreARegistry` proves the
refinement of `AttachmentRegistry`. That an attach takes a free package and a workspace
retires without rows is decided long before the step that does it, so `RegistryInv` adds that
the locks held exclude each other (`Locks`), that an attach alone can be at its workspace
(`AttachAlone`), that a close has seen every row it has to detach (`CloseProgress`) and what
a close left in the journal says of the rows (`ClosingDetached`). `HumanLinesStay` proves
`HumanLinesKept`: every file staged, published, rolled back or put back from a `.bak` has the
human lines of the file it replaces. One needs, for each operation in a journal or in
the hands of a process, that its backup and its new content are faithful in that sense
(`Faithful`), and that ids are not issued twice; that a lock is missing (`MCLostUpdate.cfg`) costs a
block of the manager, never a line of a human. That no line is joined to the next needs `NeatInv`,
of every file, backup and content in a process's hands: either all lines end with a newline of
their own, or there is at most one block and it is the last line, so that removing it leaves
nothing behind the line it was separated from. The hypothesis says that one of the two is given
at the start: `AllEnded`, the files humans wrote end with a newline, or `OnePackage`; without it
the theorem is false (`MCJoinedLine.cfg`).

`RowsAgree` proves `RowAgreesWithJournal`, for entries of attach and of detach, with both
invariants, for one configuration. That a detach finds the row of its entry until its one
transaction deletes it needs that from its own recovery to its completion it has the journal of
its workspace for itself (`Alone` in `RowSafe`, from the locks), and that an entry left behind
keeps the row of its workspace whatever others do (`AgreesDetached`). With two configurations it is false, for the reason
`MCUnlockedOwner.cfg` shows: detach takes the owner from a row it reads before it locks, and
a close recovers the same entry under another lock.

`BlocksAgree` and `DetachRestores` relate the rows to the file, for any processes, workspaces,
human lines and number of operations, and have the hypothesis `OneCell`, one package of one
configuration: with two packages of one file `BlocksMatchRows` is false (`MCLostUpdate.cfg`), and
with two configurations as well (`MCUnlockedOwner.cfg`). Then whoever runs runs alone
(`StepAlone`), but it finds what others, killed or stopped by an error, have left behind. So
`AgreeInv` says what a journal may hold: each operation that recovery would roll back either
can be, its backup being a file that fits the row, or its content is not in the file
(`Revertible`); a file that does not fit the row is explained by such an operation
(`Answered`); no two workspaces have an entry of one id (`Apart`); and it says what the running
operation knows of the journal (`Follows`) and of file and row (`Sees`). A row or block of a
mere journal entry never stays, since an operation recovers its workspace before it reads. The hypothesis
that nobody is killed at `"mark"` cannot be dropped (`MCAttachUnmarked.cfg`).
`DetachRestores` adds `Calm`: with nobody killed, what is published and not recorded is the
running operation's own (`Tended`), so recovery never rolls anything back and the value
inspected at the beginning is still the one the package has when the block is written
(`Remembers`); that is what a kill breaks (`manager.py:407`). The lemmas about blocks
(`AppendedBlock`, `RemovedBlock`, `EffectiveAppend`, `RestoredAppend`) say that a block
appended assigns the path and that taking it out gives the lines from before.

Assumptions: `AttachmentAssumption`, `ContentsAssumption`, `AbsentAssumption`. TLC checked the
invariants on the instances of `attach_crash` and `attach` first.

`DocumentIndexProofs`, for any processes, documents, manifests, requests and number of runs
and edits. `FailuresKeepRows` has no hypothesis: a document still to come keeps its row as
one that failed does (`UntouchedKept`), which needs that a document is either to come, being
looked at or decided (`Lists`), and that a run which says it is alone is (`Alone`).
`OutcomesAgree` needs more than what it says of the report: a row is only compared by its
fingerprint, so every fingerprint must be true of the body beside it (`TruePrints`); and what
was verified and read before must still hold when the row is written (`Compared`). Its
hypothesis is `FilesMove = FALSE`; without it `TruePrints` is false, as said in section 3.
`RepeatedRunsConverge` has no hypothesis. Its invariant `ConvergeInv` counts the late documents,
those that could be brought to date and are not (`Late`): after k undisturbed full runs with one
manifest none is left or at most `Cardinality(Document)` - k are (`CalmRuns`). That each
such run takes at least one off needs three facts. While any document is late, one of them has its
path free: otherwise the late documents and the blocked ones would all be in each other's way
(`SomeFree`). Its path stays free until the run comes to it, since the run writes rows of the
manifest only, whose paths differ (`FreeStays`, `Progress`). And no step makes a document late
again or frees a blocked one to be late (`BlockedStays`, `LateShrinks`): a run that overlaps
another may compare with an old row, but not with an old fingerprint that is the manifest's
(`Fresh`). The proof gave the property its present form: per document instead of
for all or none, and with the number of documents as bound, where one run more used to be asked.
Assumption: `DocumentIndexAssumption`; the ids of all manifests are finitely many. TLC checked
the invariants on the instance of `documents` first, `ConvergeInv` with `FilesMove = TRUE` as well.

`CtagsSessionProofs`, for any answers that end with their one "completed", any sizes of pipes
and queue, any number of requests and all three faults; the theorems have no hypothesis. `CacheIsCommitted` is
inductive with the types alone. `SessionAligned` has the invariant `SessionInv`, which says
where everything of a request is: the chunks not read yet are those the writer and the pipe
have (`Chunked`), so ctags finds no rest of an earlier request; and the records the consumer
has not taken lie, in the order of the answer and one behind the other, in the queue, in the reader's
hands, in the pipe and in ctags (`InOrder`), the end of the output behind them (`Ended`). So
"completed" is taken last, and a request that is not the active one has left nothing
(`Requested`). `StoredWhole` adds what the events due look like (`Dues`, `EndOfEvents`) and that
the tags stored are those of the records taken (`Counted`). Assumption: `SessionAssumption`.
TLC checked all parts on the instance of `session`, with one fault and with all three, first.

`RepositoryPopulationProofs`, for any manifests, revisions, patches and worktrees and any number
of concurrent runs, kills and steps of humans; the theorems have no hypothesis. First,
`PinOfPins`: the recursive `PinOf` satisfies its equation, because every set of derived
revisions has one whose base is outside of it, which is the manifest's ban on cycles
(`manager.py`, `derived_from cycle`); the set of revisions without a pin is then empty. `Next` is reduced to what each
step does to one run (`Does`), and all invariants are proved against that. `Base` says that a
run keeps to its order and that no two runs share a temporary worktree. `WorkKept` adds `Clean`:
a worktree about to be moved is this repository's and clean, unless a human acted since the run
began. For the other two, `OwnStep` shows that only the steps of a run itself leave it
undisturbed; `Pinning` (what a run has done is as pinned) gives `DoneIsAsPinned`, and with
`Constructed` (the commit under construction is the base and the patches as the files are now) every
failing step has a reason, `FailureHasReason`. Assumption: `PopulationAssumption`. TLC checked
the parts on the instance of `population` first. The proof of `WorkKept` did
not go through for an earlier form of `MoveWorktree`, in which a checkout could succeed in a directory that had
replaced the worktree after the inspection: deleting, replacing and editing are more steps of
humans than the run's two. Git finds no such commit there, and the model now says so.

Only model-checked: the liveness properties (`EventuallyGranted`, `OperationsEnd`,
`CloseResumes`, `CallsReturn`), which the prover does not reach; `SourceComplete`,
`ScopesTrue` and `ViewsAgree` of `CodeNavigation`, and all properties of `PatchPlan`. They
say what is computed by recursion and folds over data (merged regions and their budgets,
qualified names and chains of scopes, the digits of a number and the runs of new patches), and
a proof for every input would need induction that the prover cannot instantiate.

## 5. Not modelled

- `database.py`: creating and migrating the schema. The constraints the other modules rely on
  (unique names and paths, foreign keys and their cascades) are modelled where they bite. A
  migration is several statements that commit by themselves, so a kill between them is a hazard
  no property covers.
- `configure_repository` and remotes in `git_resources.py`; the startup record of ctags; the
  columns of documents and tags, and the queries that read them without a state of their own:
  searching and reading documents, `source_search.py`, `git_history.py`, `describe_index`,
  search filters other than the name.
- `cli.py`, `mcp_server.py`: parsing, dispatch and formatting over the manager, whose locking
  is modelled with each operation. `buildroot.py`: read-only queries of Make variables, of
  which the effective override is modelled in `OverrideAttachment`.
- Board support and patches: data of other projects.
- In the lifecycle, the race of a human creating the very branch or checkout an open is about
  to create, and kills inside the clean-up's `git worktree remove`.

