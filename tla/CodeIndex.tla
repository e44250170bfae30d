------------------------------ MODULE CodeIndex ------------------------------
(***************************************************************************)
(* Indexing the source revisions of a repository (ctags_index.py,          *)
(* index_repositories and store_blob_analysis; repository_index.py;        *)
(* workspace_store.py, register_local_revision).                           *)
(*                                                                         *)
(* A blob is analysed once and its analysis is shared by all revisions     *)
(* that contain it.  The table of paths refers to the analyses, and SQLite *)
(* removes the rows of an analysis, of a revision or of a repository with  *)
(* it (ON DELETE CASCADE).  A run is a sequence of transactions: it may    *)
(* fail in any of them, be killed between two, and interleave with the run *)
(* of another process.                                                     *)
(*                                                                         *)
(* There is one repository.  A manifest maps the revisions it lists to     *)
(* their commit, index flag and the paths its globs let through; an empty  *)
(* one does not list the repository.  ctags is its version, which is the   *)
(* profile its analyses carry.                                             *)
(***************************************************************************)
EXTENDS Naturals, FiniteSets, Functions

CONSTANTS
    Proc,           \* processes that index
    Revision,       \* revision ids, local ones included
    Local,          \* ids of revisions workspaces register
    LocalPin,       \* what a workspace registers: a Pin for each of Local
    Commit, Path, Blob,
    TreeOf,         \* the paths and blobs of a commit
    Manifests,      \* manifests a process may have loaded
    Selections,     \* sets of revisions a run may be restricted to
    Version,        \* versions of Universal Ctags
    Null,           \* no commit, analysis or result
    MixedOverlap,   \* may runs with different manifests or versions overlap
    MaxRuns         \* bound: runs started

Pin == [commit : Commit, index : BOOLEAN, filter : SUBSET Path]
PartialFunctions(S, T) == UNION {[D -> T] : D \in SUBSET S}

ASSUME CodeIndexAssumption ==
    /\ Local \subseteq Revision
    /\ LocalPin \in [Local -> Pin]
    /\ TreeOf \in [Commit -> PartialFunctions(Path, Blob)]
    /\ \A m \in Manifests : /\ DOMAIN m \subseteq Revision \ Local
                            /\ \A r \in DOMAIN m : m[r] \in Pin
    /\ Selections \subseteq SUBSET Revision
    /\ Null \notin Commit \cup Version
    /\ MixedOverlap \in BOOLEAN /\ MaxRuns \in Nat

VARIABLES
    repository,     \* is the repository in table repositories
    catalog,        \* repository_revisions: commit and index flag by id
    local,          \* local_revision_definitions: their ids
    analyses,       \* ctags_analyses: the profile a blob was analysed with
    paths,          \* ctags_revision_paths
    populated,      \* commits whose objects are in the Git repository
    run,            \* the run of every process
    started,        \* runs started so far
    alone           \* auxiliary: the process whose run has had no other beside it

tables == <<repository, catalog, local, analyses, paths>>
bookkeeping == <<started, alone>>
vars == <<tables, populated, run, bookkeeping>>

Idle == [pc |-> "idle"]

\* The files of a revision that its globs let through (iter_revision_blobs,
\* revision_path_included).
Files(pin) == Restrict(TreeOf[pin.commit], pin.filter \cap DOMAIN TreeOf[pin.commit])
RowsOf(r, files) == {[revision |-> r, path |-> p, blob |-> files[p]] : p \in DOMAIN files}

-----------------------------------------------------------------------------
(* A run starts *)

Undisturbing(m, merged, v) ==
    \A q \in Proc : run[q].pc # "idle" =>
        run[q].manifest = m /\ run[q].merged = merged /\ run[q].version = v

\* ResourceManager merges the local revisions registered when it was loaded
\* into its manifest (_merge_local_revisions).
PlanOf(m, merged) ==
    [r \in DOMAIN m \cup merged |-> IF r \in merged THEN LocalPin[r] ELSE m[r]]

Start(p, m, merged, wanted, v) ==
    /\ run[p].pc = "idle" /\ started < MaxRuns
    /\ MixedOverlap \/ Undisturbing(m, merged, v)
    /\ started' = started + 1
    /\ alone' = IF \A q \in Proc : run[q].pc = "idle" THEN {p} ELSE {}
    /\ run' = [run EXCEPT ![p] =
         [pc |-> "sync", manifest |-> m, merged |-> merged, version |-> v,
          plan |-> PlanOf(m, merged), wanted |-> wanted,
          todo |-> {r \in wanted \cap DOMAIN PlanOf(m, merged) :
                      PlanOf(m, merged)[r].index},
          revision |-> Null, files |-> {}, rows |-> {}, failed |-> FALSE,
          outcome |-> <<>>, before |-> [paths |-> paths, catalog |-> catalog,
                                        analyses |-> analyses]]]
    /\ UNCHANGED <<tables, populated>>

\* Mutant of Vanished: revisions of workspaces go as well.
VanishedAll(plan) == DOMAIN catalog \ DOMAIN plan

\* Mutant of Repinned: a revision whose pin changed is updated in place.
RepinnedInPlace(plan) == {}

\* Which revisions synchronize_catalog deletes: those the manifest lists no
\* more, unless a workspace registered them, and those whose pin changed.
Vanished(plan) == {r \in DOMAIN catalog \ DOMAIN plan : r \notin local}
Repinned(plan) == {r \in DOMAIN catalog \cap DOMAIN plan :
                     catalog[r].commit # plan[r].commit}

\* synchronize_catalog, one transaction.  A repository the plan does not list
\* goes with all it contains unless a local revision is in it, and then its
\* revisions are left as they are.
Sync(p) ==
    /\ run[p].pc = "sync"
    /\ LET plan == run[p].plan
           gone == Vanished(plan) \cup Repinned(plan)
       IN IF DOMAIN plan = {}
          THEN IF local # {} THEN UNCHANGED tables
               ELSE /\ repository' = FALSE
                    /\ catalog' = <<>>
                    /\ analyses' = <<>>
                    /\ paths' = {}
                    /\ UNCHANGED local
          ELSE /\ repository' = TRUE
               /\ catalog' = [r \in DOMAIN plan \cup (DOMAIN catalog \ gone) |->
                                IF r \in DOMAIN plan
                                THEN [commit |-> plan[r].commit, index |-> plan[r].index]
                                ELSE catalog[r]]
               /\ paths' = {row \in paths : row.revision \notin gone}
               /\ UNCHANGED <<local, analyses>>
    /\ run' = [run EXCEPT ![p].pc = "prune"]
    /\ UNCHANGED <<populated, bookkeeping>>

\* The rows of revisions that are not indexed any more.
Prune(p) ==
    /\ run[p].pc = "prune"
    /\ paths' = {row \in paths : row.revision \in DOMAIN catalog
                                 /\ catalog[row.revision].index}
    /\ run' = [run EXCEPT ![p].pc = IF run[p].todo = {} THEN "report" ELSE "pick"]
    /\ UNCHANGED <<repository, catalog, local, analyses, populated, bookkeeping>>

-----------------------------------------------------------------------------
(* The blobs of a revision *)

Outcome(p, r, status) ==
    run' = [run EXCEPT
        ![p].outcome = [x \in DOMAIN @ \cup {r} |-> IF x = r THEN status ELSE @[x]],
        ![p].pc = IF run[p].todo = {} THEN "report" ELSE "pick"]

\* The next revision; one without objects is reported as skipped.
Pick(p) ==
    /\ run[p].pc = "pick"
    /\ LET r == CHOOSE x \in run[p].todo : TRUE IN
         IF run[p].plan[r].commit \in populated
         THEN run' = [run EXCEPT ![p].pc = "blobs", ![p].revision = r,
                        ![p].todo = @ \ {r}, ![p].rows = {}, ![p].failed = FALSE,
                        ![p].files = DOMAIN Files(run[p].plan[r])]
         ELSE run' = [run EXCEPT
                        ![p].todo = @ \ {r},
                        ![p].outcome = [x \in DOMAIN @ \cup {r} |->
                                          IF x = r THEN "skipped" ELSE @[x]],
                        ![p].pc = IF run[p].todo = {r} THEN "report" ELSE "pick"]
    /\ UNCHANGED <<tables, populated, bookkeeping>>

CurrentFiles(p) == Files(run[p].plan[run[p].revision])
Kept(p, path) == [run EXCEPT ![p].pc = "blobs", ![p].files = @ \ {path},
                    ![p].rows = @ \cup {[revision |-> run[p].revision, path |-> path,
                                         blob |-> CurrentFiles(p)[path]]}]

\* Mutant of Reusable: an analysis of another ctags is used again.
ReusableOfAny(p, blob) == blob \in DOMAIN analyses

\* An analysis is used again when it carries the profile of this session.
Reusable(p, blob) == blob \in DOMAIN analyses /\ analyses[blob] = run[p].version

\* git ls-tree lists the paths in order.
NextFile(p, path) == /\ path \in run[p].files
                     /\ path = CHOOSE x \in run[p].files : TRUE

\* A query of its own looks for an analysis of the blob: it is used again, or
\* the blob will be read and analysed, whatever others have stored by then.
Reuse(p, path) ==
    /\ run[p].pc = "blobs" /\ NextFile(p, path)
    /\ Reusable(p, CurrentFiles(p)[path])
    /\ run' = Kept(p, path)
    /\ UNCHANGED <<tables, populated, bookkeeping>>

Examine(p, path) ==
    /\ run[p].pc = "blobs" /\ NextFile(p, path)
    /\ ~Reusable(p, CurrentFiles(p)[path])
    /\ run' = [run EXCEPT ![p].pc = "analyse"]
    /\ UNCHANGED <<tables, populated, bookkeeping>>

\* store_blob_analysis, one transaction: whatever analysis the blob has by then
\* is deleted, and with it the rows of every revision that refer to it.  It
\* needs the repository (register_blob).
Store(p, path) ==
    /\ run[p].pc = "analyse" /\ NextFile(p, path) /\ repository
    /\ LET blob == CurrentFiles(p)[path] IN
       /\ analyses' = [b \in DOMAIN analyses \cup {blob} |->
                         IF b = blob THEN run[p].version ELSE analyses[b]]
       /\ paths' = {row \in paths : row.blob # blob}
    /\ run' = Kept(p, path)
    /\ UNCHANGED <<repository, catalog, local, populated, bookkeeping>>

\* Reading or analysing the blob fails; the transaction is rolled back.
StoreFails(p, path) ==
    /\ run[p].pc = "analyse" /\ NextFile(p, path)
    /\ run' = [run EXCEPT ![p].pc = "blobs", ![p].files = @ \ {path}, ![p].failed = TRUE]
    /\ UNCHANGED <<tables, populated, bookkeeping>>

\* Listing the tree fails, or the transaction of the paths does: what was
\* analysed stays, no path is written.
RevisionFails(p) ==
    /\ run[p].pc = "blobs"
    /\ Outcome(p, run[p].revision, IF run[p].rows # {} THEN "partial" ELSE "failed")
    /\ UNCHANGED <<tables, populated, bookkeeping>>

\* Mutant of RemovesUnseen: paths whose blobs failed go as well.
RemovesFailed(p) == TRUE

\* The unseen paths go only when no blob failed.
RemovesUnseen(p) == ~run[p].failed

\* Foreign keys: the rows need their revision and their analyses.
Insertable(p) == /\ run[p].rows # {} => run[p].revision \in DOMAIN catalog
                 /\ \A row \in run[p].rows : row.blob \in DOMAIN analyses

WritePaths(p) ==
    /\ run[p].pc = "blobs" /\ run[p].files = {}
    /\ Insertable(p)
    /\ LET r == run[p].revision
           seen == {row.path : row \in run[p].rows}
       IN /\ paths' = {row \in paths : row.revision = r =>
                         row.path \notin seen /\ ~RemovesUnseen(p)}
                      \cup run[p].rows
          /\ Outcome(p, r, IF ~run[p].failed THEN "ok"
                           ELSE IF run[p].rows # {} THEN "partial" ELSE "failed")
    /\ UNCHANGED <<repository, catalog, local, analyses, populated, bookkeeping>>

Report(p) ==
    /\ run[p].pc = "report"
    /\ run' = [run EXCEPT ![p] = Idle]
    /\ UNCHANGED <<tables, populated, bookkeeping>>

Kill(p) ==
    /\ run[p].pc \notin {"idle", "report"}
    /\ run' = [run EXCEPT ![p] = Idle]
    /\ UNCHANGED <<tables, populated, bookkeeping>>

-----------------------------------------------------------------------------
(* Others *)

\* populate brings the objects of a commit.
Populate(c) ==
    /\ c \notin populated
    /\ populated' = populated \cup {c}
    /\ UNCHANGED <<tables, run, bookkeeping>>

\* register_local_revision, one transaction; open_workspace has made the
\* commit before.
RegisterLocal(r) ==
    /\ r \in Local \ local
    /\ local' = local \cup {r}
    /\ repository' = TRUE
    /\ catalog' = [x \in DOMAIN catalog \cup {r} |->
                     IF x = r THEN [commit |-> LocalPin[r].commit, index |-> LocalPin[r].index]
                     ELSE catalog[x]]
    /\ populated' = populated \cup {LocalPin[r].commit}
    /\ UNCHANGED <<analyses, paths, run, bookkeeping>>

Init ==
    /\ repository = FALSE
    /\ catalog = <<>> /\ analyses = <<>>
    /\ local = {} /\ paths = {} /\ populated = {}
    /\ run = [p \in Proc |-> Idle]
    /\ started = 0 /\ alone = {}

Step(p) ==
    \/ Sync(p) \/ Prune(p) \/ Pick(p) \/ RevisionFails(p) \/ WritePaths(p)
    \/ \E path \in Path : Reuse(p, path) \/ Examine(p, path) \/ Store(p, path)
                            \/ StoreFails(p, path)
    \/ Report(p)

Next ==
    \/ \E p \in Proc, m \in Manifests, merged \in {{}, local},
          wanted \in Selections, v \in Version :
            Start(p, m, merged, wanted, v)
    \/ \E p \in Proc : Step(p) \/ Kill(p)
    \/ \E c \in Commit : Populate(c)
    \/ \E r \in Local : RegisterLocal(r)

Spec == Init /\ [][Next]_vars

-----------------------------------------------------------------------------
(* Properties *)

\* What is indexed for a revision is what its commit contains: a path row
\* never outlives the pin it was made for, wherever runs fail or are killed, as
\* long as processes that index at the same time have loaded the same manifest
\* (synchronize_catalog against the rows index_repositories writes).  With
\* MixedOverlap it is false: a run writes what it gathered under a pin that
\* another run has changed.
RowsMatchPins ==
    \A row \in paths :
        /\ row.revision \in DOMAIN catalog
        /\ LET tree == TreeOf[catalog[row.revision].commit] IN
           row.path \in DOMAIN tree /\ tree[row.path] = row.blob

\* What a run reports is what the tables hold when it ends.
Rebuilt(p) ==
    /\ \A r \in DOMAIN run[p].outcome : run[p].outcome[r] = "ok" =>
         /\ {row \in paths : row.revision = r} = RowsOf(r, Files(run[p].plan[r]))
         /\ \A b \in Range(Files(run[p].plan[r])) :
              b \in DOMAIN analyses /\ analyses[b] = run[p].version
    /\ \A row \in paths : catalog[row.revision].index

\* Incremental is as good as from scratch: when a run ends that no other ran
\* beside, a revision it reported "ok" has exactly the rows of its filtered
\* tree, each analysed by the ctags of the run, whatever earlier runs left,
\* although analyses were reused and later revisions of the run replaced some;
\* and revisions that are not to be indexed have none.
OkIsRebuilt == \A p \in alone : run[p].pc = "report" => Rebuilt(p)

\* The same of runs with others beside them.  This is false: between the query
\* for an analysis and its replacement another run stores one, and the rows it
\* reported go with it.
OverlapRebuilt == \A p \in Proc : run[p].pc = "report" => Rebuilt(p)

\* What a run was not asked for, or failed on, it leaves: when a run ends that
\* no other ran beside, every row from before is there of a revision that has
\* kept its commit and is still indexed, unless the run reported the revision
\* "ok" or the row is not of its filtered tree.  The exception is the cascade:
\* rows go whose blob was analysed anew, for a ctags that was replaced, also
\* those of revisions the run was not asked for.
RestKept ==
    \A p \in alone : run[p].pc = "report" =>
        \A row \in run[p].before.paths :
            LET r == row.revision IN
            /\ r \in DOMAIN catalog /\ catalog[r].index
            /\ catalog[r].commit = run[p].before.catalog[r].commit
            /\ r \in DOMAIN run[p].outcome =>
                 run[p].outcome[r] # "ok" /\ row \in RowsOf(r, Files(run[p].plan[r]))
            /\ row.blob \in DOMAIN analyses =>
                 analyses[row.blob] = run[p].before.analyses[row.blob]
            => row \in paths

\* A revision a workspace registered stays in the catalogue with its commit,
\* also while processes synchronise manifests that know nothing of it.
LocalKept ==
    \A r \in local : /\ r \in DOMAIN catalog
                     /\ catalog[r].commit = LocalPin[r].commit
=============================================================================
