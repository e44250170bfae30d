------------------------ MODULE RepositoryPopulation ------------------------
(***************************************************************************)
(* Populating a source repository from the manifest (git_resources.py,     *)
(* populate_repository and check_repository; artifacts.py, populate_file;  *)
(* manager.py, populate and check).                                        *)
(*                                                                         *)
(* Revisions are fetched from upstream or derived: the patches of the      *)
(* manifest applied, one commit each, to the commit of another revision in *)
(* a temporary worktree.  A commit is the sequence of the upstream commit  *)
(* and the patches applied to it, which determines its tree and, as author *)
(* and dates are fixed, its name.  Git commands are atomic.                *)
(*                                                                         *)
(* A run can be killed between any two commands.  Meanwhile humans commit, *)
(* edit and delete in the worktrees and edit patch files, and upstream     *)
(* moves its refs forward.                                                 *)
(***************************************************************************)
EXTENDS Naturals, Sequences

CONSTANTS
    Proc,           \* processes that populate
    Revision,       \* ids of revisions
    DerivedFrom,    \* the revision each derived one is derived from
    PatchesOf,      \* the patches of each derived revision, in order
    Patch,
    Fetchable,      \* patches with a url
    Worktree,
    RevisionOf,     \* the revision a worktree is of
    Manifests,      \* each pins the commits of the fetched revisions
    Upstream,       \* commits of the upstream branch, oldest first
    None,           \* no ref, no worktree
    Mine,           \* a commit a human makes in a worktree
    MaxRuns,        \* bound: runs started
    MaxEdits        \* bound: steps of humans and of upstream

Derived == DOMAIN DerivedFrom
ASSUME PopulationAssumption ==
    /\ Derived \subseteq Revision
    /\ DerivedFrom \in [Derived -> Revision]
    /\ \A S \in SUBSET Derived : S # {} => \E r \in S : DerivedFrom[r] \notin S
    /\ PatchesOf \in [Derived -> Seq(Patch) \ {<<>>}]
    /\ Fetchable \subseteq Patch
    /\ RevisionOf \in [Worktree -> Revision]
    /\ \A m \in Manifests : \A r \in Revision \ Derived :
         \E i \in DOMAIN Upstream : m[r] = Upstream[i]
    /\ {MaxRuns, MaxEdits} \subseteq Nat

VARIABLES
    head,       \* position of the upstream branch
    objects,    \* commits in the repository
    ref,        \* refs/paper-resources/revisions/*
    patch,      \* is the patch file there, with the checksum of the manifest
    temp,       \* temporary worktrees on disk, by the number of the run
    worktree,   \* the directory of every worktree, and whether it is registered
    run,        \* the run of every process
    started, edits

git == <<objects, ref, temp, worktree>>
vars == <<head, patch, git, run, started, edits>>

Idle == [pc |-> "idle"]
Absent == [there |-> FALSE, ours |-> FALSE, registered |-> FALSE,
           head |-> None, dirty |-> FALSE]

\* The commit a manifest pins a revision to: construct_revision applied to
\* intact patch files.
PinOf(m) ==
    LET pin[r \in Revision] ==
          IF r \in Derived
          THEN pin[DerivedFrom[r]] \o [i \in DOMAIN PatchesOf[r] |->
                                         [patch |-> PatchesOf[r][i], intact |-> TRUE]]
          ELSE <<m[r]>>
    IN pin

\* revision_dependencies: what a selected revision is derived from, and so on.
Needs(r) ==
    {x \in Revision :
       \A S \in SUBSET Revision :
         r \in S /\ (\A y \in S \cap Derived : DerivedFrom[y] \in S) => x \in S}

-----------------------------------------------------------------------------
(* A run: patch files, revisions in order, worktrees *)

\* The whole repository, one revision without its worktrees, or one worktree.
Selection == {<<Revision, Worktree>>} \cup {<<{r}, {}>> : r \in Revision}
             \cup {<<{RevisionOf[w]}, {w}>> : w \in Worktree}

\* edits and alone only tell who else acted during the run.
Begin(p, m, wanted) ==
    /\ run[p].pc = "idle" /\ started < MaxRuns
    /\ started' = started + 1
    /\ LET revisions == UNION {Needs(r) : r \in wanted[1]} IN
       run' = [q \in Proc |->
         IF q = p
         THEN [pc |-> "files", number |-> started', pin |-> PinOf(m),
               wanted |-> <<revisions, wanted[2]>>,
               todo |-> revisions, trees |-> wanted[2],
               files |-> UNION {{PatchesOf[r][i] : i \in DOMAIN PatchesOf[r]} :
                                  r \in revisions \cap Derived},
               commit |-> <<>>, applied |-> 0, revision |-> None, tree |-> None,
               network |-> TRUE, edits |-> edits,
               alone |-> \A x \in Proc \ {p} : run[x].pc = "idle"]
         ELSE IF run[q].pc = "idle" THEN Idle ELSE [run[q] EXCEPT !.alone = FALSE]]
    /\ UNCHANGED <<head, patch, git, edits>>

Goto(p, pc) == run' = [run EXCEPT ![p].pc = pc]

\* artifacts.populate_file: fetched and verified, then renamed; a file that
\* cannot be fetched is left to the human.
PopulateFile(p) ==
    /\ run[p].pc = "files"
    /\ IF run[p].files = {}
       THEN Goto(p, "revision") /\ UNCHANGED patch
       ELSE LET x == CHOOSE y \in run[p].files : TRUE IN
            /\ run' = [run EXCEPT ![p].files = @ \ {x}]
            /\ patch' = [patch EXCEPT ![x] = @ \/ x \in Fetchable]
    /\ UNCHANGED <<head, git, started, edits>>

\* revision_order: what a revision is derived from comes before it.
NextRevision(p, r) ==
    r = CHOOSE x \in run[p].todo : x \in Derived => DerivedFrom[x] \notin run[p].todo

Verified(p, r, commit) == commit = run[p].pin[r]

\* Mutant of UpdateRef: a ref that is there is taken for the right one.
UpdateMissingRef(p, r, commit) ==
    /\ ref' = [ref EXCEPT ![r] = IF @ = None THEN commit ELSE @]
    /\ run' = [run EXCEPT ![p].todo = @ \ {r}, ![p].pc = "revision"]

UpdateRef(p, r, commit) ==
    /\ ref' = [ref EXCEPT ![r] = commit]
    /\ run' = [run EXCEPT ![p].todo = @ \ {r}, ![p].pc = "revision"]

\* A commit that is there already is verified and its ref updated, whether
\* the revision is fetched or derived.
RevisionPresent(p, r) ==
    /\ run[p].pc = "revision" /\ r \in run[p].todo /\ NextRevision(p, r)
    /\ run[p].pin[r] \in objects
    /\ UpdateRef(p, r, run[p].pin[r])
    /\ UNCHANGED <<head, patch, objects, temp, worktree, started, edits>>

\* fetch_revision: FETCH_HEAD must be the pinned commit.  The objects of the
\* branch, history included, are there afterwards in any case.
Fetched == objects \cup {<<Upstream[i]>> : i \in 1..head}

FetchRevision(p, r) ==
    /\ run[p].pc = "revision" /\ r \in run[p].todo \ Derived /\ NextRevision(p, r)
    /\ run[p].pin[r] \notin objects
    /\ objects' = Fetched
    /\ IF Verified(p, r, <<Upstream[head]>>)
       THEN UpdateRef(p, r, <<Upstream[head]>>)
       ELSE Goto(p, "failed") /\ UNCHANGED ref
    /\ UNCHANGED <<head, patch, temp, worktree, started, edits>>

\* Upstream or the server of a patch does not answer.
NetworkFails(p) ==
    /\ \/ run[p].pc = "files" /\ \E x \in run[p].files \cap Fetchable : ~patch[x]
       \/ run[p].pc = "revision" /\ \E r \in run[p].todo \ Derived :
              NextRevision(p, r) /\ run[p].pin[r] \notin objects
    /\ run' = [run EXCEPT ![p].pc = "failed", ![p].network = FALSE]
    /\ UNCHANGED <<head, patch, git, started, edits>>

\* Mutant of Temporary: all runs construct in one directory.
TemporaryShared(p) == 1

\* construct_revision, one action per commit.  Every run takes a directory of
\* a name of its own.
Temporary(p) == run[p].number

AddTemporary(p, r) ==
    /\ run[p].pc = "revision" /\ r \in run[p].todo \cap Derived /\ NextRevision(p, r)
    /\ run[p].pin[r] \notin objects
    /\ temp' = temp \cup {Temporary(p)}
    /\ IF Temporary(p) \in temp
       THEN Goto(p, "failed")
       ELSE run' = [run EXCEPT ![p].pc = "construct", ![p].revision = r,
                      ![p].applied = 0, ![p].commit = ref[DerivedFrom[r]]]
    /\ UNCHANGED <<head, patch, objects, ref, worktree, started, edits>>

ApplyPatch(p) ==
    /\ run[p].pc = "construct"
    /\ run[p].applied < Len(PatchesOf[run[p].revision])
    /\ LET x == PatchesOf[run[p].revision][run[p].applied + 1]
           commit == Append(run[p].commit, [patch |-> x, intact |-> patch[x]])
       IN /\ run' = [run EXCEPT ![p].commit = commit, ![p].applied = @ + 1]
          /\ objects' = objects \cup {commit}
    /\ UNCHANGED <<head, patch, ref, temp, worktree, started, edits>>

\* An edited patch does not apply.
ApplyFails(p) ==
    /\ run[p].pc = "construct"
    /\ run[p].applied < Len(PatchesOf[run[p].revision])
    /\ ~patch[PatchesOf[run[p].revision][run[p].applied + 1]]
    /\ Goto(p, "failed")
    /\ temp' = temp \ {Temporary(p)}
    /\ UNCHANGED <<head, patch, objects, ref, worktree, started, edits>>

RemoveTemporary(p) ==
    /\ run[p].pc = "construct"
    /\ run[p].applied = Len(PatchesOf[run[p].revision])
    /\ temp' = temp \ {Temporary(p)}
    /\ Goto(p, IF Verified(p, run[p].revision, run[p].commit) THEN "ref" ELSE "failed")
    /\ UNCHANGED <<head, patch, objects, ref, worktree, started, edits>>

RefDerived(p) ==
    /\ run[p].pc = "ref"
    /\ UpdateRef(p, run[p].revision, run[p].commit)
    /\ UNCHANGED <<head, patch, objects, temp, worktree, started, edits>>

\* worktree_status
StatusOf(w, pin) ==
    IF ~worktree[w].there THEN "missing"
    ELSE IF ~worktree[w].ours THEN "foreign"
    ELSE IF worktree[w].head # pin[RevisionOf[w]] THEN "wrong revision"
    ELSE "ok"

\* Mutant of Movable: uncommitted changes are no obstacle.
MovableDirty(w, status) == status = "wrong revision"

Movable(w, status) == status = "wrong revision" /\ ~worktree[w].dirty

\* populate_worktree reads the status, and acts on it in the next step.
InspectWorktree(p) ==
    /\ run[p].pc = "revision" /\ run[p].todo = {}
    /\ IF run[p].trees = {}
       THEN run' = [run EXCEPT ![p].pc = "done"]
       ELSE LET w == CHOOSE x \in run[p].trees : TRUE
                status == StatusOf(w, run[p].pin)
            IN run' = [run EXCEPT ![p].trees = @ \ {w}, ![p].tree = w,
                 ![p].pc = CASE status = "ok" -> "revision"
                             [] status = "missing" -> "add"
                             [] Movable(w, status) -> "move"
                             [] OTHER -> "failed"]
    /\ UNCHANGED <<head, patch, git, started, edits>>

\* git worktree add refuses a directory that exists and one that is
\* registered although it was deleted.
AddWorktree(p) ==
    /\ run[p].pc = "add"
    /\ LET w == run[p].tree IN
       IF worktree[w].there \/ worktree[w].registered
       THEN Goto(p, "failed") /\ UNCHANGED worktree
       ELSE /\ worktree' = [worktree EXCEPT ![w] =
                 [there |-> TRUE, ours |-> TRUE, registered |-> TRUE,
                  head |-> ref[RevisionOf[w]], dirty |-> FALSE]]
            /\ Goto(p, "revision")
    /\ UNCHANGED <<head, patch, objects, ref, temp, started, edits>>

\* git checkout --detach keeps changes made since the inspection, or refuses;
\* a directory that has replaced the worktree does not have the commit.
MoveWorktree(p) ==
    /\ run[p].pc = "move"
    /\ LET w == run[p].tree IN
       \/ /\ worktree[w].ours
          /\ worktree' = [worktree EXCEPT ![w].head = run[p].pin[RevisionOf[w]]]
          /\ Goto(p, "revision")
       \/ /\ worktree[w].dirty \/ ~worktree[w].ours
          /\ Goto(p, "failed") /\ UNCHANGED worktree
    /\ UNCHANGED <<head, patch, objects, ref, temp, started, edits>>

Return(p) ==
    /\ run[p].pc \in {"done", "failed"}
    /\ run' = [run EXCEPT ![p] = Idle]
    /\ UNCHANGED <<head, patch, git, started, edits>>

Kill(p) ==
    /\ run[p].pc \notin {"idle", "done", "failed"}
    /\ run' = [run EXCEPT ![p] = Idle]
    /\ UNCHANGED <<head, patch, git, started, edits>>

-----------------------------------------------------------------------------
(* Humans and upstream *)

Human == edits < MaxEdits /\ edits' = edits + 1

UpstreamMoves ==
    /\ Human /\ head < Len(Upstream)
    /\ head' = head + 1
    /\ UNCHANGED <<patch, git, run, started>>

EditPatch(x) ==
    /\ Human /\ patch' = [patch EXCEPT ![x] = ~@]
    /\ UNCHANGED <<head, git, run, started>>

Worktrees(w, new) ==
    /\ Human /\ worktree' = [worktree EXCEPT ![w] = new]
    /\ UNCHANGED <<head, patch, objects, ref, temp, run, started>>

EditWorktree(w) ==
    worktree[w].ours /\ Worktrees(w, [worktree[w] EXCEPT !.dirty = ~@])
CommitInWorktree(w) ==
    /\ worktree[w].ours /\ worktree[w].dirty
    /\ Worktrees(w, [worktree[w] EXCEPT !.dirty = FALSE, !.head = Mine])
DeleteWorktree(w) ==
    /\ worktree[w].there
    /\ Worktrees(w, [Absent EXCEPT !.registered = worktree[w].registered])
OccupyPath(w) ==
    /\ ~worktree[w].there
    /\ Worktrees(w, [worktree[w] EXCEPT !.there = TRUE])

Init ==
    /\ head = 1
    /\ objects = {}
    /\ ref = [r \in Revision |-> None]
    /\ patch = [x \in Patch |-> x \notin Fetchable]
    /\ temp = {}
    /\ worktree = [w \in Worktree |-> Absent]
    /\ run = [p \in Proc |-> Idle]
    /\ started = 0 /\ edits = 0

Step(p) ==
    \/ PopulateFile(p) \/ NetworkFails(p)
    \/ \E r \in Revision : RevisionPresent(p, r) \/ FetchRevision(p, r) \/ AddTemporary(p, r)
    \/ ApplyPatch(p) \/ ApplyFails(p) \/ RemoveTemporary(p) \/ RefDerived(p)
    \/ InspectWorktree(p) \/ AddWorktree(p) \/ MoveWorktree(p)
    \/ Return(p)

Environment ==
    \/ UpstreamMoves
    \/ \E x \in Patch : EditPatch(x)
    \/ \E w \in Worktree : EditWorktree(w) \/ CommitInWorktree(w)
                           \/ DeleteWorktree(w) \/ OccupyPath(w)

Next ==
    \/ \E p \in Proc, m \in Manifests, wanted \in Selection :
         Begin(p, m, wanted)
    \/ \E p \in Proc : Step(p) \/ Kill(p)
    \/ Environment

Spec == Init /\ [][Next]_vars

-----------------------------------------------------------------------------
(* Properties *)

Undisturbed(p) == run[p].alone /\ run[p].edits = edits

\* check_repository: the refs and worktrees selected are as pinned.
CheckRepository(pin, selected) ==
    /\ \A r \in selected[1] : ref[r] = pin[r]
    /\ \A w \in selected[2] : StatusOf(w, pin) = "ok"

\* populate and check agree: when populate returns, and nobody interfered,
\* check finds every selected revision and worktree as pinned.  And a run
\* that returns has removed its temporary worktrees.
DoneIsChecked ==
    \A p \in Proc :
        /\ run[p].pc = "done" /\ Undisturbed(p) =>
             CheckRepository(run[p].pin, run[p].wanted)
        /\ run[p].pc \in {"done", "failed"} => Temporary(p) \notin temp

Moved(p, r) == r \notin Derived /\ run[p].pin[r] # <<Upstream[head]>>
Edited(p, r) == r \in Derived
                /\ \E i \in DOMAIN PatchesOf[r] : ~patch[PatchesOf[r][i]]
Blocked(p, w) ==
    \/ worktree[w].there /\ ~worktree[w].ours
    \/ worktree[w].dirty /\ worktree[w].head # run[p].pin[RevisionOf[w]]
    \/ worktree[w].registered /\ ~worktree[w].there

\* Populating can be repeated: whatever earlier runs left when they failed or
\* were killed, a run that nobody interferes with fails only for a reason
\* outside the program.
FailsForReason ==
    \A p \in Proc : run[p].pc = "failed" /\ run[p].network /\ Undisturbed(p) =>
        \/ \E r \in run[p].todo : Moved(p, r) \/ Edited(p, r)
        \/ \E w \in run[p].wanted[2] : Blocked(p, w)

\* The program leaves directories of others alone and does not touch a
\* worktree with uncommitted changes, except that one changed between the
\* inspection and the checkout may be moved, its changes kept.
HumanWorkKept ==
    [][edits' = edits => \A w \in Worktree : worktree'[w] # worktree[w] =>
         \/ ~worktree[w].there
         \/ /\ worktree[w].ours
            /\ worktree[w].dirty =>
                 worktree'[w].dirty /\ \E p \in Proc : run'[p].pc # "idle" /\ run[p].edits # edits]_vars
=============================================================================
