------------------------------ MODULE PatchPlan ------------------------------
(***************************************************************************)
(* How an export names its patches (patch_export.py, plan_export).         *)
(*                                                                         *)
(* A workspace's commits are edited with git; the note of a commit holds   *)
(* the path of the patch it came from or was exported to and follows it    *)
(* through rebase, split and squash.  A plan keeps the paths that notes    *)
(* name, allocates free numbers for the other commits between their        *)
(* annotated neighbours, and refuses what it cannot put in the order in    *)
(* which Buildroot applies patches: by directory, then by file name.       *)
(*                                                                         *)
(* A file name is a number written with a width, and a slug that stands    *)
(* for the rest; names are compared as text.                               *)
(***************************************************************************)
EXTENDS Integers, FiniteSets, Sequences, SequencesExt, FiniteSetsExt, SetOrder

CONSTANTS
    Directories,    \* configured directories, numbers in Buildroot's order
    Base, PadTo,    \* how numbers are written: 10 and 4 digits in the code
    NoNumber,       \* the number of a file name without one
    Refused,        \* the plan that is none
    Imports,        \* sets of patch files a workspace may start with
    Destinations,   \* paths that people annotate commits or files with
    MaxCommits,     \* bound: commits in the series
    MaxEdits        \* bound: edits of the series, the notes and the files

ASSUME PatchPlanAssumption ==
    /\ Directories \subseteq Nat /\ {Base, PadTo} \subseteq Nat \ {0}
    /\ NoNumber \notin Int /\ {MaxCommits, MaxEdits} \subseteq Nat

VARIABLES
    series,     \* the commits: subject and the paths their note names
    files,      \* patch files in the configured directories
    subjects,   \* subjects used so far
    edits,
    planned     \* the last plan with the files and the series it was made for

vars == <<series, files, subjects, edits, planned>>

(* Names *)

RECURSIVE Digits(_)
Digits(n) == IF n < Base THEN 1 ELSE 1 + Digits(n \div Base)
Larger(a, b) == IF a > b THEN a ELSE b

\* Text order of two names: '-' sorts before every digit, letters after.
NameLess(p, q) ==
    IF NoNumber \in {p.number, q.number}
    THEN q.number = NoNumber /\ (p.number # NoNumber \/ p.slug < q.slug)
    ELSE LET w == Min({p.width, q.width})
             a == p.number \div Base ^ (p.width - w)
             b == q.number \div Base ^ (q.width - w)
         IN \/ a < b
            \/ a = b /\ p.width < q.width
            \/ a = b /\ p.width = q.width /\ p.slug < q.slug

Before(p, q) == p.dir < q.dir \/ (p.dir = q.dir /\ NameLess(p, q))

\* The numeric prefix collision of two files.
Clash(p, q) == p # q /\ p.dir = q.dir /\ p.number = q.number /\ p.number # NoNumber

\* Mutant of Collides: a file that is replaced collides with its new version.
CollidesWithOld(p, existing) ==
    \E q \in existing : p.dir = q.dir /\ p.number = q.number /\ p.number # NoNumber

Collides(p, existing) == \E q \in existing : Clash(p, q)

Range_(s) == {s[i] : i \in DOMAIN s}

-----------------------------------------------------------------------------
(* The plan *)

\* Conflicting annotations, and destinations no configured directory has.
Unplannable(commit) == \/ Cardinality(commit.note) > 1
                       \/ \E p \in commit.note : p.dir \notin Directories

\* The path a commit keeps: of several with one note only the first does.
Kept(commits, i) ==
    IF commits[i].note = {} \/ \E j \in 1..(i - 1) : commits[j].note = commits[i].note
    THEN Refused ELSE CHOOSE p \in commits[i].note : TRUE

Taken(paths, d) == {p.number : p \in {q \in paths : q.dir = d}} \ {NoNumber}

\* Mutant of Numbers: the last number before the following anchor is not used.
NumbersBelow(n, previous, following, occupied) ==
    LET free == IF following = Refused
                THEN ((previous.number + 1) .. (previous.number + n + Cardinality(occupied)))
                     \ occupied
                ELSE ((IF previous = Refused THEN 1 ELSE previous.number + 1)
                        .. (following.number - 2)) \ occupied
        all == Ascending(free)
    IN IF Len(all) < n THEN Refused
       ELSE IF previous = Refused THEN SubSeq(all, Len(all) - n + 1, Len(all))
       ELSE SubSeq(all, 1, n)

\* The n numbers a run of n commits between two anchors gets, ascending; an
\* anchor that is Refused is not there.
Numbers(n, previous, following, occupied) ==
    LET free == IF following = Refused
                THEN ((previous.number + 1) .. (previous.number + n + Cardinality(occupied)))
                     \ occupied
                ELSE ((IF previous = Refused THEN 1 ELSE previous.number + 1)
                        .. (following.number - 1)) \ occupied
        all == Ascending(free)
    IN IF Len(all) < n THEN Refused
       ELSE IF previous = Refused THEN SubSeq(all, Len(all) - n + 1, Len(all))
       ELSE SubSeq(all, 1, n)

\* _allocate_run
AllocateRun(commits, previous, following, taken) ==
    LET anchors == {previous, following} \ {Refused}
        dirs == {p.dir : p \in anchors}
        d == CHOOSE x \in dirs : TRUE
        numbers == Numbers(Len(commits), previous, following, Taken(taken, d))
        width == FoldLeft(LAMBDA w, n : Larger(w, Digits(n)), PadTo, numbers)
    IN IF Cardinality(dirs) # 1 \/ (\E p \in anchors : p.number = NoNumber) \/ numbers = Refused
       THEN Refused
       ELSE [i \in DOMAIN commits |->
               [dir |-> d, number |-> numbers[i], width |-> width, slug |-> commits[i].subject]]

\* First and last position of every maximal run of commits without a path.
Runs(paths) ==
    LET first == {i \in DOMAIN paths : paths[i] = Refused /\ (i = 1 \/ paths[i - 1] # Refused)}
        End(i) == Min({j \in i..Len(paths) : j = Len(paths) \/ paths[j + 1] # Refused})
    IN [k \in 1..Cardinality(first) |->
          LET i == Ascending(first)[k] IN [first |-> i, last |-> End(i)]]

At(paths, i) == IF i \in DOMAIN paths THEN paths[i] ELSE Refused

\* Mutant of Fill: only the numbers the plan itself uses are taken.
FillOverOld(commits, paths, existing, run) ==
    LET allocated == AllocateRun(SubSeq(commits, run.first, run.last),
                                 At(paths, run.first - 1), At(paths, run.last + 1),
                                 Range_(paths) \ {Refused})
    IN IF allocated = Refused THEN Refused
       ELSE [i \in DOMAIN paths |-> IF i \in run.first..run.last
                                    THEN allocated[i - run.first + 1] ELSE paths[i]]

\* One run of commits; the numbers of files on disk are taken, whoever wrote them.
Fill(commits, paths, existing, run) ==
    LET allocated == AllocateRun(SubSeq(commits, run.first, run.last),
                                 At(paths, run.first - 1), At(paths, run.last + 1),
                                 existing \cup (Range_(paths) \ {Refused}))
    IN IF allocated = Refused THEN Refused
       ELSE [i \in DOMAIN paths |-> IF i \in run.first..run.last
                                    THEN allocated[i - run.first + 1] ELSE paths[i]]

Allocated(commits, existing) ==
    LET kept == [i \in DOMAIN commits |-> Kept(commits, i)] IN
    IF commits = <<>> \/ (\E i \in DOMAIN commits : Unplannable(commits[i]))
       \/ Range_(kept) = {Refused}
    THEN Refused
    ELSE FoldLeft(LAMBDA paths, run :
                    IF paths = Refused THEN Refused ELSE Fill(commits, paths, existing, run),
                  kept, Runs(kept))

Sorted(paths) == \A i \in 1..(Len(paths) - 1) : ~Before(paths[i + 1], paths[i])
Acceptable(paths, existing) ==
    /\ IsInjective(paths)
    /\ \A p, q \in Range_(paths) : ~Clash(p, q)
    /\ \A p \in Range_(paths) : ~Collides(p, existing)
    /\ Sorted(paths)

\* plan_export: a path for every commit, or Refused.
Plan(commits, existing) ==
    LET paths == Allocated(commits, existing) IN
    IF paths = Refused \/ ~Acceptable(paths, existing) THEN Refused ELSE paths

-----------------------------------------------------------------------------
(* People edit the series, and export *)

Commit(subject, note) == [subject |-> subject, note |-> note]
NoPlan == [paths |-> Refused, of |-> <<>>, among |-> {}]

Edit(commits, subject) ==
    /\ edits < MaxEdits /\ Len(commits) \in 1..MaxCommits
    /\ edits' = edits + 1 /\ series' = commits /\ subjects' = Larger(subjects, subject)
    /\ planned' = NoPlan
    /\ UNCHANGED files

\* A new commit has a subject of its own or that of a patch on disk, as one has
\* that was dropped and is made again.
Add(i, subject) == Edit(InsertAt(series, i, Commit(subject, {})), subject)
Drop(i) == Edit(RemoveAt(series, i), 0)
Reorder(i) == Edit([series EXCEPT ![i] = series[i + 1], ![i + 1] = series[i]], 0)
\* Both halves of a split commit keep its note.
Split(i) == Edit(InsertAt(series, i + 1, Commit(subjects + 1, series[i].note)), subjects + 1)
\* notes.rewriteMode cat_sort_uniq
Squash(i) == Edit(RemoveAt([series EXCEPT ![i].note = @ \cup series[i + 1].note], i + 1), 0)
Annotate(i, path) == Edit([series EXCEPT ![i].note = {path}], 0)

AddFile(path) ==
    /\ edits < MaxEdits /\ path \notin files
    /\ files' = files \cup {path} /\ edits' = edits + 1
    /\ planned' = NoPlan
    /\ UNCHANGED <<series, subjects>>

\* A refused plan touches nothing; else every commit's patch is published and
\* its note rewritten.  Files the plan does not name stay.
Export ==
    LET paths == Plan(series, files) IN
    /\ planned = NoPlan
    /\ planned' = [paths |-> paths, of |-> series, among |-> files]
    /\ IF paths = Refused THEN UNCHANGED <<series, files>>
       ELSE /\ series' = [i \in DOMAIN series |-> [series[i] EXCEPT !.note = {paths[i]}]]
            /\ files' = files \cup Range_(paths)
    /\ UNCHANGED <<subjects, edits>>

Init ==
    /\ files \in Imports
    /\ series = LET paths == InOrder(files, Before) IN
                [i \in DOMAIN paths |-> Commit(paths[i].slug, {paths[i]})]
    /\ subjects = Max({p.slug : p \in files} \cup {p.slug : p \in Destinations})
    /\ edits = 0 /\ planned = NoPlan

Next ==
    \/ \E i \in 1..(Len(series) + 1), s \in {subjects + 1} \cup {p.slug : p \in files} :
          Add(i, s)
    \/ \E i \in DOMAIN series : Drop(i) \/ Split(i) \/ \E p \in Destinations : Annotate(i, p)
    \/ \E i \in 1..(Len(series) - 1) : Reorder(i) \/ Squash(i)
    \/ \E p \in Destinations : AddFile(p)
    \/ Export

Spec == Init /\ [][Next]_vars

-----------------------------------------------------------------------------
(* Properties *)

Successful == planned # NoPlan /\ planned.paths # Refused

\* An export replaces a patch file only where the note of the commit names it:
\* what is left of dropped commits, and what people put beside the series, is
\* never written over by a new commit, not even by one with the same subject.
NothingOverwritten ==
    Successful => \A i \in DOMAIN planned.paths :
        planned.paths[i] \in planned.among => planned.paths[i] \in planned.of[i].note

\* Exporting again what was exported changes no name, whatever was split,
\* squashed, reordered or left on disk before.
ReplanIsStable == Successful => Plan(series, files) = planned.paths

\* What a plan may be, said without saying how it is found: every commit that
\* is the first with its path keeps it, every other has a numbered name in the
\* directory of its nearest annotated neighbours, all in order, and no number
\* is taken.
IsPlan(paths, commits, existing) ==
    LET kept == [i \in DOMAIN commits |-> Kept(commits, i)] IN
    /\ \A i \in DOMAIN commits :
           IF kept[i] # Refused THEN paths[i] = kept[i] ELSE paths[i] \notin existing
    /\ \A i \in 1..(Len(paths) - 1) : Before(paths[i], paths[i + 1])
    /\ \A i \in DOMAIN commits, q \in existing \cup Range_(paths) :
           paths[i] # q /\ paths[i].dir = q.dir /\ paths[i].number = q.number
           => NoNumber = q.number
Anchors(commits, i) ==
    LET kept == {j \in DOMAIN commits : Kept(commits, j) # Refused}
        left == {j \in kept : j < i}
        right == {j \in kept : j > i}
    IN {Kept(commits, j) : j \in (IF left = {} THEN {} ELSE {Max(left)})
                                  \cup (IF right = {} THEN {} ELSE {Min(right)})}
Names(commits, i) ==
    IF Kept(commits, i) # Refused THEN {Kept(commits, i)}
    ELSE {[dir |-> d, number |-> n, width |-> PadTo, slug |-> commits[i].subject] :
            d \in {p.dir : p \in Anchors(commits, i)}, n \in 1..(Base ^ PadTo - 1)}
Even(paths) == \A p \in paths : p.width = PadTo
Plannable(commits) ==
    /\ commits # <<>> /\ \A i \in DOMAIN commits : ~Unplannable(commits[i])
    /\ \A i \in DOMAIN commits : Kept(commits, i) = Refused =>
           /\ Cardinality({p.dir : p \in Anchors(commits, i)}) = 1
           /\ \A p \in Anchors(commits, i) : p.number # NoNumber

\* A plan is refused only if there is none: while numbers are written with one
\* width, the order of the allocation, first come first served, never uses up
\* a number that another way of numbering would have kept for a later commit.
RefusalIsForced ==
    (planned # NoPlan /\ planned.paths = Refused /\ Plannable(planned.of)
     /\ Even(planned.among \cup UNION {c.note : c \in Range_(planned.of)}))
    => \A f \in {g \in [DOMAIN planned.of ->
                          UNION {Names(planned.of, i) : i \in DOMAIN planned.of}] :
                   \A i \in DOMAIN g : g[i] \in Names(planned.of, i)} :
           ~IsPlan(f, planned.of, planned.among)
=============================================================================
