----------------------- MODULE RepositoryPopulationProofs -----------------------
(***************************************************************************)
(* Proofs about RepositoryPopulation, for any manifest, derivations,       *)
(* patches and worktrees and any number of runs, kills and steps of        *)
(* humans: a run that returns left what check expects, one that fails has  *)
(* a reason outside the program, and the work of humans is kept.           *)
(***************************************************************************)
EXTENDS RepositoryPopulation, SequenceTheorems, TLAPS

Part == {Upstream[i] : i \in DOMAIN Upstream} \cup [patch : Patch, intact : BOOLEAN]
Commit == Seq(Part)

Intact(r) == [i \in DOMAIN PatchesOf[r] |-> [patch |-> PatchesOf[r][i], intact |-> TRUE]]

-----------------------------------------------------------------------------
(* The commits a manifest pins *)

\* f pins the revisions of A, which needs no other revision.
Pinned(f, A, m) ==
    /\ A \subseteq Revision
    /\ \A r \in A \cap Derived : DerivedFrom[r] \in A
    /\ \A r \in A : f[r] = IF r \in Derived THEN f[DerivedFrom[r]] \o Intact(r)
                           ELSE <<m[r]>>

\* Every set of revisions has one that is fetched or derived from another set.
LEMMA FirstRevision ==
    ASSUME NEW S \in SUBSET Revision, S # {}
    PROVE  \E r \in S : r \in Derived => DerivedFrom[r] \notin S
<1>1. CASE S \subseteq Derived
  BY <1>1, PopulationAssumption
<1>2. CASE ~ (S \subseteq Derived)
  BY <1>2
<1> QED BY <1>1, <1>2

\* Two such functions agree where both are defined.
LEMMA PinnedUnique ==
    ASSUME NEW m, NEW f, NEW A, NEW g, NEW B,
           Pinned(f, A, m), Pinned(g, B, m)
    PROVE  \A r \in A \cap B : f[r] = g[r]
<1> DEFINE D == {r \in A \cap B : f[r] # g[r]}
<1>1. SUFFICES ASSUME D # {} PROVE FALSE
  OBVIOUS
<1>2. PICK r \in D : r \in Derived => DerivedFrom[r] \notin D
  <2>1. D \in SUBSET Revision
    BY DEF Pinned
  <2> HIDE DEF D
  <2> QED BY <1>1, <2>1, FirstRevision
<1>3. CASE r \notin Derived
  BY <1>2, <1>3 DEF Pinned
<1>4. CASE r \in Derived
  <2>1. DerivedFrom[r] \in A \cap B
    BY <1>2, <1>4 DEF Pinned
  <2>2. f[DerivedFrom[r]] = g[DerivedFrom[r]]
    BY <1>2, <1>4, <2>1
  <2>3. f[r] = f[DerivedFrom[r]] \o Intact(r) /\ g[r] = g[DerivedFrom[r]] \o Intact(r)
    BY <1>2, <1>4 DEF Pinned
  <2> QED BY <1>2, <2>2, <2>3
<1> QED BY <1>3, <1>4

\* Every revision has such a function.
LEMMA PinnedExists ==
    ASSUME NEW m, NEW r \in Revision
    PROVE  \E f, A : r \in A /\ Pinned(f, A, m)
<1> DEFINE S == {x \in Revision : ~ \E f, A : x \in A /\ Pinned(f, A, m)}
<1>1. SUFFICES ASSUME S # {} PROVE FALSE
  OBVIOUS
<1>2. PICK x \in S : x \in Derived => DerivedFrom[x] \notin S
  <2>1. S \in SUBSET Revision
    OBVIOUS
  <2> HIDE DEF S
  <2> QED BY <1>1, <2>1, FirstRevision
<1>3. CASE x \notin Derived
  <2> DEFINE f == [y \in {x} |-> <<m[x]>>]
  <2>1. Pinned(f, {x}, m)
    BY <1>2, <1>3 DEF Pinned
  <2> HIDE DEF f
  <2> QED BY <1>2, <2>1
<1>4. CASE x \in Derived
  <2>1. DerivedFrom[x] \in Revision
    BY <1>4, PopulationAssumption
  <2>2. PICK g, A : DerivedFrom[x] \in A /\ Pinned(g, A, m)
    BY <1>2, <1>4, <2>1
  <2>3. x \notin A
    BY <1>2, <2>2
  <2> DEFINE f == [y \in A \cup {x} |-> IF y = x THEN g[DerivedFrom[x]] \o Intact(x) ELSE g[y]]
  <2>4. f[x] = g[DerivedFrom[x]] \o Intact(x) /\ \A y \in A : f[y] = g[y]
    BY <2>3
  <2> HIDE DEF f
  <2>5. \A y \in (A \cup {x}) \cap Derived : DerivedFrom[y] \in A
    BY <1>4, <2>2 DEF Pinned
  <2>6. \A y \in A \cup {x} : f[y] = IF y \in Derived THEN f[DerivedFrom[y]] \o Intact(y)
                                     ELSE <<m[y]>>
    <3>1. TAKE y \in A \cup {x}
    <3>2. CASE y = x
      BY <1>4, <2>2, <2>4, <3>2
    <3>3. CASE y \in A
      <4>1. g[y] = IF y \in Derived THEN g[DerivedFrom[y]] \o Intact(y) ELSE <<m[y]>>
        BY <2>2, <3>3 DEF Pinned
      <4>2. y \in Derived => f[DerivedFrom[y]] = g[DerivedFrom[y]]
        BY <2>4, <2>5
      <4> QED BY <2>4, <3>3, <4>1, <4>2
    <3> QED BY <3>2, <3>3
  <2>7. Pinned(f, A \cup {x}, m)
    BY <1>2, <2>2, <2>5, <2>6 DEF Pinned
  <2> QED BY <1>2, <2>7
<1> QED BY <1>3, <1>4

Pins(pin) ==
    /\ pin \in [Revision -> Commit]
    /\ \A r \in Derived : pin[r] = pin[DerivedFrom[r]] \o Intact(r)

\* Intact patches are a sequence of commits' parts.
LEMMA IntactCommit ==
    ASSUME NEW r \in Derived
    PROVE  Intact(r) \in Commit
<1>1. PatchesOf[r] \in Seq(Patch)
  BY PopulationAssumption
<1>2. DOMAIN PatchesOf[r] = 1..Len(PatchesOf[r]) /\ Len(PatchesOf[r]) \in Nat
      /\ \A i \in 1..Len(PatchesOf[r]) : PatchesOf[r][i] \in Patch
  BY <1>1
<1>3. \A i \in 1..Len(PatchesOf[r]) : [patch |-> PatchesOf[r][i], intact |-> TRUE] \in Part
  BY <1>2 DEF Part
<1> QED BY <1>2, <1>3 DEF Intact, Commit

\* What PinOf computes: a fetched revision is pinned by the manifest, a
\* derived one is its base with the intact patches.
LEMMA PinOfPins ==
    ASSUME NEW m \in Manifests
    PROVE  Pins(PinOf(m))
<1> DEFINE body(f) == [r \in Revision |->
                         IF r \in Derived
                         THEN f[DerivedFrom[r]] \o
                              [i \in DOMAIN PatchesOf[r] |->
                                 [patch |-> PatchesOf[r][i], intact |-> TRUE]]
                         ELSE <<m[r]>>]
<1>1. PinOf(m) = CHOOSE f : f = body(f)
  BY DEF PinOf
<1>2. \E f : f = body(f)
  <2> DEFINE Fn(r) == CHOOSE f : \E A : r \in A /\ Pinned(f, A, m)
  <2> DEFINE all == [r \in Revision |-> Fn(r)[r]]
  <2>1. \A r \in Revision : \E A : r \in A /\ Pinned(Fn(r), A, m)
    BY PinnedExists
  <2> HIDE DEF Fn
  <2>2. ASSUME NEW r \in Revision
        PROVE  all[r] = IF r \in Derived THEN all[DerivedFrom[r]] \o Intact(r) ELSE <<m[r]>>
    <3>1. PICK A : r \in A /\ Pinned(Fn(r), A, m)
      BY <2>1
    <3>2. Fn(r)[r] = IF r \in Derived THEN Fn(r)[DerivedFrom[r]] \o Intact(r) ELSE <<m[r]>>
      BY <3>1 DEF Pinned
    <3>3. CASE r \notin Derived
      BY <3>2, <3>3
    <3>4. CASE r \in Derived
      <4>1. DerivedFrom[r] \in A /\ DerivedFrom[r] \in Revision
        BY <3>1, <3>4 DEF Pinned
      <4>2. PICK B : DerivedFrom[r] \in B /\ Pinned(Fn(DerivedFrom[r]), B, m)
        BY <2>1, <4>1
      <4>3. Fn(r)[DerivedFrom[r]] = Fn(DerivedFrom[r])[DerivedFrom[r]]
        BY <3>1, <4>1, <4>2, PinnedUnique
      <4> QED BY <3>2, <3>4, <4>1, <4>3
    <3> QED BY <3>3, <3>4
  <2>3. all = body(all)
    <3>1. \A r \in Revision : all[r] = body(all)[r]
      BY <2>2 DEF Intact
    <3> QED BY <3>1
  <2> QED BY <2>3
<1>3. PinOf(m) = body(PinOf(m))
  BY <1>1, <1>2
<1> DEFINE pin == PinOf(m)
<1>4. /\ pin = [r \in Revision |-> pin[r]]
      /\ \A r \in Revision : pin[r] = IF r \in Derived THEN pin[DerivedFrom[r]] \o Intact(r)
                                      ELSE <<m[r]>>
  BY <1>3 DEF Intact
<1> HIDE DEF pin
<1>5. \A r \in Revision : pin[r] \in Commit
  <2> DEFINE S == {r \in Revision : pin[r] \notin Commit}
  <2>1. SUFFICES ASSUME S # {} PROVE FALSE
    OBVIOUS
  <2>2. PICK r \in S : r \in Derived => DerivedFrom[r] \notin S
    <3>1. S \in SUBSET Revision
      OBVIOUS
    <3> HIDE DEF S
    <3> QED BY <2>1, <3>1, FirstRevision
  <2>3. CASE r \notin Derived
    <3>1. m[r] \in Part
      BY <2>3, PopulationAssumption DEF Part
    <3>2. \A e \in Part : <<e>> \in Commit
      BY DEF Commit
    <3>3. <<m[r]>> \in Commit
      BY <3>1, <3>2
    <3>4. pin[r] = <<m[r]>>
      BY <1>4, <2>3
    <3> QED BY <2>2, <3>3, <3>4
  <2>4. CASE r \in Derived
    <3>1. pin[DerivedFrom[r]] \in Commit
      BY <2>2, <2>4, PopulationAssumption
    <3>2. pin[DerivedFrom[r]] \o Intact(r) \in Commit
      BY <2>4, <3>1, IntactCommit, ConcatProperties DEF Commit
    <3> QED BY <1>4, <2>2, <2>4, <3>2
  <2> QED BY <2>3, <2>4
<1>6. Pins(pin)
  BY <1>4, <1>5, PopulationAssumption DEF Pins
<1> QED BY <1>6 DEF pin

-----------------------------------------------------------------------------
(* Types, the shape of a run, and the names of temporary worktrees *)

Running ==
    [pc : {"files", "revision", "construct", "ref", "add", "move", "done", "failed"},
     number : Nat, pin : [Revision -> Commit],
     wanted : (SUBSET Revision) \X (SUBSET Worktree),
     todo : SUBSET Revision, trees : SUBSET Worktree, files : SUBSET Patch,
     commit : Commit, applied : Nat,
     revision : Revision \cup {None}, tree : Worktree \cup {None},
     network : BOOLEAN, edits : Nat, alone : BOOLEAN]

Directory == [there : BOOLEAN, ours : BOOLEAN, registered : BOOLEAN,
              head : Commit \cup {None, Mine}, dirty : BOOLEAN]

DiskType ==
    /\ ref \in [Revision -> Commit \cup {None}]
    /\ patch \in [Patch -> BOOLEAN]
    /\ worktree \in [Worktree -> Directory]
    /\ temp \subseteq Nat
    /\ started \in Nat /\ edits \in Nat

TypeOK ==
    /\ DiskType
    /\ run \in [Proc -> {Idle} \cup Running]

Busy(p) == run[p].pc # "idle"

\* What a run has still to do, and where it is.
Shape(x) ==
    /\ Pins(x.pin)
    /\ \A r \in x.wanted[1] \cap Derived : DerivedFrom[r] \in x.wanted[1]
    /\ \A w \in x.wanted[2] : RevisionOf[w] \in x.wanted[1]
    /\ x.todo \subseteq x.wanted[1]
    /\ x.trees \subseteq x.wanted[2]
    /\ x.pc = "construct" =>
         x.revision \in x.todo \cap Derived /\ x.applied <= Len(PatchesOf[x.revision])
    /\ x.pc = "ref" => x.revision \in x.todo /\ x.commit = x.pin[x.revision]
    /\ x.pc \in {"add", "move"} => x.todo = {} /\ x.tree \in x.wanted[2] \ x.trees
    /\ x.pc = "done" => x.todo = {} /\ x.trees = {}

Shaped == \A p \in Proc : Busy(p) => Shape(run[p])

\* A revision that is done has a ref, whatever others do.
Handled == \A p \in Proc : Busy(p) =>
             \A r \in run[p].wanted[1] \ run[p].todo : ref[r] \in Commit

\* No two runs have one number, and a temporary worktree is that of a run
\* that constructs, or was left by one that was killed.
Numbered ==
    /\ \A n \in temp : n <= started
    /\ \A p \in Proc : Busy(p) =>
         /\ run[p].number <= started
         /\ run[p].number \in temp => run[p].pc = "construct"
         /\ \A q \in Proc \ {p} : Busy(q) => run[q].number # run[p].number

Base == TypeOK /\ Shaped /\ Handled /\ Numbered

\* A process either has a run or is idle.
LEMMA RunTypes ==
    ASSUME TypeOK, NEW p \in Proc
    PROVE  /\ Busy(p) <=> run[p] \in Running
           /\ ~Busy(p) <=> run[p] = Idle
BY DEF TypeOK, Busy, Running, Idle

-----------------------------------------------------------------------------
(* What a step does *)

\* p goes on with its run.
Continues(p) ==
    /\ run[p] \in Running /\ run'[p] \in Running
    /\ run' \in [Proc -> {Idle} \cup Running]
    /\ \A q \in Proc \ {p} : run'[q] = run[q]
    /\ run'[p].number = run[p].number /\ run'[p].pin = run[p].pin
    /\ run'[p].wanted = run[p].wanted
    /\ run'[p].edits = run[p].edits /\ run'[p].alone = run[p].alone
    /\ UNCHANGED <<started, edits>>

Populates(p) ==
    /\ Continues(p)
    /\ run[p].pc = "files" /\ run'[p].pc \in {"files", "revision"}
    /\ run'[p].todo = run[p].todo /\ run'[p].trees = run[p].trees
    /\ patch' \in [Patch -> BOOLEAN]
    /\ UNCHANGED <<head, ref, temp, worktree>>

Updates(p, r) ==
    /\ Continues(p)
    /\ run[p].pc \in {"revision", "ref"} /\ r \in run[p].todo
    /\ run'[p].pc = "revision"
    /\ run'[p].todo = run[p].todo \ {r} /\ run'[p].trees = run[p].trees
    /\ ref' = [ref EXCEPT ![r] = run[p].pin[r]]
    /\ UNCHANGED <<head, patch, temp, worktree>>

StartsConstruct(p, r) ==
    /\ Continues(p)
    /\ run[p].pc = "revision" /\ run'[p].pc = "construct"
    /\ r \in run[p].todo \cap Derived
    /\ DerivedFrom[r] \in run[p].wanted[1] \ run[p].todo
    /\ run'[p].todo = run[p].todo /\ run'[p].trees = run[p].trees
    /\ run'[p].revision = r /\ run'[p].applied = 0
    /\ run'[p].commit = ref[DerivedFrom[r]]
    /\ temp' = temp \cup {run[p].number}
    /\ UNCHANGED <<head, patch, ref, worktree>>

Applies(p) ==
    /\ Continues(p)
    /\ run[p].pc = "construct" /\ run'[p].pc = "construct"
    /\ run'[p].todo = run[p].todo /\ run'[p].trees = run[p].trees
    /\ run'[p].revision = run[p].revision
    /\ run[p].applied < Len(PatchesOf[run[p].revision])
    /\ run'[p].applied = run[p].applied + 1
    /\ LET x == PatchesOf[run[p].revision][run[p].applied + 1] IN
         run'[p].commit = Append(run[p].commit, [patch |-> x, intact |-> patch[x]])
    /\ UNCHANGED <<head, patch, ref, temp, worktree>>

EndsConstruct(p) ==
    /\ Continues(p)
    /\ run[p].pc = "construct" /\ run'[p].pc = "ref"
    /\ run'[p].todo = run[p].todo /\ run'[p].trees = run[p].trees
    /\ run'[p].revision = run[p].revision
    /\ run'[p].commit = run[p].pin[run[p].revision]
    /\ temp' = temp \ {run[p].number}
    /\ UNCHANGED <<head, patch, ref, worktree>>

Inspects(p, w) ==
    /\ Continues(p)
    /\ run[p].pc = "revision" /\ run[p].todo = {} /\ w \in run[p].trees
    /\ run'[p].todo = {} /\ run'[p].trees = run[p].trees \ {w} /\ run'[p].tree = w
    /\ \/ run'[p].pc = "revision" /\ StatusOf(w, run[p].pin) = "ok"
       \/ run'[p].pc = "add" /\ ~worktree[w].there
       \/ run'[p].pc = "move" /\ worktree[w].ours /\ ~worktree[w].dirty
    /\ UNCHANGED <<head, patch, ref, temp, worktree>>

Finishes(p) ==
    /\ Continues(p)
    /\ run[p].pc = "revision" /\ run'[p].pc = "done"
    /\ run[p].todo = {} /\ run[p].trees = {}
    /\ run'[p].todo = {} /\ run'[p].trees = {}
    /\ UNCHANGED <<head, patch, ref, temp, worktree>>

Adds(p) ==
    /\ Continues(p)
    /\ run[p].pc = "add" /\ run'[p].pc = "revision"
    /\ run'[p].todo = run[p].todo /\ run'[p].trees = run[p].trees
    /\ ~worktree[run[p].tree].there
    /\ worktree' = [worktree EXCEPT ![run[p].tree] =
                      [there |-> TRUE, ours |-> TRUE, registered |-> TRUE,
                       head |-> ref[RevisionOf[run[p].tree]], dirty |-> FALSE]]
    /\ UNCHANGED <<head, patch, ref, temp>>

Moves(p) ==
    /\ Continues(p)
    /\ run[p].pc = "move" /\ run'[p].pc = "revision"
    /\ run'[p].todo = run[p].todo /\ run'[p].trees = run[p].trees
    /\ worktree[run[p].tree].ours
    /\ worktree' = [worktree EXCEPT ![run[p].tree].head = run[p].pin[RevisionOf[run[p].tree]]]
    /\ UNCHANGED <<head, patch, ref, temp>>

\* Why a step fails.
Cause(p) ==
    \/ ~run'[p].network
    \/ \E r \in run[p].todo : Moved(p, r) \/ Edited(p, r)
    \/ \E w \in run[p].wanted[2] : Blocked(p, w)
    \/ /\ run[p].pc = "construct" /\ run[p].applied = Len(PatchesOf[run[p].revision])
       /\ run[p].commit # run[p].pin[run[p].revision]
    \/ run[p].pc = "add" /\ (worktree[run[p].tree].there \/ worktree[run[p].tree].registered)
    \/ run[p].pc = "move" /\ (worktree[run[p].tree].dirty \/ ~worktree[run[p].tree].ours)

Fails(p) ==
    /\ Continues(p)
    /\ run[p].pc \notin {"done", "failed"} /\ run'[p].pc = "failed"
    /\ run'[p].todo = run[p].todo /\ run'[p].trees \subseteq run[p].trees
    /\ Cause(p)
    /\ temp' \subseteq temp /\ run[p].number \notin temp'
    /\ UNCHANGED <<head, patch, ref, worktree>>

Stops(p) ==
    /\ run[p] \in Running /\ run'[p] = Idle
    /\ run' \in [Proc -> {Idle} \cup Running]
    /\ \A q \in Proc \ {p} : run'[q] = run[q]
    /\ UNCHANGED <<head, patch, ref, temp, worktree, started, edits>>

Starts(p) ==
    /\ run[p] = Idle /\ run'[p] \in Running
    /\ run' \in [Proc -> {Idle} \cup Running]
    /\ started' = started + 1
    /\ run'[p].pc = "files" /\ run'[p].number = started + 1
    /\ Shape(run'[p]) /\ run'[p].todo = run'[p].wanted[1] /\ run'[p].trees = run'[p].wanted[2]
    /\ run'[p].edits = edits
    /\ run'[p].alone => \A q \in Proc \ {p} : run[q] = Idle
    /\ \A q \in Proc \ {p} :
         IF run[q] = Idle THEN run'[q] = Idle
         ELSE run[q] \in Running /\ run'[q] = [run[q] EXCEPT !.alone = FALSE]
    /\ UNCHANGED <<head, patch, ref, temp, worktree, edits>>

Disturbs ==
    /\ edits' = edits + 1
    /\ patch' \in [Patch -> BOOLEAN] /\ worktree' \in [Worktree -> Directory]
    /\ \A w \in Worktree :
         /\ worktree'[w].ours => worktree[w].ours
         /\ worktree[w].there /\ worktree'[w].ours => worktree'[w].there
    /\ UNCHANGED <<ref, temp, run, started>>

\* A step that changes what a run has still to do, or where it is.
LEMMA ChangeContinues ==
    ASSUME Base, NEW p \in Proc, NEW y \in Running, Busy(p),
           run' = [run EXCEPT ![p] = y], UNCHANGED <<started, edits>>,
           y.number = run[p].number, y.pin = run[p].pin, y.wanted = run[p].wanted,
           y.edits = run[p].edits, y.alone = run[p].alone
    PROVE  Continues(p) /\ run'[p] = y
BY RunTypes DEF Base, TypeOK, Continues

\* A step that changes only where the run is.
LEMMA GotoContinues ==
    ASSUME Base, NEW p \in Proc, Busy(p), UNCHANGED <<started, edits>>,
           NEW pc \in {"revision", "ref", "done", "failed"}, Goto(p, pc)
    PROVE  /\ Continues(p) /\ run'[p].pc = pc
           /\ run'[p].todo = run[p].todo /\ run'[p].trees = run[p].trees
           /\ run'[p].revision = run[p].revision /\ run'[p].commit = run[p].commit
           /\ run'[p].network = run[p].network
<1> DEFINE x == run[p]  y == [x EXCEPT !.pc = pc]
<1>1. x \in Running
  BY RunTypes DEF Base
<1>2. y \in Running /\ run' = [run EXCEPT ![p] = y]
  BY <1>1 DEF Goto, Running
<1>3. /\ y.number = x.number /\ y.pin = x.pin /\ y.wanted = x.wanted
      /\ y.edits = x.edits /\ y.alone = x.alone /\ y.todo = x.todo /\ y.trees = x.trees
      /\ y.pc = pc /\ y.revision = x.revision /\ y.commit = x.commit /\ y.network = x.network
  BY <1>1 DEF Running
<1> HIDE DEF y
<1>4. Continues(p) /\ run'[p] = y
  BY <1>2, <1>3, ChangeContinues
<1> QED BY <1>3, <1>4

LEMMA PopulateFileDoes ==
    ASSUME Base, NEW p \in Proc, PopulateFile(p)
    PROVE  Populates(p)
<1> DEFINE x == run[p]
<1>1. x \in Running /\ x.pc = "files" /\ Busy(p)
  BY RunTypes DEF Base, PopulateFile, Busy
<1>2. patch \in [Patch -> BOOLEAN]
  BY DEF Base, TypeOK, DiskType
<1>3. CASE x.files = {}
  <2>1. Goto(p, "revision") /\ patch' = patch
    BY <1>3 DEF PopulateFile
  <2> QED BY <1>1, <1>2, <2>1, GotoContinues DEF PopulateFile, Populates, git
<1>4. CASE x.files # {}
  <2> DEFINE f == CHOOSE y \in x.files : TRUE
  <2>1. f \in x.files
    BY <1>4
  <2> DEFINE y == [x EXCEPT !.files = x.files \ {f}]
  <2>2. y \in Running
    BY <1>1 DEF Running
  <2>3. run' = [run EXCEPT ![p] = y] /\ patch' = [patch EXCEPT ![f] = @ \/ f \in Fetchable]
    BY <1>4 DEF PopulateFile
  <2>4. /\ y.number = x.number /\ y.pin = x.pin /\ y.wanted = x.wanted
        /\ y.edits = x.edits /\ y.alone = x.alone /\ y.todo = x.todo /\ y.trees = x.trees
        /\ y.pc = "files"
    BY <1>1 DEF Running
  <2>5. patch' \in [Patch -> BOOLEAN]
    BY <1>2, <2>3
  <2> HIDE DEF y, f
  <2>6. Continues(p) /\ run'[p] = y
    BY <1>1, <2>2, <2>3, <2>4, ChangeContinues DEF PopulateFile
  <2> QED BY <1>1, <2>4, <2>5, <2>6 DEF PopulateFile, Populates, git
<1> QED BY <1>3, <1>4

LEMMA NetworkFailsDoes ==
    ASSUME Base, NEW p \in Proc, NetworkFails(p)
    PROVE  Fails(p)
<1> DEFINE x == run[p]  y == [x EXCEPT !.pc = "failed", !.network = FALSE]
<1>1. x \in Running /\ x.pc \in {"files", "revision"} /\ Busy(p)
  BY RunTypes DEF Base, NetworkFails, Busy
<1>2. y \in Running /\ run' = [run EXCEPT ![p] = y]
  BY <1>1 DEF NetworkFails, Running
<1>3. /\ y.number = x.number /\ y.pin = x.pin /\ y.wanted = x.wanted
      /\ y.edits = x.edits /\ y.alone = x.alone /\ y.todo = x.todo /\ y.trees = x.trees
      /\ y.pc = "failed" /\ ~y.network
  BY <1>1 DEF Running
<1> HIDE DEF y
<1>4. Continues(p) /\ run'[p] = y
  BY <1>1, <1>2, <1>3, ChangeContinues DEF NetworkFails
<1>5. x.number \notin temp
  BY <1>1 DEF Base, Numbered
<1> QED BY <1>1, <1>3, <1>4, <1>5 DEF NetworkFails, Fails, Cause, git

\* A ref is set to the pinned commit only.
LEMMA UpdateDoes ==
    ASSUME Base, NEW p \in Proc, NEW r \in run[p].todo, Busy(p),
           run[p].pc \in {"revision", "ref"},
           UpdateRef(p, r, run[p].pin[r]),
           UNCHANGED <<head, patch, temp, worktree, started, edits>>
    PROVE  Updates(p, r)
<1> DEFINE x == run[p]  y == [x EXCEPT !.todo = x.todo \ {r}, !.pc = "revision"]
<1>1. x \in Running
  BY RunTypes DEF Base
<1>2. y \in Running /\ run' = [run EXCEPT ![p] = y]
  BY <1>1 DEF UpdateRef, Running
<1>3. /\ y.number = x.number /\ y.pin = x.pin /\ y.wanted = x.wanted
      /\ y.edits = x.edits /\ y.alone = x.alone /\ y.todo = x.todo \ {r} /\ y.trees = x.trees
      /\ y.pc = "revision"
  BY <1>1 DEF Running
<1> HIDE DEF y
<1>4. Continues(p) /\ run'[p] = y
  BY <1>1, <1>2, <1>3, ChangeContinues
<1> QED BY <1>3, <1>4 DEF UpdateRef, Updates

LEMMA RevisionPresentDoes ==
    ASSUME Base, NEW p \in Proc, NEW r, RevisionPresent(p, r)
    PROVE  Updates(p, r)
BY UpdateDoes DEF RevisionPresent, Busy

LEMMA FetchRevisionDoes ==
    ASSUME Base, NEW p \in Proc, NEW r, FetchRevision(p, r)
    PROVE  Updates(p, r) \/ Fails(p)
<1>1. run[p].pc = "revision" /\ r \in run[p].todo /\ r \notin Derived /\ Busy(p)
  BY DEF FetchRevision, Busy
<1>2. CASE <<Upstream[head]>> = run[p].pin[r]
  BY <1>1, <1>2, UpdateDoes DEF FetchRevision, Verified
<1>3. CASE <<Upstream[head]>> # run[p].pin[r]
  <2>1. Goto(p, "failed") /\ UNCHANGED ref
    BY <1>3 DEF FetchRevision, Verified
  <2>2. Moved(p, r)
    BY <1>1, <1>3 DEF Moved
  <2>3. run[p].number \notin temp
    BY <1>1 DEF Base, Numbered
  <2> QED BY <1>1, <2>1, <2>2, <2>3, GotoContinues DEF FetchRevision, Fails, Cause
<1> QED BY <1>2, <1>3

LEMMA AddTemporaryDoes ==
    ASSUME Base, NEW p \in Proc, NEW r, AddTemporary(p, r)
    PROVE  StartsConstruct(p, r)
<1> DEFINE x == run[p]
<1>1. /\ x \in Running /\ Busy(p) /\ x.pc = "revision" /\ x.number \notin temp
      /\ r \in x.todo \cap Derived /\ Shape(x)
  BY RunTypes DEF Base, AddTemporary, Busy, Numbered, Shaped
<1>2. DerivedFrom[r] \in x.wanted[1] \ x.todo
  <2>1. x.todo \in SUBSET Revision /\ x.todo # {}
    BY <1>1 DEF Running
  <2>2. \E z \in x.todo : z \in Derived => DerivedFrom[z] \notin x.todo
    BY <2>1, FirstRevision
  <2>3. r = CHOOSE z \in x.todo : z \in Derived => DerivedFrom[z] \notin x.todo
    BY DEF AddTemporary, NextRevision
  <2>4. r \in Derived => DerivedFrom[r] \notin x.todo
    BY <2>2, <2>3
  <2> QED BY <1>1, <2>4 DEF Shape
<1>3. ref[DerivedFrom[r]] \in Commit
  BY <1>1, <1>2 DEF Base, Handled
<1> DEFINE y == [x EXCEPT !.pc = "construct", !.revision = r, !.applied = 0,
                          !.commit = ref[DerivedFrom[r]]]
<1>4. y \in Running
  BY <1>1, <1>3, PopulationAssumption DEF Running
<1>5. run' = [run EXCEPT ![p] = y] /\ temp' = temp \cup {x.number}
  BY <1>1 DEF AddTemporary, Temporary
<1>6. /\ y.number = x.number /\ y.pin = x.pin /\ y.wanted = x.wanted
      /\ y.edits = x.edits /\ y.alone = x.alone /\ y.todo = x.todo /\ y.trees = x.trees
      /\ y.pc = "construct" /\ y.revision = r /\ y.applied = 0
      /\ y.commit = ref[DerivedFrom[r]]
  BY <1>1 DEF Running
<1> HIDE DEF y
<1>7. Continues(p) /\ run'[p] = y
  BY <1>1, <1>4, <1>5, <1>6, ChangeContinues DEF AddTemporary
<1> QED BY <1>1, <1>2, <1>5, <1>6, <1>7 DEF AddTemporary, StartsConstruct

\* The patch a construction applies next.
LEMMA NextPatch ==
    ASSUME Base, NEW p \in Proc, run[p].pc = "construct",
           run[p].applied < Len(PatchesOf[run[p].revision])
    PROVE  /\ run[p].applied + 1 \in DOMAIN PatchesOf[run[p].revision]
           /\ PatchesOf[run[p].revision][run[p].applied + 1] \in Patch
<1>1. run[p] \in Running /\ run[p].revision \in Derived
  BY RunTypes DEF Base, Busy, Shaped, Shape
<1>2. run[p].applied \in Nat
  BY <1>1 DEF Running
<1>3. PatchesOf[run[p].revision] \in Seq(Patch)
  BY <1>1, PopulationAssumption
<1> QED BY <1>2, <1>3

LEMMA ApplyPatchDoes ==
    ASSUME Base, NEW p \in Proc, ApplyPatch(p)
    PROVE  Applies(p)
<1> DEFINE x == run[p]
           f == PatchesOf[x.revision][x.applied + 1]
           commit == Append(x.commit, [patch |-> f, intact |-> patch[f]])
           y == [x EXCEPT !.commit = commit, !.applied = x.applied + 1]
<1>1. /\ x \in Running /\ Busy(p) /\ x.pc = "construct"
      /\ x.applied < Len(PatchesOf[x.revision])
  BY RunTypes DEF Base, ApplyPatch, Busy
<1>2. commit \in Commit
  <2>1. f \in Patch
    BY <1>1, NextPatch
  <2>2. patch[f] \in BOOLEAN
    BY <2>1 DEF Base, TypeOK, DiskType
  <2>3. [patch |-> f, intact |-> patch[f]] \in Part
    BY <2>1, <2>2 DEF Part
  <2>4. x.commit \in Seq(Part)
    BY <1>1 DEF Running, Commit
  <2> QED BY <2>3, <2>4 DEF Commit
<1>3. run' = [run EXCEPT ![p] = y]
  BY DEF ApplyPatch
<1> HIDE DEF commit
<1>4. y \in Running
  <2>1. x.applied + 1 \in Nat
    BY <1>1 DEF Running
  <2> QED BY <1>1, <1>2, <2>1 DEF Running
<1>5. /\ y.number = x.number /\ y.pin = x.pin /\ y.wanted = x.wanted
      /\ y.edits = x.edits /\ y.alone = x.alone /\ y.todo = x.todo /\ y.trees = x.trees
      /\ y.pc = "construct" /\ y.revision = x.revision /\ y.applied = x.applied + 1
      /\ y.commit = commit
  BY <1>1 DEF Running
<1> HIDE DEF y
<1>6. Continues(p) /\ run'[p] = y
  BY <1>1, <1>3, <1>4, <1>5, ChangeContinues DEF ApplyPatch
<1>7. UNCHANGED <<head, patch, ref, temp, worktree>>
  BY DEF ApplyPatch
<1> QED BY <1>1, <1>5, <1>6, <1>7 DEF Applies, commit

LEMMA ApplyFailsDoes ==
    ASSUME Base, NEW p \in Proc, ApplyFails(p)
    PROVE  Fails(p)
<1>1. run[p].pc = "construct" /\ Busy(p) /\ Goto(p, "failed")
  BY DEF ApplyFails, Busy
<1>2. run[p].revision \in run[p].todo \cap Derived
  BY <1>1 DEF Base, Shaped, Shape
<1>3. Edited(p, run[p].revision)
  BY <1>1, <1>2, NextPatch DEF ApplyFails, Edited
<1>4. Cause(p)
  BY <1>2, <1>3 DEF Cause
<1>5. temp' = temp \ {run[p].number}
  BY DEF ApplyFails, Temporary
<1> QED BY <1>1, <1>4, <1>5, GotoContinues DEF ApplyFails, Fails

LEMMA RemoveTemporaryDoes ==
    ASSUME Base, NEW p \in Proc, RemoveTemporary(p)
    PROVE  EndsConstruct(p) \/ Fails(p)
<1>1. run[p].pc = "construct" /\ Busy(p) /\ run[p].applied = Len(PatchesOf[run[p].revision])
  BY DEF RemoveTemporary, Busy
<1>2. temp' = temp \ {run[p].number}
  BY DEF RemoveTemporary, Temporary
<1>3. CASE run[p].commit = run[p].pin[run[p].revision]
  <2>1. Goto(p, "ref")
    BY <1>3 DEF RemoveTemporary, Verified
  <2> QED BY <1>1, <1>2, <1>3, <2>1, GotoContinues DEF RemoveTemporary, EndsConstruct
<1>4. CASE run[p].commit # run[p].pin[run[p].revision]
  <2>1. Goto(p, "failed")
    BY <1>4 DEF RemoveTemporary, Verified
  <2>2. Cause(p)
    BY <1>1, <1>4 DEF Cause
  <2> QED BY <1>1, <1>2, <2>1, <2>2, GotoContinues DEF RemoveTemporary, Fails
<1> QED BY <1>3, <1>4

LEMMA RefDerivedDoes ==
    ASSUME Base, NEW p \in Proc, RefDerived(p)
    PROVE  Updates(p, run[p].revision)
<1>1. run[p].pc = "ref" /\ Busy(p)
  BY DEF RefDerived, Busy
<1>2. run[p].revision \in run[p].todo /\ run[p].commit = run[p].pin[run[p].revision]
  BY <1>1 DEF Base, Shaped, Shape
<1> QED BY <1>1, <1>2, UpdateDoes DEF RefDerived

LEMMA InspectWorktreeDoes ==
    ASSUME Base, NEW p \in Proc, InspectWorktree(p)
    PROVE  (\E w \in Worktree : Inspects(p, w)) \/ Finishes(p) \/ Fails(p)
<1> DEFINE x == run[p]
<1>1. /\ x \in Running /\ Busy(p) /\ x.pc = "revision" /\ x.todo = {} /\ Shape(x)
      /\ x.number \notin temp
  BY RunTypes DEF Base, InspectWorktree, Busy, Shaped, Numbered
<1>2. CASE x.trees = {}
  <2>1. Goto(p, "done")
    BY <1>2 DEF InspectWorktree, Goto
  <2> QED BY <1>1, <1>2, <2>1, GotoContinues DEF InspectWorktree, Finishes, git
<1>3. CASE x.trees # {}
  <2> DEFINE w == CHOOSE z \in x.trees : TRUE
             status == StatusOf(w, x.pin)
             pc == CASE status = "ok" -> "revision"
                     [] status = "missing" -> "add"
                     [] Movable(w, status) -> "move"
                     [] OTHER -> "failed"
             y == [x EXCEPT !.trees = x.trees \ {w}, !.tree = w, !.pc = pc]
  <2>1. run' = [run EXCEPT ![p] = y]
    BY <1>3 DEF InspectWorktree
  <2>2. w \in x.trees /\ w \in Worktree
    BY <1>1, <1>3 DEF Running
  <2>3. \/ status = "ok" /\ pc = "revision"
        \/ status = "missing" /\ pc = "add"
        \/ status = "wrong revision" /\ ~worktree[w].dirty /\ pc = "move"
        \/ status = "wrong revision" /\ worktree[w].dirty /\ pc = "failed"
        \/ status = "foreign" /\ pc = "failed"
    <3>1. status \in {"ok", "missing", "wrong revision", "foreign"}
      BY DEF StatusOf
    <3>2. Movable(w, status) <=> status = "wrong revision" /\ ~worktree[w].dirty
      BY DEF Movable
    <3> HIDE DEF status
    <3> QED BY <3>1, <3>2
  <2>4. pc \in {"revision", "add", "move", "failed"}
    BY <2>3
  <2>5. /\ status = "missing" => ~worktree[w].there
        /\ status = "foreign" => worktree[w].there /\ ~worktree[w].ours
        /\ status = "wrong revision" =>
             worktree[w].ours /\ worktree[w].head # x.pin[RevisionOf[w]]
    BY DEF StatusOf
  <2> HIDE DEF w, status, pc
  <2>6. y \in Running
    BY <1>1, <2>2, <2>4 DEF Running
  <2>7. /\ y.number = x.number /\ y.pin = x.pin /\ y.wanted = x.wanted
        /\ y.edits = x.edits /\ y.alone = x.alone /\ y.todo = x.todo
        /\ y.trees = x.trees \ {w} /\ y.pc = pc /\ y.tree = w
    BY <1>1 DEF Running
  <2> HIDE DEF y
  <2>8. UNCHANGED <<head, patch, ref, temp, worktree, started, edits>>
    BY DEF InspectWorktree, git
  <2>9. Continues(p) /\ run'[p] = y
    BY <1>1, <2>1, <2>6, <2>7, <2>8, ChangeContinues
  <2>10. CASE pc = "failed"
    <3>1. w \in x.wanted[2]
      BY <1>1, <2>2 DEF Shape
    <3>2. Blocked(p, w)
      BY <2>3, <2>5, <2>10 DEF Blocked
    <3>3. Cause(p)
      BY <3>1, <3>2 DEF Cause
    <3> QED BY <1>1, <2>7, <2>8, <2>9, <2>10, <3>3 DEF Fails
  <2>11. CASE pc # "failed"
    BY <1>1, <2>2, <2>3, <2>5, <2>7, <2>8, <2>9, <2>11 DEF Inspects, status
  <2> QED BY <2>2, <2>10, <2>11
<1> QED BY <1>2, <1>3

LEMMA AddWorktreeDoes ==
    ASSUME Base, NEW p \in Proc, AddWorktree(p)
    PROVE  Adds(p) \/ Fails(p)
<1> DEFINE w == run[p].tree
<1>1. run[p].pc = "add" /\ Busy(p) /\ run[p].number \notin temp
  BY DEF AddWorktree, Base, Busy, Numbered
<1>2. CASE worktree[w].there \/ worktree[w].registered
  <2>1. Goto(p, "failed") /\ UNCHANGED worktree
    BY <1>2 DEF AddWorktree
  <2>2. Cause(p)
    BY <1>1, <1>2 DEF Cause
  <2> QED BY <1>1, <2>1, <2>2, GotoContinues DEF AddWorktree, Fails
<1>3. CASE ~ (worktree[w].there \/ worktree[w].registered)
  <2>1. Goto(p, "revision")
        /\ worktree' = [worktree EXCEPT ![w] =
                 [there |-> TRUE, ours |-> TRUE, registered |-> TRUE,
                  head |-> ref[RevisionOf[w]], dirty |-> FALSE]]
    BY <1>3 DEF AddWorktree
  <2> QED BY <1>1, <1>3, <2>1, GotoContinues DEF AddWorktree, Adds
<1> QED BY <1>2, <1>3

LEMMA MoveWorktreeDoes ==
    ASSUME Base, NEW p \in Proc, MoveWorktree(p)
    PROVE  Moves(p) \/ Fails(p)
<1> DEFINE w == run[p].tree
<1>1. run[p].pc = "move" /\ Busy(p) /\ run[p].number \notin temp
  BY DEF MoveWorktree, Base, Busy, Numbered
<1>2. CASE /\ worktree[w].ours
           /\ worktree' = [worktree EXCEPT ![w].head = run[p].pin[RevisionOf[w]]]
           /\ Goto(p, "revision")
  BY <1>1, <1>2, GotoContinues DEF MoveWorktree, Moves
<1>3. CASE /\ worktree[w].dirty \/ ~worktree[w].ours
           /\ Goto(p, "failed") /\ UNCHANGED worktree
  <2>1. Cause(p)
    BY <1>1, <1>3 DEF Cause
  <2> QED BY <1>1, <1>3, <2>1, GotoContinues DEF MoveWorktree, Fails
<1> QED BY <1>2, <1>3 DEF MoveWorktree

LEMMA StopDoes ==
    ASSUME Base, NEW p \in Proc, Return(p) \/ Kill(p)
    PROVE  Stops(p)
<1>1. Busy(p) /\ run' = [run EXCEPT ![p] = Idle]
  BY DEF Return, Kill, Busy
<1> QED BY <1>1, RunTypes DEF Base, TypeOK, Return, Kill, Stops, git

LEMMA BeginDoes ==
    ASSUME Base, NEW p \in Proc, NEW m \in Manifests, NEW wanted \in Selection,
           Begin(p, m, wanted)
    PROVE  Starts(p)
<1> DEFINE revisions == UNION {Needs(r) : r \in wanted[1]}
           files == UNION {{PatchesOf[r][i] : i \in DOMAIN PatchesOf[r]} :
                                  r \in revisions \cap Derived}
           alone == \A q \in Proc \ {p} : run[q].pc = "idle"
           new == [pc |-> "files", number |-> started', pin |-> PinOf(m),
                   wanted |-> <<revisions, wanted[2]>>,
                   todo |-> revisions, trees |-> wanted[2], files |-> files,
                   commit |-> <<>>, applied |-> 0, revision |-> None, tree |-> None,
                   network |-> TRUE, edits |-> edits, alone |-> alone]
<1>1. wanted[1] \in SUBSET Revision /\ wanted[2] \in SUBSET Worktree
      /\ \A w \in wanted[2] : RevisionOf[w] \in Revision /\ RevisionOf[w] \in wanted[1]
  BY PopulationAssumption DEF Selection
<1>2. run[p] = Idle /\ started' = started + 1 /\ started' \in Nat /\ edits \in Nat
      /\ run \in [Proc -> {Idle} \cup Running]
  BY RunTypes DEF Base, TypeOK, DiskType, Begin, Busy
<1>3. run' = [q \in Proc |-> IF q = p THEN new
                ELSE IF run[q].pc = "idle" THEN Idle ELSE [run[q] EXCEPT !.alone = FALSE]]
  BY DEF Begin
<1>4. /\ revisions \in SUBSET Revision
      /\ \A r \in wanted[1] : r \in revisions
      /\ \A r \in revisions \cap Derived : DerivedFrom[r] \in revisions
  <2>1. \A r \in Revision : /\ Needs(r) \subseteq Revision /\ r \in Needs(r)
                            /\ \A x \in Needs(r) \cap Derived : DerivedFrom[x] \in Needs(r)
    BY PopulationAssumption DEF Needs
  <2> QED BY <1>1, <2>1
<1>5. files \in SUBSET Patch
  <2>1. \A r \in Derived : \A i \in DOMAIN PatchesOf[r] : PatchesOf[r][i] \in Patch
    <3>1. TAKE r \in Derived
    <3>2. PatchesOf[r] \in Seq(Patch)
      BY PopulationAssumption
    <3> QED BY <3>2
  <2> QED BY <2>1
<1>6. Pins(PinOf(m))
  BY PinOfPins
<1>7. alone \in BOOLEAN
  OBVIOUS
<1>8. alone => \A q \in Proc \ {p} : run[q] = Idle
  BY RunTypes DEF Base, Busy
<1>9. <<>> \in Commit
  BY DEF Commit
<1> HIDE DEF revisions, files, alone
<1>10. new \in Running
  <2>1. PinOf(m) \in [Revision -> Commit]
    BY <1>6 DEF Pins
  <2>2. <<revisions, wanted[2]>> \in (SUBSET Revision) \X (SUBSET Worktree)
    BY <1>1, <1>4
  <2> QED BY <1>1, <1>2, <1>4, <1>5, <1>7, <1>9, <2>1, <2>2 DEF Running
<1>11. /\ new.pc = "files" /\ new.number = started + 1 /\ new.wanted[1] = revisions
       /\ new.wanted[2] = wanted[2] /\ new.todo = revisions /\ new.trees = wanted[2]
       /\ new.edits = edits /\ new.pin = PinOf(m) /\ (new.alone <=> alone)
  BY <1>2
<1> HIDE DEF new
<1>12. Shape(new)
  BY <1>1, <1>4, <1>6, <1>11 DEF Shape
<1>13. run'[p] = new
  BY <1>3
<1>14. \A q \in Proc \ {p} :
         IF run[q] = Idle THEN run'[q] = Idle
         ELSE run[q] \in Running /\ run'[q] = [run[q] EXCEPT !.alone = FALSE]
  BY <1>3, RunTypes DEF Base, Busy
<1>15. \A q \in Proc \ {p} : run'[q] \in {Idle} \cup Running
  <2>1. \A x \in Running : [x EXCEPT !.alone = FALSE] \in Running
    BY DEF Running
  <2> QED BY <1>14, <2>1
<1>16. run' \in [Proc -> {Idle} \cup Running]
  BY <1>3, <1>10, <1>13, <1>15
<1>17. UNCHANGED <<head, patch, ref, temp, worktree, edits>>
  BY DEF Begin, git
<1> QED BY <1>2, <1>8, <1>10, <1>11, <1>12, <1>13, <1>14, <1>16, <1>17 DEF Starts

LEMMA EnvironmentDoes ==
    ASSUME Base, Environment
    PROVE  Disturbs
<1>1. patch \in [Patch -> BOOLEAN] /\ worktree \in [Worktree -> Directory]
  BY DEF Base, TypeOK, DiskType
<1>2. CASE UpstreamMoves
  <2>1. edits' = edits + 1 /\ UNCHANGED <<patch, ref, temp, worktree, run, started>>
    BY <1>2 DEF UpstreamMoves, Human, git
  <2> QED BY <1>1, <2>1 DEF Disturbs
<1>3. ASSUME NEW x \in Patch, EditPatch(x)
      PROVE  Disturbs
  <2>1. edits' = edits + 1 /\ UNCHANGED <<ref, temp, worktree, run, started>>
    BY <1>3 DEF EditPatch, Human, git
  <2>2. patch' \in [Patch -> BOOLEAN]
    BY <1>1, <1>3 DEF EditPatch
  <2> QED BY <1>1, <2>1, <2>2 DEF Disturbs
<1>4. ASSUME NEW w \in Worktree, NEW new \in Directory, Worktrees(w, new),
             new.ours => worktree[w].ours,
             worktree[w].there /\ new.ours => new.there
      PROVE  Disturbs
  <2>1. edits' = edits + 1 /\ UNCHANGED <<patch, ref, temp, run, started>>
    BY <1>4 DEF Worktrees, Human
  <2>2. worktree' = [worktree EXCEPT ![w] = new]
    BY <1>4 DEF Worktrees
  <2> QED BY <1>1, <1>4, <2>1, <2>2 DEF Disturbs
<1>5. ASSUME NEW w \in Worktree,
             EditWorktree(w) \/ CommitInWorktree(w) \/ DeleteWorktree(w) \/ OccupyPath(w)
      PROVE  Disturbs
  <2> DEFINE d == worktree[w]
             Keeps(new) == (new.ours => d.ours) /\ (d.there /\ new.ours => new.there)
  <2>1. d \in Directory
    BY <1>1
  <2>2. CASE EditWorktree(w)
    <3> DEFINE new == [d EXCEPT !.dirty = ~@]
    <3>1. new \in Directory /\ Keeps(new) /\ Worktrees(w, new)
      BY <2>1, <2>2 DEF EditWorktree, Directory
    <3> HIDE DEF new
    <3> QED BY <3>1, <1>4
  <2>3. CASE CommitInWorktree(w)
    <3> DEFINE new == [d EXCEPT !.dirty = FALSE, !.head = Mine]
    <3>1. new \in Directory /\ Keeps(new) /\ Worktrees(w, new)
      BY <2>1, <2>3 DEF CommitInWorktree, Directory
    <3> HIDE DEF new
    <3> QED BY <3>1, <1>4
  <2>4. CASE DeleteWorktree(w)
    <3> DEFINE new == [Absent EXCEPT !.registered = d.registered]
    <3>1. new \in Directory /\ Keeps(new) /\ Worktrees(w, new)
      BY <2>1, <2>4 DEF DeleteWorktree, Directory, Absent
    <3> HIDE DEF new
    <3> QED BY <3>1, <1>4
  <2>5. CASE OccupyPath(w)
    <3> DEFINE new == [d EXCEPT !.there = TRUE]
    <3>1. new \in Directory /\ Keeps(new) /\ Worktrees(w, new)
      BY <2>1, <2>5 DEF OccupyPath, Directory
    <3> HIDE DEF new
    <3> QED BY <3>1, <1>4
  <2> QED BY <1>5, <2>2, <2>3, <2>4, <2>5
<1> QED BY <1>2, <1>3, <1>5 DEF Environment

\* A step of p in its run.
Acts(p) ==
    \/ Starts(p) \/ Populates(p)
    \/ \E r \in Revision : Updates(p, r) \/ StartsConstruct(p, r)
    \/ Applies(p) \/ EndsConstruct(p)
    \/ \E w \in Worktree : Inspects(p, w)
    \/ Finishes(p) \/ Adds(p) \/ Moves(p) \/ Fails(p)

\* Everything that can happen in a state of Base.
Does == Disturbs \/ \E p \in Proc : Acts(p) \/ Stops(p)

\* Every step has one of these effects.
LEMMA NextDoes ==
    ASSUME Base, Next
    PROVE  Does
<1>1. ASSUME NEW p \in Proc, NEW m \in Manifests, NEW wanted \in Selection,
             Begin(p, m, wanted)
      PROVE  Does
  BY <1>1, BeginDoes DEF Does, Acts
<1>2. ASSUME NEW p \in Proc, Step(p)
      PROVE  Does
  <2>1. CASE PopulateFile(p) \/ NetworkFails(p)
    BY <2>1, PopulateFileDoes, NetworkFailsDoes DEF Does, Acts
  <2>2. ASSUME NEW r \in Revision,
               RevisionPresent(p, r) \/ FetchRevision(p, r) \/ AddTemporary(p, r)
        PROVE  Does
    BY <2>2, RevisionPresentDoes, FetchRevisionDoes, AddTemporaryDoes DEF Does, Acts
  <2>3. CASE ApplyPatch(p) \/ ApplyFails(p) \/ RemoveTemporary(p)
    BY <2>3, ApplyPatchDoes, ApplyFailsDoes, RemoveTemporaryDoes DEF Does, Acts
  <2>4. CASE RefDerived(p)
    <3>1. Updates(p, run[p].revision)
      BY <2>4, RefDerivedDoes
    <3>2. run[p].revision \in Revision
      BY <3>1 DEF Updates, Continues, Running
    <3> QED BY <3>1, <3>2 DEF Does, Acts
  <2>5. CASE InspectWorktree(p) \/ AddWorktree(p) \/ MoveWorktree(p)
    BY <2>5, InspectWorktreeDoes, AddWorktreeDoes, MoveWorktreeDoes DEF Does, Acts
  <2>6. CASE Return(p)
    BY <2>6, StopDoes DEF Does, Acts
  <2> QED BY <1>2, <2>1, <2>2, <2>3, <2>4, <2>5, <2>6 DEF Step
<1>3. ASSUME NEW p \in Proc, Kill(p)
      PROVE  Does
  BY <1>3, StopDoes DEF Does, Acts
<1>4. CASE Environment
  BY <1>4, EnvironmentDoes DEF Does, Acts
<1> QED BY <1>1, <1>2, <1>3, <1>4 DEF Next

-----------------------------------------------------------------------------
(* The base of the other invariants *)

LEMMA BaseInit == Init => Base
<1> SUFFICES ASSUME Init PROVE Base
  OBVIOUS
<1>1. TypeOK
  <2>1. Absent \in Directory
    BY DEF Absent, Directory
  <2> QED BY <2>1 DEF Init, TypeOK, DiskType
<1>2. \A p \in Proc : ~Busy(p)
  BY DEF Init, Busy, Idle
<1> QED BY <1>1, <1>2 DEF Init, Base, Shaped, Handled, Numbered

LEMMA BaseStutter == Base /\ UNCHANGED vars => Base'
BY DEF Base, vars, git, TypeOK, DiskType, Shaped, Handled, Numbered, Busy, Shape, Pins

\* The worktree a run acts on.
LEMMA TreeOf ==
    ASSUME Base, NEW p \in Proc, run[p].pc \in {"add", "move"}
    PROVE  /\ run[p].todo = {}
           /\ run[p].tree \in run[p].wanted[2] \ run[p].trees
           /\ run[p].tree \in Worktree
           /\ RevisionOf[run[p].tree] \in run[p].wanted[1]
           /\ RevisionOf[run[p].tree] \in Revision
<1>1. run[p] \in Running /\ Shape(run[p])
  BY RunTypes DEF Base, Shaped, Busy
<1> QED BY <1>1, PopulationAssumption DEF Shape, Running

\* No step breaks the types.
LEMMA TypeStep ==
    ASSUME Base, Does
    PROVE  TypeOK'
<1>1. DiskType /\ TypeOK
  BY DEF Base, TypeOK
<1>2. ASSUME NEW p \in Proc, Starts(p)
      PROVE  TypeOK'
  BY <1>1, <1>2 DEF TypeOK, DiskType, Starts
<1>3. ASSUME NEW p \in Proc, Stops(p)
      PROVE  TypeOK'
  BY <1>1, <1>3 DEF TypeOK, DiskType, Stops
<1>4. ASSUME NEW p \in Proc, Populates(p)
      PROVE  TypeOK'
  BY <1>1, <1>4 DEF TypeOK, DiskType, Populates, Continues
<1>5. ASSUME NEW p \in Proc, NEW r \in Revision, Updates(p, r)
      PROVE  TypeOK'
  <2>1. run[p].pin[r] \in Commit
    BY <1>5 DEF Updates, Continues, Running
  <2> QED BY <1>1, <1>5, <2>1 DEF TypeOK, DiskType, Updates, Continues
<1>6. ASSUME NEW p \in Proc, NEW r \in Revision, StartsConstruct(p, r)
      PROVE  TypeOK'
  <2>1. run[p].number \in Nat
    BY <1>6 DEF StartsConstruct, Continues, Running
  <2> QED BY <1>1, <1>6, <2>1 DEF TypeOK, DiskType, StartsConstruct, Continues
<1>7. ASSUME NEW p \in Proc,
             \/ Applies(p) \/ Finishes(p)
             \/ \E w \in Worktree : Inspects(p, w)
      PROVE  TypeOK'
  BY <1>1, <1>7 DEF TypeOK, DiskType, Applies, Finishes, Inspects, Continues
<1>8. ASSUME NEW p \in Proc, EndsConstruct(p) \/ Fails(p)
      PROVE  TypeOK'
  BY <1>1, <1>8 DEF TypeOK, DiskType, EndsConstruct, Fails, Continues
<1>9. ASSUME NEW p \in Proc, Adds(p)
      PROVE  TypeOK'
  <2> DEFINE w == run[p].tree
             d == [there |-> TRUE, ours |-> TRUE, registered |-> TRUE,
                   head |-> ref[RevisionOf[w]], dirty |-> FALSE]
  <2>1. w \in Worktree /\ RevisionOf[w] \in Revision
    BY <1>9, TreeOf DEF Adds
  <2>2. d \in Directory
    BY <1>1, <2>1 DEF DiskType, Directory
  <2>3. worktree' = [worktree EXCEPT ![w] = d]
    BY <1>9 DEF Adds
  <2> HIDE DEF d, w
  <2>4. worktree' \in [Worktree -> Directory]
    BY <1>1, <2>1, <2>2, <2>3 DEF DiskType
  <2> QED BY <1>1, <1>9, <2>4 DEF TypeOK, DiskType, Adds, Continues
<1>10. ASSUME NEW p \in Proc, Moves(p)
       PROVE  TypeOK'
  <2> DEFINE w == run[p].tree
             c == run[p].pin[RevisionOf[w]]
             d == [worktree[w] EXCEPT !.head = c]
  <2>1. w \in Worktree /\ RevisionOf[w] \in Revision
    BY <1>10, TreeOf DEF Moves
  <2>2. c \in Commit
    BY <1>10, <2>1 DEF Moves, Continues, Running
  <2>3. worktree[w] \in Directory
    BY <1>1, <2>1 DEF DiskType
  <2>4. worktree' = [worktree EXCEPT ![w] = d]
    BY <1>10 DEF Moves
  <2> HIDE DEF c
  <2>5. d \in Directory
    BY <2>2, <2>3 DEF Directory
  <2> HIDE DEF d, w
  <2>6. worktree' \in [Worktree -> Directory]
    BY <1>1, <2>1, <2>4, <2>5 DEF DiskType
  <2> QED BY <1>1, <1>10, <2>6 DEF TypeOK, DiskType, Moves, Continues
<1>11. CASE Disturbs
  BY <1>1, <1>11 DEF TypeOK, DiskType, Disturbs
<1> QED BY <1>2, <1>3, <1>4, <1>5, <1>6, <1>7, <1>8, <1>9, <1>10, <1>11 DEF Does, Acts

\* A step changes the shape of its own run only.
LEMMA OthersShaped ==
    ASSUME Base, NEW p \in Proc,
           \A q \in Proc \ {p} :
             \/ run'[q] = run[q]
             \/ run[q] \in Running /\ run'[q] = [run[q] EXCEPT !.alone = FALSE],
           run'[p] = Idle \/ Shape(run'[p])
    PROVE  Shaped'
<1>1. SUFFICES ASSUME NEW q \in Proc, Busy(q)'
               PROVE  Shape(run'[q])
  BY DEF Shaped
<1>2. CASE q = p
  BY <1>1, <1>2 DEF Busy, Idle
<1>3. CASE run'[q] = run[q]
  BY <1>1, <1>3 DEF Base, Shaped, Busy
<1>4. CASE run'[q] = [run[q] EXCEPT !.alone = FALSE] /\ run[q] \in Running
  <2>1. Shape(run[q])
    BY <1>4, RunTypes DEF Base, Shaped
  <2> DEFINE x == run[q]  y == run'[q]
  <2>2. /\ y.pc = x.pc /\ y.pin = x.pin /\ y.wanted = x.wanted /\ y.todo = x.todo
        /\ y.trees = x.trees /\ y.commit = x.commit /\ y.applied = x.applied
        /\ y.revision = x.revision /\ y.tree = x.tree
    BY <1>4 DEF Running
  <2> HIDE DEF x, y
  <2>3. Shape(x) => Shape(y)
    BY <2>2 DEF Shape
  <2> QED BY <2>1, <2>3 DEF x, y
<1> QED BY <1>2, <1>3, <1>4

\* No step breaks the order of a run.
LEMMA ShapeStep ==
    ASSUME Base, Does
    PROVE  Shaped'
<1>1. ASSUME NEW p \in Proc, Continues(p)
      PROVE  /\ Shape(run[p]) /\ run[p] \in Running
             /\ Shape(run'[p]) => Shaped'
  <2>1. run[p] \in Running /\ Shape(run[p])
    BY <1>1, RunTypes DEF Base, Continues, Shaped
  <2>2. \A q \in Proc \ {p} : run'[q] = run[q]
    BY <1>1 DEF Continues
  <2> QED BY <2>1, <2>2, OthersShaped
<1>2. ASSUME NEW p \in Proc, Starts(p)
      PROVE  Shaped'
  <2>1. \A q \in Proc \ {p} :
          \/ run'[q] = run[q]
          \/ run[q] \in Running /\ run'[q] = [run[q] EXCEPT !.alone = FALSE]
    BY <1>2 DEF Starts
  <2>2. Shape(run'[p])
    BY <1>2 DEF Starts
  <2> QED BY <2>1, <2>2, OthersShaped
<1>3. ASSUME NEW p \in Proc, Stops(p)
      PROVE  Shaped'
  BY <1>3, OthersShaped DEF Stops
<1>4. ASSUME NEW p \in Proc, Populates(p)
      PROVE  Shaped'
  BY <1>1, <1>4 DEF Populates, Continues, Shape
<1>5. ASSUME NEW p \in Proc, NEW r \in Revision, Updates(p, r)
      PROVE  Shaped'
  BY <1>1, <1>5 DEF Updates, Continues, Shape
<1>6. ASSUME NEW p \in Proc, NEW r \in Revision, StartsConstruct(p, r)
      PROVE  Shaped'
  <2>1. 0 <= Len(PatchesOf[r])
    <3>1. PatchesOf[r] \in Seq(Patch)
      BY <1>6, PopulationAssumption DEF StartsConstruct
    <3> QED BY <3>1
  <2> QED BY <1>1, <1>6, <2>1 DEF StartsConstruct, Continues, Shape
<1>7. ASSUME NEW p \in Proc, Applies(p)
      PROVE  Shaped'
  <2>1. run[p].revision \in run[p].todo \cap Derived
    BY <1>1, <1>7 DEF Applies, Shape
  <2>2. run[p].applied + 1 <= Len(PatchesOf[run[p].revision])
    <3>1. PatchesOf[run[p].revision] \in Seq(Patch)
      BY <2>1, PopulationAssumption
    <3>2. run[p].applied \in Nat
      BY <1>7 DEF Applies, Continues, Running
    <3> QED BY <1>7, <3>1, <3>2 DEF Applies
  <2> QED BY <1>1, <1>7, <2>1, <2>2 DEF Applies, Continues, Shape
<1>8. ASSUME NEW p \in Proc, EndsConstruct(p)
      PROVE  Shaped'
  BY <1>1, <1>8 DEF EndsConstruct, Continues, Shape
<1>9. ASSUME NEW p \in Proc, NEW w \in Worktree, Inspects(p, w)
      PROVE  Shaped'
  BY <1>1, <1>9 DEF Inspects, Continues, Shape
<1>10. ASSUME NEW p \in Proc, Finishes(p)
       PROVE  Shaped'
  BY <1>1, <1>10 DEF Finishes, Continues, Shape
<1>11. ASSUME NEW p \in Proc, Adds(p) \/ Moves(p)
       PROVE  Shaped'
  BY <1>1, <1>11 DEF Adds, Moves, Continues, Shape
<1>12. ASSUME NEW p \in Proc, Fails(p)
       PROVE  Shaped'
  BY <1>1, <1>12 DEF Fails, Continues, Shape
<1>13. CASE Disturbs
  BY <1>13 DEF Disturbs, Base, Shaped, Busy
<1> QED BY <1>2, <1>3, <1>4, <1>5, <1>6, <1>7, <1>8, <1>9, <1>10, <1>11, <1>12, <1>13 DEF Does, Acts

\* No step removes a ref.
LEMMA HandledStep ==
    ASSUME Base, Does
    PROVE  Handled'
<1>1. ASSUME NEW p \in Proc, Continues(p),
             \A r \in Revision : ref'[r] = ref[r] \/ ref'[r] \in Commit,
             \A r \in run[p].todo \ run'[p].todo : ref'[r] \in Commit
      PROVE  Handled'
  <2>1. SUFFICES ASSUME NEW q \in Proc, Busy(q)',
                        NEW r \in run'[q].wanted[1] \ run'[q].todo
                 PROVE  ref'[r] \in Commit
    BY DEF Handled
  <2>2. Busy(q) /\ r \in run[q].wanted[1] /\ run[q] \in Running
    BY <1>1, <2>1, RunTypes DEF Base, Continues, Busy
  <2>3. r \in Revision
    BY <2>2 DEF Running
  <2>4. CASE r \in run[q].todo
    BY <1>1, <2>1, <2>4 DEF Continues
  <2>5. CASE r \notin run[q].todo
    BY <1>1, <2>2, <2>3, <2>5 DEF Base, Handled
  <2> QED BY <2>4, <2>5
<1>2. ASSUME NEW p \in Proc, Starts(p)
      PROVE  Handled'
  <2>1. SUFFICES ASSUME NEW q \in Proc, Busy(q)',
                        NEW r \in run'[q].wanted[1] \ run'[q].todo
                 PROVE  ref'[r] \in Commit
    BY DEF Handled
  <2>2. q # p
    BY <1>2, <2>1 DEF Starts
  <2>3. run[q] \in Running /\ run'[q] = [run[q] EXCEPT !.alone = FALSE]
    BY <1>2, <2>1, <2>2 DEF Starts, Busy, Idle
  <2>4. run'[q].wanted = run[q].wanted /\ run'[q].todo = run[q].todo
    BY <2>3 DEF Running
  <2>5. ref' = ref
    BY <1>2 DEF Starts
  <2> QED BY <2>1, <2>3, <2>4, <2>5, RunTypes DEF Base, Handled
<1>3. ASSUME NEW p \in Proc, Stops(p)
      PROVE  Handled'
  BY <1>3 DEF Base, Handled, Stops, Busy, Idle
<1>4. ASSUME NEW p \in Proc, NEW r \in Revision, Updates(p, r)
      PROVE  Handled'
  <2>1. run[p].pin[r] \in Commit
    BY <1>4 DEF Updates, Continues, Running
  <2>2. ref \in [Revision -> Commit \cup {None}]
    BY DEF Base, TypeOK, DiskType
  <2> QED BY <1>1, <1>4, <2>1, <2>2 DEF Updates
<1>5. ASSUME NEW p \in Proc,
             \/ Populates(p) \/ Applies(p) \/ EndsConstruct(p) \/ Finishes(p)
             \/ Adds(p) \/ Moves(p) \/ Fails(p)
             \/ \E r \in Revision : StartsConstruct(p, r)
             \/ \E w \in Worktree : Inspects(p, w)
      PROVE  Handled'
  <2>1. Continues(p) /\ run'[p].todo = run[p].todo /\ ref' = ref
    BY <1>5 DEF Populates, StartsConstruct, Applies, EndsConstruct, Inspects, Finishes,
                Adds, Moves, Fails
  <2> QED BY <1>1, <2>1
<1>6. CASE Disturbs
  BY <1>6 DEF Disturbs, Base, Handled, Busy
<1> QED BY <1>2, <1>3, <1>4, <1>5, <1>6 DEF Does, Acts

\* A run that ends without being killed has removed its temporary worktree.
LEMMA NumberedStep ==
    ASSUME Base, Does
    PROVE  Numbered'
<1>1. started \in Nat /\ temp \subseteq Nat /\ Numbered /\ TypeOK
  BY DEF Base, TypeOK, DiskType
<1>2. \A q \in Proc : Busy(q) => run[q] \in Running /\ run[q].number \in Nat
  BY RunTypes DEF Base, Running
<1>3. ASSUME NEW p \in Proc, Continues(p),
             temp' \subseteq temp \cup {run[p].number},
             run[p].number \in temp' => run'[p].pc = "construct"
      PROVE  Numbered'
  <2>1. \A q \in Proc : Busy(q)' => Busy(q) /\ run'[q].number = run[q].number
    BY <1>3, RunTypes DEF Base, Continues, Busy
  <2>2. Busy(p) /\ started' = started
    BY <1>3, RunTypes DEF Base, Continues
  <2>3. \A n \in temp' : n <= started'
    BY <1>1, <1>3, <2>2 DEF Numbered
  <2>4. ASSUME NEW q \in Proc, Busy(q)', run'[q].number \in temp'
        PROVE  run'[q].pc = "construct"
    <3>1. CASE q = p
      BY <1>3, <2>1, <2>4, <3>1
    <3>2. CASE q # p
      <4>1. run[q].number # run[p].number /\ run'[q] = run[q] /\ Busy(q)
        BY <1>1, <1>3, <2>1, <2>2, <2>4, <3>2 DEF Numbered, Continues
      <4> QED BY <1>1, <1>3, <2>4, <4>1 DEF Numbered
    <3> QED BY <3>1, <3>2
  <2> QED BY <1>1, <2>1, <2>2, <2>3, <2>4 DEF Numbered
<1>4. ASSUME NEW p \in Proc, Starts(p)
      PROVE  Numbered'
  <2>1. \A q \in Proc \ {p} : Busy(q)' =>
          Busy(q) /\ run'[q].number = run[q].number /\ run'[q].pc = run[q].pc
    <3>1. SUFFICES ASSUME NEW q \in Proc \ {p}, Busy(q)'
                   PROVE  Busy(q) /\ run'[q].number = run[q].number /\ run'[q].pc = run[q].pc
      OBVIOUS
    <3>2. run[q] \in Running /\ run'[q] = [run[q] EXCEPT !.alone = FALSE]
      BY <1>4, <3>1 DEF Starts, Busy, Idle
    <3> QED BY <3>2, RunTypes DEF Base, Running
  <2>2. started' = started + 1 /\ temp' = temp /\ run'[p].number = started + 1
    BY <1>4 DEF Starts
  <2>3. \A n \in Nat : n <= started => n <= started + 1 /\ n # started + 1
    BY <1>1
  <2>4. \A n \in temp : n <= started /\ n \in Nat
    BY <1>1 DEF Numbered
  <2>5. \A q \in Proc : Busy(q) =>
          /\ run[q].number \in Nat /\ run[q].number <= started
          /\ run[q].number \in temp => run[q].pc = "construct"
          /\ \A o \in Proc \ {q} : Busy(o) => run[o].number # run[q].number
    BY <1>1, <1>2 DEF Numbered
  <2>6. \A n \in temp' : n <= started'
    BY <2>2, <2>3, <2>4
  <2>7. ASSUME NEW q \in Proc, Busy(q)'
        PROVE  /\ run'[q].number <= started'
               /\ run'[q].number \in temp' => run'[q].pc = "construct"
               /\ \A o \in Proc \ {q} : Busy(o)' => run'[o].number # run'[q].number
    <3>1. CASE q = p
      <4>1. started + 1 <= started'
        BY <1>1, <2>2
      <4>2. started + 1 \notin temp'
        BY <2>2, <2>3, <2>4
      <4>3. \A o \in Proc \ {p} : Busy(o)' => run'[o].number # started + 1
        BY <2>1, <2>3, <2>5
      <4> QED BY <2>2, <3>1, <4>1, <4>2, <4>3
    <3>2. CASE q # p
      BY <2>1, <2>2, <2>3, <2>5, <2>7, <3>2
    <3> QED BY <3>1, <3>2
  <2> QED BY <2>6, <2>7 DEF Numbered
<1>5. ASSUME NEW p \in Proc, Stops(p)
      PROVE  Numbered'
  BY <1>1, <1>5 DEF Numbered, Stops, Busy, Idle
<1>6. ASSUME NEW p \in Proc,
             \/ Populates(p) \/ Finishes(p) \/ Adds(p) \/ Moves(p)
             \/ \E r \in Revision : Updates(p, r)
             \/ \E w \in Worktree : Inspects(p, w)
      PROVE  Numbered'
  <2>1. Continues(p) /\ temp' = temp /\ run[p].pc # "construct" /\ run[p] \in Running
    BY <1>6 DEF Populates, Updates, Inspects, Finishes, Adds, Moves, Continues
  <2>2. run[p].number \notin temp
    BY <1>1, <2>1, RunTypes DEF Numbered
  <2> QED BY <1>3, <2>1, <2>2
<1>7. ASSUME NEW p \in Proc,
             \/ \E r \in Revision : StartsConstruct(p, r)
             \/ Applies(p) \/ EndsConstruct(p) \/ Fails(p)
      PROVE  Numbered'
  <2>1. /\ Continues(p) /\ temp' \subseteq temp \cup {run[p].number}
        /\ run[p].number \in temp' => run'[p].pc = "construct"
    BY <1>7 DEF StartsConstruct, Applies, EndsConstruct, Fails
  <2> QED BY <1>3, <2>1
<1>8. CASE Disturbs
  BY <1>1, <1>8 DEF Disturbs, Numbered, Busy
<1> QED BY <1>4, <1>5, <1>6, <1>7, <1>8 DEF Does, Acts

LEMMA BaseStep == Base /\ [Next]_vars => Base'
BY NextDoes, TypeStep, ShapeStep, HandledStep, NumberedStep, BaseStutter DEF Base

\* Types hold, a run keeps to its order, and no two runs share a temporary
\* worktree (populate_repository, construct_revision).
THEOREM BaseHolds == Spec => []Base
BY BaseInit, BaseStep, PTL DEF Spec

-----------------------------------------------------------------------------
(* The work of humans *)

\* A worktree to be moved is one of this repository and has no uncommitted
\* changes, unless a human acted since the run began.
Clean ==
    \A p \in Proc : Busy(p) =>
        /\ run[p].edits <= edits
        /\ run[p].pc = "move" /\ run[p].edits = edits =>
             worktree[run[p].tree].ours /\ ~worktree[run[p].tree].dirty

\* Only humans make a worktree dirty or foreign.
LEMMA CleanStep ==
    ASSUME Base, Clean, Does
    PROVE  Clean'
<1>1. TypeOK /\ edits \in Nat /\ worktree \in [Worktree -> Directory]
  BY DEF Base, TypeOK, DiskType
<1>2. \A q \in Proc : Busy(q) => run[q] \in Running /\ run[q].edits \in Nat
  BY RunTypes DEF Base, Running
<1>3. ASSUME NEW p \in Proc, Continues(p),
             run'[p].pc = "move" => worktree[run'[p].tree].ours /\ ~worktree[run'[p].tree].dirty,
             \A w \in Worktree :
               worktree[w].ours /\ ~worktree[w].dirty => worktree'[w].ours /\ ~worktree'[w].dirty
      PROVE  Clean'
  <2>1. SUFFICES ASSUME NEW q \in Proc, Busy(q)'
                 PROVE  /\ run'[q].edits <= edits'
                        /\ run'[q].pc = "move" /\ run'[q].edits = edits' =>
                             worktree'[run'[q].tree].ours /\ ~worktree'[run'[q].tree].dirty
    BY DEF Clean
  <2>2. Busy(q) /\ run'[q].edits = run[q].edits /\ edits' = edits
    BY <1>1, <1>3, <2>1, RunTypes DEF Continues, Busy
  <2>3. ASSUME run'[q].pc = "move", run[q].edits = edits
        PROVE  worktree'[run'[q].tree].ours /\ ~worktree'[run'[q].tree].dirty
    <3>1. run'[q].tree \in Worktree
      <4>1. run'[q] \in Running
        BY <1>3, <2>1 DEF Continues, Busy, Idle
      <4>2. Shape(run'[q])
        BY <2>1, ShapeStep DEF Shaped
      <4> QED BY <2>3, <4>1, <4>2 DEF Shape, Running
    <3>2. worktree[run'[q].tree].ours /\ ~worktree[run'[q].tree].dirty
      BY <1>3, <2>2, <2>3 DEF Clean, Continues
    <3> QED BY <1>3, <3>1, <3>2
  <2> QED BY <2>2, <2>3 DEF Clean
<1>4. ASSUME NEW p \in Proc, Starts(p)
      PROVE  Clean'
  <2>1. SUFFICES ASSUME NEW q \in Proc, Busy(q)'
                 PROVE  /\ run'[q].edits <= edits'
                        /\ run'[q].pc = "move" /\ run'[q].edits = edits' =>
                             worktree'[run'[q].tree].ours /\ ~worktree'[run'[q].tree].dirty
    BY DEF Clean
  <2>2. CASE q = p
    BY <1>1, <1>4, <2>2 DEF Starts
  <2>3. CASE q # p
    <3>1. run[q] \in Running /\ run'[q] = [run[q] EXCEPT !.alone = FALSE]
      BY <1>4, <2>1, <2>3 DEF Starts, Busy, Idle
    <3>2. /\ run'[q].edits = run[q].edits /\ run'[q].pc = run[q].pc
          /\ run'[q].tree = run[q].tree
      BY <3>1 DEF Running
    <3>3. Busy(q) /\ edits' = edits /\ worktree' = worktree
      BY <1>1, <1>4, <3>1, RunTypes DEF Starts
    <3> QED BY <3>2, <3>3 DEF Clean
  <2> QED BY <2>2, <2>3
<1>5. ASSUME NEW p \in Proc, Stops(p)
      PROVE  Clean'
  BY <1>5 DEF Clean, Stops, Busy, Idle
<1>6. ASSUME NEW p \in Proc,
             \/ Populates(p) \/ Applies(p) \/ EndsConstruct(p) \/ Finishes(p) \/ Fails(p)
             \/ \E r \in Revision : Updates(p, r) \/ StartsConstruct(p, r)
      PROVE  Clean'
  <2>1. Continues(p) /\ run'[p].pc # "move" /\ worktree' = worktree
    BY <1>6 DEF Populates, Updates, StartsConstruct, Applies, EndsConstruct, Finishes, Fails
  <2> QED BY <1>3, <2>1
<1>7. ASSUME NEW p \in Proc, NEW w \in Worktree, Inspects(p, w)
      PROVE  Clean'
  BY <1>3, <1>7 DEF Inspects
<1>8. ASSUME NEW p \in Proc, Adds(p)
      PROVE  Clean'
  <2>1. Continues(p) /\ run'[p].pc # "move"
    BY <1>8 DEF Adds
  <2>2. \A w \in Worktree :
          worktree[w].ours /\ ~worktree[w].dirty => worktree'[w].ours /\ ~worktree'[w].dirty
    BY <1>1, <1>8 DEF Adds
  <2> QED BY <1>3, <2>1, <2>2
<1>9. ASSUME NEW p \in Proc, Moves(p)
      PROVE  Clean'
  <2>1. Continues(p) /\ run'[p].pc # "move"
    BY <1>9 DEF Moves
  <2>2. \A w \in Worktree :
          worktree[w].ours /\ ~worktree[w].dirty => worktree'[w].ours /\ ~worktree'[w].dirty
    BY <1>1, <1>9 DEF Moves, Directory
  <2> QED BY <1>3, <2>1, <2>2
<1>10. CASE Disturbs
  <2>1. SUFFICES ASSUME NEW q \in Proc, Busy(q)'
                 PROVE  run'[q].edits <= edits' /\ run'[q].edits # edits'
    BY DEF Clean
  <2>2. run' = run /\ edits' = edits + 1
    BY <1>10 DEF Disturbs
  <2>3. run[q].edits <= edits /\ run[q].edits \in Nat
    BY <1>2, <2>1, <2>2 DEF Clean, Busy
  <2> QED BY <1>1, <2>2, <2>3
<1> QED BY <1>4, <1>5, <1>6, <1>7, <1>8, <1>9, <1>10 DEF Does, Acts

LEMMA CleanInit == Init => Clean
BY DEF Init, Clean, Busy, Idle

LEMMA CleanNext == Base /\ Clean /\ [Next]_vars => Clean'
<1>1. Clean /\ UNCHANGED vars => Clean'
  BY DEF Clean, vars, git, Busy
<1> QED BY <1>1, NextDoes, CleanStep

\* Populating leaves directories of others and uncommitted changes alone
\* (populate_worktree): a worktree is moved only when it is this repository's
\* and, as far as the run has seen, clean.
THEOREM WorkKept == Spec => HumanWorkKept
<1> DEFINE Keeps ==
      edits' = edits => \A w \in Worktree : worktree'[w] # worktree[w] =>
         \/ ~worktree[w].there
         \/ /\ worktree[w].ours
            /\ worktree[w].dirty =>
                 worktree'[w].dirty /\ \E p \in Proc : run'[p].pc # "idle" /\ run[p].edits # edits
<1>1. Base /\ Clean /\ [Next]_vars => [Keeps]_vars
  <2> SUFFICES ASSUME Base, Clean, Next, edits' = edits,
                      NEW w \in Worktree, worktree'[w] # worktree[w]
               PROVE  \/ ~worktree[w].there
                      \/ /\ worktree[w].ours
                         /\ worktree[w].dirty =>
                              /\ worktree'[w].dirty
                              /\ \E p \in Proc : run'[p].pc # "idle" /\ run[p].edits # edits
    OBVIOUS
  <2>1. worktree \in [Worktree -> Directory] /\ edits \in Nat
    BY DEF Base, TypeOK, DiskType
  <2>2. ~Disturbs
    BY <2>1 DEF Disturbs
  <2>3. PICK p \in Proc : Adds(p) \/ Moves(p)
    <3>1. worktree' # worktree
      OBVIOUS
    <3>2. PICK p \in Proc : Acts(p) \/ Stops(p)
      BY <2>2, NextDoes DEF Does
    <3> QED BY <3>1, <3>2 DEF Acts, Starts, Stops, Populates, Updates, StartsConstruct, Applies,
                              EndsConstruct, Inspects, Finishes, Fails
  <2>4. CASE Adds(p)
    BY <2>1, <2>4 DEF Adds
  <2>5. CASE Moves(p)
    <3>1. w = run[p].tree
      BY <2>1, <2>5 DEF Moves
    <3>2. worktree[w].ours /\ worktree'[w] = [worktree[w] EXCEPT !.head = run[p].pin[RevisionOf[w]]]
      BY <2>1, <2>5, <3>1 DEF Moves
    <3>3. worktree'[w].dirty = worktree[w].dirty
      BY <2>1, <3>2 DEF Directory
    <3>4. worktree[w].dirty => run[p].edits # edits
      BY <2>5, <3>1, RunTypes DEF Base, Moves, Clean, Busy
    <3>5. run'[p].pc # "idle"
      BY <2>5 DEF Moves
    <3> QED BY <3>2, <3>3, <3>4, <3>5
  <2> QED BY <2>3, <2>4, <2>5
<1> HIDE DEF Keeps
<1>2. Spec => [][Keeps]_vars
  BY <1>1, BaseInit, BaseStep, CleanInit, CleanNext, PTL DEF Spec
<1> QED BY <1>2 DEF HumanWorkKept, Keeps

-----------------------------------------------------------------------------
(* Runs nobody interferes with *)

Owned == \A w \in Worktree : worktree[w].ours => worktree[w].there

\* A run that is alone began when no other was there.
Alone == \A p, q \in Proc : Busy(p) /\ run[p].alone /\ q # p => run[q] = Idle

Quiet == Base /\ Clean /\ Owned /\ Alone

\* A worktree of this repository is there.
LEMMA OwnedStep ==
    ASSUME Base, Owned, Does
    PROVE  Owned'
<1>1. worktree \in [Worktree -> Directory]
  BY DEF Base, TypeOK, DiskType
<1>2. CASE worktree' = worktree
  BY <1>2 DEF Owned
<1>3. ASSUME NEW p \in Proc, Adds(p)
      PROVE  Owned'
  BY <1>1, <1>3 DEF Adds, Owned
<1>4. ASSUME NEW p \in Proc, Moves(p)
      PROVE  Owned'
  BY <1>1, <1>4 DEF Moves, Owned, Directory
<1>5. CASE Disturbs
  BY <1>5 DEF Disturbs, Owned
<1> QED BY <1>2, <1>3, <1>4, <1>5 DEF Does, Acts, Starts, Stops, Populates, Updates,
         StartsConstruct, Applies, EndsConstruct, Inspects, Finishes, Fails

\* Whoever begins later ends the others' being alone.
LEMMA AloneStep ==
    ASSUME Base, Alone, Does
    PROVE  Alone'
<1>1. ASSUME NEW p \in Proc, Continues(p)
      PROVE  Alone'
  <2>1. Busy(p) /\ \A q \in Proc : Busy(q)' => Busy(q)
    BY <1>1, RunTypes DEF Base, Continues, Busy
  <2>2. \A q \in Proc : run[q] = Idle => run'[q] = Idle
    BY <1>1, <2>1 DEF Continues, Busy, Idle
  <2>3. \A q \in Proc : run'[q].alone = run[q].alone
    BY <1>1 DEF Continues
  <2> QED BY <2>1, <2>2, <2>3 DEF Alone
<1>2. ASSUME NEW p \in Proc, Starts(p)
      PROVE  Alone'
  <2>1. \A q \in Proc \ {p} : run[q] = Idle => run'[q] = Idle
    BY <1>2 DEF Starts
  <2>2. \A q \in Proc \ {p} : Busy(q)' => ~run'[q].alone
    <3>1. SUFFICES ASSUME NEW q \in Proc \ {p}, Busy(q)'
                   PROVE  ~run'[q].alone
      OBVIOUS
    <3>2. run[q] \in Running /\ run'[q] = [run[q] EXCEPT !.alone = FALSE]
      BY <1>2, <3>1 DEF Starts, Busy, Idle
    <3> QED BY <3>2 DEF Running
  <2>3. run'[p].alone => \A q \in Proc \ {p} : run'[q] = Idle
    BY <1>2, <2>1 DEF Starts
  <2> QED BY <2>2, <2>3 DEF Alone
<1>3. ASSUME NEW p \in Proc, Stops(p)
      PROVE  Alone'
  BY <1>3 DEF Alone, Stops, Busy, Idle
<1>4. CASE Disturbs
  BY <1>4 DEF Disturbs, Alone, Busy
<1> QED BY <1>1, <1>2, <1>3, <1>4 DEF Does, Acts, Populates, Updates, StartsConstruct,
         Applies, EndsConstruct, Inspects, Finishes, Adds, Moves, Fails

LEMMA QuietInit == Init => Quiet
<1>1. Init => Owned /\ Alone
  BY DEF Init, Owned, Alone, Busy, Absent, Idle
<1> QED BY <1>1, BaseInit, CleanInit DEF Quiet

LEMMA QuietStep == Quiet /\ [Next]_vars => Quiet'
<1>1. Owned /\ Alone /\ UNCHANGED vars => Owned' /\ Alone'
  BY DEF Owned, Alone, Busy, vars, git
<1> QED BY <1>1, NextDoes, OwnedStep, AloneStep, BaseStep, CleanNext DEF Quiet

THEOREM QuietHolds == Spec => []Quiet
BY QuietInit, QuietStep, PTL DEF Spec

\* Only the steps of p itself leave p undisturbed.
LEMMA OwnStep ==
    ASSUME Quiet, Next, NEW p \in Proc, Busy(p)', Undisturbed(p)'
    PROVE  Acts(p) /\ (Starts(p) \/ (Busy(p) /\ Undisturbed(p)))
<1>1. Base /\ edits \in Nat
  BY DEF Quiet, Base, TypeOK, DiskType
<1>2. Does
  BY <1>1, NextDoes
<1>3. run'[p].alone /\ run'[p].edits = edits'
  BY DEF Undisturbed
<1>4. ASSUME Disturbs
      PROVE  FALSE
  <2>1. Busy(p) /\ run'[p] = run[p] /\ edits' = edits + 1
    BY <1>4 DEF Disturbs, Busy
  <2>2. run[p].edits <= edits /\ run[p].edits \in Nat
    BY <1>1, <2>1, RunTypes DEF Quiet, Clean, Base, Running
  <2> QED BY <1>1, <1>3, <2>1, <2>2
<1>5. ASSUME NEW q \in Proc, Stops(q)
      PROVE  FALSE
  <2>1. q # p /\ run'[p] = run[p] /\ run[q] \in Running
    BY <1>5 DEF Stops, Busy, Idle
  <2>2. Busy(p) /\ run[p].alone
    BY <1>3, <2>1 DEF Busy
  <2>3. run[q] = Idle /\ Busy(q)
    BY <1>1, <2>1, <2>2, RunTypes DEF Quiet, Alone, Base
  <2> QED BY <2>3 DEF Busy, Idle
<1>6. ASSUME NEW q \in Proc, Acts(q)
      PROVE  Acts(p) /\ (Starts(p) \/ (Busy(p) /\ Undisturbed(p)))
  <2>1. CASE Starts(q)
    <3>1. CASE q = p
      BY <1>6, <2>1, <3>1
    <3>2. CASE q # p
      <4>1. run[p] \in Running /\ run'[p] = [run[p] EXCEPT !.alone = FALSE]
        BY <2>1, <3>2 DEF Starts, Busy, Idle
      <4> QED BY <1>3, <4>1 DEF Running
    <3> QED BY <3>1, <3>2
  <2>2. CASE Continues(q)
    <3>1. Busy(q) /\ edits' = edits
      BY <1>1, <2>2, RunTypes DEF Continues, Base
    <3>2. CASE q = p
      BY <1>3, <1>6, <2>2, <3>1, <3>2 DEF Continues, Undisturbed
    <3>3. CASE q # p
      <4>1. run'[p] = run[p]
        BY <2>2, <3>3 DEF Continues
      <4>2. run[q] = Idle
        BY <1>3, <3>3, <4>1 DEF Quiet, Alone, Busy
      <4> QED BY <3>1, <4>2 DEF Busy, Idle
    <3> QED BY <3>2, <3>3
  <2> QED BY <1>6, <2>1, <2>2 DEF Acts, Populates, Updates, StartsConstruct,
         Applies, EndsConstruct, Inspects, Finishes, Adds, Moves, Fails
<1> QED BY <1>2, <1>4, <1>5, <1>6 DEF Does

\* What a run has done is as pinned, as long as nobody interferes.
AsPinned(p) ==
    /\ \A r \in run[p].wanted[1] \ run[p].todo : ref[r] = run[p].pin[r]
    /\ run[p].pc = "add" => ~worktree[run[p].tree].there
    /\ run[p].pc # "failed" =>
         \A w \in run[p].wanted[2] \ run[p].trees :
            \/ run[p].pc \in {"add", "move"} /\ w = run[p].tree
            \/ StatusOf(w, run[p].pin) = "ok"

Pinning == \A p \in Proc : Busy(p) /\ Undisturbed(p) => AsPinned(p)

\* The steps of a run leave what it has done as pinned.
LEMMA PinningActs ==
    ASSUME Quiet, NEW p \in Proc, Acts(p), Starts(p) \/ AsPinned(p)
    PROVE  AsPinned(p)'
<1>1. /\ Base /\ ref \in [Revision -> Commit \cup {None}]
      /\ worktree \in [Worktree -> Directory]
  BY DEF Quiet, Base, TypeOK, DiskType
<1>2. ASSUME Continues(p)
      PROVE  /\ run[p] \in Running /\ run'[p] \in Running /\ Shape(run[p])
             /\ run'[p].wanted = run[p].wanted /\ run'[p].pin = run[p].pin
             /\ AsPinned(p)
  BY <1>1, <1>2, RunTypes DEF Base, Shaped, Continues, Starts, Running, Idle
<1>3. ASSUME UNCHANGED worktree, NEW w \in Worktree, run'[p].pin = run[p].pin
      PROVE  StatusOf(w, run[p].pin)' = StatusOf(w, run[p].pin)
  BY <1>3 DEF StatusOf
<1>4. CASE Starts(p)
  BY <1>4 DEF Starts, AsPinned
<1>5. ASSUME NEW r \in Revision, Updates(p, r)
      PROVE  AsPinned(p)'
  <2>1. Continues(p) /\ worktree' = worktree /\ run'[p].pc = "revision"
        /\ run'[p].todo = run[p].todo \ {r} /\ run'[p].trees = run[p].trees
        /\ run[p].pc \in {"revision", "ref"}
        /\ ref' = [ref EXCEPT ![r] = run[p].pin[r]]
    BY <1>5 DEF Updates
  <2>2. \A x \in run'[p].wanted[1] \ run'[p].todo : ref'[x] = run'[p].pin[x]
    BY <1>1, <1>2, <2>1 DEF AsPinned, Running
  <2>3. \A w \in run'[p].wanted[2] \ run'[p].trees : StatusOf(w, run[p].pin)' = "ok"
    BY <1>2, <1>3, <2>1 DEF AsPinned, Running
  <2> QED BY <2>1, <2>2, <2>3 DEF AsPinned
<1>6. CASE \/ Populates(p) \/ Applies(p) \/ EndsConstruct(p) \/ Finishes(p)
           \/ \E r \in Revision : StartsConstruct(p, r)
  <2>1. /\ Continues(p) /\ worktree' = worktree /\ ref' = ref
        /\ run[p].pc \notin {"add", "move", "failed"}
        /\ run'[p].pc \notin {"add", "move", "failed"}
        /\ run'[p].todo = run[p].todo /\ run'[p].trees = run[p].trees
    BY <1>6 DEF Populates, Applies, EndsConstruct, Finishes, StartsConstruct
  <2>2. \A x \in run'[p].wanted[1] \ run'[p].todo : ref'[x] = run'[p].pin[x]
    BY <1>2, <2>1 DEF AsPinned
  <2>3. \A w \in run'[p].wanted[2] \ run'[p].trees : StatusOf(w, run[p].pin)' = "ok"
    BY <1>2, <1>3, <2>1 DEF AsPinned, Running
  <2> QED BY <2>1, <2>2, <2>3 DEF AsPinned
<1>7. ASSUME NEW w \in Worktree, Inspects(p, w)
      PROVE  AsPinned(p)'
  <2>1. /\ Continues(p) /\ worktree' = worktree /\ ref' = ref /\ run[p].pc = "revision"
        /\ run'[p].todo = run[p].todo /\ run'[p].trees = run[p].trees \ {w}
        /\ run'[p].tree = w
    BY <1>7 DEF Inspects
  <2>2. \A x \in run'[p].wanted[1] \ run'[p].todo : ref'[x] = run'[p].pin[x]
    BY <1>2, <2>1 DEF AsPinned
  <2>3. \A v \in run'[p].wanted[2] \ run'[p].trees :
          v = w \/ StatusOf(v, run[p].pin)' = "ok"
    BY <1>2, <1>3, <2>1 DEF AsPinned, Running
  <2>4. \/ run'[p].pc = "revision" /\ StatusOf(w, run[p].pin)' = "ok"
        \/ run'[p].pc = "add" /\ ~worktree'[w].there
        \/ run'[p].pc = "move"
    BY <1>2, <1>3, <1>7, <2>1 DEF Inspects
  <2> QED BY <2>1, <2>2, <2>3, <2>4 DEF AsPinned
<1>8. CASE Adds(p) \/ Moves(p)
  <2> DEFINE w == run[p].tree
  <2>1. /\ Continues(p) /\ ref' = ref /\ run[p].pc \in {"add", "move"}
        /\ run'[p].pc = "revision"
        /\ run'[p].todo = run[p].todo /\ run'[p].trees = run[p].trees
    BY <1>8 DEF Adds, Moves
  <2>2. /\ run[p].todo = {} /\ w \in Worktree /\ w \in run[p].wanted[2]
        /\ RevisionOf[w] \in run[p].wanted[1]
    BY <1>1, <2>1, TreeOf
  <2>3. \A x \in run'[p].wanted[1] \ run'[p].todo : ref'[x] = run'[p].pin[x]
    BY <1>2, <2>1 DEF AsPinned
  <2>4. ref[RevisionOf[w]] = run[p].pin[RevisionOf[w]]
    BY <1>2, <2>1, <2>2 DEF AsPinned
  <2>5. /\ worktree'[w].there /\ worktree'[w].ours
        /\ worktree'[w].head = run[p].pin[RevisionOf[w]]
    <3>1. CASE Adds(p)
      BY <1>1, <2>2, <2>4, <3>1 DEF Adds
    <3>2. CASE Moves(p)
      BY <1>1, <2>2, <3>2 DEF Moves, Directory, Quiet, Owned
    <3> QED BY <1>8, <3>1, <3>2
  <2>6. \A v \in Worktree : v # w => worktree'[v] = worktree[v]
    BY <1>1, <1>8 DEF Adds, Moves
  <2>7. ASSUME NEW v \in run'[p].wanted[2] \ run'[p].trees
        PROVE  StatusOf(v, run[p].pin)' = "ok"
    <3>1. CASE v = w
      BY <1>2, <2>1, <2>5, <3>1 DEF StatusOf
    <3>2. CASE v # w
      <4>1. v \in Worktree /\ StatusOf(v, run[p].pin) = "ok"
        BY <1>2, <2>1, <2>7, <3>2 DEF AsPinned, Running
      <4>2. worktree'[v] = worktree[v] /\ run'[p].pin = run[p].pin
        BY <1>2, <2>1, <2>6, <3>2, <4>1
      <4> QED BY <4>1, <4>2 DEF StatusOf
    <3> QED BY <3>1, <3>2
  <2> QED BY <2>1, <2>3, <2>7 DEF AsPinned
<1>9. CASE Fails(p)
  <2>1. /\ Continues(p) /\ ref' = ref /\ run'[p].pc = "failed"
        /\ run'[p].todo = run[p].todo
    BY <1>9 DEF Fails
  <2> QED BY <1>2, <2>1 DEF AsPinned
<1> QED BY <1>4, <1>5, <1>6, <1>7, <1>8, <1>9 DEF Acts

LEMMA PinningStep == Quiet /\ Pinning /\ [Next]_vars => Pinning'
<1> SUFFICES ASSUME Quiet, Pinning, [Next]_vars
             PROVE  Pinning'
  OBVIOUS
<1>1. CASE UNCHANGED vars
  BY <1>1 DEF Pinning, AsPinned, Undisturbed, StatusOf, Busy, vars, git
<1>2. CASE Next
  <2>1. SUFFICES ASSUME NEW p \in Proc, Busy(p)', Undisturbed(p)'
                 PROVE  AsPinned(p)'
    BY DEF Pinning
  <2>2. Acts(p) /\ (Starts(p) \/ AsPinned(p))
    BY <1>2, <2>1, OwnStep DEF Pinning
  <2> QED BY <2>2, PinningActs
<1> QED BY <1>1, <1>2

LEMMA PinningInit == Init => Pinning
BY DEF Init, Pinning, Busy, Idle

\* Populate and check agree (populate_repository, check_repository): a run
\* that returns left every selected revision and worktree as pinned, unless
\* somebody interfered, and no temporary worktree.
THEOREM DoneIsAsPinned == Spec => []DoneIsChecked
<1>1. Quiet /\ Pinning => DoneIsChecked
  <2> SUFFICES ASSUME Quiet, Pinning, NEW p \in Proc
               PROVE  /\ run[p].pc = "done" /\ Undisturbed(p) =>
                           CheckRepository(run[p].pin, run[p].wanted)
                      /\ run[p].pc \in {"done", "failed"} => Temporary(p) \notin temp
    BY DEF DoneIsChecked
  <2>1. run[p].pc \in {"done", "failed"} => Temporary(p) \notin temp
    BY DEF Quiet, Base, Numbered, Busy, Temporary
  <2>2. ASSUME run[p].pc = "done", Undisturbed(p)
        PROVE  CheckRepository(run[p].pin, run[p].wanted)
    <3>1. Busy(p) /\ AsPinned(p)
      BY <2>2 DEF Pinning, Busy
    <3>2. run[p].todo = {} /\ run[p].trees = {}
      BY <2>2, <3>1 DEF Quiet, Base, Shaped, Shape
    <3> QED BY <2>2, <3>1, <3>2 DEF AsPinned, CheckRepository
  <2> QED BY <2>1, <2>2
<1> QED BY <1>1, QuietInit, QuietStep, PinningInit, PinningStep, PTL DEF Spec

-----------------------------------------------------------------------------
(* Failures have a reason *)

\* The patches applied so far, as the files are now.
Applied(r, n) ==
    [i \in 1..n |-> [patch |-> PatchesOf[r][i], intact |-> patch[PatchesOf[r][i]]]]

Constructed == \A p \in Proc : run[p].pc = "construct" /\ Undisturbed(p) =>
    run[p].commit = run[p].pin[DerivedFrom[run[p].revision]]
                      \o Applied(run[p].revision, run[p].applied)

\* Applied patches are commits' parts.
LEMMA AppliedCommit ==
    ASSUME Base, NEW r \in Derived, NEW n \in Nat, n <= Len(PatchesOf[r])
    PROVE  Applied(r, n) \in Commit /\ Len(Applied(r, n)) = n
<1>1. patch \in [Patch -> BOOLEAN] /\ PatchesOf[r] \in Seq(Patch)
  BY PopulationAssumption DEF Base, TypeOK, DiskType
<1>2. \A i \in 1..n : PatchesOf[r][i] \in Patch
  BY <1>1
<1>3. \A i \in 1..n : [patch |-> PatchesOf[r][i], intact |-> patch[PatchesOf[r][i]]] \in Part
  BY <1>1, <1>2 DEF Part
<1> QED BY <1>3 DEF Applied, Commit

\* One patch more is one part more.
LEMMA AppliedNext ==
    ASSUME Base, NEW r \in Derived, NEW n \in Nat, n < Len(PatchesOf[r]), NEW s \in Commit
    PROVE  LET x == PatchesOf[r][n + 1] IN
           Append(s \o Applied(r, n), [patch |-> x, intact |-> patch[x]])
             = s \o Applied(r, n + 1)
<1> DEFINE e == [patch |-> PatchesOf[r][n + 1], intact |-> patch[PatchesOf[r][n + 1]]]
<1>1. patch \in [Patch -> BOOLEAN] /\ PatchesOf[r] \in Seq(Patch)
  BY PopulationAssumption DEF Base, TypeOK, DiskType
<1>2. n + 1 \in Nat /\ n + 1 <= Len(PatchesOf[r]) /\ n <= Len(PatchesOf[r])
  BY <1>1
<1>3. PatchesOf[r][n + 1] \in Patch
  BY <1>1, <1>2
<1>4. e \in Part
  BY <1>1, <1>3 DEF Part
<1>5. Applied(r, n) \in Seq(Part) /\ Len(Applied(r, n)) = n
      /\ Applied(r, n + 1) \in Seq(Part) /\ Len(Applied(r, n + 1)) = n + 1
  BY <1>2, AppliedCommit DEF Commit
<1>6. /\ \A i \in 1..n : Applied(r, n + 1)[i] = Applied(r, n)[i]
      /\ Applied(r, n + 1)[n + 1] = e
  BY DEF Applied
<1> HIDE DEF e
<1>7. Applied(r, n + 1) = Append(Applied(r, n), e)
  <2>1. /\ Append(Applied(r, n), e) \in Seq(Part) /\ Len(Append(Applied(r, n), e)) = n + 1
        /\ \A i \in 1..n : Append(Applied(r, n), e)[i] = Applied(r, n)[i]
        /\ Append(Applied(r, n), e)[n + 1] = e
    BY <1>4, <1>5, AppendProperties
  <2>2. \A i \in 1..(n + 1) : Applied(r, n + 1)[i] = Append(Applied(r, n), e)[i]
    BY <1>6, <2>1
  <2> QED BY <1>5, <2>1, <2>2, SeqEqual
<1>8. s \in Seq(Part) /\ <<e>> \in Seq(Part)
  BY <1>4 DEF Commit
<1>9. s \o Applied(r, n) \in Seq(Part)
  BY <1>5, <1>8, ConcatProperties
<1>10. /\ Append(s \o Applied(r, n), e) = (s \o Applied(r, n)) \o <<e>>
       /\ Append(Applied(r, n), e) = Applied(r, n) \o <<e>>
  BY <1>4, <1>5, <1>9, AppendIsConcat
<1>11. (s \o Applied(r, n)) \o <<e>> = s \o (Applied(r, n) \o <<e>>)
  BY <1>5, <1>8, ConcatAssociative
<1> QED BY <1>7, <1>10, <1>11 DEF e

\* A construction nobody disturbs has applied the files as they are.
LEMMA ConstructedStep == Quiet /\ Pinning /\ Constructed /\ [Next]_vars => Constructed'
<1> SUFFICES ASSUME Quiet, Pinning, Constructed, [Next]_vars
             PROVE  Constructed'
  OBVIOUS
<1>1. CASE UNCHANGED vars
  BY <1>1 DEF Constructed, Applied, Undisturbed, vars, git
<1>2. CASE Next
  <2> SUFFICES ASSUME NEW p \in Proc, run'[p].pc = "construct", Undisturbed(p)'
               PROVE  (run[p].commit = run[p].pin[DerivedFrom[run[p].revision]]
                         \o Applied(run[p].revision, run[p].applied))'
    BY DEF Constructed
  <2>1. Acts(p) /\ (Starts(p) \/ (Busy(p) /\ Undisturbed(p))) /\ Base
    BY <1>2, OwnStep DEF Busy, Quiet
  <2>2. (\E r \in Revision : StartsConstruct(p, r)) \/ Applies(p)
    BY <2>1 DEF Acts, Starts, Populates, Updates, EndsConstruct, Inspects, Finishes,
                Adds, Moves, Fails
  <2>3. Busy(p) /\ Undisturbed(p) /\ Continues(p)
    BY <2>1, <2>2 DEF StartsConstruct, Applies, Continues, Starts, Running, Idle
  <2>4. run[p] \in Running /\ Shape(run[p]) /\ run'[p].pin = run[p].pin
    BY <2>1, <2>3 DEF Base, Shaped, Continues
  <2>5. ASSUME NEW r \in Revision, StartsConstruct(p, r)
        PROVE  (run[p].commit = run[p].pin[DerivedFrom[run[p].revision]]
                  \o Applied(run[p].revision, run[p].applied))'
    <3> DEFINE b == DerivedFrom[r]
    <3>1. run'[p].revision = r /\ run'[p].applied = 0 /\ run'[p].commit = ref[b]
          /\ b \in run[p].wanted[1] \ run[p].todo
      BY <2>5 DEF StartsConstruct
    <3>2. ref[b] = run[p].pin[b] /\ ref[b] \in Commit
      BY <2>1, <2>3, <3>1 DEF Pinning, AsPinned, Base, Handled
    <3>3. Applied(r, 0)' = <<>>
      BY DEF Applied
    <3>4. ref[b] \o <<>> = ref[b]
      BY <3>2, ConcatEmptySeq DEF Commit
    <3> QED BY <2>4, <3>1, <3>2, <3>3, <3>4
  <2>6. CASE Applies(p)
    <3> DEFINE r == run[p].revision  n == run[p].applied  s == run[p].pin[DerivedFrom[r]]
               x == PatchesOf[r][n + 1]
    <3>1. /\ run'[p].revision = r /\ run'[p].applied = n + 1 /\ n < Len(PatchesOf[r])
          /\ run'[p].commit = Append(run[p].commit, [patch |-> x, intact |-> patch[x]])
          /\ run[p].pc = "construct" /\ patch' = patch
      BY <2>6 DEF Applies
    <3>2. r \in Derived /\ n \in Nat /\ s \in Commit
      BY <2>4, <3>1, PopulationAssumption DEF Shape, Running
    <3>3. run[p].commit = s \o Applied(r, n)
      BY <2>3, <3>1 DEF Constructed
    <3>4. Append(s \o Applied(r, n), [patch |-> x, intact |-> patch[x]]) = s \o Applied(r, n + 1)
      BY <2>1, <3>1, <3>2, AppliedNext
    <3>5. PICK z, k : z = r /\ k = n + 1
      OBVIOUS
    <3>6. Applied(z, k)' = Applied(z, k)
      BY <3>1 DEF Applied
    <3>7. run'[p].commit = s \o Applied(z, k)
      BY <3>1, <3>3, <3>4, <3>5
    <3>8. run'[p].revision = z /\ run'[p].applied = k
      BY <3>1, <3>5
    <3>9. s = run'[p].pin[DerivedFrom[z]]
      BY <2>4, <3>5
    <3> HIDE DEF s
    <3> QED BY <3>6, <3>7, <3>8, <3>9
  <2> QED BY <2>2, <2>5, <2>6
<1> QED BY <1>1, <1>2

LEMMA ConstructedInit == Init => Constructed
BY DEF Init, Constructed, Idle

\* A commit made of intact patches is the one that is pinned.
LEMMA IntactIsPinned ==
    ASSUME Quiet, Constructed, NEW p \in Proc, run[p].pc = "construct", Undisturbed(p),
           run[p].applied = Len(PatchesOf[run[p].revision]),
           run[p].commit # run[p].pin[run[p].revision]
    PROVE  Edited(p, run[p].revision)
<1> DEFINE r == run[p].revision
<1>1. r \in Derived /\ Pins(run[p].pin)
  BY DEF Quiet, Base, Shaped, Shape, Busy
<1>2. PatchesOf[r] \in Seq(Patch) /\ patch \in [Patch -> BOOLEAN]
  BY <1>1, PopulationAssumption DEF Quiet, Base, TypeOK, DiskType
<1>3. run[p].commit = run[p].pin[DerivedFrom[r]] \o Applied(r, Len(PatchesOf[r]))
  BY DEF Constructed
<1>4. run[p].pin[r] = run[p].pin[DerivedFrom[r]] \o Intact(r)
  BY <1>1 DEF Pins
<1>5. Applied(r, Len(PatchesOf[r])) # Intact(r)
  BY <1>3, <1>4
<1>6. DOMAIN PatchesOf[r] = 1..Len(PatchesOf[r])
      /\ \A i \in DOMAIN PatchesOf[r] : patch[PatchesOf[r][i]] \in BOOLEAN
  BY <1>2
<1>7. (\A i \in DOMAIN PatchesOf[r] : patch[PatchesOf[r][i]] = TRUE)
        => Applied(r, Len(PatchesOf[r])) = Intact(r)
  BY <1>6 DEF Applied, Intact
<1>8. \E i \in DOMAIN PatchesOf[r] : ~patch[PatchesOf[r][i]]
  BY <1>5, <1>6, <1>7
<1> QED BY <1>1, <1>8 DEF Edited

\* A step that fails has a reason outside the program.
LEMMA ReasonStep ==
    Quiet /\ Pinning /\ Constructed /\ FailsForReason /\ [Next]_vars => FailsForReason'
<1> SUFFICES ASSUME Quiet, Pinning, Constructed, FailsForReason, [Next]_vars
             PROVE  FailsForReason'
  OBVIOUS
<1>1. CASE UNCHANGED vars
  BY <1>1 DEF FailsForReason, Undisturbed, Moved, Edited, Blocked, vars, git
<1>2. CASE Next
  <2> DEFINE Reason(p) == \/ \E r \in run[p].todo : Moved(p, r) \/ Edited(p, r)
                          \/ \E w \in run[p].wanted[2] : Blocked(p, w)
  <2> SUFFICES ASSUME NEW p \in Proc, run'[p].pc = "failed", run'[p].network, Undisturbed(p)'
               PROVE  Reason(p)'
    BY DEF FailsForReason
  <2>1. Acts(p) /\ (Starts(p) \/ (Busy(p) /\ Undisturbed(p))) /\ Base
    BY <1>2, OwnStep DEF Busy, Quiet
  <2>2. Fails(p)
    BY <2>1 DEF Acts, Starts, Populates, Updates, StartsConstruct, Applies, EndsConstruct,
                Inspects, Finishes, Adds, Moves
  <2>3. /\ Continues(p) /\ run'[p].todo = run[p].todo /\ Cause(p)
        /\ UNCHANGED <<head, patch, worktree>>
    BY <2>2 DEF Fails
  <2>4. Busy(p) /\ Undisturbed(p) /\ AsPinned(p) /\ Shape(run[p]) /\ run[p] \in Running
    BY <2>1, <2>3 DEF Continues, Starts, Running, Idle, Pinning, Base, Shaped
  <2>5. Reason(p) => Reason(p)'
    BY <2>3 DEF Continues, Moved, Edited, Blocked
  <2>6. Reason(p)
    <3>1. CASE /\ run[p].pc = "construct" /\ run[p].applied = Len(PatchesOf[run[p].revision])
               /\ run[p].commit # run[p].pin[run[p].revision]
      BY <2>4, <3>1, IntactIsPinned DEF Shape
    <3>2. CASE run[p].pc = "add"
               /\ (worktree[run[p].tree].there \/ worktree[run[p].tree].registered)
      BY <2>4, <3>2 DEF AsPinned, Shape, Blocked
    <3>3. CASE run[p].pc = "move"
               /\ (worktree[run[p].tree].dirty \/ ~worktree[run[p].tree].ours)
      BY <2>4, <3>3 DEF Quiet, Clean, Undisturbed
    <3> QED BY <2>3, <3>1, <3>2, <3>3 DEF Cause
  <2> QED BY <2>5, <2>6
<1> QED BY <1>1, <1>2

\* Populating can be repeated: whatever earlier runs left behind when they
\* failed or were killed, a run nobody interferes with fails only because
\* upstream moved, a patch was edited or a worktree is in the way
\* (populate_repository, construct_revision, populate_worktree).
THEOREM FailureHasReason == Spec => []FailsForReason
<1>1. Init => FailsForReason
  BY DEF Init, FailsForReason, Idle
<1> QED BY <1>1, QuietInit, QuietStep, PinningInit, PinningStep,
           ConstructedInit, ConstructedStep, ReasonStep, PTL DEF Spec
=============================================================================
