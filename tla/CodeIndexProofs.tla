--------------------------- MODULE CodeIndexProofs ---------------------------
(***************************************************************************)
(* Proofs about CodeIndex, for any processes, revisions, manifests, trees  *)
(* and number of runs.                                                     *)
(***************************************************************************)
EXTENDS CodeIndex, TLAPS

\* A run that has begun keeps its plan, and the plan has a local revision
\* with the pin its workspace registered or not at all.
Fields == {"pc", "manifest", "merged", "plan", "todo", "revision", "files", "rows", "failed"}

PlansTrueToLocals ==
    /\ DOMAIN run = Proc
    /\ \A q \in Proc : run[q].pc # "idle" =>
         /\ Fields \subseteq DOMAIN run[q]
         /\ \A r \in Local \cap DOMAIN run[q].plan : run[q].plan[r] = LocalPin[r]

LocalInv ==
    /\ local \subseteq Local
    /\ PlansTrueToLocals
    /\ LocalKept

\* What every step of a run does to the runs but beginning one.
PlansStay ==
    /\ DOMAIN run' = DOMAIN run
    /\ \A q \in Proc :
         \/ run'[q] = run[q]
         \/ run'[q] = Idle
         \/ /\ run[q].pc # "idle"
            /\ DOMAIN run'[q] = DOMAIN run[q]
            /\ run'[q].plan = run[q].plan
            /\ run'[q].manifest = run[q].manifest
            /\ run'[q].merged = run[q].merged

-----------------------------------------------------------------------------

LEMMA PlansOf ==
    ASSUME NEW m \in Manifests, NEW merged \in {{}, local}, local \subseteq Local
    PROVE  \A r \in Local \cap DOMAIN PlanOf(m, merged) : PlanOf(m, merged)[r] = LocalPin[r]
  BY CodeIndexAssumption DEF PlanOf

\* An update of one field of the run of p other than its plan.
LEMMA StepKeepsPlans ==
    ASSUME LocalInv, NEW p \in Proc, Step(p) \/ Kill(p)
    PROVE  PlansStay
<1>1. CASE Sync(p) \/ Prune(p) \/ Report(p) \/ Kill(p)
  BY <1>1 DEF Sync, Prune, Report, Kill, PlansStay, LocalInv, PlansTrueToLocals, Fields
<1>2. CASE Pick(p)
  <2> DEFINE next == CHOOSE x \in run[p].todo : TRUE
  <2> HIDE DEF next
  <2>1. /\ p \in DOMAIN run
        /\ DOMAIN run' = DOMAIN run
        /\ \A q \in Proc \ {p} : run'[q] = run[q]
    BY <1>2 DEF Pick, LocalInv, PlansTrueToLocals, Fields
  <2>2. \/ run'[p] = [run[p] EXCEPT !.pc = "blobs", !.revision = next,
                        !.todo = @ \ {next}, !.rows = {}, !.failed = FALSE,
                        !.files = DOMAIN Files(run[p].plan[next])]
        \/ run'[p] = [run[p] EXCEPT
                        !.todo = @ \ {next},
                        !.outcome = [x \in DOMAIN @ \cup {next} |->
                                       IF x = next THEN "skipped" ELSE @[x]],
                        !.pc = IF run[p].todo = {next} THEN "report" ELSE "pick"]
    BY <1>2, <2>1 DEF Pick, next
  <2>3. /\ DOMAIN run'[p] = DOMAIN run[p]
        /\ run'[p].plan = run[p].plan
        /\ run'[p].manifest = run[p].manifest
        /\ run'[p].merged = run[p].merged
    BY <2>2, <1>2 DEF LocalInv, PlansTrueToLocals, Fields, Pick
  <2>4. QED
    BY <2>1, <2>3, <1>2 DEF PlansStay, Pick
<1>3. CASE RevisionFails(p) \/ WritePaths(p)
  BY <1>3 DEF RevisionFails, WritePaths, Outcome, PlansStay, LocalInv, PlansTrueToLocals, Fields
<1>4. ASSUME NEW path \in Path,
             Reuse(p, path) \/ Examine(p, path) \/ Store(p, path) \/ StoreFails(p, path)
      PROVE  PlansStay
  BY <1>4 DEF Reuse, Examine, Store, StoreFails, Kept, PlansStay, LocalInv, PlansTrueToLocals, Fields
<1>5. QED
  BY <1>1, <1>2, <1>3, <1>4 DEF Step

LEMMA PlansStayTrue ==
    ASSUME LocalInv, PlansStay
    PROVE  PlansTrueToLocals'
  BY DEF LocalInv, PlansTrueToLocals, Fields, PlansStay, Idle

LEMMA SyncKeepsLocals ==
    ASSUME LocalInv, NEW p \in Proc, Sync(p)
    PROVE  LocalKept'
<1> DEFINE plan == run[p].plan
<1>1. /\ run[p].pc = "sync" /\ local' = local
  BY DEF Sync, tables
<1>2. CASE DOMAIN plan = {}
  BY <1>2, <1>1 DEF Sync, tables, LocalInv, LocalKept
<1>3. CASE DOMAIN plan # {}
  <2>1. catalog' = [r \in DOMAIN plan \cup
                             (DOMAIN catalog \ (Vanished(plan) \cup Repinned(plan))) |->
                      IF r \in DOMAIN plan
                      THEN [commit |-> plan[r].commit, index |-> plan[r].index]
                      ELSE catalog[r]]
    BY <1>3 DEF Sync
  <2>2. SUFFICES ASSUME NEW r \in local
                 PROVE  r \in DOMAIN catalog' /\ catalog'[r].commit = LocalPin[r].commit
    BY <1>1 DEF LocalKept
  <2>3. r \in DOMAIN catalog /\ catalog[r].commit = LocalPin[r].commit /\ r \in Local
    BY DEF LocalInv, LocalKept
  <2>4. CASE r \in DOMAIN plan
    <3>1. plan[r] = LocalPin[r]
      BY <1>1, <2>3, <2>4 DEF LocalInv, PlansTrueToLocals, Fields
    <3>2. QED
      BY <2>1, <2>4, <3>1
  <2>5. CASE r \notin DOMAIN plan
    <3>1. r \notin Vanished(plan) \cup Repinned(plan)
      BY <2>5 DEF Vanished, Repinned
    <3>2. QED
      BY <2>1, <2>3, <2>5, <3>1
  <2>6. QED
    BY <2>4, <2>5
<1>4. QED
  BY <1>2, <1>3

LEMMA LocalInvStep ==
    ASSUME LocalInv, [Next]_vars
    PROVE  LocalInv'
<1>1. CASE UNCHANGED vars
  BY <1>1 DEF vars, tables, LocalInv, PlansTrueToLocals, Fields, LocalKept
<1>2. ASSUME NEW p \in Proc, NEW m \in Manifests, NEW merged \in {{}, local},
             NEW wanted \in Selections, NEW v \in Version,
             Start(p, m, merged, wanted, v)
      PROVE  LocalInv'
  <2>1. UNCHANGED <<catalog, local>>
    BY <1>2 DEF Start, tables
  <2>2. /\ DOMAIN run' = Proc
        /\ \A q \in Proc \ {p} : run'[q] = run[q]
        /\ Fields \subseteq DOMAIN run'[p]
        /\ run'[p].plan = PlanOf(m, merged)
    BY <1>2 DEF Start, LocalInv, PlansTrueToLocals, Fields
  <2>3. \A r \in Local \cap DOMAIN PlanOf(m, merged) : PlanOf(m, merged)[r] = LocalPin[r]
    BY PlansOf DEF LocalInv
  <2>4. PlansTrueToLocals'
    BY <2>2, <2>3 DEF LocalInv, PlansTrueToLocals, Fields
  <2>5. QED
    BY <2>1, <2>4 DEF LocalInv, LocalKept
<1>3. ASSUME NEW p \in Proc, Step(p) \/ Kill(p)
      PROVE  LocalInv'
  <2>1. PlansTrueToLocals'
    BY <1>3, StepKeepsPlans, PlansStayTrue
  <2>2. local' = local
    BY <1>3 DEF Step, Kill, Sync, Prune, Pick, RevisionFails, WritePaths, Reuse, Examine,
                Store, StoreFails, Report, tables
  <2>3. LocalKept'
    <3>1. CASE Sync(p)
      BY <3>1, SyncKeepsLocals
    <3>2. CASE ~Sync(p)
      <4>1. catalog' = catalog
        BY <1>3, <3>2 DEF Step, Kill, Prune, Pick, RevisionFails, WritePaths, Reuse, Examine,
                          Store, StoreFails, Report, tables
      <4>2. QED
        BY <2>2, <4>1 DEF LocalInv, LocalKept
    <3>3. QED
      BY <3>1, <3>2
  <2>4. QED
    BY <2>1, <2>2, <2>3 DEF LocalInv
<1>4. ASSUME NEW c \in Commit, Populate(c)
      PROVE  LocalInv'
  BY <1>4 DEF Populate, tables, LocalInv, PlansTrueToLocals, Fields, LocalKept
<1>5. ASSUME NEW r \in Local, RegisterLocal(r)
      PROVE  LocalInv'
  <2>1. local' = local \cup {r} /\ run' = run
    BY <1>5 DEF RegisterLocal
  <2>2. catalog' = [x \in DOMAIN catalog \cup {r} |->
                      IF x = r THEN [commit |-> LocalPin[r].commit, index |-> LocalPin[r].index]
                      ELSE catalog[x]]
    BY <1>5 DEF RegisterLocal
  <2>3. LocalKept'
    BY <2>1, <2>2 DEF LocalInv, LocalKept
  <2>4. QED
    BY <2>1, <2>3 DEF LocalInv, PlansTrueToLocals, Fields
<1>6. QED
  BY <1>1, <1>2, <1>3, <1>4, <1>5 DEF Next

\* Revisions that workspaces registered stay in the catalogue with their
\* commits, whatever manifests other processes have loaded and wherever their
\* runs fail or are killed (synchronize_catalog, register_local_revision).
THEOREM LocalRevisionsKept == Spec => []LocalKept
<1>1. Init => LocalInv
  BY DEF Init, Idle, LocalInv, PlansTrueToLocals, Fields, LocalKept
<1>2. LocalInv /\ [Next]_vars => LocalInv'
  BY LocalInvStep
<1>3. LocalInv => LocalKept
  BY DEF LocalInv
<1>4. QED
  BY <1>1, <1>2, <1>3, PTL DEF Spec

-----------------------------------------------------------------------------
(* The rows of the paths and the pins of their revisions *)

\* A run that has begun works for a manifest that was loaded, with local
\* revisions that were registered, and all such runs do for the same ones.
SamePlans ==
    \A q \in Proc : run[q].pc # "idle" =>
        /\ run[q].manifest \in Manifests
        /\ run[q].merged \subseteq local
        /\ run[q].plan = PlanOf(run[q].manifest, run[q].merged)
        /\ \A o \in Proc : run[o].pc # "idle" => run[o].plan = run[q].plan

\* Past its first transaction, a run finds its plan in the catalogue.
Synced ==
    \A q \in Proc : run[q].pc \notin {"idle", "sync"} =>
        \A r \in DOMAIN run[q].plan :
            r \in DOMAIN catalog /\ catalog[r].commit = run[q].plan[r].commit

OfTree(row, plan) ==
    /\ row.revision \in DOMAIN plan
    /\ row.path \in DOMAIN TreeOf[plan[row.revision].commit]
    /\ TreeOf[plan[row.revision].commit][row.path] = row.blob

\* What a run has gathered comes from the trees of its plan.
GatheredFromTrees ==
    \A q \in Proc : run[q].pc # "idle" =>
        /\ run[q].todo \subseteq DOMAIN run[q].plan
        /\ run[q].pc = "pick" => run[q].todo # {}
        /\ \A row \in run[q].rows : OfTree(row, run[q].plan)
        /\ run[q].pc \in {"blobs", "analyse"} =>
             /\ run[q].revision \in DOMAIN run[q].plan
             /\ run[q].files \subseteq DOMAIN Files(run[q].plan[run[q].revision])

RowsInv ==
    /\ LocalInv
    /\ DOMAIN catalog \cap Local \subseteq local
    /\ SamePlans
    /\ Synced
    /\ GatheredFromTrees
    /\ RowsMatchPins

LEMMA FilesOfTree ==
    ASSUME NEW pin, NEW path \in DOMAIN Files(pin)
    PROVE  /\ path \in DOMAIN TreeOf[pin.commit]
           /\ Files(pin)[path] = TreeOf[pin.commit][path]
  BY DEF Files, Restrict

LEMMA PlanDomain ==
    ASSUME NEW m \in Manifests, NEW merged, merged \subseteq local
    PROVE  DOMAIN PlanOf(m, merged) \cap Local \subseteq local
  BY CodeIndexAssumption DEF PlanOf

\* A begun run keeps what its plan was made of.
LEMMA SamePlansStay ==
    ASSUME RowsInv, PlansStay, local \subseteq local'
    PROVE  SamePlans'
  BY DEF RowsInv, LocalInv, PlansTrueToLocals, Fields, SamePlans, PlansStay, Idle, PlanOf

\* The steps of a run: what it gathers.
LEMMA StepGathers ==
    ASSUME RowsInv, NEW p \in Proc, Step(p) \/ Kill(p)
    PROVE  GatheredFromTrees'
<1> USE DEF RowsInv, LocalInv, PlansTrueToLocals, Fields
<1>1. CASE Sync(p) \/ Report(p) \/ Kill(p)
  BY <1>1 DEF Sync, Report, Kill, GatheredFromTrees, Idle
<1>2. CASE Prune(p)
  BY <1>2 DEF Prune, GatheredFromTrees
<1>3. CASE Pick(p)
  <2> DEFINE next == CHOOSE x \in run[p].todo : TRUE
  <2>0. next \in run[p].todo
    BY <1>3 DEF Pick, GatheredFromTrees
  <2> HIDE DEF next
  <2>1. /\ p \in DOMAIN run
        /\ DOMAIN run' = DOMAIN run
        /\ \A q \in Proc \ {p} : run'[q] = run[q]
    BY <1>3 DEF Pick
  <2>2. \/ run'[p] = [run[p] EXCEPT !.pc = "blobs", !.revision = next,
                        !.todo = @ \ {next}, !.rows = {}, !.failed = FALSE,
                        !.files = DOMAIN Files(run[p].plan[next])]
        \/ run'[p] = [run[p] EXCEPT
                        !.todo = @ \ {next},
                        !.outcome = [x \in DOMAIN @ \cup {next} |->
                                       IF x = next THEN "skipped" ELSE @[x]],
                        !.pc = IF run[p].todo = {next} THEN "report" ELSE "pick"]
    BY <1>3, <2>1 DEF Pick, next
  <2>3. /\ run'[p].plan = run[p].plan
        /\ run'[p].todo = run[p].todo \ {next}
        /\ \/ /\ run'[p].pc = "blobs" /\ run'[p].revision = next /\ run'[p].rows = {}
              /\ run'[p].files = DOMAIN Files(run[p].plan[next])
           \/ /\ run'[p].pc = IF run[p].todo = {next} THEN "report" ELSE "pick"
              /\ run'[p].rows = run[p].rows
    BY <1>3, <2>2 DEF Pick
  <2>4. run[p].pc = "pick"
    BY <1>3 DEF Pick
  <2>5. QED
    BY <2>0, <2>1, <2>3, <2>4 DEF GatheredFromTrees
<1>4. CASE RevisionFails(p) \/ WritePaths(p)
  <2>1. /\ DOMAIN run' = DOMAIN run
        /\ \A q \in Proc \ {p} : run'[q] = run[q]
        /\ run[p].pc = "blobs"
        /\ run'[p].pc = IF run[p].todo = {} THEN "report" ELSE "pick"
        /\ run'[p].todo = run[p].todo /\ run'[p].rows = run[p].rows
        /\ run'[p].plan = run[p].plan
    BY <1>4 DEF RevisionFails, WritePaths, Outcome
  <2>2. QED
    BY <2>1 DEF GatheredFromTrees
<1>5. ASSUME NEW path \in Path, Reuse(p, path) \/ Store(p, path)
      PROVE  GatheredFromTrees'
  <2> DEFINE row == [revision |-> run[p].revision, path |-> path,
                     blob |-> CurrentFiles(p)[path]]
  <2>1. /\ DOMAIN run' = DOMAIN run
        /\ \A q \in Proc \ {p} : run'[q] = run[q]
        /\ run[p].pc \in {"blobs", "analyse"} /\ path \in run[p].files
        /\ run'[p].pc = "blobs" /\ run'[p].revision = run[p].revision
        /\ run'[p].todo = run[p].todo /\ run'[p].plan = run[p].plan
        /\ run'[p].files = run[p].files \ {path}
        /\ run'[p].rows = run[p].rows \cup {row}
    BY <1>5 DEF Reuse, Store, Kept, NextFile
  <2>2. OfTree(row, run[p].plan)
    BY <2>1, FilesOfTree DEF OfTree, CurrentFiles, GatheredFromTrees
  <2> HIDE DEF row
  <2>3. QED
    BY <2>1, <2>2 DEF GatheredFromTrees
<1>6. ASSUME NEW path \in Path, Examine(p, path) \/ StoreFails(p, path)
      PROVE  GatheredFromTrees'
  BY <1>6 DEF Examine, StoreFails, GatheredFromTrees
<1>7. QED
  BY <1>1, <1>2, <1>3, <1>4, <1>5, <1>6 DEF Step

LEMMA SyncKeepsRows ==
    ASSUME RowsInv, NEW p \in Proc, Sync(p)
    PROVE  /\ DOMAIN catalog' \cap Local \subseteq local'
           /\ Synced'
           /\ RowsMatchPins'
<1> DEFINE plan == run[p].plan
<1> USE DEF RowsInv
<1>1. /\ run[p].pc = "sync" /\ local' = local
      /\ DOMAIN run = Proc
      /\ \A q \in Proc : run'[q].plan = run[q].plan
      /\ \A q \in Proc \ {p} : run'[q].pc = run[q].pc
  BY DEF Sync, tables, LocalInv, PlansTrueToLocals, Fields
<1>2. \A q \in Proc : run'[q].pc # "idle" => run'[q].plan = plan
  BY <1>1 DEF SamePlans
<1>3. DOMAIN plan \cap Local \subseteq local
  BY <1>1, PlanDomain DEF SamePlans
<1>4. CASE DOMAIN plan = {}
  <2>1. CASE local # {}
    <3>1. catalog' = catalog /\ paths' = paths
      BY <1>4, <2>1 DEF Sync, tables
    <3>2. Synced'
      BY <1>2, <1>4 DEF Synced
    <3>3. QED
      BY <1>1, <3>1, <3>2 DEF RowsMatchPins
  <2>2. CASE local = {}
    <3>1. DOMAIN catalog' = {} /\ paths' = {}
      BY <1>4, <2>2 DEF Sync
    <3>2. Synced'
      BY <1>2, <1>4 DEF Synced
    <3>3. QED
      BY <3>1, <3>2 DEF RowsMatchPins
  <2>3. QED
    BY <2>1, <2>2
<1>5. CASE DOMAIN plan # {}
  <2>1. /\ catalog' = [r \in DOMAIN plan \cup
                              (DOMAIN catalog \ (Vanished(plan) \cup Repinned(plan))) |->
                         IF r \in DOMAIN plan
                         THEN [commit |-> plan[r].commit, index |-> plan[r].index]
                         ELSE catalog[r]]
        /\ paths' = {row \in paths : row.revision \notin Vanished(plan) \cup Repinned(plan)}
    BY <1>5 DEF Sync
  <2>2. \A r \in DOMAIN plan : r \in DOMAIN catalog' /\ catalog'[r].commit = plan[r].commit
    BY <2>1
  <2>3. Synced'
    BY <1>2, <2>2 DEF Synced
  <2>4. DOMAIN catalog' \cap Local \subseteq local'
    BY <1>1, <1>3, <2>1
  <2>5. ASSUME NEW r \in DOMAIN catalog, r \notin Vanished(plan) \cup Repinned(plan)
        PROVE  r \in DOMAIN catalog' /\ catalog'[r].commit = catalog[r].commit
    BY <2>1, <2>5 DEF Repinned
  <2>6. RowsMatchPins'
    BY <2>1, <2>5 DEF RowsMatchPins
  <2>7. QED
    BY <2>3, <2>4, <2>6
<1>6. QED
  BY <1>4, <1>5

\* The other steps of a run leave the catalogue alone.
LEMMA StepKeepsRows ==
    ASSUME RowsInv, NEW p \in Proc, Step(p) \/ Kill(p), ~Sync(p)
    PROVE  Synced' /\ RowsMatchPins' /\ catalog' = catalog /\ local' = local
<1> USE DEF RowsInv
<1>1. catalog' = catalog /\ local' = local
  BY DEF Step, Kill, Prune, Pick, RevisionFails, WritePaths, Reuse, Examine, Store,
         StoreFails, Report, tables
<1>2. /\ run[p].pc \notin {"idle", "sync"} \/ run'[p] = Idle
      /\ \A q \in Proc \ {p} : run'[q] = run[q]
  BY DEF Step, Kill, Prune, Pick, RevisionFails, WritePaths, Outcome, Reuse, Examine, Store,
         StoreFails, Kept, Report, LocalInv, PlansTrueToLocals
<1>3. PlansStay
  BY StepKeepsPlans
<1>4. Synced'
  BY <1>1, <1>2, <1>3 DEF Synced, PlansStay, Idle
<1>5. paths' \subseteq paths \cup run[p].rows
      /\ (~WritePaths(p) => paths' \subseteq paths)
  BY DEF Step, Kill, Prune, Pick, RevisionFails, WritePaths, Reuse, Examine, Store,
         StoreFails, Report, tables
<1>6. CASE ~WritePaths(p)
  BY <1>1, <1>4, <1>5, <1>6 DEF RowsMatchPins
<1>7. CASE WritePaths(p)
  <2>1. run[p].pc = "blobs"
    BY <1>7 DEF WritePaths
  <2>2. \A row \in run[p].rows :
          /\ row.revision \in DOMAIN catalog
          /\ row.path \in DOMAIN TreeOf[catalog[row.revision].commit]
          /\ TreeOf[catalog[row.revision].commit][row.path] = row.blob
    BY <2>1 DEF Synced, GatheredFromTrees, OfTree
  <2>3. QED
    BY <1>1, <1>4, <1>5, <2>2 DEF RowsMatchPins
<1>8. QED
  BY <1>6, <1>7

LEMMA RowsInvStart ==
    ASSUME MixedOverlap = FALSE, RowsInv, LocalInv',
           NEW p \in Proc, NEW m \in Manifests, NEW merged \in {{}, local},
           NEW wanted \in Selections, NEW v \in Version,
           Start(p, m, merged, wanted, v)
    PROVE  RowsInv'
<1> USE DEF RowsInv
<1>1. UNCHANGED <<catalog, local, paths>>
  BY DEF Start, tables
<1>2. /\ DOMAIN run = Proc
      /\ \A q \in Proc \ {p} : run'[q] = run[q]
      /\ run'[p].pc = "sync" /\ run'[p].manifest = m /\ run'[p].merged = merged
      /\ run'[p].plan = PlanOf(m, merged) /\ run'[p].rows = {}
      /\ run'[p].todo \subseteq DOMAIN PlanOf(m, merged)
  BY DEF Start, LocalInv, PlansTrueToLocals
<1>3. \A q \in Proc : run[q].pc # "idle" => run[q].manifest = m /\ run[q].merged = merged
  BY DEF Start, Undisturbing
<1>4. \A q \in Proc : run'[q].pc # "idle" =>
        /\ run'[q].manifest = m /\ run'[q].merged = merged
        /\ run'[q].plan = PlanOf(m, merged)
  BY <1>2, <1>3 DEF SamePlans
<1>5. SamePlans'
  <2>1. \A q \in Proc : run'[q].pc # "idle" =>
          run'[q].plan = PlanOf(run'[q].manifest, run'[q].merged)
    BY <1>4
  <2>2. QED
    BY <1>1, <1>4, <2>1 DEF SamePlans, PlanOf
<1>6. Synced'
  BY <1>1, <1>2 DEF Synced
<1>7. GatheredFromTrees'
  BY <1>2 DEF GatheredFromTrees
<1>8. QED
  BY <1>1, <1>5, <1>6, <1>7 DEF RowsMatchPins

LEMMA RowsInvStep ==
    ASSUME MixedOverlap = FALSE, RowsInv, [Next]_vars
    PROVE  RowsInv'
<1>0. LocalInv'
  BY LocalInvStep DEF RowsInv
<1>1. CASE UNCHANGED vars
  BY <1>0, <1>1 DEF vars, tables, RowsInv, SamePlans, Synced, GatheredFromTrees, RowsMatchPins
<1>2. ASSUME NEW p \in Proc, NEW m \in Manifests, NEW merged \in {{}, local},
             NEW wanted \in Selections, NEW v \in Version,
             Start(p, m, merged, wanted, v)
      PROVE  RowsInv'
  BY <1>0, <1>2, RowsInvStart
<1>3. ASSUME NEW p \in Proc, Step(p) \/ Kill(p)
      PROVE  RowsInv'
  <2>1. GatheredFromTrees'
    BY <1>3, StepGathers
  <2>2. CASE Sync(p)
    <3>1. local' = local
      BY <2>2 DEF Sync, tables
    <3>2. PlansStay
      BY <1>3, StepKeepsPlans DEF RowsInv
    <3>3. QED
      BY <1>0, <2>1, <2>2, <3>1, <3>2, SamePlansStay, SyncKeepsRows DEF RowsInv
  <2>3. CASE ~Sync(p)
    <3>1. PlansStay
      BY <1>3, StepKeepsPlans DEF RowsInv
    <3>2. Synced' /\ RowsMatchPins' /\ catalog' = catalog /\ local' = local
      BY <1>3, <2>3, StepKeepsRows
    <3>3. QED
      BY <1>0, <2>1, <3>1, <3>2, SamePlansStay DEF RowsInv
  <2>4. QED
    BY <2>2, <2>3
<1>4. ASSUME NEW c \in Commit, Populate(c)
      PROVE  RowsInv'
  BY <1>0, <1>4 DEF Populate, tables, RowsInv, SamePlans, Synced, GatheredFromTrees, RowsMatchPins
<1>5. ASSUME NEW r \in Local, RegisterLocal(r)
      PROVE  RowsInv'
  <2>1. /\ r \notin local /\ local' = local \cup {r}
        /\ run' = run /\ paths' = paths
    BY <1>5 DEF RegisterLocal
  <2>2. /\ DOMAIN catalog' = DOMAIN catalog \cup {r}
        /\ \A x \in DOMAIN catalog \ {r} : catalog'[x] = catalog[x]
    BY <1>5 DEF RegisterLocal
  <2>3. r \notin DOMAIN catalog
    BY <2>1 DEF RowsInv
  <2>4. RowsMatchPins'
    BY <2>1, <2>2, <2>3 DEF RowsInv, RowsMatchPins
  <2>5. Synced' /\ GatheredFromTrees'
    BY <2>1, <2>2, <2>3 DEF RowsInv, Synced, GatheredFromTrees
  <2>6. SamePlans'
    BY <2>1 DEF RowsInv, SamePlans, PlanOf
  <2>7. QED
    BY <1>0, <2>1, <2>2, <2>4, <2>5, <2>6 DEF RowsInv
<1>6. QED
  BY <1>1, <1>2, <1>3, <1>4, <1>5 DEF Next

\* As long as processes that run at once have the same manifest, the rows of
\* a revision are rows of the tree of its pin, whatever runs came before,
\* wherever they failed or were killed, and however many run at once
\* (synchronize_catalog, index_repositories, store_blob_analysis).
THEOREM RowsTrueToPins ==
    ASSUME MixedOverlap = FALSE
    PROVE  Spec => []RowsMatchPins
<1>1. Init => RowsInv
  BY DEF Init, Idle, RowsInv, LocalInv, PlansTrueToLocals, LocalKept, SamePlans, Synced,
         GatheredFromTrees, RowsMatchPins
<1>2. RowsInv /\ [Next]_vars => RowsInv'
  BY RowsInvStep
<1>3. RowsInv => RowsMatchPins
  BY DEF RowsInv
<1>4. QED
  BY <1>1, <1>2, <1>3, PTL DEF Spec

-----------------------------------------------------------------------------
(* What a run reports that no other ran beside.  Nothing is assumed of the   *)
(* manifests here: what is true of such a run does not depend on the tables  *)
(* it finds.                                                                 *)

AllFields == {"pc", "manifest", "merged", "version", "plan", "wanted", "todo", "revision",
              "files", "rows", "failed", "outcome", "before"}
Row(r, path, blob) == [revision |-> r, path |-> path, blob |-> blob]
AtWork == {"blobs", "analyse"}

\* What a run has found out.
Sound(x) ==
    /\ AllFields \subseteq DOMAIN x
    /\ \A r \in x.todo \cup DOMAIN x.outcome : r \in DOMAIN x.plan /\ x.plan[r].index
    /\ x.todo \cap DOMAIN x.outcome = {}
    /\ x.pc \in {"sync", "prune"} => DOMAIN x.outcome = {}
    /\ x.pc = "pick" => x.todo # {}
    /\ x.pc \in AtWork =>
         LET files == Files(x.plan[x.revision]) IN
         /\ x.revision \in DOMAIN x.plan /\ x.plan[x.revision].index
         /\ x.revision \notin x.todo \cup DOMAIN x.outcome
         /\ x.files \subseteq DOMAIN files
         /\ x.rows \subseteq RowsOf(x.revision, files)
         /\ ~x.failed => \A path \in DOMAIN files \ x.files :
                           Row(x.revision, path, files[path]) \in x.rows

SoundRuns == \A q \in Proc : run[q].pc # "idle" => Sound(run[q])

\* Foreign keys: rows have their revisions and their analyses.
Referenced ==
    \A row \in paths : /\ row = Row(row.revision, row.path, row.blob)
                       /\ row.revision \in DOMAIN catalog
                       /\ row.blob \in DOMAIN analyses

\* Only registered local revisions are in the catalogue or in a plan.
Registered ==
    /\ DOMAIN catalog \cap Local \subseteq local
    /\ \A q \in Proc : run[q].pc # "idle" => DOMAIN run[q].plan \cap Local \subseteq local

\* The blobs of the rows a run has gathered carry its analyses.
Analysed(q) ==
    run[q].pc \in AtWork => \A row \in run[q].rows :
        row.blob \in DOMAIN analyses /\ analyses[row.blob] = run[q].version

\* The blob that a run reads still has no analysis that could be used again.
Lacking(q) ==
    run[q].pc = "analyse" => \A path \in Path :
        NextFile(q, path) => ~Reusable(q, CurrentFiles(q)[path])

IndexSynced(q) ==
    run[q].pc # "sync" => \A r \in DOMAIN run[q].plan :
        r \in DOMAIN catalog /\ catalog[r].index = run[q].plan[r].index

Pruned(q) ==
    run[q].pc \notin {"sync", "prune"} => \A row \in paths : catalog[row.revision].index

OkExact(q) ==
    \A r \in DOMAIN run[q].outcome : run[q].outcome[r] = "ok" =>
        /\ {row \in paths : row.revision = r} = RowsOf(r, Files(run[q].plan[r]))
        /\ \A path \in DOMAIN Files(run[q].plan[r]) :
             /\ Files(run[q].plan[r])[path] \in DOMAIN analyses
             /\ analyses[Files(run[q].plan[r])[path]] = run[q].version

\* What a run saw in the tables when it began.
BeforeSane(q) ==
    /\ DOMAIN run[q].before.catalog \cap Local \subseteq local
    /\ \A row \in run[q].before.paths :
         /\ row.revision \in DOMAIN run[q].before.catalog
         /\ row.blob \in DOMAIN run[q].before.analyses

\* Until its first transaction all this is still so.
Untouched(q) ==
    run[q].pc = "sync" =>
        /\ paths = run[q].before.paths /\ analyses = run[q].before.analyses
        /\ \A r \in DOMAIN run[q].before.catalog :
             r \in DOMAIN catalog /\ catalog[r] = run[q].before.catalog[r]

\* What was analysed then is analysed still, by the ctags of the run if it was
\* already.
AnalysesLast(q) ==
    DOMAIN run[q].plan # {} => \A b \in DOMAIN run[q].before.analyses :
        /\ b \in DOMAIN analyses
        /\ run[q].before.analyses[b] = run[q].version => analyses[b] = run[q].version

\* The rows RestKept speaks of, at any time of the run.
Spared(q, row) ==
    LET r == row.revision IN
    /\ row \in run[q].before.paths
    /\ r \in DOMAIN catalog /\ catalog[r].index
    /\ catalog[r].commit = run[q].before.catalog[r].commit
    /\ r \in DOMAIN run[q].outcome =>
         run[q].outcome[r] # "ok" /\ row \in RowsOf(r, Files(run[q].plan[r]))
    /\ row.blob \in DOMAIN analyses => analyses[row.blob] = run[q].before.analyses[row.blob]
RowsLast(q) == \A row \in run[q].before.paths : Spared(q, row) => row \in paths

Findings(q) ==
    /\ Analysed(q) /\ Lacking(q) /\ IndexSynced(q) /\ Pruned(q) /\ OkExact(q)
    /\ BeforeSane(q) /\ Untouched(q) /\ AnalysesLast(q) /\ RowsLast(q)

\* A run that is alone and has not ended is the only one.
AloneRuns ==
    /\ alone \subseteq Proc
    /\ \A q \in alone : run[q].pc # "idle" =>
         /\ \A o \in Proc \ {q} : run[o].pc = "idle"
         /\ Findings(q)

ReportInv == LocalInv /\ Registered /\ SoundRuns /\ Referenced /\ AloneRuns

-----------------------------------------------------------------------------
(* The steps of a run *)

\* p goes on with its run.
Continues(p) ==
    /\ run[p].pc # "idle" /\ run'[p].pc # "idle"
    /\ DOMAIN run' = Proc
    /\ \A q \in Proc \ {p} : run'[q] = run[q]
    /\ DOMAIN run'[p] = DOMAIN run[p]
    /\ run'[p].plan = run[p].plan /\ run'[p].version = run[p].version
    /\ run'[p].before = run[p].before
    /\ alone' = alone

\* What a run has found out does not change.
SameFindings(p) == run'[p].todo = run[p].todo /\ run'[p].outcome = run[p].outcome

RunBase == DOMAIN run = Proc /\ SoundRuns

LEMMA SyncDoes ==
    ASSUME RunBase, NEW p \in Proc, Sync(p)
    PROVE  Continues(p) /\ SameFindings(p) /\ run[p].pc = "sync" /\ run'[p].pc = "prune"
BY DEF Sync, Continues, SameFindings, RunBase, SoundRuns, Sound, AllFields, bookkeeping

LEMMA PruneDoes ==
    ASSUME RunBase, NEW p \in Proc, Prune(p)
    PROVE  /\ Continues(p) /\ SameFindings(p) /\ run[p].pc = "prune"
           /\ run'[p].pc = IF run[p].todo = {} THEN "report" ELSE "pick"
BY DEF Prune, Continues, SameFindings, RunBase, SoundRuns, Sound, AllFields, bookkeeping

Skips(p, r) ==
    /\ run'[p].todo = run[p].todo \ {r}
    /\ run'[p].outcome = [x \in DOMAIN run[p].outcome \cup {r} |->
                            IF x = r THEN "skipped" ELSE run[p].outcome[x]]
    /\ run'[p].pc = IF run[p].todo = {r} THEN "report" ELSE "pick"

Takes(p, r) ==
    /\ run'[p].pc = "blobs" /\ run'[p].revision = r
    /\ run'[p].todo = run[p].todo \ {r} /\ run'[p].outcome = run[p].outcome
    /\ run'[p].rows = {} /\ ~run'[p].failed
    /\ run'[p].files = DOMAIN Files(run[p].plan[r])

LEMMA PickDoes ==
    ASSUME RunBase, NEW p \in Proc, Pick(p)
    PROVE  /\ Continues(p) /\ run[p].pc = "pick" /\ UNCHANGED tables
           /\ \E r \in run[p].todo : Skips(p, r) \/ Takes(p, r)
<1> DEFINE next == CHOOSE x \in run[p].todo : TRUE
<1>1. run[p].pc = "pick" /\ Sound(run[p]) /\ alone' = alone /\ UNCHANGED tables
  BY DEF Pick, RunBase, SoundRuns, bookkeeping
<1>2. next \in run[p].todo
  BY <1>1 DEF Sound
<1>3. /\ p \in DOMAIN run /\ DOMAIN run' = Proc /\ AllFields \subseteq DOMAIN run[p]
      /\ \A q \in Proc \ {p} : run'[q] = run[q]
  BY <1>1 DEF Pick, RunBase, Sound
<1>4. \/ run'[p] = [run[p] EXCEPT !.pc = "blobs", !.revision = next,
                   !.todo = @ \ {next}, !.rows = {}, !.failed = FALSE,
                   !.files = DOMAIN Files(run[p].plan[next])]
      \/ run'[p] = [run[p] EXCEPT
                   !.todo = @ \ {next},
                   !.outcome = [x \in DOMAIN @ \cup {next} |->
                                     IF x = next THEN "skipped" ELSE @[x]],
                   !.pc = IF run[p].todo = {next} THEN "report" ELSE "pick"]
  BY <1>3 DEF Pick
<1> HIDE DEF next
<1>5. CASE run'[p] = [run[p] EXCEPT !.pc = "blobs", !.revision = next,
                   !.todo = @ \ {next}, !.rows = {}, !.failed = FALSE,
                   !.files = DOMAIN Files(run[p].plan[next])]
  <2>1. Takes(p, next)
    BY <1>3, <1>5 DEF Takes, AllFields
  <2>2. Continues(p)
    BY <1>1, <1>3, <1>5 DEF Continues, AllFields
  <2> QED BY <1>1, <1>2, <2>1, <2>2
<1>6. CASE run'[p] = [run[p] EXCEPT
                   !.todo = @ \ {next},
                   !.outcome = [x \in DOMAIN @ \cup {next} |->
                                     IF x = next THEN "skipped" ELSE @[x]],
                   !.pc = IF run[p].todo = {next} THEN "report" ELSE "pick"]
  <2>1. Skips(p, next)
    BY <1>3, <1>6 DEF Skips, AllFields
  <2>2. Continues(p)
    BY <1>1, <1>3, <1>6 DEF Continues, AllFields
  <2> QED BY <1>1, <1>2, <2>1, <2>2
<1> QED BY <1>4, <1>5, <1>6

\* The row of a file of the revision a run is at.
RowAt(p, path) == Row(run[p].revision, path, CurrentFiles(p)[path])

LEMMA KeepDoes ==
    ASSUME RunBase, NEW p \in Proc, NEW path \in Path, Reuse(p, path) \/ Store(p, path)
    PROVE  /\ Continues(p) /\ SameFindings(p) /\ run[p].pc \in AtWork /\ run'[p].pc = "blobs"
           /\ path \in run[p].files /\ run'[p].files = run[p].files \ {path}
           /\ run'[p].revision = run[p].revision
           /\ (run'[p].failed <=> run[p].failed)
           /\ run'[p].rows = run[p].rows \cup {RowAt(p, path)}
<1>1. /\ run[p].pc \in AtWork /\ Sound(run[p]) /\ path \in run[p].files /\ run' = Kept(p, path)
      /\ alone' = alone
  BY DEF Reuse, Store, NextFile, RunBase, SoundRuns, AtWork, bookkeeping
<1> QED BY <1>1 DEF Kept, Continues, SameFindings, RunBase, Sound, AllFields, RowAt, Row, AtWork

LEMMA ExamineDoes ==
    ASSUME RunBase, NEW p \in Proc, NEW path \in Path, Examine(p, path)
    PROVE  /\ Continues(p) /\ SameFindings(p) /\ UNCHANGED tables
           /\ run[p].pc = "blobs" /\ run'[p].pc = "analyse"
           /\ NextFile(p, path) /\ ~Reusable(p, CurrentFiles(p)[path])
           /\ run'[p].files = run[p].files /\ run'[p].revision = run[p].revision
           /\ run'[p].failed = run[p].failed /\ run'[p].rows = run[p].rows
BY DEF Examine, Continues, SameFindings, RunBase, SoundRuns, Sound, AllFields, bookkeeping

LEMMA StoreFailsDoes ==
    ASSUME RunBase, NEW p \in Proc, NEW path \in Path, StoreFails(p, path)
    PROVE  /\ Continues(p) /\ SameFindings(p) /\ UNCHANGED tables
           /\ run[p].pc = "analyse" /\ run'[p].pc = "blobs"
           /\ run'[p].files = run[p].files \ {path} /\ run'[p].revision = run[p].revision
           /\ run'[p].failed /\ run'[p].rows = run[p].rows
BY DEF StoreFails, Continues, SameFindings, RunBase, SoundRuns, Sound, AllFields, bookkeeping

LEMMA OutcomeDoes ==
    ASSUME RunBase, NEW p \in Proc, run[p].pc = "blobs", NEW r, NEW status,
           Outcome(p, r, status), alone' = alone
    PROVE  /\ Continues(p)
           /\ run'[p].todo = run[p].todo
           /\ run'[p].outcome = [x \in DOMAIN run[p].outcome \cup {r} |->
                                   IF x = r THEN status ELSE run[p].outcome[x]]
           /\ run'[p].pc = IF run[p].todo = {} THEN "report" ELSE "pick"
BY DEF Outcome, Continues, RunBase, SoundRuns, Sound, AllFields

Ends(p) ==
    /\ run[p].pc # "idle"
    /\ DOMAIN run' = Proc
    /\ \A q \in Proc \ {p} : run'[q] = run[q]
    /\ run'[p] = Idle
    /\ alone' = alone

LEMMA EndDoes ==
    ASSUME RunBase, NEW p \in Proc, Report(p) \/ Kill(p)
    PROVE  Ends(p) /\ UNCHANGED tables
BY DEF Report, Kill, Ends, RunBase, bookkeeping

\* A row of the revision a run is at, as it should be.
LEMMA FilesRow ==
    ASSUME NEW r, NEW files, NEW path \in DOMAIN files
    PROVE  Row(r, path, files[path]) \in RowsOf(r, files)
BY DEF Row, RowsOf

LEMMA RowOfFiles ==
    ASSUME NEW r, NEW files, NEW row \in RowsOf(r, files)
    PROVE  /\ row.revision = r /\ row.path \in DOMAIN files
           /\ row = Row(r, row.path, files[row.path])
           /\ row = Row(row.revision, row.path, row.blob) /\ row.blob = files[row.path]
BY DEF Row, RowsOf

\* A step of p keeps the runs sound if its own run is.
LEMMA SoundFrame ==
    ASSUME RunBase, NEW p \in Proc, Continues(p), Sound(run'[p])
    PROVE  SoundRuns'
BY DEF RunBase, SoundRuns, Continues

LEMMA SoundStep ==
    ASSUME RunBase, NEW p \in Proc, Step(p) \/ Kill(p)
    PROVE  SoundRuns'
<1>0. ASSUME Continues(p)
      PROVE  Sound(run[p]) /\ AllFields \subseteq DOMAIN run'[p]
  BY <1>0 DEF RunBase, SoundRuns, Sound, Continues
<1>1. CASE Sync(p)
  <2>1. Continues(p) /\ SameFindings(p) /\ run[p].pc = "sync" /\ run'[p].pc = "prune"
    BY <1>1, SyncDoes
  <2>2. Sound(run'[p])
    BY <1>0, <2>1 DEF Sound, Continues, SameFindings, AtWork
  <2> QED BY <2>1, <2>2, SoundFrame
<1>2. CASE Prune(p)
  <2>1. /\ Continues(p) /\ SameFindings(p) /\ run[p].pc = "prune"
        /\ run'[p].pc = IF run[p].todo = {} THEN "report" ELSE "pick"
    BY <1>2, PruneDoes
  <2>2. Sound(run'[p])
    BY <1>0, <2>1 DEF Sound, Continues, SameFindings, AtWork
  <2> QED BY <2>1, <2>2, SoundFrame
<1>3. CASE Pick(p)
  <2>1. Continues(p) /\ run[p].pc = "pick"
    BY <1>3, PickDoes
  <2>2. PICK r \in run[p].todo : Skips(p, r) \/ Takes(p, r)
    BY <1>3, PickDoes
  <2>3. CASE Skips(p, r)
    BY <1>0, <2>1, <2>3, SoundFrame DEF Sound, Continues, Skips, AtWork
  <2>4. CASE Takes(p, r)
    BY <1>0, <2>1, <2>4, SoundFrame DEF Sound, Continues, Takes, AtWork
  <2> QED BY <2>2, <2>3, <2>4
<1>4. ASSUME NEW path \in Path, Reuse(p, path) \/ Store(p, path)
      PROVE  SoundRuns'
  <2> DEFINE files == Files(run[p].plan[run[p].revision])
  <2>1. /\ Continues(p) /\ SameFindings(p) /\ run[p].pc \in AtWork /\ run'[p].pc = "blobs"
        /\ path \in run[p].files /\ run'[p].files = run[p].files \ {path}
        /\ run'[p].revision = run[p].revision
        /\ (run'[p].failed <=> run[p].failed)
        /\ run'[p].rows = run[p].rows \cup {RowAt(p, path)}
    BY <1>4, KeepDoes
  <2>2. RowAt(p, path) = Row(run[p].revision, path, files[path])
    BY DEF RowAt, CurrentFiles
  <2>3. path \in DOMAIN files
    BY <1>0, <2>1 DEF Sound
  <2>4. RowAt(p, path) \in RowsOf(run[p].revision, files)
    BY <2>2, <2>3, FilesRow
  <2>5. Sound(run'[p])
    BY <1>0, <2>1, <2>2, <2>4 DEF Sound, Continues, SameFindings, AtWork
  <2> QED BY <2>1, <2>5, SoundFrame
<1>5. ASSUME NEW path \in Path, StoreFails(p, path)
      PROVE  SoundRuns'
  <2>1. /\ Continues(p) /\ SameFindings(p) /\ run[p].pc = "analyse" /\ run'[p].pc = "blobs"
        /\ run'[p].files = run[p].files \ {path} /\ run'[p].revision = run[p].revision
        /\ run'[p].failed /\ run'[p].rows = run[p].rows
    BY <1>5, StoreFailsDoes
  <2>2. Sound(run'[p])
    BY <1>0, <2>1 DEF Sound, Continues, SameFindings, AtWork
  <2> QED BY <2>1, <2>2, SoundFrame
<1>6. ASSUME NEW path \in Path, Examine(p, path)
      PROVE  SoundRuns'
  <2>1. /\ Continues(p) /\ SameFindings(p) /\ run[p].pc = "blobs" /\ run'[p].pc = "analyse"
        /\ run'[p].files = run[p].files /\ run'[p].revision = run[p].revision
        /\ run'[p].failed = run[p].failed /\ run'[p].rows = run[p].rows
    BY <1>6, ExamineDoes
  <2>2. Sound(run'[p])
    BY <1>0, <2>1 DEF Sound, Continues, SameFindings, AtWork
  <2> QED BY <2>1, <2>2, SoundFrame
<1>7. CASE RevisionFails(p) \/ WritePaths(p)
  <2>1. PICK status : Outcome(p, run[p].revision, status)
    BY <1>7 DEF RevisionFails, WritePaths
  <2>2. run[p].pc = "blobs" /\ alone' = alone
    BY <1>7 DEF RevisionFails, WritePaths, bookkeeping
  <2>3. /\ Continues(p)
        /\ run'[p].todo = run[p].todo
        /\ DOMAIN run'[p].outcome = DOMAIN run[p].outcome \cup {run[p].revision}
        /\ run'[p].pc = IF run[p].todo = {} THEN "report" ELSE "pick"
    BY <2>1, <2>2, OutcomeDoes
  <2>4. Sound(run'[p])
    BY <1>0, <2>2, <2>3 DEF Sound, Continues, AtWork
  <2> QED BY <2>3, <2>4, SoundFrame
<1>8. CASE Report(p) \/ Kill(p)
  BY <1>8, EndDoes DEF Ends, Idle, SoundRuns, RunBase
<1> QED BY <1>1, <1>2, <1>3, <1>4, <1>5, <1>6, <1>7, <1>8 DEF Step

-----------------------------------------------------------------------------
(* What the steps of a run do to the tables when it is alone *)

LEMMA AloneFrame ==
    ASSUME ReportInv, NEW p \in Proc, Continues(p) \/ Ends(p),
           p \in alone /\ Continues(p) => Findings(p)'
    PROVE  AloneRuns'
<1>1. alone' = alone /\ alone \subseteq Proc /\ run[p].pc # "idle"
  BY DEF Continues, Ends, ReportInv, AloneRuns
<1>2. SUFFICES ASSUME NEW q \in alone, run'[q].pc # "idle"
               PROVE  (\A o \in Proc \ {q} : run'[o].pc = "idle") /\ Findings(q)'
  BY <1>1 DEF AloneRuns
<1>3. CASE q = p
  <2>1. Continues(p)
    BY <1>2, <1>3 DEF Ends, Idle
  <2>2. \A o \in Proc \ {p} : run[o].pc = "idle" /\ run'[o] = run[o]
    BY <1>1, <1>2, <1>3, <2>1 DEF ReportInv, AloneRuns, Continues
  <2> QED BY <1>2, <1>3, <2>1, <2>2
<1>4. CASE q # p
  <2>1. run'[q] = run[q] /\ q \in Proc
    BY <1>1, <1>2, <1>4 DEF Continues, Ends
  <2>2. run[p].pc = "idle"
    BY <1>2, <1>4, <2>1 DEF ReportInv, AloneRuns
  <2> QED BY <1>1, <2>2
<1> QED BY <1>3, <1>4

LEMMA FindingsOf ==
    ASSUME ReportInv, NEW p \in Proc, p \in alone, run[p].pc # "idle"
    PROVE  Findings(p) /\ Sound(run[p])
BY DEF ReportInv, AloneRuns, SoundRuns

\* Only more results are there, and none that says "ok".
NothingOk(p) ==
    /\ DOMAIN run[p].outcome \subseteq DOMAIN run'[p].outcome
    /\ \A r \in DOMAIN run[p].outcome : run'[p].outcome[r] = run[p].outcome[r]
    /\ \A r \in DOMAIN run'[p].outcome \ DOMAIN run[p].outcome : run'[p].outcome[r] # "ok"

\* A step that leaves the tables alone.
LEMMA QuietKeeps ==
    ASSUME ReportInv, NEW p \in Proc, p \in alone, UNCHANGED tables, Continues(p),
           run[p].pc \notin {"sync", "prune"}, run'[p].pc \notin {"sync", "prune"},
           Analysed(p)', Lacking(p)', NothingOk(p)
    PROVE  Findings(p)'
<1>1. Findings(p)
  BY FindingsOf DEF Continues
<1>2. /\ UNCHANGED <<catalog, analyses, paths, local>>
      /\ run'[p].plan = run[p].plan /\ run'[p].version = run[p].version
      /\ run'[p].before = run[p].before
  BY DEF tables, Continues
<1>3. IndexSynced(p)' /\ Pruned(p)'
  BY <1>1, <1>2 DEF Findings, IndexSynced, Pruned
<1>4. OkExact(p)'
  BY <1>1, <1>2 DEF Findings, OkExact, NothingOk
<1>5. BeforeSane(p)' /\ Untouched(p)' /\ AnalysesLast(p)'
  BY <1>1, <1>2 DEF Findings, BeforeSane, Untouched, AnalysesLast
<1>6. RowsLast(p)'
  <2>1. ASSUME NEW row \in run[p].before.paths, Spared(p, row)'
        PROVE  Spared(p, row)
    BY <1>2, <2>1 DEF Spared, NothingOk
  <2> QED BY <1>1, <1>2, <2>1 DEF Findings, RowsLast
<1> QED BY <1>3, <1>4, <1>5, <1>6 DEF Findings

LEMMA QuietSteps ==
    ASSUME ReportInv, RunBase, NEW p \in Proc, p \in alone,
           \/ Pick(p) \/ RevisionFails(p)
           \/ \E path \in Path : Reuse(p, path) \/ Examine(p, path) \/ StoreFails(p, path)
    PROVE  Findings(p)'
<1>1. CASE Pick(p)
  <2>1. Continues(p) /\ run[p].pc = "pick" /\ UNCHANGED tables
    BY <1>1, PickDoes
  <2>2. PICK r \in run[p].todo : Skips(p, r) \/ Takes(p, r)
    BY <1>1, PickDoes
  <2>3. r \notin DOMAIN run[p].outcome
    BY <2>1, <2>2, FindingsOf DEF Sound
  <2>4. NothingOk(p)
    BY <2>2, <2>3 DEF Skips, Takes, NothingOk
  <2>5. run'[p].pc \in {"pick", "report"} \/ (run'[p].pc = "blobs" /\ run'[p].rows = {})
    BY <2>2 DEF Skips, Takes
  <2>6. Analysed(p)' /\ Lacking(p)'
    BY <2>5 DEF Analysed, Lacking, AtWork
  <2> QED BY <2>1, <2>4, <2>5, <2>6, QuietKeeps
<1>2. CASE RevisionFails(p)
  <2>1. PICK status : Outcome(p, run[p].revision, status) /\ status # "ok"
    BY <1>2 DEF RevisionFails
  <2>2. run[p].pc = "blobs" /\ UNCHANGED tables /\ alone' = alone
    BY <1>2 DEF RevisionFails, bookkeeping
  <2>3. /\ Continues(p) /\ run'[p].pc \in {"pick", "report"}
        /\ run'[p].outcome = [x \in DOMAIN run[p].outcome \cup {run[p].revision} |->
                                IF x = run[p].revision THEN status ELSE run[p].outcome[x]]
    BY <2>1, <2>2, OutcomeDoes
  <2>4. run[p].revision \notin DOMAIN run[p].outcome
    BY <2>2, FindingsOf DEF Sound, AtWork
  <2>5. NothingOk(p)
    BY <2>1, <2>3, <2>4 DEF NothingOk
  <2>6. Analysed(p)' /\ Lacking(p)'
    BY <2>3 DEF Analysed, Lacking, AtWork
  <2> QED BY <2>2, <2>3, <2>5, <2>6, QuietKeeps
<1>3. ASSUME NEW path \in Path, Reuse(p, path)
      PROVE  Findings(p)'
  <2>1. /\ Continues(p) /\ SameFindings(p) /\ run'[p].pc = "blobs"
        /\ run'[p].rows = run[p].rows \cup {RowAt(p, path)}
    BY <1>3, KeepDoes
  <2>2. Reusable(p, CurrentFiles(p)[path]) /\ UNCHANGED tables /\ run[p].pc = "blobs"
    BY <1>3 DEF Reuse
  <2>3. Analysed(p) /\ RowAt(p, path).blob = CurrentFiles(p)[path]
    BY <2>2, FindingsOf DEF Findings, RowAt, Row
  <2>4. Analysed(p)'
    BY <2>1, <2>2, <2>3 DEF Analysed, Reusable, AtWork, Continues, tables
  <2>5. Lacking(p)' /\ NothingOk(p)
    BY <2>1 DEF Lacking, NothingOk, SameFindings
  <2> QED BY <2>1, <2>2, <2>4, <2>5, QuietKeeps
<1>4. ASSUME NEW path \in Path, Examine(p, path)
      PROVE  Findings(p)'
  <2>1. /\ Continues(p) /\ SameFindings(p) /\ UNCHANGED tables
        /\ run[p].pc = "blobs" /\ run'[p].pc = "analyse"
        /\ NextFile(p, path) /\ ~Reusable(p, CurrentFiles(p)[path])
        /\ run'[p].files = run[p].files /\ run'[p].revision = run[p].revision
        /\ run'[p].rows = run[p].rows
    BY <1>4, ExamineDoes
  <2>2. Analysed(p)
    BY <2>1, FindingsOf DEF Findings
  <2>3. Analysed(p)'
    BY <2>1, <2>2 DEF Analysed, AtWork, Continues, tables
  <2>4. Lacking(p)'
    <3>1. ASSUME NEW x \in Path, NextFile(p, x)'
          PROVE  x = path
      BY <2>1, <3>1 DEF NextFile
    <3>2. ~Reusable(p, CurrentFiles(p)[path])'
      BY <2>1 DEF Reusable, CurrentFiles, Continues, tables
    <3> QED BY <3>1, <3>2 DEF Lacking
  <2>5. NothingOk(p)
    BY <2>1 DEF NothingOk, SameFindings
  <2> QED BY <2>1, <2>3, <2>4, <2>5, QuietKeeps
<1>5. ASSUME NEW path \in Path, StoreFails(p, path)
      PROVE  Findings(p)'
  <2>1. /\ Continues(p) /\ SameFindings(p) /\ UNCHANGED tables
        /\ run[p].pc = "analyse" /\ run'[p].pc = "blobs" /\ run'[p].rows = run[p].rows
    BY <1>5, StoreFailsDoes
  <2>2. Analysed(p)
    BY <2>1, FindingsOf DEF Findings
  <2>3. Analysed(p)' /\ Lacking(p)' /\ NothingOk(p)
    BY <2>1, <2>2 DEF Analysed, AtWork, Continues, tables, Lacking, NothingOk, SameFindings
  <2> QED BY <2>1, <2>3, QuietKeeps
<1> QED BY <1>1, <1>2, <1>3, <1>4, <1>5

\* An analysis that is made anew takes no row of a revision reported as ok,
\* and none whose analysis is still that of the start of the run: the run has
\* seen that the blob has none of its ctags, and nobody has stored one since.
LEMMA StoreKeeps ==
    ASSUME ReportInv, RunBase, NEW p \in Proc, p \in alone, NEW path \in Path, Store(p, path)
    PROVE  Findings(p)'
<1> DEFINE blob == CurrentFiles(p)[path]  v == run[p].version
<1>1. /\ Continues(p) /\ SameFindings(p) /\ run'[p].pc = "blobs"
      /\ run'[p].rows = run[p].rows \cup {RowAt(p, path)}
  BY KeepDoes
<1>2. /\ run[p].pc = "analyse" /\ NextFile(p, path)
      /\ DOMAIN analyses' = DOMAIN analyses \cup {blob}
      /\ analyses'[blob] = v
      /\ \A b \in DOMAIN analyses : b # blob => analyses'[b] = analyses[b]
      /\ paths' = {row \in paths : row.blob # blob}
      /\ catalog' = catalog /\ local' = local
  BY DEF Store
<1>3. Findings(p) /\ Sound(run[p])
  BY <1>2, FindingsOf
<1>4. ~ (blob \in DOMAIN analyses /\ analyses[blob] = v)
  BY <1>2, <1>3 DEF Findings, Lacking, Reusable
<1>5. /\ run'[p].plan = run[p].plan /\ run'[p].version = v /\ run'[p].before = run[p].before
      /\ run'[p].outcome = run[p].outcome
  BY <1>1 DEF Continues, SameFindings
<1>6. RowAt(p, path).blob = blob
  BY DEF RowAt, Row
<1> HIDE DEF blob
<1>7. Analysed(p)'
  <2>1. \A b \in DOMAIN analyses : analyses[b] = v => b # blob /\ analyses'[b] = v
    BY <1>2, <1>4
  <2>2. \A row \in run[p].rows : row.blob \in DOMAIN analyses /\ analyses[row.blob] = v
    BY <1>2, <1>3 DEF Findings, Analysed, AtWork
  <2> QED BY <1>1, <1>2, <1>5, <1>6, <2>1, <2>2 DEF Analysed
<1>8. IndexSynced(p)' /\ Pruned(p)'
  BY <1>1, <1>2, <1>3, <1>5 DEF Findings, IndexSynced, Pruned
<1>9. Lacking(p)' /\ BeforeSane(p)' /\ Untouched(p)'
  BY <1>1, <1>2, <1>3, <1>5 DEF Findings, Lacking, BeforeSane, Untouched
<1>10. OkExact(p)'
  <2>1. SUFFICES ASSUME NEW r \in DOMAIN run[p].outcome, run[p].outcome[r] = "ok"
                 PROVE  /\ {row \in paths' : row.revision = r} = RowsOf(r, Files(run[p].plan[r]))
                        /\ \A x \in DOMAIN Files(run[p].plan[r]) :
                             /\ Files(run[p].plan[r])[x] \in DOMAIN analyses'
                             /\ analyses'[Files(run[p].plan[r])[x]] = v
    BY <1>5 DEF OkExact
  <2> DEFINE files == Files(run[p].plan[r])
  <2>2. /\ {row \in paths : row.revision = r} = RowsOf(r, files)
        /\ \A x \in DOMAIN files : files[x] \in DOMAIN analyses /\ analyses[files[x]] = v
    BY <1>3, <2>1 DEF Findings, OkExact
  <2> HIDE DEF files
  <2>3. \A x \in DOMAIN files : files[x] # blob
    BY <1>4, <2>2
  <2>4. \A row \in RowsOf(r, files) : row.blob # blob
    BY <2>3, RowOfFiles
  <2>5. {row \in paths' : row.revision = r} = RowsOf(r, files)
    BY <1>2, <2>2, <2>4
  <2>6. \A x \in DOMAIN files : files[x] \in DOMAIN analyses' /\ analyses'[files[x]] = v
    BY <1>2, <2>2, <2>3
  <2> QED BY <2>5, <2>6 DEF files
<1>11. AnalysesLast(p)'
  BY <1>2, <1>3, <1>5 DEF Findings, AnalysesLast
<1>12. RowsLast(p)'
  <2> DEFINE before == run[p].before
  <2>1. SUFFICES ASSUME NEW row \in before.paths, Spared(p, row)'
                 PROVE  row \in paths'
    BY <1>5 DEF RowsLast
  <2>2. DOMAIN run[p].plan # {}
    BY <1>2, <1>3 DEF Sound, AtWork
  <2>3. /\ row.blob \in DOMAIN analyses
        /\ (before.analyses[row.blob] = v => analyses[row.blob] = v)
    BY <1>3, <2>1, <2>2 DEF Findings, BeforeSane, AnalysesLast
  <2>4. analyses'[row.blob] = before.analyses[row.blob]
    BY <1>2, <1>5, <2>1, <2>3 DEF Spared
  <2>5. row.blob # blob
    BY <1>2, <1>4, <2>3, <2>4
  <2>6. analyses[row.blob] = before.analyses[row.blob]
    BY <1>2, <2>3, <2>4, <2>5
  <2>7. Spared(p, row)
    BY <1>2, <1>5, <2>1, <2>6 DEF Spared
  <2>8. row \in paths
    BY <1>3, <2>1, <2>7 DEF Findings, RowsLast
  <2> QED BY <1>2, <2>5, <2>8
<1> QED BY <1>7, <1>8, <1>9, <1>10, <1>11, <1>12 DEF Findings

\* Synchronising takes the rows of no revision whose pin is the one planned.
LEMMA SyncKeeps ==
    ASSUME ReportInv, RunBase, NEW p \in Proc, p \in alone, Sync(p)
    PROVE  Findings(p)'
<1> DEFINE plan == run[p].plan  before == run[p].before
<1>1. Continues(p) /\ SameFindings(p) /\ run[p].pc = "sync" /\ run'[p].pc = "prune"
  BY SyncDoes
<1>2. Findings(p) /\ Sound(run[p])
  BY <1>1, FindingsOf
<1>3. /\ run'[p].plan = plan /\ run'[p].version = run[p].version /\ run'[p].before = before
      /\ DOMAIN run'[p].outcome = {} /\ local' = local
  BY <1>1, <1>2 DEF Continues, SameFindings, Sound, Sync, tables
<1>4. Analysed(p)' /\ Lacking(p)' /\ Pruned(p)' /\ OkExact(p)' /\ Untouched(p)'
  BY <1>1, <1>3 DEF Analysed, Lacking, Pruned, OkExact, Untouched, AtWork
<1>5. BeforeSane(p)'
  BY <1>2, <1>3 DEF Findings, BeforeSane
<1>6. /\ paths = before.paths /\ analyses = before.analyses
      /\ \A r \in DOMAIN before.catalog : r \in DOMAIN catalog /\ catalog[r] = before.catalog[r]
      /\ \A row \in paths : row.revision \in DOMAIN before.catalog
  BY <1>1, <1>2 DEF Findings, Untouched, BeforeSane
<1>7. CASE DOMAIN plan = {}
  <2>1. IndexSynced(p)' /\ AnalysesLast(p)'
    BY <1>3, <1>7 DEF IndexSynced, AnalysesLast
  <2>2. paths' = paths \/ DOMAIN catalog' = {}
    BY <1>7 DEF Sync, tables
  <2>3. RowsLast(p)'
    BY <1>3, <1>6, <2>2 DEF RowsLast, Spared
  <2> QED BY <1>4, <1>5, <2>1, <2>3 DEF Findings
<1>8. CASE DOMAIN plan # {}
  <2> DEFINE gone == Vanished(plan) \cup Repinned(plan)
  <2>1. /\ DOMAIN catalog' = DOMAIN plan \cup (DOMAIN catalog \ gone)
        /\ \A r \in DOMAIN plan :
             catalog'[r].commit = plan[r].commit /\ catalog'[r].index = plan[r].index
        /\ paths' = {row \in paths : row.revision \notin gone}
        /\ analyses' = analyses
    BY <1>8 DEF Sync
  <2>2. \A r \in gone : /\ r \in DOMAIN catalog
                        /\ r \in DOMAIN plan => catalog[r].commit # plan[r].commit
    BY DEF Vanished, Repinned
  <2> HIDE DEF gone
  <2>3. IndexSynced(p)' /\ AnalysesLast(p)'
    BY <1>3, <1>6, <2>1 DEF IndexSynced, AnalysesLast
  <2>4. RowsLast(p)'
    <3>1. SUFFICES ASSUME NEW row \in before.paths, Spared(p, row)'
                   PROVE  row \in paths'
      BY <1>3 DEF RowsLast
    <3>2. /\ row.revision \in DOMAIN catalog'
          /\ catalog'[row.revision].commit = before.catalog[row.revision].commit
      BY <1>3, <3>1 DEF Spared
    <3>3. row.revision \notin gone
      BY <1>6, <2>1, <2>2, <3>1, <3>2
    <3> QED BY <1>6, <2>1, <3>1, <3>3
  <2> QED BY <1>4, <1>5, <2>3, <2>4 DEF Findings
<1> QED BY <1>7, <1>8

\* Pruning takes the rows of no revision that is indexed.
LEMMA PruneKeeps ==
    ASSUME ReportInv, RunBase, NEW p \in Proc, p \in alone, Prune(p)
    PROVE  Findings(p)'
<1>1. /\ Continues(p) /\ SameFindings(p) /\ run[p].pc = "prune"
      /\ run'[p].pc \in {"report", "pick"}
  BY PruneDoes
<1>2. Findings(p) /\ Sound(run[p])
  BY <1>1, FindingsOf
<1>3. /\ paths' = {row \in paths : row.revision \in DOMAIN catalog /\ catalog[row.revision].index}
      /\ catalog' = catalog /\ analyses' = analyses /\ local' = local
      /\ run'[p].plan = run[p].plan /\ run'[p].version = run[p].version
      /\ run'[p].before = run[p].before /\ run'[p].outcome = run[p].outcome
      /\ DOMAIN run[p].outcome = {}
  BY <1>1, <1>2 DEF Prune, Continues, SameFindings, Sound
<1>4. Analysed(p)' /\ Lacking(p)' /\ Untouched(p)' /\ OkExact(p)'
  BY <1>1, <1>3 DEF Analysed, Lacking, Untouched, OkExact, AtWork
<1>5. IndexSynced(p)' /\ Pruned(p)'
  BY <1>1, <1>2, <1>3 DEF Findings, IndexSynced, Pruned
<1>6. BeforeSane(p)' /\ AnalysesLast(p)'
  BY <1>2, <1>3 DEF Findings, BeforeSane, AnalysesLast
<1>7. RowsLast(p)'
  <2>1. ASSUME NEW row \in run[p].before.paths, Spared(p, row)'
        PROVE  row \in paths'
    <3>1. Spared(p, row) /\ row.revision \in DOMAIN catalog /\ catalog[row.revision].index
      BY <1>3, <2>1 DEF Spared
    <3>2. row \in paths
      BY <1>2, <2>1, <3>1 DEF Findings, RowsLast
    <3> QED BY <1>3, <3>1, <3>2
  <2> QED BY <1>3, <2>1 DEF RowsLast
<1> QED BY <1>4, <1>5, <1>6, <1>7 DEF Findings

\* What the transaction of the paths of a revision writes.
Writes(p, r, files) ==
    /\ run[p].pc = "blobs" /\ run'[p].pc \in {"pick", "report"}
    /\ r \in DOMAIN run[p].plan /\ run[p].plan[r].index
    /\ r \notin DOMAIN run[p].outcome
    /\ catalog' = catalog /\ analyses' = analyses /\ local' = local
    /\ run[p].rows \subseteq RowsOf(r, files)
    /\ \A row \in run[p].rows : row.revision \in DOMAIN catalog /\ row.blob \in DOMAIN analyses
    /\ paths' \subseteq paths \cup run[p].rows
    /\ \A row \in paths : row.revision # r => row \in paths'
    /\ run[p].failed => \A row \in RowsOf(r, files) \cap paths : row \in paths'
    /\ ~run[p].failed => /\ run[p].rows = RowsOf(r, files)
                         /\ {row \in paths' : row.revision = r} = run[p].rows

Results(p, r, status) ==
    /\ status = "ok" <=> ~run[p].failed
    /\ run'[p].outcome = [x \in DOMAIN run[p].outcome \cup {r} |->
                            IF x = r THEN status ELSE run[p].outcome[x]]

LEMMA WriteDoes ==
    ASSUME RunBase, NEW p \in Proc, WritePaths(p),
           NEW r, r = run[p].revision, NEW files, files = Files(run[p].plan[r])
    PROVE  Continues(p) /\ Writes(p, r, files) /\ \E status : Results(p, r, status)
<1> DEFINE rows == run[p].rows  seen == {row.path : row \in rows}
<1>1. /\ run[p].pc = "blobs" /\ run[p].files = {} /\ Insertable(p)
      /\ paths' = {row \in paths : row.revision = r =>
                         row.path \notin seen /\ ~RemovesUnseen(p)} \cup rows
      /\ catalog' = catalog /\ analyses' = analyses /\ local' = local /\ alone' = alone
  BY DEF WritePaths, bookkeeping
<1>2. PICK status : /\ (status = "ok" <=> ~run[p].failed)
                    /\ Outcome(p, r, status)
  BY DEF WritePaths
<1>3. /\ Continues(p) /\ run'[p].pc \in {"pick", "report"}
      /\ run'[p].outcome = [x \in DOMAIN run[p].outcome \cup {r} |->
                              IF x = r THEN status ELSE run[p].outcome[x]]
  BY <1>1, <1>2, OutcomeDoes
<1>4. /\ r \in DOMAIN run[p].plan /\ run[p].plan[r].index /\ r \notin DOMAIN run[p].outcome
      /\ rows \subseteq RowsOf(r, files)
      /\ ~run[p].failed => \A path \in DOMAIN files : Row(r, path, files[path]) \in rows
  BY <1>1 DEF RunBase, SoundRuns, Sound, AtWork
<1>5. \A row \in RowsOf(r, files) : row.revision = r /\ row.path \in DOMAIN files
                                    /\ row = Row(r, row.path, files[row.path])
  BY RowOfFiles
<1>6. \A row \in rows : /\ row.revision = r /\ row.revision \in DOMAIN catalog
                        /\ row.blob \in DOMAIN analyses
  BY <1>1, <1>4, <1>5 DEF Insertable
<1>7. ~run[p].failed => rows = RowsOf(r, files)
  BY <1>4, <1>5
<1>8. ASSUME run[p].failed, NEW row \in RowsOf(r, files) \cap paths
      PROVE  row \in paths'
  <2>1. CASE row.path \notin seen
    BY <1>1, <1>8, <2>1 DEF RemovesUnseen
  <2>2. CASE row.path \in seen
    <3>1. PICK other \in rows : other.path = row.path
      BY <2>2
    <3>2. other = row
      BY <1>4, <1>5, <1>8, <3>1
    <3> QED BY <1>1, <3>2
  <2> QED BY <2>1, <2>2
<1>9. ~run[p].failed => {row \in paths' : row.revision = r} = rows
  BY <1>1, <1>6 DEF RemovesUnseen
<1>10. \A row \in paths : row.revision # r => row \in paths'
  BY <1>1
<1> HIDE DEF rows, seen
<1>11. paths' \subseteq paths \cup rows
  BY <1>1
<1>12. Writes(p, r, files)
  BY <1>1, <1>3, <1>4, <1>6, <1>7, <1>8, <1>9, <1>10, <1>11 DEF rows, Writes
<1>13. Results(p, r, status)
  BY <1>2, <1>3 DEF Results
<1> QED BY <1>3, <1>12, <1>13

LEMMA WriteKeeps ==
    ASSUME ReportInv, RunBase, NEW p \in Proc, p \in alone, WritePaths(p)
    PROVE  Findings(p)'
<1>1. PICK r, files : r = run[p].revision /\ files = Files(run[p].plan[r])
  OBVIOUS
<1> DEFINE plan == run[p].plan  rows == run[p].rows
<1>2. Continues(p) /\ Writes(p, r, files)
  BY <1>1, WriteDoes
<1>3. PICK status : Results(p, r, status)
  BY <1>1, WriteDoes
<1>4. Findings(p)
  BY <1>2, FindingsOf DEF Writes
<1>5. /\ run'[p].plan = plan /\ run'[p].version = run[p].version
      /\ run'[p].before = run[p].before
  BY <1>2 DEF Continues
<1>6. Analysed(p)' /\ Lacking(p)' /\ Untouched(p)'
  BY <1>2 DEF Writes, Analysed, Lacking, Untouched, AtWork
<1>7. IndexSynced(p)' /\ BeforeSane(p)' /\ AnalysesLast(p)'
  BY <1>2, <1>4, <1>5 DEF Writes, Findings, IndexSynced, BeforeSane, AnalysesLast
<1>8. Pruned(p)'
  <2>1. catalog[r].index
    BY <1>2, <1>4 DEF Writes, Findings, IndexSynced
  <2>2. \A row \in paths : catalog[row.revision].index
    BY <1>2, <1>4 DEF Writes, Findings, Pruned
  <2>3. \A row \in rows : row.revision = r
    BY <1>2, RowOfFiles DEF Writes
  <2> QED BY <1>2, <2>1, <2>2, <2>3 DEF Writes, Pruned
<1>9. OkExact(p)'
  <2>1. SUFFICES ASSUME NEW x \in DOMAIN run'[p].outcome, run'[p].outcome[x] = "ok"
                 PROVE  /\ {row \in paths' : row.revision = x} = RowsOf(x, Files(plan[x]))
                        /\ \A path \in DOMAIN Files(plan[x]) :
                             /\ Files(plan[x])[path] \in DOMAIN analyses'
                             /\ analyses'[Files(plan[x])[path]] = run[p].version
    BY <1>5 DEF OkExact
  <2>2. CASE x # r
    <3>1. x \in DOMAIN run[p].outcome /\ run[p].outcome[x] = "ok"
      BY <1>3, <2>1, <2>2 DEF Results
    <3>2. /\ {row \in paths : row.revision = x} = RowsOf(x, Files(plan[x]))
          /\ \A path \in DOMAIN Files(plan[x]) :
               /\ Files(plan[x])[path] \in DOMAIN analyses
               /\ analyses[Files(plan[x])[path]] = run[p].version
      BY <1>4, <3>1 DEF Findings, OkExact
    <3>3. \A row \in rows : row.revision = r
      BY <1>2, RowOfFiles DEF Writes
    <3>4. {row \in paths' : row.revision = x} = {row \in paths : row.revision = x}
      BY <1>2, <2>2, <3>3 DEF Writes
    <3> QED BY <1>2, <3>2, <3>4 DEF Writes
  <2>3. CASE x = r
    <3>1. ~run[p].failed
      BY <1>3, <2>1, <2>3 DEF Results
    <3>2. rows = RowsOf(r, files) /\ {row \in paths' : row.revision = r} = rows
      BY <1>2, <3>1 DEF Writes
    <3>3. ASSUME NEW path \in DOMAIN files
          PROVE  files[path] \in DOMAIN analyses /\ analyses[files[path]] = run[p].version
      <4>1. Row(r, path, files[path]) \in rows
        BY <3>2, FilesRow
      <4>2. Row(r, path, files[path]).blob = files[path]
        BY DEF Row
      <4>3. Analysed(p) /\ run[p].pc \in AtWork
        BY <1>2, <1>4 DEF Writes, Findings, AtWork
      <4> QED BY <4>1, <4>2, <4>3 DEF Analysed
    <3> QED BY <1>1, <1>2, <2>3, <3>2, <3>3 DEF Writes
  <2> QED BY <2>2, <2>3
<1>10. RowsLast(p)'
  <2>1. SUFFICES ASSUME NEW row \in run[p].before.paths, Spared(p, row)'
                 PROVE  row \in paths'
    BY <1>5 DEF RowsLast
  <2>2. Spared(p, row)
    BY <1>2, <1>3, <1>5, <2>1 DEF Writes, Results, Spared
  <2>3. row \in paths
    BY <1>4, <2>1, <2>2 DEF Findings, RowsLast
  <2>4. CASE row.revision # r
    BY <1>2, <2>3, <2>4 DEF Writes
  <2>5. CASE row.revision = r
    <3>1. run'[p].outcome[r] # "ok" /\ row \in RowsOf(r, files)
      BY <1>1, <1>3, <1>5, <2>1, <2>5 DEF Results, Spared
    <3>2. run[p].failed
      BY <1>3, <3>1 DEF Results
    <3> QED BY <1>2, <2>3, <3>1, <3>2 DEF Writes
  <2> QED BY <2>4, <2>5
<1> QED BY <1>6, <1>7, <1>8, <1>9, <1>10 DEF Findings

\* The steps of any run, alone or not, keep the references.
LEMMA StepKeepsReferences ==
    ASSUME ReportInv, RunBase, NEW p \in Proc, Step(p) \/ Kill(p)
    PROVE  Registered' /\ Referenced'
<1>1. ASSUME Continues(p) \/ Ends(p)
      PROVE  \A q \in Proc : run'[q].pc # "idle" => DOMAIN run'[q].plan \cap Local \subseteq local
  BY <1>1 DEF ReportInv, Registered, Continues, Ends, Idle
<1>2. CASE Sync(p)
  <2> DEFINE plan == run[p].plan  gone == Vanished(plan) \cup Repinned(plan)
  <2>1. Continues(p) /\ run[p].pc = "sync" /\ local' = local
    BY <1>2, SyncDoes DEF Sync, tables
  <2>2. CASE DOMAIN plan = {}
    <3>1. UNCHANGED tables \/ (DOMAIN catalog' = {} /\ paths' = {})
      BY <1>2, <2>2 DEF Sync
    <3> QED BY <1>1, <2>1, <3>1 DEF ReportInv, Registered, Referenced, tables
  <2>3. CASE DOMAIN plan # {}
    <3>1. /\ DOMAIN catalog' = DOMAIN plan \cup (DOMAIN catalog \ gone)
          /\ paths' = {row \in paths : row.revision \notin gone}
          /\ analyses' = analyses
      BY <1>2, <2>3 DEF Sync
    <3>2. DOMAIN plan \cap Local \subseteq local
      BY <2>1 DEF ReportInv, Registered
    <3> HIDE DEF gone, plan
    <3>3. Registered'
      BY <1>1, <2>1, <3>1, <3>2 DEF ReportInv, Registered
    <3>4. Referenced'
      BY <3>1 DEF ReportInv, Referenced
    <3> QED BY <3>3, <3>4
  <2> QED BY <2>2, <2>3
<1>3. CASE WritePaths(p)
  <2>1. PICK r, files : r = run[p].revision /\ files = Files(run[p].plan[r])
    OBVIOUS
  <2>2. Continues(p) /\ Writes(p, r, files)
    BY <1>3, <2>1, WriteDoes
  <2>3. Registered'
    BY <1>1, <2>2 DEF Writes, ReportInv, Registered
  <2>4. \A row \in run[p].rows : row = Row(row.revision, row.path, row.blob)
    BY <2>2, RowOfFiles DEF Writes
  <2>5. Referenced'
    BY <2>2, <2>4 DEF Writes, ReportInv, Referenced
  <2> QED BY <2>3, <2>5
<1>4. ASSUME NEW path \in Path, Store(p, path)
      PROVE  Registered' /\ Referenced'
  <2>1. Continues(p)
    BY <1>4, KeepDoes
  <2>2. /\ DOMAIN analyses \subseteq DOMAIN analyses' /\ paths' \subseteq paths
        /\ catalog' = catalog /\ local' = local
    BY <1>4 DEF Store
  <2>3. Registered'
    BY <1>1, <2>1, <2>2 DEF ReportInv, Registered
  <2>4. Referenced'
    BY <2>2 DEF ReportInv, Referenced
  <2> QED BY <2>3, <2>4
<1>5. CASE Prune(p)
  <2>1. Continues(p)
    BY <1>5, PruneDoes
  <2>2. paths' \subseteq paths /\ UNCHANGED <<catalog, local, analyses>>
    BY <1>5 DEF Prune
  <2> QED BY <1>1, <2>1, <2>2 DEF ReportInv, Registered, Referenced
<1>6. ASSUME Continues(p) \/ Ends(p), UNCHANGED tables
      PROVE  Registered' /\ Referenced'
  BY <1>1, <1>6 DEF ReportInv, Registered, Referenced, tables
<1>7. CASE Pick(p) \/ Report(p) \/ Kill(p)
  BY <1>6, <1>7, PickDoes, EndDoes
<1>8. CASE RevisionFails(p)
  BY <1>6, <1>8, OutcomeDoes DEF RevisionFails, bookkeeping
<1>9. ASSUME NEW path \in Path, Reuse(p, path) \/ Examine(p, path) \/ StoreFails(p, path)
      PROVE  Registered' /\ Referenced'
  BY <1>6, <1>9, KeepDoes, ExamineDoes, StoreFailsDoes DEF Reuse
<1> QED BY <1>2, <1>3, <1>4, <1>5, <1>7, <1>8, <1>9 DEF Step

LEMMA StepKeepsAlone ==
    ASSUME ReportInv, RunBase, NEW p \in Proc, Step(p) \/ Kill(p)
    PROVE  AloneRuns'
<1>1. CASE Report(p) \/ Kill(p)
  BY <1>1, EndDoes, AloneFrame DEF Ends, Continues, Idle
<1>2. CASE Step(p) /\ ~Report(p)
  <2>1. Continues(p)
    <3>1. ASSUME NEW r, NEW status, run[p].pc = "blobs", Outcome(p, r, status), alone' = alone
          PROVE  Continues(p)
      BY <3>1, OutcomeDoes
    <3>2. CASE RevisionFails(p) \/ WritePaths(p)
      BY <3>1, <3>2 DEF RevisionFails, WritePaths, bookkeeping
    <3> QED BY <1>2, <3>2, SyncDoes, PruneDoes, PickDoes, KeepDoes, ExamineDoes, StoreFailsDoes
            DEF Step
  <2>2. p \in alone => Findings(p)'
    BY <1>2, SyncKeeps, PruneKeeps, WriteKeeps, StoreKeeps, QuietSteps DEF Step
  <2> QED BY <2>1, <2>2, AloneFrame
<1> QED BY <1>1, <1>2

LEMMA StartReports ==
    ASSUME ReportInv, NEW p \in Proc, NEW m \in Manifests, NEW merged \in {{}, local},
           NEW wanted \in Selections, NEW v \in Version,
           Start(p, m, merged, wanted, v)
    PROVE  Registered' /\ SoundRuns' /\ Referenced' /\ AloneRuns'
<1> DEFINE plan == PlanOf(m, merged)
<1>1. DOMAIN run = Proc
  BY DEF ReportInv, LocalInv, PlansTrueToLocals
<1>2. /\ \A q \in Proc \ {p} : run'[q] = run[q]
      /\ AllFields \subseteq DOMAIN run'[p]
      /\ run'[p].pc = "sync" /\ run'[p].plan = plan /\ run'[p].version = v
      /\ run'[p].todo = {r \in wanted \cap DOMAIN plan : plan[r].index}
      /\ run'[p].outcome = <<>>
      /\ run'[p].before = [paths |-> paths, catalog |-> catalog, analyses |-> analyses]
      /\ run[p].pc = "idle"
  BY <1>1 DEF Start, AllFields
<1>3. UNCHANGED <<catalog, analyses, paths, local>>
  BY DEF Start, tables
<1>4. DOMAIN run'[p].outcome = {}
  BY <1>2
<1>5. DOMAIN plan \cap Local \subseteq local
  BY PlanDomain
<1> HIDE DEF plan
<1>6. Registered' /\ Referenced'
  BY <1>2, <1>3, <1>5 DEF ReportInv, Registered, Referenced
<1>7. SoundRuns'
  <2>1. Sound(run'[p])
    BY <1>2, <1>4 DEF Sound, AtWork
  <2> QED BY <1>2, <2>1 DEF ReportInv, SoundRuns
<1>8. AloneRuns'
  <2>1. CASE \A q \in Proc : run[q].pc = "idle"
    <3>1. alone' = {p}
      BY <2>1 DEF Start
    <3>2. /\ run'[p].before.paths = paths /\ run'[p].before.catalog = catalog
          /\ run'[p].before.analyses = analyses
      BY <1>2
    <3>3. Analysed(p)' /\ Lacking(p)' /\ IndexSynced(p)' /\ Pruned(p)' /\ OkExact(p)'
      BY <1>2, <1>4 DEF Analysed, Lacking, IndexSynced, Pruned, OkExact, AtWork
    <3>4. BeforeSane(p)'
      BY <1>3, <3>2 DEF ReportInv, Registered, Referenced, BeforeSane
    <3>5. Untouched(p)' /\ AnalysesLast(p)' /\ RowsLast(p)'
      BY <1>3, <3>2 DEF Untouched, AnalysesLast, RowsLast
    <3>6. Findings(p)'
      BY <3>3, <3>4, <3>5 DEF Findings
    <3> QED BY <1>2, <2>1, <3>1, <3>6 DEF AloneRuns
  <2>2. CASE ~ \A q \in Proc : run[q].pc = "idle"
    <3>1. alone' = {}
      BY <2>2 DEF Start
    <3> QED BY <3>1 DEF AloneRuns
  <2> QED BY <2>1, <2>2
<1> QED BY <1>6, <1>7, <1>8

\* What others do only adds local revisions to the catalogue.
LEMMA OthersReport ==
    ASSUME ReportInv, UNCHANGED <<paths, analyses, run, alone>>,
           local \subseteq local', DOMAIN catalog' \cap Local \subseteq local',
           \A r \in DOMAIN catalog : r \in DOMAIN catalog' /\ catalog'[r] = catalog[r],
           \A r \in DOMAIN catalog' \ DOMAIN catalog : r \in Local \ local
    PROVE  Registered' /\ SoundRuns' /\ Referenced' /\ AloneRuns'
<1>1. Registered' /\ SoundRuns' /\ Referenced'
  BY DEF ReportInv, Registered, SoundRuns, Referenced
<1>2. ASSUME NEW q \in alone, run[q].pc # "idle", Findings(q)
      PROVE  Findings(q)'
  <2>1. Analysed(q)' /\ Lacking(q)' /\ IndexSynced(q)' /\ OkExact(q)'
    BY <1>2 DEF Findings, Analysed, Lacking, NextFile, Reusable, CurrentFiles, IndexSynced,
                OkExact
  <2>2. Pruned(q)'
    BY <1>2 DEF Findings, Pruned, ReportInv, Referenced
  <2>3. BeforeSane(q)' /\ Untouched(q)' /\ AnalysesLast(q)'
    BY <1>2 DEF Findings, BeforeSane, Untouched, AnalysesLast
  <2>4. RowsLast(q)'
    <3>1. SUFFICES ASSUME NEW row \in run[q].before.paths, Spared(q, row)'
                   PROVE  row \in paths
      BY DEF RowsLast
    <3>2. row.revision \in DOMAIN run[q].before.catalog
      BY <1>2, <3>1 DEF Findings, BeforeSane
    <3>3. row.revision \in DOMAIN catalog
      BY <1>2, <3>1, <3>2 DEF Findings, BeforeSane, Spared
    <3>4. Spared(q, row)
      BY <3>1, <3>3 DEF Spared
    <3> QED BY <1>2, <3>1, <3>4 DEF Findings, RowsLast
  <2> QED BY <2>1, <2>2, <2>3, <2>4 DEF Findings
<1>3. AloneRuns'
  BY <1>2 DEF ReportInv, AloneRuns
<1> QED BY <1>1, <1>3

LEMMA ReportInvStep ==
    ASSUME ReportInv, [Next]_vars
    PROVE  ReportInv'
<1>0. LocalInv' /\ RunBase
  BY LocalInvStep DEF ReportInv, RunBase, LocalInv, PlansTrueToLocals
<1>1. CASE UNCHANGED vars
  <2>1. UNCHANGED <<paths, analyses, run, alone, local, catalog>>
    BY <1>1 DEF vars, tables, bookkeeping
  <2> QED BY <1>0, <2>1, OthersReport DEF ReportInv, Registered
<1>2. ASSUME NEW p \in Proc, NEW m \in Manifests, NEW merged \in {{}, local},
             NEW wanted \in Selections, NEW v \in Version,
             Start(p, m, merged, wanted, v)
      PROVE  ReportInv'
  BY <1>0, <1>2, StartReports DEF ReportInv
<1>3. ASSUME NEW p \in Proc, Step(p) \/ Kill(p)
      PROVE  ReportInv'
  BY <1>0, <1>3, SoundStep, StepKeepsReferences, StepKeepsAlone DEF ReportInv
<1>4. ASSUME NEW c \in Commit, Populate(c)
      PROVE  ReportInv'
  <2>1. UNCHANGED <<paths, analyses, run, alone, local, catalog>>
    BY <1>4 DEF Populate, tables, bookkeeping
  <2> QED BY <1>0, <2>1, OthersReport DEF ReportInv, Registered
<1>5. ASSUME NEW r \in Local, RegisterLocal(r)
      PROVE  ReportInv'
  <2>1. UNCHANGED <<paths, analyses, run, alone>> /\ r \notin local /\ local' = local \cup {r}
    BY <1>5 DEF RegisterLocal, bookkeeping
  <2>2. r \notin DOMAIN catalog
    BY <2>1 DEF ReportInv, Registered
  <2>3. /\ DOMAIN catalog' = DOMAIN catalog \cup {r}
        /\ \A x \in DOMAIN catalog : catalog'[x] = catalog[x]
    BY <1>5, <2>2 DEF RegisterLocal
  <2>4. DOMAIN catalog' \cap Local \subseteq local'
    BY <2>1, <2>3 DEF ReportInv, Registered
  <2> QED BY <1>0, <2>1, <2>2, <2>3, <2>4, OthersReport DEF ReportInv
<1> QED BY <1>1, <1>2, <1>3, <1>4, <1>5 DEF Next

LEMMA ReportInvHolds == Spec => []ReportInv
<1>1. Init => LocalInv
  BY DEF Init, Idle, LocalInv, PlansTrueToLocals, Fields, LocalKept
<1>2. Init => Registered /\ SoundRuns /\ Referenced /\ AloneRuns
  BY DEF Init, Idle, Registered, SoundRuns, Referenced, AloneRuns
<1>3. Init => ReportInv
  BY <1>1, <1>2 DEF ReportInv
<1>4. ReportInv /\ [Next]_vars => ReportInv'
  BY ReportInvStep
<1> QED BY <1>3, <1>4, PTL DEF Spec

\* A revision reported as "ok" by a run that had no other beside it has at its
\* end exactly the rows an index from scratch would give it, each analysed by
\* this ctags, whatever runs came before and wherever they were killed,
\* although analyses are reused and other revisions of the run replace
\* analyses; and what is not to be indexed has no rows (index_repositories,
\* store_blob_analysis, synchronize_catalog).
THEOREM OkMeansRebuilt == Spec => []OkIsRebuilt
<1>1. ReportInv => OkIsRebuilt
  <2>1. SUFFICES ASSUME ReportInv, NEW p \in alone, run[p].pc = "report"
                 PROVE  Rebuilt(p)
    BY DEF OkIsRebuilt
  <2>2. OkExact(p) /\ Pruned(p)
    BY <2>1, FindingsOf DEF Findings, ReportInv, AloneRuns
  <2> QED BY <2>1, <2>2 DEF OkExact, Pruned, Rebuilt, Range
<1> QED BY <1>1, ReportInvHolds, PTL

\* Such a run loses no row of a revision it was not asked for, skipped or
\* could not index, as long as the revision keeps its commit, is still to be
\* indexed and, if the run went through it, has the row in its filtered tree,
\* unless the blob was analysed anew for another ctags (index_repositories,
\* store_blob_analysis, synchronize_catalog).
THEOREM RestStays == Spec => []RestKept
<1>1. ReportInv => RestKept
  <2>1. SUFFICES ASSUME ReportInv, NEW p \in alone, run[p].pc = "report",
                        NEW row \in run[p].before.paths, Spared(p, row)
                 PROVE  row \in paths
    BY DEF RestKept, Spared
  <2>2. RowsLast(p)
    BY <2>1, FindingsOf DEF Findings, ReportInv, AloneRuns
  <2> QED BY <2>1, <2>2 DEF RowsLast
<1> QED BY <1>1, ReportInvHolds, PTL
=============================================================================
