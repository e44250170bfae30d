---------------------- MODULE WorkspaceLifecycleProofs ----------------------
(***************************************************************************)
(* Proofs about WorkspaceLifecycle, for any number of opens, kills,        *)
(* raising steps and acts of humans.                                       *)
(***************************************************************************)
EXTENDS WorkspaceLifecycle, TLAPS

Opening == pc \in OpenLabels \cup CleanupLabels
Closing == pc \in CloseLabels

\* Nothing is created: rows stay, and what exists in the repository can only
\* disappear, or give way to a directory of a human.
Fading ==
    /\ row' = row /\ issued' = issued
    /\ imported' \subseteq imported /\ notes' \subseteq notes
    /\ tree' \in {tree, None, Foreign, Registered}
    /\ branch' \in {branch, None}
    /\ crashes' = 0 => crashes = 0

-----------------------------------------------------------------------------

\* What holds throughout an open and its clean-up.
LEMMA OpenFacts ==
    ASSUME LifecycleInv, Opening
    PROVE  /\ job.ws \in Id /\ job.ws \in 1 .. issued
           /\ journal = None
           /\ row[job.ws] \in {None, "opening"}
           /\ \A w \in Id : Live(w) => w = job.ws
           /\ \A w \in Id : row[w] # "ready"
<1>1. /\ job.ws \in Id /\ job.ws \in 1 .. issued
      /\ journal = None
      /\ row[job.ws] \in {None, "opening"}
      /\ \A w \in Id : Live(w) => w = job.ws
  BY DEF LifecycleInv, OpenProgress, Opening
<1>2. \A w \in Id : row[w] # "ready"
  BY <1>1, NullAssumption DEF Live
<1>3. QED
  BY <1>1, <1>2

\* What holds throughout a close.
LEMMA CloseFacts ==
    ASSUME LifecycleInv, Closing
    PROVE  /\ job.ws \in Id /\ Live(job.ws)
           /\ pc \in {"detach", "saveclose"} => journal = None
           /\ pc \notin {"detach", "saveclose"} =>
                 /\ journal \in Close /\ journal # None
                 /\ journal.ws = job.ws /\ journal.force = job.force
BY NullAssumption DEF LifecycleInv, CloseProgress, Closing

\* What a fading step preserves, and what it cannot make appear.
LEMMA FadingKeeps ==
    ASSUME LifecycleInv, Fading
    PROVE  /\ FreshIds' /\ OneRow' /\ ClosedLeavesNothing'
           /\ \A w \in Id : Traces(w)' => Traces(w)
           /\ \A w \in Id : Live(w)' = Live(w)
           /\ \A w \in Id : Gone(w) => Gone(w)'
<1>1. \A w \in Id : Gone(w) => Gone(w)'
  BY NullAssumption DEF Fading, Gone
<1>2. \A w \in Id : Live(w)' = Live(w)
  BY DEF Fading, Live
<1>3. \A w \in Id : Traces(w)' => Traces(w)
  BY <1>1 DEF Fading, Traces
<1>4. FreshIds'
  BY <1>1 DEF LifecycleInv, FreshIds, Fading
<1>5. OneRow'
  BY DEF LifecycleInv, OneRow, Fading
<1>6. ClosedLeavesNothing'
  BY <1>1 DEF LifecycleInv, ClosedLeavesNothing, Fading
<1>7. QED
  BY <1>1, <1>2, <1>3, <1>4, <1>5, <1>6

\* A fading step that does not begin or end an open orphans nothing.
LEMMA FadingOwns ==
    ASSUME LifecycleInv, Fading,
           ~Opening \/ (Opening' /\ job' = job)
    PROVE  NothingOrphaned'
BY FadingKeeps DEF LifecycleInv, NothingOrphaned, Fading, Opening

\* A promise of the journal is kept by whatever lets things disappear.
LEMMA FadingPromise ==
    ASSUME LifecycleInv, Fading, journal' = journal
    PROVE  JournalPromise'
<1>1. journal # None => journal.ws \in Id
  BY DEF LifecycleInv, TypeOK, Close
<1>2. journal # None /\ tree # journal.ws => tree' # journal.ws
  BY <1>1, NullAssumption DEF Fading
<1>3. QED
  BY <1>1, <1>2, FadingKeeps DEF LifecycleInv, JournalPromise

\* The control state is at rest or in one of the two operations.
LEMMA Labels ==
    /\ Opening => ~Closing /\ pc # "idle"
    /\ Closing => ~Opening /\ pc # "idle"
BY DEF Opening, Closing, OpenLabels, CleanupLabels, CloseLabels

\* A step that ends an operation leaves no progress to account for.
LEMMA AtRest ==
    ASSUME pc' = "idle"
    PROVE  OpenProgress' /\ CloseProgress'
BY DEF OpenProgress, CloseProgress, OpenLabels, CleanupLabels, CloseLabels

\* Within an open there is no close to account for.
LEMMA InOpen ==
    ASSUME pc' \in OpenLabels \cup CleanupLabels
    PROVE  CloseProgress'
BY DEF CloseProgress, OpenLabels, CleanupLabels, CloseLabels

\* Within a close there is no open to account for.
LEMMA InClose ==
    ASSUME pc' \in CloseLabels
    PROVE  OpenProgress'
BY DEF OpenProgress, OpenLabels, CleanupLabels, CloseLabels

\* Going on and returning leave the job typed.
LEMMA JobTyped ==
    /\ \A label : LifecycleInv /\ Goto(label) => job' \in [ws : Id \cup {None}, force : BOOLEAN]
    /\ Return => job' \in [ws : Id \cup {None}, force : BOOLEAN]
<1>1. ASSUME NEW label, LifecycleInv, Goto(label)
      PROVE  job' \in [ws : Id \cup {None}, force : BOOLEAN]
  BY <1>1 DEF LifecycleInv, TypeOK, Goto
<1>2. ASSUME Return
      PROVE  job' \in [ws : Id \cup {None}, force : BOOLEAN]
  BY <1>2 DEF Return, NoJob
<1>3. QED
  BY <1>1, <1>2

\* With nothing journalled and nothing ready two conjuncts say nothing.
LEMMA NoneReady ==
    ASSUME journal' = None, \A w \in Id : row'[w] # "ready"
    PROVE  JournalPromise' /\ ReadyIsWhole'
BY DEF JournalPromise, ReadyIsWhole

\* What a step of an open preserves that creates nothing but things of its own.
LEMMA OpenKeeps ==
    ASSUME LifecycleInv, Opening, Opening',
           UNCHANGED <<row, journal, issued, crashes, job>>,
           imported' \subseteq imported \cup {job.ws},
           notes' \subseteq notes \cup {job.ws},
           tree' \in {tree, job.ws}, branch' \in {branch, job.ws}
    PROVE  /\ FreshIds' /\ OneRow' /\ CloseProgress' /\ JournalPromise'
           /\ ReadyIsWhole' /\ ClosedLeavesNothing' /\ NothingOrphaned'
<1>1. \A w \in Id : w # job.ws /\ Gone(w) => Gone(w)'
  BY DEF Gone
<1>2. FreshIds'
  <2>1. issued \in Nat
    BY LifecycleAssumption DEF LifecycleInv, TypeOK
  <2>2. \A w \in Id : w > issued => w # job.ws
    BY <2>1, OpenFacts
  <2>3. QED
    BY <1>1, <2>2 DEF LifecycleInv, FreshIds
<1>3. OneRow'
  BY DEF LifecycleInv, OneRow
<1>4. CloseProgress'
  BY InOpen DEF Opening
<1>5. JournalPromise' /\ ReadyIsWhole'
  BY OpenFacts, NoneReady
<1>6. ClosedLeavesNothing'
  BY <1>1, OpenFacts, NullAssumption DEF LifecycleInv, ClosedLeavesNothing
<1>7. NothingOrphaned'
  BY <1>1 DEF LifecycleInv, NothingOrphaned, Traces, Live, Opening
<1>8. QED
  BY <1>2, <1>3, <1>4, <1>5, <1>6, <1>7

\* What a step of the clean-up preserves that lets things disappear.
LEMMA FadingOpen ==
    ASSUME LifecycleInv, Fading, Opening, Opening', UNCHANGED <<journal, job>>
    PROVE  /\ FreshIds' /\ OneRow' /\ CloseProgress' /\ JournalPromise'
           /\ ReadyIsWhole' /\ ClosedLeavesNothing' /\ NothingOrphaned'
<1>1. CloseProgress'
  BY InOpen DEF Opening
<1>2. JournalPromise' /\ ReadyIsWhole'
  BY OpenFacts, NoneReady DEF Fading
<1>3. QED
  BY <1>1, <1>2, FadingKeeps, FadingOwns

\* What a step of a close preserves before the workspace is retired.
LEMMA FadingClose ==
    ASSUME LifecycleInv, Fading, Closing, pc' \in CloseLabels \cup {"idle"}
    PROVE  /\ FreshIds' /\ OneRow' /\ OpenProgress'
           /\ ClosedLeavesNothing' /\ NothingOrphaned'
<1>1. OpenProgress'
  BY InClose, AtRest
<1>2. NothingOrphaned'
  BY Labels, FadingOwns
<1>3. QED
  BY <1>1, <1>2, FadingKeeps

-----------------------------------------------------------------------------

\* Every step of an open preserves the invariant.
LEMMA OpenStepsKeepInv ==
    ASSUME LifecycleInv,
           \/ BeginOpen \/ Construct \/ WriteNotes \/ AddBranch \/ AddTree
           \/ Register \/ Import \/ MarkReady \/ FailOpen
    PROVE  LifecycleInv'
<1>1. CASE BeginOpen
  <2> USE <1>1
  <2>0. /\ pc = "idle" /\ pc' = "construct"
        /\ job'.ws = issued + 1 /\ issued' = issued + 1 /\ issued + 1 \in Id
        /\ UNCHANGED <<row, imported, journal, git, crashes>>
        /\ \A w \in Id : ~Live(w)
    BY LifecycleAssumption
       DEF LifecycleInv, TypeOK, BeginOpen, From, NoJob, Id, database, git
  <2>1. TypeOK'
    <3>1. job' \in [ws : Id \cup {None}, force : BOOLEAN]
      BY <2>0 DEF BeginOpen, NoJob
    <3>2. QED
      BY <2>0, <3>1, LifecycleAssumption
         DEF LifecycleInv, TypeOK, BeginOpen, Label, OpenLabels, Id, database, git
  <2>2. journal = None
    BY <2>0 DEF LifecycleInv, JournalPromise, TypeOK, Close
  <2>3. row[issued + 1] = None /\ issued + 1 \notin imported /\ Gone(issued + 1)
    BY <2>0 DEF LifecycleInv, FreshIds, TypeOK
  <2>4. FreshIds' /\ OneRow' /\ ClosedLeavesNothing'
    BY <2>0
       DEF LifecycleInv, FreshIds, OneRow, ClosedLeavesNothing, TypeOK, Id, Gone, git
  <2>5. JournalPromise' /\ ReadyIsWhole'
    BY <2>0, <2>2, NoneReady DEF Live
  <2>6. Opening' /\ CloseProgress'
    BY <2>0, InOpen DEF OpenLabels, Opening
  <2>7. OpenProgress'
    BY <2>0, <2>2, <2>3 DEF LifecycleInv, TypeOK, OpenProgress, Live, Gone, git
  <2>8. NothingOrphaned'
    BY <2>0, Labels DEF LifecycleInv, NothingOrphaned, Traces, Gone, Live, Opening, git
  <2>9. QED
    BY <2>1, <2>4, <2>5, <2>6, <2>7, <2>8 DEF LifecycleInv
<1>2. CASE Construct
  <2> USE <1>2
  <2>0. pc = "construct" /\ Opening
    BY DEF Construct, From, Opening, OpenLabels
  <2>1. TypeOK'
    <3>1. pc' \in Label
      BY DEF Construct, Goto, Return, Label, OpenLabels
    <3>2. job' \in [ws : Id \cup {None}, force : BOOLEAN]
      BY JobTyped DEF Construct
    <3>3. QED
      BY <3>1, <3>2 DEF LifecycleInv, TypeOK, Construct, database, git, bounds
  <2>2. Fading /\ UNCHANGED <<row, imported, journal, git, issued>>
    BY DEF Construct, Fading, database, git, bounds
  <2>3. FreshIds' /\ OneRow' /\ ClosedLeavesNothing'
    BY <2>2, FadingKeeps
  <2>4. JournalPromise' /\ ReadyIsWhole'
    BY <2>0, <2>2, OpenFacts, NoneReady
  <2>5. CASE pc' = "writenotes" /\ job' = job
    <3>1. OpenProgress'
      BY <2>0, <2>2, <2>5
         DEF LifecycleInv, OpenProgress, Live, OpenLabels, CleanupLabels, git
    <3>2. CloseProgress' /\ Opening'
      BY <2>5, InOpen DEF OpenLabels, Opening
    <3>3. NothingOrphaned'
      BY <2>2, <2>5, <3>2, FadingOwns
    <3>4. QED
      BY <2>1, <2>3, <2>4, <3>1, <3>2, <3>3 DEF LifecycleInv
  <2>6. CASE pc' = "idle"
    <3>1. Gone(job.ws) /\ job.ws \notin imported
      BY <2>0 DEF LifecycleInv, OpenProgress, OpenLabels
    <3>2. NothingOrphaned'
      BY <2>2, <3>1, FadingKeeps DEF LifecycleInv, NothingOrphaned, Traces, Fading
    <3>3. QED
      BY <2>1, <2>3, <2>4, <2>6, <3>2, AtRest DEF LifecycleInv
  <2>7. QED
    BY <2>5, <2>6 DEF Construct, Goto, Return
<1>3. CASE WriteNotes
  <2> USE <1>3
  <2>0. /\ pc = "writenotes" /\ pc' \in {"addbranch"} /\ job' = job
        /\ UNCHANGED <<row, journal, issued, crashes>>
    BY DEF WriteNotes, From, Goto, git, database, bounds
  <2>1. Opening /\ Opening'
    BY <2>0 DEF Opening, OpenLabels, CleanupLabels
  <2>2. TypeOK'
    BY <2>0, OpenFacts, <2>1, LifecycleAssumption
       DEF LifecycleInv, TypeOK, WriteNotes, Label, OpenLabels, CleanupLabels, git,
           database, bounds
  <2>3. OpenProgress'
    BY <2>0, <2>1, OpenFacts
       DEF LifecycleInv, OpenProgress, Opening, WriteNotes, Live, Goto, git,
           database, bounds
  <2>4. /\ FreshIds' /\ OneRow' /\ CloseProgress' /\ JournalPromise'
        /\ ReadyIsWhole' /\ ClosedLeavesNothing' /\ NothingOrphaned'
    BY <2>0, <2>1, OpenKeeps DEF WriteNotes, git, database
  <2>5. QED
    BY <2>2, <2>3, <2>4 DEF LifecycleInv
<1>4. CASE AddBranch
  <2> USE <1>4
  <2>0. /\ pc = "addbranch" /\ pc' \in {"addtree", "unregister"} /\ job' = job
        /\ UNCHANGED <<row, journal, issued, crashes>>
    BY DEF AddBranch, From, Goto, git, database, bounds
  <2>1. Opening /\ Opening'
    BY <2>0 DEF Opening, OpenLabels, CleanupLabels
  <2>2. TypeOK'
    BY <2>0, OpenFacts, <2>1, LifecycleAssumption
       DEF LifecycleInv, TypeOK, AddBranch, Label, OpenLabels, CleanupLabels, git,
           database, bounds
  <2>3. OpenProgress'
    BY <2>0, <2>1, OpenFacts
       DEF LifecycleInv, OpenProgress, Opening, AddBranch, Live, Goto, git, database,
           bounds
  <2>4. /\ FreshIds' /\ OneRow' /\ CloseProgress' /\ JournalPromise'
        /\ ReadyIsWhole' /\ ClosedLeavesNothing' /\ NothingOrphaned'
    BY <2>0, <2>1, OpenKeeps DEF AddBranch, git, database
  <2>5. QED
    BY <2>2, <2>3, <2>4 DEF LifecycleInv
<1>5. CASE AddTree
  <2> USE <1>5
  <2>0. /\ pc = "addtree" /\ pc' \in {"register", "unregister"} /\ job' = job
        /\ UNCHANGED <<row, journal, issued, crashes>>
    BY DEF AddTree, From, Goto, git, database, bounds
  <2>1. Opening /\ Opening'
    BY <2>0 DEF Opening, OpenLabels, CleanupLabels
  <2>2. TypeOK'
    BY <2>0, OpenFacts, <2>1, LifecycleAssumption
       DEF LifecycleInv, TypeOK, AddTree, Label, OpenLabels, CleanupLabels, git,
           database, bounds
  <2>3. OpenProgress'
    BY <2>0, <2>1, OpenFacts
       DEF LifecycleInv, OpenProgress, Opening, AddTree, Live, Goto, git, database,
           bounds
  <2>4. /\ FreshIds' /\ OneRow' /\ CloseProgress' /\ JournalPromise'
        /\ ReadyIsWhole' /\ ClosedLeavesNothing' /\ NothingOrphaned'
    BY <2>0, <2>1, OpenKeeps DEF AddTree, git, database
  <2>5. QED
    BY <2>2, <2>3, <2>4 DEF LifecycleInv
<1>6. CASE Register
  <2> USE <1>6
  <2>0. /\ pc = "register" /\ job' = job
        /\ UNCHANGED <<imported, journal, git, issued, crashes>>
    BY DEF Register, From, Goto, git, bounds
  <2>1. Opening
    BY <2>0 DEF Opening, OpenLabels
  <2>2. /\ job.ws \in Id /\ job.ws \in 1 .. issued /\ journal = None
        /\ row[job.ws] = None
        /\ row \in [Id -> {None, "opening", "ready", "closed"}] /\ issued \in Nat
    BY <2>0, <2>1, OpenFacts, LifecycleAssumption
       DEF LifecycleInv, TypeOK, OpenProgress, Opening
  <2>3. CASE /\ \A w \in Id : row[w] = None
             /\ row' = [row EXCEPT ![job.ws] = "opening"] /\ pc' = "import"
    <3>1. TypeOK'
      BY <2>0, <2>2, <2>3
         DEF LifecycleInv, TypeOK, Register, Label, OpenLabels, git, bounds
    <3>2. \A w \in Id : row'[w] # None => w = job.ws /\ row'[w] = "opening"
      BY <2>2, <2>3
    <3>3. FreshIds' /\ OneRow' /\ ClosedLeavesNothing'
      BY <2>0, <2>2, <3>2, NullAssumption
         DEF LifecycleInv, FreshIds, OneRow, ClosedLeavesNothing, Gone, git
    <3>4. JournalPromise' /\ ReadyIsWhole'
      BY <2>0, <2>2, <3>2, NullAssumption, NoneReady
    <3>5. CloseProgress' /\ Opening'
      BY <2>3, InOpen DEF Opening, OpenLabels
    <3>6. OpenProgress'
      BY <2>0, <2>1, <2>2, <2>3, <3>2, NullAssumption
         DEF LifecycleInv, OpenProgress, Opening, Live, git
    <3>7. NothingOrphaned'
      BY <2>0, <2>3, <3>5
         DEF LifecycleInv, NothingOrphaned, Traces, Gone, Live, Opening, git
    <3>8. QED
      BY <3>1, <3>3, <3>4, <3>5, <3>6, <3>7 DEF LifecycleInv
  <2>4. CASE row' = row /\ pc' = "unregister"
    <3>1. TypeOK'
      BY <2>0, <2>4
         DEF LifecycleInv, TypeOK, Register, Label, CleanupLabels, git, bounds
    <3>2. Fading /\ Opening'
      BY <2>0, <2>4 DEF Fading, Opening, CleanupLabels, git
    <3>3. OpenProgress'
      BY <2>0, <2>1, <2>2, <2>4, OpenFacts DEF OpenProgress, Live
    <3>4. QED
      BY <2>0, <2>1, <3>1, <3>2, <3>3, FadingOpen DEF LifecycleInv
  <2>5. QED
    BY <2>3, <2>4 DEF Register, Goto
<1>7. CASE Import
  <2> USE <1>7
  <2>0. /\ pc = "import" /\ pc' \in {"ready"} /\ job' = job
        /\ UNCHANGED <<row, journal, issued, crashes>>
    BY DEF Import, From, Goto, git, database, bounds
  <2>1. Opening /\ Opening'
    BY <2>0 DEF Opening, OpenLabels, CleanupLabels
  <2>2. TypeOK'
    BY <2>0, OpenFacts, <2>1, LifecycleAssumption
       DEF LifecycleInv, TypeOK, Import, Label, OpenLabels, CleanupLabels, git,
           database, bounds
  <2>3. OpenProgress'
    BY <2>0, <2>1, OpenFacts
       DEF LifecycleInv, OpenProgress, Opening, Import, Live, Goto, git, database,
           bounds
  <2>4. /\ FreshIds' /\ OneRow' /\ CloseProgress' /\ JournalPromise'
        /\ ReadyIsWhole' /\ ClosedLeavesNothing' /\ NothingOrphaned'
    BY <2>0, <2>1, OpenKeeps DEF Import, git, database
  <2>5. QED
    BY <2>2, <2>3, <2>4 DEF LifecycleInv
<1>8. CASE MarkReady
  <2> USE <1>8
  <2>0. /\ pc = "ready" /\ pc' = "idle" /\ row' = [row EXCEPT ![job.ws] = "ready"]
        /\ UNCHANGED <<imported, journal, git, issued, crashes>>
    BY DEF MarkReady, From, Return, git, bounds
  <2>1. Opening
    BY <2>0 DEF Opening, OpenLabels
  <2>2. /\ job.ws \in Id /\ job.ws \in 1 .. issued /\ journal = None
        /\ row[job.ws] = "opening" /\ Whole(job.ws)
        /\ row \in [Id -> {None, "opening", "ready", "closed"}] /\ issued \in Nat
    BY <2>0, <2>1, OpenFacts, LifecycleAssumption
       DEF LifecycleInv, TypeOK, OpenProgress, Opening, Whole
  <2>3. \A w \in Id : w # job.ws => row'[w] = row[w] /\ row[w] = None
    BY <2>0, <2>2, NullAssumption DEF LifecycleInv, OneRow
  <2>4. row'[job.ws] = "ready"
    BY <2>0, <2>2
  <2>5. TypeOK'
    BY <2>0, <2>2, JobTyped DEF LifecycleInv, TypeOK, MarkReady, Label, git, bounds
  <2>6. FreshIds' /\ OneRow' /\ ClosedLeavesNothing'
    BY <2>0, <2>2, <2>3, <2>4, NullAssumption
       DEF LifecycleInv, FreshIds, OneRow, ClosedLeavesNothing, Gone, git
  <2>7. JournalPromise' /\ ReadyIsWhole'
    BY <2>0, <2>2, <2>3, NullAssumption DEF JournalPromise, ReadyIsWhole, Whole, git
  <2>8. NothingOrphaned'
    BY <2>0, <2>3, <2>4 DEF LifecycleInv, NothingOrphaned, Traces, Gone, Live, git
  <2>9. QED
    BY <2>0, <2>5, <2>6, <2>7, <2>8, AtRest DEF LifecycleInv
<1>9. CASE FailOpen
  <2> USE <1>9
  <2>0. Opening /\ pc \in OpenLabels /\ pc' = "unregister" /\ job' = job
    BY DEF FailOpen, Opening, Goto
  <2>1. TypeOK'
    BY LifecycleAssumption
       DEF LifecycleInv, TypeOK, FailOpen, Goto, Label, CleanupLabels, database, git
  <2>2. Fading /\ UNCHANGED <<row, imported, journal, git, issued>>
    BY DEF FailOpen, Fading, database, git
  <2>3. FreshIds' /\ OneRow' /\ ClosedLeavesNothing'
    BY <2>2, FadingKeeps
  <2>4. JournalPromise' /\ ReadyIsWhole'
    BY <2>0, <2>2, OpenFacts, NoneReady
  <2>5. OpenProgress'
    BY <2>0, <2>2, OpenFacts DEF OpenProgress, Live
  <2>6. CloseProgress' /\ Opening'
    BY <2>0, InOpen DEF CleanupLabels, Opening
  <2>7. NothingOrphaned'
    BY <2>0, <2>2, <2>6, FadingOwns
  <2>8. QED
    BY <2>1, <2>3, <2>4, <2>5, <2>6, <2>7 DEF LifecycleInv
<1>10. QED
  BY <1>1, <1>2, <1>3, <1>4, <1>5, <1>6, <1>7, <1>8, <1>9

\* Every step of the clean-up preserves the invariant.
LEMMA CleanupStepsKeepInv ==
    ASSUME LifecycleInv,
           \/ Unregister \/ RemoveFailed \/ DropFailedBranch
           \/ DropFailedNotes
    PROVE  LifecycleInv'
<1>1. CASE Unregister
  <2> USE <1>1
  <2>0. /\ pc = "unregister" /\ pc' = "removefailed" /\ job' = job
        /\ imported' = imported \ {job.ws}
        /\ UNCHANGED <<journal, git, issued, crashes>>
    BY DEF Unregister, From, Goto, git, bounds
  <2>1. Opening /\ Opening'
    BY <2>0 DEF Opening, CleanupLabels
  <2>2. /\ job.ws \in Id /\ job.ws \in 1 .. issued /\ journal = None
        /\ row \in [Id -> {None, "opening", "ready", "closed"}] /\ issued \in Nat
    BY <2>1, OpenFacts, LifecycleAssumption DEF LifecycleInv, TypeOK
  <2>3. /\ row'[job.ws] = None
        /\ \A w \in Id : w # job.ws => row'[w] = row[w]
    BY <2>1, <2>2, OpenFacts DEF Unregister
  <2>4. TypeOK'
    <3>1. row' \in [Id -> {None, "opening", "ready", "closed"}]
      BY <2>2 DEF Unregister
    <3>2. QED
      BY <2>0, <3>1
         DEF LifecycleInv, TypeOK, Unregister, Label, CleanupLabels, git, bounds
  <2>5. FreshIds' /\ OneRow' /\ ClosedLeavesNothing'
    BY <2>0, <2>2, <2>3, NullAssumption
       DEF LifecycleInv, FreshIds, OneRow, ClosedLeavesNothing, Gone, git
  <2>6. \A w \in Id : row'[w] # "ready" /\ ~Live(w)'
    BY <2>1, <2>3, OpenFacts, NullAssumption DEF Live
  <2>7. JournalPromise' /\ ReadyIsWhole'
    BY <2>0, <2>2, <2>6, NoneReady
  <2>8. CloseProgress'
    BY <2>1, InOpen DEF Opening
  <2>9. OpenProgress'
    BY <2>0, <2>2, <2>3, <2>6 DEF OpenProgress
  <2>10. NothingOrphaned'
    BY <2>0, <2>1, <2>3
       DEF LifecycleInv, NothingOrphaned, Traces, Gone, Live, Opening, git
  <2>11. QED
    BY <2>4, <2>5, <2>7, <2>8, <2>9, <2>10 DEF LifecycleInv
<1>2. CASE RemoveFailed
  <2> USE <1>2
  <2>0. /\ pc = "removefailed" /\ pc' = "dropfailed" /\ job' = job
        /\ UNCHANGED <<row, imported, journal, issued, crashes>>
    BY DEF RemoveFailed, From, Goto, database, bounds
  <2>1. Opening /\ Opening' /\ Fading
    BY <2>0 DEF RemoveFailed, Opening, Fading, CleanupLabels
  <2>2. TypeOK'
    BY <2>0 DEF LifecycleInv, TypeOK, RemoveFailed, Label, CleanupLabels, bounds
  <2>3. OpenProgress'
    BY <2>0, <2>1, OpenFacts, NullAssumption
       DEF LifecycleInv, OpenProgress, Opening, RemoveFailed, Live
  <2>4. QED
    BY <2>0, <2>1, <2>2, <2>3, FadingOpen DEF LifecycleInv
<1>3. CASE DropFailedBranch
  <2> USE <1>3
  <2>0. /\ pc = "dropfailed" /\ pc' = "dropnotes" /\ job' = job
        /\ UNCHANGED <<row, imported, journal, issued, crashes>>
    BY DEF DropFailedBranch, From, Goto, database, bounds
  <2>1. Opening /\ Opening' /\ Fading
    BY <2>0 DEF DropFailedBranch, Opening, Fading, CleanupLabels
  <2>2. TypeOK'
    BY <2>0 DEF LifecycleInv, TypeOK, DropFailedBranch, Label, CleanupLabels, bounds
  <2>3. OpenProgress'
    BY <2>0, <2>1, OpenFacts, NullAssumption
       DEF LifecycleInv, OpenProgress, Opening, DropFailedBranch, Live
  <2>4. QED
    BY <2>0, <2>1, <2>2, <2>3, FadingOpen DEF LifecycleInv
<1>4. CASE DropFailedNotes
  <2> USE <1>4
  <2>0. /\ pc = "dropnotes" /\ pc' = "idle" /\ notes' = notes \ {job.ws}
        /\ UNCHANGED <<row, imported, journal, tree, branch, issued, crashes>>
    BY DEF DropFailedNotes, From, Return, database, bounds
  <2>1. Opening /\ Fading
    BY <2>0 DEF Opening, Fading, CleanupLabels
  <2>2. TypeOK'
    BY <2>0, JobTyped DEF LifecycleInv, TypeOK, DropFailedNotes, Label, bounds
  <2>3. \A w \in Id : w = job.ws => ~Traces(w)'
    BY <2>0, <2>1 DEF LifecycleInv, OpenProgress, Opening, Traces, Gone
  <2>4. NothingOrphaned'
    BY <2>1, <2>3, FadingKeeps DEF LifecycleInv, NothingOrphaned, Fading
  <2>5. JournalPromise' /\ ReadyIsWhole'
    BY <2>0, <2>1, OpenFacts, NoneReady
  <2>6. QED
    BY <2>0, <2>1, <2>2, <2>4, <2>5, FadingKeeps, AtRest DEF LifecycleInv
<1>5. QED
  BY <1>1, <1>2, <1>3, <1>4

\* Every step of a close preserves the invariant.
LEMMA CloseStepsKeepInv ==
    ASSUME LifecycleInv,
           \/ (\E w \in Id, force \in BOOLEAN : BeginClose(w, force))
           \/ ResumeClose \/ Detach \/ SaveClose \/ Remove \/ Unlist
           \/ MarkRemoved \/ DropBranch \/ DropNotes \/ MarkRefs \/ Retire
    PROVE  LifecycleInv'
<1>1. ASSUME NEW w \in Id, NEW force \in BOOLEAN, BeginClose(w, force)
      PROVE  LifecycleInv'
  <2> USE <1>1
  <2>0. /\ pc = "idle" /\ pc' = "detach" /\ job' = [ws |-> w, force |-> force]
        /\ journal = None /\ Live(w)
        /\ UNCHANGED <<row, imported, journal, git, issued, crashes>>
    BY DEF BeginClose, From, database, bounds
  <2>1. pc' \in CloseLabels /\ ~Opening /\ Fading
    BY <2>0, Labels DEF Fading, CloseLabels, git
  <2>2. TypeOK'
    BY <2>0, <2>1 DEF LifecycleInv, TypeOK, BeginClose, Label, git, bounds, database
  <2>3. CloseProgress'
    BY <2>0 DEF CloseProgress, Live
  <2>4. JournalPromise' /\ ReadyIsWhole'
    BY <2>0 DEF LifecycleInv, JournalPromise, ReadyIsWhole, Whole, git
  <2>5. QED
    BY <2>1, <2>2, <2>3, <2>4, FadingKeeps, FadingOwns, InClose DEF LifecycleInv
<1>2. CASE ResumeClose
  <2> USE <1>2
  <2>0. /\ pc = "idle" /\ pc' = PhaseLabel(journal.phase)
        /\ job' = [ws |-> journal.ws, force |-> journal.force]
        /\ journal # None /\ Live(journal.ws)
        /\ UNCHANGED <<row, imported, journal, git, issued, crashes>>
    BY DEF ResumeClose, From, database, bounds
  <2>1. journal \in Close
    BY <2>0 DEF LifecycleInv, TypeOK
  <2>2. \/ journal.phase = "prepared" /\ pc' = "remove"
        \/ journal.phase = "worktree-removed" /\ pc' = "dropbranch"
        \/ journal.phase = "refs-removed" /\ pc' = "retire"
    BY <2>0, <2>1 DEF Close, PhaseLabel
  <2>3. pc' \in CloseLabels /\ ~Opening /\ Fading
    BY <2>0, <2>2, Labels DEF Fading, CloseLabels, git
  <2>4. TypeOK'
    BY <2>0, <2>1, <2>3
       DEF LifecycleInv, TypeOK, ResumeClose, Label, Close, git, bounds, database
  <2>5. CloseProgress'
    BY <2>0, <2>1, <2>2 DEF CloseProgress, Live, Close
  <2>6. JournalPromise' /\ ReadyIsWhole'
    BY <2>0, <2>3, FadingPromise DEF ReadyIsWhole
  <2>7. QED
    BY <2>3, <2>4, <2>5, <2>6, FadingKeeps, FadingOwns, InClose DEF LifecycleInv
<1>3. CASE Detach
  <2> USE <1>3
  <2>0. /\ pc = "detach" /\ ((pc' = "saveclose" /\ job' = job) \/ pc' = "idle")
        /\ UNCHANGED <<row, imported, journal, git, issued, crashes>>
    BY DEF Detach, From, Goto, Return, database, bounds
  <2>1. Closing /\ Fading /\ pc' \in CloseLabels \cup {"idle"}
    BY <2>0
       DEF Detach, Goto, Return, Closing, Fading, CloseLabels, From, git, database,
           bounds
  <2>2. TypeOK'
    BY <2>1, JobTyped DEF LifecycleInv, TypeOK, Detach, Label, git, bounds, database
  <2>3. CloseProgress'
    <3>1. CASE pc' = "idle"
      BY <3>1, AtRest
    <3>2. CASE pc' = "saveclose" /\ job' = job
      BY <2>0, <2>1, <3>2, CloseFacts DEF CloseProgress, Live, Detach, From, database
    <3>3. QED
      BY <3>1, <3>2 DEF Detach, Goto, Return
  <2>4. JournalPromise' /\ ReadyIsWhole'
    BY <2>1
       DEF LifecycleInv, Detach, JournalPromise, ReadyIsWhole, Whole, Gone, Live,
           git, database
  <2>5. QED
    BY <2>1, <2>2, <2>3, <2>4, FadingClose DEF LifecycleInv
<1>4. CASE SaveClose
  <2> USE <1>4
  <2>0. /\ pc = "saveclose" /\ pc' = "remove" /\ job' = job
        /\ journal' = [ws |-> job.ws, force |-> job.force, phase |-> "prepared"]
        /\ UNCHANGED <<row, imported, git, issued, crashes>>
    BY DEF SaveClose, Save, From, Goto, bounds
  <2>1. Closing /\ Fading /\ pc' \in CloseLabels
    BY <2>0 DEF Closing, Fading, CloseLabels, git
  <2>2. job.ws \in Id /\ Live(job.ws) /\ job.force \in BOOLEAN
    BY <2>1, CloseFacts DEF LifecycleInv, TypeOK
  <2>3. journal' \in Close /\ journal' # None
    BY <2>0, <2>2, NullAssumption DEF Close
  <2>4. TypeOK'
    BY <2>0, <2>1, <2>3 DEF LifecycleInv, TypeOK, SaveClose, Label, git, bounds
  <2>5. CloseProgress'
    BY <2>0, <2>1, <2>2, <2>3 DEF LifecycleInv, CloseProgress, Closing, Live
  <2>6. JournalPromise'
    BY <2>0, <2>1, <2>2
       DEF LifecycleInv, CloseProgress, JournalPromise, Closing, Live, Gone, git
  <2>7. ReadyIsWhole'
    BY <2>3 DEF ReadyIsWhole
  <2>8. QED
    BY <2>1, <2>4, <2>5, <2>6, <2>7, FadingClose DEF LifecycleInv
<1>5. CASE Remove
  <2> USE <1>5
  <2>0. /\ pc = "remove" /\ pc' \in CloseLabels \cup {"idle"}
        /\ tree' \in {tree, Registered}
        /\ UNCHANGED <<row, imported, journal, branch, notes, issued, crashes>>
    BY DEF Remove, From, Goto, Return, CloseLabels, database, bounds
  <2>1. Closing /\ Fading
    BY <2>0 DEF Closing, Fading, CloseLabels
  <2>2. TypeOK'
    BY <2>0, JobTyped DEF LifecycleInv, TypeOK, Remove, Label, bounds
  <2>3. CloseProgress'
    <3>1. CASE tree = job.ws /\ tree' = Registered /\ Goto("unlist")
      BY <2>0, <2>1, <3>1, CloseFacts
         DEF LifecycleInv, CloseProgress, Closing, Goto, Live
    <3>2. CASE tree \in {None, Foreign} /\ tree' = tree /\ Goto("markremoved")
      BY <2>0, <2>1, <3>2, CloseFacts, NullAssumption
         DEF LifecycleInv, CloseProgress, Closing, Goto, Live
    <3>3. CASE Return
      BY <3>3, AtRest DEF Return
    <3>4. QED
      BY <3>1, <3>2, <3>3 DEF Remove
  <2>4. JournalPromise' /\ ReadyIsWhole'
    BY <2>0, <2>1, CloseFacts, FadingPromise DEF ReadyIsWhole
  <2>5. QED
    BY <2>0, <2>1, <2>2, <2>3, <2>4, FadingClose DEF LifecycleInv
<1>6. CASE Unlist
  <2> USE <1>6
  <2>0. /\ pc = "unlist" /\ pc' = "markremoved" /\ job' = job
        /\ UNCHANGED <<row, imported, journal, issued, crashes>>
    BY DEF Unlist, From, Goto, database, bounds
  <2>1. Closing /\ pc' \in CloseLabels
    BY <2>0 DEF Closing, CloseLabels
  <2>2. Fading
    BY <2>0 DEF Unlist, Fading
  <2>3. TypeOK'
    BY <2>0, <2>1 DEF LifecycleInv, TypeOK, Unlist, Label, bounds
  <2>4. CloseProgress'
    BY <2>0, <2>1, CloseFacts, NullAssumption
       DEF LifecycleInv, CloseProgress, Closing, Unlist, Live
  <2>5. JournalPromise' /\ ReadyIsWhole'
    BY <2>0, <2>1, <2>2, CloseFacts, FadingPromise DEF ReadyIsWhole
  <2>6. QED
    BY <2>1, <2>2, <2>3, <2>4, <2>5, FadingClose DEF LifecycleInv
<1>7. CASE MarkRemoved
  <2> USE <1>7
  <2>0. /\ pc = "markremoved" /\ pc' = "dropbranch" /\ job' = job
        /\ journal' = [ws |-> job.ws, force |-> job.force, phase |-> "worktree-removed"]
        /\ UNCHANGED <<row, imported, git, issued, crashes>>
    BY DEF MarkRemoved, Save, From, Goto, bounds
  <2>1. Closing /\ Fading /\ pc' \in CloseLabels
    BY <2>0 DEF Closing, Fading, CloseLabels, git
  <2>2. job.ws \in Id /\ Live(job.ws) /\ job.force \in BOOLEAN
    BY <2>1, CloseFacts DEF LifecycleInv, TypeOK
  <2>3. journal' \in Close /\ journal' # None
    BY <2>0, <2>2, NullAssumption DEF Close
  <2>4. TypeOK'
    BY <2>0, <2>1, <2>3 DEF LifecycleInv, TypeOK, MarkRemoved, Label, git, bounds
  <2>5. CloseProgress'
    BY <2>0, <2>1, <2>2, <2>3 DEF LifecycleInv, CloseProgress, Closing, Live
  <2>6. JournalPromise'
    BY <2>0, <2>1, <2>2
       DEF LifecycleInv, CloseProgress, JournalPromise, Closing, Live, Gone, git
  <2>7. ReadyIsWhole'
    BY <2>3 DEF ReadyIsWhole
  <2>8. QED
    BY <2>1, <2>4, <2>5, <2>6, <2>7, FadingClose DEF LifecycleInv
<1>8. CASE DropBranch
  <2> USE <1>8
  <2>0. /\ pc = "dropbranch" /\ pc' = "dropref" /\ job' = job
        /\ UNCHANGED <<row, imported, journal, issued, crashes>>
    BY DEF DropBranch, From, Goto, database, bounds
  <2>1. Closing /\ pc' \in CloseLabels
    BY <2>0 DEF Closing, CloseLabels
  <2>2. Fading
    BY <2>0 DEF DropBranch, Fading
  <2>3. TypeOK'
    BY <2>0, <2>1 DEF LifecycleInv, TypeOK, DropBranch, Label, bounds
  <2>4. CloseProgress'
    BY <2>0, <2>1, CloseFacts, NullAssumption
       DEF LifecycleInv, CloseProgress, Closing, DropBranch, Live
  <2>5. JournalPromise' /\ ReadyIsWhole'
    BY <2>0, <2>1, <2>2, CloseFacts, FadingPromise DEF ReadyIsWhole
  <2>6. QED
    BY <2>1, <2>2, <2>3, <2>4, <2>5, FadingClose DEF LifecycleInv
<1>9. CASE DropNotes
  <2> USE <1>9
  <2>0. /\ pc = "dropref" /\ pc' = "markrefs" /\ job' = job
        /\ UNCHANGED <<row, imported, journal, issued, crashes>>
    BY DEF DropNotes, From, Goto, database, bounds
  <2>1. Closing /\ pc' \in CloseLabels
    BY <2>0 DEF Closing, CloseLabels
  <2>2. Fading
    BY <2>0 DEF DropNotes, Fading
  <2>3. TypeOK'
    BY <2>0, <2>1 DEF LifecycleInv, TypeOK, DropNotes, Label, bounds
  <2>4. CloseProgress'
    BY <2>0, <2>1, CloseFacts, NullAssumption
       DEF LifecycleInv, CloseProgress, Closing, DropNotes, Live
  <2>5. JournalPromise' /\ ReadyIsWhole'
    BY <2>0, <2>1, <2>2, CloseFacts, FadingPromise DEF ReadyIsWhole
  <2>6. QED
    BY <2>1, <2>2, <2>3, <2>4, <2>5, FadingClose DEF LifecycleInv
<1>10. CASE MarkRefs
  <2> USE <1>10
  <2>0. /\ pc = "markrefs" /\ pc' = "retire" /\ job' = job
        /\ journal' = [ws |-> job.ws, force |-> job.force, phase |-> "refs-removed"]
        /\ UNCHANGED <<row, imported, git, issued, crashes>>
    BY DEF MarkRefs, Save, From, Goto, bounds
  <2>1. Closing /\ Fading /\ pc' \in CloseLabels
    BY <2>0 DEF Closing, Fading, CloseLabels, git
  <2>2. job.ws \in Id /\ Live(job.ws) /\ job.force \in BOOLEAN
    BY <2>1, CloseFacts DEF LifecycleInv, TypeOK
  <2>3. journal' \in Close /\ journal' # None
    BY <2>0, <2>2, NullAssumption DEF Close
  <2>4. TypeOK'
    BY <2>0, <2>1, <2>3 DEF LifecycleInv, TypeOK, MarkRefs, Label, git, bounds
  <2>5. CloseProgress'
    BY <2>0, <2>1, <2>2, <2>3 DEF LifecycleInv, CloseProgress, Closing, Live
  <2>6. JournalPromise'
    BY <2>0, <2>1, <2>2, CloseFacts
       DEF LifecycleInv, CloseProgress, JournalPromise, Closing, Live, Gone, git
  <2>7. ReadyIsWhole'
    BY <2>3 DEF ReadyIsWhole
  <2>8. QED
    BY <2>1, <2>4, <2>5, <2>6, <2>7, FadingClose DEF LifecycleInv
<1>11. CASE Retire
  <2> USE <1>11
  <2>0. /\ pc = "retire" /\ pc' = "idle" /\ journal' = None
        /\ row' = [row EXCEPT ![job.ws] = "closed"]
        /\ UNCHANGED <<imported, git, issued, crashes>>
    BY DEF Retire, From, Return, bounds
  <2>1. Closing
    BY <2>0 DEF Closing, CloseLabels
  <2>2. /\ job.ws \in Id /\ Live(job.ws) /\ Gone(job.ws)
        /\ row \in [Id -> {None, "opening", "ready", "closed"}]
    BY <2>0, <2>1, CloseFacts
       DEF LifecycleInv, TypeOK, CloseProgress, JournalPromise, Closing
  <2>3. /\ row'[job.ws] = "closed"
        /\ \A w \in Id : w # job.ws => row'[w] = row[w] /\ row[w] = None
    BY <2>0, <2>2, NullAssumption DEF LifecycleInv, OneRow, Live
  <2>4. TypeOK'
    BY <2>0, <2>2, JobTyped DEF LifecycleInv, TypeOK, Retire, Label, git, bounds
  <2>5. FreshIds' /\ OneRow' /\ ClosedLeavesNothing'
    BY <2>0, <2>2, <2>3, NullAssumption
       DEF LifecycleInv, FreshIds, OneRow, ClosedLeavesNothing, Gone, Live, git
  <2>6. JournalPromise' /\ ReadyIsWhole'
    BY <2>0, <2>3, NullAssumption, NoneReady
  <2>7. NothingOrphaned'
    BY <2>0, <2>1, <2>2, <2>3, Labels
       DEF LifecycleInv, NothingOrphaned, Traces, Gone, Live, Opening, git
  <2>8. QED
    BY <2>0, <2>4, <2>5, <2>6, <2>7, AtRest DEF LifecycleInv
<1>12. QED
  BY <1>1, <1>2, <1>3, <1>4, <1>5, <1>6, <1>7, <1>8, <1>9, <1>10, <1>11

\* Kills, humans and stuttering preserve the invariant.
LEMMA OtherStepsKeepInv ==
    ASSUME LifecycleInv,
           \/ Crash \/ Work \/ Export \/ Occupy \/ UNCHANGED vars
    PROVE  LifecycleInv'
<1>1. CASE Crash
  <2> USE <1>1
  <2>0. /\ pc' = "idle" /\ crashes' = crashes + 1 /\ crashes' \in 1 .. MaxCrashes
        /\ UNCHANGED <<row, imported, journal, git, issued>>
    BY LifecycleAssumption DEF LifecycleInv, TypeOK, Crash, Return, database
  <2>1. Fading
    BY <2>0, LifecycleAssumption DEF Fading, git
  <2>2. TypeOK'
    BY <2>0, JobTyped, LifecycleAssumption
       DEF LifecycleInv, TypeOK, Crash, Label, git, database
  <2>3. ReadyIsWhole'
    BY <2>0 DEF LifecycleInv, ReadyIsWhole, Whole, git
  <2>4. NothingOrphaned'
    BY <2>0, LifecycleAssumption DEF NothingOrphaned
  <2>5. QED
    BY <2>0, <2>1, <2>2, <2>3, <2>4, FadingKeeps, FadingPromise, AtRest DEF LifecycleInv
<1>2. CASE Work
  <2> USE <1>2
  <2>1. UNCHANGED <<row, imported, journal, tree, branch, notes, pc, job, issued, crashes>>
    BY DEF Work, database, git
  <2>2. TypeOK'
    BY LifecycleAssumption DEF LifecycleInv, TypeOK, Work, Acting, database, git
  <2>3. /\ FreshIds' /\ OneRow' /\ ReadyIsWhole' /\ ClosedLeavesNothing'
        /\ JournalPromise' /\ NothingOrphaned'
    BY <2>1 DEF LifecycleInv, FreshIds, OneRow, ReadyIsWhole, Whole, Gone, Live,
                ClosedLeavesNothing, JournalPromise, NothingOrphaned, Traces
  <2>4. OpenProgress' /\ CloseProgress'
    BY <2>1 DEF LifecycleInv, OpenProgress, CloseProgress, Gone, Live
  <2>5. QED
    BY <2>2, <2>3, <2>4 DEF LifecycleInv
<1>3. CASE Export
  <2> USE <1>3
  <2>0. /\ pc = "idle" /\ pc' = "idle" /\ journal = None
        /\ tree \in Id /\ Live(tree) /\ imported' = imported \cup {tree}
        /\ UNCHANGED <<row, journal, git, issued, crashes>>
    BY DEF Export, From, bounds
  <2>1. TypeOK'
    BY <2>0 DEF LifecycleInv, TypeOK, Export, git, bounds
  <2>2. FreshIds' /\ OneRow' /\ ClosedLeavesNothing'
    BY <2>0, NullAssumption
       DEF LifecycleInv, FreshIds, OneRow, ClosedLeavesNothing, Gone, Live, git
  <2>3. JournalPromise' /\ ReadyIsWhole'
    BY <2>0 DEF LifecycleInv, JournalPromise, ReadyIsWhole, Whole, git
  <2>4. NothingOrphaned'
    BY <2>0, Labels DEF LifecycleInv, NothingOrphaned, Traces, Gone, Live, Opening, git
  <2>5. QED
    BY <2>0, <2>1, <2>2, <2>3, <2>4, AtRest DEF LifecycleInv
<1>4. CASE Occupy
  <2> USE <1>4
  <2>0. /\ tree = None /\ tree' = Foreign
        /\ UNCHANGED <<row, imported, journal, branch, notes, pc, job, issued, crashes>>
    BY DEF Occupy, database
  <2>1. Fading
    BY <2>0 DEF Fading
  <2>2. TypeOK'
    BY <2>0, LifecycleAssumption DEF LifecycleInv, TypeOK, Occupy, Acting
  <2>3. ReadyIsWhole'
    BY <2>0, NullAssumption DEF LifecycleInv, ReadyIsWhole, Whole
  <2>4. NothingOrphaned'
    BY <2>0, <2>1, FadingOwns DEF Opening
  <2>5. OpenProgress'
    <3>1. CASE Opening
      BY <2>0, <3>1, OpenFacts, NullAssumption
         DEF LifecycleInv, OpenProgress, Opening, Gone, Live
    <3>2. CASE ~Opening
      BY <2>0, <3>2 DEF OpenProgress, Opening
    <3>3. QED
      BY <3>1, <3>2
  <2>6. CloseProgress'
    <3>1. CASE Closing
      BY <2>0, <3>1, CloseFacts, NullAssumption
         DEF LifecycleInv, CloseProgress, Closing, Live
    <3>2. CASE ~Closing
      BY <2>0, <3>2 DEF CloseProgress, Closing
    <3>3. QED
      BY <3>1, <3>2
  <2>7. QED
    BY <2>0, <2>1, <2>2, <2>3, <2>4, <2>5, <2>6, FadingKeeps, FadingPromise
       DEF LifecycleInv
<1>5. CASE UNCHANGED vars
  BY <1>5 DEF vars, database, git, bounds, LifecycleInv, TypeOK, FreshIds, OneRow,
              OpenProgress, CloseProgress, JournalPromise, ReadyIsWhole, Whole, Gone,
              Live, ClosedLeavesNothing, NothingOrphaned, Traces
<1>6. QED
  BY <1>1, <1>2, <1>3, <1>4, <1>5

-----------------------------------------------------------------------------

\* LifecycleInv, the inductive invariant, holds of every reachable state: what
\* the progress of an open or a close, and the journal, say of the tables and the
\* repository is true whatever was killed, raised or changed by a human before.
THEOREM LifecycleInvariant == Spec => []LifecycleInv
<1>1. Init => LifecycleInv
  <2> SUFFICES ASSUME Init PROVE LifecycleInv
    OBVIOUS
  <2>1. TypeOK
    <3>1. job \in [ws : Id \cup {None}, force : BOOLEAN]
      BY DEF Init, NoJob
    <3>2. row \in [Id -> {None, "opening", "ready", "closed"}]
      BY DEF Init
    <3>3. /\ issued \in 0 .. MaxOpens /\ crashes \in 0 .. MaxCrashes
          /\ faults \in 0 .. MaxFaults /\ acts \in 0 .. MaxHuman
      BY LifecycleAssumption DEF Init
    <3>4. /\ imported \subseteq Id /\ notes \subseteq Id
          /\ journal \in Close \cup {None}
          /\ tree \in Id \cup {None, Foreign, Registered}
          /\ branch \in Id \cup {None} /\ work \in BOOLEAN /\ pc \in Label
      BY DEF Init, Label
    <3>5. QED
      BY <3>1, <3>2, <3>3, <3>4 DEF TypeOK
  <2>2. \A w \in Id : Gone(w) /\ row[w] = None /\ w \notin imported
    BY NullAssumption DEF Init, Gone
  <2>3. OpenProgress /\ CloseProgress /\ JournalPromise
    BY DEF Init, OpenProgress, CloseProgress, JournalPromise, OpenLabels,
           CleanupLabels, CloseLabels
  <2>4. QED
    BY <2>1, <2>2, <2>3, NullAssumption
       DEF LifecycleInv, FreshIds, OneRow, ReadyIsWhole, ClosedLeavesNothing,
           NothingOrphaned, Traces
<1>2. LifecycleInv /\ [Next]_vars => LifecycleInv'
  <2> SUFFICES ASSUME LifecycleInv, [Next]_vars
               PROVE  LifecycleInv'
    OBVIOUS
  <2>1. QED
    BY OpenStepsKeepInv, CleanupStepsKeepInv, CloseStepsKeepInv, OtherStepsKeepInv
       DEF Next, Step
<1>3. QED
  BY <1>1, <1>2, PTL DEF Spec

\* A workspace shown as ready has its checkout, branch, notes and import record
\* until its close is journalled.
THEOREM ReadyWorkspacesWhole == Spec => []ReadyIsWhole
<1>1. LifecycleInv => ReadyIsWhole
  BY DEF LifecycleInv
<1>2. QED
  BY <1>1, LifecycleInvariant, PTL

\* A closed workspace left no checkout, branch or notes ref behind, however often
\* its close was interrupted.
THEOREM ClosedWorkspacesGone == Spec => []ClosedLeavesNothing
<1>1. LifecycleInv => ClosedLeavesNothing
  BY DEF LifecycleInv
<1>2. QED
  BY <1>1, LifecycleInvariant, PTL

\* An open that fails at any step, without being killed, takes back what it made.
THEOREM FailedOpensTidy == Spec => []FailedOpenLeavesNothing
<1>1. LifecycleInv => FailedOpenLeavesNothing
  BY Labels DEF LifecycleInv, FailedOpenLeavesNothing, NothingOrphaned, From, Opening
<1>2. QED
  BY <1>1, LifecycleInvariant, PTL

\* No step removes a directory a human put at the checkout path.
THEOREM ForeignDirectoriesSpared == Spec => ForeignSpared
<1>1. LifecycleInv /\ [Next]_vars => [tree = Foreign => tree' = Foreign]_vars
  <2> SUFFICES ASSUME LifecycleInv, Next, tree = Foreign
               PROVE  tree' = Foreign
    OBVIOUS
  <2>1. ~Unlist
    BY NullAssumption DEF LifecycleInv, CloseProgress, CloseLabels, Unlist, From
  <2>2. CASE Remove
    <3>1. ~Opening /\ Closing
      BY <2>2 DEF Remove, From, Closing, Opening, CloseLabels, OpenLabels, CleanupLabels
    <3>2. QED
      BY <2>2, <3>1, CloseFacts, NullAssumption DEF Remove
  <2>3. CASE RemoveFailed \/ AddTree \/ Occupy
    BY <2>3, NullAssumption DEF RemoveFailed, AddTree, Occupy
  <2>4. QED
    BY <2>1, <2>2, <2>3
       DEF Next, Step, BeginOpen, BeginClose, ResumeClose, FailOpen, Crash, Work,
           Export, Construct, WriteNotes, AddBranch, Register, Import, MarkReady,
           Unregister, DropFailedBranch, DropFailedNotes, Detach, SaveClose,
           MarkRemoved, DropBranch, DropNotes, MarkRefs, Retire, git, database
<1>2. QED
  BY <1>1, LifecycleInvariant, PTL DEF Spec, ForeignSpared

=============================================================================
