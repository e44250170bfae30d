------------------------- MODULE DocumentIndexProofs -------------------------
(***************************************************************************)
(* Proofs about DocumentIndex, for any processes, documents, manifests,    *)
(* requests and number of runs and edits: what a run reports of a document *)
(* is so, and a failure leaves the row of before.                          *)
(***************************************************************************)
EXTENDS DocumentIndex, FiniteSetTheorems, TLAPS

Table == UNION {[S -> Row] : S \in SUBSET Document}

Outcome == {"failed", "unchanged", "updated", "indexed"}

Running ==
    [pc : {"next", "compared", "report"}, manifest : Manifests, all : BOOLEAN,
     todo : SUBSET Document, document : Document \cup {Null}, existing : Row \cup {Null},
     outcome : UNION {[S -> Outcome] : S \in SUBSET Document},
     before : Table, edits : Nat, alone : BOOLEAN]

TypeOK ==
    /\ file \in [FilePath -> Content \cup {Null}]
    /\ rows \in Table
    /\ run \in [Proc -> Running \cup {Idle}]
    /\ started \in Nat /\ edits \in Nat

Runs(p) == run[p].pc # "idle"

\* Every document of a run is about to be looked at, is being looked at or has
\* its outcome, and is in one of these.
Lists(p) ==
    /\ run[p].todo \cup DOMAIN run[p].outcome \subseteq DOMAIN run[p].manifest
    /\ run[p].todo \cap DOMAIN run[p].outcome = {}
    /\ run[p].pc = "compared" =>
          run[p].document \in DOMAIN run[p].manifest
                                \ (run[p].todo \cup DOMAIN run[p].outcome)

\* Nobody else is running.
Alone(p) == run[p].alone => \A q \in Proc \ {p} : ~ Runs(q)

\* Documents the run failed on, has still to come to or was not asked for.
Untouched(p) ==
    {d \in DOMAIN run[p].before :
        IF d \in DOMAIN run[p].outcome THEN run[p].outcome[d] = "failed"
        ELSE run[p].all => d \in DOMAIN run[p].manifest}

UntouchedKept(p) ==
    run[p].alone =>
        \A d \in Untouched(p) : d \in DOMAIN rows /\ rows[d] = run[p].before[d]

KeepsInv ==
    TypeOK /\ \A p \in Proc : Runs(p) => Lists(p) /\ Alone(p) /\ UntouchedKept(p)

\* What a row's fingerprint says its body was made from, it was made from.
TruePrints ==
    \A d \in DOMAIN rows : rows[d].body = Body(rows[d].print.sha256, rows[d].print.extractor)

\* The row a run alone compares with is the one in the table, and the file is
\* still the one it verified.
Compared(p) ==
    run[p].pc = "compared" =>
        LET d == run[p].document IN
        /\ Valid(run[p].manifest[d])
        /\ run[p].alone =>
              run[p].existing = IF d \in DOMAIN rows THEN rows[d] ELSE Null

\* What a run alone has reported so far.
ReportedTrue(p) ==
    run[p].alone =>
        /\ \A d \in DOMAIN run[p].outcome :
              run[p].outcome[d] # "failed" =>
                  /\ Valid(run[p].manifest[d])
                  /\ d \in DOMAIN rows /\ rows[d] = Built(run[p].manifest[d])
        /\ run[p].pc = "report" /\ run[p].all =>
              DOMAIN rows \subseteq DOMAIN run[p].manifest

OutcomeInv ==
    /\ KeepsInv /\ TruePrints
    /\ \A p \in Proc : Runs(p) =>
          run[p].edits = edits /\ Compared(p) /\ ReportedTrue(p)

\* The rest of a run stays as it is while it goes on.
SameRun(p) ==
    /\ run[p] \in Running /\ run'[p] \in Running
    /\ run' \in [Proc -> Running \cup {Idle}]
    /\ \A q \in Proc \ {p} : run'[q] = run[q]
    /\ run'[p].manifest = run[p].manifest /\ run'[p].all = run[p].all
    /\ run'[p].before = run[p].before /\ run'[p].edits = run[p].edits
    /\ run'[p].alone = run[p].alone

\* A run takes up a document, or notes the outcome of one.
TakenUp(p, d) ==
    /\ SameRun(p) /\ run[p].pc = "next" /\ run'[p].pc = "compared"
    /\ d \in run[p].todo /\ run'[p].todo = run[p].todo \ {d}
    /\ run'[p].document = d /\ run'[p].outcome = run[p].outcome
    /\ run'[p].existing = IF d \in DOMAIN rows THEN rows[d] ELSE Null
    /\ Valid(run[p].manifest[d])
    /\ rows' = rows

Noted(p, d, outcome) ==
    /\ SameRun(p) /\ run'[p].pc = "next"
    /\ \/ run[p].pc = "next" /\ d \in run[p].todo /\ run'[p].todo = run[p].todo \ {d}
       \/ run[p].pc = "compared" /\ d = run[p].document /\ run'[p].todo = run[p].todo
    /\ run'[p].outcome = [x \in DOMAIN run[p].outcome \cup {d} |->
                              IF x = d THEN outcome ELSE run[p].outcome[x]]
    /\ outcome \in Outcome

\* The table but for one document.
OthersKept(d) ==
    /\ DOMAIN rows' \ {d} = DOMAIN rows \ {d}
    /\ \A x \in DOMAIN rows \ {d} : rows'[x] = rows[x]

\* The table as a function, and what a manifest lists.
LEMMA TableRows ==
    ASSUME TypeOK
    PROVE  DOMAIN rows \subseteq Document /\ rows \in [DOMAIN rows -> Row]
BY DEF TypeOK, Table

LEMMA ManifestEntries ==
    ASSUME NEW m \in Manifests
    PROVE  DOMAIN m \subseteq Document /\ \A d \in DOMAIN m : m[d] \in Entry
BY DocumentIndexAssumption

LEMMA Typed ==
    ASSUME TypeOK, NEW p \in Proc, Runs(p)
    PROVE  /\ run[p] \in Running
           /\ DOMAIN run[p].outcome \subseteq Document
           /\ run[p].outcome \in [DOMAIN run[p].outcome -> Outcome]
           /\ DOMAIN run[p].before \subseteq Document
           /\ run[p].before \in [DOMAIN run[p].before -> Row]
<1>1. run[p] \in Running BY DEF TypeOK, Runs, Idle
<1>2. run[p].outcome \in UNION {[S -> Outcome] : S \in SUBSET Document}
  BY <1>1 DEF Running
<1>3. run[p].before \in Table BY <1>1 DEF Running
<1> QED BY <1>1, <1>2, <1>3 DEF Table

LEMMA NotedOutcome ==
    ASSUME NEW f \in UNION {[S -> Outcome] : S \in SUBSET Document},
           NEW d \in Document, NEW o \in Outcome
    PROVE  [x \in DOMAIN f \cup {d} |-> IF x = d THEN o ELSE f[x]]
              \in UNION {[S -> Outcome] : S \in SUBSET Document}
<1>1. DOMAIN f \subseteq Document /\ f \in [DOMAIN f -> Outcome] OBVIOUS
<1>2. [x \in DOMAIN f \cup {d} |-> IF x = d THEN o ELSE f[x]]
          \in [DOMAIN f \cup {d} -> Outcome]
  BY <1>1
<1> QED BY <1>1, <1>2

LEMMA PutRow ==
    ASSUME TypeOK, NEW d \in Document, NEW r \in Row
    PROVE  Put(d, r) \in Table
<1>1. Put(d, r) \in [DOMAIN rows \cup {d} -> Row] BY TableRows DEF Put
<1> QED BY <1>1, TableRows DEF Table

LEMMA EndsNotes ==
    ASSUME TypeOK, NEW p \in Proc, Lists(p), NEW o \in Outcome,
           run[p].pc = "compared", Ends(p, run[p].document, o)
    PROVE  Noted(p, run[p].document, o)
<1> DEFINE r == run[p]
           d == r.document
           m == [r EXCEPT !.pc = "next",
                          !.outcome = [x \in DOMAIN @ \cup {d} |-> IF x = d THEN o ELSE @[x]]]
<1>1. r \in Running BY Typed DEF Runs
<1>2. d \in Document BY <1>1, ManifestEntries DEF Lists, Running
<1>3. [x \in DOMAIN r.outcome \cup {d} |-> IF x = d THEN o ELSE r.outcome[x]]
          \in UNION {[S -> Outcome] : S \in SUBSET Document}
  BY <1>1, <1>2, NotedOutcome DEF Running
<1>4. run' = [run EXCEPT ![p] = m] BY DEF Ends
<1>5. /\ m.pc = "next"
      /\ m.outcome = [x \in DOMAIN r.outcome \cup {d} |-> IF x = d THEN o ELSE r.outcome[x]]
      /\ m.manifest = r.manifest /\ m.all = r.all /\ m.todo = r.todo
      /\ m.before = r.before /\ m.edits = r.edits /\ m.alone = r.alone
  BY <1>1 DEF Running
<1>6. m \in Running BY <1>1, <1>3 DEF Running
<1> HIDE DEF m
<1>7. run'[p] = m /\ run' \in [Proc -> Running \cup {Idle}]
      /\ \A q \in Proc \ {p} : run'[q] = run[q]
  BY <1>4, <1>6 DEF TypeOK
<1> QED BY <1>1, <1>5, <1>6, <1>7 DEF Noted, SameRun

LEMMA ValidateEffect ==
    ASSUME TypeOK, NEW p \in Proc, Lists(p), Validate(p)
    PROVE  /\ \/ \E d \in DOMAIN run[p].manifest : TakenUp(p, d)
              \/ \E d \in DOMAIN run[p].manifest :
                    Noted(p, d, "failed") /\ ~ Valid(run[p].manifest[d])
           /\ rows' = rows
<1> DEFINE r == run[p]
<1>1. r \in Running /\ r.pc = "next" BY Typed DEF Runs, Validate
<1>2. PICK d \in r.todo : d = CHOOSE x \in r.todo : TRUE BY DEF Validate
<1>3. d \in DOMAIN r.manifest /\ d \in Document BY <1>1, ManifestEntries DEF Lists, Running
<1>4. CASE Valid(r.manifest[d])
  <2> DEFINE m == [r EXCEPT !.pc = "compared", !.document = d, !.todo = @ \ {d},
                            !.existing = IF d \in DOMAIN rows THEN rows[d] ELSE Null]
  <2>1. run' = [run EXCEPT ![p] = m] BY <1>2, <1>4 DEF Validate
  <2>2. /\ m.pc = "compared" /\ m.document = d /\ m.todo = r.todo \ {d}
        /\ m.existing = (IF d \in DOMAIN rows THEN rows[d] ELSE Null)
        /\ m.manifest = r.manifest /\ m.all = r.all /\ m.outcome = r.outcome
        /\ m.before = r.before /\ m.edits = r.edits /\ m.alone = r.alone
    BY <1>1 DEF Running
  <2>3. (IF d \in DOMAIN rows THEN rows[d] ELSE Null) \in Row \cup {Null} BY TableRows
  <2>4. m \in Running BY <1>1, <1>3, <2>3 DEF Running
  <2> HIDE DEF m
  <2>5. run'[p] = m /\ run' \in [Proc -> Running \cup {Idle}]
        /\ \A q \in Proc \ {p} : run'[q] = run[q]
    BY <2>1, <2>4 DEF TypeOK
  <2>6. rows' = rows BY DEF Validate
  <2>7. TakenUp(p, d) BY <1>1, <1>4, <2>2, <2>4, <2>5, <2>6 DEF TakenUp, SameRun
  <2> QED BY <1>3, <2>6, <2>7
<1>5. CASE ~ Valid(r.manifest[d])
  <2> DEFINE m == [r EXCEPT !.todo = @ \ {d},
                            !.outcome = [x \in DOMAIN @ \cup {d} |->
                                            IF x = d THEN "failed" ELSE @[x]]]
  <2>1. run' = [run EXCEPT ![p] = m] BY <1>2, <1>5 DEF Validate
  <2>2. /\ m.pc = "next" /\ m.todo = r.todo \ {d}
        /\ m.outcome = [x \in DOMAIN r.outcome \cup {d} |->
                            IF x = d THEN "failed" ELSE r.outcome[x]]
        /\ m.manifest = r.manifest /\ m.all = r.all
        /\ m.before = r.before /\ m.edits = r.edits /\ m.alone = r.alone
    BY <1>1 DEF Running
  <2>3. [x \in DOMAIN r.outcome \cup {d} |-> IF x = d THEN "failed" ELSE r.outcome[x]]
            \in UNION {[S -> Outcome] : S \in SUBSET Document}
    BY <1>1, <1>3, NotedOutcome DEF Running, Outcome
  <2>4. m \in Running BY <1>1, <2>3 DEF Running
  <2> HIDE DEF m
  <2>5. run'[p] = m /\ run' \in [Proc -> Running \cup {Idle}]
        /\ \A q \in Proc \ {p} : run'[q] = run[q]
    BY <2>1, <2>4 DEF TypeOK
  <2>6. Noted(p, d, "failed")
    BY <1>1, <2>2, <2>4, <2>5 DEF Noted, SameRun, Outcome
  <2>7. rows' = rows BY DEF Validate
  <2> QED BY <1>3, <1>5, <2>6, <2>7
<1> QED BY <1>4, <1>5

\* How the row of a document comes to be as a run reports it.
Written(p, o) ==
    LET d == run[p].document
        entry == run[p].manifest[d]
    IN  /\ run[p].pc = "compared"
        /\ \/ o = "unchanged" /\ SamePrint(p) /\ SameMetadata(p) /\ rows' = rows
           \/ o = "updated" /\ SamePrint(p) /\ d \notin DOMAIN rows /\ rows' = rows
           \/ /\ o = "updated" /\ SamePrint(p) /\ d \in DOMAIN rows
              /\ rows' = [rows EXCEPT ![d].path = entry.path, ![d].tags = entry.tags]
           \/ /\ o = "indexed" /\ file[entry.path] \in Content
              /\ rows' = Put(d, [Built(entry) EXCEPT
                                    !.body = Body(file[entry.path], entry.extractor)])

\* What Unchanged, UpdateMetadata and Replace do.
LEMMA CompareEffect ==
    ASSUME TypeOK, NEW p \in Proc, Lists(p), Unchanged(p) \/ UpdateMetadata(p) \/ Replace(p)
    PROVE  \E o \in Outcome :
              /\ Noted(p, run[p].document, o)
              /\ rows' \in Table /\ OthersKept(run[p].document)
              /\ IF o = "failed" THEN rows' = rows ELSE Written(p, o)
              /\ run[p].document \in DOMAIN run[p].manifest
<1> DEFINE r == run[p]
           d == r.document
           entry == r.manifest[d]
<1>1. r \in Running /\ r.pc = "compared"
  BY Typed DEF Runs, Unchanged, UpdateMetadata, Replace
<1>2. d \in DOMAIN r.manifest /\ d \in Document /\ entry \in Entry
  BY <1>1, ManifestEntries DEF Lists, Running
<1>3. ASSUME NEW o \in Outcome, Ends(p, d, o) PROVE Noted(p, d, o)
  BY <1>1, <1>3, EndsNotes
<1>4. rows' = rows => OthersKept(d) /\ rows' \in Table BY DEF OthersKept, TypeOK
<1>5. CASE Unchanged(p)
  <2>1. rows' = rows /\ Ends(p, d, "unchanged") BY <1>5 DEF Unchanged
  <2>2. Noted(p, d, "unchanged") BY <1>3, <2>1 DEF Outcome
  <2>3. Written(p, "unchanged") BY <1>5, <2>1 DEF Written, Unchanged
  <2> QED BY <1>2, <1>4, <2>1, <2>2, <2>3 DEF Outcome
<1>6. CASE UpdateMetadata(p)
  <2>1. CASE d \in DOMAIN rows /\ PathFree(d, entry.path)
    <3>1. /\ rows' = [rows EXCEPT ![d].path = entry.path, ![d].tags = entry.tags]
          /\ Ends(p, d, "updated")
      BY <1>6, <2>1 DEF UpdateMetadata
    <3> DEFINE m == [rows[d] EXCEPT !.path = entry.path, !.tags = entry.tags]
    <3>2. rows' = [rows EXCEPT ![d] = m] BY <2>1, <3>1, TableRows
    <3>3. m \in Row
      <4>1. rows[d] \in Row BY <2>1, TableRows
      <4> QED BY <1>2, <4>1 DEF Row, Entry
    <3> HIDE DEF m
    <3>4. rows' \in [DOMAIN rows -> Row] BY <3>2, <3>3, TableRows
    <3>5. rows' \in Table BY <3>4, TableRows DEF Table
    <3>6. OthersKept(d) BY <3>2, TableRows DEF OthersKept
    <3>7. Noted(p, d, "updated") BY <1>3, <3>1 DEF Outcome
    <3>8. Written(p, "updated") BY <1>1, <1>6, <2>1, <3>1 DEF Written, UpdateMetadata
    <3> QED BY <1>2, <3>5, <3>6, <3>7, <3>8 DEF Outcome
  <2>2. CASE ~ (d \in DOMAIN rows /\ PathFree(d, entry.path))
    <3>1. PICK o \in {"failed", "updated"} :
             Ends(p, d, o) /\ (o = "updated" => d \notin DOMAIN rows)
      BY <1>6, <2>2 DEF UpdateMetadata
    <3>2. rows' = rows BY <1>6, <2>2 DEF UpdateMetadata
    <3>3. o \in Outcome BY DEF Outcome
    <3>4. o # "failed" => Written(p, o)
      BY <1>6, <3>1, <3>2 DEF Written, UpdateMetadata
    <3> QED BY <1>2, <1>3, <1>4, <3>1, <3>2, <3>3, <3>4
  <2> QED BY <2>1, <2>2
<1>7. CASE Replace(p)
  <2>1. CASE PathFree(d, entry.path) /\ Extractable(file[entry.path])
    <3> DEFINE m == [Built(entry) EXCEPT !.body = Body(file[entry.path], entry.extractor)]
    <3>1. rows' = Put(d, m) /\ Ends(p, d, "indexed") BY <1>7, <2>1 DEF Replace
    <3>2. m \in Row
      <4>1. file[entry.path] \in Content BY <1>2, <2>1 DEF TypeOK, Entry, Extractable
      <4> QED BY <1>2, <4>1 DEF Row, Entry, Built, Body, Fingerprint
    <3>6. Written(p, "indexed")
      <4>1. file[entry.path] \in Content BY <1>2, <2>1 DEF TypeOK, Entry, Extractable
      <4> QED BY <1>1, <3>1, <4>1 DEF Written
    <3> HIDE DEF m
    <3>3. rows' \in Table BY <1>2, <3>1, <3>2, PutRow
    <3>4. OthersKept(d) BY <3>1, TableRows DEF OthersKept, Put
    <3>5. Noted(p, d, "indexed") BY <1>3, <3>1 DEF Outcome
    <3> QED BY <1>2, <3>3, <3>4, <3>5, <3>6 DEF Outcome
  <2>2. CASE ~ (PathFree(d, entry.path) /\ Extractable(file[entry.path]))
    <3>1. rows' = rows /\ Ends(p, d, "failed") BY <1>7, <2>2 DEF Replace
    <3>2. Noted(p, d, "failed") BY <1>3, <3>1 DEF Outcome
    <3> QED BY <1>2, <1>4, <3>1, <3>2 DEF Outcome
  <2> QED BY <2>1, <2>2
<1> QED BY <1>5, <1>6, <1>7

\* A run that was killed or has returned.
Stopped(p) == run' = [run EXCEPT ![p] = Idle]

LEMMA RemoveEffect ==
    ASSUME TypeOK, NEW p \in Proc, RemoveUnlisted(p)
    PROVE  \E d \in DOMAIN rows \ DOMAIN run[p].manifest :
              rows' \in Table /\ OthersKept(d) /\ DOMAIN rows' = DOMAIN rows \ {d}
<1>1. PICK d \in DOMAIN rows \ DOMAIN run[p].manifest :
         rows' = Restrict(rows, DOMAIN rows \ {d})
  BY DEF RemoveUnlisted, Unlisted
<1>2. rows' = [x \in DOMAIN rows \ {d} |-> rows[x]] BY <1>1 DEF Restrict
<1>3. rows' \in [DOMAIN rows \ {d} -> Row] BY <1>2, TableRows
<1>4. rows' \in Table BY <1>3, TableRows DEF Table
<1> QED BY <1>2, <1>4 DEF OthersKept

LEMMA ReportEffect ==
    ASSUME TypeOK, NEW p \in Proc, Report(p)
    PROVE  /\ SameRun(p) /\ run[p].pc = "next" /\ run'[p].pc = "report" /\ rows' = rows
           /\ run'[p].todo = run[p].todo /\ run'[p].outcome = run[p].outcome
           /\ run[p].all => DOMAIN rows \subseteq DOMAIN run[p].manifest
<1> DEFINE r == run[p]
           m == [r EXCEPT !.pc = "report"]
<1>1. r \in Running /\ r.pc = "next" BY Typed DEF Runs, Report
<1>2. run' = [run EXCEPT ![p] = m] BY DEF Report
<1>3. /\ m.pc = "report" /\ m.todo = r.todo /\ m.outcome = r.outcome
      /\ m.manifest = r.manifest /\ m.all = r.all
      /\ m.before = r.before /\ m.edits = r.edits /\ m.alone = r.alone
  BY <1>1 DEF Running
<1>4. m \in Running BY <1>1 DEF Running
<1> HIDE DEF m
<1>5. run'[p] = m /\ run' \in [Proc -> Running \cup {Idle}]
      /\ \A q \in Proc \ {p} : run'[q] = run[q]
  BY <1>2, <1>4 DEF TypeOK
<1> QED BY <1>1, <1>3, <1>4, <1>5 DEF SameRun, Report, Unlisted

\* A run starts with everything to do; those it meets are not alone any more.
LEMMA StartEffect ==
    ASSUME TypeOK, NEW p \in Proc, NEW m \in Manifests, NEW requested \in Requests,
           Start(p, m, requested)
    PROVE  /\ run' \in [Proc -> Running \cup {Idle}] /\ ~ Runs(p)
           /\ run'[p].pc = "next" /\ run'[p].manifest = m
           /\ run'[p].all = (requested = {})
           /\ run'[p].todo \subseteq DOMAIN m
           /\ requested = {} => run'[p].todo = DOMAIN m
           /\ run'[p].outcome = <<>> /\ run'[p].before = rows
           /\ run'[p].edits = edits
           /\ run'[p].alone = \A q \in Proc \ {p} : ~ Runs(q)
           /\ \A q \in Proc \ {p} : ~ Runs(q) => run'[q] = Idle
           /\ \A q \in Proc \ {p} : Runs(q) => run'[q] = [run[q] EXCEPT !.alone = FALSE]
           /\ rows' = rows
<1> DEFINE n == [pc |-> "next", manifest |-> m,
               all |-> requested = {},
               todo |-> IF requested = {} THEN DOMAIN m ELSE requested,
               document |-> Null, existing |-> Null, outcome |-> <<>>,
               before |-> rows, edits |-> edits,
               alone |-> \A x \in Proc \ {p} : run[x].pc = "idle"]
           other(q) == IF run[q].pc = "idle" THEN Idle ELSE [run[q] EXCEPT !.alone = FALSE]
<1>1. run' = [q \in Proc |-> IF q = p THEN n ELSE other(q)] BY DEF Start
<1>2. <<>> \in UNION {[S -> Outcome] : S \in SUBSET Document}
  <2>1. <<>> \in [{} -> Outcome] OBVIOUS
  <2> QED BY <2>1
<1>3. n.todo \subseteq DOMAIN m /\ n.todo \subseteq Document BY ManifestEntries DEF Start
<1>4. n \in Running BY <1>2, <1>3 DEF Running, TypeOK
<1>5. \A q \in Proc : other(q) \in Running \cup {Idle}
  <2>1. TAKE q \in Proc
  <2>2. CASE Runs(q)
    <3>1. run[q] \in Running BY <2>2, Typed
    <3>2. [run[q] EXCEPT !.alone = FALSE] \in Running BY <3>1 DEF Running
    <3> QED BY <2>2, <3>2 DEF Runs
  <2>3. CASE ~ Runs(q) BY <2>3 DEF Runs
  <2> QED BY <2>2, <2>3
<1>6. run' \in [Proc -> Running \cup {Idle}] BY <1>1, <1>4, <1>5
<1>7. run'[p] = n BY <1>1
<1>8. \A q \in Proc \ {p} : run'[q] = other(q) BY <1>1
<1>9. \A q \in Proc \ {p} : /\ ~ Runs(q) => run'[q] = Idle
                            /\ Runs(q) => run'[q] = [run[q] EXCEPT !.alone = FALSE]
  BY <1>8 DEF Runs
<1>10. rows' = rows /\ ~ Runs(p) BY DEF Start, Runs
<1> QED BY <1>3, <1>6, <1>7, <1>9, <1>10 DEF Runs

\* A document gets its outcome; its row alone changes, unless it failed.
Judged(p, d, o) ==
    /\ Noted(p, d, o) /\ d \in DOMAIN run[p].manifest
    /\ rows' \in Table /\ OthersKept(d)
    /\ IF o = "failed" THEN rows' = rows ELSE d = run[p].document /\ Written(p, o)

\* The table loses a document that a full run does not list.
Cleared(p) ==
    /\ run[p].pc = "next" /\ run[p].all /\ run' = run /\ rows' \in Table
    /\ \E d \in DOMAIN rows \ DOMAIN run[p].manifest :
          OthersKept(d) /\ DOMAIN rows' = DOMAIN rows \ {d}

Reported(p) ==
    /\ SameRun(p) /\ run[p].pc = "next" /\ run'[p].pc = "report" /\ rows' = rows
    /\ run'[p].todo = run[p].todo /\ run'[p].outcome = run[p].outcome
    /\ run[p].all => DOMAIN rows \subseteq DOMAIN run[p].manifest

LEMMA StepEffect ==
    ASSUME KeepsInv, NEW p \in Proc, Step(p)
    PROVE  /\ Runs(p) /\ file' = file /\ started' = started /\ edits' = edits
           /\ \/ \E d \in DOMAIN run[p].manifest : TakenUp(p, d)
              \/ \E d \in DOMAIN run[p].manifest, o \in Outcome : Judged(p, d, o)
              \/ Cleared(p)
              \/ Reported(p)
              \/ Stopped(p) /\ rows' = rows
<1>1. TypeOK /\ (Runs(p) => Lists(p)) BY DEF KeepsInv
<1>2. Runs(p)
  BY DEF Step, Runs, Validate, Unchanged, UpdateMetadata, Replace, RemoveUnlisted, Report,
         Return, Kill
<1>3. file' = file /\ started' = started /\ edits' = edits
  BY DEF Step, Validate, Unchanged, UpdateMetadata, Replace, RemoveUnlisted, Report,
         Return, Kill
<1>4. CASE Validate(p)
  <2>1. \/ \E d \in DOMAIN run[p].manifest : TakenUp(p, d)
        \/ \E d \in DOMAIN run[p].manifest : Noted(p, d, "failed")
    BY <1>1, <1>2, <1>4, ValidateEffect
  <2>2. rows' = rows BY <1>1, <1>2, <1>4, ValidateEffect
  <2>3. ASSUME NEW d \in DOMAIN run[p].manifest, Noted(p, d, "failed")
        PROVE  Judged(p, d, "failed")
    BY <1>1, <2>2, <2>3 DEF Judged, OthersKept, TypeOK
  <2> QED BY <1>2, <1>3, <2>1, <2>3 DEF Outcome
<1>5. CASE Unchanged(p) \/ UpdateMetadata(p) \/ Replace(p)
  <2>1. \E o \in Outcome :
           /\ Noted(p, run[p].document, o)
           /\ rows' \in Table /\ OthersKept(run[p].document)
           /\ IF o = "failed" THEN rows' = rows ELSE Written(p, o)
           /\ run[p].document \in DOMAIN run[p].manifest
    BY <1>1, <1>2, <1>5, CompareEffect
  <2>2. \E d \in DOMAIN run[p].manifest, o \in Outcome : Judged(p, d, o)
    BY <2>1 DEF Judged
  <2> QED BY <1>2, <1>3, <2>2
<1>6. CASE RemoveUnlisted(p)
  <2>1. \E d \in DOMAIN rows \ DOMAIN run[p].manifest :
           rows' \in Table /\ OthersKept(d) /\ DOMAIN rows' = DOMAIN rows \ {d}
    BY <1>1, <1>6, RemoveEffect
  <2>2. Cleared(p) BY <1>6, <2>1 DEF Cleared, RemoveUnlisted
  <2> QED BY <1>2, <1>3, <2>2
<1>7. CASE Report(p) BY <1>1, <1>2, <1>3, <1>7, ReportEffect DEF Reported
<1>8. CASE Return(p) \/ Kill(p) BY <1>2, <1>3, <1>8 DEF Return, Kill, Stopped
<1> QED BY <1>4, <1>5, <1>6, <1>7, <1>8 DEF Step

LEMMA KeepsStep ==
    ASSUME KeepsInv, NEW p \in Proc, Step(p)
    PROVE  KeepsInv'
<1> DEFINE r == run[p]
<1>1. /\ TypeOK /\ Lists(p) /\ Alone(p) /\ UntouchedKept(p) /\ Runs(p)
      /\ file' = file /\ started' = started /\ edits' = edits
  BY StepEffect DEF KeepsInv
<1>2. ASSUME NEW q \in Proc \ {p}, run'[q] = run[q], Runs(q)'
      PROVE  Lists(q)' /\ Alone(q)' /\ UntouchedKept(q)'
  <2>1. Runs(q) /\ Lists(q) /\ Alone(q) BY <1>2 DEF Runs, KeepsInv
  <2>2. ~ run[q].alone BY <1>1, <2>1 DEF Alone
  <2> QED BY <1>2, <2>1, <2>2 DEF Lists, Alone, UntouchedKept
<1>3. ASSUME NEW d \in DOMAIN r.manifest, TakenUp(p, d) PROVE KeepsInv'
  <2>1. TypeOK' BY <1>1, <1>3 DEF TakenUp, SameRun, TypeOK
  <2>2. Lists(p)' BY <1>1, <1>3 DEF TakenUp, SameRun, Lists
  <2>3. Alone(p)' BY <1>1, <1>3 DEF TakenUp, SameRun, Alone, Runs
  <2>4. UntouchedKept(p)' BY <1>1, <1>3 DEF TakenUp, SameRun, UntouchedKept, Untouched
  <2>5. \A q \in Proc \ {p} : run'[q] = run[q] BY <1>3 DEF TakenUp, SameRun
  <2> QED BY <1>2, <2>1, <2>2, <2>3, <2>4, <2>5 DEF KeepsInv
<1>4. ASSUME NEW d \in DOMAIN r.manifest, NEW o \in Outcome, Judged(p, d, o)
      PROVE  KeepsInv'
  <2>0. Noted(p, d, o) /\ SameRun(p) BY <1>4 DEF Judged, Noted
  <2>1. TypeOK' BY <1>1, <1>4, <2>0 DEF Judged, SameRun, TypeOK
  <2>2. d \notin DOMAIN r.outcome /\ DOMAIN run'[p].outcome = DOMAIN r.outcome \cup {d}
    BY <1>1, <2>0 DEF Noted, Lists
  <2>3. Lists(p)'
    <3>1. run'[p].pc = "next" /\ run'[p].manifest = r.manifest
      BY <2>0 DEF Noted, SameRun
    <3>2. run'[p].todo \subseteq r.todo /\ d \notin run'[p].todo
      BY <1>1, <2>0 DEF Noted, Lists
    <3> QED BY <1>1, <2>2, <3>1, <3>2 DEF Lists
  <2>4. Alone(p)' BY <1>1, <2>0 DEF SameRun, Alone, Runs
  <2>5. UntouchedKept(p)'
    <3>1. SUFFICES ASSUME r.alone, NEW x \in Untouched(p)'
                   PROVE  x \in DOMAIN rows' /\ rows'[x] = r.before[x]
      BY <2>0 DEF UntouchedKept, SameRun
    <3>2. x \in DOMAIN r.before /\ run'[p].before = r.before /\ run'[p].all = r.all
          /\ run'[p].manifest = r.manifest
      BY <2>0, <3>1 DEF Untouched, SameRun
    <3>3. CASE x = d
      <4>1. o = "failed" BY <2>0, <2>2, <3>1, <3>3 DEF Untouched, Noted
      <4>2. x \in Untouched(p) BY <1>4, <2>2, <3>2, <3>3 DEF Untouched
      <4> QED BY <1>1, <1>4, <3>1, <4>1, <4>2 DEF UntouchedKept, Judged
    <3>4. CASE x # d
      <4>1. x \in Untouched(p) BY <2>0, <3>1, <3>2, <3>4 DEF Untouched, Noted
      <4> QED BY <1>1, <1>4, <3>1, <3>4, <4>1 DEF UntouchedKept, Judged, OthersKept
    <3> QED BY <3>3, <3>4
  <2>6. \A q \in Proc \ {p} : run'[q] = run[q] BY <2>0 DEF SameRun
  <2> QED BY <1>2, <2>1, <2>3, <2>4, <2>5, <2>6 DEF KeepsInv
<1>5. CASE Cleared(p)
  <2>1. run' = run /\ r.all BY <1>5 DEF Cleared
  <2>2. TypeOK' BY <1>1, <1>5 DEF Cleared, TypeOK
  <2>3. Lists(p)' /\ Alone(p)' BY <1>1, <2>1 DEF Lists, Alone, Runs
  <2>4. UntouchedKept(p)'
    <3>1. SUFFICES ASSUME r.alone, NEW x \in Untouched(p)
                   PROVE  x \in DOMAIN rows' /\ rows'[x] = r.before[x]
      BY <2>1 DEF UntouchedKept, Untouched
    <3>2. x \in DOMAIN r.manifest BY <1>1, <2>1, <3>1 DEF Untouched, Lists
    <3>3. x \in DOMAIN rows /\ rows[x] = r.before[x] BY <1>1, <3>1 DEF UntouchedKept
    <3> QED BY <1>5, <3>2, <3>3 DEF Cleared, OthersKept
  <2> QED BY <1>2, <2>1, <2>2, <2>3, <2>4 DEF KeepsInv
<1>6. CASE Reported(p)
  <2>1. TypeOK' BY <1>1, <1>6 DEF Reported, SameRun, TypeOK
  <2>2. Lists(p)' BY <1>1, <1>6 DEF Reported, SameRun, Lists
  <2>3. Alone(p)' BY <1>1, <1>6 DEF Reported, SameRun, Alone, Runs
  <2>4. UntouchedKept(p)' BY <1>1, <1>6 DEF Reported, SameRun, UntouchedKept, Untouched
  <2>5. \A q \in Proc \ {p} : run'[q] = run[q] BY <1>6 DEF Reported, SameRun
  <2> QED BY <1>2, <2>1, <2>2, <2>3, <2>4, <2>5 DEF KeepsInv
<1>7. CASE Stopped(p) /\ rows' = rows
  <2>1. run'[p] = Idle /\ \A q \in Proc \ {p} : run'[q] = run[q]
    BY <1>1, <1>7 DEF Stopped, TypeOK
  <2>2. TypeOK' BY <1>1, <1>7 DEF Stopped, TypeOK
  <2>3. ~ Runs(p)' BY <2>1 DEF Runs, Idle
  <2> QED BY <1>2, <2>1, <2>2, <2>3 DEF KeepsInv
<1> QED BY <1>3, <1>4, <1>5, <1>6, <1>7, StepEffect

LEMMA KeepsStart ==
    ASSUME KeepsInv, NEW p \in Proc, NEW m \in Manifests, NEW requested \in Requests,
           Start(p, m, requested)
    PROVE  KeepsInv'
<1>1. TypeOK BY DEF KeepsInv
<1>2. /\ run' \in [Proc -> Running \cup {Idle}] /\ ~ Runs(p)
      /\ run'[p].pc = "next" /\ run'[p].manifest = m
      /\ run'[p].todo \subseteq DOMAIN m
      /\ run'[p].outcome = <<>> /\ run'[p].before = rows
      /\ run'[p].alone = \A q \in Proc \ {p} : ~ Runs(q)
      /\ \A q \in Proc \ {p} : ~ Runs(q) => run'[q] = Idle
      /\ \A q \in Proc \ {p} : Runs(q) => run'[q] = [run[q] EXCEPT !.alone = FALSE]
      /\ rows' = rows
  BY <1>1, StartEffect
<1>3. TypeOK'
  BY <1>1, <1>2 DEF TypeOK, Start
<1>4. Lists(p)' BY <1>2 DEF Lists
<1>5. Alone(p)'
  <2>1. ASSUME NEW q \in Proc \ {p}, run'[p].alone PROVE ~ Runs(q)'
    <3>1. run'[q] = Idle BY <1>2, <2>1
    <3> QED BY <3>1 DEF Runs, Idle
  <2> QED BY <2>1 DEF Alone
<1>6. UntouchedKept(p)' BY <1>2 DEF UntouchedKept, Untouched
<1>7. ASSUME NEW q \in Proc \ {p}, Runs(q)'
      PROVE  Lists(q)' /\ Alone(q)' /\ UntouchedKept(q)'
  <2>1. Runs(q) BY <1>2, <1>7 DEF Runs, Idle
  <2>2. run[q] \in Running /\ Lists(q) BY <1>1, <2>1, Typed DEF KeepsInv
  <2>3. run'[q] = [run[q] EXCEPT !.alone = FALSE] BY <1>2, <2>1
  <2>4. /\ ~ run'[q].alone /\ run'[q].todo = run[q].todo /\ run'[q].pc = run[q].pc
        /\ run'[q].outcome = run[q].outcome /\ run'[q].manifest = run[q].manifest
        /\ run'[q].document = run[q].document
    BY <2>2, <2>3 DEF Running
  <2> QED BY <2>2, <2>4 DEF Lists, Alone, UntouchedKept
<1> QED BY <1>3, <1>4, <1>5, <1>6, <1>7 DEF KeepsInv

LEMMA KeepsEdit ==
    ASSUME KeepsInv, NEW path \in FilePath, NEW content \in Content \cup {Null},
           EditFile(path, content)
    PROVE  KeepsInv'
<1>1. TypeOK' BY DEF KeepsInv, TypeOK, EditFile
<1>2. run' = run /\ rows' = rows BY DEF EditFile
<1> QED BY <1>1, <1>2 DEF KeepsInv, Runs, Lists, Alone, UntouchedKept, Untouched

LEMMA KeepsInit == ASSUME Init PROVE KeepsInv
<1>1. PICK m \in Manifests :
         file = [path \in FilePath |->
                   IF \E d \in DOMAIN m : m[d].path = path
                   THEN m[CHOOSE d \in DOMAIN m : m[d].path = path].sha256
                   ELSE Null]
  BY DEF Init
<1>2. file \in [FilePath -> Content \cup {Null}]
  <2>1. ASSUME NEW path \in FilePath, \E d \in DOMAIN m : m[d].path = path
        PROVE  m[CHOOSE d \in DOMAIN m : m[d].path = path].sha256 \in Content
    <3>1. (CHOOSE d \in DOMAIN m : m[d].path = path) \in DOMAIN m BY <2>1
    <3> QED BY <3>1, ManifestEntries DEF Entry
  <2> QED BY <1>1, <2>1
<1>3. rows \in Table
  <2>1. <<>> \in [{} -> Row] OBVIOUS
  <2> QED BY <2>1 DEF Init, Table
<1>4. \A p \in Proc : ~ Runs(p) BY DEF Init, Runs, Idle
<1> QED BY <1>2, <1>3, <1>4 DEF Init, KeepsInv, TypeOK

LEMMA KeepsNext == KeepsInv /\ [Next]_vars => KeepsInv'
<1> SUFFICES ASSUME KeepsInv, [Next]_vars PROVE KeepsInv' OBVIOUS
<1>1. CASE \E p \in Proc, m \in Manifests, requested \in Requests : Start(p, m, requested)
  BY <1>1, KeepsStart
<1>2. CASE \E p \in Proc : Step(p) BY <1>2, KeepsStep
<1>3. CASE \E path \in FilePath, content \in Content \cup {Null} : EditFile(path, content)
  BY <1>3, KeepsEdit
<1>4. CASE UNCHANGED vars
  BY <1>4 DEF vars, KeepsInv, TypeOK, Runs, Lists, Alone, UntouchedKept, Untouched
<1> QED BY <1>1, <1>2, <1>3, <1>4 DEF Next

\* Types, which documents a run still has to do, that a run which says it is
\* alone is alone, and that it has not touched the rows it has no success for.
THEOREM RunsKeepRows == Spec => []KeepsInv
<1>1. Init => KeepsInv BY KeepsInit
<1> QED BY <1>1, KeepsNext, PTL DEF Spec

\* index_documents is all or nothing for each document, for any order of
\* failures, kills and edits: a document it failed on, at its file, its path or
\* its extraction, and one it was not asked for keep their whole row.
THEOREM FailuresKeepRows == Spec => []FailureKeepsRow
<1>1. KeepsInv => FailureKeepsRow
  <2> SUFFICES ASSUME KeepsInv, NEW p \in Proc, run[p].pc = "report", run[p].alone,
                      NEW d \in DOMAIN run[p].before,
                      \/ d \in Selected(p) /\ run[p].outcome[d] = "failed"
                      \/ d \notin Selected(p) /\ ~ run[p].all
               PROVE  d \in DOMAIN rows /\ rows[d] = run[p].before[d]
    BY DEF FailureKeepsRow
  <2>1. d \in Untouched(p) BY DEF Untouched, Selected
  <2> QED BY <2>1 DEF KeepsInv, Runs, UntouchedKept
<1> QED BY <1>1, RunsKeepRows, PTL

\* With the rows come true fingerprints, and what a run alone wrote is what
\* building the row from nothing would give.
LEMMA WrittenTrue ==
    ASSUME OutcomeInv, NEW p \in Proc, Runs(p), NEW o \in Outcome, Written(p, o)
    PROVE  LET d == run[p].document
               entry == run[p].manifest[d]
           IN  /\ TruePrints'
               /\ Valid(entry)
               /\ run[p].alone => d \in DOMAIN rows' /\ rows'[d] = Built(entry)
<1> DEFINE r == run[p]
           d == r.document
           entry == r.manifest[d]
           made == [Built(entry) EXCEPT !.body = Body(file[entry.path], entry.extractor)]
<1>1. r \in Running /\ Lists(p) /\ r.pc = "compared" /\ TypeOK /\ TruePrints
  BY Typed DEF OutcomeInv, KeepsInv, Written
<1>2. d \in DOMAIN r.manifest /\ d \in Document /\ entry \in Entry
  BY <1>1, ManifestEntries DEF Lists, Running
<1>3. Valid(entry) /\ (r.alone => r.existing = IF d \in DOMAIN rows THEN rows[d] ELSE Null)
  BY <1>1 DEF OutcomeInv, Compared
<1>4. rows \in [DOMAIN rows -> Row] /\ DOMAIN rows \subseteq Document BY <1>1, TableRows
<1>5. CASE o = "indexed" /\ rows' = Put(d, made)
  <2>1. made = Built(entry) BY <1>3 DEF Valid, Built, Body
  <2>2. Built(entry).print = Fingerprint(entry)
        /\ Built(entry).body = Body(entry.sha256, entry.extractor)
    BY DEF Built
  <2>3. rows'[d] = Built(entry) /\ DOMAIN rows' = DOMAIN rows \cup {d}
    BY <1>5, <2>1 DEF Put
  <2>4. \A x \in DOMAIN rows \ {d} : rows'[x] = rows[x] BY <1>5 DEF Put
  <2>5. TruePrints'
    BY <1>1, <2>2, <2>3, <2>4 DEF TruePrints, Fingerprint
  <2> QED BY <1>3, <2>3, <2>5
<1>6. CASE rows' = rows /\ o = "unchanged"
  <2>1. SamePrint(p) /\ SameMetadata(p) BY <1>6 DEF Written
  <2>2. TruePrints' BY <1>1, <1>6 DEF TruePrints
  <2>3. ASSUME r.alone PROVE d \in DOMAIN rows /\ rows[d] = Built(entry)
    <3>1. d \in DOMAIN rows /\ r.existing = rows[d] BY <1>3, <2>1, <2>3 DEF SamePrint
    <3>2. rows[d] \in Row BY <1>4, <3>1
    <3>3. rows[d].print = Fingerprint(entry) /\ rows[d].path = entry.path
          /\ rows[d].tags = entry.tags
      BY <2>1, <3>1 DEF SamePrint, SameMetadata
    <3>4. rows[d].body = Body(entry.sha256, entry.extractor)
      BY <1>1, <3>1, <3>3 DEF TruePrints, Fingerprint
    <3> QED BY <3>1, <3>2, <3>3, <3>4 DEF Row, Built
  <2> QED BY <1>3, <1>6, <2>2, <2>3
<1>7. CASE rows' = rows /\ o = "updated" /\ d \notin DOMAIN rows /\ SamePrint(p)
  <2>1. TruePrints' BY <1>1, <1>7 DEF TruePrints
  <2>2. ~ r.alone BY <1>3, <1>7 DEF SamePrint
  <2> QED BY <1>3, <2>1, <2>2
<1>8. CASE /\ o = "updated" /\ SamePrint(p) /\ d \in DOMAIN rows
           /\ rows' = [rows EXCEPT ![d].path = entry.path, ![d].tags = entry.tags]
  <2> DEFINE m == [rows[d] EXCEPT !.path = entry.path, !.tags = entry.tags]
  <2>1. rows' = [rows EXCEPT ![d] = m] BY <1>4, <1>8
  <2>2. rows[d] \in Row BY <1>4, <1>8
  <2>3. /\ m.print = rows[d].print /\ m.body = rows[d].body
        /\ m.path = entry.path /\ m.tags = entry.tags /\ m \in Row
    BY <1>2, <2>2 DEF Row, Entry
  <2> HIDE DEF m
  <2>4. rows'[d] = m /\ DOMAIN rows' = DOMAIN rows
        /\ \A x \in DOMAIN rows \ {d} : rows'[x] = rows[x]
    BY <1>4, <1>8, <2>1
  <2>5. TruePrints'
    <3>1. \A x \in DOMAIN rows : rows[x].body = Body(rows[x].print.sha256, rows[x].print.extractor)
      BY <1>1 DEF TruePrints
    <3>2. rows'[d].print = rows[d].print /\ rows'[d].body = rows[d].body BY <2>3, <2>4
    <3>3. \A x \in DOMAIN rows \ {d} : rows'[x] = rows[x] BY <2>4
    <3>4. \A x \in DOMAIN rows : rows'[x].print = rows[x].print /\ rows'[x].body = rows[x].body
      BY <3>2, <3>3
    <3> QED BY <2>4, <3>1, <3>4 DEF TruePrints
  <2>6. ASSUME r.alone PROVE m = Built(entry)
    <3>1. rows[d].print = Fingerprint(entry) BY <1>3, <1>8, <2>6 DEF SamePrint
    <3>2. rows[d].body = Body(entry.sha256, entry.extractor)
      BY <1>1, <1>8, <3>1 DEF TruePrints, Fingerprint
    <3> QED BY <2>3, <3>1, <3>2 DEF Row, Built
  <2> QED BY <1>3, <1>8, <2>4, <2>5, <2>6
<1> QED BY <1>5, <1>6, <1>7, <1>8 DEF Written

LEMMA OutcomeStep ==
    ASSUME OutcomeInv, NEW p \in Proc, Step(p)
    PROVE  OutcomeInv'
<1> DEFINE r == run[p]
<1>1. /\ KeepsInv /\ KeepsInv' /\ TypeOK /\ TruePrints /\ Runs(p)
      /\ Lists(p) /\ Alone(p) /\ Compared(p) /\ ReportedTrue(p) /\ r.edits = edits
      /\ file' = file /\ edits' = edits /\ r \in Running
  BY StepEffect, KeepsStep, Typed DEF OutcomeInv, KeepsInv
<1>2. ASSUME NEW q \in Proc \ {p}, run'[q] = run[q], Runs(q)'
      PROVE  run'[q].edits = edits' /\ Compared(q)' /\ ReportedTrue(q)'
  <2>1. Runs(q) /\ Alone(q) /\ run[q].edits = edits /\ Compared(q)
    BY <1>2 DEF Runs, OutcomeInv, KeepsInv
  <2>2. ~ run[q].alone BY <1>1, <2>1 DEF Alone
  <2> QED BY <1>1, <1>2, <2>1, <2>2 DEF Compared, ReportedTrue, Valid
<1>3. ASSUME NEW d \in DOMAIN r.manifest, TakenUp(p, d) PROVE OutcomeInv'
  <2>1. TruePrints' BY <1>1, <1>3 DEF TakenUp, TruePrints
  <2>2. run'[p].edits = edits' BY <1>1, <1>3 DEF TakenUp, SameRun
  <2>3. Compared(p)' BY <1>1, <1>3 DEF TakenUp, SameRun, Compared, Valid
  <2>4. ReportedTrue(p)'
    <3>1. /\ run'[p].outcome = r.outcome /\ run'[p].pc = "compared" /\ rows' = rows
          /\ run'[p].manifest = r.manifest /\ run'[p].alone = r.alone
      BY <1>3 DEF TakenUp, SameRun
    <3> QED BY <1>1, <3>1 DEF ReportedTrue, Valid
  <2>5. \A q \in Proc \ {p} : run'[q] = run[q] BY <1>3 DEF TakenUp, SameRun
  <2> QED BY <1>1, <1>2, <2>1, <2>2, <2>3, <2>4, <2>5 DEF OutcomeInv
<1>4. ASSUME NEW d \in DOMAIN r.manifest, NEW o \in Outcome, Judged(p, d, o)
      PROVE  OutcomeInv'
  <2>0. Noted(p, d, o) /\ SameRun(p) BY <1>4 DEF Judged, Noted
  <2>1. TruePrints'
    <3>1. CASE o = "failed" BY <1>1, <1>4, <3>1 DEF Judged, TruePrints
    <3>2. CASE o # "failed" BY <1>1, <1>4, <3>2, WrittenTrue DEF Judged
    <3> QED BY <3>1, <3>2
  <2>2. run'[p].edits = edits' BY <1>1, <2>0 DEF SameRun
  <2>3. Compared(p)' BY <2>0 DEF Noted, Compared
  <2>4. ReportedTrue(p)'
    <3>1. SUFFICES ASSUME r.alone, NEW x \in DOMAIN run'[p].outcome,
                          run'[p].outcome[x] # "failed"
                   PROVE  /\ Valid(r.manifest[x])
                          /\ x \in DOMAIN rows' /\ rows'[x] = Built(r.manifest[x])
      <4>1. /\ run'[p].pc = "next" /\ run'[p].manifest = r.manifest /\ run'[p].alone = r.alone
            /\ \A y \in DOMAIN r.manifest : Valid(r.manifest[y])' <=> Valid(r.manifest[y])
            /\ DOMAIN run'[p].outcome \subseteq DOMAIN r.manifest
        BY <1>1, <1>4, <2>0 DEF SameRun, Noted, Valid, Lists
      <4> QED BY <1>1, <4>1 DEF ReportedTrue, Valid
    <3>2. CASE x = d
      <4>1. o # "failed" BY <2>0, <3>1, <3>2 DEF Noted
      <4>2. d = r.document /\ Written(p, o) BY <1>4, <4>1 DEF Judged
      <4> QED BY <1>1, <3>1, <3>2, <4>2, WrittenTrue
    <3>3. CASE x # d
      <4>1. x \in DOMAIN r.outcome /\ r.outcome[x] # "failed"
        BY <2>0, <3>1, <3>3 DEF Noted
      <4>2. Valid(r.manifest[x]) /\ x \in DOMAIN rows /\ rows[x] = Built(r.manifest[x])
        BY <1>1, <3>1, <4>1 DEF ReportedTrue
      <4> QED BY <1>4, <3>3, <4>2 DEF Judged, OthersKept
    <3> QED BY <3>2, <3>3
  <2>5. \A q \in Proc \ {p} : run'[q] = run[q] BY <2>0 DEF SameRun
  <2> QED BY <1>1, <1>2, <2>1, <2>2, <2>3, <2>4, <2>5 DEF OutcomeInv
<1>5. CASE Cleared(p)
  <2>0. run' = run /\ r.pc = "next" /\ r.all BY <1>5 DEF Cleared
  <2>1. PICK d \in DOMAIN rows \ DOMAIN r.manifest :
           OthersKept(d) /\ DOMAIN rows' = DOMAIN rows \ {d}
    BY <1>5 DEF Cleared
  <2>2. TruePrints' BY <1>1, <2>1 DEF TruePrints, OthersKept
  <2>3. Compared(p)' BY <2>0 DEF Compared
  <2>4. ReportedTrue(p)'
    BY <1>1, <2>0, <2>1 DEF ReportedTrue, Lists, OthersKept, Valid
  <2> QED BY <1>1, <1>2, <2>0, <2>2, <2>3, <2>4 DEF OutcomeInv
<1>6. CASE Reported(p)
  <2>1. TruePrints' BY <1>1, <1>6 DEF Reported, TruePrints
  <2>2. run'[p].edits = edits' BY <1>1, <1>6 DEF Reported, SameRun
  <2>3. Compared(p)' BY <1>6 DEF Reported, Compared
  <2>4. ReportedTrue(p)' BY <1>1, <1>6 DEF Reported, SameRun, ReportedTrue, Valid
  <2>5. \A q \in Proc \ {p} : run'[q] = run[q] BY <1>6 DEF Reported, SameRun
  <2> QED BY <1>1, <1>2, <2>1, <2>2, <2>3, <2>4, <2>5 DEF OutcomeInv
<1>7. CASE Stopped(p) /\ rows' = rows
  <2>1. run'[p] = Idle /\ \A q \in Proc \ {p} : run'[q] = run[q]
    BY <1>1, <1>7 DEF Stopped, TypeOK
  <2>2. TruePrints' BY <1>1, <1>7 DEF TruePrints
  <2>3. ~ Runs(p)' BY <2>1 DEF Runs, Idle
  <2> QED BY <1>1, <1>2, <2>1, <2>2, <2>3 DEF OutcomeInv
<1> QED BY <1>1, <1>3, <1>4, <1>5, <1>6, <1>7, StepEffect

LEMMA OutcomeStart ==
    ASSUME OutcomeInv, NEW p \in Proc, NEW m \in Manifests, NEW requested \in Requests,
           Start(p, m, requested)
    PROVE  OutcomeInv'
<1>1. KeepsInv /\ TypeOK /\ KeepsInv' BY KeepsStart DEF OutcomeInv, KeepsInv
<1>2. /\ ~ Runs(p) /\ run'[p].pc = "next" /\ run'[p].outcome = <<>>
      /\ run'[p].edits = edits /\ rows' = rows
      /\ \A q \in Proc \ {p} : ~ Runs(q) => run'[q] = Idle
      /\ \A q \in Proc \ {p} : Runs(q) => run'[q] = [run[q] EXCEPT !.alone = FALSE]
  BY <1>1, StartEffect
<1>3. file' = file /\ edits' = edits BY DEF Start
<1>4. TruePrints' BY <1>2 DEF OutcomeInv, TruePrints
<1>5. Compared(p)' /\ ReportedTrue(p)' BY <1>2 DEF Compared, ReportedTrue
<1>6. ASSUME NEW q \in Proc \ {p}, Runs(q)'
      PROVE  run'[q].edits = edits' /\ Compared(q)' /\ ReportedTrue(q)'
  <2>1. Runs(q) BY <1>2, <1>6 DEF Runs, Idle
  <2>2. run[q] \in Running /\ Compared(q) /\ run[q].edits = edits
    BY <1>1, <2>1, Typed DEF OutcomeInv
  <2>3. run'[q] = [run[q] EXCEPT !.alone = FALSE] BY <1>2, <2>1
  <2>4. /\ ~ run'[q].alone /\ run'[q].pc = run[q].pc /\ run'[q].edits = run[q].edits
        /\ run'[q].manifest = run[q].manifest /\ run'[q].document = run[q].document
    BY <2>2, <2>3 DEF Running
  <2> QED BY <1>3, <2>2, <2>4 DEF Compared, ReportedTrue, Valid
<1> QED BY <1>1, <1>2, <1>3, <1>4, <1>5, <1>6 DEF OutcomeInv

LEMMA OutcomeNext == FilesMove = FALSE /\ OutcomeInv /\ [Next]_vars => OutcomeInv'
<1> SUFFICES ASSUME FilesMove = FALSE, OutcomeInv, [Next]_vars PROVE OutcomeInv' OBVIOUS
<1>0. KeepsInv' BY KeepsNext DEF OutcomeInv
<1>1. CASE \E p \in Proc, m \in Manifests, requested \in Requests : Start(p, m, requested)
  BY <1>1, OutcomeStart
<1>2. CASE \E p \in Proc : Step(p) BY <1>2, OutcomeStep
<1>3. CASE \E path \in FilePath, content \in Content \cup {Null} : EditFile(path, content)
  <2>1. run' = run /\ rows' = rows /\ \A p \in Proc : ~ Runs(p)
    BY <1>3 DEF EditFile, Runs
  <2> QED BY <1>0, <2>1 DEF OutcomeInv, TruePrints, Runs
<1>4. CASE UNCHANGED vars
  BY <1>0, <1>4 DEF vars, OutcomeInv, TruePrints, Runs, Compared, ReportedTrue, Valid
<1> QED BY <1>1, <1>2, <1>3, <1>4 DEF Next

\* When files stay as they are while a run is going on, incremental indexing
\* is as good as indexing from nothing: a document index_documents did not
\* fail on is "ok" for index_status and has the very row that a new extraction
\* would write, and a full run leaves no document that is not listed.
THEOREM OutcomesAgree ==
    ASSUME FilesMove = FALSE
    PROVE  Spec => []OutcomeAgrees
<1>1. Init => OutcomeInv
  <2> SUFFICES ASSUME Init PROVE OutcomeInv OBVIOUS
  <2>1. KeepsInv BY KeepsInit
  <2>2. rows = <<>> /\ \A p \in Proc : ~ Runs(p) BY DEF Init, Runs, Idle
  <2> QED BY <2>1, <2>2 DEF OutcomeInv, TruePrints
<1>2. OutcomeInv => OutcomeAgrees
  <2> SUFFICES ASSUME OutcomeInv, NEW p \in Proc, run[p].pc = "report", Undisturbed(p)
               PROVE  /\ \A d \in Selected(p) :
                            run[p].outcome[d] # "failed" =>
                               /\ Status(d, run[p].manifest) = "ok"
                               /\ rows[d] = Built(run[p].manifest[d])
                      /\ run[p].all => DOMAIN rows \subseteq DOMAIN run[p].manifest
    BY DEF OutcomeAgrees
  <2>1. run[p].alone /\ ReportedTrue(p) /\ Lists(p) /\ TypeOK /\ run[p] \in Running
    BY Typed DEF OutcomeInv, KeepsInv, Runs, Undisturbed
  <2>2. ASSUME NEW d \in Selected(p), run[p].outcome[d] # "failed"
        PROVE  Status(d, run[p].manifest) = "ok" /\ rows[d] = Built(run[p].manifest[d])
    <3> DEFINE entry == run[p].manifest[d]
    <3>1. Valid(entry) /\ d \in DOMAIN rows /\ rows[d] = Built(entry)
      BY <2>1, <2>2 DEF ReportedTrue, Selected
    <3>2. entry \in Entry BY <2>1, ManifestEntries DEF Selected, Lists, Running
    <3>3. file[entry.path] # Null
      BY <3>1, <3>2, DocumentIndexAssumption DEF Valid, Entry
    <3> QED BY <3>1, <3>3 DEF Status
  <2> QED BY <2>1, <2>2 DEF ReportedTrue
<1> QED BY <1>1, <1>2, OutcomeNext, PTL DEF Spec

-----------------------------------------------------------------------------
(* Repeated full runs.  Every row a run writes is the manifest's, and its    *)
(* document is out of the way for good; while a document that could be       *)
(* brought to date is late, one of the late ones has its path free, and a    *)
(* run that comes to it in time leaves one less.                             *)

\* index_status would have nothing to say of d but of its file.
Settled(m, d) ==
    /\ d \in DOMAIN rows
    /\ rows[d].path = m[d].path /\ rows[d].tags = m[d].tags
    /\ rows[d].print = Fingerprint(m[d])

Late(m) == {d \in DOMAIN m \ Blocked(m) : ~ Settled(m, d)}

LateBound(m, k) == Late(m) = {} \/ Cardinality(Late(m)) + k <= Cardinality(Document)

\* What the run has still to write.
Pending(p) ==
    run[p].todo \cup (IF run[p].pc = "compared" THEN {run[p].document} ELSE {})

\* What a run compares with may be old, but a fingerprint like the manifest's
\* is not when all that run have that manifest.
Fresh(p) ==
    run[p].pc = "compared" =>
        LET d == run[p].document
            entry == run[p].manifest[d]
        IN  /\ run[p].edits = edits => Valid(entry)
            /\ run[p].alone =>
                  run[p].existing = IF d \in DOMAIN rows THEN rows[d] ELSE Null
            /\ calm.runs > 0 /\ SamePrint(p) /\ d \in DOMAIN rows =>
                  rows[d].print = Fingerprint(entry)

\* A run that nobody disturbs will have brought a late document to date, or
\* has one to do whose path is free.
Promising(p) ==
    /\ run[p].pc \in {"next", "compared"} /\ run[p].all /\ Undisturbed(p)
    /\ calm.runs > 0 \/ DOMAIN run[p].manifest = Document

Progress(p) ==
    LET m == run[p].manifest IN
    Promising(p) =>
        \/ LateBound(m, calm.runs + 1)
        \/ \E x \in Late(m) \cap Pending(p) : PathFree(x, m[x].path)

\* After a full run and while nothing else happens.
CalmRuns ==
    calm.runs > 0 =>
        /\ calm.manifest \in Manifests
        /\ DOMAIN rows \subseteq DOMAIN calm.manifest
        /\ \A p \in Proc : Runs(p) =>
              run[p].manifest = calm.manifest /\ run[p].edits = edits
        /\ LateBound(calm.manifest, calm.runs)

CalmType == calm \in [runs : Nat, manifest : Manifests \cup {Null}]

ConvergeInv ==
    /\ KeepsInv /\ CalmType /\ CalmRuns
    /\ \A p \in Proc : Runs(p) => run[p].edits <= edits /\ Fresh(p) /\ Progress(p)

LEMMA ManifestPaths ==
    ASSUME NEW m \in Manifests, NEW d \in DOMAIN m, NEW e \in DOMAIN m, m[d].path = m[e].path
    PROVE  d = e
BY DocumentIndexAssumption

\* Counting documents of a manifest.
LEMMA Counted ==
    ASSUME NEW m \in Manifests, NEW S \in SUBSET DOMAIN m
    PROVE  /\ Cardinality(Document) \in Nat
           /\ Cardinality(S) \in Nat /\ Cardinality(S) <= Cardinality(Document)
           /\ DOMAIN m # Document => Cardinality(S) + 1 <= Cardinality(Document)
           /\ S # {} => Cardinality(S) # 0
           /\ \A T \in SUBSET S : /\ Cardinality(T) \in Nat
                                  /\ Cardinality(T) <= Cardinality(S)
                                  /\ T # S => Cardinality(T) + 1 <= Cardinality(S)
<1>1. IsFiniteSet(Document) BY DocumentIndexAssumption
<1>2. S \in SUBSET Document BY ManifestEntries
<1>3. /\ IsFiniteSet(S) /\ Cardinality(S) <= Cardinality(Document)
      /\ Cardinality(S) = Cardinality(Document) => S = Document
  BY <1>1, <1>2, FS_Subset
<1>4. Cardinality(Document) \in Nat /\ Cardinality(S) \in Nat
  BY <1>1, <1>3, FS_CardinalityType
<1>5. DOMAIN m # Document => Cardinality(S) # Cardinality(Document)
  BY <1>3, ManifestEntries
<1>6. S # {} => Cardinality(S) # 0 BY <1>3, FS_EmptySet
<1>7. ASSUME NEW T \in SUBSET S
      PROVE  /\ Cardinality(T) \in Nat /\ Cardinality(T) <= Cardinality(S)
             /\ T # S => Cardinality(T) + 1 <= Cardinality(S)
  <2>1. /\ IsFiniteSet(T) /\ Cardinality(T) <= Cardinality(S)
        /\ Cardinality(T) = Cardinality(S) => T = S
    BY <1>3, FS_Subset
  <2>2. Cardinality(T) \in Nat BY <2>1, FS_CardinalityType
  <2> QED BY <1>4, <2>1, <2>2
<1>8. DOMAIN m # Document => Cardinality(S) + 1 <= Cardinality(Document)
  BY <1>3, <1>4, <1>5
<1> QED BY <1>3, <1>4, <1>6, <1>7, <1>8

LEMMA LateListed == ASSUME NEW m PROVE Late(m) \in SUBSET DOMAIN m
BY DEF Late

LEMMA StuckBlocked ==
    ASSUME NEW m, NEW B \in SUBSET DOMAIN m, Stuck(m, B)
    PROVE  B \subseteq Blocked(m)
BY DEF Blocked

LEMMA BlockedStuck == ASSUME NEW m PROVE Blocked(m) \in SUBSET DOMAIN m /\ Stuck(m, Blocked(m))
<1>1. Blocked(m) \in SUBSET DOMAIN m BY DEF Blocked
<1>2. ASSUME NEW d \in Blocked(m)
      PROVE  \/ ~ Indexable(m, d)
             \/ \E x \in (Blocked(m) \cap DOMAIN rows) \ {d} : rows[x].path = m[d].path
  <2>1. PICK B \in SUBSET DOMAIN m : Stuck(m, B) /\ d \in B BY DEF Blocked
  <2>2. B \subseteq Blocked(m) BY <2>1, StuckBlocked
  <2> QED BY <2>1, <2>2 DEF Stuck
<1> QED BY <1>1, <1>2 DEF Stuck

LEMMA FreeNotBlocked ==
    ASSUME NEW m, NEW d \in DOMAIN m, Indexable(m, d), PathFree(d, m[d].path)
    PROVE  d \notin Blocked(m)
BY BlockedStuck DEF Stuck, PathFree

LEMMA LateIndexable == ASSUME NEW m, NEW d \in DOMAIN m \ Blocked(m) PROVE Indexable(m, d)
<1>1. SUFFICES ASSUME ~ Indexable(m, d) PROVE FALSE OBVIOUS
<1>2. Stuck(m, {d}) BY <1>1 DEF Stuck
<1> QED BY <1>2, StuckBlocked

\* Some late document can have its path: else all of them would be in each
\* other's way, and so blocked.
LEMMA SomeFree ==
    ASSUME NEW m \in Manifests, DOMAIN rows \subseteq DOMAIN m, Late(m) # {}
    PROVE  \E x \in Late(m) : PathFree(x, m[x].path)
<1>1. SUFFICES ASSUME \A x \in Late(m) : ~ PathFree(x, m[x].path) PROVE FALSE OBVIOUS
<1> DEFINE B == Late(m) \cup Blocked(m)
<1>2. B \in SUBSET DOMAIN m BY BlockedStuck, LateListed
<1>3. ASSUME NEW d \in Late(m)
      PROVE  \E x \in (B \cap DOMAIN rows) \ {d} : rows[x].path = m[d].path
  <2>1. PICK x \in DOMAIN rows \ {d} : rows[x].path = m[d].path BY <1>1, <1>3 DEF PathFree
  <2>2. x \in DOMAIN m /\ d \in DOMAIN m BY <2>1, LateListed
  <2>3. ~ Settled(m, x) BY <2>1, <2>2, ManifestPaths DEF Settled
  <2>4. x \in B BY <2>2, <2>3 DEF Late
  <2> QED BY <2>1, <2>4
<1>4. Stuck(m, B) BY <1>3, BlockedStuck DEF Stuck
<1>5. B \subseteq Blocked(m) BY <1>2, <1>4, StuckBlocked
<1> QED BY <1>5 DEF Late

\* The files stay, and at most one row changes: it is brought to date, or the
\* document is not listed.
Improves(m, d) ==
    /\ file' = file /\ OthersKept(d)
    /\ \/ rows' = rows
       \/ d \notin DOMAIN m /\ d \notin DOMAIN rows'
       \/ /\ d \in DOMAIN m /\ PathFree(d, m[d].path) /\ Indexable(m, d)
          /\ Settled(m, d)'

LEMMA BlockedStays ==
    ASSUME NEW m, NEW d, Improves(m, d)
    PROVE  Blocked(m) \subseteq Blocked(m)'
<1>1. CASE rows' = rows BY <1>1 DEF Improves, Blocked, Stuck, Indexable, Valid
<1>2. CASE d \notin Blocked(m)
  <2>1. PICK B \in SUBSET DOMAIN m : Stuck(m, B) /\ B = Blocked(m) BY BlockedStuck
  <2>2. Stuck(m, B)'
    <3>1. SUFFICES ASSUME NEW x \in B
                   PROVE  \/ ~ Indexable(m, x)'
                          \/ \E y \in (B \cap DOMAIN rows') \ {x} : rows'[y].path = m[x].path
      BY DEF Stuck
    <3>2. CASE ~ Indexable(m, x)
      <4>1. x # d /\ (x \in DOMAIN rows' => x \in DOMAIN rows /\ rows'[x] = rows[x])
        BY <1>2, <2>1 DEF Improves, OthersKept
      <4> QED BY <3>2, <4>1 DEF Improves, Indexable, Valid
    <3>3. CASE \E y \in (B \cap DOMAIN rows) \ {x} : rows[y].path = m[x].path
      <4>1. PICK y \in (B \cap DOMAIN rows) \ {x} : rows[y].path = m[x].path BY <3>3
      <4>2. y \in DOMAIN rows' /\ rows'[y] = rows[y] BY <1>2, <2>1, <4>1 DEF Improves, OthersKept
      <4> QED BY <4>1, <4>2
    <3> QED BY <2>1, <3>2, <3>3 DEF Stuck
  <2> QED BY <2>1, <2>2 DEF Blocked
<1> QED BY <1>1, <1>2, FreeNotBlocked, BlockedStuck DEF Improves

LEMMA OthersSettled ==
    ASSUME NEW m, NEW d, OthersKept(d), NEW x, x # d
    PROVE  Settled(m, x)' <=> Settled(m, x)
BY DEF OthersKept, Settled

LEMMA LateShrinks ==
    ASSUME NEW m, NEW d, Improves(m, d)
    PROVE  /\ Late(m)' \in SUBSET Late(m)
           /\ Settled(m, d)' => d \notin Late(m)'
<1>1. ASSUME NEW x \in Late(m)' PROVE x \in Late(m)
  <2>1. x \in DOMAIN m /\ x \notin Blocked(m) /\ ~ Settled(m, x)'
    BY <1>1, BlockedStays DEF Late
  <2>2. CASE rows' = rows BY <2>1, <2>2 DEF Late, Settled
  <2>3. CASE x # d
    <3>1. OthersKept(d) BY DEF Improves
    <3>2. ~ Settled(m, x) BY <2>1, <2>3, <3>1, OthersSettled
    <3> QED BY <2>1, <3>2 DEF Late
  <2> QED BY <2>1, <2>2, <2>3 DEF Improves
<1> QED BY <1>1 DEF Late

\* A path that is free is taken by nobody but the document that has it.
LEMMA FreeStays ==
    ASSUME NEW m \in Manifests, NEW d, Improves(m, d),
           NEW x \in DOMAIN m \ {d}, PathFree(x, m[x].path)
    PROVE  PathFree(x, m[x].path)'
<1>1. SUFFICES ASSUME NEW y \in DOMAIN rows' \ {x} PROVE rows'[y].path # m[x].path
  BY DEF PathFree
<1>2. CASE y # d \/ rows' = rows
  <2>1. y \in DOMAIN rows /\ rows'[y] = rows[y] BY <1>1, <1>2 DEF Improves, OthersKept
  <2> QED BY <1>1, <2>1 DEF PathFree
<1>3. CASE y = d /\ d \in DOMAIN m /\ Settled(m, d)'
  <2>1. rows'[y].path = m[d].path BY <1>3 DEF Settled
  <2> QED BY <1>3, <2>1, ManifestPaths
<1> QED BY <1>1, <1>2, <1>3 DEF Improves

\* The outcome of a comparison: a run whose fingerprint is not out of date
\* writes the manifest's row or none, and one alone that can, does.
LEMMA Settles ==
    ASSUME TypeOK, NEW p \in Proc, Lists(p), Fresh(p), run[p].edits = edits,
           run[p].alone \/ calm.runs > 0,
           Unchanged(p) \/ UpdateMetadata(p) \/ Replace(p),
           NEW m, m = run[p].manifest, NEW d, d = run[p].document
    PROVE  /\ Improves(m, d)
           /\ run[p].alone /\ Indexable(m, d) /\ PathFree(d, m[d].path) => Settled(m, d)'
<1> DEFINE r == run[p]
           entry == m[d]
<1>1. r \in Running /\ r.pc = "compared"
  BY Typed DEF Runs, Unchanged, UpdateMetadata, Replace
<1>2. m \in Manifests /\ d \in DOMAIN m /\ d \in Document /\ entry \in Entry
  BY <1>1, ManifestEntries DEF Lists, Running
<1>3. file' = file BY DEF Unchanged, UpdateMetadata, Replace
<1>4. OthersKept(d) BY <1>1, CompareEffect DEF Runs
<1>5. /\ Valid(entry)
      /\ r.alone => r.existing = IF d \in DOMAIN rows THEN rows[d] ELSE Null
      /\ SamePrint(p) /\ d \in DOMAIN rows => rows[d].print = Fingerprint(entry)
  BY <1>1 DEF Fresh, SamePrint
<1>6. rows \in [DOMAIN rows -> Row] BY TableRows
<1>7. rows' = rows => Improves(m, d) BY <1>3, <1>4 DEF Improves
<1>8. CASE Unchanged(p)
  <2>1. rows' = rows /\ SamePrint(p) /\ SameMetadata(p) BY <1>8 DEF Unchanged
  <2>2. ASSUME r.alone PROVE Settled(m, d)'
    <3>1. d \in DOMAIN rows /\ r.existing = rows[d] BY <1>5, <2>1, <2>2 DEF SamePrint
    <3>2. Settled(m, d) BY <2>1, <3>1 DEF SamePrint, SameMetadata, Settled
    <3> QED BY <2>1, <3>2 DEF Settled
  <2> QED BY <1>7, <2>1, <2>2
<1>9. CASE UpdateMetadata(p)
  <2>1. SamePrint(p) BY <1>9 DEF UpdateMetadata
  <2>2. CASE d \in DOMAIN rows /\ PathFree(d, entry.path)
    <3>1. rows' = [rows EXCEPT ![d].path = entry.path, ![d].tags = entry.tags]
      BY <1>9, <2>2 DEF UpdateMetadata
    <3>2. rows[d].print = Fingerprint(entry) /\ rows[d] \in Row
      BY <1>5, <1>6, <2>1, <2>2
    <3>3. /\ d \in DOMAIN rows' /\ rows'[d].path = entry.path
          /\ rows'[d].tags = entry.tags /\ rows'[d].print = rows[d].print
      BY <1>6, <2>2, <3>1, <3>2 DEF Row
    <3>4. Settled(m, d)' BY <3>2, <3>3 DEF Settled
    <3>5. Indexable(m, d) BY <1>5, <2>2, <3>2 DEF Indexable
    <3> QED BY <1>2, <1>3, <1>4, <2>2, <3>4, <3>5 DEF Improves
  <2>3. CASE ~ (d \in DOMAIN rows /\ PathFree(d, entry.path))
    <3>1. rows' = rows BY <1>9, <2>3 DEF UpdateMetadata
    <3>2. r.alone => d \in DOMAIN rows BY <1>5, <2>1 DEF SamePrint
    <3> QED BY <1>7, <2>3, <3>1, <3>2
  <2> QED BY <2>2, <2>3
<1>10. CASE Replace(p)
  <2>1. file[entry.path] = entry.sha256 BY <1>5 DEF Valid
  <2>2. CASE PathFree(d, entry.path) /\ Extractable(file[entry.path])
    <3> DEFINE row == [Built(entry) EXCEPT !.body = Body(file[entry.path], entry.extractor)]
    <3>1. rows' = Put(d, row) BY <1>10, <2>2 DEF Replace
    <3>2. row.path = entry.path /\ row.tags = entry.tags /\ row.print = Fingerprint(entry)
      BY DEF Built
    <3> HIDE DEF row
    <3>3. d \in DOMAIN rows' /\ rows'[d] = row BY <3>1 DEF Put
    <3>4. Settled(m, d)' BY <3>2, <3>3 DEF Settled
    <3>5. Indexable(m, d) BY <1>5, <2>1, <2>2 DEF Indexable
    <3> QED BY <1>2, <1>3, <1>4, <2>2, <3>4, <3>5 DEF Improves
  <2>3. CASE ~ (PathFree(d, entry.path) /\ Extractable(file[entry.path]))
    <3>1. rows' = rows BY <1>10, <2>3 DEF Replace
    <3>2. ASSUME r.alone, Indexable(m, d), PathFree(d, entry.path) PROVE FALSE
      <4>1. ~ Extractable(entry.sha256) BY <2>1, <2>3, <3>2
      <4>2. d \in DOMAIN rows /\ rows[d].print = Fingerprint(entry)
        BY <3>2, <4>1 DEF Indexable
      <4>3. rows[d] \in Row /\ rows[d] # Null BY <1>6, <4>2, DocumentIndexAssumption
      <4>4. r.existing = rows[d] BY <1>5, <3>2, <4>2
      <4>5. SamePrint(p) BY <4>2, <4>3, <4>4 DEF SamePrint
      <4> QED BY <1>10, <4>5 DEF Replace
    <3> QED BY <1>7, <3>1, <3>2
  <2> QED BY <2>2, <2>3
<1> QED BY <1>8, <1>9, <1>10

\* A step of p changes nothing for the others.
LEMMA RestConverges ==
    ASSUME ConvergeInv, KeepsInv', NEW p \in Proc, Runs(p),
           file' = file, edits' = edits,
           \A q \in Proc \ {p} : run'[q] = run[q],
           Runs(p)' => run'[p].manifest = run[p].manifest /\ run'[p].edits = run[p].edits
                       /\ Fresh(p)' /\ Progress(p)',
           NEW m, m = run[p].manifest, NEW d,
           \/ calm' = calm /\ (calm.runs > 0 => Improves(m, d))
           \/ calm' = [calm EXCEPT !.runs = 0]
    PROVE  ConvergeInv'
<1>1. /\ TypeOK /\ CalmType /\ CalmRuns /\ Alone(p)
      /\ run[p].edits <= edits
  BY DEF ConvergeInv, KeepsInv
<1>2. CASE calm' = [calm EXCEPT !.runs = 0]
  <2>1. CalmType' /\ calm'.runs = 0 BY <1>1, <1>2 DEF CalmType
  <2>2. CalmRuns' BY <2>1 DEF CalmRuns
  <2>3. ASSUME NEW q \in Proc, Runs(q)'
        PROVE  run'[q].edits <= edits' /\ Fresh(q)' /\ Progress(q)'
    <3>1. CASE q = p BY <1>1, <2>3, <3>1
    <3>2. CASE q # p
      <4>1. run'[q] = run[q] /\ Runs(q) BY <2>3, <3>2 DEF Runs
      <4>2. ~ run[q].alone /\ run[q].edits <= edits /\ Fresh(q)
        BY <3>2, <4>1 DEF ConvergeInv, KeepsInv, Alone
      <4>3. Progress(q)' BY <4>1, <4>2 DEF Progress, Promising, Undisturbed
      <4>4. Fresh(q)' BY <2>1, <4>1, <4>2 DEF Fresh, Valid
      <4> QED BY <4>1, <4>2, <4>3, <4>4
    <3> QED BY <3>1, <3>2
  <2> QED BY <2>1, <2>2, <2>3 DEF ConvergeInv
<1>3. CASE calm' = calm /\ (calm.runs > 0 => Improves(m, d))
  <2>1. CalmType' BY <1>1, <1>3 DEF CalmType
  <2>2. CASE calm.runs > 0
    <3>1. /\ m = calm.manifest /\ m \in Manifests /\ DOMAIN rows \subseteq DOMAIN m
          /\ \A q \in Proc : Runs(q) => run[q].manifest = m /\ run[q].edits = edits
          /\ LateBound(m, calm.runs)
      BY <1>1, <2>2 DEF CalmRuns
    <3>2. Improves(m, d) BY <1>3, <2>2
    <3>3. DOMAIN rows' \subseteq DOMAIN m BY <3>1, <3>2 DEF Improves, OthersKept
    <3>4. LateBound(m, calm.runs)'
      <4>1. Late(m)' \in SUBSET Late(m) BY <3>2, LateShrinks
      <4>2. calm.runs \in Nat /\ calm' = calm BY <1>1, <1>3 DEF CalmType
      <4>3. CASE Late(m) = {} BY <1>3, <4>1, <4>3 DEF LateBound
      <4>4. CASE Cardinality(Late(m)) + calm.runs <= Cardinality(Document)
        <5>1. /\ Cardinality(Document) \in Nat /\ Cardinality(Late(m)) \in Nat
              /\ Cardinality(Late(m)') \in Nat
              /\ Cardinality(Late(m)') <= Cardinality(Late(m))
          BY <3>1, <4>1, LateListed, Counted
        <5>2. Cardinality(Late(m)') + calm.runs <= Cardinality(Document)
          BY <4>2, <4>4, <5>1
        <5> QED BY <4>2, <5>2 DEF LateBound
      <4> QED BY <3>1, <4>3, <4>4 DEF LateBound
    <3>5. \A q \in Proc : Runs(q)' => run'[q].manifest = m /\ run'[q].edits = edits
      <4>1. SUFFICES ASSUME NEW q \in Proc, Runs(q)'
                     PROVE  run'[q].manifest = m /\ run'[q].edits = edits
        OBVIOUS
      <4>2. CASE q = p BY <3>1, <4>1, <4>2
      <4>3. CASE q # p BY <3>1, <4>1, <4>3 DEF Runs
      <4> QED BY <4>2, <4>3
    <3>6. CalmRuns' BY <1>3, <3>1, <3>3, <3>4, <3>5 DEF CalmRuns, LateBound
    <3>7. ASSUME NEW q \in Proc \ {p}, Runs(q)' PROVE Fresh(q)'
      <4>1. run'[q] = run[q] /\ Runs(q) BY <3>7 DEF Runs
      <4>2. /\ ~ run[q].alone /\ Fresh(q) /\ Lists(q)
            /\ run[q].manifest = m /\ run[q].edits = edits
        BY <3>1, <4>1 DEF ConvergeInv, KeepsInv, Alone
      <4> DEFINE e == run[q].document
      <4>3. SUFFICES ASSUME run[q].pc = "compared"
                     PROVE  /\ Valid(m[e])'
                            /\ SamePrint(q)' /\ e \in DOMAIN rows' =>
                                  rows'[e].print = Fingerprint(m[e])
        BY <4>1, <4>2 DEF Fresh
      <4>4. Valid(m[e]) /\ (SamePrint(q) /\ e \in DOMAIN rows => rows[e].print = Fingerprint(m[e]))
        BY <2>2, <4>2, <4>3 DEF Fresh
      <4>5. SamePrint(q)' <=> SamePrint(q) BY <4>1 DEF SamePrint
      <4>6. e \in DOMAIN m BY <4>2, <4>3 DEF Lists
      <4>7. ASSUME SamePrint(q), e \in DOMAIN rows' PROVE rows'[e].print = Fingerprint(m[e])
        <5>1. CASE rows' = rows BY <4>4, <4>7, <5>1
        <5>2. CASE e # d BY <3>2, <4>4, <4>7, <5>2 DEF Improves, OthersKept
        <5>3. CASE e = d /\ Settled(m, d)' BY <5>3 DEF Settled
        <5> QED BY <3>2, <4>6, <5>1, <5>2, <5>3 DEF Improves
      <4> QED BY <4>4, <4>5, <4>7 DEF Valid
    <3>8. ASSUME NEW q \in Proc, Runs(q)'
          PROVE  run'[q].edits <= edits' /\ Fresh(q)' /\ Progress(q)'
      <4>1. CASE q = p BY <1>1, <3>8, <4>1
      <4>2. CASE q # p
        <5>1. run'[q] = run[q] /\ Runs(q) BY <3>8, <4>2 DEF Runs
        <5>2. ~ run[q].alone /\ run[q].edits <= edits
          BY <4>2, <5>1 DEF ConvergeInv, KeepsInv, Alone
        <5>3. Progress(q)' BY <5>1, <5>2 DEF Progress, Promising, Undisturbed
        <5> QED BY <3>7, <3>8, <4>2, <5>1, <5>2, <5>3
      <4> QED BY <4>1, <4>2
    <3> QED BY <2>1, <3>6, <3>8 DEF ConvergeInv
  <2>3. CASE ~ (calm.runs > 0)
    <3>1. CalmRuns' BY <1>3, <2>3 DEF CalmRuns
    <3>2. ASSUME NEW q \in Proc, Runs(q)'
          PROVE  run'[q].edits <= edits' /\ Fresh(q)' /\ Progress(q)'
      <4>1. CASE q = p BY <1>1, <3>2, <4>1
      <4>2. CASE q # p
        <5>1. run'[q] = run[q] /\ Runs(q) BY <3>2, <4>2 DEF Runs
        <5>2. ~ run[q].alone /\ run[q].edits <= edits /\ Fresh(q)
          BY <4>2, <5>1 DEF ConvergeInv, KeepsInv, Alone
        <5>3. Progress(q)' BY <5>1, <5>2 DEF Progress, Promising, Undisturbed
        <5>4. Fresh(q)' BY <1>3, <2>3, <5>1, <5>2 DEF Fresh, Valid
        <5> QED BY <5>1, <5>2, <5>3, <5>4
      <4> QED BY <4>1, <4>2
    <3> QED BY <2>1, <3>1, <3>2 DEF ConvergeInv
  <2> QED BY <2>2, <2>3
<1> QED BY <1>2, <1>3

\* A promising run stays so when the document whose path is free is brought to
\* date or is still to come.
LEMMA ProgressKept ==
    ASSUME ConvergeInv, NEW p \in Proc, Runs(p), run[p].pc # "report", SameRun(p),
           edits' = edits, calm' = calm,
           NEW m, m = run[p].manifest,
           Promising(p) => \E d : Improves(m, d),
           Promising(p) =>
               \A x \in Late(m) \cap Pending(p) :
                  PathFree(x, m[x].path) =>
                     \/ x \notin Late(m)'
                     \/ x \in Pending(p)' /\ PathFree(x, m[x].path)'
    PROVE  Progress(p)'
<1>1. /\ TypeOK /\ CalmType /\ CalmRuns /\ Progress(p)
      /\ run[p] \in Running /\ m \in Manifests
      /\ run'[p].manifest = m
  BY Typed DEF ConvergeInv, KeepsInv, SameRun, Running
<1>2. SUFFICES ASSUME Promising(p)'
               PROVE  \/ LateBound(m, calm.runs + 1)'
                      \/ \E x \in Late(m)' \cap Pending(p)' : PathFree(x, m[x].path)'
  BY <1>1 DEF Progress
<1>3. Promising(p)
  <2>1. run[p].pc \in {"next", "compared"} BY <1>1 DEF Running
  <2> QED BY <1>2, <2>1 DEF Promising, Undisturbed, SameRun
<1>4. PICK d : Improves(m, d) BY <1>3
<1>5. Late(m)' \in SUBSET Late(m) BY <1>4, LateShrinks
<1>6. calm.runs \in Nat BY <1>1 DEF CalmType
<1>7. /\ Cardinality(Document) \in Nat /\ Cardinality(Late(m)) \in Nat
      /\ Cardinality(Late(m)) <= Cardinality(Document)
      /\ Cardinality(Late(m)') \in Nat
      /\ Cardinality(Late(m)') <= Cardinality(Late(m))
      /\ Late(m)' # Late(m) => Cardinality(Late(m)') + 1 <= Cardinality(Late(m))
  BY <1>1, <1>5, LateListed, Counted
<1>8. CASE LateBound(m, calm.runs + 1)
  <2>1. CASE Late(m) = {} BY <1>5, <2>1 DEF LateBound
  <2>2. CASE Cardinality(Late(m)) + (calm.runs + 1) <= Cardinality(Document)
    <3>1. Cardinality(Late(m)') + (calm.runs + 1) <= Cardinality(Document)
      BY <1>6, <1>7, <2>2
    <3> QED BY <3>1 DEF LateBound
  <2> QED BY <1>8, <2>1, <2>2 DEF LateBound
<1>9. CASE \E x \in Late(m) \cap Pending(p) : PathFree(x, m[x].path)
  <2>1. PICK x \in Late(m) \cap Pending(p) : PathFree(x, m[x].path) BY <1>9
  <2>2. CASE x \notin Late(m)'
    <3>1. Cardinality(Late(m)') + 1 <= Cardinality(Late(m)) BY <1>7, <2>1, <2>2
    <3>2. Cardinality(Late(m)) + calm.runs <= Cardinality(Document)
      <4>1. CASE calm.runs > 0
        <5>1. LateBound(m, calm.runs) /\ Late(m) # {} BY <1>1, <2>1, <4>1 DEF CalmRuns
        <5> QED BY <5>1 DEF LateBound
      <4>2. CASE ~ (calm.runs > 0) BY <1>6, <1>7, <4>2
      <4> QED BY <4>1, <4>2
    <3>3. Cardinality(Late(m)') + (calm.runs + 1) <= Cardinality(Document)
      BY <1>6, <1>7, <3>1, <3>2
    <3> QED BY <3>3 DEF LateBound
  <2>3. CASE x \in Pending(p)' /\ PathFree(x, m[x].path)' /\ x \in Late(m)' BY <2>3
  <2> QED BY <1>3, <2>1, <2>2, <2>3
<1> QED BY <1>1, <1>3, <1>8, <1>9 DEF Progress

LEMMA ConvergeValidate ==
    ASSUME ConvergeInv, KeepsInv', NEW p \in Proc, Validate(p)
    PROVE  ConvergeInv'
<1>1. /\ TypeOK /\ Runs(p) /\ Lists(p) /\ run[p] \in Running /\ run[p].pc = "next"
      /\ file' = file /\ edits' = edits /\ calm' = calm
  BY Typed DEF ConvergeInv, KeepsInv, Validate, Runs
<1>2. PICK m \in Manifests : m = run[p].manifest BY <1>1 DEF Running
<1>3. rows' = rows BY <1>1, ValidateEffect
<1>4. \A d : Improves(m, d) BY <1>1, <1>3 DEF Improves, OthersKept
<1>5. \A x \in DOMAIN m : PathFree(x, m[x].path)' <=> PathFree(x, m[x].path)
  BY <1>3 DEF PathFree
<1>6. ASSUME NEW d \in DOMAIN m, TakenUp(p, d) PROVE ConvergeInv'
  <2>1. /\ SameRun(p) /\ run'[p].pc = "compared" /\ run'[p].document = d
        /\ run'[p].existing = IF d \in DOMAIN rows THEN rows[d] ELSE Null
        /\ Valid(m[d]) /\ d \in run[p].todo /\ run'[p].todo = run[p].todo \ {d}
        /\ run'[p].manifest = m
    BY <1>2, <1>6 DEF TakenUp, SameRun
  <2>2. Fresh(p)'
    <3>1. SamePrint(p)' /\ d \in DOMAIN rows => rows[d].print = Fingerprint(m[d])
      BY <2>1 DEF SamePrint
    <3> QED BY <1>1, <1>3, <2>1, <3>1 DEF Fresh, Valid
  <2>3. Pending(p)' = Pending(p) BY <1>1, <2>1 DEF Pending
  <2>4. \A x \in Late(m) \cap Pending(p) :
           PathFree(x, m[x].path) => x \in Pending(p)' /\ PathFree(x, m[x].path)'
    BY <1>5, <2>3, LateListed
  <2>5. Progress(p)' BY <1>1, <1>2, <1>4, <2>1, <2>4, ProgressKept
  <2> QED BY <1>1, <1>2, <1>4, <2>1, <2>2, <2>5, RestConverges DEF SameRun
<1>7. ASSUME NEW d \in DOMAIN m, Noted(p, d, "failed"), ~ Valid(m[d]) PROVE ConvergeInv'
  <2>1. /\ SameRun(p) /\ run'[p].pc = "next" /\ run'[p].todo = run[p].todo \ {d}
        /\ run'[p].manifest = m
    BY <1>1, <1>2, <1>7 DEF Noted, SameRun
  <2>2. Fresh(p)' BY <2>1 DEF Fresh
  <2>3. d \notin Late(m)
    <3>1. ~ Indexable(m, d) BY <1>7 DEF Indexable
    <3> QED BY <3>1, LateIndexable DEF Late
  <2>4. Pending(p) \ {d} \subseteq Pending(p)' BY <1>1, <2>1 DEF Pending
  <2>5. \A x \in Late(m) \cap Pending(p) :
           PathFree(x, m[x].path) => x \in Pending(p)' /\ PathFree(x, m[x].path)'
    BY <1>5, <2>3, <2>4, LateListed
  <2>6. Progress(p)' BY <1>1, <1>2, <1>4, <2>1, <2>5, ProgressKept
  <2> QED BY <1>1, <1>2, <1>4, <2>1, <2>2, <2>6, RestConverges DEF SameRun
<1> QED BY <1>1, <1>2, <1>6, <1>7, ValidateEffect

LEMMA ConvergeCompare ==
    ASSUME ConvergeInv, KeepsInv', NEW p \in Proc,
           Unchanged(p) \/ UpdateMetadata(p) \/ Replace(p)
    PROVE  ConvergeInv'
<1>1. /\ TypeOK /\ run[p].pc = "compared"
      /\ file' = file /\ edits' = edits /\ calm' = calm
  BY DEF ConvergeInv, KeepsInv, Unchanged, UpdateMetadata, Replace
<1>2. /\ Runs(p) /\ Lists(p) /\ Fresh(p) /\ CalmRuns /\ run[p] \in Running
  BY <1>1, Typed DEF ConvergeInv, KeepsInv, Runs
<1>3. PICK m \in Manifests, d \in Document :
         m = run[p].manifest /\ d = run[p].document /\ d \in DOMAIN m
  BY <1>1, <1>2, ManifestEntries DEF Running, Lists
<1>4. PICK o \in Outcome : Noted(p, d, o) BY <1>1, <1>2, <1>3, CompareEffect
<1>5. /\ SameRun(p) /\ run'[p].pc = "next" /\ run'[p].todo = run[p].todo
      /\ run'[p].manifest = m
  BY <1>1, <1>3, <1>4 DEF Noted, SameRun
<1>6. calm.runs > 0 => run[p].edits = edits BY <1>2 DEF CalmRuns
<1>7. ASSUME run[p].edits = edits, run[p].alone \/ calm.runs > 0
      PROVE  /\ Improves(m, d)
             /\ run[p].alone /\ Indexable(m, d) /\ PathFree(d, m[d].path) => Settled(m, d)'
  BY <1>1, <1>2, <1>3, <1>7, Settles
<1>8. Fresh(p)' BY <1>5 DEF Fresh
<1>9. Progress(p)'
  <2>1. ASSUME Promising(p), NEW x \in Late(m) \cap Pending(p), PathFree(x, m[x].path)
        PROVE  \/ x \notin Late(m)'
               \/ x \in Pending(p)' /\ PathFree(x, m[x].path)'
    <3>1. Improves(m, d) BY <1>7, <2>1 DEF Promising, Undisturbed
    <3>2. x \in DOMAIN m /\ Indexable(m, x) BY LateIndexable DEF Late
    <3>3. CASE x = d
      <4>1. Settled(m, d)' BY <1>7, <2>1, <3>2, <3>3 DEF Promising, Undisturbed
      <4> QED BY <3>1, <3>3, <4>1, LateShrinks
    <3>4. CASE x # d
      <4>1. x \in Pending(p)' BY <1>1, <1>3, <1>5, <3>4 DEF Pending
      <4>2. PathFree(x, m[x].path)' BY <2>1, <3>1, <3>2, <3>4, FreeStays
      <4> QED BY <4>1, <4>2
    <3> QED BY <3>3, <3>4
  <2>2. Promising(p) => Improves(m, d) BY <1>7 DEF Promising, Undisturbed
  <2> QED BY <1>1, <1>2, <1>3, <1>5, <2>1, <2>2, ProgressKept
<1>10. calm.runs > 0 => Improves(m, d) BY <1>6, <1>7
<1> QED BY <1>1, <1>2, <1>3, <1>5, <1>8, <1>9, <1>10, RestConverges DEF SameRun

LEMMA ConvergeRemove ==
    ASSUME ConvergeInv, KeepsInv', NEW p \in Proc, RemoveUnlisted(p)
    PROVE  ConvergeInv'
<1>1. /\ TypeOK /\ run[p].pc = "next" /\ run[p].todo = {} /\ run' = run
      /\ file' = file /\ edits' = edits /\ calm' = calm
  BY DEF ConvergeInv, KeepsInv, RemoveUnlisted
<1>2. Runs(p) /\ run[p] \in Running BY <1>1, Typed DEF Runs
<1>3. PICK m \in Manifests : m = run[p].manifest BY <1>2 DEF Running
<1>4. PICK d \in DOMAIN rows \ DOMAIN m : OthersKept(d) /\ DOMAIN rows' = DOMAIN rows \ {d}
  BY <1>1, <1>3, RemoveEffect
<1>5. Improves(m, d) BY <1>1, <1>4 DEF Improves
<1>6. Pending(p) = {} BY <1>1 DEF Pending
<1>7. SameRun(p) BY <1>1, <1>2 DEF SameRun, TypeOK
<1>8. Progress(p)' BY <1>1, <1>2, <1>3, <1>5, <1>6, <1>7, ProgressKept
<1>9. Fresh(p)' BY <1>1 DEF Fresh
<1> QED BY <1>1, <1>2, <1>3, <1>5, <1>8, <1>9, RestConverges

\* The end of a promising run counts for one late document less.
LEMMA ConvergeReport ==
    ASSUME ConvergeInv, KeepsInv', NEW p \in Proc, Report(p)
    PROVE  ConvergeInv'
<1>1. /\ TypeOK /\ Runs(p) /\ Lists(p) /\ Alone(p) /\ CalmType /\ CalmRuns /\ Progress(p)
      /\ run[p].edits <= edits /\ run[p] \in Running
      /\ file' = file /\ edits' = edits /\ run[p].todo = {}
  BY Typed DEF ConvergeInv, KeepsInv, Report, Runs
<1>2. PICK m \in Manifests : m = run[p].manifest BY <1>1 DEF Running
<1>3. /\ SameRun(p) /\ run[p].pc = "next" /\ run'[p].pc = "report" /\ rows' = rows
      /\ run[p].all => DOMAIN rows \subseteq DOMAIN m
  BY <1>1, <1>2, ReportEffect
<1>4. Fresh(p)' /\ Progress(p)' BY <1>3 DEF Fresh, Progress, Promising
<1>5. CASE ~ (run[p].all /\ Undisturbed(p))
  <2>1. calm' = [calm EXCEPT !.runs = 0] BY <1>5 DEF Report
  <2> QED BY <1>1, <1>2, <1>3, <1>4, <2>1, RestConverges DEF SameRun
<1>6. CASE run[p].all /\ Undisturbed(p)
  <2>1. calm' = [runs |-> calm.runs + 1, manifest |-> m] BY <1>2, <1>6 DEF Report
  <2>2. calm.runs \in Nat /\ CalmType' BY <1>1, <2>1 DEF CalmType
  <2>3. ASSUME NEW q \in Proc, Runs(q)' PROVE q = p
    BY <1>1, <1>3, <1>6, <2>3 DEF Alone, Undisturbed, SameRun, Runs
  <2>4. run'[p].manifest = m /\ run'[p].edits = edits
    BY <1>2, <1>3, <1>6 DEF SameRun, Undisturbed
  <2>5. /\ Cardinality(Late(m)) \in Nat /\ Cardinality(Document) \in Nat
        /\ DOMAIN m # Document => Cardinality(Late(m)) + 1 <= Cardinality(Document)
    BY LateListed, Counted
  <2>6. LateBound(m, calm.runs + 1)
    <3>1. CASE Promising(p)
      <4>1. Pending(p) = {} BY <1>1, <1>3 DEF Pending
      <4> QED BY <1>1, <1>2, <3>1, <4>1 DEF Progress
    <3>2. CASE ~ Promising(p)
      <4>1. ~ (calm.runs > 0) /\ DOMAIN m # Document
        BY <1>2, <1>3, <1>6, <3>2 DEF Promising
      <4>2. Cardinality(Late(m)) + (calm.runs + 1) <= Cardinality(Document)
        BY <2>2, <2>5, <4>1
      <4> QED BY <4>2 DEF LateBound
    <3> QED BY <3>1, <3>2
  <2>7. Late(m)' = Late(m)
    BY <1>1, <1>3 DEF Late, Blocked, Stuck, Indexable, Valid, Settled
  <2>8. LateBound(m, calm.runs + 1)' <=> Late(m)' = {}
           \/ Cardinality(Late(m)') + (calm'.runs + 1) <= Cardinality(Document)
    BY DEF LateBound
  <2>9. CalmRuns'
    <3>1. calm'.manifest = m /\ calm'.runs = calm.runs + 1 BY <2>1
    <3>2. Late(m)' = {} \/ Cardinality(Late(m)') + calm'.runs <= Cardinality(Document)
      BY <2>6, <2>7, <3>1 DEF LateBound
    <3>3. \A q \in Proc : Runs(q)' => run'[q].manifest = m /\ run'[q].edits = edits'
      BY <1>1, <2>3, <2>4
    <3>4. DOMAIN rows' \subseteq DOMAIN m BY <1>3, <1>6
    <3> QED BY <3>1, <3>2, <3>3, <3>4 DEF CalmRuns, LateBound
  <2>10. \A q \in Proc : Runs(q)' => run'[q].edits <= edits' /\ Fresh(q)' /\ Progress(q)'
    <3>1. run'[p].edits <= edits' BY <1>1, <1>3 DEF SameRun
    <3> QED BY <1>4, <2>3, <3>1
  <2> QED BY <2>2, <2>9, <2>10 DEF ConvergeInv
<1> QED BY <1>5, <1>6

LEMMA ConvergeStop ==
    ASSUME ConvergeInv, KeepsInv', NEW p \in Proc, Return(p) \/ Kill(p)
    PROVE  ConvergeInv'
<1>1. /\ TypeOK /\ Runs(p) /\ rows' = rows /\ run' = [run EXCEPT ![p] = Idle]
      /\ file' = file /\ edits' = edits
      /\ calm' = calm \/ calm' = [calm EXCEPT !.runs = 0]
  BY DEF ConvergeInv, KeepsInv, Return, Kill, Runs
<1>2. run[p] \in Running BY <1>1, Typed
<1>3. PICK m \in Manifests : m = run[p].manifest BY <1>2 DEF Running
<1>4. ~ Runs(p)' /\ \A q \in Proc \ {p} : run'[q] = run[q] BY <1>1 DEF TypeOK, Runs, Idle
<1>5. \A d : Improves(m, d) BY <1>1 DEF Improves, OthersKept
<1> QED BY <1>1, <1>3, <1>4, <1>5, RestConverges

LEMMA ConvergeStep ==
    ASSUME ConvergeInv, NEW p \in Proc, Step(p)
    PROVE  ConvergeInv'
<1>1. KeepsInv' BY KeepsStep DEF ConvergeInv
<1> QED BY <1>1, ConvergeValidate, ConvergeCompare, ConvergeRemove, ConvergeReport,
           ConvergeStop DEF Step

\* A full run that starts has all that is late before it, and of that
\* something whose path is free.
LEMMA ConvergeStart ==
    ASSUME ConvergeInv, NEW p \in Proc, NEW m \in Manifests, NEW requested \in Requests,
           Start(p, m, requested)
    PROVE  ConvergeInv'
<1>1. /\ TypeOK /\ KeepsInv' /\ CalmType /\ CalmRuns
      /\ file' = file /\ edits' = edits /\ edits \in Nat
  BY KeepsStart DEF ConvergeInv, KeepsInv, TypeOK, Start
<1>2. /\ ~ Runs(p) /\ rows' = rows
      /\ run'[p].pc = "next" /\ run'[p].manifest = m /\ run'[p].edits = edits
      /\ run'[p].all => run'[p].todo = DOMAIN m
      /\ \A q \in Proc \ {p} : ~ Runs(q) => run'[q] = Idle
      /\ \A q \in Proc \ {p} : Runs(q) => run'[q] = [run[q] EXCEPT !.alone = FALSE]
  BY <1>1, StartEffect
<1>3. calm' = IF calm.manifest # m THEN [calm EXCEPT !.runs = 0] ELSE calm BY DEF Start
<1>4. CalmType' BY <1>1, <1>3 DEF CalmType
<1>5. ASSUME NEW q \in Proc \ {p}, Runs(q)'
      PROVE  /\ Runs(q) /\ run'[q].manifest = run[q].manifest
             /\ run'[q].edits = run[q].edits
             /\ Fresh(q)' /\ Progress(q)'
  <2>1. Runs(q) BY <1>2, <1>5 DEF Runs, Idle
  <2>2. run[q] \in Running /\ Fresh(q) BY <1>1, <2>1, Typed DEF ConvergeInv
  <2>3. run'[q] = [run[q] EXCEPT !.alone = FALSE] BY <1>2, <2>1
  <2>4. /\ ~ run'[q].alone /\ run'[q].pc = run[q].pc /\ run'[q].edits = run[q].edits
        /\ run'[q].manifest = run[q].manifest /\ run'[q].document = run[q].document
        /\ run'[q].existing = run[q].existing
    BY <2>2, <2>3 DEF Running
  <2>5. SamePrint(q)' <=> SamePrint(q) BY <2>4 DEF SamePrint
  <2>6. calm'.runs > 0 => calm.runs > 0 BY <1>1, <1>3 DEF CalmType
  <2>7. Fresh(q)' BY <1>1, <1>2, <2>2, <2>4, <2>5, <2>6 DEF Fresh, Valid
  <2>8. Progress(q)' BY <2>4 DEF Progress, Promising, Undisturbed
  <2> QED BY <2>1, <2>4, <2>7, <2>8
<1>6. Late(m)' = Late(m)
  BY <1>1, <1>2 DEF Late, Blocked, Stuck, Indexable, Valid, Settled
<1>7. calm'.runs > 0 => calm' = calm /\ calm.manifest = m /\ calm.runs > 0
  BY <1>1, <1>3 DEF CalmType
<1>8. CalmRuns'
  <2>1. SUFFICES ASSUME calm'.runs > 0
                 PROVE  /\ DOMAIN rows' \subseteq DOMAIN m
                        /\ \A q \in Proc : Runs(q)' =>
                              run'[q].manifest = m /\ run'[q].edits = edits'
                        /\ Late(m)' = {}
                           \/ Cardinality(Late(m)') + calm'.runs <= Cardinality(Document)
    BY <1>7 DEF CalmRuns, LateBound
  <2>2. /\ calm' = calm /\ calm.manifest = m /\ DOMAIN rows \subseteq DOMAIN m
        /\ \A q \in Proc : Runs(q) => run[q].manifest = m /\ run[q].edits = edits
        /\ LateBound(m, calm.runs)
    BY <1>1, <1>7, <2>1 DEF CalmRuns
  <2>3. ASSUME NEW q \in Proc, Runs(q)'
        PROVE  run'[q].manifest = m /\ run'[q].edits = edits'
    <3>1. CASE q = p BY <1>1, <1>2, <3>1
    <3>2. CASE q # p BY <1>1, <1>5, <2>2, <2>3, <3>2
    <3> QED BY <3>1, <3>2
  <2> QED BY <1>2, <1>6, <2>2, <2>3 DEF LateBound
<1>9. Fresh(p)' BY <1>2 DEF Fresh
<1>10. Progress(p)'
  <2>1. SUFFICES ASSUME Promising(p)', Late(m) # {}
                 PROVE  \E x \in Late(m) \cap Pending(p)' : PathFree(x, m[x].path)'
    BY <1>2, <1>6 DEF Progress, LateBound
  <2>2. DOMAIN rows \subseteq DOMAIN m
    <3>1. CASE calm'.runs > 0 BY <1>1, <1>7, <3>1 DEF CalmRuns
    <3>2. CASE DOMAIN m = Document BY <1>1, <3>2, TableRows
    <3> QED BY <1>2, <2>1, <3>1, <3>2 DEF Promising
  <2>3. PICK x \in Late(m) : PathFree(x, m[x].path) BY <2>1, <2>2, SomeFree
  <2>4. x \in Pending(p)' BY <1>2, <2>1, LateListed DEF Pending, Promising
  <2>5. PathFree(x, m[x].path)' BY <1>2, <2>3 DEF PathFree
  <2> QED BY <2>3, <2>4, <2>5
<1>11. ASSUME NEW q \in Proc, Runs(q)'
       PROVE  run'[q].edits <= edits' /\ Fresh(q)' /\ Progress(q)'
  <2>1. CASE q = p BY <1>1, <1>2, <1>9, <1>10, <2>1
  <2>2. CASE q # p BY <1>1, <1>5, <1>11, <2>2 DEF ConvergeInv
  <2> QED BY <2>1, <2>2
<1> QED BY <1>1, <1>4, <1>8, <1>11 DEF ConvergeInv

LEMMA ConvergeEdit ==
    ASSUME ConvergeInv, NEW path \in FilePath, NEW content \in Content \cup {Null},
           EditFile(path, content)
    PROVE  ConvergeInv'
<1>1. /\ KeepsInv' /\ CalmType /\ edits \in Nat
      /\ run' = run /\ rows' = rows /\ edits' = edits + 1
      /\ calm' = [calm EXCEPT !.runs = 0]
  BY KeepsEdit DEF ConvergeInv, KeepsInv, TypeOK, EditFile
<1>2. CalmType' /\ CalmRuns' BY <1>1 DEF CalmType, CalmRuns
<1>3. ASSUME NEW p \in Proc, Runs(p)'
      PROVE  run'[p].edits <= edits' /\ Fresh(p)' /\ Progress(p)'
  <2>1. Runs(p) /\ run[p].edits <= edits /\ Fresh(p) /\ run[p].edits \in Nat
    BY <1>1, <1>3, Typed DEF Runs, ConvergeInv, KeepsInv, Running
  <2>2. run'[p].edits # edits' /\ run'[p].edits <= edits' BY <1>1, <2>1
  <2>3. calm'.runs = 0 BY <1>1 DEF CalmType
  <2>4. Fresh(p)' BY <1>1, <2>1, <2>2, <2>3 DEF Fresh
  <2>5. Progress(p)' BY <2>2 DEF Progress, Promising, Undisturbed
  <2> QED BY <2>2, <2>4, <2>5
<1> QED BY <1>1, <1>2, <1>3 DEF ConvergeInv

\* Repeated full runs of index_documents repair the index, whatever was killed,
\* failed, moved or was edited before, also under other runs: after as many
\* full runs as there are documents, with nothing else in between, every listed
\* document that is not blocked is "ok" for index_status.
THEOREM RepeatedRunsConverge == Spec => []Converges
<1>1. Init => ConvergeInv
  <2> SUFFICES ASSUME Init PROVE ConvergeInv OBVIOUS
  <2>1. KeepsInv BY KeepsInit
  <2>2. calm = [runs |-> 0, manifest |-> Null] /\ \A p \in Proc : ~ Runs(p)
    BY DEF Init, Runs, Idle
  <2> QED BY <2>1, <2>2 DEF ConvergeInv, CalmType, CalmRuns
<1>2. ConvergeInv /\ [Next]_vars => ConvergeInv'
  <2> SUFFICES ASSUME ConvergeInv, [Next]_vars PROVE ConvergeInv' OBVIOUS
  <2>1. CASE \E p \in Proc, m \in Manifests, requested \in Requests : Start(p, m, requested)
    BY <2>1, ConvergeStart
  <2>2. CASE \E p \in Proc : Step(p) BY <2>2, ConvergeStep
  <2>3. CASE \E path \in FilePath, content \in Content \cup {Null} : EditFile(path, content)
    BY <2>3, ConvergeEdit
  <2>4. CASE UNCHANGED vars
    <3>1. KeepsInv' BY KeepsNext DEF ConvergeInv
    <3>2. /\ file' = file /\ rows' = rows /\ run' = run /\ edits' = edits /\ calm' = calm
      BY <2>4 DEF vars
    <3>3. CalmType' BY <3>2 DEF ConvergeInv, CalmType
    <3>4. \A m : Late(m)' = Late(m)
      BY <3>2 DEF Late, Blocked, Stuck, Indexable, Valid, Settled
    <3>5. CalmRuns'
      <4>1. LateBound(calm.manifest, calm.runs)' <=> LateBound(calm.manifest, calm.runs)
        BY <3>2, <3>4 DEF LateBound
      <4> QED BY <3>2, <4>1 DEF ConvergeInv, CalmRuns, Runs
    <3>6. ASSUME NEW p \in Proc, Runs(p)'
          PROVE  run'[p].edits <= edits' /\ Fresh(p)' /\ Progress(p)'
      <4>1. Runs(p) /\ run[p].edits <= edits /\ Fresh(p) /\ Progress(p)
        BY <3>2, <3>6 DEF Runs, ConvergeInv
      <4>2. Fresh(p)' BY <3>2, <4>1 DEF Fresh, Valid, SamePrint
      <4>3. Late(run[p].manifest)' = Late(run[p].manifest)
        BY <3>2, <3>4
      <4>4. Progress(p)'
        BY <3>2, <3>4, <4>1, <4>3
        DEF Progress, Promising, Undisturbed, LateBound, Pending, PathFree
      <4> QED BY <3>2, <4>1, <4>2, <4>4
    <3> QED BY <3>1, <3>3, <3>5, <3>6 DEF ConvergeInv
  <2> QED BY <2>1, <2>2, <2>3, <2>4 DEF Next
<1>3. ConvergeInv => Converges
  <2> DEFINE m == calm.manifest
  <2> SUFFICES ASSUME ConvergeInv, calm.runs > 0, calm.runs >= Cardinality(Document),
                      NEW d \in DOMAIN m \ Blocked(m)
               PROVE  Status(d, m) = "ok"
    BY DEF Converges
  <2>1. /\ m \in Manifests /\ LateBound(m, calm.runs) /\ calm.runs \in Nat /\ TypeOK
    BY DEF ConvergeInv, KeepsInv, CalmRuns, CalmType
  <2>2. Late(m) = {}
    <3>1. /\ Cardinality(Late(m)) \in Nat /\ Cardinality(Document) \in Nat
          /\ Late(m) # {} => Cardinality(Late(m)) # 0
      BY <2>1, LateListed, Counted
    <3>2. CASE Cardinality(Late(m)) + calm.runs <= Cardinality(Document)
      <4>1. Cardinality(Late(m)) = 0 BY <2>1, <3>1, <3>2
      <4> QED BY <3>1, <4>1
    <3> QED BY <2>1, <3>2 DEF LateBound
  <2>3. Settled(m, d) BY <2>2 DEF Late
  <2>4. Valid(m[d]) BY LateIndexable DEF Indexable
  <2>5. m[d] \in Entry BY <2>1, ManifestEntries
  <2>6. file[m[d].path] # Null BY <2>4, <2>5, DocumentIndexAssumption DEF Valid, Entry
  <2>7. rows[d] \in Row BY <2>1, <2>3, TableRows DEF Settled
  <2>8. [rows[d] EXCEPT !.body = Null] = [Built(m[d]) EXCEPT !.body = Null]
    BY <2>3, <2>7 DEF Settled, Row, Built
  <2> QED BY <2>3, <2>4, <2>6, <2>8 DEF Status, Settled
<1> QED BY <1>1, <1>2, <1>3, PTL DEF Spec
====
