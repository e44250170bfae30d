---------------------------- MODULE DocumentIndex ----------------------------
(***************************************************************************)
(* The full-text index of the manifest's documents (catalog_index.py,      *)
(* index_documents and index_status).                                      *)
(*                                                                         *)
(* The index has one row per document: metadata, a fingerprint (checksum,  *)
(* extractor and its version) and a body, all that was extracted.  Every   *)
(* document is replaced in a transaction of its own, after its file was    *)
(* verified and its row compared; a run can fail on any document, be       *)
(* killed between two steps and interleave with the run of another         *)
(* process.  No two rows may have the same path.                           *)
(*                                                                         *)
(* Contents stand for their checksums; the extractor of an entry is the    *)
(* one extractor_for_document selects, with its version.  A content that   *)
(* cannot be extracted makes the extractor raise between its events.       *)
(***************************************************************************)
EXTENDS Naturals, FiniteSets, Functions, FiniteSetsExt

CONSTANTS
    Proc,           \* processes that index
    Document,       \* document ids
    FilePath,       \* paths of document files
    Content,        \* contents of files
    Broken,         \* contents no extractor can read
    Manifests,      \* each maps the ids it lists to their entries
    Extractors,     \* extractors with their versions
    Requests,       \* sets of documents a run is asked for, {} for all
    Null,           \* no file
    FilesMove,      \* bound: may a file change while a run is going on
    MaxRuns,        \* bound: runs started
    MaxEdits        \* bound: changes of files

Entry == [path : FilePath, sha256 : Content, extractor : Extractors, tags : BOOLEAN]
Row == [path : FilePath, tags : BOOLEAN,
        print : [sha256 : Content, extractor : Extractors],
        body : [of : Content, by : Extractors]]
ASSUME DocumentIndexAssumption ==
    /\ Broken \subseteq Content /\ Null \notin Content \cup Row
    /\ \A m \in Manifests : /\ DOMAIN m \subseteq Document
                            /\ \A d \in DOMAIN m : m[d] \in Entry
                            \* validate_manifest_v2: "duplicate resource path"
                            /\ \A d, e \in DOMAIN m : m[d].path = m[e].path => d = e
    /\ Requests \subseteq SUBSET Document
    /\ IsFiniteSet(Document)       \* all that the manifests ever list
    /\ FilesMove \in BOOLEAN /\ {MaxRuns, MaxEdits} \subseteq Nat

VARIABLES
    file,       \* what is at every path
    rows,       \* table documents with all that refers to it, by id
    run,        \* the run of every process
    started, edits,
    calm        \* full runs that ended one after the other with the same
                \* manifest, nothing else happening

vars == <<file, rows, run, started, edits, calm>>

Idle == [pc |-> "idle"]
Fingerprint(entry) == [sha256 |-> entry.sha256, extractor |-> entry.extractor]

\* consume_extraction: the pages, sections and chunks of a content.
Body(content, extractor) == [of |-> content, by |-> extractor]

\* What indexing a document from scratch would make of it.
Built(entry) == [path |-> entry.path, tags |-> entry.tags,
                print |-> Fingerprint(entry),
                body |-> Body(entry.sha256, entry.extractor)]

Put(d, row) == [x \in DOMAIN rows \cup {d} |-> IF x = d THEN row ELSE rows[x]]

\* The UNIQUE constraint on documents.path.
PathFree(d, path) == \A x \in DOMAIN rows \ {d} : rows[x].path # path

-----------------------------------------------------------------------------
(* A run *)

Start(p, m, requested) ==
    /\ run[p].pc = "idle" /\ started < MaxRuns
    /\ requested \subseteq DOMAIN m        \* else "unknown document ID(s)"
    /\ started' = started + 1
    /\ run' = [q \in Proc |->
         IF q = p
         THEN [pc |-> "next", manifest |-> m,
               all |-> requested = {},
               todo |-> IF requested = {} THEN DOMAIN m ELSE requested,
               document |-> Null, existing |-> Null, outcome |-> <<>>,
               before |-> rows, edits |-> edits,
               alone |-> \A x \in Proc \ {p} : run[x].pc = "idle"]
         ELSE IF run[q].pc = "idle" THEN Idle ELSE [run[q] EXCEPT !.alone = FALSE]]
    /\ calm' = IF calm.manifest # m
               THEN [calm EXCEPT !.runs = 0] ELSE calm
    /\ UNCHANGED <<file, rows, edits>>

Ends(p, d, outcome) ==
    run' = [run EXCEPT ![p].pc = "next",
              ![p].outcome = [x \in DOMAIN @ \cup {d} |->
                                IF x = d THEN outcome ELSE @[x]]]

\* validate_document_file: the file must have the checksum of the manifest.
Valid(entry) == file[entry.path] = entry.sha256

\* The next document: its file is verified and its row read.
Validate(p) ==
    /\ run[p].pc = "next" /\ run[p].todo # {}
    /\ LET d == CHOOSE x \in run[p].todo : TRUE
           entry == run[p].manifest[d]
       IN IF Valid(entry)
          THEN run' = [run EXCEPT ![p].pc = "compared", ![p].document = d,
                         ![p].todo = @ \ {d},
                         ![p].existing = IF d \in DOMAIN rows THEN rows[d] ELSE Null]
          ELSE run' = [run EXCEPT ![p].todo = @ \ {d},
                         ![p].outcome = [x \in DOMAIN @ \cup {d} |->
                                           IF x = d THEN "failed" ELSE @[x]]]
    /\ UNCHANGED <<file, rows, started, edits, calm>>

SamePrint(p) == run[p].existing # Null
    /\ run[p].existing.print = Fingerprint(run[p].manifest[run[p].document])
\* Mutant of SameMetadata: a moved file is taken for the same.
SameTags(p) == run[p].existing.tags = run[p].manifest[run[p].document].tags

SameMetadata(p) ==
    LET entry == run[p].manifest[run[p].document] IN
    run[p].existing.path = entry.path /\ run[p].existing.tags = entry.tags

Unchanged(p) ==
    /\ run[p].pc = "compared" /\ SamePrint(p) /\ SameMetadata(p)
    /\ Ends(p, run[p].document, "unchanged")
    /\ UNCHANGED <<file, rows, started, edits, calm>>

\* Only the metadata differs: one transaction, which fails on a path another
\* row has and on tags of a row that is gone.
UpdateMetadata(p) ==
    /\ run[p].pc = "compared" /\ SamePrint(p) /\ ~SameMetadata(p)
    /\ LET d == run[p].document
           entry == run[p].manifest[d]
       IN IF d \in DOMAIN rows /\ PathFree(d, entry.path)
          THEN /\ rows' = [rows EXCEPT ![d].path = entry.path, ![d].tags = entry.tags]
               /\ Ends(p, d, "updated")
          ELSE /\ UNCHANGED rows
               /\ Ends(p, d, IF d \in DOMAIN rows \/ entry.tags THEN "failed" ELSE "updated")
    /\ UNCHANGED <<file, started, edits, calm>>

\* ExtractionState: an extractor that raises, or whose pages, sections and
\* chunks do not fit together, fails the document.
Extractable(content) == content \notin Broken \cup {Null}

\* Mutant of Replace: the old row is deleted in a transaction of its own.
ReplaceInTwo(p) ==
    /\ run[p].pc = "compared" /\ ~SamePrint(p)
    /\ LET d == run[p].document
           entry == run[p].manifest[d]
       IN IF PathFree(d, entry.path) /\ Extractable(file[entry.path])
          THEN /\ rows' = Put(d, Built(entry))
               /\ Ends(p, d, "indexed")
          ELSE /\ rows' = Restrict(rows, DOMAIN rows \ {d})
               /\ Ends(p, d, "failed")
    /\ UNCHANGED <<file, started, edits, calm>>

\* DELETE, INSERT and the whole extraction are one transaction; a path
\* another row has or a failing extraction rolls all of it back.
Replace(p) ==
    /\ run[p].pc = "compared" /\ ~SamePrint(p)
    /\ LET d == run[p].document
           entry == run[p].manifest[d]
           content == file[entry.path]
       IN IF PathFree(d, entry.path) /\ Extractable(content)
          THEN /\ rows' = Put(d, [Built(entry) EXCEPT !.body = Body(content, entry.extractor)])
               /\ Ends(p, d, "indexed")
          ELSE UNCHANGED rows /\ Ends(p, d, "failed")
    /\ UNCHANGED <<file, started, edits, calm>>

\* Mutant of Unlisted: nothing is removed when a document failed.
UnlistedUnlessFailed(p) ==
    IF \E d \in DOMAIN run[p].outcome : run[p].outcome[d] = "failed"
    THEN {} ELSE DOMAIN rows \ DOMAIN run[p].manifest

\* A full run then removes what the manifest lists no more, one transaction
\* per document.
Unlisted(p) == DOMAIN rows \ DOMAIN run[p].manifest

RemoveUnlisted(p) ==
    /\ run[p].pc = "next" /\ run[p].todo = {} /\ run[p].all
    /\ \E d \in Unlisted(p) : rows' = Restrict(rows, DOMAIN rows \ {d})
    /\ UNCHANGED <<file, run, started, edits, calm>>

Undisturbed(p) == run[p].alone /\ run[p].edits = edits

Report(p) ==
    /\ run[p].pc = "next" /\ run[p].todo = {}
    /\ run[p].all => Unlisted(p) = {}
    /\ run' = [run EXCEPT ![p].pc = "report"]
    /\ calm' = IF run[p].all /\ Undisturbed(p)
               THEN [runs |-> calm.runs + 1, manifest |-> run[p].manifest]
               ELSE [calm EXCEPT !.runs = 0]
    /\ UNCHANGED <<file, rows, started, edits>>

Return(p) ==
    /\ run[p].pc = "report"
    /\ run' = [run EXCEPT ![p] = Idle]
    /\ UNCHANGED <<file, rows, started, edits, calm>>

\* An open transaction of a killed process is rolled back.
Kill(p) ==
    /\ run[p].pc \in {"next", "compared"}
    /\ run' = [run EXCEPT ![p] = Idle]
    /\ calm' = [calm EXCEPT !.runs = 0]
    /\ UNCHANGED <<file, rows, started, edits>>

\* Someone replaces, adds or deletes a file.
EditFile(path, content) ==
    /\ edits < MaxEdits
    /\ FilesMove \/ \A p \in Proc : run[p].pc = "idle"
    /\ file[path] # content
    /\ file' = [file EXCEPT ![path] = content]
    /\ edits' = edits + 1
    /\ calm' = [calm EXCEPT !.runs = 0]
    /\ UNCHANGED <<rows, run, started>>

Init ==
    /\ \E m \in Manifests :
         file = [path \in FilePath |->
                   IF \E d \in DOMAIN m : m[d].path = path
                   THEN m[CHOOSE d \in DOMAIN m : m[d].path = path].sha256
                   ELSE Null]
    /\ rows = <<>>
    /\ run = [p \in Proc |-> Idle]
    /\ started = 0 /\ edits = 0
    /\ calm = [runs |-> 0, manifest |-> Null]

Step(p) == \/ Validate(p) \/ Unchanged(p) \/ UpdateMetadata(p) \/ Replace(p)
           \/ RemoveUnlisted(p) \/ Report(p) \/ Return(p) \/ Kill(p)

Next ==
    \/ \E p \in Proc, m \in Manifests, requested \in Requests : Start(p, m, requested)
    \/ \E p \in Proc : Step(p)
    \/ \E path \in FilePath, content \in Content \cup {Null} : EditFile(path, content)

Spec == Init /\ [][Next]_vars

-----------------------------------------------------------------------------
(* index_status *)

Status(d, m) ==
    IF file[m[d].path] = Null THEN "missing"
    ELSE IF ~Valid(m[d]) THEN "changed"
    ELSE IF d \notin DOMAIN rows THEN "missing"
    ELSE IF [rows[d] EXCEPT !.body = Null] # [Built(m[d]) EXCEPT !.body = Null]
    THEN "stale" ELSE "ok"

-----------------------------------------------------------------------------
(* Properties *)

Selected(p) == DOMAIN run[p].outcome

\* Incremental is as good as from scratch, and index_status says so: a
\* document a run did not fail on has, when an undisturbed run ends, exactly
\* the row indexing it anew would make, and is "ok"; a full run leaves no
\* document the manifest does not list.
OutcomeAgrees ==
    \A p \in Proc : run[p].pc = "report" /\ Undisturbed(p) =>
        /\ \A d \in Selected(p) :
             LET entry == run[p].manifest[d] IN
             run[p].outcome[d] # "failed" =>
               /\ Status(d, run[p].manifest) = "ok"
               /\ rows[d] = Built(entry)
        /\ run[p].all => DOMAIN rows \subseteq DOMAIN run[p].manifest

\* All or nothing: a document the run failed on keeps the row it had, whole,
\* and documents the run was not asked for keep theirs ("any extraction or
\* validation failure restores the complete previous index").
FailureKeepsRow ==
    \A p \in Proc : run[p].pc = "report" /\ run[p].alone =>
        \A d \in DOMAIN run[p].before :
            (d \in Selected(p) /\ run[p].outcome[d] = "failed")
            \/ (d \notin Selected(p) /\ ~run[p].all)
            => d \in DOMAIN rows /\ rows[d] = run[p].before[d]

\* A run can bring the row of d to date, as soon as no other row has its path.
Indexable(m, d) ==
    /\ Valid(m[d])
    /\ \/ Extractable(m[d].sha256)
       \/ d \in DOMAIN rows /\ rows[d].print = Fingerprint(m[d])

\* No document of B can be indexed before another of B has moved.
Stuck(m, B) ==
    \A d \in B :
        \/ ~Indexable(m, d)
        \/ \E x \in (B \cap DOMAIN rows) \ {d} : rows[x].path = m[d].path

\* Documents that cannot be indexed, that wait in a cycle for one another's
\* paths, or that wait for the path of one of these.
Blocked(m) == UNION {B \in SUBSET DOMAIN m : Stuck(m, B)}

\* Repeating a full run repairs the index: after one run per document every
\* document whose file is as the manifest says is "ok", however the paths were
\* moved and whatever was interrupted before, unless it waits, itself or
\* through others, for the path of a document that is in a cycle of exchanged
\* paths or cannot be indexed.
Converges ==
    calm.runs > 0 /\ calm.runs >= Cardinality(Document) =>
        LET m == calm.manifest IN
        \A d \in DOMAIN m \ Blocked(m) : Status(d, m) = "ok"
=============================================================================
