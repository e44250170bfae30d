---------------------------- MODULE CodeNavigation ----------------------------
(***************************************************************************)
(* Reading the tag index while it is being rebuilt: searching page by page, *)
(* tracing a symbol through the revisions, reading the source of tags and   *)
(* finding the scope they are in (code_navigation.py, and                   *)
(* resolve_enclosing_tags of ctags_index.py).                               *)
(*                                                                         *)
(* An analysis of a blob replaces the blob's tags in one transaction, with  *)
(* new row ids; a client makes its calls one after the other, each call     *)
(* reads the index as it is then.  A blob never changes.  Its definitions   *)
(* really nest as "in" says; of this Ctags reports, for every definition,   *)
(* the kind and the qualified name of what it is in, and its lines.         *)
(* References, languages and the other search fields are filters that are   *)
(* not modelled; a line of source is one character and its newline.         *)
(***************************************************************************)
EXTENDS Integers, FiniteSets, Sequences, SequencesExt, FiniteSetsExt, Functions, SetOrder

CONSTANTS
    Blob,           \* blobs
    Sources,        \* what can be in one: [text, ends, defs], a text per line
    Histories,      \* the blob of a path in every revision, oldest first
    Symbols,        \* names of definitions, numbers in their text order
    Limits,         \* page sizes of a search
    MatchLimit,     \* matches of one revision trace_history accepts
    Contexts, LineBudgets, CharBudgets,     \* of source requests
    MaxAsked,       \* bound: tags in one request
    None,           \* no tag, no cursor
    MaxAnalyses     \* bound: changes of the index

ASSUME CodeNavigationAssumption ==
    /\ Symbols \subseteq Nat /\ Histories \subseteq Seq(Blob)
    /\ Limits \subseteq Nat \ {0} /\ MatchLimit \in Nat
    /\ None \notin Nat \cup (Nat \X Nat)
    /\ \A s \in Sources : s.defs \in Seq({s.defs[i] : i \in DOMAIN s.defs})
    /\ \A s \in Sources : \A i \in DOMAIN s.defs :
          LET d == s.defs[i] IN
          /\ d.name \in Symbols /\ d.first \in 1..d.last /\ d.last \in 1..Len(s.text)
          /\ d.in \in 0..(i - 1)
          /\ d.in # 0 => s.defs[d.in].first <= d.first /\ d.last <= s.defs[d.in].last

VARIABLES
    content,    \* the source in every blob
    history,    \* the history the client may trace
    tags,       \* table ctags_tags: blob, definition and enclosing tag by id
    analyses,   \* changes of the index so far
    client      \* the operation of the client and how far it is

vars == <<content, history, tags, analyses, client>>

NoOperation == [op |-> "none"]
Range_(s) == {s[i] : i \in DOMAIN s}
Def(t) == content[tags[t].blob].defs[tags[t].def]
Length(b) == Len(content[b].text)
TagsOf(b) == {t \in DOMAIN tags : tags[t].blob = b}

-----------------------------------------------------------------------------
(* Storing an analysis: which scope a definition is in *)

\* Name of a definition with those of the scopes around it.
Qualified(defs) ==
    LET path[i \in 0..Len(defs)] ==
          IF i = 0 THEN <<>> ELSE Append(path[defs[i].in], defs[i].name)
    IN path

\* Mutant of Enclosing: the nearest of the name before the child, wherever it ends.
EnclosingNearest(source, i) ==
    LET defs == source.defs
        before == {j \in 1..(i - 1) : /\ defs[i].in # 0
                                      /\ defs[j].name = defs[defs[i].in].name}
    IN IF before # {} THEN Max(before) ELSE None

\* resolve_enclosing_tags: of the definitions with the kind and name of the
\* reported scope the one with that qualified name, then the shortest around
\* the child, then the nearest before it, if that leaves one.
Enclosing(source, i) ==
    LET defs == source.defs
        path == Qualified(defs)
        child == defs[i]
        scope == path[child.in]
        Span(j) == defs[j].last - defs[j].first
        Preferring(S, P(_)) == IF \E j \in S : P(j) THEN {j \in S : P(j)} ELSE S
        named == {j \in DOMAIN defs \ {i} : /\ defs[j].kind = defs[child.in].kind
                                            /\ \/ scope = <<defs[j].name>>
                                               \/ defs[j].in # 0 /\ path[j] = scope}
        exact == Preferring(named, LAMBDA j : defs[j].in # 0 /\ path[j] = scope)
        around == {j \in exact : /\ source.ends
                                 /\ defs[j].first <= child.first
                                 /\ child.first <= defs[j].last}
        shortest == IF around = {} THEN exact
                    ELSE {j \in around : \A k \in around : Span(j) <= Span(k)}
        before == {defs[j].first : j \in {k \in shortest : defs[k].first <= child.first}}
        nearest == IF Cardinality(shortest) > 1 /\ before # {}
                   THEN {j \in shortest : defs[j].first = Max(before)} ELSE shortest
    IN IF child.in # 0 /\ Cardinality(nearest) = 1
       THEN CHOOSE j \in nearest : TRUE ELSE None

\* What the client is in the middle of sees the tags of b go.
Disturbed(b) ==
    client' = IF client.op \in {"search", "trace"}
              THEN [client EXCEPT !.had = @ \ TagsOf(b), !.alone = FALSE]
              ELSE client

\* store_blob_analysis: rowids go on after the largest that is left.
Analyse(b) ==
    LET kept == Restrict(tags, DOMAIN tags \ TagsOf(b))
        next == Max(DOMAIN kept \cup {0})
        defs == content[b].defs
        Id(i) == IF i = None THEN None ELSE next + i
    IN /\ analyses < MaxAnalyses
       /\ analyses' = analyses + 1
       /\ tags' = [t \in DOMAIN kept \cup {next + i : i \in DOMAIN defs} |->
                     IF t \in DOMAIN kept THEN kept[t]
                     ELSE [blob |-> b, def |-> t - next,
                           enclosing |-> Id(Enclosing(content[b], t - next))]]
       /\ Disturbed(b)
       /\ UNCHANGED <<content, history>>

\* synchronize_catalog: the repository of the blob leaves the manifest.
Forget(b) ==
    /\ TagsOf(b) # {}
    /\ analyses < MaxAnalyses /\ analyses' = analyses + 1
    /\ tags' = Restrict(tags, DOMAIN tags \ TagsOf(b))
    /\ Disturbed(b)
    /\ UNCHANGED <<content, history>>

-----------------------------------------------------------------------------
(* search_tags, page by page *)

Cursor(t) == <<Def(t).name, t>>
Ordered(a, b) == a[1] < b[1] \/ (a[1] = b[1] /\ a[2] < b[2])

\* Mutant of After: the cursor is the name alone.
AfterName(a, b) == b = None \/ a[1] > b[1]

After(a, b) == b = None \/ Ordered(b, a)

\* The first limit matches after the cursor, and whether there are more.
Search(matches, cursor, limit) ==
    LET found == InOrder({t \in matches : After(Cursor(t), cursor)},
                         LAMBDA s, t : Ordered(Cursor(s), Cursor(t)))
    IN [results |-> SubSeq(found, 1, Min({limit, Len(found)})), truncated |-> Len(found) > limit]

StartSearch(names) ==
    LET matches == {t \in DOMAIN tags : Def(t).name \in names} IN
    /\ client = NoOperation
    /\ client' = [op |-> "search", names |-> names, cursor |-> None, seen |-> <<>>,
                  had |-> matches, alone |-> TRUE, done |-> FALSE]
    /\ UNCHANGED <<content, history, tags, analyses>>

NextPage(limit) ==
    /\ client.op = "search" /\ ~client.done
    /\ LET page == Search({t \in DOMAIN tags : Def(t).name \in client.names},
                          client.cursor, limit)
       IN client' = [client EXCEPT
            !.seen = @ \o [i \in DOMAIN page.results |-> Cursor(page.results[i])],
            !.cursor = IF page.truncated THEN Cursor(page.results[Len(page.results)]) ELSE None,
            !.done = ~page.truncated]
    /\ UNCHANGED <<content, history, tags, analyses>>

-----------------------------------------------------------------------------
(* trace_history *)

Matches(symbol, b) == {t \in TagsOf(b) : Def(t).name = symbol}

StartTrace(symbol) ==
    /\ client = NoOperation
    /\ client' = [op |-> "trace", symbol |-> symbol, at |-> 1, steps |-> <<>>,
                  had |-> {}, alone |-> TRUE, done |-> history = <<>>]
    /\ UNCHANGED <<content, history, tags, analyses>>

\* Mutant of Collapses: as many matches are taken for the same.
CollapsesAsMany(steps, matches) ==
    steps # <<>> /\ Len(steps[Len(steps)].matches) = Len(matches)

\* A revision with the matches of the one before joins its step.
Collapses(steps, matches) == steps # <<>> /\ steps[Len(steps)].matches = matches

TraceRevision ==
    /\ client.op = "trace" /\ ~client.done
    /\ LET r == client.at
           found == Search(Matches(client.symbol, history[r]), None, MatchLimit)
           steps == client.steps
           last == Len(steps)
       IN client' =
            IF found.truncated THEN [op |-> "failed"]
            ELSE [client EXCEPT
                    !.at = r + 1, !.done = r = Len(history),
                    !.steps =
                      IF Collapses(steps, found.results)
                      THEN [steps EXCEPT ![last].revisions = Append(@, r)]
                      ELSE Append(steps, [revisions |-> <<r>>, matches |-> found.results,
                                          ambiguous |-> Len(found.results) > 1])]
    /\ UNCHANGED <<content, history, tags, analyses>>

-----------------------------------------------------------------------------
(* read_tagged_source *)

Larger(a, b) == IF a > b THEN a ELSE b
Smaller(a, b) == IF a < b THEN a ELSE b
TagEnd(t) == IF content[tags[t].blob].ends THEN Def(t).last ELSE Def(t).first

\* The lines of a tag with their context, ordered by first and last line, and
\* joined when they overlap or touch.
Candidates(ids, context) ==
    InOrder(
      {[first |-> Larger(1, Def(t).first - context),
        last |-> Smaller(Length(tags[t].blob), TagEnd(t) + context),
        tag |-> t] : t \in ids},
      LAMBDA x, y : \/ x.first < y.first
                    \/ x.first = y.first /\ x.last < y.last
                    \/ x.first = y.first /\ x.last = y.last /\ x.tag < y.tag)

Touches(region, candidate) == candidate.first <= region.last + 1
\* Mutant of Joined: a region ends where its last tag does.
JoinedShort(region, candidate) ==
    [region EXCEPT !.last = candidate.last, !.tags = Append(@, candidate.tag)]

Joined(region, candidate) ==
    [region EXCEPT !.last = Larger(@, candidate.last), !.tags = Append(@, candidate.tag)]

Merged(b, ids, context) ==
    FoldLeft(LAMBDA regions, c :
               IF regions # <<>> /\ Touches(regions[Len(regions)], c)
               THEN [regions EXCEPT ![Len(regions)] = Joined(@, c)]
               ELSE Append(regions, [blob |-> b, first |-> c.first, last |-> c.last,
                                     tags |-> <<c.tag>>]),
             <<>>, Candidates(ids, context))

\* What the budgets leave of one region; regions after them are left out.
Chars(lines) == IF lines = 0 THEN 0 ELSE 2 * lines - 1
Cut(batch, region) ==
    IF batch.lines <= 0 \/ batch.chars <= 0 THEN [batch EXCEPT !.truncated = TRUE]
    ELSE LET last == Smaller(region.last, region.first + batch.lines - 1)
             lines == last - region.first + 1
             chars == Smaller(Chars(lines), batch.chars)
             cut == last < region.last \/ chars < Chars(lines)
         IN [regions |-> Append(batch.regions,
                           [region EXCEPT !.last = last] @@ [chars |-> chars, cut |-> cut]),
             lines |-> batch.lines - lines, chars |-> batch.chars - chars,
             truncated |-> batch.truncated \/ cut]

\* The end of a blob's regions: nothing left is reported as truncation.
Exhausted(batch) ==
    [batch EXCEPT !.truncated = @ \/ batch.lines <= 0 \/ batch.chars <= 0]

\* Blobs in the order in which the request names them first.
BlobsOf(ids) ==
    FoldLeft(LAMBDA seq, t : IF tags[t].blob \in Range_(seq) THEN seq
                             ELSE Append(seq, tags[t].blob), <<>>, ids)

Batch(ids, context, lines, chars) ==
    FoldLeft(LAMBDA batch, b :
               Exhausted(FoldLeft(Cut, batch, Merged(b, Range_(ids) \cap TagsOf(b), context))),
             [regions |-> <<>>, lines |-> lines, chars |-> chars, truncated |-> FALSE],
             BlobsOf(ids))

\* inspect_tags: all of them or none.
Inspected(ids) == Range_(ids) \subseteq DOMAIN tags

ReadTagged(ids, context, lines, chars) ==
    /\ client = NoOperation
    /\ client' = IF Inspected(ids)
                 THEN [op |-> "read", context |-> context, lines |-> lines,
                       chars |-> chars, asked |-> [i \in DOMAIN ids |-> tags[ids[i]]],
                       batch |-> Batch(ids, context, lines, chars)]
                 ELSE [op |-> "failed"]
    /\ UNCHANGED <<content, history, tags, analyses>>

Finish ==
    /\ client.op \in {"read", "failed"} \/ (client.op \in {"search", "trace"} /\ client.done)
    /\ client' = NoOperation
    /\ UNCHANGED <<content, history, tags, analyses>>

-----------------------------------------------------------------------------
Init ==
    /\ content \in [Blob -> Sources] /\ history \in Histories
    /\ tags = <<>> /\ analyses = 0 /\ client = NoOperation

\* Ids of an earlier answer, known or not any more.
Requests == UNION {[1..n -> 1..(Max(DOMAIN tags \cup {0}))] : n \in 1..MaxAsked}

Next ==
    \/ \E b \in Blob : Analyse(b) \/ Forget(b)
    \/ \E names \in SUBSET Symbols \ {{}} : StartSearch(names)
    \/ \E limit \in Limits : NextPage(limit)
    \/ \E symbol \in Symbols : StartTrace(symbol)
    \/ TraceRevision
    \/ \E ids \in {r \in Requests : IsInjective(r)}, context \in Contexts :
         \E lines \in LineBudgets, chars \in CharBudgets : ReadTagged(ids, context, lines, chars)
    \/ Finish

Spec == Init /\ [][Next]_vars

-----------------------------------------------------------------------------
(* Finding scopes *)

\* _enclosing_tag: the enclosing tag, or else the smallest definition around
\* the tag; of several the last to start, then the first in the file.
EnclosingTag(t) ==
    LET around == {x \in TagsOf(tags[t].blob) \ {t} :
                     /\ content[tags[t].blob].ends
                     /\ Def(x).first <= Def(t).first /\ TagEnd(t) <= Def(x).last}
        Better(x, y) == LET a == Def(x) b == Def(y) IN
            \/ a.last - a.first < b.last - b.first
            \/ a.last - a.first = b.last - b.first /\ a.first > b.first
            \/ a.last - a.first = b.last - b.first /\ a.first = b.first /\ x < y
    IN IF tags[t].enclosing # None THEN tags[t].enclosing
       ELSE IF around = {} THEN None
       ELSE CHOOSE x \in around : \A y \in around \ {x} : Better(x, y)

\* read_enclosing_source: one scope out for every level, as far as it goes.
ZoomOut(t, levels) ==
    LET zoom[n \in 0..levels] ==
          IF n = 0 THEN t
          ELSE IF EnclosingTag(zoom[n - 1]) = None THEN zoom[n - 1] ELSE EnclosingTag(zoom[n - 1])
    IN zoom[levels]

\* locate_at_line: the smallest definitions around the line come first; the
\* chain follows the enclosing tags of the first.
Containing(b, line) == {t \in TagsOf(b) : Def(t).first <= line /\ line <= TagEnd(t)}
Innermost(b, line) ==
    {t \in Containing(b, line) : \A x \in Containing(b, line) :
        LET a == Def(t) c == Def(x) IN
        \/ TagEnd(t) - a.first < TagEnd(x) - c.first
        \/ TagEnd(t) - a.first = TagEnd(x) - c.first /\ a.first >= c.first}
Chain(t) ==
    LET chain[n \in 0..Cardinality(DOMAIN tags)] ==
          IF n = 0 THEN <<t>>
          ELSE LET c == chain[n - 1] up == tags[c[Len(c)]].enclosing IN
               IF up = None \/ up \in Range_(c) THEN c ELSE Append(c, up)
    IN Tail(chain[Cardinality(DOMAIN tags)])

-----------------------------------------------------------------------------
(* Outlines and comparisons *)

\* outline_file: by first line, the longer first.
Outline(b) ==
    InOrder(TagsOf(b), LAMBDA s, t :
        \/ Def(s).first < Def(t).first
        \/ Def(s).first = Def(t).first /\ TagEnd(s) > TagEnd(t)
        \/ Def(s).first = Def(t).first /\ TagEnd(s) = TagEnd(t) /\ s < t)

\* outline_scope, the direct members.
Members(t) == SelectSeq(Outline(tags[t].blob), LAMBDA x : tags[x].enclosing = t)

\* diff_tagged_source reads both regions again; no diff if they are the same.
Body(t) == SubSeq(content[tags[t].blob].text, Def(t).first, TagEnd(t))
Diff(s, t) == Body(s) # Body(t)

\* Mutant of Status: two new definitions are no ambiguity.
StatusOfFirst(old, new) ==
    CASE Cardinality(old) > 1 -> "ambiguous"
      [] old = {} -> "added"
      [] new = {} -> "removed"
      [] Cardinality(old) = 1 /\ new # {} ->
           IF \E s \in old, t \in new : Body(s) = Body(t) THEN "unchanged" ELSE "changed"

Status(old, new) ==
    CASE Cardinality(old) > 1 \/ Cardinality(new) > 1 -> "ambiguous"
      [] old = {} -> "added"
      [] new = {} -> "removed"
      [] OTHER -> IF \E s \in old, t \in new : Body(s) = Body(t)
                  THEN "unchanged" ELSE "changed"

\* compare_outlines: definitions are paired by qualified name and kind.
OutlineKey(t) == <<Qualified(content[tags[t].blob].defs)[tags[t].def], Def(t).kind>>
Under(key, b) == {t \in TagsOf(b) : OutlineKey(t) = key}
CompareOutlines(a, b) ==
    [key \in {OutlineKey(t) : t \in TagsOf(a) \cup TagsOf(b)} |->
        Status(Under(key, a), Under(key, b))]

\* compare_symbol_definitions, by name: definitions of one blob have the same
\* tags in every revision.
CompareSymbol(symbol, a, b) ==
    LET old == Matches(symbol, a)
        new == Matches(symbol, b)
    IN CASE Cardinality(old) > 1 \/ Cardinality(new) > 1 -> "ambiguous"
         [] old = {} /\ new = {} -> "missing"
         [] old = {} /\ new # {} -> "added"
         [] old # {} /\ new = {} -> "removed"
         [] OTHER -> IF old = new THEN "unchanged" ELSE "changed"

\* read_blob_source
ReadLines(b, first, last, lines, chars) ==
    LET wanted == Smaller(last, Length(b))
        end == Smaller(wanted, first + lines - 1)
    IN [first |-> first, last |-> end,
        truncated |-> end < wanted \/ Chars(end - first + 1) > chars]

\* read_code_at_line, while the index is of the blob the manifest names.
ReadAtLine(b, line, context, lines, chars) ==
    IF Containing(b, line) = {}
    THEN ReadLines(b, Larger(1, line - context), line + context, lines, chars)
    ELSE LET t == CHOOSE x \in Innermost(b, line) : TRUE
         IN ReadLines(b, Larger(1, Def(t).first - context), TagEnd(t) + context, lines, chars)

-----------------------------------------------------------------------------
(* Properties *)

\* Paging through a search that is being rebuilt under it: every match that
\* was there from the first page to the last is listed, and none twice, with
\* whatever page sizes.
PagesComplete ==
    client.op = "search" =>
        /\ \A i \in 1..(Len(client.seen) - 1) : Ordered(client.seen[i], client.seen[i + 1])
        /\ client.done => \A t \in client.had : Cursor(t) \in Range_(client.seen)

\* The first n steps of a trace are about the revisions up to this one.
Through(steps, n) ==
    IF n = 0 THEN 0 ELSE steps[n].revisions[Len(steps[n].revisions)]

\* A trace names every revision once and in order; while the index stays as
\* it is, revisions are in one step if and only if they are neighbours with
\* the same definitions of the symbol.
HistoryFaithful ==
    client.op = "trace" /\ client.done =>
        LET steps == client.steps IN
        /\ \A i \in DOMAIN steps :
              LET from == Through(steps, i - 1) through == Through(steps, i) IN
              /\ from < through
              /\ steps[i].revisions = [k \in 1..(through - from) |-> from + k]
        /\ Through(steps, Len(steps)) = Len(history)
        /\ client.alone =>
             /\ \A s \in Range_(steps) : \A r \in Range_(s.revisions) :
                  Range_(s.matches) = Matches(client.symbol, history[r])
             /\ \A i \in 1..(Len(steps) - 1) : steps[i].matches # steps[i + 1].matches

\* A batch stays within its budgets, shows no line twice and leaves gaps
\* between its regions; and unless it says that something is missing, every
\* line of every tag asked for is there, with the context asked for.
Wanted(t, context) ==
    LET source == content[t.blob] d == source.defs[t.def] IN
    Larger(1, d.first - context)
      .. Smaller(Len(source.text), (IF source.ends THEN d.last ELSE d.first) + context)
SourceComplete ==
    client.op = "read" =>
        LET regions == client.batch.regions
            Lines(g) == g.first..g.last
        IN /\ FoldLeft(LAMBDA n, g : n + Cardinality(Lines(g)), 0, regions) <= client.lines
           /\ FoldLeft(LAMBDA n, g : n + g.chars, 0, regions) <= client.chars
           /\ \A i, j \in DOMAIN regions : regions[i].blob = regions[j].blob /\ i < j =>
                  regions[i].last + 1 < regions[j].first
           /\ ~client.batch.truncated =>
                \A t \in Range_(client.asked) : \A line \in Wanted(t, client.context) :
                    \E g \in Range_(regions) : g.blob = t.blob /\ line \in Lines(g)

\* Ctags can tell where definitions end, and no two of one qualified name and
\* kind are on a line.
Unambiguous(source) ==
    LET path == Qualified(source.defs) IN
    /\ source.ends
    /\ \A i, j \in DOMAIN source.defs :
         LET d == source.defs[i] e == source.defs[j] IN
         i < j /\ path[i] = path[j] /\ d.kind = e.kind => d.last < e.first \/ e.last < d.first
SameLines(source) ==
    \E i, j \in DOMAIN source.defs :
        LET d == source.defs[i] e == source.defs[j] IN
        i # j /\ d.first = e.first /\ d.last = e.last

Ancestors(source, i) ==
    LET up[j \in 0..Len(source.defs)] ==
          IF j = 0 THEN <<>> ELSE <<j>> \o up[source.defs[j].in]
    IN Tail(up[i])

\* The scope found for a definition is the one it really is in, however often
\* the names around it repeat; the chain of a line is the scopes around it
\* from the inside out; and zooming out never comes back.  (None of this
\* depends on what the client is doing.)
ScopesTrue ==
    client = NoOperation =>
    \A b \in {x \in Blob : TagsOf(x) # {} /\ Unambiguous(content[x])} :
        /\ \A t \in TagsOf(b) :
             IF Def(t).in = 0 THEN tags[t].enclosing = None
             ELSE tags[t].enclosing \in TagsOf(b) /\ tags[tags[t].enclosing].def = Def(t).in
        /\ \A line \in 1..Length(b) : \A t \in Innermost(b, line) :
             LET chain == Chain(t) IN
             [i \in DOMAIN chain |-> tags[chain[i]].def] = Ancestors(content[b], tags[t].def)
        /\ ~SameLines(content[b]) =>
             \A t \in TagsOf(b), n \in 1..Cardinality(TagsOf(b)) :
                 LET x == ZoomOut(t, n) IN
                 /\ Def(x).first <= Def(t).first /\ Def(t).last <= Def(x).last
                 /\ x = t => EnclosingTag(t) = None
\* The views of a file agree.  An outline lists a scope before its members and
\* the members of a scope in the order of the file; the comparison of two
\* outlines backwards is its mirror image; and what is said of one symbol is
\* what the outlines say, except that a definition carried to another blob
\* counts as changed: its diff is empty exactly if the outlines call it
\* unchanged, unless it moved to another scope.  Reading at a line shows the
\* line, and all of the definition around it, or says that it is cut.  (None of
\* this depends on what the client is doing.)
Mirror(status) == CASE status = "added" -> "removed" [] status = "removed" -> "added"
                    [] OTHER -> status
ViewsAgree ==
    client = NoOperation =>
    LET indexed == {b \in Blob : TagsOf(b) # {}} IN
    /\ \A b \in {x \in indexed : Unambiguous(content[x])} :
         LET outline == Outline(b)
             Place(t) == CHOOSE i \in DOMAIN outline : outline[i] = t
         IN \A t \in TagsOf(b) :
              /\ tags[t].enclosing # None => Place(tags[t].enclosing) < Place(t)
              /\ \A i \in 1..(Len(Members(t)) - 1) :
                   LET x == Members(t)[i] y == Members(t)[i + 1] IN
                   tags[x].def < tags[y].def
    /\ \A a, b \in indexed :
         LET forth == CompareOutlines(a, b) back == CompareOutlines(b, a) IN
         /\ back = [key \in DOMAIN forth |-> Mirror(forth[key])]
         /\ content[a] = content[b] =>
              \A key \in DOMAIN forth : forth[key] \in {"unchanged", "ambiguous"}
         /\ \A symbol \in Symbols :
              LET all == {forth[key] : key \in {k \in DOMAIN forth :
                             k[1][Len(k[1])] = symbol}}
              IN CASE CompareSymbol(symbol, a, b) = "missing" -> all = {}
                   [] CompareSymbol(symbol, a, b) = "unchanged" -> all = {"unchanged"}
                   [] CompareSymbol(symbol, a, b) = "changed" ->
                        \/ all = {"added", "removed"}
                        \/ \E s \in Matches(symbol, a), t \in Matches(symbol, b) :
                             all = {IF Diff(s, t) THEN "changed" ELSE "unchanged"}
                   [] CompareSymbol(symbol, a, b) = "ambiguous" -> all # {}
                   [] OTHER -> all = {CompareSymbol(symbol, a, b)}
    /\ \A b \in indexed, context \in Contexts, lines \in LineBudgets, chars \in CharBudgets :
         \A line \in 1..Length(b) :
            LET read == ReadAtLine(b, line, context, lines, chars)
                shown == read.first..read.last
            IN /\ Cardinality(shown) <= lines
               /\ ~read.truncated =>
                    /\ line \in shown
                    /\ Innermost(b, line) # {} =>
                         \E t \in Innermost(b, line) : Def(t).first..TagEnd(t) \subseteq shown
=============================================================================
