---------------------- MODULE OverrideAttachmentProofs ----------------------
(***************************************************************************)
(* Proofs about OverrideAttachment, for any processes, workspaces,         *)
(* packages, paths, contents and bounds: the tables implement              *)
(* AttachmentRegistry under the locks the operations really take; no line  *)
(* of a human is ever lost, moved, changed or, with one package or where   *)
(* files end with a newline, joined to the next; in one configuration rows *)
(* and journals agree, and, with one package in it, so do rows and blocks, *)
(* and every attachment can be undone.                                     *)
(***************************************************************************)
EXTENDS OverrideAttachment, SequenceTheorems, FiniteSetTheorems,
        WellFoundedInduction, TLAPS

\* A non-empty set of positions of a sequence has a first and a last one.
LEMMA MinExists ==
    ASSUME NEW n \in Nat, NEW S \in SUBSET (1 .. n), S # {}
    PROVE  Min(S) \in S /\ \A i \in S : Min(S) <= i
<1>1. S \subseteq Nat OBVIOUS
<1>2. PICK m \in S : \A i \in S : ~ (<<i, m>> \in OpToRel(<, Nat))
  BY <1>1, NatLessThanWellFounded, WFMin, Zenon
<1>3. ASSUME NEW i \in S PROVE m <= i
  <2>1. ~ (i < m) BY <1>1, <1>2 DEF OpToRel
  <2> QED BY <1>1, <2>1
<1> QED BY <1>3 DEF Min

LEMMA MaxExists ==
    ASSUME NEW n \in Nat, NEW S \in SUBSET (1 .. n), S # {}
    PROVE  Max(S) \in S
<1> DEFINE U == {n - i : i \in S}
<1>1. U \in SUBSET Nat /\ U # {}
  <2>1. \A i \in S : n - i \in Nat OBVIOUS
  <2> QED BY <2>1
<1>2. PICK u \in U : \A v \in U : ~ (<<v, u>> \in OpToRel(<, Nat))
  BY <1>1, NatLessThanWellFounded, WFMin, Zenon
<1>3. PICK m \in S : u = n - m OBVIOUS
<1>4. ASSUME NEW i \in S PROVE m >= i
  <2>1. n - i \in U /\ n - i \in Nat /\ u \in Nat BY <1>1
  <2>2. ~ (n - i < u) BY <1>2, <2>1 DEF OpToRel
  <2> QED BY <1>3, <2>2
<1> QED BY <1>4 DEF Max

LEMMA RemoveAtProperties ==
    ASSUME NEW S, NEW s \in Seq(S), NEW i \in DOMAIN s
    PROVE  /\ RemoveAt(s, i) \in Seq(S)
           /\ Len(RemoveAt(s, i)) = Len(s) - 1
           /\ \A k \in 1 .. Len(s) - 1 :
                 RemoveAt(s, i)[k] = IF k < i THEN s[k] ELSE s[k + 1]
<1> DEFINE a == SubSeq(s, 1, i - 1)
           b == SubSeq(s, i + 1, Len(s))
<1>0. Len(s) \in Nat /\ i \in 1 .. Len(s) /\ \A k \in 1 .. Len(s) : s[k] \in S
  BY LenProperties, ElementOfSeq
<1>1. /\ a \in Seq(S) /\ Len(a) = i - 1
      /\ \A k \in 1 .. i - 1 : a[k] = s[k]
  <2>1. \A k \in 1 .. (i - 1) : s[k] \in S BY <1>0
  <2> QED BY <1>0, <2>1, SubSeqProperties
<1>2. /\ b \in Seq(S) /\ Len(b) = Len(s) - i
      /\ \A k \in 1 .. Len(s) - i : b[k] = s[i + k]
  <2>1. \A k \in (i + 1) .. Len(s) : s[k] \in S BY <1>0
  <2>2. /\ b \in Seq(S) /\ Len(b) = IF i + 1 <= Len(s) THEN Len(s) - (i + 1) + 1 ELSE 0
        /\ \A k \in 1 .. Len(s) - (i + 1) + 1 : b[k] = s[(i + 1) + k - 1]
    BY <1>0, <2>1, SubSeqProperties
  <2> QED BY <1>0, <2>2
<1> HIDE DEF a, b
<1>3. /\ a \o b \in Seq(S) /\ Len(a \o b) = Len(a) + Len(b)
      /\ \A k \in 1 .. Len(a) + Len(b) : (a \o b)[k] =
            IF k <= Len(a) THEN a[k] ELSE b[k - Len(a)]
  BY <1>1, <1>2, ConcatProperties
<1>4. RemoveAt(s, i) = a \o b BY DEF RemoveAt, a, b
<1>5. ASSUME NEW k \in 1 .. Len(s) - 1
      PROVE  (a \o b)[k] = IF k < i THEN s[k] ELSE s[k + 1]
  <2>1. CASE k < i BY <1>0, <1>1, <1>2, <1>3, <2>1
  <2>2. CASE ~ (k < i)
    <3>1. k - Len(a) \in 1 .. Len(s) - i BY <1>0, <1>1, <2>2
    <3>0. k \in 1 .. Len(a) + Len(b) /\ ~ (k <= Len(a)) BY <1>0, <1>1, <1>2, <2>2
    <3>2. (a \o b)[k] = b[k - Len(a)] BY <1>3, <3>0
    <3>3. b[k - Len(a)] = s[i + (k - Len(a))] BY <1>2, <3>1
    <3>4. i + (k - Len(a)) = k + 1 BY <1>0, <1>1
    <3> QED BY <2>2, <3>2, <3>3, <3>4
  <2> QED BY <2>1, <2>2
<1>6. Len(a \o b) = Len(s) - 1 BY <1>0, <1>1, <1>2, <1>3
<1> QED BY <1>3, <1>4, <1>5, <1>6

\* What is in a sequence is what its first element and the others are.
LEMMA HeadAndTail ==
    ASSUME NEW S, NEW s \in Seq(S), s # <<>>
    PROVE  /\ Head(s) \in S /\ Tail(s) \in Seq(S)
           /\ Range(s) = {Head(s)} \cup Range(Tail(s))
<1>1. /\ Head(s) \in S /\ Tail(s) \in Seq(S) /\ Len(Tail(s)) = Len(s) - 1
      /\ \A i \in 1 .. Len(Tail(s)) : Tail(s)[i] = s[i + 1]
      /\ Head(s) = s[1]
  BY HeadTailProperties
<1>2. /\ Len(s) \in Nat \ {0} /\ DOMAIN s = 1 .. Len(s)
      /\ DOMAIN Tail(s) = 1 .. Len(Tail(s))
  BY <1>1, LenProperties, EmptySeq
<1>3. ASSUME NEW i \in DOMAIN s PROVE s[i] \in {Head(s)} \cup Range(Tail(s))
  <2>1. CASE i = 1 BY <1>1, <2>1
  <2>2. CASE i # 1
    <3>1. i - 1 \in 1 .. Len(Tail(s)) /\ (i - 1) + 1 = i BY <1>1, <1>2, <2>2
    <3> QED BY <1>1, <1>2, <3>1 DEF Range
  <2> QED BY <2>1, <2>2
<1>4. ASSUME NEW i \in DOMAIN Tail(s) PROVE Tail(s)[i] \in Range(s)
  <2>1. i + 1 \in DOMAIN s BY <1>1, <1>2
  <2> QED BY <1>1, <1>2, <2>1 DEF Range
<1>5. Head(s) \in Range(s) BY <1>1, <1>2 DEF Range
<1> QED BY <1>1, <1>3, <1>4, <1>5 DEF Range

LEMMA RangeType == ASSUME NEW S, NEW s \in Seq(S) PROVE Range(s) \subseteq S
BY RangeOfSeq, Zenon

LEMMA PlacesProperties ==
    ASSUME NEW S, NEW s \in Seq(S), NEW id, Places(s, id) # {}
    PROVE  /\ Min(Places(s, id)) \in DOMAIN s
           /\ s[Min(Places(s, id))] \in Range(s)
           /\ s[Min(Places(s, id))].id = id
<1>1. Len(s) \in Nat /\ DOMAIN s = 1 .. Len(s) BY LenProperties
<1>2. Places(s, id) \in SUBSET (1 .. Len(s)) BY <1>1 DEF Places
<1>3. Min(Places(s, id)) \in Places(s, id) BY <1>1, <1>2, MinExists
<1> QED BY <1>3 DEF Places, Range

\* Removing keeps the other elements, in their order.
LEMMA RemovedProperties ==
    ASSUME NEW S, NEW s \in Seq(S), NEW id
    PROVE  /\ Removed(s, id) \in Seq(S)
           /\ Range(Removed(s, id)) \subseteq Range(s)
<1>1. CASE Places(s, id) = {} BY <1>1 DEF Removed
<1>2. CASE Places(s, id) # {}
  <2> DEFINE m == Min(Places(s, id))
  <2>1. m \in DOMAIN s BY <1>2, PlacesProperties
  <2> HIDE DEF m
  <2>2. Len(s) \in Nat /\ DOMAIN s = 1 .. Len(s) BY LenProperties
  <2>3. /\ RemoveAt(s, m) \in Seq(S)
        /\ Len(RemoveAt(s, m)) = Len(s) - 1
        /\ \A k \in 1 .. Len(s) - 1 :
              RemoveAt(s, m)[k] = IF k < m THEN s[k] ELSE s[k + 1]
    BY <2>1, RemoveAtProperties
  <2>4. DOMAIN RemoveAt(s, m) = 1 .. Len(s) - 1 BY <2>3, LenProperties
  <2>5. ASSUME NEW k \in 1 .. Len(s) - 1 PROVE RemoveAt(s, m)[k] \in Range(s)
    BY <2>2, <2>3, <2>5 DEF Range
  <2>6. Removed(s, id) = RemoveAt(s, m) BY <1>2 DEF Removed, m
  <2> QED BY <2>3, <2>4, <2>5, <2>6 DEF Range
<1> QED BY <1>1, <1>2

LEMMA SavedProperties ==
    ASSUME NEW log \in Seq(Operation), NEW op \in Operation
    PROVE  /\ Saved(log, op) \in Seq(Operation)
           /\ Range(Saved(log, op)) =
                 {o \in Range(log) : o.id # op.id} \cup {op}
<1>1. Len(log) \in Nat /\ DOMAIN log = 1 .. Len(log) /\ log \in [1 .. Len(log) -> Operation]
  BY LenProperties
<1>2. CASE Places(log, op.id) = {}
  <2>1. /\ Append(log, op) \in Seq(Operation)
        /\ Len(Append(log, op)) = Len(log) + 1
        /\ \A i \in 1 .. Len(log) : Append(log, op)[i] = log[i]
        /\ Append(log, op)[Len(log) + 1] = op
    BY AppendProperties
  <2>2. DOMAIN Append(log, op) = 1 .. Len(log) + 1 BY <2>1, LenProperties
  <2>3. \A i \in DOMAIN log : log[i].id # op.id BY <1>2 DEF Places
  <2>4. Range(Append(log, op)) = Range(log) \cup {op} BY <1>1, <2>1, <2>2 DEF Range
  <2> QED BY <1>2, <2>1, <2>3, <2>4 DEF Saved, Range
<1>3. CASE Places(log, op.id) # {}
  <2> DEFINE new == [i \in DOMAIN log |-> IF log[i].id = op.id THEN op ELSE log[i]]
  <2>1. new \in [1 .. Len(log) -> Operation] BY <1>1
  <2>2. new \in Seq(Operation) BY <1>1, <2>1, SeqDef
  <2>3. PICK k \in DOMAIN log : log[k].id = op.id BY <1>3 DEF Places
  <2>4. Range(new) = {o \in Range(log) : o.id # op.id} \cup {op}
    <3>1. ASSUME NEW i \in DOMAIN log
          PROVE  new[i] \in {o \in Range(log) : o.id # op.id} \cup {op}
      BY DEF Range
    <3>2. op \in Range(new) BY <2>3 DEF Range
    <3>3. ASSUME NEW o \in Range(log), o.id # op.id PROVE o \in Range(new)
      <4>1. PICK i \in DOMAIN log : log[i] = o BY DEF Range
      <4>2. new[i] = o BY <3>3, <4>1
      <4> QED BY <4>2 DEF Range
    <3> QED BY <3>1, <3>2, <3>3 DEF Range
  <2>5. Saved(log, op) = new BY <1>3 DEF Saved
  <2> QED BY <2>2, <2>4, <2>5
<1> QED BY <1>2, <1>3

LEMMA CompletedProperties ==
    ASSUME NEW log \in Seq(Operation), NEW op \in Operation
    PROVE  /\ Completed(log, op) \in Seq(Operation)
           /\ Range(Completed(log, op)) \subseteq
                 {o \in Range(log) : o.id # op.id} \cup {[op EXCEPT !.phase = "complete"]}
<1>1. Len(log) \in Nat /\ DOMAIN log = 1 .. Len(log) /\ log \in [1 .. Len(log) -> Operation]
  BY LenProperties
<1>2. [op EXCEPT !.phase = "complete"] \in Operation BY DEF Operation
<1> DEFINE done == [op EXCEPT !.phase = "complete"]
           new == [i \in DOMAIN log |-> IF log[i].id = op.id THEN done ELSE log[i]]
<1> HIDE DEF done
<1>3. new \in [1 .. Len(log) -> Operation] BY <1>1, <1>2 DEF done
<1>4. new \in Seq(Operation) BY <1>1, <1>3, SeqDef
<1>5. ASSUME NEW i \in DOMAIN log
      PROVE  new[i] \in {o \in Range(log) : o.id # op.id} \cup {done}
  BY DEF Range
<1>6. Completed(log, op) = new BY DEF Completed, done
<1> QED BY <1>4, <1>5, <1>6 DEF Range, done

LEMMA LinesType == ASSUME NEW c \in Content PROVE Lines(c) \in Seq(Line)
BY EmptySeq DEF Lines, Content

LEMMA EffectiveType ==
    ASSUME NEW c \in Content, NEW pkg
    PROVE  Effective(c, pkg) \in Path \cup {None}
<1> DEFINE A == {i \in DOMAIN Lines(c) : Lines(c)[i].pkg = pkg}
<1>1. Lines(c) \in Seq(Line) BY LinesType
<1>2. Len(Lines(c)) \in Nat /\ DOMAIN Lines(c) = 1 .. Len(Lines(c)) BY <1>1, LenProperties
<1>3. CASE A = {} BY <1>3 DEF Effective
<1>4. CASE A # {}
  <2>1. A \in SUBSET (1 .. Len(Lines(c))) BY <1>2
  <2>2. Max(A) \in A BY <1>2, <1>4, <2>1, MaxExists
  <2>3. Lines(c)[Max(A)] \in Line BY <1>1, <1>2, <2>2, ElementOfSeq
  <2>4. Effective(c, pkg) = Lines(c)[Max(A)].path BY <1>4 DEF Effective
  <2> QED BY <2>3, <2>4 DEF Line
<1> QED BY <1>3, <1>4

-----------------------------------------------------------------------------
(* Types, and what a process has when it gets to a step *)

Recovering == {"recover", "undo", "clean", "forget"}
Publishing ==
    {"prepare", "check", "replace", "mark", "recheck", "unlink", "markremove",
     "verify", "complete", "rollback", "tidy", "finish"}

\* Where recovery was entered from, and what comes after it.
AfterRecovery(l, pc) ==
    \/ l.after = "row" /\ l.kind = "attach"
    \/ l.after = "row" /\ l.kind = "close" /\ pc = "pending" /\ l.att = None
    \/ l.after = "read" /\ l.kind # "attach" /\ l.att \in Attachment
    \/ l.after = "idle" /\ pc # "pending"
    \/ /\ l.after = "preflight" /\ pc # "pending"
       /\ l.kind = "close" /\ l.att = None
    \/ /\ l.after = "retire" /\ pc # "pending"
       /\ l.kind = "close" /\ l.att = None /\ l.op \in Operation

\* What a process with the locals l needs to go to a step.
Ready(l, pc) ==
    /\ pc # "idle" => l.kind \in Kind /\ l.cfg \in Config
    /\ pc = "locking" => l.after = "row" /\ l.att = None /\ l.pkg \in Package
    /\ (pc # "idle" /\ ~ (pc = "locking" /\ l.kind = "detach")) => l.ws \in Workspace
    /\ pc \in Publishing =>
          /\ l.op \in Operation /\ l.op.cfg = l.cfg /\ l.op.phase # "complete"
          /\ l.op.kind = IF l.kind = "attach" THEN "attach" ELSE "detach"
    /\ pc = "retire" => l.op \in Operation
    /\ (pc \in Publishing \cup {"read", "stage"} /\ l.kind # "attach")
          => l.att \in Attachment
    /\ pc \in {"undo", "clean", "forget"} => l.todo # <<>>
    /\ pc \in Recovering \cup {"pending"} => AfterRecovery(l, pc)
    /\ pc = "row" => l.kind = "attach"
    /\ pc \in {"preflight", "next", "saveclose", "retire"} => l.kind = "close"

Presence == \A q \in Proc : Ready(loc[q], loc[q].pc)

StructureInv == TypeOK /\ Presence

\* The locals after a step of p.
Stepped(p) ==
    /\ loc' \in [Proc -> Local]
    /\ \A q \in Proc \ {p} : loc'[q] = loc[q]
    /\ Ready(loc'[p], loc'[p].pc)

LEMMA EndFine ==
    ASSUME loc \in [Proc -> Local], NEW p \in Proc, End(p)
    PROVE  Stepped(p)
<1>1. Idle \in Local BY EmptySeq DEF Idle, Local, Label, Content
<1>2. Ready(Idle, "idle")
  BY DEF Ready, Idle, Publishing, Recovering
<1>3. loc'[p] = Idle /\ Idle.pc = "idle" BY DEF End, Idle
<1>4. loc' \in [Proc -> Local] /\ \A q \in Proc \ {p} : loc'[q] = loc[q]
  BY <1>1 DEF End
<1> QED BY <1>2, <1>3, <1>4 DEF Stepped

\* A step that sets the locals of p to m.
LEMMA SetFine ==
    ASSUME loc \in [Proc -> Local], NEW p \in Proc, NEW m \in Local,
           Ready(m, m.pc), loc' = [loc EXCEPT ![p] = m]
    PROVE  Stepped(p) /\ loc'[p] = m
BY DEF Stepped

LEMMA GoFine ==
    ASSUME loc \in [Proc -> Local], NEW p \in Proc, NEW x \in Label, Go(p, x),
           Ready(loc[p], x)
    PROVE  Stepped(p)
<1> DEFINE m == [loc[p] EXCEPT !.pc = x]
<1>1. m \in Local /\ m.pc = x BY DEF Local
<1>2. /\ m.kind = loc[p].kind /\ m.cfg = loc[p].cfg /\ m.after = loc[p].after
      /\ m.att = loc[p].att /\ m.pkg = loc[p].pkg /\ m.ws = loc[p].ws
      /\ m.op = loc[p].op /\ m.todo = loc[p].todo
  BY DEF Local
<1>3. loc' = [loc EXCEPT ![p] = m] BY DEF Go
<1> HIDE DEF m
<1>4. Ready(m, x) BY <1>2 DEF Ready, AfterRecovery
<1> QED BY <1>1, <1>3, <1>4, SetFine

\* Which of its steps a process takes.
LEMMA LocalsStep ==
    ASSUME StructureInv, NEW p \in Proc, BeginSome(p) \/ Step(p) \/ Crash(p)
    PROVE  Stepped(p)
<1> DEFINE l == loc[p]
<1>0. loc \in [Proc -> Local] /\ l \in Local /\ Ready(l, l.pc)
  BY DEF StructureInv, Presence, TypeOK
<1>1. CASE LookUpRow(p)
  <2>1. Ready(l, "read")
    BY <1>0, <1>1 DEF LookUpRow, Ready, AfterRecovery, Recovering, Publishing, At
  <2>2. Go(p, "read") \/ End(p) BY <1>1 DEF LookUpRow
  <2>3. {"read"} \subseteq Label BY DEF Label
  <2> QED BY <1>0, <2>1, <2>2, <2>3, GoFine, EndFine
<1>2. CASE Recheck(p)
  <2>1. Ready(l, "unlink") /\ Ready(l, "rollback")
    BY <1>0, <1>2 DEF Recheck, Ready, AfterRecovery, Recovering, Publishing, At
  <2>2. Go(p, "unlink") \/ Go(p, "rollback") \/ End(p) BY <1>2 DEF Recheck
  <2>3. {"unlink", "rollback"} \subseteq Label BY DEF Label
  <2> QED BY <1>0, <2>1, <2>2, <2>3, GoFine, EndFine
<1>3. CASE UnlinkEmpty(p)
  <2>1. Ready(l, "rollback") /\ Ready(l, "markremove")
    BY <1>0, <1>3 DEF UnlinkEmpty, Ready, AfterRecovery, Recovering, Publishing, At
  <2>2. Go(p, "rollback") \/ Go(p, "markremove") \/ End(p) BY <1>3 DEF UnlinkEmpty
  <2>3. {"rollback", "markremove"} \subseteq Label BY DEF Label
  <2> QED BY <1>0, <2>1, <2>2, <2>3, GoFine, EndFine
<1>4. CASE Verify(p)
  <2>1. Ready(l, "complete") /\ Ready(l, "rollback")
    BY <1>0, <1>4 DEF Verify, Ready, AfterRecovery, Recovering, Publishing, At
  <2>2. Go(p, "complete") \/ Go(p, "rollback") \/ End(p) BY <1>4 DEF Verify
  <2>3. {"complete", "rollback"} \subseteq Label BY DEF Label
  <2> QED BY <1>0, <2>1, <2>2, <2>3, GoFine, EndFine
<1>5. CASE Check(p)
  <2>1. Ready(l, "replace")
    BY <1>0, <1>5 DEF Check, Ready, AfterRecovery, Recovering, Publishing, At
  <2>2. Go(p, "replace") \/ End(p) BY <1>5 DEF Check
  <2>3. {"replace"} \subseteq Label BY DEF Label
  <2> QED BY <1>0, <2>1, <2>2, <2>3, GoFine, EndFine
<1>6. CASE Replace(p)
  <2>1. Ready(l, "mark")
    BY <1>0, <1>6 DEF Replace, Ready, AfterRecovery, Recovering, Publishing, At
  <2>2. Go(p, "mark") \/ End(p) BY <1>6 DEF Replace
  <2>3. {"mark"} \subseteq Label BY DEF Label
  <2> QED BY <1>0, <2>1, <2>2, <2>3, GoFine, EndFine
<1>7. CASE Clean(p)
  <2>1. Ready(l, "forget")
    BY <1>0, <1>7 DEF Clean, Ready, AfterRecovery, Recovering, Publishing, At
  <2>2. Go(p, "forget") \/ End(p) BY <1>7 DEF Clean
  <2>3. {"forget"} \subseteq Label BY DEF Label
  <2> QED BY <1>0, <2>1, <2>2, <2>3, GoFine, EndFine
<1>8. CASE Tidy(p)
  <2>1. Ready(l, "finish")
    BY <1>0, <1>8 DEF Tidy, Ready, AfterRecovery, Recovering, Publishing, At
  <2>2. Go(p, "finish") \/ End(p) BY <1>8 DEF Tidy
  <2>3. {"finish"} \subseteq Label BY DEF Label
  <2> QED BY <1>0, <2>1, <2>2, <2>3, GoFine, EndFine
<1>9. CASE CompleteAttachment(p)
  <2>1. Ready(l, "rollback") /\ Ready(l, "tidy")
    BY <1>0, <1>9 DEF CompleteAttachment, Ready, AfterRecovery, Recovering, Publishing, At
  <2>2. Go(p, "rollback") \/ Go(p, "tidy") \/ End(p) BY <1>9 DEF CompleteAttachment
  <2>3. {"rollback", "tidy"} \subseteq Label BY DEF Label
  <2> QED BY <1>0, <2>1, <2>2, <2>3, GoFine, EndFine
<1>10. CASE Undo(p)
  <2>1. Ready(l, "clean")
    BY <1>0, <1>10 DEF Undo, Ready, AfterRecovery, Recovering, Publishing, At
  <2>2. Go(p, "clean") \/ End(p) BY <1>10 DEF Undo
  <2>3. {"clean"} \subseteq Label BY DEF Label
  <2> QED BY <1>0, <2>1, <2>2, <2>3, GoFine, EndFine
<1>11. CASE LockWorkspace(p)
  <2> DEFINE m == [l EXCEPT !.pc = "pending", !.seen = Effective(File(p), Pkg(p))]
  <2>1. l.cfg \in Config /\ Effective(File(p), Pkg(p)) \in Path \cup {None}
    BY <1>0, <1>11, EffectiveType
       DEF LockWorkspace, Ready, AfterRecovery, Recovering, Publishing, At, StructureInv,
           TypeOK, File
  <2>2. m \in Local BY <1>0, <2>1 DEF Local, Label
  <2>3. /\ m.pc = "pending" /\ m.kind = l.kind /\ m.cfg = l.cfg
        /\ m.ws = l.ws /\ m.pkg = l.pkg /\ m.after = l.after
        /\ m.att = l.att /\ m.op = l.op /\ m.todo = l.todo BY <1>0 DEF Local
  <2>4. loc' = [loc EXCEPT ![p] = m] \/ End(p) BY <1>11 DEF LockWorkspace
  <2> HIDE DEF m
  <2>5. Ready(m, m.pc)
    BY <1>0, <2>1, <2>3, <1>11
       DEF LockWorkspace, Ready, AfterRecovery, Recovering, Publishing, At
  <2> QED BY <1>0, <2>2, <2>4, <2>5, SetFine, EndFine
<1>12. CASE ReadOverride(p)
  <2> DEFINE m == [l EXCEPT !.pc = "stage", !.orig = File(p)]
  <2>1. l.cfg \in Config /\ File(p) \in Content
    BY <1>0, <1>12
       DEF ReadOverride, Ready, AfterRecovery, Recovering, Publishing, At, StructureInv,
           TypeOK, File
  <2>2. m \in Local BY <1>0, <2>1 DEF Local, Label
  <2>3. /\ m.pc = "stage" /\ m.kind = l.kind /\ m.cfg = l.cfg
        /\ m.ws = l.ws /\ m.pkg = l.pkg /\ m.after = l.after
        /\ m.att = l.att /\ m.op = l.op /\ m.todo = l.todo BY <1>0 DEF Local
  <2>4. loc' = [loc EXCEPT ![p] = m] \/ End(p) BY <1>12 DEF ReadOverride
  <2> HIDE DEF m
  <2>5. Ready(m, m.pc)
    BY <1>0, <2>1, <2>3, <1>12
       DEF ReadOverride, Ready, AfterRecovery, Recovering, Publishing, At
  <2> QED BY <1>0, <2>2, <2>4, <2>5, SetFine, EndFine
<1>13. CASE Prepare(p)
  <2> DEFINE m == [l EXCEPT !.pc = "check", !.op = [l.op EXCEPT !.old = File(p)]]
  <2>1. /\ l.cfg \in Config /\ [l.op EXCEPT !.old = File(p)] \in Operation
        /\ [l.op EXCEPT !.old = File(p)].kind = l.op.kind
        /\ [l.op EXCEPT !.old = File(p)].cfg = l.op.cfg
    BY <1>0, <1>13
       DEF Prepare, Ready, AfterRecovery, Recovering, Publishing, At, StructureInv, TypeOK,
           File, Operation
  <2>2. m \in Local BY <1>0, <2>1 DEF Local, Label
  <2>3. /\ m.pc = "check" /\ m.kind = l.kind /\ m.cfg = l.cfg
        /\ m.ws = l.ws /\ m.pkg = l.pkg /\ m.after = l.after
        /\ m.att = l.att /\ m.op = [l.op EXCEPT !.old = File(p)] /\ m.todo = l.todo
          BY <1>0 DEF Local
  <2>4. loc' = [loc EXCEPT ![p] = m] BY <1>13 DEF Prepare
  <2> HIDE DEF m
  <2>5. Ready(m, m.pc)
    BY <1>0, <2>1, <2>3, <1>13 DEF Prepare, Ready, AfterRecovery, Recovering, Publishing, At
  <2> QED BY <1>0, <2>2, <2>4, <2>5, SetFine, EndFine
<1>14. CASE MarkRemoved(p)
  <2> DEFINE m == [l EXCEPT !.pc = "verify", !.op = [l.op EXCEPT !.remove = TRUE]]
  <2>1. /\ [l.op EXCEPT !.remove = TRUE] \in Operation
        /\ [l.op EXCEPT !.remove = TRUE].kind = l.op.kind
        /\ [l.op EXCEPT !.remove = TRUE].cfg = l.op.cfg
    BY <1>0, <1>14
       DEF MarkRemoved, Ready, AfterRecovery, Recovering, Publishing, At, Operation
  <2>2. m \in Local BY <1>0, <2>1 DEF Local, Label
  <2>3. /\ m.pc = "verify" /\ m.kind = l.kind /\ m.cfg = l.cfg
        /\ m.ws = l.ws /\ m.pkg = l.pkg /\ m.after = l.after
        /\ m.att = l.att /\ m.op = [l.op EXCEPT !.remove = TRUE] /\ m.todo = l.todo
          BY <1>0 DEF Local
  <2>4. loc' = [loc EXCEPT ![p] = m] BY <1>14 DEF MarkRemoved
  <2> HIDE DEF m
  <2>5. Ready(m, m.pc)
    BY <1>0, <2>1, <2>3, <1>14
       DEF MarkRemoved, Ready, AfterRecovery, Recovering, Publishing, At
  <2> QED BY <1>0, <2>2, <2>4, <2>5, SetFine, EndFine
<1>15. CASE Forget(p)
  <2> DEFINE m == [l EXCEPT !.pc = "recover", !.todo = Tail(l.todo)]
  <2>1. l.todo \in Seq(Operation) /\ l.todo # <<>> /\ Tail(l.todo) \in Seq(Operation)
    BY <1>0, <1>15, HeadAndTail
       DEF Forget, Ready, AfterRecovery, Recovering, Publishing, At, Local
  <2>2. m \in Local BY <1>0, <2>1 DEF Local, Label
  <2>3. /\ m.pc = "recover" /\ m.kind = l.kind /\ m.cfg = l.cfg
        /\ m.ws = l.ws /\ m.pkg = l.pkg /\ m.after = l.after
        /\ m.att = l.att /\ m.op = l.op /\ m.todo = Tail(l.todo) BY <1>0 DEF Local
  <2>4. loc' = [loc EXCEPT ![p] = m] BY <1>15 DEF Forget
  <2> HIDE DEF m
  <2>5. Ready(m, m.pc)
    BY <1>0, <2>1, <2>3, <1>15 DEF Forget, Ready, AfterRecovery, Recovering, Publishing, At
  <2> QED BY <1>0, <2>2, <2>4, <2>5, SetFine, EndFine
<1>16. CASE Retire(p)
  <2> QED BY <1>0, <1>16, EndFine DEF Retire
<1>17. CASE Crash(p)
  <2> QED BY <1>0, <1>17, EndFine DEF Crash
<1>18. CASE Recover(p)
  <2>1. CASE l.todo = <<>> /\ l.after # "idle" /\ Go(p, l.after)
    <3>1. Ready(l, l.after)
      BY <1>0, <2>1, <1>18 DEF Recover, Ready, AfterRecovery, Recovering, Publishing, At
    <3>2. l.after \in Label BY <1>0 DEF Local
    <3> QED BY <1>0, <2>1, <3>1, <3>2, GoFine
  <2>2. CASE l.todo # <<>> /\ Go(p, RecoveryOf(p))
    <3>1. RecoveryOf(p) \in {"undo", "clean", "forget"} BY DEF RecoveryOf
    <3>2. Ready(l, RecoveryOf(p))
      BY <1>0, <2>2, <3>1, <1>18
         DEF Recover, Ready, AfterRecovery, Recovering, Publishing, At
    <3>3. RecoveryOf(p) \in Label BY <3>1 DEF Label
    <3> QED BY <1>0, <2>2, <3>2, <3>3, GoFine
  <2> QED BY <1>0, <2>1, <2>2, <1>18, EndFine DEF Recover
<1>19. CASE LockDetach(p)
  <2> DEFINE found == row[<<l.cfg, l.pkg>>]
  <2>1. CASE End(p) BY <1>0, <2>1, EndFine
  <2>2. CASE found # None /\ ~ End(p)
    <3>0. found \in Attachment
      BY <1>0, <2>2, <1>19 DEF LockDetach, Ready, At, StructureInv, TypeOK, Cell
    <3> HIDE DEF found
    <3> DEFINE m == [l EXCEPT !.pc = "pending", !.att = found, !.ws = found.ws, !.after = "read"]
    <3>1. found \in Attachment /\ found.ws \in Workspace
      BY <1>0, <1>19, <2>2, <3>0, <3>0
         DEF LockDetach, Ready, AfterRecovery, Recovering, Publishing, At, Attachment
    <3>2. m \in Local BY <1>0, <3>1 DEF Local, Label
    <3>3. /\ m.pc = "pending" /\ m.kind = l.kind /\ m.cfg = l.cfg
          /\ m.ws = found.ws /\ m.pkg = l.pkg /\ m.after = "read"
          /\ m.att = found /\ m.op = l.op /\ m.todo = l.todo BY <1>0 DEF Local
    <3>4. loc' = [loc EXCEPT ![p] = m] BY <1>19, <2>2, <3>0 DEF LockDetach, found
    <3> HIDE DEF m
    <3>5. Ready(m, m.pc)
      BY <1>0, <3>1, <3>3, <1>19, <2>2, <3>0
         DEF LockDetach, Ready, AfterRecovery, Recovering, Publishing, At
    <3> QED BY <1>0, <3>2, <3>4, <3>5, SetFine, EndFine
  <2> QED BY <2>1, <2>2, <1>19 DEF LockDetach
<1>20. CASE MarkPublished(p)
  <2> DEFINE op == [l.op EXCEPT !.published = TRUE, !.phase = "published"]
  <2>0. PICK x \in {"recheck", "verify"} : loc' = [loc EXCEPT ![p].pc = x, ![p].op = op]
    BY <1>20 DEF MarkPublished
  <2> DEFINE m == [l EXCEPT !.pc = x, !.op = op]
  <2>1. op \in Operation /\ op.kind = l.op.kind /\ op.cfg = l.op.cfg
    BY <1>0, <1>20, <2>0
       DEF MarkPublished, Ready, AfterRecovery, Recovering, Publishing, At, Operation
  <2>2. m \in Local BY <1>0, <2>1 DEF Local, Label
  <2>3. /\ m.pc = x /\ m.kind = l.kind /\ m.cfg = l.cfg
        /\ m.ws = l.ws /\ m.pkg = l.pkg /\ m.after = l.after
        /\ m.att = l.att /\ m.op = op /\ m.todo = l.todo BY <1>0 DEF Local
  <2>4. loc' = [loc EXCEPT ![p] = m] BY <1>20, <2>0 DEF MarkPublished
  <2> HIDE DEF m
  <2>5. Ready(m, m.pc)
    BY <1>0, <2>1, <2>3, <1>20, <2>0
       DEF MarkPublished, Ready, AfterRecovery, Recovering, Publishing, At
  <2> QED BY <1>0, <2>2, <2>4, <2>5, SetFine, EndFine
<1>21. CASE Stage(p)
  <2> DEFINE op == [id |-> issued + 1, kind |-> StepKind(p), cfg |-> l.cfg,
                    phase |-> "prepared", published |-> FALSE,
                    remove |-> FALSE, backed |-> File(p) # NoFile,
                    old |-> NoFile, new |-> NewContent(p, issued + 1)]
  <2>a. NewContent(p, issued + 1) \in Content
    <3>1. issued + 1 \in Id /\ issued + 1 \in Nat BY DEF StructureInv, TypeOK, Id
    <3>2. l.orig \in Content BY <1>0 DEF Local
    <3>3. Lines(l.orig) \in Seq(Line) BY <3>2, LinesType
    <3>4. l.kind # "attach" => Removed(Lines(l.orig), l.att.id) \in Seq(Line)
      BY <3>3, RemovedProperties
    <3>5. l.ws \in Workspace BY <1>0, <1>21 DEF Stage, Ready, At
    <3>6. ManagedBlock(issued + 1, l.ws, NeedsSeparator(l.orig)) \in Line
      BY <3>1, <3>5, AttachmentAssumption DEF ManagedBlock, NeedsSeparator, Line, Path
    <3>7. Append(Lines(l.orig), ManagedBlock(issued + 1, l.ws, NeedsSeparator(l.orig))) \in Seq(Line)
      BY <3>3, <3>6, AppendProperties
    <3> QED BY <3>4, <3>7 DEF NewContent, Restored, Content
  <2> DEFINE m == [l EXCEPT !.pc = "prepare", !.op = op]
  <2>1. op \in Operation /\ op.kind = StepKind(p) /\ op.cfg = l.cfg /\ op.phase = "prepared"
    BY <1>0, <1>21, <2>a
       DEF Stage, Ready, AfterRecovery, Recovering, Publishing, At, Operation, Id, Kind,
           StepKind, StructureInv, TypeOK, Content
  <2> HIDE DEF op
  <2>2. m \in Local BY <1>0, <2>1 DEF Local, Label
  <2>3. /\ m.pc = "prepare" /\ m.kind = l.kind /\ m.cfg = l.cfg
        /\ m.ws = l.ws /\ m.pkg = l.pkg /\ m.after = l.after
        /\ m.att = l.att /\ m.op = op /\ m.todo = l.todo BY <1>0 DEF Local
  <2>4. loc' = [loc EXCEPT ![p] = m] BY <1>21 DEF Stage, op
  <2> HIDE DEF m
  <2>5. Ready(m, m.pc)
    BY <1>0, <2>1, <2>3, <1>21
       DEF Stage, Ready, AfterRecovery, Recovering, Publishing, At, StepKind
  <2> QED BY <1>0, <2>2, <2>4, <2>5, SetFine, EndFine
<1>22. CASE SaveClose(p)
  <2> DEFINE op == [id |-> issued + 1, kind |-> "close", cfg |-> l.cfg,
                  phase |-> "prepared", published |-> FALSE, remove |-> FALSE,
                  backed |-> FALSE, old |-> NoFile, new |-> NoFile]
  <2> DEFINE m == [l EXCEPT !.pc = "retire", !.op = op]
  <2>1. op \in Operation
    BY <1>0, <1>22
       DEF SaveClose, Ready, AfterRecovery, Recovering, Publishing, At, Operation, Id, Kind,
           StructureInv, TypeOK, Content
  <2> HIDE DEF op
  <2>2. m \in Local BY <1>0, <2>1 DEF Local, Label
  <2>3. /\ m.pc = "retire" /\ m.kind = l.kind /\ m.cfg = l.cfg
        /\ m.ws = l.ws /\ m.pkg = l.pkg /\ m.after = l.after
        /\ m.att = l.att /\ m.op = op /\ m.todo = l.todo BY <1>0 DEF Local
  <2>4. loc' = [loc EXCEPT ![p] = m] BY <1>22 DEF SaveClose, op
  <2> HIDE DEF m
  <2>5. Ready(m, m.pc)
    BY <1>0, <2>1, <2>3, <1>22
       DEF SaveClose, Ready, AfterRecovery, Recovering, Publishing, At
  <2> QED BY <1>0, <2>2, <2>4, <2>5, SetFine, EndFine
<1>23. CASE Finish(p)
  <2>1. CASE l.kind = "close"
    <3> DEFINE m == [l EXCEPT !.pc = "next", !.op = None]
    <3>1. None \in Operation \cup {None}
      BY <1>0, <1>23, <2>1 DEF Finish, Ready, AfterRecovery, Recovering, Publishing, At
    <3>2. m \in Local BY <1>0, <3>1 DEF Local, Label
    <3>3. /\ m.pc = "next" /\ m.kind = l.kind /\ m.cfg = l.cfg
          /\ m.ws = l.ws /\ m.pkg = l.pkg /\ m.after = l.after
          /\ m.att = l.att /\ m.op = None /\ m.todo = l.todo BY <1>0 DEF Local
    <3>4. loc' = [loc EXCEPT ![p] = m] BY <1>23, <2>1 DEF Finish
    <3> HIDE DEF m
    <3>5. Ready(m, m.pc)
      BY <1>0, <3>1, <3>3, <1>23, <2>1
         DEF Finish, Ready, AfterRecovery, Recovering, Publishing, At
    <3> QED BY <1>0, <3>2, <3>4, <3>5, SetFine, EndFine
  <2> QED BY <1>0, <2>1, <1>23, EndFine DEF Finish
<1>24. CASE Rollback(p)
  <2> DEFINE log == journal[l.ws]
             mine == Places(log, l.op.id)
  <2>1. CASE End(p) BY <1>0, <2>1, EndFine
  <2>2. CASE mine # {} /\ ~ End(p)
    <3>0. log \in Seq(Operation)
      BY <1>0, <1>24 DEF Rollback, Ready, At, StructureInv, TypeOK
    <3>a. log[Min(mine)] \in Operation BY <2>2, <3>0, PlacesProperties, RangeType
    <3> DEFINE m == [l EXCEPT !.pc = "recover", !.todo = <<log[Min(mine)]>>, !.after = "idle"]
    <3>1. <<log[Min(mine)]>> \in Seq(Operation)
      BY <1>0, <1>24, <2>2, <3>a
         DEF Rollback, Ready, AfterRecovery, Recovering, Publishing, At
    <3>2. m \in Local BY <1>0, <3>1 DEF Local, Label
    <3>3. /\ m.pc = "recover" /\ m.kind = l.kind /\ m.cfg = l.cfg
          /\ m.ws = l.ws /\ m.pkg = l.pkg /\ m.after = "idle"
          /\ m.att = l.att /\ m.op = l.op /\ m.todo = <<log[Min(mine)]>> BY <1>0 DEF Local
    <3>4. loc' = [loc EXCEPT ![p] = m] BY <1>24, <2>2 DEF Rollback
    <3> HIDE DEF m
    <3>5. Ready(m, m.pc)
      BY <1>0, <3>1, <3>3, <1>24, <2>2
         DEF Rollback, Ready, AfterRecovery, Recovering, Publishing, At
    <3> QED BY <1>0, <3>2, <3>4, <3>5, SetFine, EndFine
  <2> QED BY <2>1, <2>2, <1>24 DEF Rollback
<1>25. CASE Preflight(p)
  <2> DEFINE m == [l EXCEPT !.pc = "next", !.rest = Attached(l.ws)]
  <2>1. Attached(l.ws) \in SUBSET Cell
    BY <1>0, <1>25
       DEF Preflight, Ready, AfterRecovery, Recovering, Publishing, At, Attached,
           StructureInv, TypeOK
  <2>2. m \in Local BY <1>0, <2>1 DEF Local, Label
  <2>3. /\ m.pc = "next" /\ m.kind = l.kind /\ m.cfg = l.cfg
        /\ m.ws = l.ws /\ m.pkg = l.pkg /\ m.after = l.after
        /\ m.att = l.att /\ m.op = l.op /\ m.todo = l.todo BY <1>0 DEF Local
  <2>4. loc' = [loc EXCEPT ![p] = m] \/ End(p) BY <1>25 DEF Preflight
  <2> HIDE DEF m
  <2>5. Ready(m, m.pc)
    BY <1>0, <2>1, <2>3, <1>25
       DEF Preflight, Ready, AfterRecovery, Recovering, Publishing, At
  <2> QED BY <1>0, <2>2, <2>4, <2>5, SetFine, EndFine
<1>26. CASE DetachNext(p)
  <2>1. CASE l.rest = {}
    <3>1. Ready(l, "saveclose")
      BY <1>0, <1>26 DEF DetachNext, Ready, AfterRecovery, Recovering, Publishing, At
    <3>2. Go(p, "saveclose") /\ "saveclose" \in Label BY <1>26, <2>1 DEF DetachNext, Label
    <3> QED BY <1>0, <3>1, <3>2, GoFine
  <2>2. CASE l.rest # {}
    <3>0. PICK cp \in l.rest, x \in {"next", "pending"} : 
             /\ row[cp] = None <=> x = "next"
             /\ loc' = [loc EXCEPT ![p].rest = @ \ {cp}, ![p].cfg = cp[1], ![p].att = row[cp],
                          ![p].after = "read", ![p].pc = x]
      BY <2>2, <1>26 DEF DetachNext
    <3>a. cp \in Cell BY <1>0 DEF Local
    <3>b. cp[1] \in Config /\ row[cp] \in Attachment \cup {None}
      BY <3>a DEF StructureInv, TypeOK, Cell
    <3> DEFINE m == [l EXCEPT !.rest = @ \ {cp}, !.cfg = cp[1], !.att = row[cp],
                            !.after = "read", !.pc = x]
    <3>1. /\ cp[1] \in Config /\ row[cp] \in Attachment \cup {None}
          /\ l.rest \ {cp} \in SUBSET Cell /\ x \in {"next", "pending"}
      BY <1>0, <1>26, <3>0, <3>b
         DEF DetachNext, Ready, AfterRecovery, Recovering, Publishing, At, Local
    <3>2. m \in Local BY <1>0, <3>1 DEF Local, Label
    <3>3. /\ m.pc = x /\ m.kind = l.kind /\ m.cfg = cp[1]
          /\ m.ws = l.ws /\ m.pkg = l.pkg /\ m.after = "read"
          /\ m.att = row[cp] /\ m.op = l.op /\ m.todo = l.todo BY <1>0 DEF Local
    <3>4. loc' = [loc EXCEPT ![p] = m] BY <1>26, <3>0 DEF DetachNext
    <3> HIDE DEF m
    <3>5. Ready(m, m.pc)
      BY <1>0, <3>1, <3>3, <1>26, <3>0
         DEF DetachNext, Ready, AfterRecovery, Recovering, Publishing, At
    <3> QED BY <1>0, <3>2, <3>4, <3>5, SetFine, EndFine
  <2> QED BY <2>1, <2>2
<1>27. CASE Pending(p)
  <2> DEFINE log == journal[l.ws]
             closes == {i \in DOMAIN log : log[i].kind = "close"}
  <2>0. log \in Seq(Operation) BY <1>0, <1>27 DEF Pending, Ready, At, StructureInv, TypeOK
  <2>1. CASE OwnRecovery(p) /\ closes = {}
    <3> DEFINE m == [l EXCEPT !.pc = "recover", !.todo = log, !.after = "preflight"]
    <3>1. log \in Seq(Operation)
      BY <1>0, <1>27, <2>1, <2>0
         DEF Pending, OwnRecovery, Ready, AfterRecovery, Recovering, Publishing, At
    <3>2. m \in Local BY <1>0, <3>1 DEF Local, Label
    <3>3. /\ m.pc = "recover" /\ m.kind = l.kind /\ m.cfg = l.cfg
          /\ m.ws = l.ws /\ m.pkg = l.pkg /\ m.after = "preflight"
          /\ m.att = l.att /\ m.op = l.op /\ m.todo = log BY <1>0 DEF Local
    <3>4. loc' = [loc EXCEPT ![p] = m] BY <1>27, <2>1 DEF Pending
    <3> HIDE DEF m
    <3>5. Ready(m, m.pc)
      BY <1>0, <3>1, <3>3, <1>27, <2>1
         DEF Pending, OwnRecovery, Ready, AfterRecovery, Recovering, Publishing, At
    <3> QED BY <1>0, <3>2, <3>4, <3>5, SetFine, EndFine
  <2>2. CASE OwnRecovery(p) /\ closes # {}
    <3>0. Min(closes) \in DOMAIN log BY <2>0, <2>2, LenProperties, MinExists
    <3>a. log[Min(closes)] \in Operation /\ RemoveAt(log, Min(closes)) \in Seq(Operation)
      BY <2>0, <3>0, RemoveAtProperties, LenProperties, ElementOfSeq
    <3> DEFINE m == [l EXCEPT !.pc = "recover", !.todo = RemoveAt(log, Min(closes)),
                              !.op = log[Min(closes)], !.after = "retire"]
    <3>1. log[Min(closes)] \in Operation /\ RemoveAt(log, Min(closes)) \in Seq(Operation)
      BY <1>0, <1>27, <2>2, <3>a
         DEF Pending, OwnRecovery, Ready, AfterRecovery, Recovering, Publishing, At
    <3>2. m \in Local BY <1>0, <3>1 DEF Local, Label
    <3>3. /\ m.pc = "recover" /\ m.kind = l.kind /\ m.cfg = l.cfg
          /\ m.ws = l.ws /\ m.pkg = l.pkg /\ m.after = "retire"
          /\ m.att = l.att /\ m.op = log[Min(closes)] /\ m.todo = RemoveAt(log, Min(closes))
            BY <1>0 DEF Local
    <3>4. loc' = [loc EXCEPT ![p] = m] BY <1>27, <2>2 DEF Pending
    <3> HIDE DEF m
    <3>5. Ready(m, m.pc)
      BY <1>0, <3>1, <3>3, <1>27, <2>2
         DEF Pending, OwnRecovery, Ready, AfterRecovery, Recovering, Publishing, At
    <3> QED BY <1>0, <3>2, <3>4, <3>5, SetFine, EndFine
  <2>3. CASE ~ OwnRecovery(p)
    <3> DEFINE m == [l EXCEPT !.pc = "recover", !.todo = log]
    <3>1. log \in Seq(Operation)
      BY <1>0, <1>27, <2>3, <2>0
         DEF Pending, OwnRecovery, Ready, AfterRecovery, Recovering, Publishing, At
    <3>2. m \in Local BY <1>0, <3>1 DEF Local, Label
    <3>3. /\ m.pc = "recover" /\ m.kind = l.kind /\ m.cfg = l.cfg
          /\ m.ws = l.ws /\ m.pkg = l.pkg /\ m.after = l.after
          /\ m.att = l.att /\ m.op = l.op /\ m.todo = log BY <1>0 DEF Local
    <3>4. loc' = [loc EXCEPT ![p] = m] BY <1>27, <2>3 DEF Pending
    <3> HIDE DEF m
    <3>5. Ready(m, m.pc)
      BY <1>0, <3>1, <3>3, <1>27, <2>3
         DEF Pending, OwnRecovery, Ready, AfterRecovery, Recovering, Publishing, At
    <3> QED BY <1>0, <3>2, <3>4, <3>5, SetFine, EndFine
  <2> QED BY <2>1, <2>2, <2>3
<1>28. CASE BeginSome(p)
  <2>0. PICK kind \in Kind, w \in Workspace \cup {None}, c \in Config,
                  pkg \in Package, keys \in SUBSET Key :
           (kind # "detach" => w \in Workspace) /\ Begin(p, kind, w, c, pkg, keys)
    <3>1. CASE \E w \in Workspace, c \in Config : BeginAttach(p, w, c)
      BY <3>1, AttachmentAssumption DEF BeginAttach, AttachKeys, Key, Kind
    <3>2. CASE \E w \in Workspace : BeginClose(p, w)
      BY <3>2, AttachmentAssumption DEF BeginClose, Key, Kind
    <3>3. CASE \E c \in Config, pkg \in Package : BeginDetach(p, c, pkg)
      <4>1. PICK c \in Config, pkg \in Package : BeginDetach(p, c, pkg) BY <3>3
      <4> DEFINE found == row[<<c, pkg>>]
                 owner == IF found = None THEN {} ELSE {WorkspaceKey(found.ws)}
      <4>2. found \in Attachment \cup {None} BY DEF StructureInv, TypeOK, Cell
      <4>3. owner \subseteq Key BY <4>2 DEF Attachment, Key
      <4>4. {ConfigKey(c, pkg)} \cup owner \subseteq Key BY <4>3 DEF Key
      <4>5. Begin(p, "detach", None, c, pkg, {ConfigKey(c, pkg)} \cup owner)
        BY <4>1 DEF BeginDetach
      <4> QED BY <4>4, <4>5 DEF Kind
    <3> QED BY <1>28, <3>1, <3>2, <3>3 DEF BeginSome
  <2> DEFINE m == [Idle EXCEPT !.pc = "locking", !.kind = kind, !.ws = w, !.cfg = c,
                       !.pkg = pkg, !.keys = keys, !.after = "row"]
  <2>1. m \in Local BY <2>0, EmptySeq DEF Idle, Local, Label, Content
  <2>2. /\ m.pc = "locking" /\ m.kind = kind /\ m.cfg = c /\ m.ws = w /\ m.pkg = pkg
        /\ m.after = "row" /\ m.att = None
    BY DEF Idle
  <2>3. loc' = [loc EXCEPT ![p] = m] BY <2>0 DEF Begin
  <2> HIDE DEF m
  <2>4. Ready(m, m.pc) BY <2>0, <2>2 DEF Ready, Publishing, Recovering
  <2> QED BY <1>0, <2>1, <2>3, <2>4, SetFine
<1> QED BY <1>1, <1>2, <1>3, <1>4, <1>5, <1>6, <1>7, <1>8, <1>9, <1>10, <1>11, <1>12, <1>13,
           <1>14, <1>15, <1>16, <1>17, <1>18, <1>19, <1>20, <1>21, <1>22, <1>23, <1>24,
           <1>25, <1>26, <1>27, <1>28
           DEF Step

\* What a step may change.
LEMMA Frames ==
    ASSUME NEW p \in Proc, BeginSome(p) \/ Step(p) \/ Crash(p)
    PROVE  /\ \/ UNCHANGED disk
              \/ Undo(p) \/ Clean(p) \/ Stage(p) \/ Replace(p) \/ UnlinkEmpty(p) \/ Tidy(p)
           /\ \/ UNCHANGED journal
              \/ Forget(p) \/ Prepare(p) \/ MarkPublished(p) \/ MarkRemoved(p)
              \/ CompleteAttachment(p) \/ Finish(p) \/ SaveClose(p) \/ Retire(p)
           /\ UNCHANGED row \/ CompleteAttachment(p)
           /\ UNCHANGED retired \/ Retire(p)
           /\ UNCHANGED issued \/ Stage(p) \/ SaveClose(p)
           /\ UNCHANGED begun \/ BeginSome(p)
           /\ UNCHANGED crashes \/ Crash(p)
<1>1. CASE LockWorkspace(p) BY <1>1 DEF LockWorkspace, disk, database, counters
<1>2. CASE LockDetach(p) BY <1>2 DEF LockDetach, disk, database, counters
<1>3. CASE Pending(p) BY <1>3 DEF Pending, disk, database, counters
<1>4. CASE Recover(p) BY <1>4 DEF Recover, disk, database, counters
<1>5. CASE Undo(p) BY <1>5 DEF Undo, disk, database, counters
<1>6. CASE Clean(p) BY <1>6 DEF Clean, disk, database, counters
<1>7. CASE Forget(p) BY <1>7 DEF Forget, disk, database, counters
<1>8. CASE LookUpRow(p) BY <1>8 DEF LookUpRow, disk, database, counters
<1>9. CASE ReadOverride(p) BY <1>9 DEF ReadOverride, disk, database, counters
<1>10. CASE Stage(p) BY <1>10 DEF Stage, disk, database, counters
<1>11. CASE Prepare(p) BY <1>11 DEF Prepare, disk, database, counters
<1>12. CASE Check(p) BY <1>12 DEF Check, disk, database, counters
<1>13. CASE Replace(p) BY <1>13 DEF Replace, disk, database, counters
<1>14. CASE MarkPublished(p) BY <1>14 DEF MarkPublished, disk, database, counters
<1>15. CASE Recheck(p) BY <1>15 DEF Recheck, disk, database, counters
<1>16. CASE UnlinkEmpty(p) BY <1>16 DEF UnlinkEmpty, disk, database, counters
<1>17. CASE MarkRemoved(p) BY <1>17 DEF MarkRemoved, disk, database, counters
<1>18. CASE Verify(p) BY <1>18 DEF Verify, disk, database, counters
<1>19. CASE CompleteAttachment(p) BY <1>19 DEF CompleteAttachment, disk, database, counters
<1>20. CASE Rollback(p) BY <1>20 DEF Rollback, disk, database, counters
<1>21. CASE Tidy(p) BY <1>21 DEF Tidy, disk, database, counters
<1>22. CASE Finish(p) BY <1>22 DEF Finish, disk, database, counters
<1>23. CASE Preflight(p) BY <1>23 DEF Preflight, disk, database, counters
<1>24. CASE DetachNext(p) BY <1>24 DEF DetachNext, disk, database, counters
<1>25. CASE SaveClose(p) BY <1>25 DEF SaveClose, disk, database, counters
<1>26. CASE Retire(p) BY <1>26 DEF Retire, disk, database, counters
<1>27. CASE Crash(p) BY <1>27 DEF Crash, disk, database, counters
<1>28. CASE BeginSome(p)
  BY <1>28 DEF BeginSome, BeginAttach, BeginDetach, BeginClose, Begin, disk, database
<1> QED BY <1>1, <1>2, <1>3, <1>4, <1>5, <1>6, <1>7, <1>8, <1>9, <1>10, <1>11, <1>12, <1>13,
           <1>14, <1>15, <1>16, <1>17, <1>18, <1>19, <1>20, <1>21, <1>22, <1>23, <1>24,
           <1>25, <1>26, <1>27, <1>28
           DEF Step

LEMMA TypesStep ==
    ASSUME StructureInv, NEW p \in Proc, BeginSome(p) \/ Step(p) \/ Crash(p)
    PROVE  StructureInv'
<1> DEFINE l == loc[p]
<1>0. TypeOK /\ l \in Local /\ Ready(l, l.pc) BY DEF StructureInv, Presence, TypeOK
<1>op. /\ At(p, "prepare") => l.op \in Operation /\ l.ws \in Workspace
       /\ At(p, "mark") => l.op \in Operation /\ l.ws \in Workspace
       /\ At(p, "markremove") => l.op \in Operation /\ l.ws \in Workspace
       /\ At(p, "complete") => l.op \in Operation /\ l.ws \in Workspace
       /\ At(p, "finish") => l.op \in Operation /\ l.ws \in Workspace
       /\ At(p, "replace") => l.op \in Operation /\ l.ws \in Workspace
       /\ At(p, "tidy") => l.op \in Operation /\ l.ws \in Workspace
       /\ At(p, "saveclose") => l.ws \in Workspace
       /\ At(p, "retire") => l.ws \in Workspace
       /\ At(p, "stage") => l.cfg \in Config /\ l.ws \in Workspace
       /\ At(p, "unlink") => l.cfg \in Config
       /\ At(p, "forget") => l.ws \in Workspace
       /\ At(p, "undo") => Item(p) \in Operation
       /\ At(p, "clean") => Item(p) \in Operation
  BY <1>0, HeadAndTail DEF At, Ready, Publishing, Local, Item
<1>files. /\ file' \in [Config -> Content] /\ DOMAIN backup' \subseteq Id
          /\ \A id \in DOMAIN backup' : backup'[id] \in Seq(Line)
          /\ staged' \subseteq Id
  <2>1. CASE Undo(p)
    <3>1. /\ UNCHANGED staged
          /\ \/ UNCHANGED <<file, backup>>
             \/ /\ file' = [file EXCEPT ![Item(p).cfg] =
                              IF Item(p).backed THEN backup[Item(p).id] ELSE NoFile]
                /\ Item(p).backed => Item(p).id \in DOMAIN backup
                /\ backup' = Without(backup, Item(p).id)
      BY <2>1 DEF Undo
    <3>2. file \in [Config -> Content] BY <1>0 DEF TypeOK
    <3>3. file' \in [Config -> Content]
      <4> DEFINE old == IF Item(p).backed THEN backup[Item(p).id] ELSE NoFile
      <4>1. CASE UNCHANGED file BY <3>2, <4>1
      <4>2. CASE /\ file' = [file EXCEPT ![Item(p).cfg] = old]
                 /\ Item(p).backed => Item(p).id \in DOMAIN backup
        <5>1. old \in Content BY <4>2, <1>0 DEF TypeOK, Content
        <5> HIDE DEF old
        <5> QED BY <3>2, <4>2, <5>1
      <4> QED BY <3>1, <4>1, <4>2
    <3>4. DOMAIN backup' \subseteq DOMAIN backup
          /\ \A id \in DOMAIN backup' : backup'[id] = backup[id]
      BY <3>1 DEF Without
    <3> QED BY <3>1, <3>3, <3>4, <1>0 DEF TypeOK
  <2>2. CASE Clean(p) BY <2>2, <1>0 DEF Clean, TypeOK, Without
  <2>3. CASE Stage(p)
    <3>1. issued + 1 \in Id BY <1>0 DEF TypeOK, Id
    <3>2. File(p) \in Content BY <2>3, <1>0, <1>op DEF Stage, TypeOK, File
    <3> QED BY <2>3, <1>0, <3>1, <3>2 DEF Stage, TypeOK, With, Content
  <2>4. CASE Replace(p) BY <2>4, <1>0, <1>op DEF Replace, TypeOK, Operation
  <2>5. CASE UnlinkEmpty(p) BY <2>5, <1>0 DEF UnlinkEmpty, TypeOK, Content
  <2>6. CASE Tidy(p) BY <2>6, <1>0 DEF Tidy, TypeOK, Without
  <2>7. CASE UNCHANGED disk BY <2>7, <1>0 DEF disk, TypeOK
  <2> QED BY <2>1, <2>2, <2>3, <2>4, <2>5, <2>6, <2>7, Frames
<1>journal. journal' \in [Workspace -> Seq(Operation)]
  <2>0. journal \in [Workspace -> Seq(Operation)] BY <1>0 DEF TypeOK
  <2>a. ASSUME NEW op \in Operation, Save(p, op), l.ws \in Workspace
        PROVE  journal' \in [Workspace -> Seq(Operation)]
    BY <2>a, <2>0, SavedProperties DEF Save
  <2>b. ASSUME NEW id, journal' = [journal EXCEPT ![l.ws] = Dropped(@, id)], l.ws \in Workspace
        PROVE  journal' \in [Workspace -> Seq(Operation)]
    BY <2>b, <2>0, RemovedProperties DEF Dropped
  <2>1. CASE Forget(p) BY <2>1, <2>b, <1>op DEF Forget
  <2>2. CASE Prepare(p)
    <3>1. File(p) \in Content BY <2>2, <1>0 DEF Prepare, At, Ready, Publishing, TypeOK, File
    <3>2. [l.op EXCEPT !.old = File(p)] \in Operation
      BY <2>2, <3>1, <1>op DEF Prepare, Operation
    <3> QED BY <2>2, <3>2, <2>a, <1>op DEF Prepare
  <2>3. CASE MarkPublished(p)
    <3>1. [l.op EXCEPT !.published = TRUE, !.phase = "published"] \in Operation
      BY <2>3, <1>op DEF MarkPublished, Operation
    <3> QED BY <2>3, <3>1, <2>a, <1>op DEF MarkPublished
  <2>4. CASE MarkRemoved(p)
    <3>1. [l.op EXCEPT !.remove = TRUE] \in Operation
      BY <2>4, <1>op DEF MarkRemoved, Operation
    <3> QED BY <2>4, <3>1, <2>a, <1>op DEF MarkRemoved
  <2>5. CASE CompleteAttachment(p)
    <3>1. l.op \in Operation /\ l.ws \in Workspace BY <2>5, <1>op DEF CompleteAttachment
    <3>2. Completed(journal[l.ws], l.op) \in Seq(Operation)
      BY <2>0, <3>1, CompletedProperties
    <3>3. \/ journal' = journal
          \/ journal' = [journal EXCEPT ![l.ws] = Completed(@, l.op)]
      BY <2>5 DEF CompleteAttachment
    <3> QED BY <2>0, <3>1, <3>2, <3>3
  <2>6. CASE Finish(p) BY <2>6, <2>b, <1>op DEF Finish
  <2>7. CASE SaveClose(p)
    <3> DEFINE op == [id |-> issued + 1, kind |-> "close", cfg |-> l.cfg,
                  phase |-> "prepared", published |-> FALSE, remove |-> FALSE,
                  backed |-> FALSE, old |-> NoFile, new |-> NoFile]
    <3>1. l.cfg \in Config /\ issued \in Nat BY <2>7, <1>0 DEF SaveClose, At, Ready, TypeOK
    <3>2. op \in Operation BY <3>1 DEF Operation, Id, Kind, Content
    <3>3. Save(p, op) BY <2>7 DEF SaveClose
    <3> HIDE DEF op
    <3> QED BY <2>7, <3>2, <3>3, <2>a, <1>op DEF SaveClose
  <2>8. CASE Retire(p) BY <2>8, <2>b, <1>op DEF Retire
  <2>9. CASE UNCHANGED journal BY <2>9, <2>0
  <2> QED BY <2>1, <2>2, <2>3, <2>4, <2>5, <2>6, <2>7, <2>8, <2>9, Frames
<1>row. row' \in [Cell -> Attachment \cup {None}]
  <2>1. CASE CompleteAttachment(p)
    <3>1. /\ l.ws \in Workspace /\ l.op.id \in Id /\ l.seen \in Path \cup {None}
      BY <2>1, <1>op, <1>0 DEF CompleteAttachment, Operation, Local
    <3>2. [ws |-> l.ws, id |-> l.op.id, created |-> l.orig = NoFile, prior |-> l.seen]
             \in Attachment
      BY <3>1 DEF Attachment
    <3>3. row \in [Cell -> Attachment \cup {None}] BY <1>0 DEF TypeOK
    <3> DEFINE new == [ws |-> l.ws, id |-> l.op.id, created |-> l.orig = NoFile, prior |-> l.seen]
    <3>4. \/ row' = row
          \/ row' = [row EXCEPT ![<<l.cfg, Pkg(p)>>] = new]
          \/ row' = [row EXCEPT ![<<l.cfg, Pkg(p)>>] = None]
      BY <2>1 DEF CompleteAttachment
    <3> HIDE DEF new
    <3>5. new \in Attachment BY <3>2 DEF new
    <3> QED BY <3>3, <3>4, <3>5
  <2>2. CASE UNCHANGED row BY <2>2, <1>0 DEF TypeOK
  <2> QED BY <2>1, <2>2, Frames
<1>counts. /\ retired' \subseteq Workspace /\ issued' \in Nat
           /\ begun' \in 0 .. MaxOps /\ crashes' \in 0 .. MaxCrashes
  <2>1. retired' \subseteq Workspace
    <3>1. CASE Retire(p) BY <3>1, <1>0, <1>op DEF Retire, TypeOK
    <3>2. CASE UNCHANGED retired BY <3>2, <1>0 DEF TypeOK
    <3> QED BY <3>1, <3>2, Frames
  <2>2. issued' \in Nat
    <3>1. CASE Stage(p) BY <3>1, <1>0 DEF Stage, TypeOK
    <3>2. CASE SaveClose(p) BY <3>2, <1>0 DEF SaveClose, TypeOK
    <3>3. CASE UNCHANGED issued BY <3>3, <1>0 DEF TypeOK
    <3> QED BY <3>1, <3>2, <3>3, Frames
  <2>3. begun' \in 0 .. MaxOps
    <3>1. CASE BeginSome(p)
      <4>1. begun < MaxOps /\ begun' = begun + 1
        BY <3>1 DEF BeginSome, BeginAttach, BeginDetach, BeginClose, Begin
      <4> QED BY <4>1, <1>0, AttachmentAssumption DEF TypeOK
    <3>2. CASE UNCHANGED begun BY <3>2, <1>0 DEF TypeOK
    <3> QED BY <3>1, <3>2, Frames
  <2>4. crashes' \in 0 .. MaxCrashes
    <3>1. CASE Crash(p) BY <3>1, <1>0, AttachmentAssumption DEF Crash, TypeOK
    <3>2. CASE UNCHANGED crashes BY <3>2, <1>0 DEF TypeOK
    <3> QED BY <3>1, <3>2, Frames
  <2> QED BY <2>1, <2>2, <2>3, <2>4
<1>locals. Stepped(p) BY LocalsStep
<1>1. TypeOK' BY <1>files, <1>journal, <1>row, <1>counts, <1>locals DEF TypeOK, Stepped
<1>2. Presence'
  <2>1. \A q \in Proc \ {p} : Ready(loc'[q], loc'[q].pc)
    BY <1>locals DEF Stepped, StructureInv, Presence
  <2> QED BY <1>locals, <2>1 DEF Stepped, Presence
<1> QED BY <1>1, <1>2 DEF StructureInv

LEMMA StructureStep == ASSUME StructureInv, [Next]_vars PROVE StructureInv'
<1>1. CASE UNCHANGED vars
  BY <1>1
     DEF StructureInv, TypeOK, Presence, Ready, AfterRecovery, vars, disk, database,
         counters
<1>2. CASE \E p \in Proc : BeginSome(p) \/ Step(p) \/ Crash(p) BY <1>2, TypesStep
<1> QED BY <1>1, <1>2 DEF Next, Quiet

LEMMA StructureInit == ASSUME Init PROVE StructureInv
<1>1. Idle \in Local BY EmptySeq DEF Idle, Local, Label, Content
<1>2. Ready(Idle, Idle.pc) BY DEF Ready, Idle, Publishing, Recovering
<1>3. file \in [Config -> Content] BY ContentsAssumption DEF Init
<1>4. /\ DOMAIN backup \subseteq Id
      /\ \A id \in DOMAIN backup : backup[id] \in Seq(Line)
  BY EmptySeq DEF Init
<1>5. journal \in [Workspace -> Seq(Operation)] BY EmptySeq DEF Init
<1>6. loc \in [Proc -> Local] /\ Presence
  <2> HIDE DEF Idle
  <2> QED BY <1>1, <1>2 DEF Init, Presence
<1>7. TypeOK BY <1>3, <1>4, <1>5, <1>6, AttachmentAssumption DEF Init, TypeOK
<1> QED BY <1>6, <1>7 DEF StructureInv

\* Types, and that every step of an operation finds what the steps before it,
\* its recovery included, left in the process's locals.
THEOREM AttachmentStructure == Spec => []StructureInv
BY StructureInit, StructureStep, PTL DEF Spec

-----------------------------------------------------------------------------
(* Which attachments, journals and closed workspaces an operation may rely on *)

ConfigOf(l) == IF l.kind = "close" THEN OriginOf[l.ws] ELSE l.cfg
PackageIn(l) == IF l.kind = "detach" THEN l.pkg ELSE PackageOf[l.ws]

\* The keys of an operation, and that running operations share none.
Locks ==
    /\ \A q \in Proc : loc[q].pc # "idle" =>
          /\ loc[q].kind \in {"attach", "close"} => WorkspaceKey(loc[q].ws) \in loc[q].keys
          /\ ConfigKey(ConfigOf(loc[q]), PackageIn(loc[q])) \in loc[q].keys
    /\ \A q, r \in Proc : q # r /\ Running(q) /\ Running(r) =>
          loc[q].keys \cap loc[r].keys = {}

\* The package of a row is the one its workspace is for.
RowsOfPackage ==
    \A cp \in Cell : row[cp] # None => PackageOf[row[cp].ws] = cp[2]

HasClose(log) == \E op \in Range(log) : op.kind = "close"
Closing(w) == HasClose(journal[w])

\* A close is journalled when nothing is attached any more, and stays so.
ClosingDetached == \A w \in Workspace : Closing(w) => Attached(w) = {}

\* An attach that is past the recovery of its workspace has found no close.
AttachAlone(l) ==
    l.kind = "attach" =>
        /\ l.pc \in Publishing \cup {"row", "read", "stage"} => ~ Closing(l.ws)
        /\ (l.pc = "recover" /\ l.after = "row" /\ Closing(l.ws)) => HasClose(l.todo)
        /\ (l.pc \in {"undo", "clean", "forget"} /\ l.after = "row" /\ Closing(l.ws))
              => HasClose(Tail(l.todo))

\* A close still has on its list whatever is attached.
CloseProgress(l) ==
    l.kind = "close" =>
        /\ l.pc \in Publishing \cup {"next", "read", "stage"}
                \/ (l.pc \in Recovering \cup {"pending"} /\ l.after = "read")
              => \A cp \in l.rest : cp[2] = PackageOf[l.ws]
        /\ l.pc \in {"next", "tidy", "finish"} => Attached(l.ws) \subseteq l.rest
        /\ l.pc \in (Publishing \ {"tidy", "finish", "rollback"}) \cup {"read", "stage"}
                \/ (l.pc \in Recovering \cup {"pending"} /\ l.after = "read")
              => Attached(l.ws) \subseteq l.rest \cup {<<l.cfg, PackageOf[l.ws]>>}
        /\ l.pc \in {"saveclose", "retire"}
                \/ (l.pc \in Recovering /\ l.after = "retire")
              => Attached(l.ws) = {}

\* An attach or a close works on a workspace that is open.
Open(l) ==
    (l.kind \in {"attach", "close"} /\ l.pc \notin {"idle", "locking"})
        => l.ws \notin retired

Progress(l) == AttachAlone(l) /\ CloseProgress(l) /\ Open(l)

RegistryInv ==
    /\ StructureInv /\ Locks /\ RowsOfPackage /\ ClosingDetached
    /\ \A q \in Proc : Progress(loc[q])

\* What a step leaves to the operations of other workspaces.
Spared(w) ==
    /\ Closing(w)' => Closing(w)
    /\ Attached(w)' \subseteq Attached(w)
    /\ w \in retired' => w \in retired

\* What an operation keeps until it ends.
LEMMA Identity ==
    ASSUME StructureInv, NEW p \in Proc, Step(p) \/ Crash(p)
    PROVE  \/ loc'[p].pc = "idle"
           \/ /\ loc[p].pc # "idle" /\ loc'[p].pc # "locking"
              /\ loc[p].pc = "locking" => KeysFree(p)
              /\ loc'[p].kind = loc[p].kind
              /\ loc'[p].keys = loc[p].keys
              /\ loc'[p].pkg = loc[p].pkg
              /\ (loc[p].kind = "detach" /\ loc[p].pc = "locking") \/ loc'[p].ws = loc[p].ws
              /\ (loc[p].kind = "close" /\ loc[p].pc = "next") \/ loc'[p].cfg = loc[p].cfg
<1>0. /\ loc \in [Proc -> Local] /\ loc[p] \in Local /\ Ready(loc[p], loc[p].pc)
  BY DEF StructureInv, Presence, TypeOK
<1>e. End(p) => loc'[p].pc = "idle" BY <1>0 DEF End, Idle
<1>g. ASSUME NEW x, Go(p, x)
      PROVE  /\ loc'[p].pc = x /\ loc'[p].kind = loc[p].kind
             /\ loc'[p].keys = loc[p].keys /\ loc'[p].pkg = loc[p].pkg
             /\ loc'[p].ws = loc[p].ws /\ loc'[p].cfg = loc[p].cfg
  BY <1>0, <1>g DEF Go, Local
<1>1. CASE LockWorkspace(p) BY <1>0, <1>1, <1>e, <1>g DEF LockWorkspace, At, Local
<1>2. CASE LockDetach(p) BY <1>0, <1>2, <1>e, <1>g DEF LockDetach, At, Local
<1>3. CASE Pending(p)
  <2> DEFINE log == journal[loc[p].ws]
             closes == {i \in DOMAIN log : log[i].kind = "close"}
  <2>1. CASE OwnRecovery(p) /\ closes = {}
    <3>1. loc' = [loc EXCEPT ![p].pc = "recover", ![p].todo = log, ![p].after = "preflight"]
      BY <1>3, <2>1 DEF Pending
    <3> QED BY <1>0, <1>3, <3>1 DEF Pending, At, Local
  <2>2. CASE OwnRecovery(p) /\ closes # {}
    <3>1. loc' = [loc EXCEPT ![p].pc = "recover", ![p].todo = RemoveAt(log, Min(closes)),
                             ![p].op = log[Min(closes)], ![p].after = "retire"]
      BY <1>3, <2>2 DEF Pending
    <3> QED BY <1>0, <1>3, <3>1 DEF Pending, At, Local
  <2>3. CASE ~ OwnRecovery(p)
    <3>1. loc' = [loc EXCEPT ![p].pc = "recover", ![p].todo = log] BY <1>3, <2>3 DEF Pending
    <3> QED BY <1>0, <1>3, <3>1 DEF Pending, At, Local
  <2> QED BY <2>1, <2>2, <2>3
<1>4. CASE Recover(p)
  BY <1>0, <1>4, <1>e, <1>g
     DEF Recover, At, Local, RecoveryOf, Ready, Recovering, AfterRecovery
<1>5. CASE Undo(p) BY <1>0, <1>5, <1>e, <1>g DEF Undo, At, Local
<1>6. CASE Clean(p) BY <1>0, <1>6, <1>e, <1>g DEF Clean, At, Local
<1>7. CASE Forget(p) BY <1>0, <1>7, <1>e, <1>g DEF Forget, At, Local
<1>8. CASE LookUpRow(p) BY <1>0, <1>8, <1>e, <1>g DEF LookUpRow, At, Local
<1>9. CASE ReadOverride(p) BY <1>0, <1>9, <1>e, <1>g DEF ReadOverride, At, Local
<1>10. CASE Stage(p) BY <1>0, <1>10, <1>e, <1>g DEF Stage, At, Local
<1>11. CASE Prepare(p) BY <1>0, <1>11, <1>e, <1>g DEF Prepare, At, Local
<1>12. CASE Check(p) BY <1>0, <1>12, <1>e, <1>g DEF Check, At, Local
<1>13. CASE Replace(p) BY <1>0, <1>13, <1>e, <1>g DEF Replace, At, Local
<1>14. CASE MarkPublished(p) BY <1>0, <1>14, <1>e, <1>g DEF MarkPublished, At, Local
<1>15. CASE Recheck(p) BY <1>0, <1>15, <1>e, <1>g DEF Recheck, At, Local
<1>16. CASE UnlinkEmpty(p) BY <1>0, <1>16, <1>e, <1>g DEF UnlinkEmpty, At, Local
<1>17. CASE MarkRemoved(p) BY <1>0, <1>17, <1>e, <1>g DEF MarkRemoved, At, Local
<1>18. CASE Verify(p) BY <1>0, <1>18, <1>e, <1>g DEF Verify, At, Local
<1>19. CASE CompleteAttachment(p)
  BY <1>0, <1>19, <1>e, <1>g DEF CompleteAttachment, At, Local
<1>20. CASE Rollback(p) BY <1>0, <1>20, <1>e, <1>g DEF Rollback, At, Local
<1>21. CASE Tidy(p) BY <1>0, <1>21, <1>e, <1>g DEF Tidy, At, Local
<1>22. CASE Finish(p) BY <1>0, <1>22, <1>e, <1>g DEF Finish, At, Local
<1>23. CASE Preflight(p) BY <1>0, <1>23, <1>e, <1>g DEF Preflight, At, Local
<1>24. CASE DetachNext(p)
  <2>1. CASE loc[p].rest = {} BY <1>0, <1>24, <1>g, <2>1 DEF DetachNext, At
  <2>2. CASE loc[p].rest # {}
    <3>1. PICK cp \in loc[p].rest, x \in {"next", "pending"} :
             loc' = [loc EXCEPT ![p].rest = @ \ {cp}, ![p].cfg = cp[1], ![p].att = row[cp],
                                ![p].after = "read", ![p].pc = x]
      BY <1>24, <2>2 DEF DetachNext
    <3> QED BY <1>0, <1>24, <3>1 DEF DetachNext, At, Local, Ready
  <2> QED BY <2>1, <2>2
<1>25. CASE SaveClose(p) BY <1>0, <1>25, <1>e, <1>g DEF SaveClose, At, Local
<1>26. CASE Retire(p) BY <1>0, <1>26, <1>e, <1>g DEF Retire, At, Local
<1>27. CASE Crash(p) BY <1>0, <1>27, <1>e, <1>g DEF Crash, At, Local
<1> QED BY <1>1, <1>2, <1>3, <1>4, <1>5, <1>6, <1>7, <1>8, <1>9, <1>10, <1>11, <1>12, <1>13,
           <1>14, <1>15, <1>16, <1>17, <1>18, <1>19, <1>20, <1>21, <1>22, <1>23, <1>24,
           <1>25, <1>26, <1>27
           DEF Step

LEMMA LocksStep ==
    ASSUME StructureInv, Locks, NEW p \in Proc, BeginSome(p) \/ Step(p) \/ Crash(p)
    PROVE  Locks'
<1> DEFINE Held(q) ==
              loc[q].pc # "idle" =>
                 /\ loc[q].kind \in {"attach", "close"} => WorkspaceKey(loc[q].ws) \in loc[q].keys
                 /\ ConfigKey(ConfigOf(loc[q]), PackageIn(loc[q])) \in loc[q].keys
<1>0. Stepped(p) BY LocalsStep
<1>1. CASE BeginSome(p)
  <2>1. loc'[p].pc = "locking" /\ Held(p)'
    <3>0. loc \in [Proc -> Local] BY DEF StructureInv, TypeOK
    <3>1. CASE \E w \in Workspace, c \in Config : BeginAttach(p, w, c)
      BY <3>0, <3>1 DEF BeginAttach, AttachKeys, Begin, Idle, ConfigOf, PackageIn
    <3>2. CASE \E w \in Workspace : BeginClose(p, w)
      BY <3>0, <3>2 DEF BeginClose, Begin, Idle, ConfigOf, PackageIn
    <3>3. CASE \E c \in Config, pkg \in Package : BeginDetach(p, c, pkg)
      <4>1. PICK c \in Config, pkg \in Package : BeginDetach(p, c, pkg) BY <3>3
      <4> DEFINE found == row[<<c, pkg>>]
                 owner == IF found = None THEN {} ELSE {WorkspaceKey(found.ws)}
                 keys == {ConfigKey(c, pkg)} \cup owner
      <4>2. Begin(p, "detach", None, c, pkg, keys) BY <4>1 DEF BeginDetach
      <4>3. ConfigKey(c, pkg) \in keys OBVIOUS
      <4> HIDE DEF keys
      <4> QED BY <3>0, <4>2, <4>3 DEF Begin, Idle, ConfigOf, PackageIn
    <3> QED BY <1>1, <3>1, <3>2, <3>3 DEF BeginSome
  <2>2. \A q \in Proc : Held(q)'
    BY <1>0, <2>1 DEF Stepped, Locks, ConfigOf, PackageIn
  <2>3. \A q \in Proc : Running(q)' => Running(q) /\ loc'[q] = loc[q]
    BY <1>0, <2>1 DEF Stepped, Running
  <2> QED BY <2>2, <2>3 DEF Locks
<1>2. CASE Step(p) \/ Crash(p)
  <2>1. CASE loc'[p].pc = "idle"
    <3>1. \A q \in Proc : Held(q)'
      BY <1>0, <2>1 DEF Stepped, Locks, ConfigOf, PackageIn
    <3>2. \A q \in Proc : Running(q)' => Running(q) /\ loc'[q] = loc[q]
      BY <1>0, <2>1 DEF Stepped, Running
    <3> QED BY <3>1, <3>2 DEF Locks
  <2>2. CASE loc'[p].pc # "idle"
    <3>0. /\ loc[p].pc # "idle" /\ loc'[p].pc # "locking"
          /\ loc[p].pc = "locking" => KeysFree(p)
          /\ loc'[p].kind = loc[p].kind
          /\ loc'[p].keys = loc[p].keys
          /\ loc'[p].pkg = loc[p].pkg
          /\ (loc[p].kind = "detach" /\ loc[p].pc = "locking") \/ loc'[p].ws = loc[p].ws
          /\ (loc[p].kind = "close" /\ loc[p].pc = "next") \/ loc'[p].cfg = loc[p].cfg
      BY <1>2, <2>2, Identity
    <3>1. Held(p)' BY <2>2, <3>0 DEF Locks, ConfigOf, PackageIn
    <3>2. \A q \in Proc : Held(q)'
      BY <1>0, <3>1 DEF Stepped, Locks, ConfigOf, PackageIn
    <3>3. ASSUME NEW q \in Proc \ {p}, Running(q)
          PROVE  loc[q].keys \cap loc[p].keys = {}
      <4>1. CASE loc[p].pc = "locking" BY <3>0, <3>3, <4>1 DEF KeysFree
      <4>2. CASE loc[p].pc # "locking" BY <3>0, <3>3, <4>2 DEF Locks, Running
      <4> QED BY <4>1, <4>2
    <3>4. \A q \in Proc \ {p} : loc'[q] = loc[q] BY <1>0 DEF Stepped
    <3>5. ASSUME NEW q \in Proc, NEW r \in Proc, q # r, Running(q)', Running(r)'
          PROVE  (loc[q].keys \cap loc[r].keys = {})'
      <4>1. CASE q = p BY <3>0, <3>3, <3>4, <3>5, <4>1 DEF Running
      <4>2. CASE r = p BY <3>0, <3>3, <3>4, <3>5, <4>2 DEF Running
      <4>3. CASE q # p /\ r # p BY <3>4, <3>5, <4>3 DEF Running, Locks
      <4> QED BY <4>1, <4>2, <4>3
    <3> QED BY <3>2, <3>5 DEF Locks
  <2> QED BY <2>1, <2>2
<1> QED BY <1>1, <1>2

\* What a step does to journals, attachments and closed workspaces.
LEMMA Changes ==
    ASSUME StructureInv, NEW p \in Proc, BeginSome(p) \/ Step(p) \/ Crash(p),
           NEW w \in Workspace
    PROVE  /\ \/ Closing(w)' => Closing(w)
              \/ SaveClose(p) /\ loc[p].ws = w
           /\ \/ Attached(w)' \subseteq Attached(w)
              \/ /\ CompleteAttachment(p) /\ loc[p].kind = "attach" /\ loc[p].ws = w
                 /\ Attached(w)' \subseteq Attached(w) \cup {<<loc[p].cfg, PackageOf[w]>>}
           /\ \/ w \in retired' => w \in retired
              \/ Retire(p) /\ loc[p].ws = w
<1> DEFINE l == loc[p]
<1>0. /\ TypeOK /\ l \in Local /\ Ready(l, l.pc)
      /\ journal \in [Workspace -> Seq(Operation)] /\ row \in [Cell -> Attachment \cup {None}]
  BY DEF StructureInv, Presence, TypeOK
<1>op. At(p, "prepare") \/ At(p, "mark") \/ At(p, "markremove") \/ At(p, "complete")
          => l.op \in Operation /\ l.op.kind # "close"
  BY <1>0 DEF At, Ready, Publishing
<1>1. \/ Closing(w)' => Closing(w)
      \/ SaveClose(p) /\ loc[p].ws = w
  <2>1. ASSUME l.ws = w, journal[w]' = journal[w] \/ Range(journal'[w]) \subseteq Range(journal[w])
        PROVE  Closing(w)' => Closing(w)
    BY <2>1 DEF Closing, HasClose
  <2>u. ASSUME NEW log, journal' = [journal EXCEPT ![l.ws] = log]
        PROVE  /\ w # l.ws => journal'[w] = journal[w]
               /\ w = l.ws => journal'[w] = log
    BY <1>0, <2>u
  <2>d. ASSUME NEW id, journal' = [journal EXCEPT ![l.ws] = Dropped(@, id)]
        PROVE  Closing(w)' => Closing(w)
    <3>1. CASE w = l.ws
      <4>1. journal'[w] = Dropped(journal[w], id) BY <2>d, <2>u, <3>1
      <4>2. Range(Dropped(journal[w], id)) \subseteq Range(journal[w])
        BY <1>0, RemovedProperties DEF Dropped
      <4> QED BY <4>1, <4>2 DEF Closing, HasClose
    <3>2. CASE w # l.ws BY <2>d, <2>u, <3>2 DEF Closing
    <3> QED BY <3>1, <3>2
  <2>s. ASSUME NEW op \in Operation, op.kind # "close", Save(p, op)
        PROVE  Closing(w)' => Closing(w)
    <3>1. CASE w = l.ws
      <4>1. journal'[w] = Saved(journal[w], op) BY <2>s, <2>u, <3>1 DEF Save
      <4>2. Range(Saved(journal[w], op)) \subseteq Range(journal[w]) \cup {op}
        BY <1>0, SavedProperties
      <4> QED BY <4>1, <4>2, <2>s DEF Closing, HasClose
    <3>2. CASE w # l.ws BY <2>s, <2>u, <3>2 DEF Closing, Save
    <3> QED BY <3>1, <3>2
  <2>2. CASE Forget(p) BY <2>2, <2>d DEF Forget
  <2>3. CASE Finish(p) BY <2>3, <2>d DEF Finish
  <2>4. CASE Retire(p) BY <2>4, <2>d DEF Retire
  <2>5. CASE Prepare(p)
    <3>1. File(p) \in Content BY <2>5, <1>0 DEF Prepare, At, Ready, Publishing, TypeOK, File
    <3>2. /\ [l.op EXCEPT !.old = File(p)] \in Operation
          /\ [l.op EXCEPT !.old = File(p)].kind # "close"
      BY <2>5, <3>1, <1>op DEF Prepare, Operation
    <3> QED BY <2>5, <3>2, <2>s DEF Prepare
  <2>6. CASE MarkPublished(p)
    <3>1. /\ [l.op EXCEPT !.published = TRUE, !.phase = "published"] \in Operation
          /\ [l.op EXCEPT !.published = TRUE, !.phase = "published"].kind # "close"
      BY <2>6, <1>op DEF MarkPublished, Operation
    <3> QED BY <2>6, <3>1, <2>s DEF MarkPublished
  <2>7. CASE MarkRemoved(p)
    <3>1. /\ [l.op EXCEPT !.remove = TRUE] \in Operation
          /\ [l.op EXCEPT !.remove = TRUE].kind # "close"
      BY <2>7, <1>op DEF MarkRemoved, Operation
    <3> QED BY <2>7, <3>1, <2>s DEF MarkRemoved
  <2>8. CASE CompleteAttachment(p)
    <3>1. l.op \in Operation /\ l.op.kind # "close" BY <2>8, <1>op DEF CompleteAttachment
    <3>2. [l.op EXCEPT !.phase = "complete"].kind # "close" BY <3>1 DEF Operation
    <3>3. CASE journal' = journal BY <3>3 DEF Closing
    <3>4. CASE journal' = [journal EXCEPT ![l.ws] = Completed(@, l.op)]
      <4>1. CASE w = l.ws
        <5>1. journal'[w] = Completed(journal[w], l.op) BY <3>4, <2>u, <4>1
        <5>2. Range(Completed(journal[w], l.op)) \subseteq
                 {o \in Range(journal[w]) : o.id # l.op.id} \cup {[l.op EXCEPT !.phase = "complete"]}
          BY <1>0, <3>1, CompletedProperties
        <5> QED BY <5>1, <5>2, <3>2 DEF Closing, HasClose
      <4>2. CASE w # l.ws BY <3>4, <2>u, <4>2 DEF Closing
      <4> QED BY <4>1, <4>2
    <3> QED BY <2>8, <3>3, <3>4 DEF CompleteAttachment
  <2>9. CASE SaveClose(p)
    <3>1. CASE w # l.ws BY <2>9, <2>u, <3>1 DEF Closing, SaveClose, Save
    <3> QED BY <2>9, <3>1
  <2>10. CASE UNCHANGED journal BY <2>10 DEF Closing
  <2> QED BY <2>2, <2>3, <2>4, <2>5, <2>6, <2>7, <2>8, <2>9, <2>10, Frames
<1>2. \/ Attached(w)' \subseteq Attached(w)
      \/ /\ CompleteAttachment(p) /\ loc[p].kind = "attach" /\ loc[p].ws = w
         /\ Attached(w)' \subseteq Attached(w) \cup {<<loc[p].cfg, PackageOf[w]>>}
  <2>1. CASE CompleteAttachment(p)
    <3> DEFINE new == [ws |-> l.ws, id |-> l.op.id, created |-> l.orig = NoFile, prior |-> l.seen]
               cp == <<l.cfg, PackageOf[l.ws]>>
    <3>1. \/ row' = row
          \/ row' = [row EXCEPT ![cp] = new] /\ l.kind = "attach"
          \/ row' = [row EXCEPT ![cp] = None]
      BY <2>1 DEF CompleteAttachment, Pkg, StepKind
    <3>2. new.ws = l.ws OBVIOUS
    <3> HIDE DEF new
    <3>3. CASE row' = row BY <3>3 DEF Attached
    <3>4. CASE row' = [row EXCEPT ![cp] = None] BY <1>0, <3>4 DEF Attached
    <3>5. CASE row' = [row EXCEPT ![cp] = new] /\ l.kind = "attach"
      <4>1. CASE l.ws # w BY <1>0, <3>2, <3>5, <4>1 DEF Attached
      <4>2. CASE l.ws = w
        <5>1. Attached(w)' \subseteq Attached(w) \cup {cp} BY <1>0, <3>5 DEF Attached
        <5> QED BY <2>1, <3>5, <4>2, <5>1
      <4> QED BY <4>1, <4>2
    <3> QED BY <3>1, <3>3, <3>4, <3>5
  <2>2. CASE UNCHANGED row BY <2>2 DEF Attached
  <2> QED BY <2>1, <2>2, Frames
<1>3. \/ w \in retired' => w \in retired
      \/ Retire(p) /\ loc[p].ws = w
  BY Frames DEF Retire
<1> QED BY <1>1, <1>2, <1>3

LEMMA OthersProgress ==
    ASSUME RegistryInv, NEW p \in Proc, BeginSome(p) \/ Step(p) \/ Crash(p),
           NEW q \in Proc \ {p}
    PROVE  Progress(loc[q])'
<1>0. loc'[q] = loc[q] /\ loc[q] \in Local /\ Ready(loc[q], loc[q].pc)
  BY LocalsStep DEF RegistryInv, StructureInv, Presence, TypeOK, Stepped
<1>1. CASE loc[q].pc \in {"idle", "locking"} \/ loc[q].kind \notin {"attach", "close"}
  BY <1>0, <1>1 DEF Progress, AttachAlone, CloseProgress, Open, Publishing, Recovering
<1>2. CASE loc[q].pc \notin {"idle", "locking"} /\ loc[q].kind \in {"attach", "close"}
  <2>0. PICK w : w = loc[q].ws OBVIOUS
  <2>1. w \in Workspace BY <1>0, <1>2, <2>0 DEF Ready
  <2>2. ~ (Running(p) /\ loc[p].kind \in {"attach", "close"} /\ loc[p].ws = w)
    BY <1>2, <2>0 DEF RegistryInv, Locks, Running
  <2>3. /\ SaveClose(p) \/ Retire(p) => Running(p) /\ loc[p].kind = "close"
        /\ CompleteAttachment(p) => Running(p)
    BY DEF SaveClose, Retire, CompleteAttachment, At, Running, RegistryInv, StructureInv,
           Presence, Ready
  <2>4. Spared(w) BY <2>1, <2>2, <2>3, Changes DEF Spared, RegistryInv
  <2>5. Progress(loc[q]) BY DEF RegistryInv
  <2>6. AttachAlone(loc[q])' BY <1>0, <2>0, <2>4, <2>5 DEF Progress, AttachAlone, Spared
  <2>7. CloseProgress(loc[q])' BY <1>0, <2>0, <2>4, <2>5 DEF Progress, CloseProgress, Spared
  <2>8. Open(loc[q])' BY <1>0, <2>0, <2>4, <2>5 DEF Progress, Open, Spared
  <2> QED BY <2>6, <2>7, <2>8 DEF Progress
<1> QED BY <1>1, <1>2

\* A step that leaves the locals of p to what they were, but for the place.
LEMMA GoProgress ==
    ASSUME loc \in [Proc -> Local], NEW p \in Proc, NEW x, Go(p, x)
    PROVE  /\ loc'[p].pc = x /\ loc'[p].kind = loc[p].kind
           /\ loc'[p].ws = loc[p].ws /\ loc'[p].cfg = loc[p].cfg
           /\ loc'[p].after = loc[p].after /\ loc'[p].todo = loc[p].todo
           /\ loc'[p].rest = loc[p].rest /\ loc'[p].att = loc[p].att
           /\ loc'[p].op = loc[p].op
BY DEF Go, Local

LEMMA EndProgress ==
    ASSUME loc \in [Proc -> Local], NEW p \in Proc, loc'[p].pc = "idle"
    PROVE  Progress(loc[p])'
BY DEF Progress, AttachAlone, CloseProgress, Open, Publishing, Recovering

LEMMA OwnProgress ==
    ASSUME RegistryInv, NEW p \in Proc, Step(p) \/ Crash(p)
    PROVE  Progress(loc[p])'
<1> DEFINE l == loc[p]
<1>w. PICK w : w = l.ws OBVIOUS
<1>0. /\ loc \in [Proc -> Local] /\ l \in Local /\ Ready(l, l.pc) /\ Progress(l)
      /\ StructureInv /\ RowsOfPackage /\ ClosingDetached /\ TypeOK
  BY DEF RegistryInv, StructureInv, Presence, TypeOK
<1>e. End(p) => Progress(loc[p])'
  <2>1. End(p) => loc'[p].pc = "idle" BY <1>0 DEF End, Idle
  <2> QED BY <1>0, <2>1, EndProgress
<1>c. w \in Workspace =>
         /\ Closing(w)' => Closing(w) \/ SaveClose(p)
         /\ Attached(w)' \subseteq Attached(w) \/ CompleteAttachment(p)
         /\ w \in retired' => w \in retired \/ Retire(p)
  BY <1>0, <1>w, Changes
<1>d. w \in Workspace =>
         /\ l.pc # "saveclose" => (Closing(w)' => Closing(w))
         /\ l.pc # "complete" => Attached(w)' \subseteq Attached(w)
         /\ l.pc # "retire" => (w \in retired' => w \in retired)
  BY <1>c DEF SaveClose, CompleteAttachment, Retire, At
<1>1. CASE LookUpRow(p)
  <2>1. CASE Go(p, "read")
    <3>1. w \in Workspace /\ UNCHANGED <<row, journal, retired>>
      BY <1>0, <1>w, <1>1 DEF LookUpRow, Ready, At, database
    <3>2. /\ loc'[p].pc = "read" /\ loc'[p].kind = l.kind
          /\ loc'[p].ws = w /\ loc'[p].cfg = l.cfg
          /\ loc'[p].after = l.after /\ loc'[p].todo = l.todo
          /\ loc'[p].rest = l.rest
      BY <1>0, <1>w, <2>1, GoProgress
    <3>3. Closing(w)' <=> Closing(w) BY <3>1 DEF Closing
    <3>4. Attached(w)' = Attached(w) BY <3>1 DEF Attached
    <3> QED BY <1>0, <1>w, <1>1, <3>1, <3>2, <3>3, <3>4
               DEF LookUpRow, At, Ready, Progress, AttachAlone, CloseProgress, Open,
                   Publishing, Recovering
  <2> QED BY <1>e, <1>1, <2>1 DEF LookUpRow
<1>2. CASE Check(p)
  <2>1. CASE Go(p, "replace")
    <3>1. w \in Workspace /\ UNCHANGED <<row, journal, retired>>
      BY <1>0, <1>w, <1>2 DEF Check, Ready, At, database
    <3>2. /\ loc'[p].pc = "replace" /\ loc'[p].kind = l.kind
          /\ loc'[p].ws = w /\ loc'[p].cfg = l.cfg
          /\ loc'[p].after = l.after /\ loc'[p].todo = l.todo
          /\ loc'[p].rest = l.rest
      BY <1>0, <1>w, <2>1, GoProgress
    <3>3. Closing(w)' <=> Closing(w) BY <3>1 DEF Closing
    <3>4. Attached(w)' = Attached(w) BY <3>1 DEF Attached
    <3> QED BY <1>0, <1>w, <1>2, <3>1, <3>2, <3>3, <3>4
               DEF Check, At, Ready, Progress, AttachAlone, CloseProgress, Open, Publishing,
                   Recovering
  <2> QED BY <1>e, <1>2, <2>1 DEF Check
<1>3. CASE Replace(p)
  <2>1. CASE Go(p, "mark")
    <3>1. w \in Workspace /\ UNCHANGED <<row, journal, retired>>
      BY <1>0, <1>w, <1>3 DEF Replace, Ready, At, database
    <3>2. /\ loc'[p].pc = "mark" /\ loc'[p].kind = l.kind
          /\ loc'[p].ws = w /\ loc'[p].cfg = l.cfg
          /\ loc'[p].after = l.after /\ loc'[p].todo = l.todo
          /\ loc'[p].rest = l.rest
      BY <1>0, <1>w, <2>1, GoProgress
    <3>3. Closing(w)' <=> Closing(w) BY <3>1 DEF Closing
    <3>4. Attached(w)' = Attached(w) BY <3>1 DEF Attached
    <3> QED BY <1>0, <1>w, <1>3, <3>1, <3>2, <3>3, <3>4
               DEF Replace, At, Ready, Progress, AttachAlone, CloseProgress, Open,
                   Publishing, Recovering
  <2> QED BY <1>e, <1>3, <2>1 DEF Replace
<1>4. CASE Recheck(p)
  <2>1. CASE Go(p, "unlink")
    <3>1. w \in Workspace /\ UNCHANGED <<row, journal, retired>>
      BY <1>0, <1>w, <1>4 DEF Recheck, Ready, At, database
    <3>2. /\ loc'[p].pc = "unlink" /\ loc'[p].kind = l.kind
          /\ loc'[p].ws = w /\ loc'[p].cfg = l.cfg
          /\ loc'[p].after = l.after /\ loc'[p].todo = l.todo
          /\ loc'[p].rest = l.rest
      BY <1>0, <1>w, <2>1, GoProgress
    <3>3. Closing(w)' <=> Closing(w) BY <3>1 DEF Closing
    <3>4. Attached(w)' = Attached(w) BY <3>1 DEF Attached
    <3> QED BY <1>0, <1>w, <1>4, <3>1, <3>2, <3>3, <3>4
               DEF Recheck, At, Ready, Progress, AttachAlone, CloseProgress, Open,
                   Publishing, Recovering
  <2>2. CASE Go(p, "rollback")
    <3>1. w \in Workspace /\ UNCHANGED <<row, journal, retired>>
      BY <1>0, <1>w, <1>4 DEF Recheck, Ready, At, database
    <3>2. /\ loc'[p].pc = "rollback" /\ loc'[p].kind = l.kind
          /\ loc'[p].ws = w /\ loc'[p].cfg = l.cfg
          /\ loc'[p].after = l.after /\ loc'[p].todo = l.todo
          /\ loc'[p].rest = l.rest
      BY <1>0, <1>w, <2>2, GoProgress
    <3>3. Closing(w)' <=> Closing(w) BY <3>1 DEF Closing
    <3>4. Attached(w)' = Attached(w) BY <3>1 DEF Attached
    <3> QED BY <1>0, <1>w, <1>4, <3>1, <3>2, <3>3, <3>4
               DEF Recheck, At, Ready, Progress, AttachAlone, CloseProgress, Open,
                   Publishing, Recovering
  <2> QED BY <1>e, <1>4, <2>1, <2>2 DEF Recheck
<1>5. CASE UnlinkEmpty(p)
  <2>1. CASE Go(p, "rollback")
    <3>1. w \in Workspace /\ UNCHANGED <<row, journal, retired>>
      BY <1>0, <1>w, <1>5 DEF UnlinkEmpty, Ready, At, database
    <3>2. /\ loc'[p].pc = "rollback" /\ loc'[p].kind = l.kind
          /\ loc'[p].ws = w /\ loc'[p].cfg = l.cfg
          /\ loc'[p].after = l.after /\ loc'[p].todo = l.todo
          /\ loc'[p].rest = l.rest
      BY <1>0, <1>w, <2>1, GoProgress
    <3>3. Closing(w)' <=> Closing(w) BY <3>1 DEF Closing
    <3>4. Attached(w)' = Attached(w) BY <3>1 DEF Attached
    <3> QED BY <1>0, <1>w, <1>5, <3>1, <3>2, <3>3, <3>4
               DEF UnlinkEmpty, At, Ready, Progress, AttachAlone, CloseProgress, Open,
                   Publishing, Recovering
  <2>2. CASE Go(p, "markremove")
    <3>1. w \in Workspace /\ UNCHANGED <<row, journal, retired>>
      BY <1>0, <1>w, <1>5 DEF UnlinkEmpty, Ready, At, database
    <3>2. /\ loc'[p].pc = "markremove" /\ loc'[p].kind = l.kind
          /\ loc'[p].ws = w /\ loc'[p].cfg = l.cfg
          /\ loc'[p].after = l.after /\ loc'[p].todo = l.todo
          /\ loc'[p].rest = l.rest
      BY <1>0, <1>w, <2>2, GoProgress
    <3>3. Closing(w)' <=> Closing(w) BY <3>1 DEF Closing
    <3>4. Attached(w)' = Attached(w) BY <3>1 DEF Attached
    <3> QED BY <1>0, <1>w, <1>5, <3>1, <3>2, <3>3, <3>4
               DEF UnlinkEmpty, At, Ready, Progress, AttachAlone, CloseProgress, Open,
                   Publishing, Recovering
  <2> QED BY <1>e, <1>5, <2>1, <2>2 DEF UnlinkEmpty
<1>6. CASE Verify(p)
  <2>1. CASE Go(p, "complete")
    <3>1. w \in Workspace /\ UNCHANGED <<row, journal, retired>>
      BY <1>0, <1>w, <1>6 DEF Verify, Ready, At, database
    <3>2. /\ loc'[p].pc = "complete" /\ loc'[p].kind = l.kind
          /\ loc'[p].ws = w /\ loc'[p].cfg = l.cfg
          /\ loc'[p].after = l.after /\ loc'[p].todo = l.todo
          /\ loc'[p].rest = l.rest
      BY <1>0, <1>w, <2>1, GoProgress
    <3>3. Closing(w)' <=> Closing(w) BY <3>1 DEF Closing
    <3>4. Attached(w)' = Attached(w) BY <3>1 DEF Attached
    <3> QED BY <1>0, <1>w, <1>6, <3>1, <3>2, <3>3, <3>4
               DEF Verify, At, Ready, Progress, AttachAlone, CloseProgress, Open,
                   Publishing, Recovering
  <2>2. CASE Go(p, "rollback")
    <3>1. w \in Workspace /\ UNCHANGED <<row, journal, retired>>
      BY <1>0, <1>w, <1>6 DEF Verify, Ready, At, database
    <3>2. /\ loc'[p].pc = "rollback" /\ loc'[p].kind = l.kind
          /\ loc'[p].ws = w /\ loc'[p].cfg = l.cfg
          /\ loc'[p].after = l.after /\ loc'[p].todo = l.todo
          /\ loc'[p].rest = l.rest
      BY <1>0, <1>w, <2>2, GoProgress
    <3>3. Closing(w)' <=> Closing(w) BY <3>1 DEF Closing
    <3>4. Attached(w)' = Attached(w) BY <3>1 DEF Attached
    <3> QED BY <1>0, <1>w, <1>6, <3>1, <3>2, <3>3, <3>4
               DEF Verify, At, Ready, Progress, AttachAlone, CloseProgress, Open,
                   Publishing, Recovering
  <2> QED BY <1>e, <1>6, <2>1, <2>2 DEF Verify
<1>7. CASE Tidy(p)
  <2>1. CASE Go(p, "finish")
    <3>1. w \in Workspace /\ UNCHANGED <<row, journal, retired>>
      BY <1>0, <1>w, <1>7 DEF Tidy, Ready, At, database
    <3>2. /\ loc'[p].pc = "finish" /\ loc'[p].kind = l.kind
          /\ loc'[p].ws = w /\ loc'[p].cfg = l.cfg
          /\ loc'[p].after = l.after /\ loc'[p].todo = l.todo
          /\ loc'[p].rest = l.rest
      BY <1>0, <1>w, <2>1, GoProgress
    <3>3. Closing(w)' <=> Closing(w) BY <3>1 DEF Closing
    <3>4. Attached(w)' = Attached(w) BY <3>1 DEF Attached
    <3> QED BY <1>0, <1>w, <1>7, <3>1, <3>2, <3>3, <3>4
               DEF Tidy, At, Ready, Progress, AttachAlone, CloseProgress, Open, Publishing,
                   Recovering
  <2> QED BY <1>e, <1>7, <2>1 DEF Tidy
<1>8. CASE Undo(p)
  <2>1. CASE Go(p, "clean")
    <3>1. w \in Workspace /\ UNCHANGED <<row, journal, retired>>
      BY <1>0, <1>w, <1>8 DEF Undo, Ready, At, database
    <3>2. /\ loc'[p].pc = "clean" /\ loc'[p].kind = l.kind
          /\ loc'[p].ws = w /\ loc'[p].cfg = l.cfg
          /\ loc'[p].after = l.after /\ loc'[p].todo = l.todo
          /\ loc'[p].rest = l.rest
      BY <1>0, <1>w, <2>1, GoProgress
    <3>3. Closing(w)' <=> Closing(w) BY <3>1 DEF Closing
    <3>4. Attached(w)' = Attached(w) BY <3>1 DEF Attached
    <3> QED BY <1>0, <1>w, <1>8, <3>1, <3>2, <3>3, <3>4
               DEF Undo, At, Ready, Progress, AttachAlone, CloseProgress, Open, Publishing,
                   Recovering
  <2> QED BY <1>e, <1>8, <2>1 DEF Undo
<1>9. CASE Clean(p)
  <2>1. CASE Go(p, "forget")
    <3>1. w \in Workspace /\ UNCHANGED <<row, journal, retired>>
      BY <1>0, <1>w, <1>9 DEF Clean, Ready, At, database
    <3>2. /\ loc'[p].pc = "forget" /\ loc'[p].kind = l.kind
          /\ loc'[p].ws = w /\ loc'[p].cfg = l.cfg
          /\ loc'[p].after = l.after /\ loc'[p].todo = l.todo
          /\ loc'[p].rest = l.rest
      BY <1>0, <1>w, <2>1, GoProgress
    <3>3. Closing(w)' <=> Closing(w) BY <3>1 DEF Closing
    <3>4. Attached(w)' = Attached(w) BY <3>1 DEF Attached
    <3> QED BY <1>0, <1>w, <1>9, <3>1, <3>2, <3>3, <3>4
               DEF Clean, At, Ready, Progress, AttachAlone, CloseProgress, Open, Publishing,
                   Recovering
  <2> QED BY <1>e, <1>9, <2>1 DEF Clean
<1>10. CASE LockWorkspace(p)
  <2>1. CASE ~ End(p)
    <3>1. /\ loc'[p].pc = "pending" /\ loc'[p].kind = l.kind /\ loc'[p].ws = w
          /\ loc'[p].cfg = l.cfg /\ loc'[p].after = l.after /\ loc'[p].todo = l.todo
          /\ loc'[p].rest = l.rest
      BY <1>0, <1>w, <1>10, <2>1 DEF LockWorkspace, Local, Go
    <3>2. w \in Workspace BY <1>0, <1>w, <1>10 DEF LockWorkspace, Ready, At, Publishing
    <3> QED BY <1>0, <1>w, <1>d, <1>10, <3>1, <3>2, <2>1
               DEF LockWorkspace, At, Ready, Progress, AttachAlone, CloseProgress, Open,
                   Publishing, Recovering
  <2> QED BY <1>e, <2>1
<1>11. CASE ReadOverride(p)
  <2>1. CASE ~ End(p)
    <3>1. /\ loc'[p].pc = "stage" /\ loc'[p].kind = l.kind /\ loc'[p].ws = w
          /\ loc'[p].cfg = l.cfg /\ loc'[p].after = l.after /\ loc'[p].todo = l.todo
          /\ loc'[p].rest = l.rest
      BY <1>0, <1>w, <1>11, <2>1 DEF ReadOverride, Local, Go
    <3>2. w \in Workspace BY <1>0, <1>w, <1>11 DEF ReadOverride, Ready, At, Publishing
    <3> QED BY <1>0, <1>w, <1>d, <1>11, <3>1, <3>2, <2>1
               DEF ReadOverride, At, Ready, Progress, AttachAlone, CloseProgress, Open,
                   Publishing, Recovering
  <2> QED BY <1>e, <2>1
<1>12. CASE Stage(p)
  <2>1. /\ loc'[p].pc = "prepare" /\ loc'[p].kind = l.kind /\ loc'[p].ws = w
        /\ loc'[p].cfg = l.cfg /\ loc'[p].after = l.after /\ loc'[p].todo = l.todo
        /\ loc'[p].rest = l.rest
    BY <1>0, <1>w, <1>12 DEF Stage, Local, Go
  <2>2. w \in Workspace BY <1>0, <1>w, <1>12 DEF Stage, Ready, At, Publishing
  <2> QED BY <1>0, <1>w, <1>d, <1>12, <2>1, <2>2
             DEF Stage, At, Ready, Progress, AttachAlone, CloseProgress, Open, Publishing,
                 Recovering
<1>13. CASE Prepare(p)
  <2>1. /\ loc'[p].pc = "check" /\ loc'[p].kind = l.kind /\ loc'[p].ws = w
        /\ loc'[p].cfg = l.cfg /\ loc'[p].after = l.after /\ loc'[p].todo = l.todo
        /\ loc'[p].rest = l.rest
    BY <1>0, <1>w, <1>13 DEF Prepare, Local, Go
  <2>2. w \in Workspace BY <1>0, <1>w, <1>13 DEF Prepare, Ready, At, Publishing
  <2> QED BY <1>0, <1>w, <1>d, <1>13, <2>1, <2>2
             DEF Prepare, At, Ready, Progress, AttachAlone, CloseProgress, Open, Publishing,
                 Recovering
<1>14. CASE MarkRemoved(p)
  <2>1. /\ loc'[p].pc = "verify" /\ loc'[p].kind = l.kind /\ loc'[p].ws = w
        /\ loc'[p].cfg = l.cfg /\ loc'[p].after = l.after /\ loc'[p].todo = l.todo
        /\ loc'[p].rest = l.rest
    BY <1>0, <1>w, <1>14 DEF MarkRemoved, Local, Go
  <2>2. w \in Workspace BY <1>0, <1>w, <1>14 DEF MarkRemoved, Ready, At, Publishing
  <2> QED BY <1>0, <1>w, <1>d, <1>14, <2>1, <2>2
             DEF MarkRemoved, At, Ready, Progress, AttachAlone, CloseProgress, Open,
                 Publishing, Recovering
<1>15. CASE Retire(p)
  <2> QED BY <1>e, <1>15 DEF Retire
<1>16. CASE Crash(p)
  <2> QED BY <1>e, <1>16 DEF Crash
<1>17. CASE MarkPublished(p)
  <2>o. PICK op : op = [l.op EXCEPT !.published = TRUE, !.phase = "published"] OBVIOUS
  <2>0. PICK x \in {"recheck", "verify"} : loc' = [loc EXCEPT ![p].pc = x, ![p].op = op]
    BY <1>17, <2>o DEF MarkPublished
  <2>1. /\ loc'[p].pc = x /\ loc'[p].kind = l.kind /\ loc'[p].ws = w
        /\ loc'[p].cfg = l.cfg /\ loc'[p].after = l.after /\ loc'[p].todo = l.todo
        /\ loc'[p].rest = l.rest
    BY <1>0, <1>w, <1>17, <2>0 DEF MarkPublished, Local, Go
  <2>2. w \in Workspace BY <1>0, <1>w, <1>17 DEF MarkPublished, Ready, At, Publishing
  <2>3. l.pc = "mark" /\ AttachAlone(l) /\ CloseProgress(l) /\ Open(l)
    BY <1>0, <1>17 DEF MarkPublished, At, Progress
  <2>4. /\ Closing(w)' => Closing(w)
        /\ Attached(w)' \subseteq Attached(w)
        /\ w \in retired' => w \in retired
    BY <1>d, <2>2, <2>3
  <2>5. AttachAlone(loc[p])' BY <1>w, <2>1, <2>3, <2>4 DEF AttachAlone, Publishing
  <2>6. CloseProgress(loc[p])'
    BY <1>w, <2>1, <2>3, <2>4 DEF CloseProgress, Publishing, Recovering
  <2>7. Open(loc[p])' BY <1>w, <2>1, <2>3, <2>4 DEF Open
  <2> QED BY <2>5, <2>6, <2>7 DEF Progress
<1>18. CASE LockDetach(p)
  <2>1. CASE ~ End(p)
    <3>1. loc'[p].pc = "pending" /\ loc'[p].kind = "detach"
      BY <1>0, <1>18, <2>1 DEF LockDetach, Local
    <3> QED BY <3>1 DEF Progress, AttachAlone, CloseProgress, Open, Publishing, Recovering
  <2> QED BY <1>e, <2>1
<1>19. CASE Rollback(p)
  <2>1. CASE ~ End(p)
    <3>1. /\ loc'[p].pc = "recover" /\ loc'[p].after = "idle" /\ loc'[p].kind = l.kind
          /\ loc'[p].ws = w
      BY <1>0, <1>w, <1>19, <2>1 DEF Rollback, Local
    <3>2. w \in Workspace BY <1>0, <1>w, <1>19 DEF Rollback, Ready, At, Publishing
    <3> QED BY <1>0, <1>w, <1>d, <1>19, <3>1, <3>2
               DEF Rollback, At, Progress, AttachAlone, CloseProgress, Open, Publishing,
                   Recovering
  <2> QED BY <1>e, <2>1
<1>20. CASE Forget(p)
  <2>0. l.todo \in Seq(Operation) /\ l.todo # <<>>
    BY <1>0, <1>20 DEF Forget, At, Ready, Local
  <2>1. /\ loc'[p].pc = "recover" /\ loc'[p].kind = l.kind /\ loc'[p].ws = w
        /\ loc'[p].cfg = l.cfg /\ loc'[p].after = l.after /\ loc'[p].todo = Tail(l.todo)
        /\ loc'[p].rest = l.rest
    BY <1>0, <1>w, <1>20 DEF Forget, Local, Go
  <2>2. w \in Workspace BY <1>0, <1>w, <1>20 DEF Forget, Ready, At
  <2> QED BY <1>0, <1>w, <1>d, <1>20, <2>1, <2>2
             DEF Forget, At, Ready, Progress, AttachAlone, CloseProgress, Open, Publishing,
                 Recovering
<1>21. CASE Recover(p)
  <2>0. w \in Workspace BY <1>0, <1>w, <1>21 DEF Recover, Ready, At
  <2>1. CASE l.todo = <<>> /\ l.after # "idle" /\ Go(p, l.after)
    <3>1. /\ loc'[p].pc = l.after /\ loc'[p].kind = l.kind /\ loc'[p].ws = w
          /\ loc'[p].cfg = l.cfg /\ loc'[p].after = l.after /\ loc'[p].todo = l.todo
          /\ loc'[p].rest = l.rest
      BY <1>0, <1>w, <1>21, <2>1 DEF Recover, Local, Go
    <3>2. ~ HasClose(l.todo) BY <2>1, EmptySeq DEF HasClose, Range
    <3> QED BY <1>0, <1>w, <1>d, <1>21, <2>0, <2>1, <3>1, <3>2
               DEF Recover, At, Ready, AfterRecovery, Progress, AttachAlone, CloseProgress,
                   Open, Publishing, Recovering
  <2>2. CASE l.todo # <<>> /\ Go(p, RecoveryOf(p)) /\ ~ Unrecoverable(Item(p))
    <3>0. RecoveryOf(p) \in {"undo", "clean", "forget"} BY DEF RecoveryOf
    <3>1. /\ loc'[p].pc = RecoveryOf(p) /\ loc'[p].kind = l.kind /\ loc'[p].ws = w
          /\ loc'[p].cfg = l.cfg /\ loc'[p].after = l.after /\ loc'[p].todo = l.todo
          /\ loc'[p].rest = l.rest
      BY <1>0, <1>w, <1>21, <2>2 DEF Recover, Local, Go
    <3>2. HasClose(l.todo) => HasClose(Tail(l.todo))
      <4>1. l.todo \in Seq(Operation) BY <1>0 DEF Local
      <4>2. Range(l.todo) = {Head(l.todo)} \cup Range(Tail(l.todo))
        BY <2>2, <4>1, HeadAndTail
      <4> QED BY <2>2, <4>2 DEF HasClose, Unrecoverable, Item
    <3> QED BY <1>0, <1>w, <1>d, <1>21, <2>0, <2>2, <3>0, <3>1, <3>2
               DEF Recover, At, Ready, Progress, AttachAlone, CloseProgress, Open,
                   Publishing, Recovering
  <2> QED BY <1>e, <1>21, <2>1, <2>2 DEF Recover
<1>22. CASE Finish(p)
  <2>1. CASE l.kind = "close"
    <3>1. /\ loc'[p].pc = "next" /\ loc'[p].kind = l.kind /\ loc'[p].ws = w
          /\ loc'[p].cfg = l.cfg /\ loc'[p].after = l.after /\ loc'[p].todo = l.todo
          /\ loc'[p].rest = l.rest
      BY <1>0, <1>w, <1>22, <2>1 DEF Finish, Local, Go
    <3>2. w \in Workspace BY <1>0, <1>w, <1>22 DEF Finish, Ready, At
    <3> QED BY <1>0, <1>w, <1>d, <1>22, <3>1, <3>2, <2>1
               DEF Finish, At, Ready, Progress, AttachAlone, CloseProgress, Open,
                   Publishing, Recovering
  <2> QED BY <1>e, <1>22, <2>1 DEF Finish
<1>23. CASE SaveClose(p)
  <2>1. /\ loc'[p].pc = "retire" /\ loc'[p].kind = l.kind /\ loc'[p].ws = w
        /\ loc'[p].cfg = l.cfg /\ loc'[p].after = l.after /\ loc'[p].todo = l.todo
        /\ loc'[p].rest = l.rest
    BY <1>0, <1>w, <1>23 DEF SaveClose, Local, Go
  <2>2. w \in Workspace BY <1>0, <1>w, <1>23 DEF SaveClose, Ready, At
  <2> QED BY <1>0, <1>w, <1>d, <1>23, <2>1, <2>2
             DEF SaveClose, At, Ready, Progress, AttachAlone, CloseProgress, Open,
                 Publishing, Recovering
<1>24. CASE Preflight(p)
  <2>1. CASE ~ End(p)
    <3>1. /\ loc'[p].pc = "next" /\ loc'[p].kind = l.kind /\ loc'[p].ws = w
          /\ loc'[p].cfg = l.cfg /\ loc'[p].after = l.after /\ loc'[p].todo = l.todo
          /\ loc'[p].rest = Attached(w)
      BY <1>0, <1>w, <1>24, <2>1 DEF Preflight, Local, Go
    <3>2. w \in Workspace BY <1>0, <1>w, <1>24 DEF Preflight, Ready, At
    <3>3. \A cp \in Attached(w) : cp[2] = PackageOf[w]
      BY <1>0 DEF Attached, RowsOfPackage, TypeOK
    <3> QED BY <1>0, <1>w, <1>d, <1>24, <3>1, <3>2, <3>3
               DEF Preflight, At, Ready, Progress, AttachAlone, CloseProgress, Open,
                   Publishing, Recovering
  <2> QED BY <1>e, <2>1
<1>25. CASE DetachNext(p)
  <2>0. w \in Workspace BY <1>0, <1>w, <1>25 DEF DetachNext, Ready, At
  <2>1. CASE l.rest = {}
    <3>1. /\ loc'[p].pc = "saveclose" /\ loc'[p].kind = l.kind /\ loc'[p].ws = w
          /\ loc'[p].cfg = l.cfg /\ loc'[p].after = l.after /\ loc'[p].todo = l.todo
          /\ loc'[p].rest = l.rest
      BY <1>0, <1>w, <1>25, <2>1 DEF DetachNext, Local, Go
    <3> QED BY <1>0, <1>w, <1>d, <1>25, <2>0, <2>1, <3>1
               DEF DetachNext, At, Ready, Progress, AttachAlone, CloseProgress, Open,
                   Publishing, Recovering
  <2>2. CASE l.rest # {}
    <3>0. PICK cp \in l.rest, x \in {"next", "pending"} :
             /\ row[cp] = None <=> x = "next"
             /\ loc' = [loc EXCEPT ![p].rest = @ \ {cp}, ![p].cfg = cp[1], ![p].att = row[cp],
                                   ![p].after = "read", ![p].pc = x]
      BY <2>2, <1>25 DEF DetachNext
    <3>1. /\ loc'[p].pc = x /\ loc'[p].kind = l.kind /\ loc'[p].ws = w
          /\ loc'[p].cfg = cp[1] /\ loc'[p].after = "read" /\ loc'[p].todo = l.todo
          /\ loc'[p].rest = l.rest \ {cp}
      BY <1>0, <1>w, <1>25, <3>0 DEF DetachNext, Local, Go
    <3>2. cp \in Cell BY <1>0 DEF Local
    <3>3. l.kind = "close" BY <1>0, <1>25 DEF DetachNext, At, Ready
    <3>5. cp[2] = PackageOf[w]
      BY <1>0, <1>w, <3>3, <1>25
         DEF DetachNext, At, Progress, AttachAlone, CloseProgress, Open, Publishing,
             Recovering
    <3>6. cp = <<cp[1], PackageOf[w]>> BY <3>2, <3>5 DEF Cell
    <3>7. /\ \A c \in l.rest : c[2] = PackageOf[w]
          /\ Attached(w) \subseteq l.rest /\ Attached(w)' \subseteq Attached(w)
          /\ w \notin retired'
      BY <1>0, <1>w, <1>d, <2>0, <3>3, <1>25
         DEF DetachNext, At, Progress, AttachAlone, CloseProgress, Open, Publishing,
             Recovering
    <3>4. row[cp] = None => cp \notin Attached(w) BY DEF Attached
    <3>8. CASE x = "next"
      <4>1. Attached(w)' \subseteq l.rest \ {cp} BY <3>0, <3>4, <3>7, <3>8
      <4> QED BY <3>1, <3>3, <3>7, <3>8, <4>1
                 DEF Progress, AttachAlone, CloseProgress, Open, Publishing, Recovering
    <3>9. CASE x = "pending"
      <4>1. Attached(w)' \subseteq (l.rest \ {cp}) \cup {<<cp[1], PackageOf[w]>>}
        BY <3>6, <3>7
      <4> QED BY <3>1, <3>3, <3>7, <3>9, <4>1
                 DEF Progress, AttachAlone, CloseProgress, Open, Publishing, Recovering
    <3> QED BY <3>0, <3>8, <3>9
  <2> QED BY <2>1, <2>2
<1>26. CASE CompleteAttachment(p)
  <2>0. w \in Workspace BY <1>0, <1>w, <1>26 DEF CompleteAttachment, Ready, At, Publishing
  <2>1. CASE Go(p, "rollback")
    <3>1. /\ loc'[p].pc = "rollback" /\ loc'[p].kind = l.kind /\ loc'[p].ws = w
          /\ loc'[p].cfg = l.cfg /\ loc'[p].after = l.after /\ loc'[p].todo = l.todo
          /\ loc'[p].rest = l.rest
      BY <1>0, <1>w, <1>26, <2>1 DEF CompleteAttachment, Local, Go
    <3> QED BY <1>0, <1>w, <1>d, <1>26, <2>0, <3>1
               DEF CompleteAttachment, At, Ready, Progress, AttachAlone, CloseProgress,
                   Open, Publishing, Recovering
  <2>2. CASE Go(p, "tidy") /\ ~ Go(p, "rollback")
    <3>1. /\ loc'[p].pc = "tidy" /\ loc'[p].kind = l.kind /\ loc'[p].ws = w
          /\ loc'[p].cfg = l.cfg /\ loc'[p].after = l.after /\ loc'[p].todo = l.todo
          /\ loc'[p].rest = l.rest
      BY <1>0, <1>w, <1>26, <2>2 DEF CompleteAttachment, Local, Go
    <3>2. l.kind = "close" => Attached(w)' \subseteq l.rest
      <4>1. ASSUME l.kind = "close" PROVE row' = [row EXCEPT ![<<l.cfg, PackageOf[w]>>] = None]
        BY <1>w, <1>26, <2>2, <4>1 DEF CompleteAttachment, StepKind, Pkg
      <4>2. ASSUME l.kind = "close" PROVE Attached(w) \subseteq l.rest \cup {<<l.cfg, PackageOf[w]>>}
        BY <1>0, <1>w, <1>26, <4>2
           DEF CompleteAttachment, At, Progress, AttachAlone, CloseProgress, Open,
               Publishing, Recovering
      <4> QED BY <1>0, <4>1, <4>2 DEF Attached, TypeOK
    <3>3. (w \in retired' => w \in retired) /\ (Closing(w)' => Closing(w))
      BY <1>d, <2>0, <1>26 DEF CompleteAttachment, At
    <3> QED BY <1>0, <1>w, <1>26, <2>0, <3>1, <3>2, <3>3
               DEF CompleteAttachment, At, Ready, Progress, AttachAlone, CloseProgress,
                   Open, Publishing, Recovering
  <2> QED BY <1>26, <2>1, <2>2 DEF CompleteAttachment
<1>27. CASE Pending(p)
  <2> DEFINE log == journal[l.ws]
             closes == {i \in DOMAIN log : log[i].kind = "close"}
  <2>0. w \in Workspace /\ log \in Seq(Operation)
    BY <1>0, <1>w, <1>27 DEF Pending, Ready, At, TypeOK
  <2>1. CASE OwnRecovery(p) /\ closes = {}
    <3>0. loc' = [loc EXCEPT ![p].pc = "recover", ![p].todo = log, ![p].after = "preflight"]
      BY <1>27, <2>1 DEF Pending
    <3>1. /\ loc'[p].pc = "recover" /\ loc'[p].kind = l.kind /\ loc'[p].ws = w
          /\ loc'[p].cfg = l.cfg /\ loc'[p].after = "preflight" /\ loc'[p].todo = log
          /\ loc'[p].rest = l.rest
      BY <1>0, <1>w, <1>27, <3>0 DEF Pending, Local, Go
    <3> QED BY <1>0, <1>w, <1>d, <1>27, <2>0, <2>1, <3>1
               DEF OwnRecovery, Pending, At, Progress, AttachAlone, CloseProgress, Open,
                   Publishing, Recovering
  <2>2. CASE OwnRecovery(p) /\ closes # {}
    <3>0. loc' = [loc EXCEPT ![p].pc = "recover", ![p].todo = RemoveAt(log, Min(closes)),
                             ![p].op = log[Min(closes)], ![p].after = "retire"]
      BY <1>27, <2>2 DEF Pending
    <3>1. /\ loc'[p].pc = "recover" /\ loc'[p].kind = l.kind /\ loc'[p].ws = w
          /\ loc'[p].cfg = l.cfg /\ loc'[p].after = "retire"
          /\ loc'[p].todo = RemoveAt(log, Min(closes)) /\ loc'[p].rest = l.rest
      BY <1>0, <1>w, <1>27, <3>0 DEF Pending, Local, Go
    <3>2. Closing(w) BY <1>w, <2>2 DEF Closing, HasClose, Range
    <3>3. Attached(w) = {} BY <1>0, <2>0, <3>2 DEF ClosingDetached
    <3> QED BY <1>0, <1>w, <1>d, <1>27, <2>0, <2>2, <3>1, <3>3
               DEF OwnRecovery, Pending, At, Progress, AttachAlone, CloseProgress, Open,
                   Publishing, Recovering
  <2>3. CASE ~ OwnRecovery(p)
    <3>0. loc' = [loc EXCEPT ![p].pc = "recover", ![p].todo = log]
      BY <1>27, <2>3 DEF Pending
    <3>1. /\ loc'[p].pc = "recover" /\ loc'[p].kind = l.kind /\ loc'[p].ws = w
          /\ loc'[p].cfg = l.cfg /\ loc'[p].after = l.after /\ loc'[p].todo = log
          /\ loc'[p].rest = l.rest
      BY <1>0, <1>w, <1>27, <3>0 DEF Pending, Local, Go
    <3>2. Closing(w) => HasClose(log) BY <1>w DEF Closing
    <3> QED BY <1>0, <1>w, <1>d, <1>27, <2>0, <2>3, <3>1, <3>2
               DEF OwnRecovery, Pending, At, Ready, AfterRecovery, Progress, AttachAlone,
                   CloseProgress, Open, Publishing, Recovering
  <2> QED BY <2>1, <2>2, <2>3
<1> QED BY <1>1, <1>2, <1>3, <1>4, <1>5, <1>6, <1>7, <1>8, <1>9, <1>10, <1>11, <1>12, <1>13,
           <1>14, <1>15, <1>16, <1>17, <1>18, <1>19, <1>20, <1>21, <1>22, <1>23, <1>24,
           <1>25, <1>26, <1>27
           DEF Step

LEMMA RegistryInvStep == ASSUME RegistryInv, [Next]_vars PROVE RegistryInv'
<1>1. CASE UNCHANGED vars
  BY <1>1, StructureStep
     DEF RegistryInv, Locks, Running, RowsOfPackage, ClosingDetached, Closing, Attached,
         Progress, AttachAlone, CloseProgress, Open, vars, database
<1>2. CASE \E p \in Proc : BeginSome(p) \/ Step(p) \/ Crash(p)
  <2>0. PICK p \in Proc : BeginSome(p) \/ Step(p) \/ Crash(p) BY <1>2
  <2>a. StructureInv /\ StructureInv' /\ Locks' /\ Stepped(p)
    BY <2>0, TypesStep, LocksStep, LocalsStep DEF RegistryInv
  <2>b. /\ loc[p] \in Local /\ Ready(loc[p], loc[p].pc)
        /\ row \in [Cell -> Attachment \cup {None}]
    BY <2>a DEF StructureInv, Presence, TypeOK
  <2>1. RowsOfPackage'
    <3>1. CASE CompleteAttachment(p)
      <4> DEFINE l == loc[p]
                 new == [ws |-> l.ws, id |-> l.op.id, created |-> l.orig = NoFile, prior |-> l.seen]
                 cp == <<l.cfg, PackageOf[l.ws]>>
      <4>1. row' = row \/ row' = [row EXCEPT ![cp] = new] \/ row' = [row EXCEPT ![cp] = None]
        BY <3>1 DEF CompleteAttachment, Pkg
      <4>2. new.ws = l.ws /\ cp[2] = PackageOf[l.ws] OBVIOUS
      <4> HIDE DEF new, cp
      <4> QED BY <2>b, <4>1, <4>2 DEF RegistryInv, RowsOfPackage
    <3>2. CASE UNCHANGED row BY <3>2 DEF RegistryInv, RowsOfPackage
    <3> QED BY <2>0, <3>1, <3>2, Frames
  <2>2. ASSUME NEW w \in Workspace, Closing(w)' PROVE Attached(w)' = {}
    <3>0. /\ \/ Closing(w)' => Closing(w)
             \/ SaveClose(p) /\ loc[p].ws = w
          /\ \/ Attached(w)' \subseteq Attached(w)
             \/ CompleteAttachment(p) /\ loc[p].kind = "attach" /\ loc[p].ws = w
      BY <2>0, <2>a, Changes
    <3>1. CASE SaveClose(p) /\ loc[p].ws = w
      <4>1. Attached(w) = {}
        BY <2>b, <3>1 DEF SaveClose, At, Ready, RegistryInv, Progress, CloseProgress
      <4>2. row' = row BY <3>1 DEF SaveClose
      <4> QED BY <4>1, <4>2 DEF Attached
    <3>2. CASE Closing(w) /\ Attached(w)' \subseteq Attached(w)
      BY <3>2 DEF RegistryInv, ClosingDetached
    <3>3. CASE Closing(w) /\ CompleteAttachment(p) /\ loc[p].kind = "attach" /\ loc[p].ws = w
      BY <3>3 DEF CompleteAttachment, At, RegistryInv, Progress, AttachAlone, Publishing
    <3> QED BY <2>2, <3>0, <3>1, <3>2, <3>3
  <2>3. ASSUME NEW q \in Proc PROVE Progress(loc[q])'
    <3>1. CASE q # p BY <2>0, <3>1, OthersProgress
    <3>2. CASE q = p /\ BeginSome(p)
      <4>0. loc \in [Proc -> Local] BY <2>a DEF StructureInv, TypeOK
      <4>b. ASSUME NEW kind, NEW w, NEW c, NEW pkg, NEW keys, Begin(p, kind, w, c, pkg, keys)
            PROVE  loc'[p].pc = "locking"
        BY <4>0, <4>b DEF Begin, Idle
      <4>1. loc'[p].pc = "locking"
        BY <3>2, <4>b DEF BeginSome, BeginAttach, BeginDetach, BeginClose
      <4> QED BY <3>2, <4>1
                 DEF Progress, AttachAlone, CloseProgress, Open, Publishing, Recovering
    <3>3. CASE q = p /\ ~ BeginSome(p) BY <2>0, <3>3, OwnProgress
    <3> QED BY <3>1, <3>2, <3>3
  <2> QED BY <2>a, <2>1, <2>2, <2>3 DEF RegistryInv, ClosingDetached
<1> QED BY <1>1, <1>2 DEF Next, Quiet

LEMMA RegistryInvInit == ASSUME Init PROVE RegistryInv
<1>1. StructureInv BY StructureInit
<1>2. \A q \in Proc : loc[q] = Idle BY DEF Init
<1>3. Locks /\ \A q \in Proc : Progress(loc[q])
  BY <1>2 DEF Idle, Locks, Running, Progress, AttachAlone, CloseProgress, Open,
              Publishing, Recovering
<1>4. RowsOfPackage /\ \A w \in Workspace : Attached(w) = {}
  BY DEF Init, RowsOfPackage, Attached
<1> QED BY <1>1, <1>3, <1>4 DEF RegistryInv, ClosingDetached

\* Attaching, detaching and closing, with their journal, recovery, locks and
\* kills, do to the tables what AttachmentRegistry says: an attach takes a free
\* package for an open workspace, nothing but detaching frees it, and
\* close_workspace retires a workspace only when no row refers to it.
THEOREM TablesAreARegistry == Spec => ImplementsRegistry
<1>1. ASSUME Init PROVE Registry!Init
  BY <1>1 DEF Init, Registry!Init, Cell
<1>2. ASSUME RegistryInv, [Next]_vars PROVE [Registry!Next]_(Registry!registry)
  <2> DEFINE holder == [cp \in DOMAIN row |-> IF row[cp] = None THEN None ELSE row[cp].ws]
  <2>1. CASE UNCHANGED <<row, retired>> BY <2>1 DEF Registry!registry
  <2>2. CASE ~ UNCHANGED <<row, retired>>
    <3>0. PICK p \in Proc : BeginSome(p) \/ Step(p) \/ Crash(p)
      BY <1>2, <2>2 DEF Next, Quiet, vars, database
    <3>a. /\ loc[p] \in Local /\ Ready(loc[p], loc[p].pc) /\ Progress(loc[p])
          /\ row \in [Cell -> Attachment \cup {None}]
      BY <1>2 DEF RegistryInv, StructureInv, Presence, TypeOK
    <3> DEFINE l == loc[p]
               new == [ws |-> l.ws, id |-> l.op.id, created |-> l.orig = NoFile, prior |-> l.seen]
               pkg == PackageOf[l.ws]
    <3>1. CASE CompleteAttachment(p)
      <4>0. /\ l.ws \in Workspace /\ l.cfg \in Config /\ pkg \in Package
            /\ l.op \in Operation
        BY <3>1, <3>a, AttachmentAssumption DEF CompleteAttachment, At, Ready, Publishing
      <4>1. /\ UNCHANGED retired
            /\ \/ row' = row
               \/ /\ row' = [row EXCEPT ![<<l.cfg, pkg>>] = new]
                  /\ row[<<l.cfg, pkg>>] = None /\ l.kind = "attach"
               \/ row' = [row EXCEPT ![<<l.cfg, pkg>>] = None]
        BY <3>1 DEF CompleteAttachment, Pkg, StepKind
      <4>2. new \in Attachment BY <3>a, <4>0 DEF Attachment, Operation, Local
      <4>3. new # None /\ new.ws = l.ws BY <4>2, AbsentAssumption
      <4> HIDE DEF new
      <4>c. <<l.cfg, pkg>> \in Cell BY <4>0 DEF Cell
      <4>4. CASE row' = [row EXCEPT ![<<l.cfg, pkg>>] = new]
                 /\ row[<<l.cfg, pkg>>] = None /\ l.kind = "attach"
        <5>0. PICK c \in Config, k \in Package, w \in Workspace : c = l.cfg /\ k = pkg /\ w = l.ws
          BY <4>0
        <5>1. w \notin retired /\ PackageOf[w] = k
          BY <3>1, <3>a, <4>4, <5>0 DEF CompleteAttachment, At, Progress, Open
        <5>2. holder' = [holder EXCEPT ![<<c, k>>] = w] BY <3>a, <4>3, <4>4, <4>c, <5>0
        <5>3. holder[<<c, k>>] = None BY <3>a, <4>4, <4>c, <5>0
        <5>4. Registry!Attach(c, k, w) BY <4>1, <5>1, <5>2, <5>3 DEF Registry!Attach
        <5> QED BY <5>4 DEF Registry!Next
      <4>5. CASE row' = [row EXCEPT ![<<l.cfg, pkg>>] = None]
        <5>0. PICK c \in Config, k \in Package : c = l.cfg /\ k = pkg BY <4>0
        <5>1. holder' = [holder EXCEPT ![<<c, k>>] = None] BY <3>a, <4>5, <4>c, <5>0
        <5>2. Registry!Detach(c, k) BY <4>1, <5>1 DEF Registry!Detach
        <5> QED BY <5>2 DEF Registry!Next
      <4> QED BY <2>2, <4>1, <4>4, <4>5
    <3>2. CASE Retire(p)
      <4>1. l.ws \in Workspace /\ Attached(l.ws) = {}
        BY <3>2, <3>a DEF Retire, At, Ready, Progress, CloseProgress
      <4>2. retired' = retired \cup {l.ws} /\ row' = row BY <3>2 DEF Retire
      <4>3. \A cp \in Config \X Package : holder[cp] # l.ws
        <5>1. \A cp \in Cell : row[cp] # None => row[cp].ws # l.ws
          BY <3>a, <4>1 DEF Attached
        <5> QED BY <3>a, <4>1, <5>1, AttachmentAssumption DEF Cell
      <4>4. Registry!Close(l.ws) BY <4>2, <4>3 DEF Registry!Close
      <4> QED BY <4>1, <4>4 DEF Registry!Next
    <3> QED BY <2>2, <3>0, <3>1, <3>2, Frames
  <2> QED BY <2>1, <2>2
<1>3. Spec => []RegistryInv BY RegistryInvInit, RegistryInvStep, PTL DEF Spec
<1> QED BY <1>1, <1>2, <1>3, PTL DEF Spec, ImplementsRegistry, Registry!Spec

-----------------------------------------------------------------------------
(* Human lines *)

LEMMA LinesOf ==
    /\ Lines(NoFile) = <<>>
    /\ \A s \in Seq(Line) : Lines(s) = s /\ s \in Content
BY ContentsAssumption DEF Lines, Content

LEMMA HumansType ==
    ASSUME NEW c \in Content PROVE Humans(c) \subseteq Nat /\ Humans(c) \subseteq DOMAIN Lines(c)
<1>1. Lines(c) \in Seq(Line) BY LinesType
<1>2. Len(Lines(c)) \in Nat /\ DOMAIN Lines(c) = 1 .. Len(Lines(c)) BY <1>1, LenProperties
<1> QED BY <1>2 DEF Humans, Places

\* To have the same human lines is an equivalence of contents.
LEMMA SameReflexive == ASSUME NEW c PROVE SameHumanLines(c, c)
<1> DEFINE f == [i \in Humans(c) |-> i]
<1>1. f \in [Humans(c) -> Humans(c)] OBVIOUS
<1>2. /\ \A i \in Humans(c) : Lines(c)[f[i]] = Lines(c)[i]
      /\ \A i, j \in Humans(c) : i < j => f[i] < f[j]
      /\ \A k \in Humans(c) : \E i \in Humans(c) : f[i] = k
  OBVIOUS
<1> QED BY <1>1, <1>2 DEF SameHumanLines

LEMMA SameSymmetric ==
    ASSUME NEW c \in Content, NEW d \in Content, SameHumanLines(c, d)
    PROVE  SameHumanLines(d, c)
<1>0. Humans(c) \subseteq Nat /\ Humans(d) \subseteq Nat BY HumansType
<1>1. PICK f \in [Humans(c) -> Humans(d)] :
        /\ \A i \in Humans(c) : Lines(d)[f[i]] = Lines(c)[i]
        /\ \A i, j \in Humans(c) : i < j => f[i] < f[j]
        /\ \A k \in Humans(d) : \E i \in Humans(c) : f[i] = k
  BY DEF SameHumanLines
<1> DEFINE g == [k \in Humans(d) |-> CHOOSE i \in Humans(c) : f[i] = k]
<1>2. \A k \in Humans(d) : g[k] \in Humans(c) /\ f[g[k]] = k BY <1>1
<1>3. g \in [Humans(d) -> Humans(c)] BY <1>2
<1> HIDE DEF g
<1>4. \A k \in Humans(d) : Lines(c)[g[k]] = Lines(d)[k] BY <1>1, <1>2
<1>5. ASSUME NEW k \in Humans(d), NEW m \in Humans(d), k < m PROVE g[k] < g[m]
  <2>1. g[k] \in Nat /\ g[m] \in Nat /\ k \in Nat /\ m \in Nat BY <1>0, <1>2
  <2>2. CASE g[m] < g[k]
    <3>1. m < k BY <1>1, <1>2, <2>2
    <3> QED BY <1>5, <2>1, <3>1
  <2>3. CASE g[m] = g[k]
    <3>1. m = k BY <1>2, <2>3
    <3> QED BY <1>5, <2>1, <3>1
  <2> QED BY <2>1, <2>2, <2>3
<1>6. ASSUME NEW i \in Humans(c) PROVE \E k \in Humans(d) : g[k] = i
  <2>1. f[i] \in Humans(d) BY <1>1
  <2>2. g[f[i]] \in Humans(c) /\ f[g[f[i]]] = f[i] BY <1>2, <2>1
  <2>3. i \in Nat /\ g[f[i]] \in Nat /\ f[i] \in Nat BY <1>0, <2>1, <2>2
  <2>4. ~ (i < g[f[i]])
    <3>1. i < g[f[i]] => f[i] < f[g[f[i]]] BY <1>1, <2>2
    <3> QED BY <2>2, <2>3, <3>1
  <2>5. ~ (g[f[i]] < i)
    <3>1. g[f[i]] < i => f[g[f[i]]] < f[i] BY <1>1, <2>2
    <3> QED BY <2>2, <2>3, <3>1
  <2>6. g[f[i]] = i BY <2>3, <2>4, <2>5
  <2> QED BY <2>1, <2>6
<1> QED BY <1>3, <1>4, <1>5, <1>6 DEF SameHumanLines

LEMMA SameTransitive ==
    ASSUME NEW c, NEW d, NEW e, SameHumanLines(c, d), SameHumanLines(d, e)
    PROVE  SameHumanLines(c, e)
<1>1. PICK f \in [Humans(c) -> Humans(d)] :
        /\ \A i \in Humans(c) : Lines(d)[f[i]] = Lines(c)[i]
        /\ \A i, j \in Humans(c) : i < j => f[i] < f[j]
        /\ \A k \in Humans(d) : \E i \in Humans(c) : f[i] = k
  BY DEF SameHumanLines
<1>2. PICK g \in [Humans(d) -> Humans(e)] :
        /\ \A i \in Humans(d) : Lines(e)[g[i]] = Lines(d)[i]
        /\ \A i, j \in Humans(d) : i < j => g[i] < g[j]
        /\ \A k \in Humans(e) : \E i \in Humans(d) : g[i] = k
  BY DEF SameHumanLines
<1> DEFINE h == [i \in Humans(c) |-> g[f[i]]]
<1>3. h \in [Humans(c) -> Humans(e)] BY <1>1, <1>2
<1>4. \A i \in Humans(c) : h[i] = g[f[i]] /\ f[i] \in Humans(d) BY <1>1
<1> HIDE DEF h
<1>5. \A i \in Humans(c) : Lines(e)[h[i]] = Lines(c)[i] BY <1>1, <1>2, <1>4
<1>6. \A i, j \in Humans(c) : i < j => h[i] < h[j] BY <1>1, <1>2, <1>4
<1>7. \A k \in Humans(e) : \E i \in Humans(c) : h[i] = k BY <1>1, <1>2, <1>4
<1> QED BY <1>3, <1>5, <1>6, <1>7 DEF SameHumanLines

\* Adding and removing a managed block keeps the human lines.
LEMMA AppendKeepsHumans ==
    ASSUME NEW c \in Content, NEW e \in Line, e.id # 0
    PROVE  SameHumanLines(c, Append(Lines(c), e))
<1> DEFINE s == Lines(c)
           t == Append(s, e)
<1>1. s \in Seq(Line) /\ Len(s) \in Nat /\ DOMAIN s = 1 .. Len(s)
  BY LinesType, LenProperties
<1>2. /\ t \in Seq(Line) /\ Len(t) = Len(s) + 1 /\ DOMAIN t = 1 .. Len(t)
      /\ \A i \in 1 .. Len(s) : t[i] = s[i]
      /\ t[Len(s) + 1] = e
  BY <1>1, AppendProperties, LenProperties
<1>3. Lines(t) = t BY <1>2, LinesOf
<1> HIDE DEF t
<1>4. Humans(t) = Humans(c)
  <2>1. ASSUME NEW i \in DOMAIN t, t[i].id = 0 PROVE i \in DOMAIN s /\ s[i].id = 0
    <3>1. i # Len(s) + 1 BY <1>2, <2>1
    <3>2. i \in 1 .. Len(s) BY <1>1, <1>2, <3>1
    <3> QED BY <1>1, <1>2, <2>1, <3>2
  <2>2. ASSUME NEW i \in DOMAIN s, s[i].id = 0 PROVE i \in DOMAIN t /\ t[i].id = 0
    BY <1>1, <1>2, <2>2
  <2> QED BY <1>3, <2>1, <2>2 DEF Humans, Places
<1> DEFINE f == [i \in Humans(c) |-> i]
<1>5. /\ f \in [Humans(c) -> Humans(t)]
      /\ \A i, j \in Humans(c) : i < j => f[i] < f[j]
      /\ \A k \in Humans(t) : \E i \in Humans(c) : f[i] = k
  BY <1>4
<1>6. \A i \in Humans(c) : Lines(t)[f[i]] = Lines(c)[i]
  BY <1>1, <1>2, <1>3 DEF Humans, Places
<1>7. SameHumanLines(c, t) BY <1>5, <1>6 DEF SameHumanLines
<1> QED BY <1>7 DEF t

LEMMA RemovedKeepsHumans ==
    ASSUME NEW c \in Content, NEW id \in Id
    PROVE  SameHumanLines(c, Removed(Lines(c), id))
<1> DEFINE s == Lines(c)
           m == Min(Places(s, id))
           t == Removed(s, id)
<1>1. s \in Seq(Line) /\ Len(s) \in Nat /\ DOMAIN s = 1 .. Len(s)
  BY LinesType, LenProperties
<1>2. t \in Seq(Line) /\ Lines(t) = t BY <1>1, RemovedProperties, LinesOf
<1>3. CASE Places(s, id) = {}
  <2>1. t = s BY <1>3 DEF Removed
  <2>2. Humans(t) = Humans(c) /\ Lines(t) = Lines(c) BY <1>2, <2>1 DEF Humans
  <2>3. SameHumanLines(c, t)
    <3>1. SameHumanLines(c, c) BY SameReflexive
    <3> QED BY <2>2, <3>1 DEF SameHumanLines
  <2> QED BY <2>3
<1>4. CASE Places(s, id) # {}
  <2>1. m \in DOMAIN s /\ s[m].id = id BY <1>1, <1>4, PlacesProperties
  <2>2. t = RemoveAt(s, m) BY <1>4 DEF Removed
  <2> HIDE DEF m
  <2>3. /\ Len(t) = Len(s) - 1 /\ DOMAIN t = 1 .. Len(s) - 1
        /\ \A k \in 1 .. Len(s) - 1 : t[k] = IF k < m THEN s[k] ELSE s[k + 1]
    BY <1>1, <1>2, <2>1, <2>2, RemoveAtProperties, LenProperties
  <2> HIDE DEF t
  <2>4. Humans(c) = {i \in 1 .. Len(s) : s[i].id = 0} BY <1>1 DEF Humans, Places
  <2>5. Humans(t) = {i \in 1 .. Len(s) - 1 : t[i].id = 0} BY <1>2, <2>3 DEF Humans, Places
  <2>6. m \in 1 .. Len(s) /\ m \notin Humans(c) BY <1>1, <2>1, <2>4 DEF Id
  <2> DEFINE f == [i \in Humans(c) |-> IF i < m THEN i ELSE i - 1]
  <2>7. ASSUME NEW i \in Humans(c) PROVE f[i] \in Humans(t) /\ t[f[i]] = s[i]
    <3>1. i \in 1 .. Len(s) /\ s[i].id = 0 /\ i # m BY <2>4, <2>6
    <3>2. CASE i < m
      <4>1. i \in 1 .. Len(s) - 1 /\ t[i] = s[i] BY <1>1, <2>3, <2>6, <3>1, <3>2
      <4> QED BY <2>5, <3>1, <3>2, <4>1
    <3>3. CASE ~ (i < m)
      <4>1. i - 1 \in 1 .. Len(s) - 1 /\ ~ (i - 1 < m) /\ (i - 1) + 1 = i
        BY <1>1, <2>6, <3>1, <3>3
      <4>2. t[i - 1] = s[i] BY <2>3, <4>1
      <4> QED BY <2>5, <3>1, <3>3, <4>1, <4>2
    <3> QED BY <3>2, <3>3
  <2>8. f \in [Humans(c) -> Humans(t)] BY <2>7
  <2>9. ASSUME NEW i \in Humans(c), NEW j \in Humans(c), i < j PROVE f[i] < f[j]
    BY <1>1, <2>4, <2>6, <2>9
  <2>10. ASSUME NEW k \in Humans(t) PROVE \E i \in Humans(c) : f[i] = k
    <3>1. k \in 1 .. Len(s) - 1 /\ t[k].id = 0 BY <2>5
    <3>2. CASE k < m
      <4>1. k \in Humans(c) BY <1>1, <2>3, <2>4, <3>1, <3>2
      <4> QED BY <3>2, <4>1
    <3>3. CASE ~ (k < m)
      <4>1. k + 1 \in Humans(c) BY <1>1, <2>3, <2>4, <3>1, <3>3
      <4>2. ~ (k + 1 < m) /\ (k + 1) - 1 = k BY <1>1, <2>6, <3>1, <3>3
      <4> QED BY <4>1, <4>2
    <3> QED BY <3>2, <3>3
  <2>11. \A i \in Humans(c) : Lines(t)[f[i]] = Lines(c)[i] BY <1>2, <2>7
  <2> HIDE DEF f
  <2>12. SameHumanLines(c, t) BY <2>8, <2>9, <2>10, <2>11 DEF SameHumanLines
  <2> QED BY <2>12 DEF t
<1> QED BY <1>3, <1>4

LEMMA NoHumans == SameHumanLines(NoFile, <<>>)
<1>1. Lines(NoFile) = <<>> /\ Lines(<<>>) = <<>> BY EmptySeq, LinesOf
<1>2. Humans(NoFile) = {} /\ Humans(<<>>) = {} BY <1>1 DEF Humans, Places
<1> DEFINE f == [i \in {} |-> i]
<1>3. f \in [Humans(NoFile) -> Humans(<<>>)] BY <1>2
<1> QED BY <1>2, <1>3 DEF SameHumanLines

\* What an operation may yet put in the place of its file, by publishing its
\* content or by restoring what it found, has the human lines the file has now.
Faithful(op) ==
    /\ op.id <= issued
    /\ op.kind # "close" =>
          /\ SameHumanLines(op.new, file[op.cfg])
          /\ ~ op.backed => SameHumanLines(NoFile, file[op.cfg])
          /\ op.id \in DOMAIN backup => SameHumanLines(backup[op.id], file[op.cfg])

\* The same for everything a process with the locals l may publish or restore.
HumansSafe(l) ==
    /\ \A op \in Range(l.todo) : Faithful(op)
    /\ l.pc \in Publishing => Faithful(l.op)
    /\ l.pc = "stage" => SameHumanLines(l.orig, file[l.cfg])
    /\ l.pc = "unlink" => SameHumanLines(NoFile, file[l.cfg])
    /\ l.pc = "undo" => Head(l.todo).kind # "close"

HumansInv ==
    /\ StructureInv
    /\ \A id \in DOMAIN backup : id <= issued
    /\ \A w \in Workspace : \A op \in Range(journal[w]) : Faithful(op)
    /\ \A q \in Proc : HumansSafe(loc[q])

\* Operations that publish or restore the same.
Like(op, other) ==
    /\ op.id = other.id /\ op.kind = other.kind /\ op.cfg = other.cfg
    /\ op.new = other.new /\ op.backed = other.backed

\* What the locals after a step are made from.
Handed(p) ==
    /\ Range(loc'[p].todo) \subseteq
          Range(loc[p].todo)
              \cup (IF loc[p].ws \in Workspace THEN Range(journal[loc[p].ws]) ELSE {})
    /\ loc'[p].pc \in Publishing =>
          Stage(p) \/ (loc[p].pc \in Publishing /\ Like(loc'[p].op, loc[p].op))
    /\ loc'[p].pc = "stage" =>
          ReadOverride(p) /\ loc'[p].orig = File(p) /\ loc'[p].cfg = loc[p].cfg
    /\ loc'[p].pc = "unlink" => Recheck(p) /\ File(p) = <<>> /\ loc'[p].cfg = loc[p].cfg
    /\ loc'[p].pc = "undo" =>
          Recover(p) /\ loc'[p].todo = loc[p].todo /\ Head(loc[p].todo).kind # "close"

LEMMA EndHanded == ASSUME loc \in [Proc -> Local], NEW p \in Proc, End(p) PROVE Handed(p)
<1>1. loc'[p] = Idle BY DEF End
<1>2. Range(Idle.todo) = {} /\ Idle.pc = "idle" BY EmptySeq DEF Idle, Range
<1> QED BY <1>1, <1>2 DEF Handed, Publishing

LEMMA GoHanded ==
    ASSUME loc \in [Proc -> Local], NEW p \in Proc, NEW x, Go(p, x),
           x \notin {"stage", "unlink", "undo"},
           x \in Publishing => loc[p].pc \in Publishing
    PROVE  Handed(p)
<1>1. /\ loc'[p].pc = x /\ loc'[p].todo = loc[p].todo /\ loc'[p].op = loc[p].op
      BY GoProgress
<1> QED BY <1>1 DEF Handed, Like

LEMMA RemoveAtRange ==
    ASSUME NEW S, NEW s \in Seq(S), NEW i \in DOMAIN s
    PROVE  Range(RemoveAt(s, i)) \subseteq Range(s)
<1>1. Len(s) \in Nat /\ DOMAIN s = 1 .. Len(s) BY LenProperties
<1>2. /\ RemoveAt(s, i) \in Seq(S)
      /\ Len(RemoveAt(s, i)) = Len(s) - 1
      /\ \A k \in 1 .. Len(s) - 1 : RemoveAt(s, i)[k] = IF k < i THEN s[k] ELSE s[k + 1]
  BY RemoveAtProperties
<1>3. DOMAIN RemoveAt(s, i) = 1 .. Len(s) - 1 BY <1>2, LenProperties
<1>4. \A k \in 1 .. Len(s) - 1 : RemoveAt(s, i)[k] \in Range(s) BY <1>1, <1>2 DEF Range
<1> QED BY <1>3, <1>4 DEF Range

LEMMA HandedStep ==
    ASSUME StructureInv, NEW p \in Proc, BeginSome(p) \/ Step(p) \/ Crash(p)
    PROVE  Handed(p)
<1> DEFINE l == loc[p]
<1>0. /\ loc \in [Proc -> Local] /\ l \in Local /\ Ready(l, l.pc)
      /\ journal \in [Workspace -> Seq(Operation)]
  BY DEF StructureInv, Presence, TypeOK
<1>op. Prepare(p) \/ MarkRemoved(p) => l.op \in Operation
  BY <1>0 DEF Prepare, MarkRemoved, At, Ready, Publishing
<1>1. CASE Undo(p)
  <2>1. Go(p, "clean") \/ End(p) BY <1>1 DEF Undo
  <2>2. ("clean" \in Publishing => l.pc \in Publishing)
    BY <1>1 DEF Undo, At, Publishing
  <2> QED BY <1>0, <2>1, <2>2, GoHanded, EndHanded
<1>2. CASE Clean(p)
  <2>1. Go(p, "forget") \/ End(p) BY <1>2 DEF Clean
  <2>2. ("forget" \in Publishing => l.pc \in Publishing)
    BY <1>2 DEF Clean, At, Publishing
  <2> QED BY <1>0, <2>1, <2>2, GoHanded, EndHanded
<1>3. CASE LookUpRow(p)
  <2>1. Go(p, "read") \/ End(p) BY <1>3 DEF LookUpRow
  <2>2. ("read" \in Publishing => l.pc \in Publishing)
    BY <1>3 DEF LookUpRow, At, Publishing
  <2> QED BY <1>0, <2>1, <2>2, GoHanded, EndHanded
<1>4. CASE Check(p)
  <2>1. Go(p, "replace") \/ End(p) BY <1>4 DEF Check
  <2>2. ("replace" \in Publishing => l.pc \in Publishing)
    BY <1>4 DEF Check, At, Publishing
  <2> QED BY <1>0, <2>1, <2>2, GoHanded, EndHanded
<1>5. CASE Replace(p)
  <2>1. Go(p, "mark") \/ End(p) BY <1>5 DEF Replace
  <2>2. ("mark" \in Publishing => l.pc \in Publishing)
    BY <1>5 DEF Replace, At, Publishing
  <2> QED BY <1>0, <2>1, <2>2, GoHanded, EndHanded
<1>6. CASE UnlinkEmpty(p)
  <2>1. Go(p, "rollback") \/ Go(p, "markremove") \/ End(p) BY <1>6 DEF UnlinkEmpty
  <2>2. ("rollback" \in Publishing => l.pc \in Publishing) /\ ("markremove" \in Publishing => l.pc \in Publishing)
    BY <1>6 DEF UnlinkEmpty, At, Publishing
  <2> QED BY <1>0, <2>1, <2>2, GoHanded, EndHanded
<1>7. CASE Verify(p)
  <2>1. Go(p, "complete") \/ Go(p, "rollback") \/ End(p) BY <1>7 DEF Verify
  <2>2. ("complete" \in Publishing => l.pc \in Publishing) /\ ("rollback" \in Publishing => l.pc \in Publishing)
    BY <1>7 DEF Verify, At, Publishing
  <2> QED BY <1>0, <2>1, <2>2, GoHanded, EndHanded
<1>8. CASE CompleteAttachment(p)
  <2>1. Go(p, "rollback") \/ Go(p, "tidy") \/ End(p) BY <1>8 DEF CompleteAttachment
  <2>2. ("rollback" \in Publishing => l.pc \in Publishing) /\ ("tidy" \in Publishing => l.pc \in Publishing)
    BY <1>8 DEF CompleteAttachment, At, Publishing
  <2> QED BY <1>0, <2>1, <2>2, GoHanded, EndHanded
<1>9. CASE Tidy(p)
  <2>1. Go(p, "finish") \/ End(p) BY <1>9 DEF Tidy
  <2>2. ("finish" \in Publishing => l.pc \in Publishing)
    BY <1>9 DEF Tidy, At, Publishing
  <2> QED BY <1>0, <2>1, <2>2, GoHanded, EndHanded
<1>10. CASE Recheck(p)
  <2>1. CASE Go(p, "rollback")
    <3>1. l.pc \in Publishing BY <1>10 DEF Recheck, At, Publishing
    <3> QED BY <1>0, <2>1, <3>1, GoHanded
  <2>2. CASE Go(p, "unlink") /\ File(p) = <<>>
    <3>1. l.pc \in Publishing BY <1>10 DEF Recheck, At, Publishing
    <3> QED BY <1>0, <1>10, <2>2, <3>1, GoProgress DEF Handed, Like
  <2> QED BY <1>10, <2>1, <2>2 DEF Recheck
<1>11. CASE Recover(p)
  <2>1. CASE End(p) BY <1>0, <2>1, EndHanded
  <2>2. CASE l.todo = <<>> /\ Go(p, l.after) /\ l.after # "idle"
    <3>1. l.after \in {"row", "read", "preflight", "retire"}
      BY <1>0, <1>11, <2>2 DEF Recover, At, Ready, Recovering, AfterRecovery
    <3> QED BY <1>0, <2>2, <3>1, GoHanded DEF Publishing
  <2>3. CASE l.todo # <<>> /\ ~ Unrecoverable(Item(p)) /\ Go(p, RecoveryOf(p))
    <3>1. Head(l.todo).kind # "close" BY <2>3 DEF Unrecoverable, Item
    <3>2. RecoveryOf(p) \in {"undo", "clean", "forget"} BY DEF RecoveryOf
    <3>3. CASE Go(p, "undo") BY <1>0, <1>11, <3>1, <3>3, GoProgress DEF Handed, Publishing
    <3>4. CASE Go(p, "clean") \/ Go(p, "forget")
      BY <1>0, <3>4, GoHanded DEF Publishing
    <3> QED BY <2>3, <3>2, <3>3, <3>4
  <2> QED BY <1>11, <2>1, <2>2, <2>3 DEF Recover
<1>12. CASE LockWorkspace(p)
  <2> DEFINE m == [l EXCEPT !.pc = "pending", !.seen = Effective(File(p), Pkg(p))]
  <2>2. m.pc = "pending" /\ m.todo = l.todo BY <1>12, <1>0 DEF Local
  <2>3. loc' = [loc EXCEPT ![p] = m] \/ End(p) BY <1>12 DEF LockWorkspace
  <2> HIDE DEF m
  <2>4. CASE loc' = [loc EXCEPT ![p] = m]
    <3>1. loc'[p] = m BY <1>0, <2>4
    <3> QED BY <1>12, <2>2, <3>1 DEF LockWorkspace, At, Handed, Like, Publishing
  <2> QED BY <1>0, <2>3, <2>4, EndHanded
<1>13. CASE LockDetach(p)
  <2> DEFINE m == [l EXCEPT !.pc = "pending", !.att = row[<<l.cfg, l.pkg>>], !.ws = row[<<l.cfg, l.pkg>>].ws, !.after = "read"]
  <2>2. m.pc = "pending" /\ m.todo = l.todo BY <1>13, <1>0 DEF Local
  <2>3. loc' = [loc EXCEPT ![p] = m] \/ End(p) BY <1>13 DEF LockDetach
  <2> HIDE DEF m
  <2>4. CASE loc' = [loc EXCEPT ![p] = m]
    <3>1. loc'[p] = m BY <1>0, <2>4
    <3> QED BY <1>13, <2>2, <3>1 DEF LockDetach, At, Handed, Like, Publishing
  <2> QED BY <1>0, <2>3, <2>4, EndHanded
<1>14. CASE ReadOverride(p)
  <2> DEFINE m == [l EXCEPT !.pc = "stage", !.orig = File(p)]
  <2>2. m.pc = "stage" /\ m.todo = l.todo /\ m.orig = File(p) /\ m.cfg = l.cfg
    BY <1>14, <1>0 DEF Local
  <2>3. loc' = [loc EXCEPT ![p] = m] \/ End(p) BY <1>14 DEF ReadOverride
  <2> HIDE DEF m
  <2>4. CASE loc' = [loc EXCEPT ![p] = m]
    <3>1. loc'[p] = m BY <1>0, <2>4
    <3> QED BY <1>14, <2>2, <3>1 DEF ReadOverride, At, Handed, Like, Publishing
  <2> QED BY <1>0, <2>3, <2>4, EndHanded
<1>15. CASE Prepare(p)
  <2> DEFINE m == [l EXCEPT !.pc = "check", !.op = [l.op EXCEPT !.old = File(p)]]
  <2>2. m.pc = "check" /\ m.todo = l.todo /\ Like(m.op, l.op)
    BY <1>15, <1>0, <1>op DEF Local , Like, Operation, Prepare
  <2>3. loc' = [loc EXCEPT ![p] = m] BY <1>15 DEF Prepare
  <2> HIDE DEF m
  <2>4. CASE loc' = [loc EXCEPT ![p] = m]
    <3>1. loc'[p] = m BY <1>0, <2>4
    <3> QED BY <1>15, <2>2, <3>1 DEF Prepare, At, Handed, Like, Publishing
  <2> QED BY <1>0, <2>3, <2>4, EndHanded
<1>16. CASE MarkRemoved(p)
  <2> DEFINE m == [l EXCEPT !.pc = "verify", !.op = [l.op EXCEPT !.remove = TRUE]]
  <2>2. m.pc = "verify" /\ m.todo = l.todo /\ Like(m.op, l.op)
    BY <1>16, <1>0, <1>op DEF Local , Like, Operation, MarkRemoved
  <2>3. loc' = [loc EXCEPT ![p] = m] BY <1>16 DEF MarkRemoved
  <2> HIDE DEF m
  <2>4. CASE loc' = [loc EXCEPT ![p] = m]
    <3>1. loc'[p] = m BY <1>0, <2>4
    <3> QED BY <1>16, <2>2, <3>1 DEF MarkRemoved, At, Handed, Like, Publishing
  <2> QED BY <1>0, <2>3, <2>4, EndHanded
<1>17. CASE Preflight(p)
  <2> DEFINE m == [l EXCEPT !.pc = "next", !.rest = Attached(l.ws)]
  <2>2. m.pc = "next" /\ m.todo = l.todo BY <1>17, <1>0 DEF Local
  <2>3. loc' = [loc EXCEPT ![p] = m] \/ End(p) BY <1>17 DEF Preflight
  <2> HIDE DEF m
  <2>4. CASE loc' = [loc EXCEPT ![p] = m]
    <3>1. loc'[p] = m BY <1>0, <2>4
    <3> QED BY <1>17, <2>2, <3>1 DEF Preflight, At, Handed, Like, Publishing
  <2> QED BY <1>0, <2>3, <2>4, EndHanded
<1>18. CASE MarkPublished(p)
  <2>0. PICK op : op = [l.op EXCEPT !.published = TRUE, !.phase = "published"] OBVIOUS
  <2>1. PICK x \in {"recheck", "verify"} : loc' = [loc EXCEPT ![p].pc = x, ![p].op = op]
    BY <1>18, <2>0 DEF MarkPublished
  <2>2. loc'[p].pc = x /\ loc'[p].todo = l.todo /\ loc'[p].op = op BY <1>0, <2>1 DEF Local
  <2>3. l.pc \in Publishing /\ l.op \in Operation
    BY <1>0, <1>18 DEF MarkPublished, At, Publishing, Ready
  <2>4. Like(op, l.op) BY <2>0, <2>3 DEF Like, Operation
  <2> QED BY <2>2, <2>3, <2>4 DEF Handed
<1>19. CASE Stage(p)
  <2>1. PICK op : loc' = [loc EXCEPT ![p].pc = "prepare", ![p].op = op] BY <1>19 DEF Stage
  <2>2. loc'[p].pc = "prepare" /\ loc'[p].todo = l.todo BY <1>0, <2>1 DEF Local
  <2> QED BY <1>19, <2>2 DEF Handed
<1>20. CASE SaveClose(p)
  <2>1. PICK op : loc' = [loc EXCEPT ![p].pc = "retire", ![p].op = op]
    BY <1>20 DEF SaveClose
  <2>2. loc'[p].pc = "retire" /\ loc'[p].todo = l.todo BY <1>0, <2>1 DEF Local
  <2> QED BY <2>2 DEF Handed, Publishing
<1>21. CASE Retire(p)
  BY <1>0, <1>21, EndHanded DEF Retire
<1>22. CASE Crash(p)
  BY <1>0, <1>22, EndHanded DEF Crash
<1>23. CASE Finish(p)
  <2>1. CASE loc' = [loc EXCEPT ![p].pc = "next", ![p].op = None]
    <3>1. loc'[p].pc = "next" /\ loc'[p].todo = l.todo BY <1>0, <2>1 DEF Local
    <3> QED BY <3>1 DEF Handed, Publishing
  <2> QED BY <1>0, <1>23, <2>1, EndHanded DEF Finish
<1>24. CASE DetachNext(p)
  <2>1. CASE Go(p, "saveclose") BY <1>0, <2>1, GoHanded DEF Publishing
  <2>2. CASE l.rest # {}
    <3>1. PICK cp \in l.rest, x \in {"next", "pending"} :
             loc' = [loc EXCEPT ![p].rest = @ \ {cp}, ![p].cfg = cp[1], ![p].att = row[cp],
                                ![p].after = "read", ![p].pc = x]
      BY <1>24, <2>2 DEF DetachNext
    <3>2. loc'[p].pc = x /\ loc'[p].todo = l.todo BY <1>0, <3>1 DEF Local
    <3> QED BY <3>2 DEF Handed, Publishing
  <2> QED BY <1>24, <2>1, <2>2 DEF DetachNext
<1>25. CASE Forget(p)
  <2>1. loc' = [loc EXCEPT ![p].pc = "recover", ![p].todo = Tail(@)] BY <1>25 DEF Forget
  <2>2. loc'[p].pc = "recover" /\ loc'[p].todo = Tail(l.todo) BY <1>0, <2>1 DEF Local
  <2>3. l.todo # <<>> /\ l.todo \in Seq(Operation)
    BY <1>0, <1>25 DEF Forget, At, Ready, Local
  <2>4. Range(Tail(l.todo)) \subseteq Range(l.todo) BY <2>3, HeadAndTail
  <2> QED BY <2>2, <2>4 DEF Handed, Publishing
<1>26. CASE Rollback(p)
  <2> DEFINE log == journal[l.ws]
             m == Min(Places(log, l.op.id))
  <2>1. l.ws \in Workspace BY <1>0, <1>26 DEF Rollback, At, Ready
  <2>2. log \in Seq(Operation) BY <1>0, <2>1
  <2>3. CASE Places(log, l.op.id) = {} BY <1>0, <1>26, <2>3, EndHanded DEF Rollback
  <2>4. CASE Places(log, l.op.id) # {}
    <3>1. loc' = [loc EXCEPT ![p].pc = "recover", ![p].todo = <<log[m]>>, ![p].after = "idle"]
      BY <1>26, <2>4 DEF Rollback
    <3>2. log[m] \in Range(log) BY <2>2, <2>4, PlacesProperties
    <3>3. loc'[p].pc = "recover" /\ loc'[p].todo = <<log[m]>> BY <1>0, <3>1 DEF Local
    <3>4. Range(<<log[m]>>) = {log[m]} BY DEF Range
    <3> QED BY <2>1, <3>2, <3>3, <3>4 DEF Handed, Publishing
  <2> QED BY <2>3, <2>4
<1>27. CASE Pending(p)
  <2> DEFINE log == journal[l.ws]
             closes == {i \in DOMAIN log : log[i].kind = "close"}
  <2>1. l.ws \in Workspace BY <1>0, <1>27 DEF Pending, At, Ready
  <2>2. log \in Seq(Operation) /\ Len(log) \in Nat /\ DOMAIN log = 1 .. Len(log)
    BY <1>0, <2>1, LenProperties
  <2>3. ASSUME NEW todo, loc'[p].pc = "recover", loc'[p].todo = todo, Range(todo) \subseteq Range(log)
        PROVE  Handed(p)
    BY <2>1, <2>3 DEF Handed, Publishing
  <2>4. CASE OwnRecovery(p) /\ closes = {}
    <3>1. loc' = [loc EXCEPT ![p].pc = "recover", ![p].todo = log, ![p].after = "preflight"]
      BY <1>27, <2>4 DEF Pending
    <3>2. loc'[p].pc = "recover" /\ loc'[p].todo = log BY <1>0, <3>1 DEF Local
    <3> QED BY <2>3, <3>2
  <2>5. CASE OwnRecovery(p) /\ closes # {}
    <3>1. loc' = [loc EXCEPT ![p].pc = "recover", ![p].todo = RemoveAt(log, Min(closes)),
                             ![p].op = log[Min(closes)], ![p].after = "retire"]
      BY <1>27, <2>5 DEF Pending
    <3>2. loc'[p].pc = "recover" /\ loc'[p].todo = RemoveAt(log, Min(closes))
      BY <1>0, <3>1 DEF Local
    <3>3. Min(closes) \in DOMAIN log
      <4>1. closes \in SUBSET (1 .. Len(log)) BY <2>2
      <4>2. Min(closes) \in closes BY <2>2, <2>5, <4>1, MinExists
      <4> QED BY <2>2, <4>1, <4>2
    <3>4. Range(RemoveAt(log, Min(closes))) \subseteq Range(log)
      BY <2>2, <3>3, RemoveAtRange
    <3> QED BY <2>3, <3>2, <3>4
  <2>6. CASE ~ OwnRecovery(p)
    <3>1. loc' = [loc EXCEPT ![p].pc = "recover", ![p].todo = log]
      BY <1>27, <2>6 DEF Pending
    <3>2. loc'[p].pc = "recover" /\ loc'[p].todo = log BY <1>0, <3>1 DEF Local
    <3> QED BY <2>3, <3>2
  <2> QED BY <2>4, <2>5, <2>6
<1>28. CASE BeginSome(p)
  <2>1. ASSUME NEW kind, NEW w, NEW c, NEW pkg, NEW keys, Begin(p, kind, w, c, pkg, keys)
        PROVE  loc'[p].pc = "locking" /\ loc'[p].todo = <<>>
    BY <1>0, <2>1 DEF Begin, Idle
  <2>2. loc'[p].pc = "locking" /\ loc'[p].todo = <<>>
    BY <1>28, <2>1 DEF BeginSome, BeginAttach, BeginDetach, BeginClose
  <2>3. Range(<<>>) = {} BY EmptySeq DEF Range
  <2> QED BY <2>2, <2>3 DEF Handed, Publishing
<1> QED BY <1>1, <1>2, <1>3, <1>4, <1>5, <1>6, <1>7, <1>8, <1>9, <1>10, <1>11, <1>12, <1>13,
           <1>14, <1>15, <1>16, <1>17, <1>18, <1>19, <1>20, <1>21, <1>22, <1>23, <1>24,
           <1>25, <1>26, <1>27, <1>28
           DEF Step

\* Every step that writes an override file keeps the human lines.
LEMMA FilesStep ==
    ASSUME HumansInv, NEW p \in Proc, BeginSome(p) \/ Step(p) \/ Crash(p), NEW c \in Config
    PROVE  SameHumanLines(file[c], file'[c])
<1> DEFINE l == loc[p]
<1>0. /\ file \in [Config -> Content] /\ l \in Local /\ Ready(l, l.pc) /\ HumansSafe(l)
      /\ \A id \in DOMAIN backup : backup[id] \in Content
  BY LinesOf DEF HumansInv, StructureInv, Presence, TypeOK
<1>same. CASE UNCHANGED file BY <1>same, SameReflexive
<1>1. CASE Undo(p)
  <2> DEFINE item == Head(l.todo)
  <2>1. /\ item \in Operation /\ item \in Range(l.todo) /\ item.kind # "close"
    BY <1>0, <1>1, HeadAndTail DEF Undo, At, Ready, Local, HumansSafe
  <2>2. Faithful(item) BY <1>0, <2>1 DEF HumansSafe
  <2>3. item.cfg \in Config BY <2>1 DEF Operation
  <2>4. CASE file' = [file EXCEPT ![item.cfg] = NoFile] /\ ~ item.backed
    <3>1. CASE c = item.cfg
      <4>1. SameHumanLines(NoFile, file[c]) BY <2>1, <2>2, <2>4, <3>1 DEF Faithful
      <4>2. file'[c] = NoFile BY <1>0, <2>4, <3>1
      <4>3. SameHumanLines(file[c], NoFile) BY <1>0, <4>1, SameSymmetric DEF Content
      <4> QED BY <4>2, <4>3
    <3>2. CASE c # item.cfg
      <4>1. file'[c] = file[c] BY <1>0, <2>4, <3>2
      <4> QED BY <4>1, SameReflexive
    <3> QED BY <3>1, <3>2
  <2>5. CASE file' = [file EXCEPT ![item.cfg] = backup[item.id]] /\ item.id \in DOMAIN backup
    <3>1. CASE c = item.cfg
      <4>1. SameHumanLines(backup[item.id], file[c]) BY <2>1, <2>2, <2>5, <3>1 DEF Faithful
      <4>2. file'[c] = backup[item.id] BY <1>0, <2>5, <3>1
      <4>3. SameHumanLines(file[c], backup[item.id]) BY <1>0, <2>5, <4>1, SameSymmetric
      <4> QED BY <4>2, <4>3
    <3>2. CASE c # item.cfg
      <4>1. file'[c] = file[c] BY <1>0, <2>5, <3>2
      <4> QED BY <4>1, SameReflexive
    <3> QED BY <3>1, <3>2
  <2> QED BY <1>1, <1>same, <2>4, <2>5 DEF Undo, Item
<1>2. CASE Replace(p)
  <2>1. /\ l.op \in Operation /\ l.op.kind # "close" /\ Faithful(l.op)
    BY <1>0, <1>2 DEF Replace, At, Ready, Publishing, HumansSafe
  <2>2. l.op.cfg \in Config /\ l.op.new \in Content BY <2>1 DEF Operation
  <2>3. CASE file' = [file EXCEPT ![l.op.cfg] = l.op.new]
    <3>1. CASE c = l.op.cfg
      <4>1. SameHumanLines(l.op.new, file[c]) BY <2>1, <3>1 DEF Faithful
      <4>2. file'[c] = l.op.new BY <1>0, <2>3, <3>1
      <4>3. SameHumanLines(file[c], l.op.new) BY <1>0, <2>2, <4>1, SameSymmetric
      <4> QED BY <4>2, <4>3
    <3>2. CASE c # l.op.cfg
      <4>1. file'[c] = file[c] BY <1>0, <2>3, <3>2
      <4> QED BY <4>1, SameReflexive
    <3> QED BY <3>1, <3>2
  <2> QED BY <1>2, <1>same, <2>3 DEF Replace
<1>3. CASE UnlinkEmpty(p)
  <2>1. l.cfg \in Config /\ SameHumanLines(NoFile, file[l.cfg])
    BY <1>0, <1>3 DEF UnlinkEmpty, At, Ready, HumansSafe
  <2>2. CASE file' = [file EXCEPT ![l.cfg] = NoFile]
    <3>1. CASE c = l.cfg
      <4>1. file'[c] = NoFile BY <1>0, <2>2, <3>1
      <4>2. SameHumanLines(file[c], NoFile) BY <1>0, <2>1, <3>1, SameSymmetric DEF Content
      <4> QED BY <4>1, <4>2
    <3>2. CASE c # l.cfg
      <4>1. file'[c] = file[c] BY <1>0, <2>2, <3>2
      <4> QED BY <4>1, SameReflexive
    <3> QED BY <3>1, <3>2
  <2> QED BY <1>3, <1>same, <2>2 DEF UnlinkEmpty
<1>4. CASE Clean(p) BY <1>4, <1>same DEF Clean
<1>5. CASE Stage(p) BY <1>5, <1>same DEF Stage
<1>6. CASE Tidy(p) BY <1>6, <1>same DEF Tidy
<1> QED BY <1>same, <1>1, <1>2, <1>3, <1>4, <1>5, <1>6, Frames DEF disk

\* What a step does to the ids given out and to the saved copies.
LEMMA BackupsStep ==
    ASSUME StructureInv, \A id \in DOMAIN backup : id <= issued,
           NEW p \in Proc, BeginSome(p) \/ Step(p) \/ Crash(p)
    PROVE  /\ issued <= issued'
           /\ \A id \in DOMAIN backup' :
                 /\ id <= issued'
                 /\ id <= issued => id \in DOMAIN backup /\ backup'[id] = backup[id]
<1>0. issued \in Nat /\ DOMAIN backup \subseteq Id BY DEF StructureInv, TypeOK
<1>1. CASE Stage(p)
  <2>1. /\ issued' = issued + 1
        /\ \/ backup' = backup
           \/ backup' = [x \in DOMAIN backup \cup {issued + 1} |->
                            IF x = issued + 1 THEN File(p) ELSE backup[x]]
    BY <1>1 DEF Stage, With
  <2> QED BY <1>0, <2>1 DEF Id
<1>2. CASE ~ Stage(p)
  <2>1. issued' = issued \/ issued' = issued + 1
    BY <1>2, Frames DEF SaveClose
  <2>2. \A id \in DOMAIN backup' : id \in DOMAIN backup /\ backup'[id] = backup[id]
    <3>w. ASSUME NEW id, backup' = Without(backup, id)
          PROVE  \A x \in DOMAIN backup' : x \in DOMAIN backup /\ backup'[x] = backup[x]
      BY <3>w DEF Without
    <3>1. CASE Undo(p) BY <3>1, <3>w DEF Undo
    <3>2. CASE Clean(p) BY <3>2, <3>w DEF Clean
    <3>3. CASE Tidy(p) BY <3>3, <3>w DEF Tidy
    <3>4. CASE Replace(p) BY <3>4 DEF Replace
    <3>5. CASE UnlinkEmpty(p) BY <3>5 DEF UnlinkEmpty
    <3> QED BY <1>2, <3>1, <3>2, <3>3, <3>4, <3>5, Frames DEF disk
  <2> QED BY <1>0, <2>1, <2>2 DEF Id
<1> QED BY <1>1, <1>2

\* What was faithful to a file stays so.
LEMMA FaithfulStays ==
    ASSUME HumansInv, NEW p \in Proc, BeginSome(p) \/ Step(p) \/ Crash(p),
           NEW op \in Operation, Faithful(op)
    PROVE  Faithful(op)'
<1>1. /\ issued \in Nat /\ issued' \in Nat /\ issued <= issued' /\ op.id \in Nat
      /\ op.id <= issued /\ op.cfg \in Config
  BY BackupsStep, TypesStep DEF HumansInv, StructureInv, TypeOK, Faithful, Operation, Id
<1>2. op.id <= issued' BY <1>1
<1>3. op.id \in DOMAIN backup' => op.id \in DOMAIN backup /\ backup'[op.id] = backup[op.id]
  BY <1>1, BackupsStep DEF HumansInv
<1>4. SameHumanLines(file[op.cfg], file'[op.cfg]) BY <1>1, FilesStep
<1>5. ASSUME op.kind # "close"
      PROVE  /\ SameHumanLines(op.new, file'[op.cfg])
             /\ ~ op.backed => SameHumanLines(NoFile, file'[op.cfg])
             /\ op.id \in DOMAIN backup' => SameHumanLines(backup'[op.id], file'[op.cfg])
  <2>1. SameHumanLines(op.new, file'[op.cfg]) BY <1>4, <1>5, SameTransitive DEF Faithful
  <2>2. ~ op.backed => SameHumanLines(NoFile, file'[op.cfg])
    BY <1>4, <1>5, SameTransitive DEF Faithful
  <2>3. op.id \in DOMAIN backup' => SameHumanLines(backup'[op.id], file'[op.cfg])
    BY <1>3, <1>4, <1>5, SameTransitive DEF Faithful
  <2> QED BY <2>1, <2>2, <2>3
<1> QED BY <1>2, <1>5 DEF Faithful

\* The new operation of a process.
LEMMA StageFaithful ==
    ASSUME HumansInv, NEW p \in Proc, Stage(p)
    PROVE  Faithful(loc[p].op)'
<1> DEFINE l == loc[p]
           id == issued + 1
           new == NewContent(p, id)
           exists == File(p) # NoFile
           op == [id |-> id, kind |-> StepKind(p), cfg |-> l.cfg,
                  phase |-> "prepared", published |-> FALSE,
                  remove |-> FALSE, backed |-> exists,
                  old |-> NoFile, new |-> new]
<1>0. /\ file \in [Config -> Content] /\ l \in Local /\ Ready(l, l.pc) /\ HumansSafe(l)
      /\ issued \in Nat /\ DOMAIN backup \subseteq Id
      /\ loc \in [Proc -> Local] /\ l.pc = "stage"
  BY DEF HumansInv, StructureInv, Presence, TypeOK, Stage, At
<1>1. l.cfg \in Config /\ l.orig \in Content /\ SameHumanLines(l.orig, file[l.cfg])
      /\ file[l.cfg] \in Content /\ l.ws \in Workspace
      /\ (l.kind # "attach" => l.att.id \in Id)
  BY <1>0 DEF Ready, Local, HumansSafe, Attachment
<1>2. SameHumanLines(l.orig, new)
  <2>1. CASE l.kind = "attach"
    <3>1. ManagedBlock(id, l.ws, NeedsSeparator(l.orig)) \in Line /\ ManagedBlock(id, l.ws, NeedsSeparator(l.orig)).id # 0
      BY <1>0, <1>1, AttachmentAssumption DEF ManagedBlock, NeedsSeparator, Line, Path
    <3>2. new = Append(Lines(l.orig), ManagedBlock(id, l.ws, NeedsSeparator(l.orig))) BY <2>1 DEF NewContent
    <3> QED BY <1>1, <3>1, <3>2, AppendKeepsHumans
  <2>2. CASE l.kind # "attach"
    <3>1. new = Removed(Lines(l.orig), l.att.id) BY <2>2 DEF NewContent, Restored
    <3> QED BY <1>1, <2>2, <3>1, RemovedKeepsHumans
  <2> QED BY <2>1, <2>2
<1> HIDE DEF new
<1>3. loc' = [loc EXCEPT ![p].pc = "prepare", ![p].op = op]
      /\ file' = file /\ issued' = id
      /\ backup' = (IF exists THEN With(backup, id, File(p)) ELSE backup)
  BY DEF Stage, new
<1>4. loc'[p].op = op
  <2> HIDE DEF op
  <2> QED BY <1>0, <1>3 DEF Local
<1>5. op.id <= issued' BY <1>0, <1>3
<1>6. SameHumanLines(new, file[l.cfg])
  <2>1. new \in Content
    <3>1. CASE l.kind = "attach"
      <4>1. ManagedBlock(id, l.ws, NeedsSeparator(l.orig)) \in Line
        BY <1>0, <1>1, AttachmentAssumption DEF ManagedBlock, NeedsSeparator, Line, Path
      <4>2. Lines(l.orig) \in Seq(Line) BY <1>1, LinesType
      <4>3. new = Append(Lines(l.orig), ManagedBlock(id, l.ws, NeedsSeparator(l.orig))) BY <3>1 DEF NewContent, new
      <4> QED BY <4>1, <4>2, <4>3, AppendProperties DEF Content
    <3>2. CASE l.kind # "attach"
      <4>1. new = Removed(Lines(l.orig), l.att.id) BY <3>2 DEF NewContent, Restored, new
      <4>2. Lines(l.orig) \in Seq(Line) BY <1>1, LinesType
      <4> QED BY <4>1, <4>2, RemovedProperties DEF Content
    <3> QED BY <3>1, <3>2
  <2>2. SameHumanLines(new, l.orig) BY <1>1, <1>2, <2>1, SameSymmetric
  <2> QED BY <1>1, <2>2, SameTransitive
<1>7. ~ op.backed => SameHumanLines(NoFile, file[l.cfg])
  <2>1. ~ op.backed => file[l.cfg] = NoFile BY DEF File
  <2> QED BY <2>1, SameReflexive
<1>8. op.id \in DOMAIN backup' => SameHumanLines(backup'[op.id], file[l.cfg])
  <2>1. id \notin DOMAIN backup
    <3>1. \A x \in DOMAIN backup : x <= issued BY DEF HumansInv
    <3> QED BY <1>0, <3>1 DEF Id
  <2>2. CASE exists
    <3>1. backup'[id] = file[l.cfg] BY <1>3, <2>2 DEF With, File
    <3> QED BY <3>1, SameReflexive
  <2>3. CASE ~ exists BY <1>3, <2>1, <2>3
  <2> QED BY <2>2, <2>3
<1>9. op.cfg = l.cfg /\ op.new = new OBVIOUS
<1> HIDE DEF op
<1>10. file'[loc'[p].op.cfg] = file[l.cfg] BY <1>3, <1>4, <1>9
<1> QED BY <1>4, <1>5, <1>6, <1>7, <1>8, <1>9, <1>10 DEF Faithful

\* Where the entries of the journals after a step come from.
LEMMA JournalStep ==
    ASSUME StructureInv, NEW p \in Proc, BeginSome(p) \/ Step(p) \/ Crash(p),
           NEW w \in Workspace, NEW op \in Range(journal'[w])
    PROVE  \/ op \in Range(journal[w])
           \/ /\ loc[p].pc \in Publishing \ {"rollback", "tidy", "finish"} /\ Like(op, loc[p].op)
              /\ op.phase # "complete" \/ CompleteAttachment(p)
           \/ SaveClose(p) /\ op.kind = "close" /\ op.id = issued + 1 /\ issued' = issued + 1
<1> DEFINE l == loc[p]
<1>0. /\ l \in Local /\ Ready(l, l.pc) /\ journal \in [Workspace -> Seq(Operation)]
      /\ file \in [Config -> Content] /\ issued \in Nat
  BY DEF StructureInv, Presence, TypeOK
<1>u. ASSUME NEW log, journal' = [journal EXCEPT ![l.ws] = log]
      PROVE  journal'[w] = journal[w] \/ (w = l.ws /\ journal'[w] = log)
  BY <1>0, <1>u
<1>d. ASSUME NEW id, journal' = [journal EXCEPT ![l.ws] = Dropped(@, id)]
      PROVE  op \in Range(journal[w])
  <2>1. Range(Dropped(journal[w], id)) \subseteq Range(journal[w])
    BY <1>0, RemovedProperties DEF Dropped
  <2> QED BY <1>d, <1>u, <2>1
<1>s. ASSUME NEW o \in Operation, Save(p, o)
      PROVE  op \in Range(journal[w]) \/ op = o
  <2>1. Range(Saved(journal[w], o)) \subseteq Range(journal[w]) \cup {o}
    BY <1>0, SavedProperties
  <2> QED BY <1>s, <1>u, <2>1 DEF Save
<1>1. CASE Forget(p) BY <1>1, <1>d DEF Forget
<1>2. CASE Finish(p) BY <1>2, <1>d DEF Finish
<1>3. CASE Retire(p) BY <1>3, <1>d DEF Retire
<1>op. At(p, "prepare") \/ At(p, "mark") \/ At(p, "markremove") \/ At(p, "complete")
         => /\ l.pc \in Publishing \ {"rollback", "tidy", "finish"} /\ l.op \in Operation
            /\ l.op.phase # "complete" /\ l.cfg \in Config
  BY <1>0 DEF At, Ready, Publishing
<1>4. CASE Prepare(p)
  <2> DEFINE o == [l.op EXCEPT !.old = File(p)]
  <2>1. o \in Operation /\ Like(o, l.op)
        /\ l.pc \in Publishing \ {"rollback", "tidy", "finish"} /\ o.phase # "complete"
    BY <1>0, <1>op, <1>4 DEF Prepare, File, Operation, Like
  <2>2. Save(p, o) BY <1>4 DEF Prepare
  <2> HIDE DEF o
  <2> QED BY <1>s, <2>1, <2>2
<1>5. CASE MarkPublished(p)
  <2> DEFINE o == [l.op EXCEPT !.published = TRUE, !.phase = "published"]
  <2>1. o \in Operation /\ Like(o, l.op)
        /\ l.pc \in Publishing \ {"rollback", "tidy", "finish"} /\ o.phase # "complete"
    BY <1>op, <1>5 DEF MarkPublished, Operation, Like
  <2>2. Save(p, o) BY <1>5 DEF MarkPublished
  <2> HIDE DEF o
  <2> QED BY <1>s, <2>1, <2>2
<1>6. CASE MarkRemoved(p)
  <2> DEFINE o == [l.op EXCEPT !.remove = TRUE]
  <2>1. o \in Operation /\ Like(o, l.op)
        /\ l.pc \in Publishing \ {"rollback", "tidy", "finish"} /\ o.phase # "complete"
    BY <1>op, <1>6 DEF MarkRemoved, Operation, Like
  <2>2. Save(p, o) BY <1>6 DEF MarkRemoved
  <2> HIDE DEF o
  <2> QED BY <1>s, <2>1, <2>2
<1>7. CASE CompleteAttachment(p)
  <2> DEFINE o == [l.op EXCEPT !.phase = "complete"]
  <2>1. l.op \in Operation /\ Like(o, l.op)
        /\ l.pc \in Publishing \ {"rollback", "tidy", "finish"}
    BY <1>op, <1>7 DEF CompleteAttachment, Operation, Like
  <2>2. CASE journal' = journal BY <2>2
  <2>3. CASE journal' = [journal EXCEPT ![l.ws] = Completed(@, l.op)]
    <3>1. Range(Completed(journal[w], l.op)) \subseteq Range(journal[w]) \cup {o}
      BY <1>0, <2>1, CompletedProperties
    <3> HIDE DEF o
    <3> QED BY <1>u, <1>7, <2>1, <2>3, <3>1
  <2> QED BY <1>7, <2>2, <2>3 DEF CompleteAttachment
<1>8. CASE SaveClose(p)
  <2> DEFINE o == [id |-> issued + 1, kind |-> "close", cfg |-> l.cfg,
                  phase |-> "prepared", published |-> FALSE, remove |-> FALSE,
                  backed |-> FALSE, old |-> NoFile, new |-> NoFile]
  <2>1. l.cfg \in Config /\ issued' = o.id /\ o.id = issued + 1
    BY <1>0, <1>8 DEF SaveClose, At, Ready
  <2>2. o \in Operation BY <1>0, <2>1 DEF Operation, Id, Kind, Content
  <2>3. Save(p, o) BY <1>8 DEF SaveClose
  <2>4. o.kind = "close" OBVIOUS
  <2> HIDE DEF o
  <2> QED BY <1>s, <1>8, <2>1, <2>2, <2>3, <2>4
<1>9. CASE UNCHANGED journal BY <1>9
<1> QED BY <1>1, <1>2, <1>3, <1>4, <1>5, <1>6, <1>7, <1>8, <1>9, Frames

LEMMA HumansStep == ASSUME HumansInv, [Next]_vars PROVE HumansInv'
<1>1. CASE UNCHANGED vars
  BY <1>1, StructureStep DEF HumansInv, HumansSafe, Faithful, vars, disk, database, counters
<1>2. CASE \E p \in Proc : BeginSome(p) \/ Step(p) \/ Crash(p)
  <2>0. PICK p \in Proc : BeginSome(p) \/ Step(p) \/ Crash(p) BY <1>2
  <2> DEFINE l == loc[p]
  <2>a. StructureInv /\ StructureInv' BY <2>0, TypesStep DEF HumansInv
  <2>b. /\ loc \in [Proc -> Local] /\ l \in Local /\ Ready(l, l.pc) /\ HumansSafe(l)
        /\ journal \in [Workspace -> Seq(Operation)]
        /\ loc' \in [Proc -> Local] /\ Ready(loc'[p], loc'[p].pc)
        /\ journal' \in [Workspace -> Seq(Operation)]
    BY <2>a DEF HumansInv, StructureInv, Presence, TypeOK
  <2>h. Handed(p) /\ Stepped(p) BY <2>0, <2>a, HandedStep, LocalsStep
  <2>1. \A id \in DOMAIN backup' : id <= issued' BY <2>0, BackupsStep DEF HumansInv
  <2>2. \A op \in Operation : Faithful(op) => Faithful(op)' BY <2>0, FaithfulStays
  <2>3. loc'[p].pc \in Publishing => Faithful(loc[p].op)'
    <3>1. CASE Stage(p) BY <3>1, StageFaithful
    <3>2. CASE loc'[p].pc \in Publishing /\ l.pc \in Publishing /\ Like(loc'[p].op, l.op)
      <4>1. l.op \in Operation /\ Faithful(l.op) BY <2>b, <3>2 DEF Ready, HumansSafe
      <4>2. PICK o \in Operation : o = l.op BY <4>1
      <4>3. Faithful(o)' BY <2>2, <4>1, <4>2
      <4> QED BY <3>2, <4>2, <4>3 DEF Like, Faithful
    <3> QED BY <2>h, <3>1, <3>2 DEF Handed
  <2>4. ASSUME NEW q \in Proc PROVE \A op \in Range(loc'[q].todo) : Faithful(op)'
    <3>1. ASSUME NEW r \in Proc
          PROVE  \A op \in Range(loc[r].todo) : op \in Operation /\ Faithful(op)
      <4>1. loc[r].todo \in Seq(Operation) BY <2>b DEF Local
      <4> QED BY <4>1, RangeType DEF HumansInv, HumansSafe
    <3>2. ASSUME NEW w \in Workspace
          PROVE  \A op \in Range(journal[w]) : op \in Operation /\ Faithful(op)
      BY <2>b, RangeType DEF HumansInv
    <3>3. ASSUME NEW op \in Range(loc'[q].todo) PROVE op \in Operation /\ Faithful(op)
      <4>1. CASE q # p BY <2>h, <3>1, <3>3, <4>1 DEF Stepped
      <4>2. CASE q = p BY <2>h, <3>1, <3>2, <3>3, <4>2 DEF Handed
      <4> QED BY <4>1, <4>2
    <3> QED BY <2>2, <3>3
  <2>5. ASSUME NEW q \in Proc PROVE HumansSafe(loc[q])'
    <3>1. CASE q # p
      <4>0. /\ loc'[q] = loc[q] /\ loc[q] \in Local /\ Ready(loc[q], loc[q].pc)
            /\ HumansSafe(loc[q])
        BY <2>b, <2>h, <3>1 DEF HumansInv, StructureInv, Presence, Stepped
      <4>1. loc'[q].pc \in Publishing => Faithful(loc[q].op)'
        <5>1. SUFFICES ASSUME loc[q].pc \in Publishing PROVE Faithful(loc[q].op)' BY <4>0
        <5>2. loc[q].op \in Operation /\ Faithful(loc[q].op)
          BY <4>0, <5>1 DEF Ready, HumansSafe
        <5>3. PICK o \in Operation : o = loc[q].op BY <5>2
        <5>4. Faithful(o)' BY <2>2, <5>2, <5>3
        <5> QED BY <4>0, <5>3, <5>4 DEF Faithful
      <4>2. ASSUME NEW x \in Content, loc[q].cfg \in Config, SameHumanLines(x, file[loc[q].cfg])
            PROVE  SameHumanLines(x, file'[loc'[q].cfg])
        <5>1. SameHumanLines(file[loc[q].cfg], file'[loc[q].cfg]) BY <2>0, <4>2, FilesStep
        <5> QED BY <4>0, <4>2, <5>1, SameTransitive
      <4>3. loc'[q].pc \in {"stage", "unlink"} => loc[q].cfg \in Config
        BY <4>0 DEF Ready
      <4>4. loc[q].orig \in Content /\ NoFile \in Content BY <4>0 DEF Local, Content
      <4>5. loc'[q].pc = "stage" => SameHumanLines(loc'[q].orig, file'[loc'[q].cfg])
        BY <4>0, <4>2, <4>3, <4>4 DEF HumansSafe
      <4>6. loc'[q].pc = "unlink" => SameHumanLines(NoFile, file'[loc'[q].cfg])
        BY <4>0, <4>2, <4>3, <4>4 DEF HumansSafe
      <4>7. loc'[q].pc = "undo" => Head(loc'[q].todo).kind # "close" BY <4>0 DEF HumansSafe
      <4> QED BY <2>4, <4>1, <4>5, <4>6, <4>7 DEF HumansSafe
    <3>2. CASE q = p
      <4>1. loc'[p].pc = "stage" => SameHumanLines(loc'[p].orig, file'[loc'[p].cfg])
        <5>1. SUFFICES ASSUME loc'[p].pc = "stage"
                       PROVE  SameHumanLines(loc'[p].orig, file'[loc'[p].cfg])
          OBVIOUS
        <5>2. /\ loc'[p].orig = file[l.cfg] /\ loc'[p].cfg = l.cfg /\ file' = file
          BY <2>h, <5>1 DEF Handed, ReadOverride, disk, File
        <5> QED BY <5>2, SameReflexive
      <4>2. loc'[p].pc = "unlink" => SameHumanLines(NoFile, file'[loc'[p].cfg])
        <5>1. SUFFICES ASSUME loc'[p].pc = "unlink"
                       PROVE  SameHumanLines(NoFile, file'[loc'[p].cfg])
          OBVIOUS
        <5>2. file[l.cfg] = <<>> /\ loc'[p].cfg = l.cfg /\ file' = file
          BY <2>h, <5>1 DEF Handed, Recheck, disk, File
        <5> QED BY <5>2, NoHumans
      <4>3. loc'[p].pc = "undo" => Head(loc'[p].todo).kind # "close" BY <2>h DEF Handed
      <4> QED BY <2>3, <2>4, <3>2, <4>1, <4>2, <4>3 DEF HumansSafe
    <3> QED BY <3>1, <3>2
  <2>6. ASSUME NEW w \in Workspace, NEW op \in Range(journal'[w]) PROVE Faithful(op)'
    <3>0. \A o \in Range(journal[w]) : o \in Operation /\ Faithful(o)
      BY <2>b, RangeType DEF HumansInv
    <3>1. \/ op \in Range(journal[w])
          \/ loc[p].pc \in Publishing /\ Like(op, loc[p].op)
          \/ op.kind = "close" /\ op.id = issued + 1 /\ issued' = issued + 1
      BY <2>0, <2>a, JournalStep
    <3>2. CASE op \in Range(journal[w]) BY <2>2, <3>0, <3>2
    <3>3. CASE loc[p].pc \in Publishing /\ Like(op, loc[p].op)
      <4>1. l.op \in Operation /\ Faithful(l.op) BY <2>b, <3>3 DEF Ready, HumansSafe
      <4>2. PICK o \in Operation : o = l.op BY <4>1
      <4>3. Faithful(o)' BY <2>2, <4>1, <4>2
      <4> QED BY <3>3, <4>2, <4>3 DEF Like, Faithful
    <3>4. CASE op.kind = "close" /\ op.id = issued'
      <4>1. issued' \in Nat BY <2>a DEF StructureInv, TypeOK
      <4> QED BY <3>4, <4>1 DEF Faithful
    <3> QED BY <3>1, <3>2, <3>3, <3>4
  <2> QED BY <2>a, <2>1, <2>5, <2>6 DEF HumansInv
<1> QED BY <1>1, <1>2 DEF Next, Quiet

LEMMA HumansInit == ASSUME Init PROVE HumansInv
<1>1. StructureInv BY StructureInit
<1>2. \A q \in Proc : loc[q] = Idle BY DEF Init
<1>3. Range(Idle.todo) = {} /\ Idle.pc = "idle" BY EmptySeq DEF Idle, Range
<1>4. \A q \in Proc : HumansSafe(loc[q])
  <2> HIDE DEF Idle
  <2> QED BY <1>2, <1>3 DEF HumansSafe, Publishing
<1>5. DOMAIN backup = {} /\ \A w \in Workspace : Range(journal[w]) = {}
  BY EmptySeq DEF Init, Range
<1> QED BY <1>1, <1>4, <1>5 DEF HumansInv

\* Every content that a file starts with ends with a newline; or, when one does
\* not, one package is all that blocks are written for.
AllEnded == \A c \in Contents : \A i \in DOMAIN Lines(c) : Lines(c)[i].ended
OnePackage == \A g, h \in Package : g = h

\* No line runs on into the next one, and removing a block will not make it so:
\* either every line ends with a newline of its own, or a block is the last one.
Neat(c) ==
    \A i \in DOMAIN Lines(c) :
        IF AllEnded
        THEN Lines(c)[i].ended
        ELSE /\ Lines(c)[i].id # 0 => i = Len(Lines(c)) /\ Lines(c)[i].ended
             /\ i + 1 \in DOMAIN Lines(c) => Lines(c)[i].ended \/ Lines(c)[i + 1].sep

LEMMA NeatLines == ASSUME NEW c, Neat(c), NEW i \in DOMAIN Lines(c) PROVE ~ RunsOn(c, i)
BY DEF Neat, RunsOn

LEMMA NothingNeat == Neat(NoFile)
<1>1. DOMAIN Lines(NoFile) = {} BY LinesOf, EmptySeq
<1> QED BY <1>1 DEF Neat

LEMMA StartsNeat == ASSUME NEW c \in Contents PROVE Neat(c)
<1>1. Lines(c) \in Seq(Line) BY ContentsAssumption, LinesType
<1>2. Len(Lines(c)) \in Nat /\ DOMAIN Lines(c) = 1 .. Len(Lines(c)) BY <1>1, LenProperties
<1>3. CASE AllEnded BY <1>3 DEF Neat, AllEnded
<1>4. CASE ~ AllEnded
  <2>1. \A i \in DOMAIN Lines(c) :
          Lines(c)[i].id = 0 /\ (i < Len(Lines(c)) => Lines(c)[i].ended)
    BY ContentsAssumption
  <2>2. \A i \in DOMAIN Lines(c) : i + 1 \in DOMAIN Lines(c) => i < Len(Lines(c)) BY <1>2
  <2> QED BY <1>4, <2>1, <2>2 DEF Neat
<1> QED BY <1>3, <1>4

\* A block is appended where there is none yet, when there is one package.
LEMMA AppendedNeat ==
    ASSUME AllEnded \/ OnePackage, NEW c \in Content, Neat(c),
           NEW id \in Id, NEW w \in Workspace, ~ UnrecordedBlock(c, PackageOf[w])
    PROVE  Neat(Append(Lines(c), ManagedBlock(id, w, NeedsSeparator(c))))
<1> DEFINE s == Lines(c)
           e == ManagedBlock(id, w, NeedsSeparator(c))
           t == Append(s, e)
<1>1. s \in Seq(Line) /\ Len(s) \in Nat /\ DOMAIN s = 1 .. Len(s) /\ \A i \in 1 .. Len(s) : s[i] \in Line
  BY LinesType, LenProperties, ElementOfSeq
<1>2. /\ e \in Line /\ e.id = id /\ e.sep = NeedsSeparator(c) /\ e.ended
      /\ PackageOf[w] \in Package
  BY AttachmentAssumption DEF ManagedBlock, NeedsSeparator, Line, Path, Id
<1> HIDE DEF e
<1>3. /\ t \in Seq(Line) /\ Len(t) = Len(s) + 1 /\ DOMAIN t = 1 .. Len(t)
      /\ \A i \in 1 .. Len(s) : t[i] = s[i]
      /\ t[Len(s) + 1] = e
  BY <1>1, <1>2, AppendProperties, LenProperties
<1>4. Lines(t) = t BY <1>3, LinesOf
<1> HIDE DEF t, s
<1>5. CASE AllEnded
  <2>1. \A i \in 1 .. Len(s) : s[i].ended BY <1>1, <1>5 DEF Neat, s
  <2>2. ASSUME NEW i \in DOMAIN t PROVE t[i].ended
    <3>1. i \in 1 .. Len(s) \/ i = Len(s) + 1 BY <1>1, <1>3
    <3> QED BY <1>2, <1>3, <2>1, <3>1
  <2>3. Neat(t) BY <1>4, <1>5, <2>2 DEF Neat
  <2> QED BY <2>3 DEF t, s, e
<1>6. CASE ~ AllEnded
  <2>1. \A i \in 1 .. Len(s) : s[i].id = 0
    <3>1. \A i \in 1 .. Len(s) : s[i].pkg = PackageOf[w]
      BY <1>1, <1>2, <1>6 DEF OnePackage, Line
    <3> QED BY <1>1, <3>1 DEF UnrecordedBlock, s
  <2>2. \A i \in 1 .. Len(s) : i + 1 \in 1 .. Len(s) => s[i].ended \/ s[i + 1].sep
    BY <1>1, <1>6 DEF Neat, s
  <2>3. Len(s) \in 1 .. Len(s) => s[Len(s)].ended \/ e.sep
    <3>1. SUFFICES ASSUME Len(s) # 0, ~ s[Len(s)].ended PROVE NeedsSeparator(c)
      BY <1>1, <1>2
    <3>2. s # <<>> /\ Last(s) = s[Len(s)] BY <1>1, <3>1, EmptySeq DEF Last
    <3> QED BY <3>1, <3>2 DEF NeedsSeparator, s
  <2>4. ASSUME NEW i \in DOMAIN t
        PROVE  /\ t[i].id # 0 => i = Len(t) /\ t[i].ended
               /\ i + 1 \in DOMAIN t => t[i].ended \/ t[i + 1].sep
    <3>1. CASE i = Len(s) + 1
      <4>1. i + 1 \notin DOMAIN t BY <1>1, <1>3, <3>1
      <4> QED BY <1>2, <1>3, <3>1, <4>1
    <3>2. CASE i \in 1 .. Len(s) /\ i + 1 \in 1 .. Len(s)
      BY <1>3, <2>1, <2>2, <3>2
    <3>3. CASE i = Len(s) /\ i \in 1 .. Len(s) BY <1>3, <2>1, <2>3, <3>3
    <3>4. i = Len(s) + 1 \/ (i \in 1 .. Len(s) /\ (i + 1 \in 1 .. Len(s) \/ i = Len(s)))
      BY <1>1, <1>3
    <3> QED BY <3>1, <3>2, <3>3, <3>4
  <2>5. Neat(t) BY <1>4, <1>6, <2>4 DEF Neat
  <2> QED BY <2>5 DEF t, s, e
<1> QED BY <1>5, <1>6

\* Removing a block, which nothing follows when a line may lack its newline.
LEMMA RemovedNeat ==
    ASSUME NEW c \in Content, Neat(c), NEW id \in Id
    PROVE  Neat(Restored(c, id))
<1> DEFINE s == Lines(c)
           m == Min(Places(s, id))
           t == Removed(s, id)
<1>1. s \in Seq(Line) /\ Len(s) \in Nat /\ DOMAIN s = 1 .. Len(s)
  BY LinesType, LenProperties
<1>2. t \in Seq(Line) /\ Lines(t) = t BY <1>1, RemovedProperties, LinesOf
<1>3. t = Restored(c, id) BY DEF Restored
<1>4. CASE Places(s, id) = {}
  <2>1. Lines(t) = Lines(c) BY <1>2, <1>4 DEF Removed
  <2> HIDE DEF t
  <2>2. Neat(t) BY <2>1 DEF Neat
  <2> QED BY <1>3, <2>2
<1>5. CASE Places(s, id) # {}
  <2>1. m \in DOMAIN s /\ s[m].id = id BY <1>1, <1>5, PlacesProperties
  <2>2. t = RemoveAt(s, m) BY <1>5 DEF Removed
  <2> HIDE DEF m
  <2>3. /\ Len(t) = Len(s) - 1 /\ DOMAIN t = 1 .. Len(s) - 1
        /\ \A k \in 1 .. Len(s) - 1 : t[k] = IF k < m THEN s[k] ELSE s[k + 1]
    BY <1>1, <1>2, <2>1, <2>2, RemoveAtProperties, LenProperties
  <2> HIDE DEF t, s
  <2>4. CASE AllEnded
    <3>1. \A i \in 1 .. Len(s) : s[i].ended BY <1>1, <2>4 DEF Neat, s
    <3>2. ASSUME NEW k \in 1 .. Len(s) - 1 PROVE t[k].ended
      <4>1. k \in 1 .. Len(s) /\ k + 1 \in 1 .. Len(s) BY <1>1
      <4> QED BY <2>3, <3>1, <4>1
    <3>3. Neat(t) BY <1>2, <2>3, <2>4, <3>2 DEF Neat
    <3> QED BY <1>3, <3>3
  <2>5. CASE ~ AllEnded
    <3>1. \A i \in 1 .. Len(s) :
            /\ s[i].id # 0 => i = Len(s) /\ s[i].ended
            /\ i + 1 \in 1 .. Len(s) => s[i].ended \/ s[i + 1].sep
      BY <1>1, <2>5 DEF Neat, s
    <3>2. m = Len(s) BY <1>1, <2>1, <3>1 DEF Id
    <3>3. \A k \in 1 .. Len(s) - 1 : t[k] = s[k] /\ k < Len(s) BY <1>1, <2>3, <3>2
    <3>4. ASSUME NEW k \in 1 .. Len(s) - 1
          PROVE  /\ ~ (t[k].id # 0)
                 /\ k + 1 \in 1 .. Len(s) - 1 => t[k].ended \/ t[k + 1].sep
      <4>0. Len(s) \in Nat /\ k \in Nat /\ 1 <= k /\ k <= Len(s) - 1 BY <1>1
      <4>1. k \in 1 .. Len(s) /\ k # Len(s) BY <4>0
      <4>2. t[k] = s[k] /\ (k + 1 \in 1 .. Len(s) - 1 => t[k + 1] = s[k + 1])
        BY <3>3
      <4>3. k + 1 \in 1 .. Len(s) - 1 => k + 1 \in 1 .. Len(s) BY <1>1
      <4> QED BY <3>1, <4>1, <4>2, <4>3
    <3>5. Neat(t) BY <1>2, <2>3, <2>5, <3>4 DEF Neat
    <3> QED BY <1>3, <3>5
  <2> QED BY <2>4, <2>5
<1> QED BY <1>4, <1>5

NeatLocals(l) ==
    /\ l.pc = "stage" =>
          Neat(l.orig) /\ (l.kind = "attach" => ~ UnrecordedBlock(l.orig, PackageOf[l.ws]))
    /\ l.pc \in Publishing => Neat(l.op.new)

\* What is in the files, and what may be put into them, is neat.
NeatInv ==
    /\ StructureInv
    /\ \A c \in Config : Neat(file[c])
    /\ \A id \in DOMAIN backup : Neat(backup[id])
    /\ \A q \in Proc : NeatLocals(loc[q])

LEMMA NeatStaged ==
    ASSUME AllEnded \/ OnePackage, NeatInv, NEW p \in Proc, Stage(p)
    PROVE  Neat(loc'[p].op.new)
<1> DEFINE l == loc[p]
           id == issued + 1
           new == NewContent(p, id)
           op == [id |-> id, kind |-> StepKind(p), cfg |-> l.cfg,
                  phase |-> "prepared", published |-> FALSE,
                  remove |-> FALSE, backed |-> File(p) # NoFile,
                  old |-> NoFile, new |-> new]
<1>0. /\ l \in Local /\ Ready(l, l.pc) /\ NeatLocals(l) /\ id \in Id
      /\ loc \in [Proc -> Local] /\ l.pc = "stage"
  BY DEF NeatInv, StructureInv, Presence, TypeOK, Stage, At, Id
<1>1. /\ l.orig \in Content /\ Neat(l.orig) /\ l.ws \in Workspace
      /\ l.kind # "attach" => l.att.id \in Id
      /\ l.kind = "attach" => ~ UnrecordedBlock(l.orig, PackageOf[l.ws])
  BY <1>0 DEF Ready, Local, NeatLocals, Attachment
<1>2. Neat(new)
  <2> HIDE DEF id
  <2>1. CASE l.kind = "attach"
    BY <1>0, <1>1, <2>1, AppendedNeat DEF NewContent
  <2>2. CASE l.kind # "attach"
    BY <1>1, <2>2, RemovedNeat DEF NewContent
  <2> QED BY <2>1, <2>2
<1> HIDE DEF new
<1>3. loc' = [loc EXCEPT ![p].pc = "prepare", ![p].op = op] BY DEF Stage, new
<1>4. op.new = new OBVIOUS
<1> HIDE DEF op
<1>5. loc'[p].op = op BY <1>0, <1>3 DEF Local
<1> QED BY <1>2, <1>4, <1>5

LEMMA NeatStep ==
    ASSUME AllEnded \/ OnePackage, NeatInv, [Next]_vars PROVE NeatInv'
<1>1. CASE UNCHANGED vars
  BY <1>1, StructureStep DEF NeatInv, NeatLocals, vars, disk
<1>2. CASE \E p \in Proc : BeginSome(p) \/ Step(p) \/ Crash(p)
  <2>0. PICK p \in Proc : BeginSome(p) \/ Step(p) \/ Crash(p) BY <1>2
  <2> DEFINE l == loc[p]
  <2>a. StructureInv /\ StructureInv' BY <2>0, TypesStep DEF NeatInv
  <2>b. /\ loc \in [Proc -> Local] /\ l \in Local /\ Ready(l, l.pc) /\ NeatLocals(l)
        /\ file \in [Config -> Content] /\ Neat(NoFile)
        /\ \A c \in Config : Neat(file[c])
        /\ \A id \in DOMAIN backup : Neat(backup[id])
    BY <2>a, NothingNeat DEF NeatInv, StructureInv, Presence, TypeOK
  <2>h. Handed(p) /\ Stepped(p) BY <2>0, <2>a, HandedStep, LocalsStep
  <2>w. ASSUME NEW id, backup' = Without(backup, id)
        PROVE  \A x \in DOMAIN backup' : Neat(backup'[x])
    BY <2>b, <2>w DEF Without
  <2>f. ASSUME NEW c, NEW d, Neat(d), file' = [file EXCEPT ![c] = d]
        PROVE  \A x \in Config : Neat(file'[x])
    BY <2>b, <2>f
  <2>1. (\A c \in Config : Neat(file'[c])) /\ \A id \in DOMAIN backup' : Neat(backup'[id])
    <3>1. CASE Undo(p)
      <4>1. \/ file' = file
            \/ file' = [file EXCEPT ![Item(p).cfg] = NoFile]
            \/ Item(p).id \in DOMAIN backup
                 /\ file' = [file EXCEPT ![Item(p).cfg] = backup[Item(p).id]]
        BY <3>1 DEF Undo
      <4>2. backup' = backup \/ backup' = Without(backup, Item(p).id) BY <3>1 DEF Undo
      <4>3. \A c \in Config : Neat(file'[c]) BY <2>b, <2>f, <4>1
      <4> QED BY <2>b, <2>w, <4>2, <4>3
    <3>2. CASE Clean(p) BY <3>2, <2>b, <2>w DEF Clean
    <3>3. CASE Stage(p)
      <4>1. /\ file' = file
            /\ \/ backup' = backup
               \/ backup' = [x \in DOMAIN backup \cup {issued + 1} |->
                                IF x = issued + 1 THEN file[l.cfg] ELSE backup[x]]
        BY <3>3 DEF Stage, With, File
      <4>2. l.cfg \in Config BY <2>b, <3>3 DEF Stage, At, Ready
      <4> QED BY <2>b, <4>1, <4>2
    <3>4. CASE Replace(p)
      <4>1. Neat(l.op.new) BY <2>b, <3>4 DEF Replace, At, NeatLocals, Publishing
      <4>2. backup' = backup /\ (file' = file \/ file' = [file EXCEPT ![l.op.cfg] = l.op.new])
        BY <3>4 DEF Replace
      <4> QED BY <2>b, <2>f, <4>1, <4>2
    <3>5. CASE UnlinkEmpty(p)
      <4>1. backup' = backup /\ (file' = file \/ file' = [file EXCEPT ![l.cfg] = NoFile])
        BY <3>5 DEF UnlinkEmpty
      <4> QED BY <2>b, <2>f, <4>1
    <3>6. CASE Tidy(p) BY <3>6, <2>b, <2>w DEF Tidy
    <3>7. CASE UNCHANGED disk BY <3>7, <2>b DEF disk
    <3> QED BY <2>0, <3>1, <3>2, <3>3, <3>4, <3>5, <3>6, <3>7, Frames
  <2>2. ASSUME loc'[p].pc = "stage" PROVE NeatLocals(loc'[p])
    <3>1. ReadOverride(p) /\ loc'[p].orig = File(p) BY <2>2, <2>h DEF Handed
    <3>2. /\ l.kind = "attach" => ~ UnrecordedBlock(File(p), Pkg(p))
          /\ loc' = [loc EXCEPT ![p].pc = "stage", ![p].orig = File(p)]
      BY <2>2, <2>b, <3>1 DEF ReadOverride, End, Idle
    <3>3. loc'[p].kind = l.kind /\ loc'[p].ws = l.ws BY <2>b, <3>2 DEF Local
    <3>4. l.cfg \in Config BY <2>b, <3>1 DEF ReadOverride, At, Ready
    <3>5. Neat(File(p)) BY <2>b, <3>4 DEF File
    <3> QED BY <2>2, <3>1, <3>2, <3>3, <3>5 DEF NeatLocals, Pkg, Publishing
  <2>3. ASSUME loc'[p].pc \in Publishing PROVE NeatLocals(loc'[p])
    <3>1. loc'[p].pc # "stage" BY <2>3 DEF Publishing
    <3>2. CASE Stage(p) BY <3>1, <3>2, NeatStaged DEF NeatLocals
    <3>3. CASE l.pc \in Publishing /\ Like(loc'[p].op, l.op)
      BY <2>b, <3>1, <3>3 DEF NeatLocals, Like
    <3> QED BY <2>3, <2>h, <3>2, <3>3 DEF Handed
  <2>4. ASSUME NEW q \in Proc PROVE NeatLocals(loc'[q])
    <3>1. CASE q # p BY <2>h, <3>1 DEF NeatInv, Stepped
    <3>2. CASE q = p BY <2>2, <2>3, <3>2 DEF NeatLocals
    <3> QED BY <3>1, <3>2
  <2>5. \A q \in Proc : NeatLocals(loc[q])' BY <2>4 DEF NeatLocals
  <2> QED BY <2>a, <2>1, <2>5 DEF NeatInv, Neat
<1> QED BY <1>1, <1>2 DEF Next, Quiet

LEMMA NeatInit == ASSUME Init PROVE NeatInv
<1>1. StructureInv BY StructureInit
<1>2. \A c \in Config : Neat(file[c]) BY StartsNeat DEF Init
<1>3. DOMAIN backup = {} BY EmptySeq DEF Init
<1>4. \A q \in Proc : NeatLocals(loc[q]) BY DEF Init, Idle, NeatLocals, Publishing
<1> QED BY <1>1, <1>2, <1>3, <1>4 DEF NeatInv

\* No interleaving, rollback or kill makes the manager add, drop or reorder a
\* line a human wrote, nor join one to what follows it: what attach_workspace
\* and detach_workspace publish, and what recovery puts back from a .bak file or
\* by unlinking a file that was created, has the human lines of the file it
\* replaces, whichever they are.  Where every file ends with a newline this
\* holds of any packages, else when they are of one package (see HumanLinesKept
\* for what happens to others).
THEOREM HumanLinesStay ==
    ASSUME AllEnded \/ OnePackage
    PROVE  Spec => HumanLinesKept
<1> DEFINE Kept == \A c \in Config :
                       /\ SameHumanLines(file[c], file'[c])
                       /\ \A i \in Humans(file'[c]) : ~ RunsOn(file'[c], i)
<1>1. ASSUME HumansInv, NeatInv, [Next]_vars PROVE [Kept]_vars
  <2>1. CASE UNCHANGED vars BY <2>1
  <2>2. CASE \E p \in Proc : BeginSome(p) \/ Step(p) \/ Crash(p)
    <3>1. \A c \in Config : SameHumanLines(file[c], file'[c]) BY <1>1, <2>2, FilesStep
    <3>2. NeatInv' BY <1>1, NeatStep
    <3>3. \A c \in Config : Neat(file'[c]) BY <3>2 DEF NeatInv, Neat
    <3>4. \A c \in Config : \A i \in Humans(file'[c]) : ~ RunsOn(file'[c], i)
      BY <3>3, NeatLines DEF Humans, Places
    <3> QED BY <3>1, <3>4
  <2> QED BY <1>1, <2>1, <2>2 DEF Next, Quiet
<1>2. NeatInv /\ [Next]_vars => NeatInv' BY NeatStep
<1>3. Init => NeatInv BY NeatInit
<1> QED BY <1>1, <1>2, <1>3, HumansInit, HumansStep, PTL DEF Spec, HumanLinesKept

\* A recovering or detaching process has the attachment it found recorded.
Detaching(l) ==
    /\ l.kind # "attach"
    /\ \/ l.pc \in {"read", "stage"} \cup (Publishing \ {"rollback", "tidy", "finish"})
       \/ l.pc \in Recovering \cup {"pending"} /\ l.after = "read"

CellOf(l) == <<l.cfg, PackageOf[l.ws]>>

\* From its own recovery until its completion an attach or detach has the
\* journal of its workspace for itself.
Alone(l) ==
    \/ Detaching(l)
    \/ /\ l.kind = "attach"
       /\ \/ l.pc \in {"row", "read", "stage"} \cup (Publishing \ {"rollback", "tidy", "finish"})
          \/ l.pc \in Recovering \cup {"pending"} /\ l.after = "row"

RowSafe(l) ==
    /\ l.pc \notin {"idle", "locking"} => PackageIn(l) = PackageOf[l.ws]
    /\ l.kind = "attach"
          /\ l.pc \in {"read", "stage"} \cup (Publishing \ {"tidy", "finish"})
          => row[CellOf(l)] = None
    /\ l.kind = "attach" /\ l.pc \in Publishing
          => \A w \in Workspace \ {l.ws} : \A op \in Range(journal[w]) : op.id # l.op.id
    /\ Detaching(l) => row[CellOf(l)] # None /\ row[CellOf(l)].ws = l.ws
    /\ Alone(l) /\ l.pc \in Recovering => Range(journal[l.ws]) \subseteq Range(l.todo)
    /\ Alone(l) /\ l.pc \notin Recovering \cup {"pending"} =>
          \A op \in Range(journal[l.ws]) : l.pc \in Publishing /\ op.id = l.op.id
    /\ l.kind = "close" /\ (Detaching(l) \/ l.pc \in {"next", "rollback", "tidy", "finish"})
          => \A cp \in l.rest : row[cp] # None => row[cp].ws = l.ws

\* The journal of a workspace has an operation once.
DistinctIn(log) == \A i, j \in DOMAIN log : log[i].id = log[j].id => i = j

Agrees(w, op) ==
    op.kind = "attach" =>
        LET found == row[<<op.cfg, PackageOf[w]>>]
        IN  IF op.phase = "complete"
            THEN found # None /\ found.id = op.id /\ found.ws = w
            ELSE found = None \/ found.id # op.id

AgreesDetached(w, op) ==
    op.kind = "detach" =>
        LET found == row[<<op.cfg, PackageOf[w]>>]
        IN  IF op.phase = "complete"
            THEN found = None \/ found.ws # w
            ELSE found # None /\ found.ws = w

RowsInv ==
    /\ RegistryInv /\ HumansInv
    /\ \A w \in Workspace : DistinctIn(journal[w]) /\ \A op \in Range(journal[w]) : Agrees(w, op)
    /\ \A w \in Workspace : \A op \in Range(journal[w]) : AgreesDetached(w, op)
    /\ \A q \in Proc : RowSafe(loc[q])
    /\ \A q, r \in Proc :
          q # r /\ loc[q].pc \in Publishing /\ loc[r].pc \in Publishing
              => loc[q].op.id # loc[r].op.id

\* Where the conditions of RowSafe after a step come from.
Passed(p) ==
    /\ loc'[p].kind = "attach"
          /\ loc'[p].pc \in {"read", "stage"} \cup (Publishing \ {"tidy", "finish"})
          => \/ LookUpRow(p) /\ loc'[p].pc = "read"
             \/ loc[p].pc \in {"read", "stage"} \cup (Publishing \ {"tidy", "finish"})
    /\ Detaching(loc'[p]) => Detaching(loc[p]) \/ LockDetach(p) \/ DetachNext(p)
    /\ Detaching(loc'[p]) => ~ CompleteAttachment(p)
    /\ Alone(loc'[p]) /\ loc'[p].pc \in Recovering
          => /\ Alone(loc[p])
             /\ \/ Pending(p) /\ loc'[p].todo = journal[loc[p].ws]
                \/ loc[p].pc \in Recovering /\ ~ Forget(p) /\ loc'[p].todo = loc[p].todo
                \/ Forget(p) /\ loc'[p].todo = Tail(loc[p].todo)
    /\ Alone(loc'[p]) /\ loc'[p].pc \notin Recovering \cup {"pending"}
          => /\ Alone(loc[p])
             /\ \/ /\ loc[p].pc \notin Recovering \cup {"pending"}
                   /\ loc[p].pc \in Publishing => loc'[p].pc \in Publishing
                \/ Recover(p) /\ loc[p].todo = <<>>
    /\ loc'[p].kind = "close" /\ (Detaching(loc'[p])
                                  \/ loc'[p].pc \in {"next", "rollback", "tidy", "finish"})
          => \/ Preflight(p) /\ loc'[p].rest = Attached(loc[p].ws)
             \/ /\ loc'[p].rest \subseteq loc[p].rest
                /\ Detaching(loc[p]) \/ loc[p].pc \in {"next", "rollback", "tidy", "finish"}

LEMMA PassedEnd == ASSUME NEW p \in Proc, loc'[p].pc = "idle" PROVE Passed(p)
BY DEF Passed, Alone, Detaching, Publishing, Recovering

LEMMA PassedStep ==
    ASSUME StructureInv, NEW p \in Proc, Step(p) \/ Crash(p)
    PROVE  Passed(p)
<1> DEFINE l == loc[p]
<1>0. /\ loc \in [Proc -> Local] /\ l \in Local /\ Ready(l, l.pc)
  BY DEF StructureInv, Presence, TypeOK
<1>e. End(p) => Passed(p)
  <2>1. End(p) => loc'[p].pc = "idle" BY <1>0 DEF End, Idle
  <2> QED BY <2>1, PassedEnd
<1>pc. \A x : At(p, x) => l.pc = x BY DEF At
<1>act. /\ CompleteAttachment(p) => l.pc = "complete"
        /\ Forget(p) => l.pc = "forget"
  BY DEF CompleteAttachment, Forget, At
<1>1. CASE Undo(p)
  <2>1. (\E x \in {"clean"} : Go(p, x)) \/ End(p) BY <1>1 DEF Undo
  <2>2. ASSUME NEW x \in {"clean"}, Go(p, x) PROVE Passed(p)
    <3>1. l.pc = "undo" BY <1>1 DEF Undo, At
    <3>2. /\ loc'[p].pc = x /\ loc'[p].kind = l.kind /\ loc'[p].after = l.after
          /\ loc'[p].todo = l.todo /\ loc'[p].rest = l.rest
      BY <1>0, <2>2, GoProgress
    <3> QED BY <1>0, <1>1, <1>act, <3>1, <3>2
               DEF Passed, Alone, Detaching, Publishing, Recovering, Ready
  <2> QED BY <1>e, <2>1, <2>2
<1>2. CASE Clean(p)
  <2>1. (\E x \in {"forget"} : Go(p, x)) \/ End(p) BY <1>2 DEF Clean
  <2>2. ASSUME NEW x \in {"forget"}, Go(p, x) PROVE Passed(p)
    <3>1. l.pc = "clean" BY <1>2 DEF Clean, At
    <3>2. /\ loc'[p].pc = x /\ loc'[p].kind = l.kind /\ loc'[p].after = l.after
          /\ loc'[p].todo = l.todo /\ loc'[p].rest = l.rest
      BY <1>0, <2>2, GoProgress
    <3> QED BY <1>0, <1>2, <1>act, <3>1, <3>2
               DEF Passed, Alone, Detaching, Publishing, Recovering, Ready
  <2> QED BY <1>e, <2>1, <2>2
<1>3. CASE LookUpRow(p)
  <2>1. (\E x \in {"read"} : Go(p, x)) \/ End(p) BY <1>3 DEF LookUpRow
  <2>2. ASSUME NEW x \in {"read"}, Go(p, x) PROVE Passed(p)
    <3>1. l.pc = "row" BY <1>3 DEF LookUpRow, At
    <3>2. /\ loc'[p].pc = x /\ loc'[p].kind = l.kind /\ loc'[p].after = l.after
          /\ loc'[p].todo = l.todo /\ loc'[p].rest = l.rest
      BY <1>0, <2>2, GoProgress
    <3> QED BY <1>0, <1>3, <1>act, <3>1, <3>2
               DEF Passed, Alone, Detaching, Publishing, Recovering, Ready
  <2> QED BY <1>e, <2>1, <2>2
<1>4. CASE Check(p)
  <2>1. (\E x \in {"replace"} : Go(p, x)) \/ End(p) BY <1>4 DEF Check
  <2>2. ASSUME NEW x \in {"replace"}, Go(p, x) PROVE Passed(p)
    <3>1. l.pc = "check" BY <1>4 DEF Check, At
    <3>2. /\ loc'[p].pc = x /\ loc'[p].kind = l.kind /\ loc'[p].after = l.after
          /\ loc'[p].todo = l.todo /\ loc'[p].rest = l.rest
      BY <1>0, <2>2, GoProgress
    <3> QED BY <1>0, <1>4, <1>act, <3>1, <3>2
               DEF Passed, Alone, Detaching, Publishing, Recovering, Ready
  <2> QED BY <1>e, <2>1, <2>2
<1>5. CASE Replace(p)
  <2>1. (\E x \in {"mark"} : Go(p, x)) \/ End(p) BY <1>5 DEF Replace
  <2>2. ASSUME NEW x \in {"mark"}, Go(p, x) PROVE Passed(p)
    <3>1. l.pc = "replace" BY <1>5 DEF Replace, At
    <3>2. /\ loc'[p].pc = x /\ loc'[p].kind = l.kind /\ loc'[p].after = l.after
          /\ loc'[p].todo = l.todo /\ loc'[p].rest = l.rest
      BY <1>0, <2>2, GoProgress
    <3> QED BY <1>0, <1>5, <1>act, <3>1, <3>2
               DEF Passed, Alone, Detaching, Publishing, Recovering, Ready
  <2> QED BY <1>e, <2>1, <2>2
<1>6. CASE Recheck(p)
  <2>1. (\E x \in {"unlink", "rollback"} : Go(p, x)) \/ End(p) BY <1>6 DEF Recheck
  <2>2. ASSUME NEW x \in {"unlink", "rollback"}, Go(p, x) PROVE Passed(p)
    <3>1. l.pc = "recheck" BY <1>6 DEF Recheck, At
    <3>2. /\ loc'[p].pc = x /\ loc'[p].kind = l.kind /\ loc'[p].after = l.after
          /\ loc'[p].todo = l.todo /\ loc'[p].rest = l.rest
      BY <1>0, <2>2, GoProgress
    <3> QED BY <1>0, <1>6, <1>act, <3>1, <3>2
               DEF Passed, Alone, Detaching, Publishing, Recovering, Ready
  <2> QED BY <1>e, <2>1, <2>2
<1>7. CASE UnlinkEmpty(p)
  <2>1. (\E x \in {"rollback", "markremove"} : Go(p, x)) \/ End(p) BY <1>7 DEF UnlinkEmpty
  <2>2. ASSUME NEW x \in {"rollback", "markremove"}, Go(p, x) PROVE Passed(p)
    <3>1. l.pc = "unlink" BY <1>7 DEF UnlinkEmpty, At
    <3>2. /\ loc'[p].pc = x /\ loc'[p].kind = l.kind /\ loc'[p].after = l.after
          /\ loc'[p].todo = l.todo /\ loc'[p].rest = l.rest
      BY <1>0, <2>2, GoProgress
    <3> QED BY <1>0, <1>7, <1>act, <3>1, <3>2
               DEF Passed, Alone, Detaching, Publishing, Recovering, Ready
  <2> QED BY <1>e, <2>1, <2>2
<1>8. CASE Verify(p)
  <2>1. (\E x \in {"complete", "rollback"} : Go(p, x)) \/ End(p) BY <1>8 DEF Verify
  <2>2. ASSUME NEW x \in {"complete", "rollback"}, Go(p, x) PROVE Passed(p)
    <3>1. l.pc = "verify" BY <1>8 DEF Verify, At
    <3>2. /\ loc'[p].pc = x /\ loc'[p].kind = l.kind /\ loc'[p].after = l.after
          /\ loc'[p].todo = l.todo /\ loc'[p].rest = l.rest
      BY <1>0, <2>2, GoProgress
    <3> QED BY <1>0, <1>8, <1>act, <3>1, <3>2
               DEF Passed, Alone, Detaching, Publishing, Recovering, Ready
  <2> QED BY <1>e, <2>1, <2>2
<1>9. CASE CompleteAttachment(p)
  <2>1. (\E x \in {"rollback", "tidy"} : Go(p, x)) \/ End(p) BY <1>9 DEF CompleteAttachment
  <2>2. ASSUME NEW x \in {"rollback", "tidy"}, Go(p, x) PROVE Passed(p)
    <3>1. l.pc = "complete" BY <1>9 DEF CompleteAttachment, At
    <3>2. /\ loc'[p].pc = x /\ loc'[p].kind = l.kind /\ loc'[p].after = l.after
          /\ loc'[p].todo = l.todo /\ loc'[p].rest = l.rest
      BY <1>0, <2>2, GoProgress
    <3> QED BY <1>0, <1>9, <1>act, <3>1, <3>2
               DEF Passed, Alone, Detaching, Publishing, Recovering, Ready
  <2> QED BY <1>e, <2>1, <2>2
<1>10. CASE Tidy(p)
  <2>1. (\E x \in {"finish"} : Go(p, x)) \/ End(p) BY <1>10 DEF Tidy
  <2>2. ASSUME NEW x \in {"finish"}, Go(p, x) PROVE Passed(p)
    <3>1. l.pc = "tidy" BY <1>10 DEF Tidy, At
    <3>2. /\ loc'[p].pc = x /\ loc'[p].kind = l.kind /\ loc'[p].after = l.after
          /\ loc'[p].todo = l.todo /\ loc'[p].rest = l.rest
      BY <1>0, <2>2, GoProgress
    <3> QED BY <1>0, <1>10, <1>act, <3>1, <3>2
               DEF Passed, Alone, Detaching, Publishing, Recovering, Ready
  <2> QED BY <1>e, <2>1, <2>2
<1>11. CASE LockWorkspace(p)
  <2>1. CASE loc' = [loc EXCEPT ![p].pc = "pending", ![p].seen = Effective(File(p), Pkg(p))]
    <3>1. l.pc = "locking" BY <1>11 DEF LockWorkspace, At
    <3>2. /\ loc'[p].pc = "pending" /\ loc'[p].kind = l.kind /\ loc'[p].after = l.after
          /\ loc'[p].todo = l.todo /\ loc'[p].rest = l.rest
      BY <1>0, <2>1 DEF Local
    <3> QED BY <1>0, <1>11, <1>act, <3>1, <3>2
               DEF Passed, Alone, Detaching, Publishing, Recovering, Ready
  <2>2. loc' = [loc EXCEPT ![p].pc = "pending", ![p].seen = Effective(File(p), Pkg(p))] \/ End(p)
    BY <1>11 DEF LockWorkspace
  <2> QED BY <1>e, <2>1, <2>2
<1>12. CASE LockDetach(p)
  <2>1. CASE loc' = [loc EXCEPT ![p].pc = "pending", ![p].att = row[<<l.cfg, l.pkg>>],
                     ![p].ws = row[<<l.cfg, l.pkg>>].ws, ![p].after = "read"]
    <3>1. l.pc = "locking" BY <1>12 DEF LockDetach, At
    <3>2. loc'[p].pc = "pending" /\ loc'[p].kind = l.kind BY <1>0, <2>1 DEF Local
    <3> QED BY <1>0, <1>12, <1>act, <3>1, <3>2
               DEF Passed, Alone, Detaching, Publishing, Recovering, Ready, LockDetach
  <2>2. loc' = [loc EXCEPT ![p].pc = "pending", ![p].att = row[<<l.cfg, l.pkg>>],
                     ![p].ws = row[<<l.cfg, l.pkg>>].ws, ![p].after = "read"] \/ End(p)
    BY <1>12 DEF LockDetach
  <2> QED BY <1>e, <2>1, <2>2
<1>13. CASE ReadOverride(p)
  <2>1. CASE loc' = [loc EXCEPT ![p].pc = "stage", ![p].orig = File(p)]
    <3>1. l.pc = "read" BY <1>13 DEF ReadOverride, At
    <3>2. /\ loc'[p].pc = "stage" /\ loc'[p].kind = l.kind /\ loc'[p].after = l.after
          /\ loc'[p].todo = l.todo /\ loc'[p].rest = l.rest
      BY <1>0, <2>1 DEF Local
    <3> QED BY <1>0, <1>13, <1>act, <3>1, <3>2
               DEF Passed, Alone, Detaching, Publishing, Recovering, Ready
  <2>2. loc' = [loc EXCEPT ![p].pc = "stage", ![p].orig = File(p)] \/ End(p)
    BY <1>13 DEF ReadOverride
  <2> QED BY <1>e, <2>1, <2>2
<1>14. CASE Prepare(p)
  <2>1. CASE loc' = [loc EXCEPT ![p].pc = "check", ![p].op = [l.op EXCEPT !.old = File(p)]]
    <3>1. l.pc = "prepare" BY <1>14 DEF Prepare, At
    <3>2. /\ loc'[p].pc = "check" /\ loc'[p].kind = l.kind /\ loc'[p].after = l.after
          /\ loc'[p].todo = l.todo /\ loc'[p].rest = l.rest
      BY <1>0, <2>1 DEF Local
    <3> QED BY <1>0, <1>14, <1>act, <3>1, <3>2
               DEF Passed, Alone, Detaching, Publishing, Recovering, Ready
  <2>2. loc' = [loc EXCEPT ![p].pc = "check", ![p].op = [l.op EXCEPT !.old = File(p)]]
    BY <1>14 DEF Prepare
  <2> QED BY <1>e, <2>1, <2>2
<1>15. CASE MarkRemoved(p)
  <2>1. CASE loc' = [loc EXCEPT ![p].pc = "verify", ![p].op = [l.op EXCEPT !.remove = TRUE]]
    <3>1. l.pc = "markremove" BY <1>15 DEF MarkRemoved, At
    <3>2. /\ loc'[p].pc = "verify" /\ loc'[p].kind = l.kind /\ loc'[p].after = l.after
          /\ loc'[p].todo = l.todo /\ loc'[p].rest = l.rest
      BY <1>0, <2>1 DEF Local
    <3> QED BY <1>0, <1>15, <1>act, <3>1, <3>2
               DEF Passed, Alone, Detaching, Publishing, Recovering, Ready
  <2>2. loc' = [loc EXCEPT ![p].pc = "verify", ![p].op = [l.op EXCEPT !.remove = TRUE]]
    BY <1>15 DEF MarkRemoved
  <2> QED BY <1>e, <2>1, <2>2
<1>16. CASE Preflight(p)
  <2>1. CASE loc' = [loc EXCEPT ![p].pc = "next", ![p].rest = Attached(l.ws)]
    <3>1. l.pc = "preflight" BY <1>16 DEF Preflight, At
    <3>2. /\ loc'[p].pc = "next" /\ loc'[p].kind = l.kind /\ loc'[p].after = l.after
          /\ loc'[p].rest = Attached(l.ws)
      BY <1>0, <2>1 DEF Local
    <3> QED BY <1>0, <1>16, <1>act, <3>1, <3>2
               DEF Passed, Alone, Detaching, Publishing, Recovering, Ready
  <2>2. loc' = [loc EXCEPT ![p].pc = "next", ![p].rest = Attached(l.ws)] \/ End(p)
    BY <1>16 DEF Preflight
  <2> QED BY <1>e, <2>1, <2>2
<1>17. CASE Forget(p)
  <2>1. CASE loc' = [loc EXCEPT ![p].pc = "recover", ![p].todo = Tail(@)]
    <3>1. l.pc = "forget" BY <1>17 DEF Forget, At
    <3>2. /\ loc'[p].pc = "recover" /\ loc'[p].kind = l.kind /\ loc'[p].after = l.after
          /\ loc'[p].todo = Tail(l.todo) /\ loc'[p].rest = l.rest
      BY <1>0, <2>1 DEF Local
    <3> QED BY <1>0, <1>17, <1>act, <3>1, <3>2
               DEF Passed, Alone, Detaching, Publishing, Recovering, Ready
  <2>2. loc' = [loc EXCEPT ![p].pc = "recover", ![p].todo = Tail(@)] BY <1>17 DEF Forget
  <2> QED BY <1>e, <2>1, <2>2
<1>18. CASE Stage(p)
  <2>1. PICK op : loc' = [loc EXCEPT ![p].pc = "prepare", ![p].op = op] BY <1>18 DEF Stage
  <2>2. l.pc = "stage" BY <1>18 DEF Stage, At
  <2>3. /\ loc'[p].pc = "prepare" /\ loc'[p].kind = l.kind /\ loc'[p].after = l.after
        /\ loc'[p].todo = l.todo /\ loc'[p].rest = l.rest
    BY <1>0, <2>1 DEF Local
  <2> QED BY <1>0, <1>18, <1>act, <2>2, <2>3 DEF Passed, Alone, Detaching, Publishing, Recovering
<1>19. CASE SaveClose(p)
  <2>1. PICK op : loc' = [loc EXCEPT ![p].pc = "retire", ![p].op = op]
    BY <1>19 DEF SaveClose
  <2>2. l.pc = "saveclose" BY <1>19 DEF SaveClose, At
  <2>3. /\ loc'[p].pc = "retire" /\ loc'[p].kind = l.kind /\ loc'[p].after = l.after
        /\ loc'[p].todo = l.todo /\ loc'[p].rest = l.rest
    BY <1>0, <2>1 DEF Local
  <2> QED BY <1>0, <1>19, <1>act, <2>2, <2>3 DEF Passed, Alone, Detaching, Publishing, Recovering
<1>20. CASE MarkPublished(p)
  <2>o. PICK op : op = [l.op EXCEPT !.published = TRUE, !.phase = "published"] OBVIOUS
  <2>1. PICK x \in {"recheck", "verify"} : loc' = [loc EXCEPT ![p].pc = x, ![p].op = op]
    BY <1>20, <2>o DEF MarkPublished
  <2>2. l.pc = "mark" BY <1>20 DEF MarkPublished, At
  <2>3. /\ loc'[p].pc = x /\ loc'[p].kind = l.kind /\ loc'[p].after = l.after
        /\ loc'[p].todo = l.todo /\ loc'[p].rest = l.rest
    BY <1>0, <2>1 DEF Local
  <2> QED BY <1>0, <1>20, <1>act, <2>2, <2>3 DEF Passed, Alone, Detaching, Publishing, Recovering
<1>21. CASE Retire(p)
  BY <1>e, <1>21 DEF Retire
<1>22. CASE Crash(p)
  BY <1>e, <1>22 DEF Crash
<1>23. CASE Finish(p)
  <2>1. CASE loc' = [loc EXCEPT ![p].pc = "next", ![p].op = None]
    <3>1. l.pc = "finish" BY <1>23 DEF Finish, At
    <3>2. /\ loc'[p].pc = "next" /\ loc'[p].kind = l.kind /\ loc'[p].after = l.after
          /\ loc'[p].todo = l.todo /\ loc'[p].rest = l.rest
      BY <1>0, <2>1 DEF Local
    <3> QED BY <1>0, <1>23, <1>act, <3>1, <3>2 DEF Passed, Alone, Detaching, Publishing, Recovering
  <2> QED BY <1>e, <1>23, <2>1 DEF Finish
<1>24. CASE DetachNext(p)
  <2>0. l.pc = "next" /\ l.kind = "close" BY <1>0, <1>24 DEF DetachNext, At, Ready
  <2>1. CASE Go(p, "saveclose")
    <3>1. /\ loc'[p].pc = "saveclose" /\ loc'[p].kind = l.kind /\ loc'[p].after = l.after
          /\ loc'[p].todo = l.todo /\ loc'[p].rest = l.rest
      BY <1>0, <2>1, GoProgress
    <3> QED BY <1>0, <1>24, <1>act, <2>0, <3>1 DEF Passed, Alone, Detaching, Publishing, Recovering
  <2>2. CASE l.rest # {}
    <3>1. PICK cp \in l.rest, x \in {"next", "pending"} :
             loc' = [loc EXCEPT ![p].rest = @ \ {cp}, ![p].cfg = cp[1], ![p].att = row[cp],
                                ![p].after = "read", ![p].pc = x]
      BY <1>24, <2>2 DEF DetachNext
    <3>2. loc'[p].pc = x /\ loc'[p].kind = l.kind /\ loc'[p].rest = l.rest \ {cp}
      BY <1>0, <3>1 DEF Local
    <3> QED BY <1>0, <1>24, <1>act, <2>0, <3>2 DEF Passed, Alone, Detaching, Publishing, Recovering
  <2> QED BY <1>24, <2>1, <2>2 DEF DetachNext
<1>25. CASE Rollback(p)
  <2>1. l.pc = "rollback" BY <1>25 DEF Rollback, At
  <2>2. CASE loc' = [loc EXCEPT ![p].pc = "recover",
                      ![p].todo = <<journal[l.ws][Min(Places(journal[l.ws], l.op.id))]>>,
                      ![p].after = "idle"]
    <3>1. loc'[p].pc = "recover" /\ loc'[p].after = "idle" BY <1>0, <2>2 DEF Local
    <3> QED BY <1>0, <1>25, <1>act, <2>1, <3>1 DEF Passed, Alone, Detaching, Publishing, Recovering
  <2> QED BY <1>e, <1>25, <2>2 DEF Rollback
<1>26. CASE Pending(p)
  <2> DEFINE log == journal[l.ws]
             closes == {i \in DOMAIN log : log[i].kind = "close"}
  <2>0. l.pc = "pending" BY <1>26 DEF Pending, At
  <2>4. CASE OwnRecovery(p) /\ closes = {}
    <3>1. loc' = [loc EXCEPT ![p].pc = "recover", ![p].todo = log, ![p].after = "preflight"]
      BY <1>26, <2>4 DEF Pending
    <3>2. loc'[p].pc = "recover" /\ loc'[p].after = "preflight" BY <1>0, <3>1 DEF Local
    <3> QED BY <1>act, <2>0, <3>2 DEF Passed, Alone, Detaching, Publishing, Recovering
  <2>5. CASE OwnRecovery(p) /\ closes # {}
    <3>1. loc' = [loc EXCEPT ![p].pc = "recover", ![p].todo = RemoveAt(log, Min(closes)),
                             ![p].op = log[Min(closes)], ![p].after = "retire"]
      BY <1>26, <2>5 DEF Pending
    <3>2. loc'[p].pc = "recover" /\ loc'[p].after = "retire" BY <1>0, <3>1 DEF Local
    <3> QED BY <1>act, <2>0, <3>2 DEF Passed, Alone, Detaching, Publishing, Recovering
  <2>6. CASE ~ OwnRecovery(p)
    <3>1. loc' = [loc EXCEPT ![p].pc = "recover", ![p].todo = log]
      BY <1>26, <2>6 DEF Pending
    <3>2. /\ loc'[p].pc = "recover" /\ loc'[p].kind = l.kind /\ loc'[p].after = l.after
          /\ loc'[p].todo = log /\ loc'[p].rest = l.rest
      BY <1>0, <3>1 DEF Local
    <3> QED BY <1>26, <1>act, <2>0, <3>2 DEF Passed, Alone, Detaching, Publishing, Recovering
  <2> QED BY <2>4, <2>5, <2>6
<1>27. CASE Recover(p)
  <2>0. l.pc = "recover" BY <1>27 DEF Recover, At
  <2>2. CASE l.todo = <<>> /\ Go(p, l.after) /\ l.after # "idle"
    <3>1. \/ l.after = "row" /\ l.kind = "attach"
          \/ l.after = "read" /\ l.kind # "attach"
          \/ l.after = "preflight" /\ l.kind = "close"
          \/ l.after = "retire" /\ l.kind = "close"
      BY <1>0, <2>0, <2>2 DEF Ready, Recovering, AfterRecovery
    <3>2. /\ loc'[p].pc = l.after /\ loc'[p].kind = l.kind /\ loc'[p].after = l.after
          /\ loc'[p].todo = l.todo /\ loc'[p].rest = l.rest
      BY <1>0, <2>2, GoProgress
    <3> QED BY <1>27, <1>act, <2>0, <2>2, <3>1, <3>2
               DEF Passed, Alone, Detaching, Publishing, Recovering
  <2>3. CASE Go(p, RecoveryOf(p))
    <3>1. RecoveryOf(p) \in {"undo", "clean", "forget"} BY DEF RecoveryOf
    <3>2. /\ loc'[p].pc = RecoveryOf(p) /\ loc'[p].kind = l.kind /\ loc'[p].after = l.after
          /\ loc'[p].todo = l.todo /\ loc'[p].rest = l.rest
      BY <1>0, <2>3, GoProgress
    <3> QED BY <1>27, <1>act, <2>0, <3>1, <3>2 DEF Passed, Alone, Detaching, Publishing, Recovering
  <2> QED BY <1>e, <1>27, <2>2, <2>3 DEF Recover
<1> QED BY <1>1, <1>2, <1>3, <1>4, <1>5, <1>6, <1>7, <1>8, <1>9, <1>10, <1>11, <1>12, <1>13,
           <1>14, <1>15, <1>16, <1>17, <1>18, <1>19, <1>20, <1>21, <1>22, <1>23, <1>24,
           <1>25, <1>26, <1>27
           DEF Step

-----------------------------------------------------------------------------
(* Journals in which every operation is once *)

LEMMA RemovedOnce ==
    ASSUME NEW log \in Seq(Operation), DistinctIn(log), NEW id
    PROVE  /\ DistinctIn(Removed(log, id))
           /\ \A op \in Range(Removed(log, id)) : op \in Range(log) /\ op.id # id
<1>0. Len(log) \in Nat /\ DOMAIN log = 1 .. Len(log) BY LenProperties
<1>1. CASE Places(log, id) = {} BY <1>1 DEF Removed, Places, Range
<1>2. CASE Places(log, id) # {}
  <2> DEFINE m == Min(Places(log, id))
             t == Removed(log, id)
             g(k) == IF k < m THEN k ELSE k + 1
  <2>1. m \in 1 .. Len(log) /\ log[m].id = id BY <1>0, <1>2, PlacesProperties
  <2>2. t = RemoveAt(log, m) BY <1>2 DEF Removed
  <2> HIDE DEF m
  <2>3. /\ RemoveAt(log, m) \in Seq(Operation) /\ Len(RemoveAt(log, m)) = Len(log) - 1
        /\ \A k \in 1 .. Len(log) - 1 : RemoveAt(log, m)[k] = IF k < m THEN log[k] ELSE log[k + 1]
    BY <1>0, <2>1, RemoveAtProperties
  <2>4. DOMAIN t = 1 .. Len(log) - 1 /\ \A k \in 1 .. Len(log) - 1 : t[k] = log[g(k)]
    BY <2>2, <2>3, LenProperties
  <2> HIDE DEF t
  <2>5. \A k \in 1 .. Len(log) - 1 : g(k) \in 1 .. Len(log) /\ g(k) # m
    BY <1>0, <2>1
  <2>6. \A i, j \in 1 .. Len(log) - 1 : g(i) = g(j) => i = j BY <1>0, <2>1
  <2> HIDE DEF g
  <2>7. \A k \in DOMAIN t : t[k] \in Range(log) /\ t[k].id # id
    BY <1>0, <2>1, <2>4, <2>5 DEF DistinctIn, Range
  <2>8. DistinctIn(t) BY <1>0, <2>4, <2>5, <2>6 DEF DistinctIn
  <2> QED BY <2>7, <2>8 DEF t, Range
<1> QED BY <1>1, <1>2

LEMMA SavedOnce ==
    ASSUME NEW log \in Seq(Operation), DistinctIn(log), NEW op \in Operation
    PROVE  DistinctIn(Saved(log, op)) /\ DistinctIn(Completed(log, op))
<1>0. Len(log) \in Nat /\ DOMAIN log = 1 .. Len(log) BY LenProperties
<1>3. DistinctIn(Completed(log, op))
  <2>1. [op EXCEPT !.phase = "complete"].id = op.id BY DEF Operation
  <2>2. \A i \in DOMAIN log : Completed(log, op)[i].id = log[i].id BY <2>1 DEF Completed
  <2>3. DOMAIN Completed(log, op) = DOMAIN log BY DEF Completed
  <2> QED BY <2>2, <2>3 DEF DistinctIn
<1>1. CASE Places(log, op.id) = {}
  <2>1. /\ Len(Append(log, op)) = Len(log) + 1 /\ Append(log, op) \in Seq(Operation)
        /\ \A i \in 1 .. Len(log) : Append(log, op)[i] = log[i]
        /\ Append(log, op)[Len(log) + 1] = op
    BY AppendProperties
  <2>2. DOMAIN Append(log, op) = 1 .. Len(log) + 1 BY <2>1, LenProperties
  <2>3. \A i \in 1 .. Len(log) : log[i].id # op.id BY <1>0, <1>1 DEF Places
  <2>4. ASSUME NEW i \in 1 .. Len(log) + 1, NEW j \in 1 .. Len(log) + 1,
               Append(log, op)[i].id = Append(log, op)[j].id
        PROVE  i = j
    <3>1. CASE i \in 1 .. Len(log) /\ j \in 1 .. Len(log)
      BY <1>0, <2>1, <2>4, <3>1 DEF DistinctIn
    <3>2. CASE i = Len(log) + 1 /\ j \in 1 .. Len(log) BY <2>1, <2>3, <2>4, <3>2
    <3>3. CASE j = Len(log) + 1 /\ i \in 1 .. Len(log) BY <2>1, <2>3, <2>4, <3>3
    <3> QED BY <1>0, <3>1, <3>2, <3>3
  <2> QED BY <1>1, <1>3, <2>2, <2>4 DEF Saved, DistinctIn
<1>2. CASE Places(log, op.id) # {}
  <2>1. Saved(log, op) = [i \in DOMAIN log |-> IF log[i].id = op.id THEN op ELSE log[i]]
    BY <1>2 DEF Saved
  <2>2. \A i \in DOMAIN log : Saved(log, op)[i].id = log[i].id BY <2>1
  <2> QED BY <1>3, <2>1, <2>2 DEF DistinctIn
<1> QED BY <1>1, <1>2, <1>3

-----------------------------------------------------------------------------
(* The row of an attachment and its journal entry, with one configuration *)

\* Two running operations are on different packages.
LEMMA PackagesApart ==
    ASSUME \A c, d \in Config : c = d, RowsInv,
           NEW p \in Proc, NEW q \in Proc, p # q, Running(p), Running(q)
    PROVE  PackageOf[loc[p].ws] # PackageOf[loc[q].ws]
<1> DEFINE key(r) == ConfigKey(ConfigOf(loc[r]), PackageIn(loc[r]))
<1>1. ASSUME NEW r \in Proc, Running(r)
      PROVE  /\ key(r) \in loc[r].keys /\ ConfigOf(loc[r]) \in Config
             /\ PackageIn(loc[r]) = PackageOf[loc[r].ws]
  <2>1. Ready(loc[r], loc[r].pc) /\ RowSafe(loc[r])
    BY DEF RowsInv, RegistryInv, StructureInv, Presence
  <2>2. loc[r].ws \in Workspace /\ loc[r].cfg \in Config BY <1>1, <2>1 DEF Running, Ready
  <2>3. ConfigOf(loc[r]) \in Config BY <2>2, AttachmentAssumption DEF ConfigOf
  <2>4. key(r) \in loc[r].keys BY <1>1 DEF RowsInv, RegistryInv, Locks, Running
  <2> QED BY <1>1, <2>1, <2>3, <2>4 DEF Running, RowSafe
<1>2. key(p) # key(q) BY <1>1 DEF RowsInv, RegistryInv, Locks
<1> QED BY <1>1, <1>2 DEF ConfigKey

\* Rows and journals change only where the acting process works.
LEMMA RowsFrame ==
    ASSUME StructureInv, NEW p \in Proc, BeginSome(p) \/ Step(p) \/ Crash(p)
    PROVE  /\ \A w \in Workspace : journal'[w] = journal[w] \/ (Running(p) /\ w = loc[p].ws)
           /\ \A cp \in Cell :
                 row'[cp] = row[cp] \/ (CompleteAttachment(p) /\ cp = CellOf(loc[p]))
<1>0. /\ journal \in [Workspace -> Seq(Operation)] /\ row \in [Cell -> Attachment \cup {None}]
  BY DEF StructureInv, TypeOK
<1>1. ASSUME NEW w \in Workspace PROVE journal'[w] = journal[w] \/ (Running(p) /\ w = loc[p].ws)
  <2>1. ASSUME NEW log, journal' = [journal EXCEPT ![loc[p].ws] = log], Running(p)
        PROVE  journal'[w] = journal[w] \/ (Running(p) /\ w = loc[p].ws)
    BY <1>0, <2>1
  <2>2. CASE Forget(p) BY <2>1, <2>2 DEF Forget, At, Running
  <2>3. CASE Prepare(p) BY <2>1, <2>3 DEF Prepare, Save, At, Running
  <2>4. CASE MarkPublished(p) BY <2>1, <2>4 DEF MarkPublished, Save, At, Running
  <2>5. CASE MarkRemoved(p) BY <2>1, <2>5 DEF MarkRemoved, Save, At, Running
  <2>6. CASE CompleteAttachment(p) BY <2>1, <2>6 DEF CompleteAttachment, At, Running
  <2>7. CASE Finish(p) BY <2>1, <2>7 DEF Finish, At, Running
  <2>8. CASE SaveClose(p) BY <2>1, <2>8 DEF SaveClose, Save, At, Running
  <2>9. CASE Retire(p) BY <2>1, <2>9 DEF Retire, At, Running
  <2> QED BY <2>2, <2>3, <2>4, <2>5, <2>6, <2>7, <2>8, <2>9, Frames
<1>2. ASSUME NEW cp \in Cell
      PROVE  row'[cp] = row[cp] \/ (CompleteAttachment(p) /\ cp = CellOf(loc[p]))
  <2>1. CASE CompleteAttachment(p)
    <3>1. \/ row' = row
          \/ \E new : row' = [row EXCEPT ![CellOf(loc[p])] = new]
      BY <2>1 DEF CompleteAttachment, CellOf, Pkg
    <3> QED BY <1>0, <2>1, <3>1
  <2> QED BY <2>1, Frames
<1> QED BY <1>1, <1>2

LEMMA LogsStayDistinct ==
    ASSUME StructureInv, \A w \in Workspace : DistinctIn(journal[w]),
           NEW p \in Proc, BeginSome(p) \/ Step(p) \/ Crash(p), NEW w \in Workspace
    PROVE  DistinctIn(journal'[w])
<1> DEFINE l == loc[p]
<1>0. /\ l \in Local /\ Ready(l, l.pc) /\ journal \in [Workspace -> Seq(Operation)]
      /\ file \in [Config -> Content] /\ issued \in Nat
  BY DEF StructureInv, Presence, TypeOK
<1>u. ASSUME NEW log, journal' = [journal EXCEPT ![l.ws] = log]
      PROVE  journal'[w] = journal[w] \/ (w = l.ws /\ journal'[w] = log)
  BY <1>0, <1>u
<1>d. ASSUME NEW id, journal' = [journal EXCEPT ![l.ws] = Dropped(@, id)]
      PROVE  DistinctIn(journal'[w])
  BY <1>0, <1>d, <1>u, RemovedOnce DEF Dropped
<1>s. ASSUME NEW o \in Operation, Save(p, o) PROVE DistinctIn(journal'[w])
  BY <1>0, <1>s, <1>u, SavedOnce DEF Save
<1>1. CASE Forget(p) BY <1>1, <1>d DEF Forget
<1>2. CASE Finish(p) BY <1>2, <1>d DEF Finish
<1>3. CASE Retire(p) BY <1>3, <1>d DEF Retire
<1>op. At(p, "prepare") \/ At(p, "mark") \/ At(p, "markremove") \/ At(p, "complete")
         => l.op \in Operation /\ l.cfg \in Config
  BY <1>0 DEF At, Ready, Publishing
<1>4. CASE Prepare(p)
  <2>1. [l.op EXCEPT !.old = File(p)] \in Operation
    BY <1>0, <1>op, <1>4 DEF Prepare, File, Operation
  <2> QED BY <1>4, <1>s, <2>1 DEF Prepare
<1>5. CASE MarkPublished(p)
  <2>1. [l.op EXCEPT !.published = TRUE, !.phase = "published"] \in Operation
    BY <1>op, <1>5 DEF MarkPublished, Operation
  <2> QED BY <1>5, <1>s, <2>1 DEF MarkPublished
<1>6. CASE MarkRemoved(p)
  <2>1. [l.op EXCEPT !.remove = TRUE] \in Operation
    BY <1>op, <1>6 DEF MarkRemoved, Operation
  <2> QED BY <1>6, <1>s, <2>1 DEF MarkRemoved
<1>7. CASE CompleteAttachment(p)
  <2>1. l.op \in Operation BY <1>op, <1>7 DEF CompleteAttachment
  <2>2. CASE journal' = journal BY <2>2
  <2>3. CASE journal' = [journal EXCEPT ![l.ws] = Completed(@, l.op)]
    BY <1>0, <1>u, <2>1, <2>3, SavedOnce
  <2> QED BY <1>7, <2>2, <2>3 DEF CompleteAttachment
<1>8. CASE SaveClose(p)
  <2> DEFINE o == [id |-> issued + 1, kind |-> "close", cfg |-> l.cfg,
                  phase |-> "prepared", published |-> FALSE, remove |-> FALSE,
                  backed |-> FALSE, old |-> NoFile, new |-> NoFile]
  <2>1. l.cfg \in Config BY <1>0, <1>8 DEF SaveClose, At, Ready
  <2>2. o \in Operation BY <1>0, <2>1 DEF Operation, Id, Kind, Content
  <2>3. Save(p, o) BY <1>8 DEF SaveClose
  <2> HIDE DEF o
  <2> QED BY <1>s, <2>2, <2>3
<1>9. CASE UNCHANGED journal BY <1>9
<1> QED BY <1>1, <1>2, <1>3, <1>4, <1>5, <1>6, <1>7, <1>8, <1>9, Frames

\* What a step of another process leaves of the conditions of q.
LEMMA RowSafeStays ==
    ASSUME \A c, d \in Config : c = d, RowsInv,
           NEW p \in Proc, BeginSome(p) \/ Step(p) \/ Crash(p), NEW q \in Proc \ {p}
    PROVE  RowSafe(loc[q])'
<1> DEFINE l == loc[q]
<1>0. /\ StructureInv /\ l \in Local /\ Ready(l, l.pc) /\ RowSafe(l) /\ loc'[q] = l
      /\ loc[p] \in Local /\ Ready(loc[p], loc[p].pc) /\ CloseProgress(l)
  BY LocalsStep DEF RowsInv, RegistryInv, StructureInv, Presence, TypeOK, Stepped, Progress
<1>1. CASE l.pc \in {"idle", "locking"}
  BY <1>0, <1>1 DEF RowSafe, Alone, Detaching, Publishing, Recovering
<1>2. CASE l.pc \notin {"idle", "locking"}
  <2>w. PICK w \in Workspace : w = l.ws BY <1>0, <1>2 DEF Ready
  <2>c. PICK cp : cp = CellOf(l) OBVIOUS
  <2>1. w = l.ws /\ cp = CellOf(l) BY <2>w, <2>c
  <2>2. cp \in Cell /\ cp[2] = PackageOf[w]
    BY <1>0, <1>2, <2>1, AttachmentAssumption DEF CellOf, Cell, Ready
  <2>3. Running(p) => PackageOf[loc[p].ws] # PackageOf[w]
    BY <1>2, <2>1, PackagesApart DEF Running
  <2>4. CompleteAttachment(p) => Running(p) BY DEF CompleteAttachment, At, Running
  <2>5. ASSUME NEW x \in Cell, x[2] = PackageOf[w] PROVE row'[x] = row[x]
    BY <1>0, <2>3, <2>4, <2>5, RowsFrame DEF CellOf
  <2>6. journal'[w] = journal[w] BY <1>0, <2>3, RowsFrame
  <2>7. row'[cp] = row[cp] BY <2>2, <2>5
  <2>9. ASSUME l.kind = "attach", l.pc \in Publishing,
               NEW v \in Workspace \ {w}, NEW op \in Range(journal'[v])
        PROVE  op.id # l.op.id
    <3>1. l.op.id \in Nat /\ l.op.id <= issued /\ issued \in Nat
      BY <1>0, <2>9 DEF Ready, RowsInv, HumansInv, HumansSafe, Faithful, Operation, Id,
                        StructureInv, TypeOK
    <3>2. \/ op \in Range(journal[v])
          \/ loc[p].pc \in Publishing /\ Like(op, loc[p].op)
          \/ op.id = issued + 1
      BY <1>0, JournalStep
    <3>3. CASE op \in Range(journal[v]) BY <1>0, <2>1, <2>9, <3>3 DEF RowSafe
    <3>4. CASE loc[p].pc \in Publishing /\ Like(op, loc[p].op)
      BY <2>9, <3>4 DEF Like, RowsInv
    <3>5. CASE op.id = issued + 1 BY <3>1, <3>5
    <3> QED BY <3>2, <3>3, <3>4, <3>5
  <2>10. ASSUME l.kind = "close", Detaching(l) \/ l.pc \in {"next", "rollback", "tidy", "finish"},
                NEW x \in l.rest
         PROVE  row'[x] = row[x]
    <3>1. x[2] = PackageOf[w]
      BY <1>0, <2>1, <2>10 DEF CloseProgress, Detaching, Publishing, Recovering
    <3> QED BY <1>0, <2>5, <2>10, <3>1 DEF Local
  <2>11. CellOf(loc'[q]) = cp BY <1>0, <2>1 DEF CellOf
  <2>12. loc'[q].pc \notin {"idle", "locking"} => PackageIn(loc'[q]) = PackageOf[loc'[q].ws]
    BY <1>0 DEF RowSafe
  <2>13. loc'[q].kind = "attach"
            /\ loc'[q].pc \in {"read", "stage"} \cup (Publishing \ {"tidy", "finish"})
            => row'[cp] = None
    BY <1>0, <2>1, <2>7 DEF RowSafe
  <2>14. loc'[q].kind = "attach" /\ loc'[q].pc \in Publishing
            => \A v \in Workspace \ {w} : \A op \in Range(journal'[v]) : op.id # l.op.id
    BY <1>0, <2>9
  <2>15. Detaching(l) => row'[cp] # None /\ row'[cp].ws = w
    BY <1>0, <2>1, <2>7 DEF RowSafe
  <2>16. Alone(l) /\ l.pc \in Recovering => Range(journal'[w]) \subseteq Range(l.todo)
    BY <1>0, <2>1, <2>6 DEF RowSafe
  <2>17. Alone(l) /\ l.pc \notin Recovering \cup {"pending"} =>
            \A op \in Range(journal'[w]) : l.pc \in Publishing /\ op.id = l.op.id
    BY <1>0, <2>1, <2>6 DEF RowSafe
  <2>18. l.kind = "close" /\ (Detaching(l) \/ l.pc \in {"next", "rollback", "tidy", "finish"})
            => \A x \in l.rest : row'[x] # None => row'[x].ws = w
    BY <1>0, <2>1, <2>10 DEF RowSafe
  <2>19. Detaching(loc'[q]) = Detaching(l) /\ Alone(loc'[q]) = Alone(l) BY <1>0
  <2> QED BY <1>0, <2>1, <2>11, <2>12, <2>13, <2>14, <2>15, <2>16, <2>17, <2>18, <2>19
          DEF RowSafe, CellOf, Detaching, Alone
<1> QED BY <1>1, <1>2

\* What its own step makes of the conditions of a process.
LEMMA RowSafeStep ==
    ASSUME \A c, d \in Config : c = d, RowsInv, NEW p \in Proc, Step(p) \/ Crash(p)
    PROVE  RowSafe(loc[p])'
<1> DEFINE l == loc[p]
<1>0. /\ StructureInv /\ l \in Local /\ Ready(l, l.pc) /\ RowSafe(l) /\ CloseProgress(l)
      /\ loc'[p] \in Local /\ Ready(loc'[p], loc'[p].pc) /\ loc \in [Proc -> Local]
      /\ RowsOfPackage /\ row \in [Cell -> Attachment \cup {None}]
      /\ journal \in [Workspace -> Seq(Operation)] /\ issued \in Nat
  BY LocalsStep DEF RowsInv, RegistryInv, StructureInv, Presence, TypeOK, Stepped, Progress
<1>p. Passed(p) /\ Handed(p) BY <1>0, PassedStep, HandedStep
<1>1. CASE loc'[p].pc = "idle"
  BY <1>1 DEF RowSafe, Alone, Detaching, Publishing, Recovering
<1>2. CASE loc'[p].pc # "idle"
  <2>0. /\ l.pc # "idle" /\ loc'[p].pc # "locking"
        /\ loc'[p].kind = l.kind /\ loc'[p].pkg = l.pkg
        /\ (l.kind = "detach" /\ l.pc = "locking") \/ loc'[p].ws = l.ws
    BY <1>0, <1>2, Identity
  <2>1. loc'[p].cfg = l.cfg /\ l.cfg \in Config BY <1>0, <1>2, <2>0 DEF Ready
  <2>2. l.kind = "detach" /\ l.pc = "locking" => LockDetach(p)
    <3>1. Crash(p) => loc'[p].pc = "idle" BY <1>0 DEF Crash, End, Idle
    <3> QED BY <1>2, <3>1
         DEF Step, At, LockWorkspace, Pending, Recover, Undo, Clean, Forget, LookUpRow,
             ReadOverride, Stage, Prepare, Check, Replace, MarkPublished, Recheck, UnlinkEmpty,
             MarkRemoved, Verify, CompleteAttachment, Rollback, Tidy, Finish, Preflight,
             DetachNext, SaveClose, Retire
  <2>3. ~ LockDetach(p) => loc'[p].ws = l.ws /\ CellOf(loc'[p]) = CellOf(l)
    BY <2>0, <2>1, <2>2 DEF CellOf
  <2>4. ASSUME LockDetach(p)
        PROVE  /\ CellOf(loc'[p]) = <<l.cfg, l.pkg>> /\ row' = row
               /\ row[CellOf(loc'[p])] # None /\ row[CellOf(loc'[p])].ws = loc'[p].ws
               /\ l.kind = "detach" /\ l.pc = "locking"
    <3>1. l.kind = "detach" /\ l.pc = "locking" /\ l.pkg \in Package
      BY <1>0, <2>4 DEF LockDetach, At, Ready
    <3>2. /\ loc' = [loc EXCEPT ![p].pc = "pending", ![p].att = row[<<l.cfg, l.pkg>>],
                      ![p].ws = row[<<l.cfg, l.pkg>>].ws, ![p].after = "read"]
          /\ row[<<l.cfg, l.pkg>>] # None /\ row' = row
      <4>1. ~ End(p) BY <1>0, <1>2 DEF End, Idle
      <4> QED BY <2>4, <4>1 DEF LockDetach, database
    <3>3. loc'[p].ws = row[<<l.cfg, l.pkg>>].ws BY <1>0, <3>2 DEF Local
    <3>4. <<l.cfg, l.pkg>> \in Cell BY <2>1, <3>1 DEF Cell
    <3>5. PackageOf[loc'[p].ws] = l.pkg BY <1>0, <3>2, <3>3, <3>4 DEF RowsOfPackage
    <3> QED BY <2>1, <3>1, <3>2, <3>3, <3>5 DEF CellOf
  <2>w. l.pc # "locking" => l.ws \in Workspace /\ CellOf(l) \in Cell
    BY <1>0, <2>0, AttachmentAssumption DEF Ready, CellOf, Cell
  <2>5. loc'[p].pc \notin {"idle", "locking"} => PackageIn(loc'[p]) = PackageOf[loc'[p].ws]
    <3>1. CASE LockDetach(p)
      BY <2>0, <2>1, <2>4, <3>1 DEF PackageIn, CellOf
    <3>2. CASE ~ LockDetach(p) BY <1>0, <2>0, <2>2, <2>3, <3>2 DEF PackageIn, RowSafe
    <3> QED BY <3>1, <3>2
  <2>6. loc'[p].kind = "attach"
              /\ loc'[p].pc \in {"read", "stage"} \cup (Publishing \ {"tidy", "finish"})
            => row'[CellOf(loc'[p])] = None
    <3>0. SUFFICES ASSUME loc'[p].kind = "attach",
                          loc'[p].pc \in {"read", "stage"} \cup (Publishing \ {"tidy", "finish"})
                   PROVE  row'[CellOf(loc'[p])] = None
      OBVIOUS
    <3>1. ~ LockDetach(p) /\ CellOf(loc'[p]) = CellOf(l) BY <2>0, <2>3, <2>4, <3>0
    <3>2. CASE LookUpRow(p)
      <4>1. ~ End(p) BY <1>0, <1>2 DEF End, Idle
      <4>2. row[<<l.cfg, PackageOf[l.ws]>>] = None /\ row' = row
        BY <3>2, <4>1 DEF LookUpRow, database, Pkg
      <4> QED BY <3>1, <4>2 DEF CellOf
    <3>3. CASE l.pc \in {"read", "stage"} \cup (Publishing \ {"tidy", "finish"})
      <4>1. row[CellOf(l)] = None BY <1>0, <2>0, <3>0, <3>3 DEF RowSafe
      <4>2. CellOf(l) \in Cell BY <2>w, <3>3 DEF Publishing
      <4>3. ~ CompleteAttachment(p)
        <5>1. SUFFICES ASSUME CompleteAttachment(p) PROVE FALSE OBVIOUS
        <5>2. Go(p, "tidy") BY <2>0, <3>0, <4>1, <5>1 DEF CompleteAttachment, CellOf, Pkg
        <5>3. loc'[p].pc = "tidy" BY <1>0, <5>2, GoProgress
        <5> QED BY <3>0, <5>3
      <4> QED BY <1>0, <3>1, <4>1, <4>2, <4>3, RowsFrame
    <3> QED BY <1>p, <3>0, <3>2, <3>3 DEF Passed
  <2>7. loc'[p].kind = "attach" /\ loc'[p].pc \in Publishing
            => \A v \in Workspace \ {loc'[p].ws} : \A op \in Range(journal'[v]) : op.id # loc'[p].op.id
    <3>0. SUFFICES ASSUME loc'[p].kind = "attach", loc'[p].pc \in Publishing,
                          NEW v \in Workspace \ {loc'[p].ws}, NEW op \in Range(journal'[v])
                   PROVE  op.id # loc'[p].op.id
      OBVIOUS
    <3>1. ~ LockDetach(p) /\ loc'[p].ws = l.ws BY <2>0, <2>3, <2>4, <3>0
    <3>2. journal'[v] = journal[v] BY <1>0, <3>0, <3>1, RowsFrame
    <3>3. CASE Stage(p)
      <4>1. op \in Operation /\ op.id <= issued
        BY <1>0, <3>0, <3>2, RangeType DEF RowsInv, HumansInv, Faithful
      <4> DEFINE new == [id |-> issued + 1, kind |-> StepKind(p), cfg |-> l.cfg,
                         phase |-> "prepared", published |-> FALSE,
                         remove |-> FALSE, backed |-> File(p) # NoFile,
                         old |-> NoFile, new |-> NewContent(p, issued + 1)]
      <4>2. loc' = [loc EXCEPT ![p].pc = "prepare", ![p].op = new] /\ new.id = issued + 1
        BY <3>3 DEF Stage
      <4> HIDE DEF new
      <4>3. loc'[p].op = new BY <1>0, <4>2 DEF Local
      <4>4. op.id \in Nat BY <4>1 DEF Operation, Id
      <4> QED BY <1>0, <4>1, <4>2, <4>3, <4>4
    <3>4. CASE l.pc \in Publishing /\ Like(loc'[p].op, l.op)
      BY <1>0, <2>0, <3>0, <3>1, <3>2, <3>4 DEF RowSafe, Like
    <3> QED BY <1>p, <3>0, <3>3, <3>4 DEF Handed
  <2>8. Detaching(loc'[p]) =>
            row'[CellOf(loc'[p])] # None /\ row'[CellOf(loc'[p])].ws = loc'[p].ws
    <3>0. SUFFICES ASSUME Detaching(loc'[p])
                   PROVE  row'[CellOf(loc'[p])] # None /\ row'[CellOf(loc'[p])].ws = loc'[p].ws
      OBVIOUS
    <3>1. CASE LockDetach(p) BY <2>4, <3>1
    <3>2. CASE Detaching(l) /\ ~ LockDetach(p)
      <4>1. l.pc # "locking" BY <3>2 DEF Detaching, Publishing, Recovering
      <4>2. row'[CellOf(l)] = row[CellOf(l)]
        BY <1>0, <1>p, <2>w, <3>0, <4>1, RowsFrame DEF Passed
      <4> QED BY <1>0, <2>3, <3>0, <3>2, <4>2 DEF RowSafe
    <3>3. CASE DetachNext(p) /\ ~ LockDetach(p)
      <4>1. l.pc = "next" /\ l.kind = "close" /\ row' = row
        BY <1>0, <3>3 DEF DetachNext, At, Ready, database
      <4>2. ~ Go(p, "saveclose")
        <5>1. Go(p, "saveclose") => loc'[p].pc = "saveclose" BY <1>0, GoProgress
        <5> QED BY <3>0, <5>1 DEF Detaching, Publishing, Recovering
      <4>3. PICK cp \in l.rest, x \in {"next", "pending"} :
               /\ loc' = [loc EXCEPT ![p].rest = @ \ {cp}, ![p].cfg = cp[1], ![p].att = row[cp],
                                     ![p].after = "read", ![p].pc = x]
               /\ x = IF row[cp] = None THEN "next" ELSE "pending"
        BY <3>3, <4>2 DEF DetachNext
      <4>4. loc'[p].cfg = cp[1] /\ loc'[p].ws = l.ws /\ loc'[p].pc = x
        BY <1>0, <2>3, <3>3, <4>3 DEF Local
      <4>n. row[cp] # None
        BY <3>0, <4>3, <4>4 DEF Detaching, Publishing, Recovering
      <4>5. cp \in Cell /\ cp[2] = PackageOf[l.ws] BY <1>0, <4>1 DEF CloseProgress, Local
      <4>6. CellOf(loc'[p]) = cp BY <4>4, <4>5 DEF CellOf, Cell
      <4>7. row[cp] # None => row[cp].ws = l.ws BY <1>0, <4>1 DEF RowSafe
      <4> QED BY <3>0, <4>n, <4>1, <4>4, <4>6, <4>7
    <3> QED BY <1>p, <3>0, <3>1, <3>2, <3>3 DEF Passed
  <2>d. ASSUME Alone(loc'[p]), Alone(l)
        PROVE  /\ ~ LockDetach(p) /\ loc'[p].ws = l.ws /\ l.ws \in Workspace
               /\ \A op \in Range(journal'[loc'[p].ws]) :
                     \/ op \in Range(journal[l.ws])
                     \/ l.pc \in Publishing /\ op.id = l.op.id
    <3>1. l.pc # "locking" /\ l.pc # "saveclose"
      BY <2>d DEF Alone, Detaching, Publishing, Recovering
    <3>2. ~ LockDetach(p) BY <2>4, <3>1
    <3>3. PICK w \in Workspace : w = l.ws /\ w = loc'[p].ws BY <2>3, <2>w, <3>1, <3>2
    <3>4. ASSUME NEW op \in Range(journal'[w])
          PROVE  op \in Range(journal[w]) \/ (l.pc \in Publishing /\ op.id = l.op.id)
      <4>1. ~ SaveClose(p) BY <3>1 DEF SaveClose, At
      <4> QED BY <1>0, <3>4, <4>1, JournalStep DEF Like
    <3> QED BY <3>2, <3>3, <3>4
  <2>9. Alone(loc'[p]) /\ loc'[p].pc \in Recovering
            => Range(journal'[loc'[p].ws]) \subseteq Range(loc'[p].todo)
    <3>0. SUFFICES ASSUME Alone(loc'[p]), loc'[p].pc \in Recovering
                   PROVE  Range(journal'[loc'[p].ws]) \subseteq Range(loc'[p].todo)
      OBVIOUS
    <3>1. Alone(l) BY <1>p, <3>0 DEF Passed
    <3>2. CASE Pending(p) /\ loc'[p].todo = journal[l.ws]
      <4>1. l.pc \notin Publishing BY <3>2 DEF Pending, At, Publishing
      <4> QED BY <2>d, <3>0, <3>1, <3>2, <4>1
    <3>3. CASE l.pc \in Recovering /\ loc'[p].todo = l.todo
      <4>1. l.pc \notin Publishing BY <3>3 DEF Recovering, Publishing
      <4> QED BY <1>0, <2>d, <3>0, <3>1, <3>3, <4>1 DEF RowSafe
    <3>4. CASE Forget(p) /\ loc'[p].todo = Tail(l.todo)
      <4>1. l.pc = "forget" /\ l.todo \in Seq(Operation) /\ l.todo # <<>>
        BY <1>0, <3>4 DEF Forget, At, Ready, Local
      <4>2. PICK w \in Workspace : w = l.ws /\ w = loc'[p].ws BY <2>d, <3>0, <3>1
      <4>3. journal'[w] = Removed(journal[w], Head(l.todo).id)
        BY <1>0, <3>4, <4>2 DEF Forget, Dropped, Item
      <4>4. ASSUME NEW op \in Range(journal'[w]) PROVE op \in Range(Tail(l.todo))
        <5>1. op \in Range(journal[w])
          BY <2>d, <3>0, <3>1, <4>1, <4>2, <4>4 DEF Publishing
        <5>2. op \in Range(l.todo) BY <1>0, <3>1, <4>1, <4>2, <5>1 DEF RowSafe, Recovering
        <5>3. op.id # Head(l.todo).id
          <6>1. DistinctIn(journal[w]) /\ journal[w] \in Seq(Operation) BY <1>0 DEF RowsInv
          <6> QED BY <4>3, <4>4, <6>1, RemovedOnce
        <5> QED BY <4>1, <5>2, <5>3, HeadAndTail
      <4>5. Range(journal'[w]) \subseteq Range(Tail(l.todo)) BY <4>4
      <4> QED BY <3>4, <4>2, <4>5
    <3> QED BY <1>p, <3>0, <3>2, <3>3, <3>4 DEF Passed
  <2>10. Alone(loc'[p]) /\ loc'[p].pc \notin Recovering \cup {"pending"} =>
            \A op \in Range(journal'[loc'[p].ws]) :
               loc'[p].pc \in Publishing /\ op.id = loc'[p].op.id
    <3>0. SUFFICES ASSUME Alone(loc'[p]), loc'[p].pc \notin Recovering \cup {"pending"},
                          NEW op \in Range(journal'[loc'[p].ws])
                   PROVE  loc'[p].pc \in Publishing /\ op.id = loc'[p].op.id
      OBVIOUS
    <3>1. Alone(l) BY <1>p, <3>0 DEF Passed
    <3>2. CASE /\ l.pc \notin Recovering \cup {"pending"}
               /\ l.pc \in Publishing => loc'[p].pc \in Publishing
      <4>1. l.pc \in Publishing /\ op.id = l.op.id
        BY <1>0, <2>d, <3>0, <3>1, <3>2 DEF RowSafe
      <4>2. ~ Stage(p) BY <4>1 DEF Stage, At, Publishing
      <4>3. loc'[p].op.id = l.op.id BY <1>p, <3>2, <4>1, <4>2 DEF Handed, Like
      <4> QED BY <3>2, <4>1, <4>3
    <3>3. CASE Recover(p) /\ l.todo = <<>>
      <4>1. Range(l.todo) = {} BY <3>3, EmptySeq DEF Range
      <4>2. l.pc \in Recovering /\ l.pc \notin Publishing
        BY <3>3 DEF Recover, At, Recovering, Publishing
      <4>3. Range(journal[l.ws]) \subseteq {} BY <1>0, <3>1, <4>1, <4>2 DEF RowSafe
      <4> QED BY <2>d, <3>0, <3>1, <4>2, <4>3
    <3> QED BY <1>p, <3>0, <3>2, <3>3 DEF Passed
  <2>11. loc'[p].kind = "close"
           /\ (Detaching(loc'[p])
                                  \/ loc'[p].pc \in {"next", "rollback", "tidy", "finish"})
            => \A cp \in loc'[p].rest : row'[cp] # None => row'[cp].ws = loc'[p].ws
    <3>0. SUFFICES ASSUME loc'[p].kind = "close",
                          Detaching(loc'[p]) \/ loc'[p].pc \in {"next", "rollback", "tidy", "finish"},
                          NEW cp \in loc'[p].rest, row'[cp] # None
                   PROVE  row'[cp].ws = loc'[p].ws
      OBVIOUS
    <3>1. loc'[p].ws = l.ws /\ l.kind = "close" BY <2>0, <3>0
    <3>2. CASE Preflight(p) /\ loc'[p].rest = Attached(l.ws)
      <4>1. row' = row BY <3>2 DEF Preflight, database
      <4> QED BY <3>0, <3>1, <3>2, <4>1 DEF Attached
    <3>3. CASE /\ loc'[p].rest \subseteq l.rest
               /\ Detaching(l) \/ l.pc \in {"next", "rollback", "tidy", "finish"}
      <4>1. cp \in Cell /\ (row[cp] # None => row[cp].ws = l.ws)
        BY <1>0, <3>0, <3>1, <3>3 DEF RowSafe, Local
      <4>2. CASE row'[cp] = row[cp] BY <3>0, <3>1, <4>1, <4>2
      <4>3. CASE CompleteAttachment(p) /\ cp = CellOf(l)
        <5>1. row' = [row EXCEPT ![CellOf(l)] = None]
          BY <3>1, <4>3 DEF CompleteAttachment, StepKind, CellOf, Pkg
        <5> QED BY <1>0, <3>0, <4>1, <4>3, <5>1
      <4> QED BY <1>0, <4>1, <4>2, <4>3, RowsFrame
    <3> QED BY <1>p, <3>0, <3>2, <3>3 DEF Passed
  <2> QED BY <2>5, <2>6, <2>7, <2>8, <2>9, <2>10, <2>11 DEF RowSafe, CellOf, Detaching
<1> QED BY <1>1, <1>2

LEMMA RowsStep ==
    ASSUME \A c, d \in Config : c = d, RowsInv, [Next]_vars
    PROVE  RowsInv'
<1>a. RegistryInv' /\ HumansInv' BY RegistryInvStep, HumansStep DEF RowsInv
<1>1. CASE UNCHANGED vars
  BY <1>1, <1>a
     DEF RowsInv, RowSafe, CellOf, Detaching, Alone, Agrees, AgreesDetached, vars, database
<1>2. CASE \E p \in Proc : BeginSome(p) \/ Step(p) \/ Crash(p)
  <2>0. PICK p \in Proc : BeginSome(p) \/ Step(p) \/ Crash(p) BY <1>2
  <2> DEFINE l == loc[p]
  <2>b. /\ StructureInv /\ StructureInv' /\ l \in Local /\ Ready(l, l.pc) /\ RowSafe(l)
        /\ journal \in [Workspace -> Seq(Operation)]
        /\ journal' \in [Workspace -> Seq(Operation)]
        /\ row \in [Cell -> Attachment \cup {None}]
        /\ loc' \in [Proc -> Local] /\ issued \in Nat
        /\ \A q \in Proc \ {p} : loc'[q] = loc[q]
        /\ Handed(p)
    BY <1>a, <2>0, LocalsStep, HandedStep
       DEF RowsInv, RegistryInv, StructureInv, Presence, TypeOK, Stepped
  <2>1. ASSUME NEW q \in Proc PROVE RowSafe(loc[q])'
    <3>1. CASE q # p BY <2>0, <3>1, RowSafeStays DEF RowsInv
    <3>2. CASE q = p /\ ~ BeginSome(p) BY <2>0, <3>2, RowSafeStep
    <3>3. CASE q = p /\ BeginSome(p)
      <4>0. loc \in [Proc -> Local] BY <2>b DEF StructureInv, TypeOK
      <4>b. ASSUME NEW kind, NEW w, NEW c, NEW pkg, NEW keys, Begin(p, kind, w, c, pkg, keys)
            PROVE  loc'[p].pc = "locking"
        BY <4>0, <4>b DEF Begin, Idle
      <4>1. loc'[p].pc = "locking"
        BY <3>3, <4>b DEF BeginSome, BeginAttach, BeginDetach, BeginClose
      <4> QED BY <3>3, <4>1 DEF RowSafe, Alone, Detaching, Publishing, Recovering
    <3> QED BY <3>1, <3>2, <3>3
  <2>2. ASSUME NEW q \in Proc, NEW r \in Proc, q # r,
               loc'[q].pc \in Publishing, loc'[r].pc \in Publishing
        PROVE  loc'[q].op.id # loc'[r].op.id
    <3>1. ASSUME NEW s \in Proc \ {p}, loc'[s].pc \in Publishing, loc'[p].pc \in Publishing
          PROVE  loc'[p].op.id # loc'[s].op.id
      <4>1. /\ loc'[s] = loc[s] /\ Ready(loc[s], loc[s].pc) /\ HumansSafe(loc[s])
        BY <2>b DEF RowsInv, HumansInv, StructureInv, Presence
      <4>2. CASE Stage(p)
        <5> DEFINE new == [id |-> issued + 1, kind |-> StepKind(p), cfg |-> l.cfg,
                           phase |-> "prepared", published |-> FALSE,
                           remove |-> FALSE, backed |-> File(p) # NoFile,
                           old |-> NoFile, new |-> NewContent(p, issued + 1)]
        <5>1. loc' = [loc EXCEPT ![p].pc = "prepare", ![p].op = new] /\ new.id = issued + 1
          BY <4>2 DEF Stage
        <5> HIDE DEF new
        <5>2. loc'[p].op = new BY <2>b, <5>1 DEF StructureInv, TypeOK, Local
        <5>3. loc[s].op.id \in Nat /\ loc[s].op.id <= issued
          BY <3>1, <4>1 DEF Ready, HumansSafe, Faithful, Operation, Id
        <5> QED BY <2>b, <4>1, <5>1, <5>2, <5>3
      <4>3. CASE l.pc \in Publishing /\ Like(loc'[p].op, l.op)
        BY <3>1, <4>1, <4>3 DEF RowsInv, Like
      <4> QED BY <2>b, <3>1, <4>2, <4>3 DEF Handed
    <3>2. CASE q = p BY <2>2, <3>1, <3>2
    <3>3. CASE r = p BY <2>2, <3>1, <3>3
    <3>4. CASE q # p /\ r # p BY <2>b, <2>2, <3>4 DEF RowsInv
    <3> QED BY <3>2, <3>3, <3>4
  <2>3. ASSUME NEW w \in Workspace PROVE DistinctIn(journal'[w])
    BY <2>0, <2>b, LogsStayDistinct DEF RowsInv
  <2>4. ASSUME NEW w \in Workspace, NEW op \in Range(journal'[w]) PROVE Agrees(w, op)'
    <3>0. SUFFICES ASSUME op.kind = "attach" PROVE Agrees(w, op)' BY DEF Agrees
    <3>1. op \in Operation /\ <<op.cfg, PackageOf[w]>> \in Cell /\ op.cfg \in Config
      <4>1. op \in Operation BY <2>b, RangeType
      <4> QED BY <4>1, AttachmentAssumption DEF Operation, Cell
    <3> DEFINE cell == <<op.cfg, PackageOf[w]>>
    <3>2. \/ op \in Range(journal[w])
          \/ /\ l.pc \in Publishing \ {"tidy", "finish"} /\ Like(op, l.op)
             /\ op.phase # "complete" \/ CompleteAttachment(p)
      BY <2>0, <2>b, <3>0, JournalStep
    <3>3. op \in Range(journal[w]) => Agrees(w, op) BY DEF RowsInv
    <3>4. journal'[w] # journal[w] => Running(p) /\ w = l.ws BY <2>0, <2>b, RowsFrame
    <3>5. CASE ~ CompleteAttachment(p)
      <4>1. row' = row BY <2>0, <3>5, Frames
      <4>2. CASE op \in Range(journal[w]) BY <3>3, <4>1, <4>2 DEF Agrees
      <4>3. CASE op \notin Range(journal[w])
        <5>1. l.kind = "attach" /\ w = l.ws /\ cell = CellOf(l) /\ op.phase # "complete"
          BY <2>b, <3>0, <3>1, <3>2, <3>4, <3>5, <4>3 DEF Ready, Like, CellOf
        <5>2. row[cell] = None BY <2>b, <3>2, <4>3, <5>1 DEF RowSafe
        <5> QED BY <3>0, <4>1, <5>1, <5>2 DEF Agrees
      <4> QED BY <4>2, <4>3
    <3>6. CASE CompleteAttachment(p)
      <4>0. /\ l.pc = "complete" /\ l.op \in Operation /\ l.ws \in Workspace
            /\ l.cfg \in Config
            /\ l.op.kind = IF l.kind = "attach" THEN "attach" ELSE "detach"
        BY <2>b, <3>6 DEF CompleteAttachment, At, Ready, Publishing
      <4>c. CellOf(l) \in Cell BY <4>0, AttachmentAssumption DEF CellOf, Cell
      <4>1. CASE row' = row /\ journal' = journal BY <3>3, <4>1 DEF Agrees
      <4>2. CASE cell # CellOf(l)
        <5>1. w # l.ws BY <3>1, <4>0, <4>2 DEF CellOf
        <5>2. journal'[w] = journal[w] /\ row'[cell] = row[cell]
          BY <2>0, <2>b, <3>1, <3>4, <4>2, <5>1, RowsFrame
        <5> QED BY <3>3, <5>2 DEF Agrees
      <4>3. CASE cell = CellOf(l) /\ journal' = [journal EXCEPT ![l.ws] = Completed(@, l.op)]
        <5> DEFINE done == [l.op EXCEPT !.phase = "complete"]
        <5>1. /\ w = l.ws => (op \in Range(journal[w]) /\ op.id # l.op.id) \/ op = done
              /\ w # l.ws => op \in Range(journal[w])
          <6>1. CASE w = l.ws
            <7>1. journal'[w] = Completed(journal[w], l.op) BY <2>b, <4>3, <6>1
            <7>2. Range(journal'[w]) \subseteq {o \in Range(journal[w]) : o.id # l.op.id} \cup {done}
              BY <2>b, <4>0, <7>1, CompletedProperties
            <7> HIDE DEF done
            <7> QED BY <6>1, <7>2
          <6>2. CASE w # l.ws BY <3>4, <6>2
          <6> QED BY <6>1, <6>2
        <5>2. done.id = l.op.id /\ done.kind = l.op.kind /\ done.phase = "complete"
          BY <4>0 DEF Operation
        <5> HIDE DEF done
        <5>3. CASE l.kind = "attach"
          <6> DEFINE new == [ws |-> l.ws, id |-> l.op.id, created |-> l.orig = NoFile,
                             prior |-> l.seen]
          <6>1. row[cell] = None BY <2>b, <4>0, <4>3, <5>3 DEF RowSafe, Publishing
          <6>2. row' = [row EXCEPT ![CellOf(l)] = new]
            BY <3>6, <4>3, <5>3, <6>1 DEF CompleteAttachment, StepKind, CellOf, Pkg
          <6>3. new \in Attachment
            BY <2>b, <4>0 DEF Attachment, Operation, Local
          <6>4. new # None /\ new.id = l.op.id /\ new.ws = l.ws BY <6>3, AbsentAssumption
          <6> HIDE DEF new
          <6>5. row'[cell] = new BY <2>b, <4>3, <4>c, <6>2
          <6>6. CASE op \in Range(journal[w]) /\ op.id # l.op.id
            <7>1. op.phase # "complete" BY <3>0, <3>3, <6>1, <6>6 DEF Agrees
            <7> QED BY <6>4, <6>5, <6>6, <7>1 DEF Agrees
          <6>7. CASE w # l.ws /\ op \in Range(journal[w])
            <7>1. op.id # l.op.id BY <2>b, <4>0, <5>3, <6>7 DEF RowSafe, Publishing
            <7> QED BY <6>6, <6>7, <7>1
          <6>8. CASE w = l.ws /\ op = done BY <5>2, <6>4, <6>5, <6>8 DEF Agrees
          <6> QED BY <5>1, <6>6, <6>7, <6>8
        <5>4. CASE l.kind # "attach"
          <6>1. row' = [row EXCEPT ![CellOf(l)] = None] \/ (row' = row /\ journal' = journal)
            BY <3>6, <5>4 DEF CompleteAttachment, StepKind, CellOf, Pkg
          <6>2. CASE row' = [row EXCEPT ![CellOf(l)] = None]
            <7>1. row'[cell] = None BY <2>b, <4>3, <4>c, <6>2
            <7>d. Detaching(l) BY <4>0, <5>4 DEF Detaching, Publishing
            <7>2. op.phase # "complete"
              <8>1. CASE w = l.ws
                <9>1. op \in Range(journal[w]) /\ op.id # l.op.id
                  BY <3>0, <4>0, <5>1, <5>2, <5>4, <8>1
                <9>2. op.id = l.op.id
                  BY <2>b, <4>0, <7>d, <8>1, <9>1 DEF RowSafe, Recovering, Alone
                <9> QED BY <9>1, <9>2
              <8>2. CASE w # l.ws
                <9>1. row[cell] # None => row[cell].ws = l.ws
                  BY <2>b, <4>3, <7>d DEF RowSafe
                <9> QED BY <3>0, <3>3, <5>1, <8>2, <9>1 DEF Agrees
              <8> QED BY <8>1, <8>2
            <7> QED BY <3>0, <7>1, <7>2 DEF Agrees
          <6> QED BY <4>1, <6>1, <6>2
        <5> QED BY <5>3, <5>4
      <4> QED BY <3>6, <4>1, <4>2, <4>3 DEF CompleteAttachment
    <3> QED BY <3>5, <3>6
  <2>5. ASSUME NEW w \in Workspace, NEW op \in Range(journal'[w]) PROVE AgreesDetached(w, op)'
    <3>0. SUFFICES ASSUME op.kind = "detach" PROVE AgreesDetached(w, op)'
      BY DEF AgreesDetached
    <3>1. op \in Operation /\ <<op.cfg, PackageOf[w]>> \in Cell /\ op.cfg \in Config
      <4>1. op \in Operation BY <2>b, RangeType
      <4> QED BY <4>1, AttachmentAssumption DEF Operation, Cell
    <3> DEFINE cell == <<op.cfg, PackageOf[w]>>
    <3>2. \/ op \in Range(journal[w])
          \/ /\ l.pc \in Publishing \ {"rollback", "tidy", "finish"} /\ Like(op, l.op)
             /\ op.phase # "complete" \/ CompleteAttachment(p)
      BY <2>0, <2>b, <3>0, JournalStep
    <3>3. op \in Range(journal[w]) => AgreesDetached(w, op) BY DEF RowsInv
    <3>4. journal'[w] # journal[w] => Running(p) /\ w = l.ws BY <2>0, <2>b, RowsFrame
    <3>5. CASE ~ CompleteAttachment(p)
      <4>1. row' = row BY <2>0, <3>5, Frames
      <4>2. CASE op \in Range(journal[w]) BY <3>3, <4>1, <4>2 DEF AgreesDetached
      <4>3. CASE op \notin Range(journal[w])
        <5>1. /\ l.kind # "attach" /\ w = l.ws /\ cell = CellOf(l) /\ op.phase # "complete"
              /\ l.pc \in Publishing \ {"rollback", "tidy", "finish"}
          BY <2>b, <3>0, <3>1, <3>2, <3>4, <3>5, <4>3 DEF Ready, Like, CellOf
        <5>2. Detaching(l) BY <5>1 DEF Detaching
        <5>3. row[cell] # None /\ row[cell].ws = w BY <2>b, <5>1, <5>2 DEF RowSafe
        <5> QED BY <3>0, <4>1, <5>1, <5>3 DEF AgreesDetached
      <4> QED BY <4>2, <4>3
    <3>6. CASE CompleteAttachment(p)
      <4>0. /\ l.pc = "complete" /\ l.op \in Operation /\ l.ws \in Workspace
            /\ l.cfg \in Config
            /\ l.op.kind = IF l.kind = "attach" THEN "attach" ELSE "detach"
        BY <2>b, <3>6 DEF CompleteAttachment, At, Ready, Publishing
      <4>c. CellOf(l) \in Cell BY <4>0, AttachmentAssumption DEF CellOf, Cell
      <4>a. \A o \in Range(journal[l.ws]) : o.id = l.op.id
        <5>1. Alone(l) /\ l.pc \notin Recovering \cup {"pending"}
          BY <4>0 DEF Alone, Detaching, Publishing, Recovering
        <5> QED BY <2>b, <5>1 DEF RowSafe
      <4>1. CASE row' = row /\ journal' = journal BY <3>3, <4>1 DEF AgreesDetached
      <4>2. CASE cell # CellOf(l)
        <5>1. w # l.ws BY <3>1, <4>0, <4>2 DEF CellOf
        <5>2. journal'[w] = journal[w] /\ row'[cell] = row[cell]
          BY <2>0, <2>b, <3>1, <3>4, <4>2, <5>1, RowsFrame
        <5> QED BY <3>3, <5>2 DEF AgreesDetached
      <4>3. CASE cell = CellOf(l) /\ journal' = [journal EXCEPT ![l.ws] = Completed(@, l.op)]
        <5> DEFINE done == [l.op EXCEPT !.phase = "complete"]
        <5>1. w = l.ws => op = done
          <6>1. CASE w = l.ws
            <7>1. journal'[w] = Completed(journal[w], l.op) BY <2>b, <4>3, <6>1
            <7>2. Range(journal'[w]) \subseteq {o \in Range(journal[w]) : o.id # l.op.id} \cup {done}
              BY <2>b, <4>0, <7>1, CompletedProperties
            <7> HIDE DEF done
            <7> QED BY <4>a, <6>1, <7>2
          <6> QED BY <6>1
        <5>2. w # l.ws => op \in Range(journal[w]) BY <3>4
        <5>3. done.kind = l.op.kind /\ done.phase = "complete" BY <4>0 DEF Operation
        <5> HIDE DEF done
        <5>4. CASE l.kind = "attach"
          <6> DEFINE new == [ws |-> l.ws, id |-> l.op.id, created |-> l.orig = NoFile,
                             prior |-> l.seen]
          <6>1. row[cell] = None BY <2>b, <4>0, <4>3, <5>4 DEF RowSafe, Publishing
          <6>2. row' = [row EXCEPT ![CellOf(l)] = new]
            BY <3>6, <4>3, <5>4, <6>1 DEF CompleteAttachment, StepKind, CellOf, Pkg
          <6>3. new.ws = l.ws OBVIOUS
          <6> HIDE DEF new
          <6>4. row'[cell] = new BY <2>b, <4>3, <4>c, <6>2
          <6>5. w # l.ws BY <3>0, <4>0, <5>1, <5>3, <5>4
          <6>6. op.phase = "complete" BY <3>0, <3>3, <5>2, <6>1, <6>5 DEF AgreesDetached
          <6> QED BY <6>3, <6>4, <6>5, <6>6 DEF AgreesDetached
        <5>5. CASE l.kind # "attach"
          <6>1. row' = [row EXCEPT ![CellOf(l)] = None] \/ (row' = row /\ journal' = journal)
            BY <3>6, <5>5 DEF CompleteAttachment, StepKind, CellOf, Pkg
          <6>2. CASE row' = [row EXCEPT ![CellOf(l)] = None]
            <7>1. row'[cell] = None BY <2>b, <4>3, <4>c, <6>2
            <7>2. op.phase = "complete"
              <8>1. CASE w = l.ws BY <5>1, <5>3, <8>1
              <8>2. CASE w # l.ws
                <9>1. Detaching(l) BY <4>0, <5>5 DEF Detaching, Publishing
                <9>2. row[cell].ws = l.ws BY <2>b, <4>3, <9>1 DEF RowSafe
                <9> QED BY <3>0, <3>3, <5>2, <8>2, <9>2 DEF AgreesDetached
              <8> QED BY <8>1, <8>2
            <7> QED BY <7>1, <7>2 DEF AgreesDetached
          <6> QED BY <4>1, <6>1, <6>2
        <5> QED BY <5>4, <5>5
      <4> QED BY <3>6, <4>1, <4>2, <4>3 DEF CompleteAttachment
    <3> QED BY <3>5, <3>6
  <2> QED BY <1>a, <2>1, <2>2, <2>3, <2>4, <2>5 DEF RowsInv
<1> QED BY <1>1, <1>2 DEF Next, Quiet

LEMMA RowsInit == ASSUME Init PROVE RowsInv
<1>1. RegistryInv /\ HumansInv BY RegistryInvInit, HumansInit
<1>2. \A q \in Proc : loc[q].pc = "idle" BY DEF Init, Idle
<1>3. \A q \in Proc : RowSafe(loc[q])
  BY <1>2 DEF RowSafe, Alone, Detaching, Publishing, Recovering
<1>4. \A w \in Workspace : DistinctIn(journal[w]) /\ Range(journal[w]) = {}
  BY EmptySeq DEF Init, DistinctIn, Range
<1> QED BY <1>1, <1>2, <1>3, <1>4 DEF RowsInv, Publishing

\* When there is one configuration, what recovery believes of the journal entry
\* of an attach or a detach is true of the attachment table: an entry it would
\* roll back has neither recorded nor deleted the row yet, and a complete one
\* has.  With several configurations it is not:
\* detach_workspace works on the owner it finds under a lock that may be for
\* another workspace.
THEOREM RowsAgree ==
    ASSUME \A c, d \in Config : c = d
    PROVE  Spec => []RowAgreesWithJournal
<1>1. ASSUME RowsInv PROVE RowAgreesWithJournal
  <2>1. ASSUME NEW w \in Workspace, NEW i \in DOMAIN journal[w]
        PROVE  Agrees(w, journal[w][i]) /\ AgreesDetached(w, journal[w][i])
    BY <1>1 DEF RowsInv, Range
  <2> QED BY <2>1 DEF RowAgreesWithJournal, Agrees, AgreesDetached
<1> QED BY <1>1, RowsInit, RowsStep, PTL DEF Spec

-----------------------------------------------------------------------------
(* Blocks and rows, with one package of one configuration *)

\* Only humans have written these lines; a block, and otherwise their lines.
ByHumans(lines) == \A i \in DOMAIN lines : lines[i].id = 0
OneBlock(lines, id) ==
    \E k \in DOMAIN lines :
        /\ lines[k].id = id
        /\ \A i \in DOMAIN lines \ {k} : lines[i].id = 0

\* An override file has the block of the attachment recorded, and no other.
Fits(c, found) == IF found = None THEN ByHumans(Lines(c)) ELSE OneBlock(Lines(c), found.id)
FileFits(cp) == Fits(file[cp[1]], row[cp])

\* The operations of a workspace that recovery would roll back.
Live(w) == {op \in Range(journal[w]) : MustRestore(op)}

\* What an operation replaced is still there, and is what the row is about.
Reversible(op, cp) ==
    IF op.backed THEN op.id \in DOMAIN backup /\ Fits(backup[op.id], row[cp])
                 ELSE Fits(NoFile, row[cp])

\* What an operation publishes.
Shaped(op) ==
    /\ op.new # NoFile
    /\ op.kind = "attach" => OneBlock(op.new, op.id) /\ ~ op.remove
    /\ op.kind = "detach" => ByHumans(op.new)

\* An operation to roll back, which can be as long as its content is the file.
Revertible(w, op, cp) ==
    /\ Shaped(op) /\ op.kind # "close"
    /\ AsPublished(op) => Reversible(op, cp)
    /\ op.kind = "detach" => row[cp] # None /\ row[cp].ws = w

\* Somebody answers for a file that the row does not fit.
Answered(cp) ==
    \E w \in Workspace : \E op \in Live(w) : op.kind = "attach" => row[cp] = None

Before == {"row", "read", "stage", "prepare", "check", "replace", "mark"}
Marked == {"recheck", "unlink", "markremove", "verify", "complete"}
Planned == {"prepare", "check", "replace", "mark"} \cup Marked

\* What an operation knows of the journals that is the only one running.
Follows(l) ==
    /\ l.pc \in Recovering =>
          Range(l.todo) \subseteq Range(journal[l.ws]) /\ DistinctIn(l.todo)
    /\ l.pc \in Recovering /\ l.after \in {"row", "read"} => Live(l.ws) \subseteq Range(l.todo)
    /\ l.pc = "undo" => MustRestore(Head(l.todo))
    /\ l.pc \in Before => Live(l.ws) = {}
    /\ l.pc = "prepare" => ~ l.op.published
    /\ l.pc \in Marked => Live(l.ws) \subseteq {l.op}
    /\ l.pc = "retire" \/ (l.pc \in Recovering /\ l.after = "retire")
          => \A op \in Live(l.ws) : op.id # l.op.id
    /\ l.pc \in Publishing =>
          \A w \in Workspace \ {l.ws} : \A op \in Range(journal[w]) : op.id # l.op.id

\* What it knows of the file and the row.
Sees(l, cp) ==
    /\ l.pc = "undo" => AsPublished(Head(l.todo))
    /\ l.pc \in {"clean", "forget"} /\ MustRestore(Head(l.todo)) => FileFits(cp)
    /\ Detaching(l) => row[cp] = l.att
    /\ l.pc \in {"stage", "prepare", "check", "replace", "tidy", "finish"} => FileFits(cp)
    /\ l.pc = "stage" => l.orig = file[cp[1]]
    /\ l.pc \in Planned => Shaped(l.op) /\ Reversible(l.op, cp)
    /\ l.pc = "mark" => \A w \in Workspace : \A op \in Live(w) : ~ AsPublished(op)
    /\ l.pc \in {"recheck", "unlink", "markremove"} => l.kind # "attach"
    /\ l.pc \in {"mark"} \cup Marked =>
          file[cp[1]] = l.op.new \/ (l.kind # "attach" /\ file[cp[1]] = NoFile)

\* Every operation that recovery would roll back can be, and one of them or a
\* replacement not yet journalled explains a file that the row does not fit.
Accounted(cp) ==
    /\ \A w \in Workspace : \A op \in Live(w) : Revertible(w, op, cp)
    /\ FileFits(cp) \/ Answered(cp) \/ \E q \in Proc : At(q, "mark")

\* No two workspaces have an operation with the same id.
Apart ==
    \A w, x \in Workspace : w # x =>
        \A op \in Range(journal[w]) : \A o \in Range(journal[x]) : op.id # o.id

AgreeInv ==
    /\ RowsInv /\ Apart
    /\ \A cp \in Cell :
          /\ Accounted(cp)
          /\ \A q \in Proc : Running(q) => Follows(loc[q]) /\ Sees(loc[q], cp)

\* One package of one configuration: one attachment, one file, one lock for both.
OneCell == (\A c, d \in Config : c = d) /\ (\A g, h \in Package : g = h)

\* An operation that waits or runs keeps the others from running.
LEMMA OneAtATime ==
    ASSUME OneCell, RowsInv, NEW p \in Proc, NEW q \in Proc, p # q,
           loc[p].pc # "idle", Running(q)
    PROVE  ~ Running(p) /\ ~ KeysFree(p)
<1> DEFINE key(r) == ConfigKey(ConfigOf(loc[r]), PackageIn(loc[r]))
<1>1. ASSUME NEW r \in Proc, loc[r].pc # "idle"
      PROVE  key(r) \in loc[r].keys /\ ConfigOf(loc[r]) \in Config /\ PackageIn(loc[r]) \in Package
  <2>1. Ready(loc[r], loc[r].pc) /\ RowSafe(loc[r])
    BY DEF RowsInv, RegistryInv, StructureInv, Presence
  <2>2. key(r) \in loc[r].keys BY <1>1 DEF RowsInv, RegistryInv, Locks
  <2>3. CASE loc[r].pc = "locking" /\ loc[r].kind = "detach"
    BY <2>1, <2>2, <2>3 DEF Ready, ConfigOf, PackageIn
  <2>4. CASE loc[r].ws \in Workspace
    <3>1. PackageOf[loc[r].ws] \in Package /\ OriginOf[loc[r].ws] \in Config /\ loc[r].cfg \in Config
      BY <1>1, <2>1, <2>4, AttachmentAssumption DEF Ready
    <3>2. CASE loc[r].pc # "locking"
      BY <1>1, <2>1, <2>2, <3>1, <3>2 DEF RowSafe, ConfigOf
    <3>3. CASE loc[r].pc = "locking" BY <2>1, <2>2, <3>1, <3>3 DEF Ready, ConfigOf, PackageIn
    <3> QED BY <3>2, <3>3
  <2> QED BY <1>1, <2>1, <2>3, <2>4 DEF Ready
<1>2. key(p) = key(q)
  <2>1. ConfigOf(loc[p]) = ConfigOf(loc[q]) /\ PackageIn(loc[p]) = PackageIn(loc[q])
    BY <1>1 DEF OneCell, Running
  <2> QED BY <2>1
<1>3. key(p) \in loc[p].keys \cap loc[q].keys BY <1>1, <1>2 DEF Running
<1> HIDE DEF key
<1>4. ~ KeysFree(p) BY <1>3 DEF KeysFree
<1>5. ~ Running(p) BY <1>3 DEF RowsInv, RegistryInv, Locks
<1> QED BY <1>4, <1>5

\* The one cell, as an operation that runs sees it.
LEMMA TheCell ==
    ASSUME OneCell, RowsInv, NEW cp \in Cell
    PROVE  /\ cp[1] \in Config /\ cp[2] \in Package /\ cp = <<cp[1], cp[2]>>
           /\ \A c \in Config : c = cp[1]
           /\ \A g \in Package : g = cp[2]
           /\ \A w \in Workspace : PackageOf[w] = cp[2]
           /\ \A q \in Proc : Running(q) =>
                 /\ loc[q] \in Local /\ loc[q].ws \in Workspace /\ loc[q].cfg = cp[1]
                 /\ CellOf(loc[q]) = cp /\ PackageIn(loc[q]) = cp[2]
                 /\ Ready(loc[q], loc[q].pc) /\ RowSafe(loc[q])
           /\ file[cp[1]] \in Content /\ row[cp] \in Attachment \cup {None}
<1>1. /\ cp[1] \in Config /\ cp[2] \in Package /\ cp = <<cp[1], cp[2]>> BY DEF Cell
<1>2. /\ \A c \in Config : c = cp[1]
      /\ \A g \in Package : g = cp[2]
      /\ \A w \in Workspace : PackageOf[w] = cp[2]
  BY <1>1, AttachmentAssumption DEF OneCell
<1>3. ASSUME NEW q \in Proc, Running(q)
      PROVE  /\ loc[q] \in Local /\ loc[q].ws \in Workspace /\ loc[q].cfg = cp[1]
             /\ CellOf(loc[q]) = cp /\ PackageIn(loc[q]) = cp[2]
             /\ Ready(loc[q], loc[q].pc) /\ RowSafe(loc[q])
  <2>1. loc[q] \in Local /\ Ready(loc[q], loc[q].pc) /\ RowSafe(loc[q])
    BY DEF RowsInv, RegistryInv, StructureInv, Presence, TypeOK
  <2>2. loc[q].ws \in Workspace /\ loc[q].cfg \in Config BY <1>3, <2>1 DEF Running, Ready
  <2>3. PackageIn(loc[q]) = PackageOf[loc[q].ws] BY <1>3, <2>1 DEF Running, RowSafe
  <2> QED BY <1>1, <1>2, <2>1, <2>2, <2>3 DEF CellOf
<1>4. file[cp[1]] \in Content /\ row[cp] \in Attachment \cup {None}
  BY <1>1 DEF RowsInv, RegistryInv, StructureInv, TypeOK
<1> QED BY <1>1, <1>2, <1>3, <1>4

\* A file that the row fits is not what an operation to roll back published.
LEMMA FitIsUnpublished ==
    ASSUME NEW op \in Operation, Shaped(op), op.kind # "close",
           NEW found \in Attachment \cup {None}, NEW c, Fits(c, found),
           op.kind = "attach" => found = None \/ found.id # op.id,
           op.kind = "detach" => found # None
    PROVE  c # op.new /\ ~ (op.remove /\ c = NoFile)
<1>1. op.id # 0 /\ op.new # NoFile /\ op.kind \in {"attach", "detach"}
      /\ (found # None => found.id # 0)
  BY DEF Operation, Id, Kind, Shaped, Attachment
<1>2. CASE op.kind = "attach"
  <2>1. ~ op.remove /\ OneBlock(op.new, op.id) BY <1>2 DEF Shaped
  <2>2. c # op.new BY <1>1, <1>2, <2>1 DEF Fits, Lines, OneBlock, ByHumans
  <2> QED BY <2>1, <2>2
<1>3. CASE op.kind = "detach"
  <2>1. ByHumans(op.new) /\ OneBlock(Lines(c), found.id) BY <1>3 DEF Shaped, Fits
  <2>2. c # op.new BY <1>1, <1>3, <2>1 DEF Lines, OneBlock, ByHumans
  <2>3. c # NoFile BY <2>1, EmptySeq DEF Lines, OneBlock
  <2> QED BY <2>2, <2>3
<1> QED BY <1>1, <1>2, <1>3

\* Appending the block of an attachment, and removing it.
LEMMA AppendedBlock ==
    ASSUME NEW s \in Seq(Line), ByHumans(s), NEW line \in Line
    PROVE  OneBlock(Append(s, line), line.id)
<1>1. /\ Append(s, line) \in Seq(Line) /\ Len(Append(s, line)) = Len(s) + 1
      /\ \A i \in 1 .. Len(s) : Append(s, line)[i] = s[i]
      /\ Append(s, line)[Len(s) + 1] = line
  BY AppendProperties
<1>2. Len(s) \in Nat /\ DOMAIN s = 1 .. Len(s) /\ DOMAIN Append(s, line) = 1 .. Len(s) + 1
  BY <1>1, LenProperties
<1>3. \A i \in (1 .. Len(s) + 1) \ {Len(s) + 1} : i \in 1 .. Len(s) BY <1>2
<1> QED BY <1>1, <1>2, <1>3 DEF OneBlock, ByHumans

LEMMA RemovedBlock ==
    ASSUME NEW s \in Seq(Line), NEW id, id # 0, OneBlock(s, id)
    PROVE  Removed(s, id) \in Seq(Line) /\ ByHumans(Removed(s, id))
<1>1. PICK k \in DOMAIN s : s[k].id = id /\ \A i \in DOMAIN s \ {k} : s[i].id = 0
  BY DEF OneBlock
<1>2. Len(s) \in Nat /\ DOMAIN s = 1 .. Len(s) BY LenProperties
<1>3. Places(s, id) = {k} BY <1>1 DEF Places
<1>4. Min({k}) = k BY <1>2 DEF Min
<1>5. Removed(s, id) = RemoveAt(s, k) BY <1>3, <1>4 DEF Removed
<1>6. /\ RemoveAt(s, k) \in Seq(Line)
      /\ Len(RemoveAt(s, k)) = Len(s) - 1
      /\ \A j \in 1 .. Len(s) - 1 : RemoveAt(s, k)[j] = IF j < k THEN s[j] ELSE s[j + 1]
  BY RemoveAtProperties
<1>7. DOMAIN RemoveAt(s, k) = 1 .. Len(s) - 1 BY <1>6, LenProperties
<1>8. ASSUME NEW j \in 1 .. Len(s) - 1 PROVE RemoveAt(s, k)[j].id = 0
  <2>1. CASE j < k BY <1>1, <1>2, <1>6, <2>1
  <2>2. CASE ~ (j < k) BY <1>1, <1>2, <1>6, <2>2
  <2> QED BY <2>1, <2>2
<1> QED BY <1>5, <1>6, <1>7, <1>8 DEF ByHumans

\* Dropping an operation keeps those with other ids.
LEMMA RemovedOthers ==
    ASSUME NEW S, NEW s \in Seq(S), NEW id, NEW op \in Range(s), op.id # id
    PROVE  op \in Range(Removed(s, id))
<1>1. CASE Places(s, id) = {} BY <1>1 DEF Removed
<1>2. CASE Places(s, id) # {}
  <2> DEFINE m == Min(Places(s, id))
  <2>1. m \in DOMAIN s /\ s[m].id = id BY <1>2, PlacesProperties
  <2>2. Removed(s, id) = RemoveAt(s, m) BY <1>2 DEF Removed
  <2> HIDE DEF m
  <2>3. Len(s) \in Nat /\ DOMAIN s = 1 .. Len(s) BY LenProperties
  <2>4. /\ RemoveAt(s, m) \in Seq(S) /\ Len(RemoveAt(s, m)) = Len(s) - 1
        /\ \A j \in 1 .. Len(s) - 1 : RemoveAt(s, m)[j] = IF j < m THEN s[j] ELSE s[j + 1]
    BY <2>1, RemoveAtProperties
  <2>5. DOMAIN RemoveAt(s, m) = 1 .. Len(s) - 1 BY <2>4, LenProperties
  <2>6. PICK i \in 1 .. Len(s) : s[i] = op BY <2>3 DEF Range
  <2>7. i # m BY <2>1, <2>6
  <2>8. CASE i < m
    <3>1. i \in 1 .. Len(s) - 1 /\ RemoveAt(s, m)[i] = op BY <2>1, <2>3, <2>4, <2>6, <2>8
    <3> QED BY <2>2, <2>5, <3>1 DEF Range
  <2>9. CASE i > m
    <3>1. i - 1 \in 1 .. Len(s) - 1 /\ ~ (i - 1 < m) /\ (i - 1) + 1 = i
      BY <2>1, <2>3, <2>6, <2>9
    <3>2. RemoveAt(s, m)[i - 1] = op BY <2>4, <2>6, <3>1
    <3> QED BY <2>2, <2>5, <3>1, <3>2 DEF Range
  <2> QED BY <2>1, <2>3, <2>7, <2>8, <2>9
<1> QED BY <1>1, <1>2

\* In a log with every operation once, what is at a place is what its id names.
LEMMA RemoveAtOnce ==
    ASSUME NEW log \in Seq(Operation), DistinctIn(log), NEW k \in DOMAIN log
    PROVE  RemoveAt(log, k) = Removed(log, log[k].id)
<1>1. Len(log) \in Nat /\ DOMAIN log = 1 .. Len(log) BY LenProperties
<1>2. Places(log, log[k].id) = {k} BY DEF Places, DistinctIn
<1>3. Min({k}) = k BY <1>1 DEF Min
<1> QED BY <1>2, <1>3 DEF Removed

LEMMA SameId ==
    ASSUME NEW log, DistinctIn(log), NEW op \in Range(log), NEW o \in Range(log), op.id = o.id
    PROVE  op = o
BY DEF DistinctIn, Range

LEMMA DistinctTail ==
    ASSUME NEW log \in Seq(Operation), log # <<>>, DistinctIn(log)
    PROVE  /\ DistinctIn(Tail(log))
           /\ \A op \in Range(Tail(log)) : op.id # Head(log).id
<1>1. /\ Tail(log) \in Seq(Operation) /\ Len(Tail(log)) = Len(log) - 1
      /\ \A i \in 1 .. Len(Tail(log)) : Tail(log)[i] = log[i + 1]
      /\ Head(log) = log[1]
  BY HeadTailProperties
<1>2. /\ Len(log) \in Nat \ {0} /\ DOMAIN log = 1 .. Len(log)
      /\ DOMAIN Tail(log) = 1 .. Len(log) - 1
  BY <1>1, LenProperties, EmptySeq
<1>3. \A i \in 1 .. Len(log) - 1 : i + 1 \in DOMAIN log /\ i + 1 # 1 BY <1>2
<1>4. \A i, j \in 1 .. Len(log) - 1 : i + 1 = j + 1 => i = j BY <1>2
<1>5. DistinctIn(Tail(log)) BY <1>1, <1>2, <1>3, <1>4 DEF DistinctIn
<1>6. ASSUME NEW i \in DOMAIN Tail(log) PROVE Tail(log)[i].id # Head(log).id
  BY <1>1, <1>2, <1>3, <1>6 DEF DistinctIn
<1> QED BY <1>5, <1>6 DEF Range

\* Whoever takes a step has the lock, or gets it.
LEMMA StepAlone ==
    ASSUME OneCell, RowsInv, NEW p \in Proc, Step(p) \/ Crash(p)
    PROVE  /\ Running(p) \/ loc[p].pc = "locking"
           /\ \A q \in Proc \ {p} : ~ Running(q) /\ loc'[q] = loc[q]
<1>1. Running(p) \/ (loc[p].pc = "locking" /\ KeysFree(p))
  <2>1. CASE LockWorkspace(p) \/ LockDetach(p) BY <2>1 DEF LockWorkspace, LockDetach, At
  <2>2. CASE Pending(p) \/ Recover(p) \/ Undo(p) \/ Clean(p) \/ Forget(p)
    BY <2>2 DEF Pending, Recover, Undo, Clean, Forget, At, Running
  <2>3. CASE \/ LookUpRow(p) \/ ReadOverride(p) \/ Stage(p) \/ Prepare(p) \/ Check(p)
             \/ Replace(p) \/ MarkPublished(p)
    BY <2>3 DEF LookUpRow, ReadOverride, Stage, Prepare, Check, Replace, MarkPublished, At, Running
  <2>4. CASE \/ Recheck(p) \/ UnlinkEmpty(p) \/ MarkRemoved(p) \/ Verify(p)
             \/ CompleteAttachment(p) \/ Rollback(p) \/ Tidy(p) \/ Finish(p)
    BY <2>4 DEF Recheck, UnlinkEmpty, MarkRemoved, Verify, CompleteAttachment, Rollback, Tidy,
                Finish, At, Running
  <2>5. CASE Preflight(p) \/ DetachNext(p) \/ SaveClose(p) \/ Retire(p) \/ Crash(p)
    BY <2>5 DEF Preflight, DetachNext, SaveClose, Retire, Crash, At, Running
  <2> QED BY <2>1, <2>2, <2>3, <2>4, <2>5 DEF Step
<1>2. ASSUME NEW q \in Proc \ {p} PROVE ~ Running(q)
  BY <1>1, OneAtATime DEF Running
<1>3. \A q \in Proc \ {p} : loc'[q] = loc[q]
  BY LocalsStep DEF RowsInv, RegistryInv, Stepped
<1> QED BY <1>1, <1>2, <1>3

\* A step that changes neither file, backups, row nor journals.
Still(p) == UNCHANGED <<file, backup, row, journal>> /\ loc[p].pc # "mark"

LEMMA StillAccounted ==
    ASSUME OneCell, AgreeInv, NEW p \in Proc, Step(p) \/ Crash(p), Still(p), NEW cp \in Cell
    PROVE  Accounted(cp)'
<1>1. Accounted(cp) BY DEF AgreeInv
<1>2. \A q \in Proc : ~ At(q, "mark") BY StepAlone DEF AgreeInv, Running, Still, At
<1>3. \A w \in Workspace : \A op \in Live(w)' : Revertible(w, op, cp)'
  <2>1. \A w \in Workspace : Live(w)' = Live(w) BY DEF Live, Still
  <2>2. ASSUME NEW w \in Workspace, NEW op \in Live(w) PROVE Revertible(w, op, cp)'
    BY <1>1 DEF Accounted, Revertible, AsPublished, Reversible, Still
  <2> QED BY <2>1, <2>2
<1>4. (FileFits(cp) \/ Answered(cp))' BY <1>1, <1>2 DEF Accounted, FileFits, Answered, Live, Still
<1> QED BY <1>3, <1>4 DEF Accounted

LEMMA StillKnown ==
    ASSUME NEW p \in Proc, Still(p), NEW cp
    PROVE  /\ Follows(loc'[p]) => Follows(loc[p])'
           /\ Sees(loc'[p], cp) => Sees(loc[p], cp)'
<1>1. Follows(loc'[p]) => Follows(loc[p])' BY DEF Follows, Live, Still
<1>2. Sees(loc'[p], cp) => Sees(loc[p], cp)'
  BY DEF Sees, FileFits, Live, AsPublished, Reversible, Still, Detaching
<1> QED BY <1>1, <1>2

\* What goes on to a step that asks for nothing new.
LEMMA GoKnows ==
    ASSUME loc \in [Proc -> Local], NEW p \in Proc, NEW x, Go(p, x)
    PROVE  /\ loc'[p].pc = x /\ loc'[p].kind = loc[p].kind
           /\ loc'[p].ws = loc[p].ws /\ loc'[p].cfg = loc[p].cfg
           /\ loc'[p].after = loc[p].after /\ loc'[p].todo = loc[p].todo
           /\ loc'[p].att = loc[p].att /\ loc'[p].op = loc[p].op
           /\ loc'[p].orig = loc[p].orig /\ loc'[p].seen = loc[p].seen
BY DEF Go, Local

\* The steps that only decide where to go on know what they have to know there.
Deciding(p) ==
    \/ LockWorkspace(p) \/ LockDetach(p) \/ Pending(p) \/ Recover(p) \/ LookUpRow(p)
    \/ ReadOverride(p) \/ Check(p) \/ Recheck(p) \/ Verify(p) \/ Rollback(p)
    \/ Preflight(p) \/ DetachNext(p)

LEMMA DecidingKnows ==
    ASSUME OneCell, AgreeInv, NEW p \in Proc, Deciding(p), Running(p)', NEW cp \in Cell
    PROVE  Still(p) /\ Follows(loc'[p]) /\ Sees(loc'[p], cp)
<1> DEFINE l == loc[p]
           n == loc'[p]
<1>0. /\ RowsInv /\ loc \in [Proc -> Local] /\ l \in Local /\ Ready(l, l.pc)
      /\ journal \in [Workspace -> Seq(Operation)] /\ row \in [Cell -> Attachment \cup {None}]
      /\ \A w \in Workspace : DistinctIn(journal[w])
  BY DEF AgreeInv, RowsInv, RegistryInv, StructureInv, Presence, TypeOK
<1>c. /\ Running(p) => /\ l.ws \in Workspace /\ l.cfg = cp[1] /\ CellOf(l) = cp
                       /\ RowSafe(l) /\ Follows(l) /\ Sees(l, cp)
      /\ \A c \in Config : c = cp[1]
      /\ \A g \in Package : g = cp[2]
      /\ \A w \in Workspace : PackageOf[w] = cp[2]
      /\ cp = <<cp[1], cp[2]>> /\ file[cp[1]] \in Content
  BY <1>0, TheCell DEF AgreeInv
<1>e. ~ End(p) BY <1>0 DEF End, Idle, Running
<1>s. UNCHANGED <<disk, database>> /\ loc[p].pc # "mark" => Still(p)
  BY DEF Still, disk, database
<1>1. CASE LockWorkspace(p)
  <2>1. /\ n.pc = "pending" /\ n.after = l.after /\ n.kind = l.kind
        /\ l.pc = "locking"
    BY <1>0, <1>1, <1>e DEF LockWorkspace, At, Local
  <2>2. ~ Detaching(n)
    BY <1>0, <2>1 DEF Ready, Detaching, Publishing, Recovering
  <2>3. Follows(n) /\ Sees(n, cp)
    BY <2>1, <2>2 DEF Follows, Sees, Recovering, Before, Marked, Planned, Publishing
  <2> QED BY <1>1, <1>s, <2>1, <2>3 DEF LockWorkspace
<1>2. CASE LockDetach(p)
  <2> DEFINE found == row[<<l.cfg, l.pkg>>]
  <2>0. l.pc = "locking" BY <1>2 DEF LockDetach, At
  <2>1. n.pc = "pending" /\ n.att = found
    BY <1>0, <1>2, <1>e DEF LockDetach, At, Local
  <2>2. <<l.cfg, l.pkg>> = cp
    BY <1>0, <1>c, <2>0 DEF Ready
  <2>3. Follows(n) /\ Sees(n, cp)
    BY <2>1, <2>2 DEF Follows, Sees, Recovering, Before, Marked, Planned, Publishing
  <2> QED BY <1>2, <1>s, <2>0, <2>3 DEF LockDetach
<1>3. CASE Pending(p)
  <2> DEFINE log == journal[l.ws]
             closes == {i \in DOMAIN log : log[i].kind = "close"}
  <2>0. l.pc = "pending" /\ Running(p) BY <1>3 DEF Pending, At, Running
  <2>1. /\ log \in Seq(Operation) /\ DistinctIn(log) /\ l.ws \in Workspace
        /\ Len(log) \in Nat /\ DOMAIN log = 1 .. Len(log)
    BY <1>0, <1>c, <2>0, LenProperties
  <2>2. CASE OwnRecovery(p) /\ closes = {}
    <3>1. loc' = [loc EXCEPT ![p].pc = "recover", ![p].todo = log, ![p].after = "preflight"]
      BY <1>3, <2>2 DEF Pending
    <3>2. n.pc = "recover" /\ n.todo = log /\ n.after = "preflight" /\ n.ws = l.ws
      BY <1>0, <3>1 DEF Local
    <3> HIDE DEF n
    <3>3. Follows(n) /\ Sees(n, cp)
      BY <2>1, <3>2 DEF Follows, Sees, Recovering, Before, Marked, Planned, Publishing, Detaching
    <3> QED BY <1>3, <1>s, <2>0, <3>3 DEF Pending, n
  <2>3. CASE OwnRecovery(p) /\ closes # {}
    <3> DEFINE m == Min(closes)
    <3>1. loc' = [loc EXCEPT ![p].pc = "recover", ![p].todo = RemoveAt(log, m),
                             ![p].op = log[m], ![p].after = "retire"]
      BY <1>3, <2>3 DEF Pending
    <3>2. /\ n.pc = "recover" /\ n.todo = RemoveAt(log, m) /\ n.after = "retire"
          /\ n.ws = l.ws /\ n.op = log[m]
      BY <1>0, <3>1 DEF Local
    <3>3. m \in DOMAIN log /\ log[m].kind = "close"
      <4>1. closes \in SUBSET (1 .. Len(log)) BY <2>1
      <4>2. m \in closes BY <2>1, <2>3, <4>1, MinExists
      <4> QED BY <4>2
    <3> HIDE DEF m, n
    <3>4. RemoveAt(log, m) = Removed(log, log[m].id) BY <2>1, <3>3, RemoveAtOnce
    <3>5. DistinctIn(n.todo) /\ Range(n.todo) \subseteq Range(log)
      BY <2>1, <3>2, <3>4, RemovedOnce
    <3>6. ASSUME NEW op \in Live(l.ws) PROVE op.id # n.op.id
      <4>1. Revertible(l.ws, op, cp) /\ op \in Range(log)
        BY <2>1, <3>6 DEF AgreeInv, Accounted, Live
      <4>2. op.kind # "close" BY <4>1 DEF Revertible
      <4>3. log[m] \in Range(log) BY <3>3 DEF Range
      <4> QED BY <2>1, <3>2, <3>3, <4>1, <4>2, <4>3, SameId
    <3>7. Follows(n) /\ Sees(n, cp)
      BY <2>1, <3>2, <3>5, <3>6
         DEF Follows, Sees, Recovering, Before, Marked, Planned, Publishing, Detaching
    <3> QED BY <1>3, <1>s, <2>0, <3>7 DEF Pending, n
  <2>4. CASE ~ OwnRecovery(p)
    <3>1. loc' = [loc EXCEPT ![p].pc = "recover", ![p].todo = log] BY <1>3, <2>4 DEF Pending
    <3>2. /\ n.pc = "recover" /\ n.todo = log /\ n.after = l.after /\ n.ws = l.ws
          /\ n.kind = l.kind /\ n.att = l.att
      BY <1>0, <3>1 DEF Local
    <3> HIDE DEF n
    <3>3. Live(l.ws) \subseteq Range(log) BY DEF Live
    <3>4. n.after # "retire" BY <1>0, <2>0, <3>2 DEF Ready, AfterRecovery
    <3>5. Detaching(n) => row[cp] = n.att
      BY <1>c, <2>0, <3>2 DEF Detaching, Sees, Publishing, Recovering
    <3>6. Follows(n) /\ Sees(n, cp)
      BY <2>1, <3>2, <3>3, <3>4, <3>5
         DEF Follows, Sees, Recovering, Before, Marked, Planned, Publishing
    <3> QED BY <1>3, <1>s, <2>0, <3>6 DEF Pending, n
  <2> QED BY <2>2, <2>3, <2>4
<1>4. CASE Recover(p)
  <2>0. l.pc = "recover" /\ Running(p) BY <1>4 DEF Recover, At, Running
  <2>f. /\ Follows(l) /\ Sees(l, cp) /\ AfterRecovery(l, "recover") /\ l.ws \in Workspace
        /\ l.todo \in Seq(Operation)
    BY <1>0, <1>c, <2>0 DEF Ready, Recovering, Local
  <2>1. CASE l.todo = <<>>
    <3>1. Go(p, l.after) BY <1>4, <1>e, <2>1 DEF Recover
    <3>2. /\ n.pc = l.after /\ n.kind = l.kind /\ n.ws = l.ws /\ n.att = l.att
          /\ n.op = l.op /\ n.after = l.after
      BY <1>0, <3>1, GoKnows
    <3> HIDE DEF n
    <3>3. Range(l.todo) = {} BY <2>1, EmptySeq DEF Range
    <3>4. l.after \in {"row", "read", "idle", "preflight", "retire"}
      BY <2>f DEF AfterRecovery
    <3>5. l.after \in {"row", "read"} => Live(l.ws) = {}
      BY <2>0, <2>f, <3>3 DEF Follows, Recovering
    <3>6. Detaching(n) => row[cp] = n.att
      BY <2>0, <2>f, <3>2, <3>4 DEF Detaching, Sees, Publishing, Recovering
    <3>7. n.pc = "retire" => \A op \in Live(n.ws) : op.id # n.op.id
      BY <2>0, <2>f, <3>2 DEF Follows, Recovering
    <3>8. Follows(n) /\ Sees(n, cp)
      BY <3>2, <3>4, <3>5, <3>6, <3>7
         DEF Follows, Sees, Recovering, Before, Marked, Planned, Publishing
    <3> QED BY <1>4, <1>s, <2>0, <3>8 DEF Recover, n
  <2>2. CASE l.todo # <<>>
    <3>1. ~ Unrecoverable(Item(p)) /\ Go(p, RecoveryOf(p)) BY <1>4, <1>e, <2>2 DEF Recover
    <3>2. /\ n.pc = RecoveryOf(p) /\ n.kind = l.kind /\ n.ws = l.ws /\ n.att = l.att
          /\ n.op = l.op /\ n.after = l.after /\ n.todo = l.todo
      BY <1>0, <3>1, GoKnows
    <3> HIDE DEF n
    <3>3. /\ n.pc \in {"undo", "clean", "forget"}
          /\ n.pc = "undo" => MustRestore(Head(l.todo))
          /\ n.pc # "undo" => ~ MustRestore(Head(l.todo))
      <4>1. MustRestore(Item(p)) => RecoveryOf(p) = "undo"
        BY DEF RecoveryOf, MustRestore
      <4>2. ~ MustRestore(Item(p)) => RecoveryOf(p) \in {"clean", "forget"} BY DEF RecoveryOf
      <4> QED BY <3>2, <4>1, <4>2 DEF Item
    <3>4. n.pc = "undo" => AsPublished(Head(l.todo))
      BY <3>1, <3>3 DEF Unrecoverable, Item
    <3>5. Detaching(n) => row[cp] = n.att
      BY <2>0, <2>f, <3>2, <3>3 DEF Detaching, Sees, Publishing, Recovering
    <3>6. Follows(n)
      BY <2>0, <2>f, <3>2, <3>3 DEF Follows, Recovering, Before, Marked, Publishing
    <3>7. Sees(n, cp)
      BY <3>2, <3>3, <3>4, <3>5 DEF Sees, Marked, Planned
    <3> QED BY <1>4, <1>s, <2>0, <3>6, <3>7 DEF Recover, n
  <2> QED BY <2>1, <2>2
<1>5. CASE LookUpRow(p)
  <2>0. l.pc = "row" /\ Running(p) BY <1>5 DEF LookUpRow, At, Running
  <2>1. Go(p, "read") BY <1>5, <1>e DEF LookUpRow
  <2>2. n.pc = "read" /\ n.kind = l.kind /\ n.ws = l.ws BY <1>0, <2>1, GoKnows
  <2>3. l.kind = "attach" BY <1>0, <2>0 DEF Ready
  <2> HIDE DEF n
  <2>4. Live(l.ws) = {} BY <1>c, <2>0 DEF Follows, Before
  <2>5. Follows(n) /\ Sees(n, cp)
    BY <2>2, <2>3, <2>4
       DEF Follows, Sees, Recovering, Before, Marked, Planned, Publishing, Detaching
  <2> QED BY <1>5, <1>s, <2>0, <2>5 DEF LookUpRow, n
<1>6. CASE ReadOverride(p)
  <2>0. l.pc = "read" /\ Running(p) BY <1>6 DEF ReadOverride, At, Running
  <2>f. /\ Follows(l) /\ Sees(l, cp) /\ RowSafe(l) /\ l.ws \in Workspace
        /\ File(p) = file[cp[1]] /\ Pkg(p) = cp[2] /\ Live(l.ws) = {}
    BY <1>c, <2>0 DEF File, Pkg, Follows, Before
  <2>1. /\ loc' = [loc EXCEPT ![p].pc = "stage", ![p].orig = File(p)]
        /\ l.kind = "attach" => ~ UnrecordedBlock(File(p), Pkg(p))
    BY <1>6, <1>e DEF ReadOverride
  <2>2. /\ n.pc = "stage" /\ n.orig = File(p) /\ n.kind = l.kind /\ n.ws = l.ws /\ n.att = l.att
    BY <1>0, <2>1 DEF Local
  <2> HIDE DEF n
  <2>3. FileFits(cp)
    <3>1. CASE l.kind = "attach"
      <4>1. row[cp] = None BY <1>c, <2>0, <2>f, <3>1 DEF RowSafe
      <4>2. Lines(file[cp[1]]) \in Seq(Line) BY <1>c, LinesType
      <4>3. ASSUME NEW i \in DOMAIN Lines(file[cp[1]]), Lines(file[cp[1]])[i].id # 0 PROVE FALSE
        <5>1. Lines(file[cp[1]])[i] \in Line BY <4>2, ElementOfSeq, LenProperties
        <5>2. Lines(file[cp[1]])[i].pkg = cp[2] BY <1>c, <5>1 DEF Line
        <5> QED BY <2>1, <2>f, <3>1, <4>3, <5>2 DEF UnrecordedBlock
      <4> QED BY <4>1, <4>3 DEF FileFits, Fits, ByHumans
    <3>2. CASE l.kind # "attach"
      <4>1. Detaching(l) /\ l.att \in Attachment
        BY <1>0, <2>0, <3>2 DEF Detaching, Ready
      <4>2. row[cp] # None /\ row[cp].ws = l.ws
        BY <1>c, <2>0, <2>f, <4>1, AbsentAssumption DEF Sees, RowSafe
      <4>3. \A q \in Proc : ~ At(q, "mark")
        BY <1>0, <2>0, OneAtATime DEF At, Running
      <4>4. CASE Answered(cp)
        <5>w. PICK w \in Workspace : \E op \in Live(w) : op.kind # "attach"
          BY <4>2, <4>4 DEF Answered
        <5>1. PICK op \in Live(w) : op.kind # "attach" BY <5>w
        <5>2. Revertible(w, op, cp) BY DEF AgreeInv, Accounted
        <5>3. op \in Operation BY <1>0, RangeType DEF Live
        <5>4. op.kind = "detach" BY <5>1, <5>2, <5>3 DEF Revertible, Operation, Kind
        <5>5. w = l.ws BY <4>2, <5>2, <5>4 DEF Revertible
        <5> QED BY <2>f, <5>1, <5>5
      <4> QED BY <4>3, <4>4 DEF AgreeInv, Accounted
    <3> QED BY <3>1, <3>2
  <2>4. Detaching(n) => row[cp] = n.att
    BY <2>0, <2>2, <2>f DEF Detaching, Sees, Publishing, Recovering
  <2>5. Follows(n) /\ Sees(n, cp)
    BY <2>2, <2>3, <2>4, <2>f
       DEF Follows, Sees, Recovering, Before, Marked, Planned, Publishing
  <2> QED BY <1>6, <1>s, <2>0, <2>5 DEF ReadOverride, n
<1>7. CASE Check(p)
  <2>0. l.pc = "check" /\ Running(p) BY <1>7 DEF Check, At, Running
  <2>1. Go(p, "replace") BY <1>7, <1>e DEF Check
  <2>2. /\ n.pc = "replace" /\ n.kind = l.kind /\ n.ws = l.ws /\ n.att = l.att /\ n.op = l.op
    BY <1>0, <2>1, GoKnows
  <2> HIDE DEF n
  <2>3. Follows(l) /\ Sees(l, cp) BY <1>c, <2>0
  <2>4. Follows(n)
    BY <2>0, <2>2, <2>3 DEF Follows, Recovering, Before, Marked, Publishing
  <2>5. Sees(n, cp)
    BY <2>0, <2>2, <2>3 DEF Sees, Marked, Planned, Publishing, Detaching, Recovering
  <2> QED BY <1>7, <1>s, <2>0, <2>4, <2>5 DEF Check, n
<1>8. CASE Recheck(p) \/ Verify(p)
  <2>0. l.pc \in {"recheck", "verify"} /\ Running(p)
    BY <1>8 DEF Recheck, Verify, At, Running
  <2>1. PICK x \in {"unlink", "complete", "rollback"} :
           Go(p, x) /\ (x = "unlink" => l.pc = "recheck")
    BY <1>8 DEF Recheck, Verify, At
  <2>2. /\ n.pc = x /\ n.kind = l.kind /\ n.ws = l.ws /\ n.att = l.att /\ n.op = l.op
    BY <1>0, <2>1, GoKnows
  <2> HIDE DEF n
  <2>3. Follows(l) /\ Sees(l, cp) BY <1>c, <2>0
  <2>4. Follows(n)
    BY <2>0, <2>2, <2>3 DEF Follows, Recovering, Before, Marked, Publishing
  <2>5. Sees(n, cp)
    BY <2>0, <2>1, <2>2, <2>3 DEF Sees, Marked, Planned, Publishing, Detaching, Recovering
  <2> QED BY <1>8, <1>s, <2>0, <2>4, <2>5 DEF Recheck, Verify, n
<1>9. CASE Rollback(p)
  <2> DEFINE log == journal[l.ws]
             m == Min(Places(log, l.op.id))
  <2>0. l.pc = "rollback" /\ Running(p) BY <1>9 DEF Rollback, At, Running
  <2>1. /\ Places(log, l.op.id) # {}
        /\ loc' = [loc EXCEPT ![p].pc = "recover", ![p].todo = <<log[m]>>, ![p].after = "idle"]
    BY <1>9, <1>e DEF Rollback
  <2>2. n.pc = "recover" /\ n.todo = <<log[m]>> /\ n.after = "idle" /\ n.ws = l.ws
    BY <1>0, <2>1 DEF Local
  <2>3. log \in Seq(Operation) /\ log[m] \in Range(log)
    BY <1>0, <1>c, <2>0, <2>1, PlacesProperties
  <2> HIDE DEF m, n
  <2>4. DistinctIn(<<log[m]>>) /\ Range(<<log[m]>>) = {log[m]} BY DEF DistinctIn, Range
  <2>5. Follows(n) /\ Sees(n, cp)
    BY <2>2, <2>3, <2>4
       DEF Follows, Sees, Recovering, Before, Marked, Planned, Publishing, Detaching
  <2> QED BY <1>9, <1>s, <2>0, <2>5 DEF Rollback, n
<1>10. CASE Preflight(p)
  <2>0. l.pc = "preflight" BY <1>10 DEF Preflight, At
  <2>1. n.pc = "next" BY <1>0, <1>10, <1>e DEF Preflight, Local
  <2> HIDE DEF n
  <2>2. Follows(n) /\ Sees(n, cp)
    BY <2>1 DEF Follows, Sees, Recovering, Before, Marked, Planned, Publishing, Detaching
  <2> QED BY <1>10, <1>s, <2>0, <2>2 DEF Preflight, n
<1>11. CASE DetachNext(p)
  <2>0. l.pc = "next" /\ Running(p) BY <1>11 DEF DetachNext, At, Running
  <2>1. CASE l.rest = {}
    <3>1. n.pc = "saveclose" BY <1>0, <1>11, <2>1, GoKnows DEF DetachNext
    <3> HIDE DEF n
    <3>2. Follows(n) /\ Sees(n, cp)
      BY <3>1 DEF Follows, Sees, Recovering, Before, Marked, Planned, Publishing, Detaching
    <3> QED BY <1>11, <1>s, <2>0, <3>2 DEF DetachNext, n
  <2>2. CASE l.rest # {}
    <3>1. PICK dp \in l.rest :
             loc' = [loc EXCEPT ![p].rest = @ \ {dp}, ![p].cfg = dp[1], ![p].att = row[dp],
                        ![p].after = "read",
                        ![p].pc = IF row[dp] = None THEN "next" ELSE "pending"]
      BY <1>11, <2>2 DEF DetachNext
    <3>2. dp \in Cell BY <1>0 DEF Local
    <3>3. dp = cp BY <1>c, <3>2 DEF Cell
    <3>4. n.att = row[dp] /\ n.pc \in {"next", "pending"} BY <1>0, <3>1 DEF Local
    <3> HIDE DEF n
    <3>5. Follows(n) /\ Sees(n, cp)
      BY <3>3, <3>4 DEF Follows, Sees, Recovering, Before, Marked, Planned, Publishing
    <3> QED BY <1>11, <1>s, <2>0, <3>5 DEF DetachNext, n
  <2> QED BY <2>1, <2>2
<1> QED BY <1>1, <1>2, <1>3, <1>4, <1>5, <1>6, <1>7, <1>8, <1>9, <1>10, <1>11 DEF Deciding

\* What a step has to leave.
Keeps(p, cp) ==
    /\ Accounted(cp)'
    /\ Running(p)' => Follows(loc[p])' /\ Sees(loc[p], cp)'

\* What is known of an operation to roll back, and of one that runs.
LEMMA LiveFacts ==
    ASSUME OneCell, AgreeInv, NEW cp \in Cell, NEW w \in Workspace, NEW op \in Live(w)
    PROVE  /\ op \in Operation /\ op.cfg = cp[1] /\ MustRestore(op) /\ op \in Range(journal[w])
           /\ Revertible(w, op, cp) /\ op.id <= issued /\ op.kind \in {"attach", "detach"}
           /\ op.kind = "attach" => row[cp] = None \/ row[cp].id # op.id
<1>0. /\ RowsInv /\ HumansInv /\ journal \in [Workspace -> Seq(Operation)]
  BY DEF AgreeInv, RowsInv, RegistryInv, StructureInv, TypeOK
<1>1. op \in Operation /\ op \in Range(journal[w]) /\ MustRestore(op)
  BY <1>0, RangeType DEF Live
<1>2. Revertible(w, op, cp) BY DEF AgreeInv, Accounted
<1>3. op.kind \in {"attach", "detach"} /\ op.cfg \in Config
  BY <1>1, <1>2 DEF Revertible, Operation, Kind
<1>4. op.cfg = cp[1] /\ <<op.cfg, PackageOf[w]>> = cp BY <1>0, <1>3, TheCell
<1>5. Agrees(w, op) /\ op.phase # "complete" BY <1>0, <1>1 DEF RowsInv, MustRestore
<1>6. op.kind = "attach" => row[cp] = None \/ row[cp].id # op.id
  BY <1>4, <1>5 DEF Agrees
<1>7. op.id <= issued BY <1>0, <1>1 DEF HumansInv, Faithful
<1> QED BY <1>1, <1>2, <1>3, <1>4, <1>6, <1>7

LEMMA LiveUnpublished ==
    ASSUME OneCell, AgreeInv, NEW cp \in Cell, NEW w \in Workspace, NEW op \in Live(w),
           NEW c, Fits(c, row[cp])
    PROVE  c # op.new /\ ~ (op.remove /\ c = NoFile)
<1>1. /\ op \in Operation /\ Revertible(w, op, cp)
      /\ op.kind = "attach" => row[cp] = None \/ row[cp].id # op.id
  BY LiveFacts
<1>2. row[cp] \in Attachment \cup {None} BY TheCell DEF AgreeInv
<1> QED BY <1>1, <1>2, FitIsUnpublished DEF Revertible

LEMMA RunningFacts ==
    ASSUME OneCell, AgreeInv, NEW cp \in Cell, NEW p \in Proc, Running(p)
    PROVE  /\ RowsInv /\ loc \in [Proc -> Local] /\ loc[p] \in Local
           /\ loc[p].ws \in Workspace /\ loc[p].cfg = cp[1] /\ CellOf(loc[p]) = cp
           /\ RowSafe(loc[p]) /\ Follows(loc[p]) /\ Sees(loc[p], cp)
           /\ Ready(loc[p], loc[p].pc)
           /\ journal \in [Workspace -> Seq(Operation)] /\ file \in [Config -> Content]
           /\ row \in [Cell -> Attachment \cup {None}] /\ issued \in Nat
           /\ \A w \in Workspace : DistinctIn(journal[w])
           /\ cp = <<cp[1], cp[2]>> /\ cp[1] \in Config
           /\ \A w \in Workspace : PackageOf[w] = cp[2]
<1>1. RowsInv BY DEF AgreeInv
<1>2. /\ loc \in [Proc -> Local] /\ journal \in [Workspace -> Seq(Operation)]
      /\ file \in [Config -> Content] /\ issued \in Nat
      /\ row \in [Cell -> Attachment \cup {None}] /\ \A w \in Workspace : DistinctIn(journal[w])
  BY <1>1 DEF RowsInv, RegistryInv, StructureInv, TypeOK
<1>3. Follows(loc[p]) /\ Sees(loc[p], cp) BY DEF AgreeInv
<1> QED BY <1>1, <1>2, <1>3, TheCell

\* Restoring what a published operation replaced gives a file the row fits.
LEMMA UndoKeeps ==
    ASSUME OneCell, AgreeInv, NEW p \in Proc, Undo(p), NEW cp \in Cell
    PROVE  Keeps(p, cp)
<1> DEFINE l == loc[p]
           n == loc'[p]
           item == Head(l.todo)
<1>0. l.pc = "undo" /\ Running(p) BY DEF Undo, At, Running
<1>1. /\ loc \in [Proc -> Local] /\ l \in Local /\ l.ws \in Workspace /\ Follows(l) /\ Sees(l, cp)
      /\ Ready(l, l.pc) /\ file \in [Config -> Content] /\ cp[1] \in Config
  BY <1>0, RunningFacts
<1>2. /\ l.todo \in Seq(Operation) /\ l.todo # <<>> /\ item \in Range(l.todo)
  BY <1>0, <1>1, HeadAndTail DEF Ready, Local
<1>3. item \in Live(l.ws) /\ AsPublished(item)
  BY <1>0, <1>1, <1>2 DEF Follows, Sees, Live, Recovering
<1>4. Revertible(l.ws, item, cp) /\ item.cfg = cp[1] BY <1>1, <1>3, LiveFacts
<1>5. Reversible(item, cp) BY <1>3, <1>4 DEF Revertible
<1>6. /\ file' = [file EXCEPT ![item.cfg] = IF item.backed THEN backup[item.id] ELSE NoFile]
      /\ Go(p, "clean")
  BY <1>5 DEF Undo, Item, Reversible
<1>7. file'[cp[1]] = IF item.backed THEN backup[item.id] ELSE NoFile
  BY <1>1, <1>4, <1>6
<1>8. row' = row /\ journal' = journal BY DEF Undo, database
<1>9. Fits(file'[cp[1]], row[cp]) BY <1>5, <1>7 DEF Reversible
<1>10. FileFits(cp)' BY <1>8, <1>9 DEF FileFits
<1>11. ASSUME NEW w \in Workspace, NEW op \in Live(w)' PROVE Revertible(w, op, cp)'
  <2>1. op \in Live(w) BY <1>8 DEF Live
  <2>2. PICK c : c = file'[cp[1]] OBVIOUS
  <2>3. c # op.new /\ ~ (op.remove /\ c = NoFile) BY <1>9, <2>1, <2>2, LiveUnpublished
  <2>4. Revertible(w, op, cp) /\ op.cfg = cp[1] BY <2>1, LiveFacts
  <2>5. ~ AsPublished(op)' BY <2>2, <2>3, <2>4 DEF AsPublished
  <2> QED BY <1>8, <2>4, <2>5 DEF Revertible
<1>12. /\ n.pc = "clean" /\ n.kind = l.kind /\ n.ws = l.ws /\ n.att = l.att
       /\ n.op = l.op /\ n.after = l.after /\ n.todo = l.todo
  BY <1>1, <1>6, GoKnows
<1> HIDE DEF n
<1>13. Follows(n)
  BY <1>0, <1>1, <1>12 DEF Follows, Recovering, Before, Marked, Publishing
<1>14. Follows(loc[p])' BY <1>8, <1>13 DEF Follows, Live, n
<1>15. Detaching(n) => row[cp] = n.att
  BY <1>0, <1>1, <1>12 DEF Detaching, Sees, Publishing, Recovering
<1>16. Sees(loc[p], cp)'
  BY <1>8, <1>10, <1>12, <1>15 DEF Sees, Marked, Planned, n
<1> QED BY <1>10, <1>11, <1>14, <1>16 DEF Keeps, Accounted

\* Removing the backup of an operation takes it from no other one.
LEMMA CleanKeeps ==
    ASSUME OneCell, AgreeInv, NEW p \in Proc, Clean(p), NEW cp \in Cell
    PROVE  Keeps(p, cp)
<1> DEFINE l == loc[p]
           n == loc'[p]
           item == Head(l.todo)
<1>0. l.pc = "clean" /\ Running(p) BY DEF Clean, At, Running
<1>1. /\ loc \in [Proc -> Local] /\ l \in Local /\ l.ws \in Workspace /\ Follows(l) /\ Sees(l, cp)
      /\ Ready(l, l.pc) /\ \A w \in Workspace : DistinctIn(journal[w])
  BY <1>0, RunningFacts
<1>2. /\ l.todo \in Seq(Operation) /\ l.todo # <<>> /\ item \in Range(l.todo)
  BY <1>0, <1>1, HeadAndTail DEF Ready, Local
<1>3. item \in Range(journal[l.ws]) /\ (MustRestore(item) => FileFits(cp))
  BY <1>0, <1>1, <1>2 DEF Follows, Sees, Recovering
<1>4. /\ file' = file /\ row' = row /\ journal' = journal /\ Go(p, "forget")
      /\ backup' = Without(backup, item.id)
  BY DEF Clean, Item, database
<1>5. ASSUME NEW w \in Workspace, NEW op \in Live(w)' PROVE Revertible(w, op, cp)'
  <2>1. op \in Live(w) BY <1>4, <1>5 DEF Live
  <2>2. Revertible(w, op, cp) /\ op.cfg = cp[1] /\ op \in Range(journal[w]) /\ MustRestore(op)
    BY <2>1, LiveFacts
  <2>3. CASE FileFits(cp)
    <3>1. ~ AsPublished(op) BY <2>1, <2>2, <2>3, LiveUnpublished DEF FileFits, AsPublished
    <3> QED BY <1>4, <2>2, <3>1 DEF Revertible, AsPublished
  <2>4. CASE ~ FileFits(cp)
    <3>1. op.id # item.id
      <4>1. op # item BY <1>3, <2>2, <2>4
      <4>2. CASE w = l.ws BY <1>1, <1>3, <2>2, <4>1, <4>2, SameId
      <4>3. CASE w # l.ws BY <1>1, <1>3, <2>2, <4>3 DEF AgreeInv, Apart
      <4> QED BY <4>2, <4>3
    <3>2. Reversible(op, cp) => Reversible(op, cp)'
      BY <1>4, <3>1 DEF Reversible, Without
    <3> QED BY <1>4, <2>2, <3>2 DEF Revertible, AsPublished
  <2> QED BY <2>3, <2>4
<1>6. (FileFits(cp) \/ Answered(cp))'
  <2>1. \A q \in Proc : ~ At(q, "mark")
    BY <1>0, OneAtATime DEF AgreeInv, At, Running
  <2>2. FileFits(cp) \/ Answered(cp) BY <2>1 DEF AgreeInv, Accounted
  <2> QED BY <1>4, <2>2 DEF FileFits, Answered, Live
<1>7. /\ n.pc = "forget" /\ n.kind = l.kind /\ n.ws = l.ws /\ n.att = l.att
      /\ n.op = l.op /\ n.after = l.after /\ n.todo = l.todo
  BY <1>1, <1>4, GoKnows
<1> HIDE DEF n
<1>8. Follows(n)
  BY <1>0, <1>1, <1>7 DEF Follows, Recovering, Before, Marked, Publishing
<1>9. Follows(loc[p])' BY <1>4, <1>8 DEF Follows, Live, n
<1>10. Detaching(n) => row[cp] = n.att
  BY <1>0, <1>1, <1>7 DEF Detaching, Sees, Publishing, Recovering
<1>11. MustRestore(Head(n.todo)) => FileFits(cp)' BY <1>3, <1>4, <1>7 DEF FileFits
<1>12. Sees(loc[p], cp)'
  BY <1>4, <1>7, <1>10, <1>11 DEF Sees, Marked, Planned, n
<1> QED BY <1>5, <1>6, <1>9, <1>12 DEF Keeps, Accounted

\* The backup a tidying operation removes is of no use to any other one.
LEMMA TidyKeeps ==
    ASSUME OneCell, AgreeInv, NEW p \in Proc, Tidy(p), NEW cp \in Cell
    PROVE  Keeps(p, cp)
<1> DEFINE l == loc[p]
           n == loc'[p]
<1>0. l.pc = "tidy" /\ Running(p) BY DEF Tidy, At, Running
<1>1. /\ loc \in [Proc -> Local] /\ l \in Local /\ Follows(l) /\ Sees(l, cp)
  BY <1>0, RunningFacts
<1>2. FileFits(cp) BY <1>0, <1>1 DEF Sees
<1>4. file' = file /\ row' = row /\ journal' = journal /\ Go(p, "finish")
  BY DEF Tidy, database
<1>5. ASSUME NEW w \in Workspace, NEW op \in Live(w)' PROVE Revertible(w, op, cp)'
  <2>1. op \in Live(w) BY <1>4, <1>5 DEF Live
  <2>2. Revertible(w, op, cp) /\ op.cfg = cp[1] BY <2>1, LiveFacts
  <2>3. ~ AsPublished(op) BY <1>2, <2>1, <2>2, LiveUnpublished DEF FileFits, AsPublished
  <2> QED BY <1>4, <2>2, <2>3 DEF Revertible, AsPublished
<1>6. FileFits(cp)' BY <1>2, <1>4 DEF FileFits
<1>7. /\ n.pc = "finish" /\ n.kind = l.kind /\ n.ws = l.ws /\ n.op = l.op
  BY <1>1, <1>4, GoKnows
<1> HIDE DEF n
<1>8. Follows(n)
  BY <1>0, <1>1, <1>7 DEF Follows, Recovering, Before, Marked, Publishing
<1>9. Follows(loc[p])' BY <1>4, <1>8 DEF Follows, Live, n
<1>10. Sees(loc[p], cp)'
  BY <1>4, <1>6, <1>7 DEF Sees, Marked, Planned, Detaching, Publishing, Recovering, n
<1> QED BY <1>5, <1>6, <1>9, <1>10 DEF Keeps, Accounted

\* What an operation puts in place is not what another one published.
LEMMA OwnContent ==
    ASSUME OneCell, AgreeInv, NEW cp \in Cell, NEW p \in Proc, Running(p), loc[p].pc \in Planned,
           NEW w \in Workspace, w # loc[p].ws, NEW op \in Live(w),
           NEW c, c = loc[p].op.new \/ (loc[p].kind # "attach" /\ c = NoFile)
    PROVE  c # op.new /\ ~ (op.remove /\ c = NoFile)
<1> DEFINE l == loc[p]
<1>1. /\ l \in Local /\ l.ws \in Workspace /\ CellOf(l) = cp /\ RowSafe(l) /\ Follows(l)
      /\ Sees(l, cp) /\ Ready(l, l.pc)
  BY RunningFacts
<1>2. /\ l.pc \in Publishing \ {"tidy", "finish", "rollback"}
      /\ l.op \in Operation /\ Shaped(l.op)
      /\ l.op.kind = IF l.kind = "attach" THEN "attach" ELSE "detach"
  BY <1>1 DEF Planned, Marked, Publishing, Ready, Sees
<1>3. /\ op \in Operation /\ op \in Range(journal[w]) /\ Revertible(w, op, cp)
      /\ op.kind \in {"attach", "detach"}
  BY LiveFacts
<1>4. CASE l.kind = "attach"
  <2> DEFINE found == [ws |-> l.ws, id |-> l.op.id, created |-> FALSE, prior |-> None]
  <2>1. found \in Attachment /\ found.id = l.op.id
    BY <1>1, <1>2 DEF Attachment, Operation
  <2>2. found # None BY <2>1, AbsentAssumption
  <2> HIDE DEF found
  <2>3. row[cp] = None BY <1>1, <1>2, <1>4 DEF RowSafe
  <2>4. op.kind = "attach" BY <1>3, <2>3 DEF Revertible
  <2>5. op.id # l.op.id BY <1>1, <1>2, <1>3 DEF Follows
  <2>6. c = l.op.new /\ OneBlock(c, found.id) /\ c # NoFile
    BY <1>2, <1>4, <2>1 DEF Shaped
  <2>7. Fits(c, found) BY <2>2, <2>6 DEF Fits, Lines
  <2> QED BY <1>3, <2>1, <2>4, <2>5, <2>7, FitIsUnpublished DEF Revertible
<1>5. CASE l.kind # "attach"
  <2>1. Detaching(l) /\ l.att \in Attachment
    BY <1>1, <1>2, <1>5 DEF Detaching, Ready
  <2>2. row[cp] # None /\ row[cp].ws = l.ws
    BY <1>1, <2>1, AbsentAssumption DEF Sees, RowSafe
  <2>3. op.kind = "attach" BY <1>3, <2>2 DEF Revertible
  <2>4. ByHumans(l.op.new) /\ l.op.new # NoFile BY <1>2, <1>5 DEF Shaped
  <2>5. ByHumans(<<>>) BY EmptySeq DEF ByHumans
  <2>6. Fits(c, None) BY <2>4, <2>5 DEF Fits, Lines
  <2> QED BY <1>3, <2>3, <2>6, FitIsUnpublished DEF Revertible
<1> QED BY <1>4, <1>5

\* The content computed for an override file, and the backup of the present one.
LEMMA StageKeeps ==
    ASSUME OneCell, AgreeInv, NEW p \in Proc, Stage(p), NEW cp \in Cell
    PROVE  Keeps(p, cp)
<1> DEFINE l == loc[p]
           n == loc'[p]
           id == issued + 1
           op == [id |-> id, kind |-> StepKind(p), cfg |-> l.cfg,
                  phase |-> "prepared", published |-> FALSE,
                  remove |-> FALSE, backed |-> File(p) # NoFile,
                  old |-> NoFile, new |-> NewContent(p, id)]
<1>0. l.pc = "stage" /\ Running(p) BY DEF Stage, At, Running
<1>1. /\ loc \in [Proc -> Local] /\ l \in Local /\ Follows(l) /\ Sees(l, cp) /\ RowSafe(l)
      /\ l.ws \in Workspace /\ Ready(l, l.pc) /\ CellOf(l) = cp /\ l.cfg = cp[1]
      /\ cp[1] \in Config /\ file \in [Config -> Content] /\ issued \in Nat
      /\ journal \in [Workspace -> Seq(Operation)] /\ PackageOf[l.ws] \in Package
  BY <1>0, RunningFacts, AttachmentAssumption
<1>2. FileFits(cp) /\ l.orig = file[cp[1]] /\ File(p) = file[cp[1]] /\ Live(l.ws) = {}
  BY <1>0, <1>1 DEF Sees, File, Follows, Before
<1>3. /\ loc' = [loc EXCEPT ![p].pc = "prepare", ![p].op = op]
      /\ backup' = IF File(p) # NoFile THEN With(backup, id, File(p)) ELSE backup
      /\ file' = file /\ row' = row /\ journal' = journal
  BY DEF Stage, database
<1>4. /\ op.id = id /\ op.kind = StepKind(p) /\ op.new = NewContent(p, id)
      /\ op.backed = (File(p) # NoFile) /\ op.remove = FALSE /\ op.published = FALSE
  OBVIOUS
<1> HIDE DEF op
<1>5. n.pc = "prepare" /\ n.op = op /\ n.kind = l.kind /\ n.att = l.att /\ n.ws = l.ws
  BY <1>1, <1>3 DEF Local
<1> HIDE DEF n
<1>6. ASSUME NEW w \in Workspace, NEW o \in Live(w)' PROVE Revertible(w, o, cp)'
  <2>1. o \in Live(w) BY <1>3, <1>6 DEF Live
  <2>2. Revertible(w, o, cp) /\ o.cfg = cp[1] BY <2>1, LiveFacts
  <2>3. ~ AsPublished(o) BY <1>2, <2>1, <2>2, LiveUnpublished DEF FileFits, AsPublished
  <2> QED BY <1>3, <2>2, <2>3 DEF Revertible, AsPublished
<1>7. FileFits(cp)' BY <1>2, <1>3 DEF FileFits
<1>8. Lines(l.orig) \in Seq(Line) BY <1>1, <1>2, LinesType
<1>9. Shaped(op)
  <2>1. CASE l.kind = "attach"
    <3>1. row[cp] = None BY <1>0, <1>1, <2>1 DEF RowSafe
    <3>2. ByHumans(Lines(l.orig)) BY <1>2, <3>1 DEF FileFits, Fits
    <3>3. ManagedBlock(id, l.ws, NeedsSeparator(l.orig)) \in Line /\ ManagedBlock(id, l.ws, NeedsSeparator(l.orig)).id = id
      BY <1>1 DEF ManagedBlock, NeedsSeparator, Line, Path
    <3>4. op.new = Append(Lines(l.orig), ManagedBlock(id, l.ws, NeedsSeparator(l.orig))) /\ op.kind = "attach"
      BY <1>4, <2>1 DEF NewContent, StepKind
    <3>5. OneBlock(op.new, op.id)
      BY <1>4, <1>8, <3>2, <3>3, <3>4, AppendedBlock
    <3>6. op.new \in Seq(Line) BY <1>8, <3>3, <3>4, AppendProperties
    <3> QED BY <1>4, <3>4, <3>5, <3>6, ContentsAssumption DEF Shaped
  <2>2. CASE l.kind # "attach"
    <3>1. l.att \in Attachment /\ Detaching(l)
      BY <1>0, <1>1, <2>2 DEF Ready, Detaching
    <3>2. row[cp] = l.att /\ l.att # None /\ l.att.id # 0
      BY <1>1, <3>1, AbsentAssumption DEF Sees, Attachment, Id
    <3>3. OneBlock(Lines(l.orig), l.att.id) BY <1>2, <3>2 DEF FileFits, Fits
    <3>4. op.new = Removed(Lines(l.orig), l.att.id) /\ op.kind = "detach"
      BY <1>4, <2>2 DEF NewContent, StepKind, Restored
    <3>5. op.new \in Seq(Line) /\ ByHumans(op.new)
      BY <1>8, <3>2, <3>3, <3>4, RemovedBlock
    <3> QED BY <3>4, <3>5, ContentsAssumption DEF Shaped
  <2> QED BY <2>1, <2>2
<1>10. Reversible(loc[p].op, cp)'
  <2>0. /\ loc'[p].op.id = id /\ loc'[p].op.backed = (File(p) # NoFile)
        /\ Fits(file[cp[1]], row'[cp])
    BY <1>2, <1>3, <1>4, <1>5 DEF FileFits, n
  <2>1. CASE File(p) = NoFile BY <1>2, <2>0, <2>1 DEF Reversible
  <2>2. CASE File(p) # NoFile
    <3>1. id \in DOMAIN backup' /\ backup'[id] = file[cp[1]]
      BY <1>2, <1>3, <2>2 DEF With
    <3> QED BY <2>0, <2>2, <3>1 DEF Reversible
  <2> QED BY <2>1, <2>2
<1>11. \A w \in Workspace : \A o \in Range(journal[w]) : o.id # op.id
  <2>1. ASSUME NEW w \in Workspace, NEW o \in Range(journal[w]) PROVE o.id # op.id
    <3>1. o \in Operation /\ Faithful(o)
      BY <1>1, RangeType DEF AgreeInv, RowsInv, HumansInv
    <3> QED BY <1>1, <1>4, <3>1 DEF Faithful, Operation, Id
  <2> QED BY <2>1
<1>12. Follows(loc[p])'
  BY <1>2, <1>3, <1>4, <1>5, <1>11 DEF Follows, Recovering, Before, Marked, Live, n
<1>13. Detaching(n) => row[cp] = n.att
  BY <1>0, <1>1, <1>5 DEF Detaching, Sees, Publishing, Recovering
<1>14. Sees(loc[p], cp)'
  BY <1>3, <1>5, <1>7, <1>9, <1>10, <1>13 DEF Sees, Marked, n
<1> QED BY <1>6, <1>7, <1>12, <1>14 DEF Keeps, Accounted

\* Replacing the override file makes nobody else's operation the published one.
LEMMA ReplaceKeeps ==
    ASSUME OneCell, AgreeInv, NEW p \in Proc, Replace(p), Running(p)', NEW cp \in Cell
    PROVE  Keeps(p, cp)
<1> DEFINE l == loc[p]
           n == loc'[p]
<1>0. l.pc = "replace" /\ Running(p) BY DEF Replace, At, Running
<1>1. /\ loc \in [Proc -> Local] /\ l \in Local /\ Follows(l) /\ Sees(l, cp)
      /\ l.ws \in Workspace /\ Ready(l, l.pc) /\ l.cfg = cp[1]
      /\ cp[1] \in Config /\ file \in [Config -> Content]
  BY <1>0, RunningFacts
<1>2. l.op.cfg = cp[1] /\ Live(l.ws) = {} /\ l.pc \in Planned
  BY <1>0, <1>1 DEF Ready, Publishing, Follows, Before, Planned
<1>3. /\ file' = [file EXCEPT ![l.op.cfg] = l.op.new] /\ Go(p, "mark")
      /\ row' = row /\ journal' = journal /\ backup' = backup
  BY <1>1 DEF Replace, database, End, Idle, Running
<1>4. file'[cp[1]] = l.op.new BY <1>1, <1>2, <1>3
<1>5. /\ n.pc = "mark" /\ n.kind = l.kind /\ n.ws = l.ws /\ n.att = l.att /\ n.op = l.op
  BY <1>1, <1>3, GoKnows
<1> HIDE DEF n
<1>6. ASSUME NEW w \in Workspace, NEW op \in Live(w)'
      PROVE  ~ AsPublished(op)' /\ Revertible(w, op, cp)'
  <2>1. op \in Live(w) /\ w # l.ws BY <1>2, <1>3, <1>6 DEF Live
  <2>2. Revertible(w, op, cp) /\ op.cfg = cp[1] BY <2>1, LiveFacts
  <2>3. PICK c : c = l.op.new OBVIOUS
  <2>4. c # op.new /\ ~ (op.remove /\ c = NoFile) BY <1>0, <1>2, <2>1, <2>3, OwnContent
  <2>5. ~ AsPublished(op)' BY <1>4, <2>2, <2>3, <2>4 DEF AsPublished
  <2> QED BY <1>3, <2>2, <2>5 DEF Revertible
<1>7. (\E q \in Proc : At(q, "mark"))' BY <1>5 DEF At, n
<1>8. Follows(n) BY <1>0, <1>1, <1>5 DEF Follows, Recovering, Before, Marked, Publishing
<1>9. Follows(loc[p])' BY <1>3, <1>8 DEF Follows, Live, n
<1>10. Detaching(n) => row[cp] = n.att
  BY <1>0, <1>1, <1>5 DEF Detaching, Sees, Publishing, Recovering
<1>11. Shaped(n.op) /\ Reversible(loc[p].op, cp)'
  BY <1>1, <1>2, <1>3, <1>5 DEF Sees, Reversible, n
<1>12. Sees(loc[p], cp)'
  BY <1>3, <1>4, <1>5, <1>6, <1>10, <1>11 DEF Sees, Marked, n
<1> QED BY <1>6, <1>7, <1>9, <1>12 DEF Keeps, Accounted

\* Removing the file makes at most the own operation the published one.
LEMMA UnlinkKeeps ==
    ASSUME OneCell, AgreeInv, NEW p \in Proc, UnlinkEmpty(p), NEW cp \in Cell
    PROVE  Keeps(p, cp)
<1> DEFINE l == loc[p]
           n == loc'[p]
<1>0. l.pc = "unlink" /\ Running(p) BY DEF UnlinkEmpty, At, Running
<1>1. /\ loc \in [Proc -> Local] /\ l \in Local /\ Follows(l) /\ Sees(l, cp) /\ RowSafe(l)
      /\ l.ws \in Workspace /\ Ready(l, l.pc) /\ l.cfg = cp[1] /\ CellOf(l) = cp
      /\ cp[1] \in Config /\ file \in [Config -> Content]
  BY <1>0, RunningFacts
<1>2. /\ Live(l.ws) \subseteq {l.op} /\ l.kind # "attach" /\ l.pc \in Planned
      /\ Shaped(l.op) /\ Reversible(l.op, cp) /\ l.op.kind = "detach"
      /\ file[cp[1]] = l.op.new \/ file[cp[1]] = NoFile
  BY <1>0, <1>1 DEF Ready, Publishing, Follows, Marked, Planned, Sees
<1>3. Detaching(l) /\ row[cp] = l.att /\ l.att \in Attachment /\ l.att # None
  BY <1>0, <1>1, <1>2, AbsentAssumption DEF Detaching, Sees, Ready, Publishing
<1>4. row' = row /\ journal' = journal /\ backup' = backup BY DEF UnlinkEmpty, database
<1>5. ~ FileFits(cp)
  <2>1. ByHumans(Lines(file[cp[1]]))
    <3>1. ByHumans(<<>>) BY EmptySeq DEF ByHumans
    <3> QED BY <1>2, <3>1 DEF Shaped, Lines
  <2>2. l.att.id # 0 BY <1>3 DEF Attachment, Id
  <2> QED BY <1>3, <2>1, <2>2 DEF FileFits, Fits, OneBlock, ByHumans
<1>6. Answered(cp)'
  <2>1. \A q \in Proc : ~ At(q, "mark")
    BY <1>0, OneAtATime DEF AgreeInv, At, Running
  <2>2. Answered(cp) BY <1>5, <2>1 DEF AgreeInv, Accounted
  <2> QED BY <1>4, <2>2 DEF Answered, Live
<1>7. CASE file' = file /\ Go(p, "rollback")
  <2>1. ASSUME NEW w \in Workspace, NEW op \in Live(w)' PROVE Revertible(w, op, cp)'
    <3>1. op \in Live(w) BY <1>4, <2>1 DEF Live
    <3>2. Revertible(w, op, cp) BY <3>1, LiveFacts
    <3> QED BY <1>4, <1>7, <3>2 DEF Revertible, AsPublished, Reversible
  <2>2. /\ n.pc = "rollback" /\ n.kind = l.kind /\ n.ws = l.ws /\ n.op = l.op
    BY <1>1, <1>7, GoKnows
  <2> HIDE DEF n
  <2>3. Follows(n) BY <1>0, <1>1, <2>2 DEF Follows, Recovering, Before, Marked, Publishing
  <2>4. Follows(loc[p])' BY <1>4, <2>3 DEF Follows, Live, n
  <2>5. Detaching(n) => row[cp] = n.att BY <2>2 DEF Detaching, Recovering
  <2>6. Sees(loc[p], cp)' BY <1>4, <2>2, <2>5 DEF Sees, Marked, Planned, n
  <2> QED BY <1>6, <2>1, <2>4, <2>6 DEF Keeps, Accounted
<1>8. CASE file' = [file EXCEPT ![l.cfg] = NoFile] /\ Go(p, "markremove")
  <2>0. file'[cp[1]] = NoFile BY <1>1, <1>8
  <2>1. ASSUME NEW w \in Workspace, NEW op \in Live(w)' PROVE Revertible(w, op, cp)'
    <3>1. op \in Live(w) BY <1>4, <2>1 DEF Live
    <3>2. Revertible(w, op, cp) /\ op.cfg = cp[1] BY <3>1, LiveFacts
    <3>3. CASE w = l.ws BY <1>2, <1>4, <3>1, <3>2, <3>3 DEF Revertible, Reversible
    <3>4. CASE w # l.ws
      <4>1. PICK c : c = NoFile OBVIOUS
      <4>2. c # op.new /\ ~ (op.remove /\ c = NoFile)
        BY <1>0, <1>2, <3>1, <3>4, <4>1, OwnContent
      <4>3. ~ AsPublished(op)' BY <2>0, <3>2, <4>1, <4>2 DEF AsPublished
      <4> QED BY <1>4, <3>2, <4>3 DEF Revertible
    <3> QED BY <3>3, <3>4
  <2>2. /\ n.pc = "markremove" /\ n.kind = l.kind /\ n.ws = l.ws /\ n.op = l.op /\ n.att = l.att
    BY <1>1, <1>8, GoKnows
  <2> HIDE DEF n
  <2>3. Follows(n) BY <1>0, <1>1, <2>2 DEF Follows, Recovering, Before, Marked, Publishing
  <2>4. Follows(loc[p])' BY <1>4, <2>3 DEF Follows, Live, n
  <2>5. Reversible(loc[p].op, cp)' BY <1>2, <1>4, <2>2 DEF Reversible, n
  <2>6. Sees(loc[p], cp)'
    BY <1>2, <1>3, <1>4, <2>0, <2>2, <2>5 DEF Sees, Marked, Planned, n
  <2> QED BY <1>6, <2>1, <2>4, <2>6 DEF Keeps, Accounted
<1> QED BY <1>7, <1>8 DEF UnlinkEmpty

\* The operations to roll back after one is saved, and after one is dropped.
LEMMA SaveLive ==
    ASSUME journal \in [Workspace -> Seq(Operation)], NEW p \in Proc, loc[p].ws \in Workspace,
           NEW op \in Operation, Save(p, op), NEW w \in Workspace
    PROVE  /\ w # loc[p].ws => Range(journal'[w]) = Range(journal[w]) /\ Live(w)' = Live(w)
           /\ w = loc[p].ws =>
                 /\ Range(journal'[w]) = {o \in Range(journal[w]) : o.id # op.id} \cup {op}
                 /\ Live(w)' = {o \in Live(w) : o.id # op.id}
                                  \cup (IF MustRestore(op) THEN {op} ELSE {})
<1>1. /\ w # loc[p].ws => journal'[w] = journal[w]
      /\ w = loc[p].ws => journal'[w] = Saved(journal[w], op)
  BY DEF Save
<1>2. Range(Saved(journal[w], op)) = {o \in Range(journal[w]) : o.id # op.id} \cup {op}
  BY SavedProperties
<1> QED BY <1>1, <1>2 DEF Live

LEMMA DropLive ==
    ASSUME journal \in [Workspace -> Seq(Operation)], \A x \in Workspace : DistinctIn(journal[x]),
           NEW x \in Workspace, NEW id, journal' = [journal EXCEPT ![x] = Dropped(@, id)],
           NEW w \in Workspace
    PROVE  /\ w # x => Range(journal'[w]) = Range(journal[w]) /\ Live(w)' = Live(w)
           /\ w = x =>
                 /\ Range(journal'[w]) = {o \in Range(journal[w]) : o.id # id}
                 /\ Live(w)' = {o \in Live(w) : o.id # id}
<1>1. /\ w # x => journal'[w] = journal[w]
      /\ w = x => journal'[w] = Removed(journal[w], id)
  BY DEF Dropped
<1>2. journal[w] \in Seq(Operation) /\ DistinctIn(journal[w]) OBVIOUS
<1>3. Range(Removed(journal[w], id)) = {o \in Range(journal[w]) : o.id # id}
  <2>1. \A o \in Range(Removed(journal[w], id)) : o \in Range(journal[w]) /\ o.id # id
    BY <1>2, RemovedOnce
  <2>2. \A o \in Range(journal[w]) : o.id # id => o \in Range(Removed(journal[w], id))
    BY <1>2, RemovedOthers
  <2> QED BY <2>1, <2>2
<1> QED BY <1>1, <1>3 DEF Live

\* Journalling an operation as prepared asks nothing new of recovery.
LEMMA PrepareKeeps ==
    ASSUME OneCell, AgreeInv, NEW p \in Proc, Prepare(p), NEW cp \in Cell
    PROVE  Keeps(p, cp)
<1> DEFINE l == loc[p]
           n == loc'[p]
           op == [l.op EXCEPT !.old = File(p)]
<1>0. l.pc = "prepare" /\ Running(p) BY DEF Prepare, At, Running
<1>1. /\ loc \in [Proc -> Local] /\ l \in Local /\ Follows(l) /\ Sees(l, cp)
      /\ l.ws \in Workspace /\ Ready(l, l.pc) /\ l.cfg = cp[1] /\ cp[1] \in Config
      /\ file \in [Config -> Content] /\ journal \in [Workspace -> Seq(Operation)]
  BY <1>0, RunningFacts
<1>2. l.op \in Operation /\ Live(l.ws) = {} /\ FileFits(cp) /\ File(p) \in Content
  BY <1>0, <1>1 DEF Ready, Publishing, Follows, Before, Sees, File
<1>3. /\ op \in Operation /\ op.id = l.op.id /\ op.kind = l.op.kind /\ op.new = l.op.new
      /\ op.backed = l.op.backed /\ op.remove = l.op.remove /\ op.published = l.op.published
  BY <1>2 DEF Operation
<1>4. /\ Save(p, op) /\ loc' = [loc EXCEPT ![p].pc = "check", ![p].op = op]
      /\ file' = file /\ row' = row /\ backup' = backup
  BY DEF Prepare, disk
<1> HIDE DEF op
<1>5. ~ MustRestore(op) BY <1>0, <1>1, <1>3 DEF Follows, MustRestore
<1>6. n.pc = "check" /\ n.op = op /\ n.kind = l.kind /\ n.att = l.att /\ n.ws = l.ws
  BY <1>1, <1>4 DEF Local
<1> HIDE DEF n
<1>7. ASSUME NEW w \in Workspace
      PROVE  /\ Live(w)' \subseteq Live(w)
             /\ w # l.ws => Range(journal'[w]) = Range(journal[w])
  BY <1>1, <1>3, <1>4, <1>5, SaveLive
<1>8. ASSUME NEW w \in Workspace, NEW o \in Live(w)' PROVE Revertible(w, o, cp)'
  <2>1. o \in Live(w) BY <1>7
  <2>2. Revertible(w, o, cp) BY <2>1, LiveFacts
  <2> QED BY <1>4, <2>2 DEF Revertible, AsPublished, Reversible
<1>9. FileFits(cp)' BY <1>2, <1>4 DEF FileFits
<1>10. Live(loc[p].ws)' = {}
  <2>1. PICK w \in Workspace : w = l.ws BY <1>1
  <2>2. Live(w)' = {} BY <1>2, <1>7, <2>1
  <2> QED BY <1>6, <2>1, <2>2 DEF Live, n
<1>11. \A w \in Workspace \ {n.ws} : \A o \in Range(journal'[w]) : o.id # n.op.id
  BY <1>0, <1>1, <1>3, <1>6, <1>7 DEF Follows, Publishing
<1>12. Follows(loc[p])'
  BY <1>6, <1>10, <1>11 DEF Follows, Recovering, Before, Marked, n
<1>13. Detaching(n) => row[cp] = n.att
  BY <1>0, <1>1, <1>6 DEF Detaching, Sees, Publishing, Recovering
<1>14. Shaped(n.op) /\ Reversible(loc[p].op, cp)'
  BY <1>0, <1>1, <1>3, <1>4, <1>6 DEF Sees, Planned, Shaped, Reversible, n
<1>15. Sees(loc[p], cp)'
  BY <1>4, <1>6, <1>9, <1>13, <1>14 DEF Sees, Marked, n
<1> QED BY <1>8, <1>9, <1>12, <1>15 DEF Keeps, Accounted

\* From here on recovery would roll the operation back, and can.
LEMMA MarkKeeps ==
    ASSUME OneCell, AgreeInv, NEW p \in Proc, MarkPublished(p), NEW cp \in Cell
    PROVE  Keeps(p, cp)
<1> DEFINE l == loc[p]
           n == loc'[p]
           op == [l.op EXCEPT !.published = TRUE, !.phase = "published"]
<1>0. l.pc = "mark" /\ Running(p) BY DEF MarkPublished, At, Running
<1>1. /\ loc \in [Proc -> Local] /\ l \in Local /\ Follows(l) /\ Sees(l, cp) /\ RowSafe(l)
      /\ l.ws \in Workspace /\ Ready(l, l.pc) /\ CellOf(l) = cp
      /\ journal \in [Workspace -> Seq(Operation)]
  BY <1>0, RunningFacts
<1>2. /\ l.op \in Operation /\ Live(l.ws) = {} /\ Shaped(l.op) /\ Reversible(l.op, cp)
      /\ l.op.kind = IF l.kind = "attach" THEN "attach" ELSE "detach"
      /\ \A w \in Workspace : \A o \in Live(w) : ~ AsPublished(o)
      /\ l.pc \in Publishing \ {"tidy", "finish", "rollback"}
      /\ file[cp[1]] = l.op.new \/ (l.kind # "attach" /\ file[cp[1]] = NoFile)
  BY <1>0, <1>1 DEF Ready, Publishing, Follows, Before, Sees, Planned
<1>3. /\ op \in Operation /\ op.id = l.op.id /\ op.kind = l.op.kind /\ op.new = l.op.new
      /\ op.backed = l.op.backed /\ op.remove = l.op.remove /\ MustRestore(op)
  BY <1>2 DEF Operation, MustRestore
<1>4. PICK x \in {"recheck", "verify"} :
         /\ Save(p, op) /\ loc' = [loc EXCEPT ![p].pc = x, ![p].op = op]
         /\ file' = file /\ row' = row /\ backup' = backup
         /\ x = "recheck" => op.kind = "detach"
  BY DEF MarkPublished, disk
<1> HIDE DEF op
<1>6. n.pc = x /\ n.op = op /\ n.kind = l.kind /\ n.att = l.att /\ n.ws = l.ws
  BY <1>1, <1>4 DEF Local
<1> HIDE DEF n
<1>7. ASSUME NEW w \in Workspace
      PROVE  /\ w # l.ws => Live(w)' = Live(w) /\ Range(journal'[w]) = Range(journal[w])
             /\ w = l.ws => Live(w)' = {op}
  <2>1. w # l.ws => Live(w)' = Live(w) /\ Range(journal'[w]) = Range(journal[w])
    BY <1>1, <1>3, <1>4, SaveLive
  <2>2. w = l.ws => Live(w)' = {o \in Live(w) : o.id # op.id}
                                  \cup (IF MustRestore(op) THEN {op} ELSE {})
    BY <1>1, <1>3, <1>4, SaveLive
  <2> QED BY <1>2, <1>3, <2>1, <2>2
<1>d. l.kind = "attach" => row[cp] = None BY <1>1, <1>2 DEF RowSafe
<1>e. l.kind # "attach" => row[cp] # None /\ row[cp].ws = l.ws
  <2>1. l.kind # "attach" => Detaching(l) /\ l.att \in Attachment
    BY <1>1, <1>2 DEF Detaching, Ready
  <2> QED BY <1>1, <2>1, AbsentAssumption DEF Sees, RowSafe
<1>r. Shaped(op) /\ Reversible(op, cp) BY <1>2, <1>3 DEF Shaped, Reversible
<1>8. ASSUME NEW w \in Workspace, NEW o \in Live(w)' PROVE Revertible(w, o, cp)'
  <2>1. CASE w # l.ws
    <3>1. o \in Live(w) BY <1>7, <1>8, <2>1
    <3>2. Revertible(w, o, cp) BY <3>1, LiveFacts
    <3> QED BY <1>4, <3>2 DEF Revertible, AsPublished, Reversible
  <2>2. CASE w = l.ws
    <3>1. o = op BY <1>7, <1>8, <2>2
    <3>2. Revertible(w, o, cp) BY <1>2, <1>3, <1>e, <1>r, <2>2, <3>1 DEF Revertible
    <3> QED BY <1>4, <3>2 DEF Revertible, AsPublished, Reversible
  <2> QED BY <2>1, <2>2
<1>9. Answered(cp)'
  <2>1. PICK w \in Workspace : w = l.ws BY <1>1
  <2>2. op \in Live(w)' BY <1>7, <2>1
  <2>3. op.kind = "attach" => row'[cp] = None BY <1>2, <1>3, <1>4, <1>d
  <2> QED BY <2>2, <2>3 DEF Answered
<1>10. Live(loc[p].ws)' \subseteq {op}
  <2>1. PICK w \in Workspace : w = l.ws BY <1>1
  <2>2. Live(w)' = {op} BY <1>7, <2>1
  <2> QED BY <1>6, <2>1, <2>2 DEF Live, n
<1>11. \A w \in Workspace \ {n.ws} : \A o \in Range(journal'[w]) : o.id # n.op.id
  BY <1>0, <1>1, <1>3, <1>6, <1>7 DEF Follows, Publishing
<1>12. Follows(loc[p])'
  BY <1>6, <1>10, <1>11 DEF Follows, Recovering, Before, Marked, n
<1>13. Detaching(n) => row[cp] = n.att
  BY <1>0, <1>1, <1>6 DEF Detaching, Sees, Publishing, Recovering
<1>14. Shaped(n.op) /\ Reversible(loc[p].op, cp)'
  BY <1>4, <1>6, <1>r DEF Reversible, n
<1>k. n.pc = "recheck" => n.kind # "attach" BY <1>2, <1>3, <1>4, <1>6
<1>f. file'[cp[1]] = n.op.new \/ (n.kind # "attach" /\ file'[cp[1]] = NoFile)
  BY <1>2, <1>3, <1>4, <1>6
<1>15. Sees(loc[p], cp)'
  BY <1>4, <1>6, <1>13, <1>14, <1>k, <1>f DEF Sees, Marked, n
<1> QED BY <1>8, <1>9, <1>12, <1>15 DEF Keeps, Accounted

\* The entry of the own operation is replaced by one for the same operation.
LEMMA RemovedMarkKeeps ==
    ASSUME OneCell, AgreeInv, NEW p \in Proc, MarkRemoved(p), NEW cp \in Cell
    PROVE  Keeps(p, cp)
<1> DEFINE l == loc[p]
           n == loc'[p]
           op == [l.op EXCEPT !.remove = TRUE]
<1>0. l.pc = "markremove" /\ Running(p) BY DEF MarkRemoved, At, Running
<1>1. /\ loc \in [Proc -> Local] /\ l \in Local /\ Follows(l) /\ Sees(l, cp) /\ RowSafe(l)
      /\ l.ws \in Workspace /\ Ready(l, l.pc) /\ CellOf(l) = cp
      /\ journal \in [Workspace -> Seq(Operation)]
  BY <1>0, RunningFacts
<1>2. /\ l.op \in Operation /\ Live(l.ws) \subseteq {l.op} /\ Shaped(l.op)
      /\ Reversible(l.op, cp) /\ l.op.kind = "detach" /\ l.kind # "attach"
      /\ file[cp[1]] = l.op.new \/ file[cp[1]] = NoFile
  BY <1>0, <1>1 DEF Ready, Publishing, Follows, Marked, Sees, Planned
<1>3. /\ op \in Operation /\ op.id = l.op.id /\ op.kind = l.op.kind /\ op.new = l.op.new
      /\ op.backed = l.op.backed /\ (MustRestore(op) <=> MustRestore(l.op))
  BY <1>2 DEF Operation, MustRestore
<1>4. /\ Save(p, op) /\ loc' = [loc EXCEPT ![p].pc = "verify", ![p].op = op]
      /\ file' = file /\ row' = row /\ backup' = backup
  BY DEF MarkRemoved, disk
<1> HIDE DEF op
<1>6. n.pc = "verify" /\ n.op = op /\ n.kind = l.kind /\ n.att = l.att /\ n.ws = l.ws
  BY <1>1, <1>4 DEF Local
<1> HIDE DEF n
<1>7. ASSUME NEW w \in Workspace
      PROVE  /\ w # l.ws => Live(w)' = Live(w) /\ Range(journal'[w]) = Range(journal[w])
             /\ w = l.ws => /\ Live(w)' \subseteq {op}
                            /\ Live(w) # {} => Live(w)' = {op}
  <2>1. w # l.ws => Live(w)' = Live(w) /\ Range(journal'[w]) = Range(journal[w])
    BY <1>1, <1>3, <1>4, SaveLive
  <2>2. w = l.ws => Live(w)' = {o \in Live(w) : o.id # op.id}
                                  \cup (IF MustRestore(op) THEN {op} ELSE {})
    BY <1>1, <1>3, <1>4, SaveLive
  <2>3. w = l.ws /\ Live(w) # {} => MustRestore(op) BY <1>2, <1>3 DEF Live
  <2> QED BY <1>2, <1>3, <2>1, <2>2, <2>3
<1>e. row[cp] # None /\ row[cp].ws = l.ws
  <2>1. Detaching(l) /\ l.att \in Attachment
    BY <1>0, <1>1, <1>2 DEF Detaching, Ready, Publishing
  <2> QED BY <1>1, <2>1, AbsentAssumption DEF Sees, RowSafe
<1>r. Shaped(op) /\ Reversible(op, cp) BY <1>2, <1>3 DEF Shaped, Reversible
<1>8. ASSUME NEW w \in Workspace, NEW o \in Live(w)' PROVE Revertible(w, o, cp)'
  <2>1. CASE w # l.ws
    <3>1. o \in Live(w) BY <1>7, <1>8, <2>1
    <3>2. Revertible(w, o, cp) BY <3>1, LiveFacts
    <3> QED BY <1>4, <3>2 DEF Revertible, AsPublished, Reversible
  <2>2. CASE w = l.ws
    <3>1. o = op BY <1>7, <1>8, <2>2
    <3>2. Revertible(w, o, cp) BY <1>2, <1>3, <1>e, <1>r, <2>2, <3>1 DEF Revertible
    <3> QED BY <1>4, <3>2 DEF Revertible, AsPublished, Reversible
  <2> QED BY <2>1, <2>2
<1>9. (FileFits(cp) \/ Answered(cp))'
  <2>1. \A q \in Proc : ~ At(q, "mark")
    BY <1>0, OneAtATime DEF AgreeInv, At, Running
  <2>2. CASE FileFits(cp) BY <1>4, <2>2 DEF FileFits
  <2>3. CASE Answered(cp)
    <3>1. PICK w \in Workspace : \E o \in Live(w) : o.kind = "attach" => row[cp] = None
      BY <2>3 DEF Answered
    <3>2. PICK o \in Live(w) : o.kind = "attach" => row[cp] = None BY <3>1
    <3>3. CASE w # l.ws
      <4>1. o \in Live(w)' BY <1>7, <3>3
      <4> QED BY <1>4, <3>2, <4>1 DEF Answered
    <3>4. CASE w = l.ws
      <4>1. op \in Live(w)' BY <1>7, <3>4
      <4> QED BY <1>2, <1>3, <4>1 DEF Answered
    <3> QED BY <3>3, <3>4
  <2> QED BY <2>1, <2>2, <2>3 DEF AgreeInv, Accounted
<1>10. Live(loc[p].ws)' \subseteq {op}
  <2>1. PICK w \in Workspace : w = l.ws BY <1>1
  <2>2. Live(w)' \subseteq {op} BY <1>7, <2>1
  <2> QED BY <1>6, <2>1, <2>2 DEF Live, n
<1>11. \A w \in Workspace \ {n.ws} : \A o \in Range(journal'[w]) : o.id # n.op.id
  BY <1>0, <1>1, <1>3, <1>6, <1>7 DEF Follows, Publishing
<1>12. Follows(loc[p])'
  BY <1>6, <1>10, <1>11 DEF Follows, Recovering, Before, Marked, n
<1>13. Detaching(n) => row[cp] = n.att
  BY <1>0, <1>1, <1>6 DEF Detaching, Sees, Publishing, Recovering
<1>14. Shaped(n.op) /\ Reversible(loc[p].op, cp)'
  BY <1>4, <1>6, <1>r DEF Reversible, n
<1>f. file'[cp[1]] = n.op.new \/ (n.kind # "attach" /\ file'[cp[1]] = NoFile)
  BY <1>2, <1>3, <1>4, <1>6
<1>15. Sees(loc[p], cp)'
  BY <1>4, <1>6, <1>13, <1>14, <1>f DEF Sees, Marked, n
<1> QED BY <1>8, <1>9, <1>12, <1>15 DEF Keeps, Accounted

LEMMA CompletedLive ==
    ASSUME journal \in [Workspace -> Seq(Operation)], NEW x \in Workspace,
           NEW op \in Operation, Live(x) \subseteq {op},
           journal' = [journal EXCEPT ![x] = Completed(@, op)], NEW w \in Workspace
    PROVE  /\ w # x => Live(w)' = Live(w) /\ Range(journal'[w]) = Range(journal[w])
           /\ w = x => Live(w)' = {}
<1> DEFINE done == [op EXCEPT !.phase = "complete"]
<1>1. ~ MustRestore(done) BY DEF Operation, MustRestore
<1>2. /\ w # x => journal'[w] = journal[w]
      /\ w = x => journal'[w] = Completed(journal[w], op)
  OBVIOUS
<1>3. Range(Completed(journal[w], op)) \subseteq
         {o \in Range(journal[w]) : o.id # op.id} \cup {done}
  BY CompletedProperties
<1> HIDE DEF done
<1>4. ASSUME w = x, NEW o \in Live(w)' PROVE FALSE
  <2>1. o \in Range(journal'[w]) /\ MustRestore(o) BY <1>4 DEF Live
  <2>2. o \in Range(journal[w]) /\ o.id # op.id BY <1>1, <1>2, <1>3, <1>4, <2>1
  <2>3. o \in Live(x) BY <1>4, <2>1, <2>2 DEF Live
  <2> QED BY <2>2, <2>3
<1> QED BY <1>2, <1>4 DEF Live

\* With the row the file fits what is recorded, and the entry is done with.
LEMMA CompleteKeeps ==
    ASSUME OneCell, AgreeInv, NEW p \in Proc, CompleteAttachment(p), NEW cp \in Cell
    PROVE  Keeps(p, cp)
<1> DEFINE l == loc[p]
           n == loc'[p]
           new == [ws |-> l.ws, id |-> l.op.id, created |-> l.orig = NoFile, prior |-> l.seen]
<1>0. l.pc = "complete" /\ Running(p) BY DEF CompleteAttachment, At, Running
<1>1. /\ loc \in [Proc -> Local] /\ l \in Local /\ Follows(l) /\ Sees(l, cp) /\ RowSafe(l)
      /\ l.ws \in Workspace /\ Ready(l, l.pc) /\ CellOf(l) = cp
      /\ journal \in [Workspace -> Seq(Operation)] /\ row \in [Cell -> Attachment \cup {None}]
  BY <1>0, RunningFacts
<1>2. /\ l.op \in Operation /\ Live(l.ws) \subseteq {l.op} /\ Shaped(l.op) /\ l.pc \in Planned
      /\ l.op.kind = IF l.kind = "attach" THEN "attach" ELSE "detach"
      /\ file[cp[1]] = l.op.new \/ (l.kind # "attach" /\ file[cp[1]] = NoFile)
  BY <1>0, <1>1 DEF Ready, Publishing, Follows, Marked, Sees, Planned
<1>a. l.kind = "attach" => row[cp] = None
  BY <1>0, <1>1 DEF RowSafe, Publishing
<1>e. l.kind # "attach" => row[cp] # None /\ row[cp].ws = l.ws
  <2>1. l.kind # "attach" => Detaching(l) /\ l.att \in Attachment
    BY <1>0, <1>1 DEF Detaching, Ready, Publishing
  <2> QED BY <1>1, <2>1, AbsentAssumption DEF Sees, RowSafe
<1>3. new \in Attachment /\ new.id = l.op.id BY <1>1, <1>2 DEF Attachment, Operation, Local
<1>4. new # None BY <1>3, AbsentAssumption
<1>5. /\ row' = [row EXCEPT ![cp] = IF l.kind = "attach" THEN new ELSE None]
      /\ journal' = [journal EXCEPT ![l.ws] = Completed(@, l.op)] /\ Go(p, "tidy")
      /\ file' = file /\ backup' = backup
  BY <1>1, <1>a DEF CompleteAttachment, StepKind, CellOf, Pkg, disk
<1>6. n.pc = "tidy" /\ n.ws = l.ws /\ n.op = l.op BY <1>1, <1>5, GoKnows
<1> HIDE DEF n, new
<1>7. row'[cp] = IF l.kind = "attach" THEN new ELSE None BY <1>1, <1>5
<1>8. FileFits(cp)'
  <2>1. CASE l.kind = "attach"
    <3>1. file[cp[1]] = l.op.new /\ l.op.new # NoFile /\ OneBlock(l.op.new, new.id)
      BY <1>2, <1>3, <2>1 DEF Shaped
    <3>2. Fits(file[cp[1]], new) BY <1>4, <3>1 DEF Fits, Lines
    <3> QED BY <1>5, <1>7, <2>1, <3>2 DEF FileFits
  <2>2. CASE l.kind # "attach"
    <3>1. ByHumans(<<>>) BY EmptySeq DEF ByHumans
    <3>2. Fits(file[cp[1]], None) BY <1>2, <2>2, <3>1 DEF Shaped, Fits, Lines
    <3> QED BY <1>5, <1>7, <2>2, <3>2 DEF FileFits
  <2> QED BY <2>1, <2>2
<1>9. ASSUME NEW w \in Workspace
      PROVE  /\ w # l.ws => Live(w)' = Live(w) /\ Range(journal'[w]) = Range(journal[w])
             /\ w = l.ws => Live(w)' = {}
  BY <1>1, <1>2, <1>5, CompletedLive
<1>10. ASSUME NEW w \in Workspace, NEW o \in Live(w)' PROVE Revertible(w, o, cp)'
  <2>1. w # l.ws /\ o \in Live(w) BY <1>9, <1>10
  <2>2. Revertible(w, o, cp) /\ o.cfg = cp[1] /\ o.kind \in {"attach", "detach"}
    BY <2>1, LiveFacts
  <2>3. o.kind = "attach" BY <1>a, <1>e, <2>1, <2>2 DEF Revertible
  <2>4. PICK c : c = file[cp[1]] OBVIOUS
  <2>5. c # o.new /\ ~ (o.remove /\ c = NoFile) BY <1>0, <1>2, <2>1, <2>4, OwnContent
  <2>6. ~ AsPublished(o)' BY <1>5, <2>2, <2>4, <2>5 DEF AsPublished
  <2> QED BY <2>2, <2>3, <2>6 DEF Revertible
<1>11. \A w \in Workspace \ {n.ws} : \A o \in Range(journal'[w]) : o.id # n.op.id
  BY <1>0, <1>1, <1>6, <1>9 DEF Follows, Publishing
<1>12. Follows(loc[p])' BY <1>6, <1>11 DEF Follows, Recovering, Before, Marked, n
<1>13. Sees(loc[p], cp)'
  BY <1>6, <1>8 DEF Sees, Marked, Planned, Detaching, Recovering, Publishing, n
<1> QED BY <1>8, <1>10, <1>12, <1>13 DEF Keeps, Accounted

\* Recovery forgets what is not to be rolled back, or has been.
LEMMA ForgetKeeps ==
    ASSUME OneCell, AgreeInv, NEW p \in Proc, Forget(p), NEW cp \in Cell
    PROVE  Keeps(p, cp)
<1> DEFINE l == loc[p]
           n == loc'[p]
           item == Head(l.todo)
<1>0. l.pc = "forget" /\ Running(p) BY DEF Forget, At, Running
<1>1. /\ loc \in [Proc -> Local] /\ l \in Local /\ l.ws \in Workspace /\ Follows(l) /\ Sees(l, cp)
      /\ Ready(l, l.pc) /\ \A w \in Workspace : DistinctIn(journal[w])
      /\ journal \in [Workspace -> Seq(Operation)]
  BY <1>0, RunningFacts
<1>2. /\ l.todo \in Seq(Operation) /\ l.todo # <<>> /\ item \in Range(l.todo)
      /\ Range(l.todo) = {item} \cup Range(Tail(l.todo))
  BY <1>0, <1>1, HeadAndTail DEF Ready, Local
<1>3. /\ Range(l.todo) \subseteq Range(journal[l.ws]) /\ DistinctIn(l.todo)
      /\ MustRestore(item) => FileFits(cp)
      /\ l.after \in {"row", "read"} => Live(l.ws) \subseteq Range(l.todo)
      /\ l.after = "retire" => \A op \in Live(l.ws) : op.id # l.op.id
  BY <1>0, <1>1 DEF Follows, Sees, Recovering
<1>4. /\ file' = file /\ row' = row /\ backup' = backup
      /\ journal' = [journal EXCEPT ![l.ws] = Dropped(@, item.id)]
      /\ loc' = [loc EXCEPT ![p].pc = "recover", ![p].todo = Tail(@)]
  BY DEF Forget, Item, disk
<1>5. /\ n.pc = "recover" /\ n.todo = Tail(l.todo) /\ n.kind = l.kind /\ n.ws = l.ws
      /\ n.att = l.att /\ n.op = l.op /\ n.after = l.after
  BY <1>1, <1>4 DEF Local
<1> HIDE DEF n
<1>6. ASSUME NEW w \in Workspace
      PROVE  /\ w # l.ws => Range(journal'[w]) = Range(journal[w]) /\ Live(w)' = Live(w)
             /\ w = l.ws =>
                   /\ Range(journal'[w]) = {o \in Range(journal[w]) : o.id # item.id}
                   /\ Live(w)' = {o \in Live(w) : o.id # item.id}
  <2>1. w # l.ws => Range(journal'[w]) = Range(journal[w]) /\ Live(w)' = Live(w)
    BY <1>1, <1>4, DropLive
  <2>2. PICK x \in Workspace : x = l.ws BY <1>1
  <2>3. PICK i : i = item.id OBVIOUS
  <2>4. journal' = [journal EXCEPT ![x] = Dropped(@, i)] BY <1>4, <2>2, <2>3
  <2>5. w = x => Range(journal'[w]) = {o \in Range(journal[w]) : o.id # i}
    BY <1>1, <2>4, DropLive
  <2>6. w = x => Live(w)' = {o \in Live(w) : o.id # i} BY <2>5 DEF Live
  <2> QED BY <2>1, <2>2, <2>3, <2>5, <2>6
<1>7. ASSUME NEW w \in Workspace, NEW o \in Live(w)' PROVE Revertible(w, o, cp)'
  <2>1. o \in Live(w) BY <1>6, <1>7
  <2>2. Revertible(w, o, cp) BY <2>1, LiveFacts
  <2> QED BY <1>4, <2>2 DEF Revertible, AsPublished, Reversible
<1>8. (FileFits(cp) \/ Answered(cp))'
  <2>1. \A q \in Proc : ~ At(q, "mark")
    BY <1>0, OneAtATime DEF AgreeInv, At, Running
  <2>2. CASE FileFits(cp) BY <1>4, <2>2 DEF FileFits
  <2>3. CASE Answered(cp) /\ ~ FileFits(cp)
    <3>1. PICK w \in Workspace : \E o \in Live(w) : o.kind = "attach" => row[cp] = None
      BY <2>3 DEF Answered
    <3>2. PICK o \in Live(w) : o.kind = "attach" => row[cp] = None BY <3>1
    <3>3. w = l.ws => o.id # item.id
      <4>1. o \in Range(journal[w]) /\ MustRestore(o) BY LiveFacts
      <4>2. o # item /\ item \in Range(journal[l.ws]) BY <1>2, <1>3, <2>3, <4>1
      <4> QED BY <1>1, <4>1, <4>2, SameId
    <3>4. o \in Live(w)' BY <1>6, <3>3
    <3> QED BY <1>4, <3>2, <3>4 DEF Answered
  <2> QED BY <2>1, <2>2, <2>3 DEF AgreeInv, Accounted
<1>9. DistinctIn(n.todo) /\ \A o \in Range(n.todo) : o.id # item.id
  BY <1>2, <1>3, <1>5, DistinctTail
<1>10. Range(n.todo) \subseteq Range(journal'[n.ws])
  <2>1. PICK w \in Workspace : w = l.ws BY <1>1
  <2>2. Range(n.todo) \subseteq Range(journal'[w]) BY <1>2, <1>3, <1>5, <1>6, <1>9, <2>1
  <2> QED BY <1>5, <2>1, <2>2
<1>11. /\ n.after \in {"row", "read"} => Live(loc[p].ws)' \subseteq Range(n.todo)
       /\ n.after = "retire" => \A o \in Live(loc[p].ws)' : o.id # n.op.id
  <2>1. PICK w \in Workspace : w = l.ws BY <1>1
  <2>2. Live(w)' = Live(loc[p].ws)' BY <1>5, <2>1 DEF Live, n
  <2>3. Live(w)' = {o \in Live(w) : o.id # item.id} BY <1>6, <2>1
  <2> QED BY <1>2, <1>3, <1>5, <2>1, <2>2, <2>3
<1>12. Follows(loc[p])'
  BY <1>5, <1>9, <1>10, <1>11 DEF Follows, Recovering, Before, Marked, Publishing, n
<1>13. Detaching(n) => row[cp] = n.att
  BY <1>0, <1>1, <1>5 DEF Detaching, Sees, Publishing, Recovering
<1>14. Sees(loc[p], cp)' BY <1>4, <1>5, <1>13 DEF Sees, Marked, Planned, n
<1> QED BY <1>7, <1>8, <1>12, <1>14 DEF Keeps, Accounted

\* An operation that ends well leaves a file the row fits.
LEMMA FinishKeeps ==
    ASSUME OneCell, AgreeInv, NEW p \in Proc, Finish(p), NEW cp \in Cell
    PROVE  Keeps(p, cp)
<1> DEFINE l == loc[p]
           n == loc'[p]
<1>0. l.pc = "finish" /\ Running(p) BY DEF Finish, At, Running
<1>1. /\ loc \in [Proc -> Local] /\ l \in Local /\ l.ws \in Workspace /\ Sees(l, cp)
      /\ journal \in [Workspace -> Seq(Operation)]
      /\ \A w \in Workspace : DistinctIn(journal[w])
  BY <1>0, RunningFacts
<1>2. /\ file' = file /\ row' = row /\ backup' = backup
      /\ journal' = [journal EXCEPT ![l.ws] = Dropped(@, l.op.id)]
  BY DEF Finish, disk
<1>3. ASSUME NEW w \in Workspace, NEW o \in Live(w)' PROVE Revertible(w, o, cp)'
  <2>1. o \in Live(w) BY <1>1, <1>2, <1>3, DropLive
  <2>2. Revertible(w, o, cp) BY <2>1, LiveFacts
  <2> QED BY <1>2, <2>2 DEF Revertible, AsPublished, Reversible
<1>4. FileFits(cp)' BY <1>0, <1>1, <1>2 DEF FileFits, Sees
<1>5. n.pc \in {"idle", "next"}
  <2>1. CASE l.kind = "close"
    <3>1. loc' = [loc EXCEPT ![p].pc = "next", ![p].op = None] BY <2>1 DEF Finish
    <3> QED BY <1>1, <3>1 DEF Local
  <2>2. CASE l.kind # "close" BY <1>1, <2>2 DEF Finish, End, Idle
  <2> QED BY <2>1, <2>2
<1> HIDE DEF n
<1>6. Running(p)' => Follows(loc[p])' /\ Sees(loc[p], cp)'
  BY <1>5 DEF Running, Follows, Sees, Recovering, Before, Marked, Planned, Publishing,
              Detaching, n
<1> QED BY <1>3, <1>4, <1>6 DEF Keeps, Accounted

\* Journalling a close changes nothing that is to be rolled back.
LEMMA SaveCloseKeeps ==
    ASSUME OneCell, AgreeInv, NEW p \in Proc, SaveClose(p), NEW cp \in Cell
    PROVE  Keeps(p, cp)
<1> DEFINE l == loc[p]
           n == loc'[p]
           op == [id |-> issued + 1, kind |-> "close", cfg |-> l.cfg,
                  phase |-> "prepared", published |-> FALSE, remove |-> FALSE,
                  backed |-> FALSE, old |-> NoFile, new |-> NoFile]
<1>0. l.pc = "saveclose" /\ Running(p) BY DEF SaveClose, At, Running
<1>1. /\ loc \in [Proc -> Local] /\ l \in Local /\ l.ws \in Workspace /\ l.cfg = cp[1]
      /\ cp[1] \in Config /\ issued \in Nat /\ journal \in [Workspace -> Seq(Operation)]
  BY <1>0, RunningFacts
<1>2. op \in Operation /\ op.id = issued + 1 /\ ~ MustRestore(op)
  BY <1>1 DEF Operation, Id, Kind, Content, MustRestore
<1>3. /\ Save(p, op) /\ loc' = [loc EXCEPT ![p].pc = "retire", ![p].op = op]
      /\ file' = file /\ row' = row /\ backup' = backup
  BY DEF SaveClose, disk
<1> HIDE DEF op
<1>4. n.pc = "retire" /\ n.op = op /\ n.ws = l.ws BY <1>1, <1>3 DEF Local
<1> HIDE DEF n
<1>5. ASSUME NEW w \in Workspace, NEW o \in Live(w) PROVE o.id # op.id
  <2>1. o.id <= issued /\ o \in Operation BY LiveFacts
  <2> QED BY <1>1, <1>2, <2>1 DEF Operation, Id
<1>6. ASSUME NEW w \in Workspace PROVE Live(w)' = Live(w)
  <2>1. w # l.ws => Live(w)' = Live(w) BY <1>1, <1>2, <1>3, SaveLive
  <2>2. w = l.ws => Live(w)' = {o \in Live(w) : o.id # op.id}
    BY <1>1, <1>2, <1>3, SaveLive
  <2> QED BY <1>5, <2>1, <2>2
<1>7. ASSUME NEW w \in Workspace, NEW o \in Live(w)' PROVE Revertible(w, o, cp)'
  <2>1. o \in Live(w) BY <1>6, <1>7
  <2>2. Revertible(w, o, cp) BY <2>1, LiveFacts
  <2> QED BY <1>3, <2>2 DEF Revertible, AsPublished, Reversible
<1>8. (FileFits(cp) \/ Answered(cp))'
  <2>1. \A q \in Proc : ~ At(q, "mark")
    BY <1>0, OneAtATime DEF AgreeInv, At, Running
  <2>2. FileFits(cp) \/ Answered(cp) BY <2>1 DEF AgreeInv, Accounted
  <2>3. CASE FileFits(cp) BY <1>3, <2>3 DEF FileFits
  <2>4. CASE Answered(cp)
    <3>1. \E w \in Workspace : \E o \in Live(w)' : o.kind = "attach" => row'[cp] = None
      BY <1>3, <1>6, <2>4 DEF Answered
    <3> QED BY <3>1 DEF Answered
  <2> QED BY <2>2, <2>3, <2>4
<1>9. \A o \in Live(loc[p].ws)' : o.id # n.op.id
  <2>1. PICK w \in Workspace : w = l.ws BY <1>1
  <2>2. Live(w)' = Live(loc[p].ws)' BY <1>4, <2>1 DEF Live, n
  <2> QED BY <1>4, <1>5, <1>6, <2>2
<1>10. Follows(loc[p])'
  BY <1>4, <1>9 DEF Follows, Recovering, Before, Marked, Publishing, n
<1>11. Sees(loc[p], cp)'
  BY <1>4 DEF Sees, Marked, Planned, Detaching, Publishing, Recovering, n
<1> QED BY <1>7, <1>8, <1>10, <1>11 DEF Keeps, Accounted

\* What a close drops is its own entry.
LEMMA RetireKeeps ==
    ASSUME OneCell, AgreeInv, NEW p \in Proc, Retire(p), NEW cp \in Cell
    PROVE  Keeps(p, cp)
<1> DEFINE l == loc[p]
<1>0. l.pc = "retire" /\ Running(p) BY DEF Retire, At, Running
<1>1. /\ loc \in [Proc -> Local] /\ l.ws \in Workspace /\ Follows(l)
      /\ journal \in [Workspace -> Seq(Operation)]
      /\ \A w \in Workspace : DistinctIn(journal[w])
  BY <1>0, RunningFacts
<1>2. /\ file' = file /\ row' = row /\ backup' = backup /\ End(p)
      /\ journal' = [journal EXCEPT ![l.ws] = Dropped(@, l.op.id)]
  BY DEF Retire, disk
<1>3. ASSUME NEW w \in Workspace PROVE Live(w)' = Live(w)
  <2>1. w = l.ws => Live(w)' = {o \in Live(w) : o.id # l.op.id} BY <1>1, <1>2, DropLive
  <2>2. w # l.ws => Live(w)' = Live(w) BY <1>1, <1>2, DropLive
  <2>3. w = l.ws => \A o \in Live(w) : o.id # l.op.id BY <1>0, <1>1 DEF Follows
  <2> QED BY <2>1, <2>2, <2>3
<1>4. ASSUME NEW w \in Workspace, NEW o \in Live(w)' PROVE Revertible(w, o, cp)'
  <2>1. o \in Live(w) BY <1>3, <1>4
  <2>2. Revertible(w, o, cp) BY <2>1, LiveFacts
  <2> QED BY <1>2, <2>2 DEF Revertible, AsPublished, Reversible
<1>5. (FileFits(cp) \/ Answered(cp))'
  <2>1. \A q \in Proc : ~ At(q, "mark")
    BY <1>0, OneAtATime DEF AgreeInv, At, Running
  <2>2. FileFits(cp) \/ Answered(cp) BY <2>1 DEF AgreeInv, Accounted
  <2>3. CASE FileFits(cp) BY <1>2, <2>3 DEF FileFits
  <2>4. CASE Answered(cp)
    <3>1. \E w \in Workspace : \E o \in Live(w)' : o.kind = "attach" => row'[cp] = None
      BY <1>2, <1>3, <2>4 DEF Answered
    <3> QED BY <3>1 DEF Answered
  <2> QED BY <2>2, <2>3, <2>4
<1>6. ~ Running(p)' BY <1>1, <1>2 DEF End, Idle, Running
<1> QED BY <1>4, <1>5, <1>6 DEF Keeps, Accounted

LEMMA DecidingStill ==
    ASSUME NEW p \in Proc, Deciding(p)
    PROVE  Still(p)
<1>1. UNCHANGED <<disk, database>> /\ loc[p].pc # "mark"
  <2>1. CASE LockWorkspace(p) \/ LockDetach(p) \/ Pending(p) \/ Recover(p)
    BY <2>1 DEF LockWorkspace, LockDetach, Pending, Recover, At
  <2>2. CASE LookUpRow(p) \/ ReadOverride(p) \/ Check(p) \/ Recheck(p)
    BY <2>2 DEF LookUpRow, ReadOverride, Check, Recheck, At
  <2>3. CASE Verify(p) \/ Rollback(p) \/ Preflight(p) \/ DetachNext(p)
    BY <2>3 DEF Verify, Rollback, Preflight, DetachNext, At
  <2> QED BY <2>1, <2>2, <2>3 DEF Deciding
<1> QED BY <1>1 DEF Still, disk, database

\* An operation that stops without having written anything leaves what was there.
LEMMA StopKeeps ==
    ASSUME OneCell, AgreeInv, NEW p \in Proc, Step(p) \/ Crash(p), Still(p), ~ Running(p)',
           NEW cp \in Cell
    PROVE  Keeps(p, cp)
BY StillAccounted DEF Keeps

LEMMA StepKeeps ==
    ASSUME OneCell, "mark" \notin CrashPoints \/ crashes' = 0, AgreeInv,
           NEW p \in Proc, Step(p) \/ Crash(p), NEW cp \in Cell
    PROVE  Keeps(p, cp)
<1>1. CASE Deciding(p)
  <2>1. Still(p) BY <1>1, DecidingStill
  <2>2. CASE Running(p)'
    <3>1. Follows(loc'[p]) /\ Sees(loc'[p], cp) BY <1>1, <2>2, DecidingKnows
    <3>2. Follows(loc[p])' /\ Sees(loc[p], cp)' BY <2>1, <3>1, StillKnown
    <3>3. Accounted(cp)' BY <2>1, StillAccounted
    <3> QED BY <3>2, <3>3 DEF Keeps
  <2> QED BY <2>1, <2>2, StopKeeps
<1>2. CASE Replace(p)
  <2>1. CASE ~ Running(p)'
    <3>1. loc \in [Proc -> Local] BY DEF AgreeInv, RowsInv, RegistryInv, StructureInv, TypeOK
    <3>2. ~ Go(p, "mark") BY <2>1, <3>1, GoKnows DEF Running
    <3>3. Still(p) BY <1>2, <3>2 DEF Replace, Still, database, At
    <3> QED BY <2>1, <3>3, StopKeeps
  <2> QED BY <1>2, <2>1, ReplaceKeeps
<1>3. CASE Crash(p)
  <2>1. loc \in [Proc -> Local] /\ crashes \in Nat
    BY AttachmentAssumption DEF AgreeInv, RowsInv, RegistryInv, StructureInv, TypeOK
  <2>2. ~ Running(p)' BY <1>3, <2>1 DEF Crash, End, Idle, Running
  <2>3. Still(p) BY <1>3, <2>1 DEF Crash, Still, disk, database
  <2> QED BY <2>2, <2>3, StopKeeps
<1>4. CASE Undo(p) \/ Clean(p) \/ Forget(p) \/ Stage(p) \/ Prepare(p) \/ MarkPublished(p)
  BY <1>4, UndoKeeps, CleanKeeps, ForgetKeeps, StageKeeps, PrepareKeeps, MarkKeeps
<1>5. CASE UnlinkEmpty(p) \/ MarkRemoved(p) \/ CompleteAttachment(p) \/ Tidy(p)
  BY <1>5, UnlinkKeeps, RemovedMarkKeeps, CompleteKeeps, TidyKeeps
<1>6. CASE Finish(p) \/ SaveClose(p) \/ Retire(p)
  BY <1>6, FinishKeeps, SaveCloseKeeps, RetireKeeps
<1> QED BY <1>1, <1>2, <1>3, <1>4, <1>5, <1>6 DEF Step, Deciding

\* An operation keeps its id in the journal, and nobody else uses it.
LEMMA ApartStep ==
    ASSUME OneCell, AgreeInv, NEW p \in Proc, Step(p) \/ Crash(p)
    PROVE  Apart'
<1>0. /\ StructureInv /\ HumansInv /\ loc \in [Proc -> Local] /\ Apart /\ issued \in Nat
      /\ journal \in [Workspace -> Seq(Operation)]
  BY DEF AgreeInv, RowsInv, RegistryInv, StructureInv, TypeOK
<1>1. ASSUME NEW w \in Workspace, NEW x \in Workspace, w # x,
             NEW op \in Range(journal'[w]), NEW o \in Range(journal[x])
      PROVE  op.id # o.id
  <2>1. CASE op \in Range(journal[w]) BY <1>0, <1>1, <2>1 DEF Apart
  <2>2. CASE op \notin Range(journal[w])
    <3>1. Running(p) /\ w = loc[p].ws BY <1>0, <2>2, RowsFrame
    <3>2. Follows(loc[p])
      <4>1. loc[p].cfg \in Config /\ PackageOf[w] \in Package
        BY <1>0, <3>1, AttachmentAssumption DEF StructureInv, Presence, Running, Ready
      <4>2. <<loc[p].cfg, PackageOf[w]>> \in Cell BY <4>1 DEF Cell
      <4> QED BY <3>1, <4>2 DEF AgreeInv
    <3>3. CASE loc[p].pc \in Publishing /\ Like(op, loc[p].op)
      BY <1>1, <3>1, <3>2, <3>3 DEF Follows, Like
    <3>4. CASE op.id = issued + 1
      <4>1. o.id <= issued /\ o \in Operation BY <1>0, RangeType DEF HumansInv, Faithful
      <4> QED BY <1>0, <3>4, <4>1 DEF Operation, Id
    <3> QED BY <1>0, <2>2, <3>3, <3>4, JournalStep
  <2> QED BY <2>1, <2>2
<1>2. ASSUME NEW w \in Workspace, NEW x \in Workspace, w # x,
             NEW op \in Range(journal'[w]), NEW o \in Range(journal'[x])
      PROVE  op.id # o.id
  <2>1. journal'[w] = journal[w] \/ journal'[x] = journal[x] BY <1>0, <1>2, RowsFrame
  <2>2. CASE journal'[x] = journal[x] BY <1>1, <1>2, <2>2
  <2>3. CASE journal'[w] = journal[w]
    <3>1. op \in Range(journal[w]) BY <2>3
    <3> QED BY <1>1, <1>2, <3>1
  <2> QED BY <2>1, <2>2, <2>3
<1> QED BY <1>2 DEF Apart

LEMMA AgreeStep ==
    ASSUME OneCell, "mark" \notin CrashPoints \/ crashes' = 0, AgreeInv, [Next]_vars
    PROVE  AgreeInv'
<1>0. /\ RowsInv /\ RowsInv' /\ loc \in [Proc -> Local] /\ loc' \in [Proc -> Local]
  BY RowsStep DEF AgreeInv, OneCell, RowsInv, RegistryInv, StructureInv, TypeOK
<1>1. CASE UNCHANGED vars
  <2>1. UNCHANGED <<file, backup, row, journal, loc>> BY <1>1 DEF vars, disk, database
  <2>2. Apart' BY <2>1 DEF AgreeInv, Apart
  <2>3. ASSUME NEW cp \in Cell
        PROVE  /\ Accounted(cp)'
               /\ \A q \in Proc : Running(q)' => Follows(loc[q])' /\ Sees(loc[q], cp)'
    <3>1. Accounted(cp)'
      BY <2>1 DEF AgreeInv, Accounted, Answered, Live, Revertible, AsPublished, Reversible,
                  FileFits, At
    <3>2. ASSUME NEW q \in Proc, Running(q)' PROVE Follows(loc[q])' /\ Sees(loc[q], cp)'
      <4>1. Follows(loc[q]) /\ Sees(loc[q], cp) BY <2>1, <3>2 DEF AgreeInv, Running
      <4> QED BY <2>1, <4>1 DEF Follows, Sees, Live, AsPublished, Reversible, FileFits, Detaching
    <3> QED BY <3>1, <3>2
  <2> QED BY <1>0, <2>2, <2>3 DEF AgreeInv
<1>2. ASSUME NEW p \in Proc, BeginSome(p) PROVE AgreeInv'
  <2>b. ASSUME NEW kind, NEW w, NEW c, NEW pkg, NEW keys, Begin(p, kind, w, c, pkg, keys)
        PROVE  /\ loc[p].pc = "idle" /\ loc'[p].pc = "locking" /\ UNCHANGED <<disk, database>>
               /\ \A q \in Proc \ {p} : loc'[q] = loc[q]
    BY <1>0, <2>b DEF Begin, Idle, At
  <2>1. /\ loc[p].pc = "idle" /\ loc'[p].pc = "locking"
        /\ UNCHANGED <<file, backup, row, journal>>
        /\ \A q \in Proc \ {p} : loc'[q] = loc[q]
    BY <1>2, <2>b DEF BeginSome, BeginAttach, BeginDetach, BeginClose, disk, database
  <2>2. Apart' BY <2>1 DEF AgreeInv, Apart
  <2>3. ASSUME NEW cp \in Cell
        PROVE  /\ Accounted(cp)'
               /\ \A q \in Proc : Running(q)' => Follows(loc[q])' /\ Sees(loc[q], cp)'
    <3>1. (\E q \in Proc : At(q, "mark")) => (\E q \in Proc : At(q, "mark"))'
      BY <2>1 DEF At
    <3>2. /\ \A w \in Workspace : \A op \in Live(w)' : Revertible(w, op, cp)'
          /\ FileFits(cp) \/ Answered(cp) => (FileFits(cp) \/ Answered(cp))'
      BY <2>1 DEF AgreeInv, Accounted, Answered, Live, Revertible, AsPublished, Reversible,
                  FileFits
    <3>3. Accounted(cp)' BY <3>1, <3>2 DEF AgreeInv, Accounted
    <3>4. ASSUME NEW q \in Proc, Running(q)' PROVE Follows(loc[q])' /\ Sees(loc[q], cp)'
      <4>0. loc'[q] = loc[q] BY <2>1, <3>4 DEF Running
      <4>1. Follows(loc[q]) /\ Sees(loc[q], cp) BY <3>4, <4>0 DEF AgreeInv, Running
      <4> QED BY <2>1, <4>0, <4>1
              DEF Follows, Sees, Live, AsPublished, Reversible, FileFits, Detaching
    <3> QED BY <3>3, <3>4
  <2> QED BY <1>0, <2>2, <2>3 DEF AgreeInv
<1>3. ASSUME NEW p \in Proc, Step(p) \/ Crash(p) PROVE AgreeInv'
  <2>1. Apart' BY <1>3, ApartStep
  <2>2. ASSUME NEW cp \in Cell
        PROVE  /\ Accounted(cp)'
               /\ \A q \in Proc : Running(q)' => Follows(loc[q])' /\ Sees(loc[q], cp)'
    <3>1. Keeps(p, cp) BY <1>3, StepKeeps
    <3>2. \A q \in Proc \ {p} : ~ Running(q)' BY <1>0, <1>3, StepAlone DEF Running
    <3> QED BY <3>1, <3>2 DEF Keeps
  <2> QED BY <1>0, <2>1, <2>2 DEF AgreeInv
<1> QED BY <1>1, <1>2, <1>3 DEF Next, Quiet

LEMMA AgreeInit == ASSUME Init PROVE AgreeInv
<1>1. RowsInv BY RowsInit
<1>2. /\ \A q \in Proc : ~ Running(q)
      /\ \A w \in Workspace : Range(journal[w]) = {} /\ Live(w) = {}
      /\ \A cp \in Cell : row[cp] = None
  BY EmptySeq DEF Init, Idle, Running, Range, Live
<1>3. ASSUME NEW cp \in Cell PROVE FileFits(cp)
  <2>1. file[cp[1]] \in Contents BY DEF Init, Cell
  <2>2. ByHumans(Lines(file[cp[1]])) BY <2>1, ContentsAssumption DEF ByHumans
  <2> QED BY <1>2, <2>2 DEF FileFits, Fits
<1> QED BY <1>1, <1>2, <1>3 DEF AgreeInv, Apart, Accounted

\* With one package of one configuration, and nobody killed between the
\* replacement of an override file and the flag in the journal that says so, the
\* managed blocks in the file and the attachments in the table are the same, at
\* rest and when no published operation is left to roll back: whatever overlapped,
\* failed, was killed elsewhere, rolled back or was recovered by the next
\* operation.  That flag is what recovery goes by; killed before it is set,
\* the block stays without a row, or the row without its block.
THEOREM BlocksAgree ==
    ASSUME OneCell, "mark" \notin CrashPoints
    PROVE  Spec => []BlocksMatchRows
<1>1. ASSUME AgreeInv PROVE BlocksMatchRows
  <2> SUFFICES ASSUME AllIdle,
                      \A w \in Workspace : \A i \in DOMAIN journal[w] :
                          ~ MustRestore(journal[w][i])
               PROVE  /\ \A cp \in DOMAIN row :
                            row[cp] # None => Occurrences(file[cp[1]], row[cp].id) = 1
                      /\ \A c \in Config : \A i \in DOMAIN Lines(file[c]) :
                            LET line == Lines(file[c])[i]
                            IN  line.id # 0 => /\ row[<<c, line.pkg>>] # None
                                               /\ row[<<c, line.pkg>>].id = line.id
    BY DEF BlocksMatchRows
  <2>0. /\ RowsInv /\ row \in [Cell -> Attachment \cup {None}] /\ file \in [Config -> Content]
    BY <1>1 DEF AgreeInv, RowsInv, RegistryInv, StructureInv, TypeOK
  <2>1. ASSUME NEW cp \in Cell PROVE FileFits(cp)
    <3>1. ~ Answered(cp) BY DEF Answered, Live, Range
    <3>2. \A q \in Proc : ~ At(q, "mark") BY DEF AllIdle, At
    <3> QED BY <1>1, <3>1, <3>2 DEF AgreeInv, Accounted
  <2>2. ASSUME NEW cp \in DOMAIN row, row[cp] # None
        PROVE  Occurrences(file[cp[1]], row[cp].id) = 1
    <3>0. cp \in Cell /\ row[cp] \in Attachment BY <2>0, <2>2
    <3>1. PICK k \in DOMAIN Lines(file[cp[1]]) :
             /\ Lines(file[cp[1]])[k].id = row[cp].id
             /\ \A i \in DOMAIN Lines(file[cp[1]]) \ {k} : Lines(file[cp[1]])[i].id = 0
      BY <2>1, <2>2, <3>0 DEF FileFits, Fits, OneBlock
    <3>2. row[cp].id # 0 BY <3>0 DEF Attachment, Id
    <3>3. Places(Lines(file[cp[1]]), row[cp].id) = {k} BY <3>1, <3>2 DEF Places
    <3> QED BY <3>3, FS_Singleton DEF Occurrences
  <2>3. ASSUME NEW c \in Config, NEW i \in DOMAIN Lines(file[c]), Lines(file[c])[i].id # 0
        PROVE  /\ row[<<c, Lines(file[c])[i].pkg>>] # None
               /\ row[<<c, Lines(file[c])[i].pkg>>].id = Lines(file[c])[i].id
    <3>1. Lines(file[c]) \in Seq(Line) BY <2>0, LinesType
    <3>2. Lines(file[c])[i] \in Line BY <3>1, LinesOf
    <3>3. PICK cp \in Cell : cp = <<c, Lines(file[c])[i].pkg>> BY <3>2 DEF Cell, Line
    <3>4. FileFits(cp) /\ cp[1] = c BY <2>1, <3>3
    <3>5. row[cp] # None /\ OneBlock(Lines(file[c]), row[cp].id)
      BY <2>3, <3>4 DEF FileFits, Fits, ByHumans
    <3>6. row[cp].id = Lines(file[c])[i].id BY <2>3, <3>5 DEF OneBlock
    <3> QED BY <3>3, <3>5, <3>6
  <2> QED BY <2>2, <2>3
<1> QED BY <1>1, AgreeInit, AgreeStep, PTL DEF Spec

-----------------------------------------------------------------------------
(* What is behind a block, as long as nobody is killed *)

\* What the package has without the block that is recorded.
Behind(c, found) == Effective(Restored(c, found.id), PackageOf[found.ws])

\* What is published and not yet recorded is somebody's who goes on to record it.
Tended == \A w \in Workspace :
    Live(w) # {} => \E q \in Proc : loc[q].pc \in Marked /\ loc[q].ws = w

Early == {"pending", "row", "read", "stage"} \cup Recovering

\* What the package had when the operation began, what the operation makes of it,
\* and that its own content stays in the file, so that it never rolls back.
Remembers(l, cp) ==
    /\ l.pc \notin {"undo", "rollback"}
    /\ l.kind = "attach" /\ l.pc \in Early => l.seen = Effective(file[cp[1]], cp[2])
    /\ l.pc \in Planned =>
          IF l.kind = "attach"
          THEN /\ Effective(l.op.new, cp[2]) = l.ws
               /\ Effective(Restored(l.op.new, l.op.id), cp[2]) = l.seen
          ELSE Effective(l.op.new, cp[2]) = l.att.prior
    /\ l.pc = "mark" => file[cp[1]] = l.op.new
    /\ l.pc \in {"recheck", "unlink"} => file[cp[1]] = <<>>
    /\ l.pc \in {"recheck", "unlink", "markremove"} => l.op.new = <<>>
    /\ l.pc \in {"verify", "complete"} =>
          Effective(file[cp[1]], cp[2]) = Effective(l.op.new, cp[2])

Recalls(cp) ==
    FileFits(cp) /\ row[cp] # None => Behind(file[cp[1]], row[cp]) = row[cp].prior

Calm ==
    /\ AgreeInv /\ Tended
    /\ \A cp \in Cell :
          /\ Recalls(cp)
          /\ \A q \in Proc : Running(q) => Remembers(loc[q], cp)

CalmInv == RowsInv /\ (crashes = 0 => Calm)

\* A line assigns at the end of a file, and the file without it is as before.
LEMMA EffectiveAppend ==
    ASSUME NEW s \in Seq(Line), NEW line \in Line
    PROVE  Effective(Append(s, line), line.pkg) = line.path
<1> DEFINE t == Append(s, line)
           n == Len(s) + 1
           assigned == {i \in DOMAIN t : t[i].pkg = line.pkg}
<1>1. /\ Len(s) \in Nat /\ n \in Nat /\ t \in Seq(Line) /\ DOMAIN t = 1 .. n /\ t[n] = line
  BY LenProperties, AppendProperties
<1>2. Lines(t) = t BY <1>1, LinesOf
<1>3. n \in assigned /\ assigned \in SUBSET (1 .. n) BY <1>1
<1>4. n \in assigned /\ \A i \in assigned : n >= i BY <1>1, <1>3
<1>5. Max(assigned) = n
  <2> HIDE DEF assigned, t, n
  <2>1. Max(assigned) \in assigned /\ \A i \in assigned : Max(assigned) >= i
    BY <1>4 DEF Max
  <2>2. PICK m : m = Max(assigned) OBVIOUS
  <2>3. m >= n /\ m \in 1 .. n BY <1>3, <2>1, <2>2
  <2> QED BY <1>1, <2>2, <2>3
<1> HIDE DEF t, n
<1>6. Effective(t, line.pkg) = t[n].path BY <1>2, <1>3, <1>5 DEF Effective
<1> QED BY <1>1, <1>6 DEF t

LEMMA RestoredAppend ==
    ASSUME NEW s \in Seq(Line), ByHumans(s), NEW line \in Line, line.id # 0
    PROVE  Restored(Append(s, line), line.id) = s
<1> DEFINE t == Append(s, line)
           n == Len(s) + 1
           r == RemoveAt(t, n)
<1>1. /\ Len(s) \in Nat /\ n \in Nat /\ t \in Seq(Line) /\ DOMAIN t = 1 .. n /\ t[n] = line
      /\ Len(t) = n /\ \A i \in 1 .. Len(s) : t[i] = s[i]
  BY LenProperties, AppendProperties
<1>2. Lines(t) = t BY <1>1, LinesOf
<1>3. DOMAIN s = 1 .. Len(s) BY LenProperties
<1>4. Places(t, line.id) = {n} BY <1>1, <1>3 DEF Places, ByHumans
<1>5. Min({n}) = n
  <2>1. {n} \in SUBSET (1 .. n) /\ {n} # {} BY <1>1
  <2>2. Min({n}) \in {n} BY <1>1, <2>1, MinExists
  <2> QED BY <2>2
<1>6. /\ r \in Seq(Line) /\ Len(r) = n - 1
      /\ \A k \in 1 .. n - 1 : r[k] = IF k < n THEN t[k] ELSE t[k + 1]
  <2>1. n \in DOMAIN t BY <1>1
  <2> QED BY <1>1, <2>1, RemoveAtProperties
<1> HIDE DEF t, r
<1>7. r = s
  <2>1. Len(r) = Len(s) BY <1>1, <1>6
  <2>2. \A k \in 1 .. Len(s) : r[k] = s[k] BY <1>1, <1>6
  <2> QED BY <1>6, <2>1, <2>2, SeqEqual
<1>8. Restored(t, line.id) = r BY <1>2, <1>4, <1>5 DEF Restored, Removed, r
<1> QED BY <1>7, <1>8 DEF t

\* As long as nobody was killed, nothing published is left behind.
LEMMA NothingLeft ==
    ASSUME OneCell, AgreeInv, Tended, NEW p \in Proc, Step(p), NEW w \in Workspace
    PROVE  Live(w) # {} => loc[p].pc \in Marked /\ loc[p].ws = w
<1>1. ASSUME NEW q \in Proc, loc[q].pc \in Marked PROVE q = p
  <2>1. Running(q) BY <1>1 DEF Running, Marked
  <2> QED BY <2>1, StepAlone DEF AgreeInv
<1> QED BY <1>1 DEF Tended

LEMMA MarkedStep ==
    ASSUME NEW p \in Proc, Step(p), loc[p].pc \in Marked
    PROVE  Recheck(p) \/ UnlinkEmpty(p) \/ MarkRemoved(p) \/ Verify(p) \/ CompleteAttachment(p)
<1>1. ~ (LockWorkspace(p) \/ LockDetach(p) \/ Pending(p) \/ Recover(p) \/ Undo(p))
  BY DEF LockWorkspace, LockDetach, Pending, Recover, Undo, At, Marked
<1>2. ~ (Clean(p) \/ Forget(p) \/ LookUpRow(p) \/ ReadOverride(p) \/ Stage(p))
  BY DEF Clean, Forget, LookUpRow, ReadOverride, Stage, At, Marked
<1>3. ~ (Prepare(p) \/ Check(p) \/ Replace(p) \/ MarkPublished(p) \/ Rollback(p) \/ Tidy(p))
  BY DEF Prepare, Check, Replace, MarkPublished, Rollback, Tidy, At, Marked
<1>4. ~ (Finish(p) \/ Preflight(p) \/ DetachNext(p) \/ SaveClose(p) \/ Retire(p))
  BY DEF Finish, Preflight, DetachNext, SaveClose, Retire, At, Marked
<1> QED BY <1>1, <1>2, <1>3, <1>4 DEF Step

\* As long as nobody is killed, Make reports what the operation expects.
LEMMA VerifiedFits ==
    ASSUME OneCell, AgreeInv, NEW p \in Proc, Verify(p), NEW cp \in Cell,
           Remembers(loc[p], cp)
    PROVE  Go(p, "complete")
<1> DEFINE l == loc[p]
<1>0. l.pc = "verify" /\ Running(p) BY DEF Verify, At, Running
<1>1. l.cfg = cp[1] /\ PackageOf[l.ws] = cp[2] BY <1>0, RunningFacts
<1>2. Effective(File(p), Pkg(p)) = Effective(l.op.new, cp[2])
  BY <1>0, <1>1 DEF Remembers, File, Pkg
<1>3. Effective(l.op.new, cp[2]) = IF l.kind = "attach" THEN l.ws ELSE l.att.prior
  BY <1>0 DEF Remembers, Planned, Marked
<1> QED BY <1>2, <1>3 DEF Verify, StepKind

\* A published operation stays somebody's until it is recorded.
LEMMA TendedStep ==
    ASSUME OneCell, AgreeInv, Tended, NEW p \in Proc, Step(p),
           NEW cp \in Cell, Running(p) => Remembers(loc[p], cp),
           NEW w \in Workspace, NEW op \in Live(w)'
    PROVE  loc'[p].pc \in Marked /\ loc'[p].ws = w
<1> DEFINE l == loc[p]
           n == loc'[p]
<1>0. /\ loc \in [Proc -> Local] /\ l \in Local /\ Ready(l, l.pc)
      /\ journal \in [Workspace -> Seq(Operation)] /\ issued \in Nat
      /\ \A x \in Workspace : DistinctIn(journal[x])
      /\ file[cp[1]] \in Content
  BY TheCell DEF AgreeInv, RowsInv, RegistryInv, StructureInv, Presence, TypeOK
<1>1. Running(p) => /\ l.ws \in Workspace /\ l.cfg = cp[1] /\ CellOf(l) = cp
                    /\ RowSafe(l) /\ Follows(l) /\ Sees(l, cp)
  BY RunningFacts
<1>2. op \in Live(w) => l.pc \in Marked /\ l.ws = w BY NothingLeft
<1>3. CASE Forget(p) \/ Finish(p) \/ Retire(p)
  <2>1. /\ Running(p) /\ l.pc \notin Marked
        /\ \E id : journal' = [journal EXCEPT ![l.ws] = Dropped(@, id)]
    BY <1>3 DEF Forget, Finish, Retire, At, Running, Marked
  <2>2. op \in Live(w) BY <1>0, <1>1, <2>1, DropLive
  <2> QED BY <1>2, <2>1, <2>2
<1>4. CASE Prepare(p) \/ SaveClose(p)
  <2>1. l.pc \notin Marked /\ Running(p)
    BY <1>4 DEF Prepare, SaveClose, At, Running, Marked
  <2>2. \E o \in Operation : Save(p, o) /\ ~ MustRestore(o)
    <3>1. CASE Prepare(p)
      <4>1. l.pc = "prepare" /\ l.op \in Operation /\ ~ l.op.published
        BY <1>0, <1>1, <2>1, <3>1 DEF Prepare, At, Ready, Publishing, Follows
      <4>2. [l.op EXCEPT !.old = File(p)] \in Operation
        BY <1>0, <1>1, <2>1, <4>1 DEF Operation, File
      <4>3. ~ MustRestore([l.op EXCEPT !.old = File(p)])
        BY <4>1 DEF Operation, MustRestore
      <4> QED BY <3>1, <4>2, <4>3 DEF Prepare
    <3>2. CASE SaveClose(p)
      <4> DEFINE o == [id |-> issued + 1, kind |-> "close", cfg |-> l.cfg,
                       phase |-> "prepared", published |-> FALSE, remove |-> FALSE,
                       backed |-> FALSE, old |-> NoFile, new |-> NoFile]
      <4>1. cp[1] \in Config BY DEF Cell
      <4>2. o \in Operation /\ ~ MustRestore(o)
        BY <1>0, <1>1, <2>1, <4>1 DEF Operation, Id, Kind, Content, MustRestore
      <4>3. Save(p, o) BY <3>2 DEF SaveClose
      <4> QED BY <4>2, <4>3
    <3> QED BY <1>4, <3>1, <3>2
  <2>3. op \in Live(w) BY <1>0, <1>1, <2>1, <2>2, SaveLive
  <2> QED BY <1>2, <2>1, <2>3
<1>5. CASE MarkPublished(p) \/ MarkRemoved(p)
  <2>1. Running(p) /\ n.pc \in Marked /\ n.ws = l.ws /\ l.pc \in Publishing
    BY <1>0, <1>5 DEF MarkPublished, MarkRemoved, At, Running, Local, Marked, Publishing
  <2>2. l.op \in Operation BY <1>0, <2>1 DEF Ready
  <2>3. \E o \in Operation : Save(p, o)
    <3>1. /\ [l.op EXCEPT !.published = TRUE, !.phase = "published"] \in Operation
          /\ [l.op EXCEPT !.remove = TRUE] \in Operation
      BY <2>2 DEF Operation
    <3> QED BY <1>5, <3>1 DEF MarkPublished, MarkRemoved
  <2>4. w # l.ws => op \in Live(w) BY <1>0, <1>1, <2>1, <2>3, SaveLive
  <2> QED BY <1>2, <2>1, <2>4
<1>6. CASE CompleteAttachment(p)
  <2>1. l.pc = "complete" /\ Running(p) BY <1>6 DEF CompleteAttachment, At, Running
  <2>2. l.op \in Operation /\ Live(l.ws) \subseteq {l.op}
    BY <1>0, <1>1, <2>1 DEF Ready, Publishing, Follows, Marked
  <2>3. l.kind = "attach" => row[cp] = None BY <1>1, <2>1 DEF RowSafe, Publishing
  <2>4. journal' = [journal EXCEPT ![l.ws] = Completed(@, l.op)]
    BY <1>1, <1>6, <2>1, <2>3 DEF CompleteAttachment, StepKind, CellOf, Pkg
  <2>5. op \in Live(w) /\ w # l.ws BY <1>0, <1>1, <2>1, <2>2, <2>4, CompletedLive
  <2> QED BY <1>2, <2>5
<1>7. CASE journal' = journal /\ ~ CompleteAttachment(p) /\ ~ MarkRemoved(p)
  <2>1. op \in Live(w) BY <1>7 DEF Live
  <2>2. l.pc \in Marked /\ l.ws = w BY <1>2, <2>1
  <2>3. Running(p) /\ Remembers(l, cp) BY <2>2 DEF Running, Marked
  <2>4. Recheck(p) \/ UnlinkEmpty(p) \/ Verify(p) BY <1>7, <2>2, MarkedStep
  <2>5. \E x \in Marked : Go(p, x)
    <3>1. CASE Recheck(p)
      <4>1. File(p) = <<>> BY <1>1, <2>3, <3>1 DEF Recheck, At, Remembers, File
      <4> QED BY <3>1, <4>1 DEF Recheck, Marked
    <3>2. CASE UnlinkEmpty(p)
      <4>1. File(p) = <<>> BY <1>1, <2>3, <3>2 DEF UnlinkEmpty, At, Remembers, File
      <4>2. File(p) # NoFile BY <4>1, EmptySeq, ContentsAssumption
      <4> QED BY <3>2, <4>2 DEF UnlinkEmpty, Marked
    <3>3. CASE Verify(p)
      <4>1. Go(p, "complete") BY <1>0, <1>1, <2>3, <3>3, VerifiedFits
      <4> QED BY <4>1 DEF Marked
    <3> QED BY <2>4, <3>1, <3>2, <3>3
  <2> QED BY <1>0, <2>2, <2>5, GoKnows
<1>8. journal' = journal \/ Forget(p) \/ Prepare(p) \/ MarkPublished(p) \/ MarkRemoved(p)
        \/ CompleteAttachment(p) \/ Finish(p) \/ SaveClose(p) \/ Retire(p)
  BY Frames
<1> QED BY <1>3, <1>4, <1>5, <1>6, <1>7, <1>8

LEMMA RemembersStep ==
    ASSUME OneCell, AgreeInv, Tended, NEW p \in Proc, Step(p), Running(p)', NEW cp \in Cell,
           Running(p) => Remembers(loc[p], cp), Recalls(cp)
    PROVE  Remembers(loc[p], cp)'
<1> DEFINE l == loc[p]
           n == loc'[p]
<1>0. /\ loc \in [Proc -> Local] /\ l \in Local /\ Ready(l, l.pc)
      /\ file \in [Config -> Content] /\ file[cp[1]] \in Content
      /\ row \in [Cell -> Attachment \cup {None}] /\ issued \in Nat
      /\ cp[1] \in Config
  BY TheCell DEF AgreeInv, RowsInv, RegistryInv, StructureInv, Presence, TypeOK
<1>1. Running(p) => /\ l.ws \in Workspace /\ l.cfg = cp[1] /\ CellOf(l) = cp
                    /\ PackageOf[l.ws] = cp[2]
                    /\ RowSafe(l) /\ Follows(l) /\ Sees(l, cp) /\ Remembers(l, cp)
  BY RunningFacts
<1>e. ~ End(p) BY <1>0 DEF End, Idle, Running
<1>f. ASSUME file' = file, Remembers(n, cp) PROVE Remembers(loc[p], cp)' BY <1>f DEF Remembers
<1>g. ASSUME file' = file, n.pc \notin Planned \cup {"undo", "rollback"},
             n.kind = "attach" /\ n.pc \in Early => n.seen = Effective(file[cp[1]], cp[2])
      PROVE  Remembers(loc[p], cp)'
  BY <1>f, <1>g DEF Remembers, Planned, Marked
<1>1a. CASE LockWorkspace(p)
  <2>1. /\ n.pc = "pending" /\ n.seen = Effective(File(p), Pkg(p)) /\ n.kind = l.kind
        /\ n.ws = l.ws /\ n.cfg = l.cfg /\ file' = file
    BY <1>0, <1>1a, <1>e DEF LockWorkspace, Local, disk
  <2>2. l.cfg = cp[1] /\ PackageOf[l.ws] = cp[2]
    <3>1. l.cfg \in Config /\ l.ws \in Workspace BY <1>0, <1>1a DEF LockWorkspace, At, Ready
    <3> QED BY <3>1, TheCell DEF AgreeInv
  <2>3. n.seen = Effective(file[cp[1]], cp[2]) BY <2>1, <2>2 DEF File, Pkg
  <2> QED BY <1>g, <2>1, <2>3 DEF Planned, Marked
<1>2a. CASE LockDetach(p)
  <2>1. n.pc = "pending" /\ n.kind = "detach" /\ file' = file
    BY <1>0, <1>2a, <1>e DEF LockDetach, Local, disk
  <2> QED BY <1>g, <2>1 DEF Planned, Marked
<1>3. CASE \/ Pending(p) \/ LookUpRow(p) \/ ReadOverride(p) \/ Clean(p) \/ Forget(p)
           \/ Recover(p)
  <2>1. Running(p) /\ l.pc \in Early
    BY <1>3 DEF Pending, LookUpRow, ReadOverride, Clean, Forget, Recover, At, Running, Early,
                Recovering
  <2>2. /\ file' = file /\ n.kind = l.kind /\ n.seen = l.seen
        /\ n.pc \in {"recover", "read", "stage", "forget", "clean", "row", "preflight", "retire"}
    <3>1. CASE Pending(p)
      <4>1. \/ \E t : loc' = [loc EXCEPT ![p].pc = "recover", ![p].todo = t]
            \/ \E t, a : loc' = [loc EXCEPT ![p].pc = "recover", ![p].todo = t, ![p].after = a]
            \/ \E t, a, o : loc' = [loc EXCEPT ![p].pc = "recover", ![p].todo = t,
                                               ![p].op = o, ![p].after = a]
        BY <3>1 DEF Pending
      <4>2. ASSUME NEW t, loc' = [loc EXCEPT ![p].pc = "recover", ![p].todo = t]
            PROVE  n.kind = l.kind /\ n.seen = l.seen /\ n.pc = "recover"
        BY <1>0, <4>2 DEF Local
      <4>3. ASSUME NEW t, NEW a,
                   loc' = [loc EXCEPT ![p].pc = "recover", ![p].todo = t, ![p].after = a]
            PROVE  n.kind = l.kind /\ n.seen = l.seen /\ n.pc = "recover"
        BY <1>0, <4>3 DEF Local
      <4>4. ASSUME NEW t, NEW a, NEW o,
                   loc' = [loc EXCEPT ![p].pc = "recover", ![p].todo = t, ![p].op = o,
                                      ![p].after = a]
            PROVE  n.kind = l.kind /\ n.seen = l.seen /\ n.pc = "recover"
        BY <1>0, <4>4 DEF Local
      <4> HIDE DEF n, l
      <4>5. n.kind = l.kind /\ n.seen = l.seen /\ n.pc = "recover"
        BY <4>1, <4>2, <4>3, <4>4
      <4> QED BY <3>1, <4>5 DEF Pending, disk
    <3>2. CASE LookUpRow(p) BY <1>0, <1>e, <3>2, GoKnows DEF LookUpRow, disk
    <3>3. CASE ReadOverride(p) BY <1>0, <1>e, <3>3 DEF ReadOverride, Local, disk
    <3>4. CASE Clean(p) BY <1>0, <3>4, GoKnows DEF Clean
    <3>5. CASE Forget(p) BY <1>0, <3>5 DEF Forget, Local, disk
    <3>6. CASE Recover(p)
      <4>0. l.pc = "recover" BY <3>6 DEF Recover, At
      <4>1. CASE l.todo = <<>>
        <5>1. Go(p, l.after) /\ l.after # "idle" BY <1>e, <3>6, <4>1 DEF Recover
        <5>2. l.after \in {"row", "read", "preflight", "retire"}
          BY <1>0, <4>0, <5>1 DEF Ready, Recovering, AfterRecovery
        <5> QED BY <1>0, <3>6, <5>1, <5>2, GoKnows DEF Recover, disk
      <4>2. CASE l.todo # <<>>
        <5>1. Go(p, RecoveryOf(p)) BY <1>e, <3>6, <4>2 DEF Recover
        <5>2. Item(p) \in Range(l.todo) BY <1>0, <4>2, HeadAndTail DEF Local, Item
        <5>3. Item(p) \in Range(journal[l.ws])
          BY <1>1, <2>1, <4>0, <5>2 DEF Follows, Recovering
        <5>4. Live(l.ws) = {} BY <1>1, <2>1, <4>0, NothingLeft DEF Marked
        <5>5. ~ MustRestore(Item(p)) BY <5>3, <5>4 DEF Live
        <5>6. RecoveryOf(p) \in {"clean", "forget"} BY <5>5 DEF RecoveryOf
        <5> QED BY <1>0, <3>6, <5>1, <5>6, GoKnows DEF Recover, disk
      <4> QED BY <4>1, <4>2
    <3> QED BY <1>3, <3>1, <3>2, <3>3, <3>4, <3>5, <3>6
  <2>3. l.kind = "attach" => l.seen = Effective(file[cp[1]], cp[2])
    BY <1>1, <2>1 DEF Remembers
  <2> QED BY <1>g, <2>2, <2>3 DEF Planned, Marked
<1>4. ~ Undo(p) /\ ~ Rollback(p) BY <1>1 DEF Undo, Rollback, At, Running, Remembers
<1>5. CASE Stage(p)
  <2> DEFINE id == issued + 1
             new == NewContent(p, id)
             op == [id |-> id, kind |-> StepKind(p), cfg |-> l.cfg,
                    phase |-> "prepared", published |-> FALSE,
                    remove |-> FALSE, backed |-> File(p) # NoFile,
                    old |-> NoFile, new |-> new]
  <2>0. l.pc = "stage" /\ Running(p) BY <1>5 DEF Stage, At, Running
  <2>1. /\ file' = file /\ n.pc = "prepare" /\ n.op = op /\ n.kind = l.kind
        /\ n.ws = l.ws /\ n.seen = l.seen /\ n.att = l.att
    BY <1>0, <1>5 DEF Stage, Local
  <2>2. op.new = new /\ op.id = id OBVIOUS
  <2>3. l.orig = file[cp[1]] /\ FileFits(cp) BY <1>1, <2>0 DEF Sees
  <2>4. CASE l.kind = "attach"
    <3> DEFINE s == Lines(l.orig)
               line == ManagedBlock(id, l.ws, NeedsSeparator(l.orig))
    <3>1. row[cp] = None BY <1>1, <2>0, <2>4 DEF RowSafe
    <3>2. s \in Seq(Line) /\ ByHumans(s)
      BY <1>0, <2>3, <3>1, LinesType DEF FileFits, Fits
    <3>3. line \in Line /\ line.id = id /\ line.id # 0 /\ line.pkg = cp[2] /\ line.path = l.ws
      BY <1>0, <1>1, <2>0, AttachmentAssumption DEF ManagedBlock, NeedsSeparator, Line, Path, Cell
    <3>4. new = Append(s, line) BY <2>4 DEF NewContent
    <3>5. l.seen = Effective(l.orig, cp[2]) BY <1>1, <2>0, <2>3, <2>4 DEF Remembers, Early
    <3> HIDE DEF line, s, new
    <3>6. Effective(new, cp[2]) = l.ws BY <3>2, <3>3, <3>4, EffectiveAppend
    <3>7. Restored(new, id) = s BY <3>2, <3>3, <3>4, RestoredAppend
    <3>8. Effective(s, cp[2]) = Effective(l.orig, cp[2])
      BY <3>2, LinesOf DEF s, Effective
    <3>9. Effective(n.op.new, cp[2]) = n.ws /\ Effective(Restored(n.op.new, n.op.id), cp[2]) = n.seen
      BY <2>1, <2>2, <3>5, <3>6, <3>7, <3>8
    <3> QED BY <1>f, <2>1, <2>4, <3>9 DEF Remembers, Early, Recovering, Marked
  <2>5. CASE l.kind # "attach"
    <3>1. row[cp] = l.att /\ l.att \in Attachment
      BY <1>0, <1>1, <2>0, <2>5 DEF Detaching, Sees, Ready
    <3>2. Behind(file[cp[1]], l.att) = l.att.prior
      BY <2>3, <3>1, AbsentAssumption DEF Recalls
    <3>3. PackageOf[l.att.ws] = cp[2]
      BY <3>1, TheCell DEF AgreeInv, Attachment
    <3>4. new = Restored(l.orig, l.att.id) BY <2>5 DEF NewContent
    <3>5. Effective(n.op.new, cp[2]) = n.att.prior
      BY <2>1, <2>2, <2>3, <3>2, <3>3, <3>4 DEF Behind
    <3> QED BY <1>f, <2>1, <2>5, <3>5 DEF Remembers, Early, Recovering, Marked
  <2> QED BY <2>4, <2>5
<1>6. CASE Prepare(p) \/ Check(p) \/ Replace(p)
  <2>0. l.pc \in {"prepare", "check", "replace"} /\ Running(p) /\ l.op \in Operation
        /\ l.op.cfg = cp[1]
    BY <1>0, <1>1, <1>6 DEF Prepare, Check, Replace, At, Running, Ready, Publishing
  <2>1. /\ n.pc \in {"check", "replace", "mark"} /\ n.kind = l.kind /\ n.ws = l.ws
        /\ n.seen = l.seen /\ n.att = l.att
        /\ n.op.new = l.op.new /\ n.op.id = l.op.id
        /\ n.pc = "mark" => file'[cp[1]] = l.op.new
    <3>1. CASE Prepare(p)
      <4>1. n.op = [l.op EXCEPT !.old = File(p)] /\ n.pc = "check"
        BY <1>0, <3>1 DEF Prepare, Local
      <4>2. n.op.new = l.op.new /\ n.op.id = l.op.id BY <2>0, <4>1 DEF Operation
      <4> QED BY <1>0, <3>1, <4>1, <4>2 DEF Prepare, Local
    <3>2. CASE Check(p) BY <1>0, <1>e, <3>2, GoKnows DEF Check
    <3>3. CASE Replace(p) BY <1>0, <1>e, <2>0, <3>3, GoKnows DEF Replace
    <3> QED BY <1>6, <3>1, <3>2, <3>3
  <2> QED BY <1>1, <2>0, <2>1 DEF Remembers, Planned, Marked, Early, Recovering
<1>7. CASE MarkPublished(p)
  <2>0. l.pc = "mark" /\ Running(p) /\ l.op \in Operation
    BY <1>0, <1>7 DEF MarkPublished, At, Running, Ready, Publishing
  <2>1. /\ n.op = [l.op EXCEPT !.published = TRUE, !.phase = "published"]
        /\ file' = file /\ n.kind = l.kind /\ n.ws = l.ws
        /\ n.seen = l.seen /\ n.att = l.att
    BY <1>0, <1>7 DEF MarkPublished, Local, disk
  <2>2. n.op.new = l.op.new /\ n.op.id = l.op.id /\ n.op.kind = l.op.kind
    BY <2>0, <2>1 DEF Operation
  <2>3. n.pc = "verify" \/ (n.pc = "recheck" /\ n.op.new = <<>>)
    <3>1. n.op = [l.op EXCEPT !.published = TRUE, !.phase = "published"] BY <2>1
    <3>2. \/ n.pc = "verify"
          \/ n.pc = "recheck" /\ [l.op EXCEPT !.published = TRUE, !.phase = "published"].new = <<>>
      BY <1>0, <1>7 DEF MarkPublished, Local
    <3> QED BY <3>1, <3>2
  <2>4. file[cp[1]] = l.op.new BY <1>1, <2>0 DEF Remembers
  <2> HIDE DEF n
  <2>5. Remembers(n, cp)
    BY <1>1, <2>0, <2>1, <2>2, <2>3, <2>4 DEF Remembers, Planned, Marked, Early, Recovering
  <2> QED BY <1>f, <2>1, <2>5 DEF n
<1>8. CASE Recheck(p)
  <2>0. l.pc = "recheck" /\ Running(p) BY <1>8 DEF Recheck, At, Running
  <2>1. File(p) = <<>> BY <1>1, <2>0 DEF Remembers, File
  <2>2. Go(p, "unlink") /\ file' = file BY <1>8, <2>1 DEF Recheck, disk
  <2>3. Remembers(n, cp)
    BY <1>0, <1>1, <2>0, <2>2, GoKnows DEF Remembers, Planned, Marked, Early, Recovering
  <2> QED BY <1>f, <2>2, <2>3
<1>9. CASE UnlinkEmpty(p)
  <2>0. l.pc = "unlink" /\ Running(p) BY <1>9 DEF UnlinkEmpty, At, Running
  <2>1. File(p) = <<>> BY <1>1, <2>0 DEF Remembers, File
  <2>2. File(p) # NoFile BY <2>1, EmptySeq, ContentsAssumption
  <2>3. Go(p, "markremove") BY <1>9, <2>2 DEF UnlinkEmpty
  <2>4. /\ n.pc = "markremove" /\ n.kind = l.kind /\ n.ws = l.ws /\ n.op = l.op
        /\ n.seen = l.seen /\ n.att = l.att
    BY <1>0, <2>3, GoKnows
  <2> QED BY <1>1, <2>0, <2>4 DEF Remembers, Planned, Marked, Early, Recovering
<1>10. CASE MarkRemoved(p)
  <2>0. l.pc = "markremove" /\ Running(p) /\ l.op \in Operation
    BY <1>0, <1>10 DEF MarkRemoved, At, Running, Ready, Publishing
  <2>1. /\ n.op = [l.op EXCEPT !.remove = TRUE] /\ n.pc = "verify"
        /\ file' = file /\ n.kind = l.kind /\ n.ws = l.ws
        /\ n.seen = l.seen /\ n.att = l.att
    BY <1>0, <1>10 DEF MarkRemoved, Local, disk
  <2>2. n.op.new = l.op.new /\ n.op.id = l.op.id BY <2>0, <2>1 DEF Operation
  <2>3. file[cp[1]] = l.op.new \/ file[cp[1]] = NoFile
    BY <1>1, <2>0 DEF Sees, Marked
  <2>4. l.op.new = <<>> BY <1>1, <2>0 DEF Remembers
  <2>5. Effective(file[cp[1]], cp[2]) = Effective(l.op.new, cp[2])
    <3>1. Lines(file[cp[1]]) = Lines(l.op.new) BY <2>3, <2>4, EmptySeq, LinesOf
    <3> QED BY <3>1 DEF Effective
  <2> HIDE DEF n
  <2>6. Remembers(n, cp)
    BY <1>1, <2>0, <2>1, <2>2, <2>5 DEF Remembers, Planned, Marked, Early, Recovering
  <2> QED BY <1>f, <2>1, <2>6 DEF n
<1>11. CASE Verify(p)
  <2>0. l.pc = "verify" /\ Running(p) /\ file' = file
    BY <1>11 DEF Verify, At, Running, disk
  <2>1. Go(p, "complete") BY <1>1, <1>11, <2>0, VerifiedFits
  <2>2. Remembers(n, cp)
    BY <1>0, <1>1, <2>0, <2>1, GoKnows DEF Remembers, Planned, Marked, Early, Recovering
  <2> QED BY <1>f, <2>0, <2>2
<1>12. CASE CompleteAttachment(p)
  <2>0. l.pc = "complete" /\ Running(p) BY <1>12 DEF CompleteAttachment, At, Running
  <2>1. l.kind = "attach" => row[cp] = None BY <1>1, <2>0 DEF RowSafe, Publishing
  <2>2. Go(p, "tidy") /\ file' = file
    BY <1>1, <1>12, <2>0, <2>1 DEF CompleteAttachment, StepKind, CellOf, Pkg, disk
  <2>3. n.pc = "tidy" BY <1>0, <2>2, GoKnows
  <2> QED BY <1>g, <2>2, <2>3 DEF Planned, Marked, Early, Recovering
<1>13. CASE Tidy(p) \/ Finish(p) \/ SaveClose(p)
  <2>1. n.pc \in {"finish", "next", "retire"} /\ file' = file
    BY <1>0, <1>13, <1>e DEF Tidy, Finish, SaveClose, Go, Local, disk
  <2> QED BY <1>g, <2>1 DEF Planned, Marked, Early, Recovering
<1>14. CASE Preflight(p) \/ DetachNext(p)
  <2>1. n.pc \in {"next", "saveclose", "pending"} /\ file' = file /\ n.kind = l.kind
    <3>1. CASE Preflight(p) BY <1>0, <1>e, <3>1 DEF Preflight, Local, disk
    <3>2. CASE DetachNext(p) /\ l.rest = {}
      BY <1>0, <3>2, GoKnows DEF DetachNext, disk
    <3>3. CASE DetachNext(p) /\ l.rest # {}
      <4>1. PICK c \in l.rest :
               loc' = [loc EXCEPT ![p].rest = @ \ {c}, ![p].cfg = c[1], ![p].att = row[c],
                          ![p].after = "read",
                          ![p].pc = IF row[c] = None THEN "next" ELSE "pending"]
        BY <3>3 DEF DetachNext
      <4>2. n.pc \in {"next", "pending"} /\ n.kind = l.kind BY <1>0, <4>1 DEF Local
      <4> QED BY <3>3, <4>2 DEF DetachNext, disk
    <3> QED BY <1>14, <3>1, <3>2, <3>3
  <2>2. l.kind = "close" BY <1>0, <1>14 DEF Preflight, DetachNext, At, Ready
  <2> QED BY <1>g, <2>1, <2>2 DEF Planned, Marked
<1>15. ~ Retire(p) BY <1>e DEF Retire
<1> QED BY <1>1a, <1>2a, <1>3, <1>4, <1>5, <1>6, <1>7, <1>8, <1>9, <1>10, <1>11, <1>12,
           <1>13, <1>14, <1>15
        DEF Step

\* The file and the rows change only under an operation that knows what it does.
LEMMA RecallsStep ==
    ASSUME OneCell, AgreeInv, NEW p \in Proc, Step(p), NEW cp \in Cell,
           Running(p) => Remembers(loc[p], cp), Recalls(cp)
    PROVE  Recalls(cp)'
<1> DEFINE l == loc[p]
<1>0. /\ l \in Local /\ Ready(l, l.pc)
      /\ file \in [Config -> Content] /\ row \in [Cell -> Attachment \cup {None}]
      /\ cp[1] \in Config
  BY TheCell DEF AgreeInv, RowsInv, RegistryInv, StructureInv, Presence, TypeOK
<1>1. Running(p) => /\ l.ws \in Workspace /\ l.cfg = cp[1] /\ CellOf(l) = cp
                    /\ PackageOf[l.ws] = cp[2]
                    /\ RowSafe(l) /\ Sees(l, cp) /\ Remembers(l, cp)
  BY RunningFacts
<1>2. CASE file' = file /\ row' = row BY <1>2 DEF Recalls, FileFits, Behind
<1>3. CASE Replace(p) /\ file' # file
  <2>0. l.pc = "replace" /\ Running(p) /\ l.op.cfg = cp[1] BY <1>0, <1>1, <1>3
    DEF Replace, At, Running, Ready, Publishing
  <2>1. file'[cp[1]] = l.op.new /\ row' = row BY <1>0, <1>3, <2>0 DEF Replace, database
  <2>2. l.kind = "attach" => row[cp] = None
    BY <1>1, <2>0 DEF RowSafe, Publishing
  <2>3. l.kind # "attach" => ByHumans(Lines(l.op.new))
    <3>1. l.kind # "attach" => l.op.kind = "detach"
      BY <1>0, <2>0 DEF Ready, Publishing
    <3> QED BY <1>1, <2>0, <3>1 DEF Sees, Planned, Shaped, Lines
  <2>4. ByHumans(Lines(l.op.new)) /\ row[cp] # None => ~ FileFits(cp)'
    <3>1. row[cp] # None => row[cp].id # 0 BY <1>0 DEF Attachment, Id
    <3> QED BY <2>1, <3>1 DEF FileFits, Fits, OneBlock, ByHumans
  <2> QED BY <2>1, <2>2, <2>3, <2>4 DEF Recalls
<1>4. CASE UnlinkEmpty(p) /\ file' # file
  <2>0. l.pc = "unlink" /\ Running(p) BY <1>4 DEF UnlinkEmpty, At, Running
  <2>1. file'[cp[1]] = NoFile /\ row' = row
    BY <1>0, <1>1, <1>4, <2>0 DEF UnlinkEmpty, database
  <2>2. row[cp] # None => ~ FileFits(cp)'
    <3>1. Lines(file'[cp[1]]) = <<>> BY <2>1 DEF Lines
    <3> QED BY <2>1, <3>1, EmptySeq DEF FileFits, Fits, OneBlock
  <2> QED BY <2>1, <2>2 DEF Recalls
<1>5. CASE CompleteAttachment(p) /\ row' # row
  <2> DEFINE new == [ws |-> l.ws, id |-> l.op.id, created |-> l.orig = NoFile, prior |-> l.seen]
  <2>0. l.pc = "complete" /\ Running(p) /\ l.op \in Operation
    BY <1>0, <1>5 DEF CompleteAttachment, At, Running, Ready, Publishing
  <2>1. /\ row' = [row EXCEPT ![cp] = IF l.kind = "attach" THEN new ELSE None]
        /\ file' = file
    BY <1>1, <1>5, <2>0 DEF CompleteAttachment, StepKind, CellOf, Pkg, disk
  <2>2. CASE l.kind # "attach"
    <3>1. row'[cp] = None BY <1>0, <2>1, <2>2
    <3> QED BY <3>1 DEF Recalls
  <2>3. CASE l.kind = "attach"
    <3>1. row'[cp] = new /\ new.id = l.op.id /\ new.ws = l.ws /\ new.prior = l.seen
      BY <1>0, <2>1, <2>3
    <3>2. file[cp[1]] = l.op.new BY <1>1, <2>0, <2>3 DEF Sees, Marked
    <3>3. Effective(Restored(l.op.new, l.op.id), cp[2]) = l.seen
      BY <1>1, <2>0, <2>3 DEF Remembers, Planned, Marked
    <3> HIDE DEF new
    <3>4. Behind(file'[cp[1]], row'[cp]) = row'[cp].prior
      BY <1>1, <2>0, <2>1, <3>1, <3>2, <3>3 DEF Behind
    <3> QED BY <3>4 DEF Recalls
  <2> QED BY <2>2, <2>3
<1>6. ~ Undo(p) BY <1>1 DEF Undo, At, Running, Remembers
<1>7. CASE Clean(p) \/ Stage(p) \/ Tidy(p)
  <2>1. file' = file /\ row' = row BY <1>7 DEF Clean, Stage, Tidy, database
  <2> QED BY <1>2, <2>1
<1> QED
  <2>1. /\ UNCHANGED disk \/ Undo(p) \/ Clean(p) \/ Stage(p) \/ Replace(p) \/ UnlinkEmpty(p)
                          \/ Tidy(p)
        /\ UNCHANGED row \/ CompleteAttachment(p)
    BY Frames
  <2>2. CASE Replace(p) \/ UnlinkEmpty(p)
    <3>1. row' = row BY <2>2 DEF Replace, UnlinkEmpty, database
    <3> QED BY <1>2, <1>3, <1>4, <2>2, <3>1
  <2>3. CASE UNCHANGED disk
    <3>1. file' = file BY <2>3 DEF disk
    <3> QED BY <1>2, <1>5, <2>1, <3>1
  <2> QED BY <1>6, <1>7, <2>1, <2>2, <2>3

LEMMA CalmStep == ASSUME OneCell, CalmInv, [Next]_vars PROVE CalmInv'
<1>0. /\ RowsInv /\ RowsInv' /\ crashes \in Nat
      /\ loc \in [Proc -> Local] /\ loc' \in [Proc -> Local]
      /\ journal' \in [Workspace -> Seq(Operation)]
  BY RowsStep, AttachmentAssumption
     DEF CalmInv, OneCell, RowsInv, RegistryInv, StructureInv, TypeOK
<1> SUFFICES ASSUME crashes' = 0 PROVE Calm' BY <1>0 DEF CalmInv
<1>1. ASSUME NEW p \in Proc PROVE ~ Crash(p) BY <1>0 DEF Crash
<1>2. crashes = 0
  <2>1. ASSUME NEW p \in Proc, BeginSome(p) \/ Step(p) PROVE crashes = 0
    BY <1>1, <2>1, Frames
  <2> QED BY <1>1, <2>1 DEF Next, Quiet, vars, counters
<1>3. Calm /\ AgreeInv /\ Tended /\ AgreeInv' BY <1>2, AgreeStep DEF CalmInv, Calm
<1>4. CASE UNCHANGED vars
  <2>1. UNCHANGED <<file, row, journal, loc>> BY <1>4 DEF vars, disk, database
  <2>2. Tended' BY <1>3, <2>1 DEF Tended, Live
  <2>3. ASSUME NEW cp \in Cell
        PROVE  Recalls(cp)' /\ \A q \in Proc : Running(q)' => Remembers(loc[q], cp)'
    BY <1>3, <2>1 DEF Calm, Recalls, FileFits, Behind, Running, Remembers
  <2> QED BY <1>3, <2>2, <2>3 DEF Calm
<1>5. ASSUME NEW p \in Proc, BeginSome(p) PROVE Calm'
  <2>b. ASSUME NEW kind, NEW w, NEW c, NEW pkg, NEW keys, Begin(p, kind, w, c, pkg, keys)
        PROVE  /\ loc[p].pc = "idle" /\ loc'[p].pc = "locking" /\ UNCHANGED <<disk, database>>
               /\ \A q \in Proc \ {p} : loc'[q] = loc[q]
    BY <1>0, <2>b DEF Begin, Idle, At
  <2>1. /\ loc[p].pc = "idle" /\ loc'[p].pc = "locking"
        /\ UNCHANGED <<file, row, journal>>
        /\ \A q \in Proc \ {p} : loc'[q] = loc[q]
    BY <1>5, <2>b DEF BeginSome, BeginAttach, BeginDetach, BeginClose, disk, database
  <2>2. Tended'
    <3>1. \A w \in Workspace : Live(w)' = Live(w) BY <2>1 DEF Live
    <3>2. ASSUME NEW q \in Proc, loc[q].pc \in Marked PROVE loc'[q] = loc[q]
      BY <2>1, <3>2 DEF Marked
    <3>3. \A w \in Workspace :
             Live(w) # {} => \E q \in Proc : loc'[q].pc \in Marked /\ loc'[q].ws = w
      BY <1>3, <3>2 DEF Tended
    <3> QED BY <3>1, <3>3 DEF Tended
  <2>3. ASSUME NEW cp \in Cell
        PROVE  Recalls(cp)' /\ \A q \in Proc : Running(q)' => Remembers(loc[q], cp)'
    <3>1. Recalls(cp)' BY <1>3, <2>1 DEF Calm, Recalls, FileFits, Behind
    <3>2. ASSUME NEW q \in Proc, Running(q)' PROVE Remembers(loc[q], cp)'
      <4>1. loc'[q] = loc[q] BY <2>1, <3>2 DEF Running
      <4>2. Remembers(loc[q], cp) BY <1>3, <3>2, <4>1 DEF Calm, Running
      <4> QED BY <2>1, <4>1, <4>2 DEF Remembers
    <3> QED BY <3>1, <3>2
  <2> QED BY <1>3, <2>2, <2>3 DEF Calm
<1>6. ASSUME NEW p \in Proc, Step(p) PROVE Calm'
  <2>1. ASSUME NEW cp \in Cell
        PROVE  /\ Running(p) => Remembers(loc[p], cp)
               /\ Recalls(cp)
    BY <1>3 DEF Calm
  <2>2. Tended'
    <3>1. ASSUME NEW w \in Workspace, NEW op \in Live(w)'
          PROVE  loc'[p].pc \in Marked /\ loc'[p].ws = w
      <4>1. op \in Operation BY <1>0, RangeType DEF Live
      <4>2. <<op.cfg, PackageOf[w]>> \in Cell
        BY <4>1, AttachmentAssumption DEF Operation, Cell
      <4> QED BY <1>3, <1>6, <2>1, <4>2, TendedStep
    <3> QED BY <3>1 DEF Tended
  <2>3. ASSUME NEW cp \in Cell
        PROVE  Recalls(cp)' /\ \A q \in Proc : Running(q)' => Remembers(loc[q], cp)'
    <3>1. Recalls(cp)' BY <1>3, <1>6, <2>1, RecallsStep
    <3>2. Running(p)' => Remembers(loc[p], cp)' BY <1>3, <1>6, <2>1, RemembersStep
    <3>3. \A q \in Proc \ {p} : ~ Running(q)' BY <1>0, <1>6, StepAlone DEF Running
    <3> QED BY <3>1, <3>2, <3>3
  <2> QED BY <1>3, <2>2, <2>3 DEF Calm
<1> QED BY <1>1, <1>4, <1>5, <1>6 DEF Next, Quiet

LEMMA CalmInit == ASSUME Init PROVE CalmInv
<1>1. RowsInv /\ AgreeInv BY RowsInit, AgreeInit
<1>2. /\ \A q \in Proc : ~ Running(q)
      /\ \A w \in Workspace : Live(w) = {}
      /\ \A cp \in Cell : row[cp] = None
  BY EmptySeq DEF Init, Idle, Running, Range, Live
<1> QED BY <1>1, <1>2 DEF CalmInv, Calm, Tended, Recalls

\* With one package of one configuration, and as long as nobody was killed, the
\* value recorded when a workspace was attached is what the package gets when
\* its block is taken out, at rest: whatever attached, detached and closed in
\* between, and however they overlapped.  An operation's own publication thus
\* never fails its check, and never has to be rolled back.
THEOREM DetachRestores ==
    ASSUME OneCell
    PROVE  Spec => []DetachWouldRestore
<1>1. ASSUME CalmInv PROVE DetachWouldRestore
  <2> SUFFICES ASSUME AllIdle, crashes = 0, NEW cp \in DOMAIN row, row[cp] # None
               PROVE  Effective(Restored(file[cp[1]], row[cp].id), cp[2]) = row[cp].prior
    BY DEF DetachWouldRestore
  <2>1. Calm /\ RowsInv BY <1>1 DEF CalmInv
  <2>2. cp \in Cell BY <2>1 DEF RowsInv, RegistryInv, StructureInv, TypeOK
  <2>3. FileFits(cp)
    <3>1. \A q \in Proc : loc[q].pc = "idle" BY DEF AllIdle, At
    <3>2. \A w \in Workspace : Live(w) = {} BY <2>1, <3>1 DEF Calm, Tended, Marked
    <3>3. ~ Answered(cp) BY <3>2 DEF Answered
    <3> QED BY <2>1, <2>2, <3>1, <3>3 DEF Calm, AgreeInv, Accounted, At
  <2>4. row[cp].ws \in Workspace /\ PackageOf[row[cp].ws] = cp[2]
    BY <2>1, <2>2, TheCell DEF Attachment
  <2> QED BY <2>1, <2>2, <2>3, <2>4 DEF Calm, Recalls, Behind
<1> QED BY <1>1, CalmInit, CalmStep, PTL DEF Spec
=============================================================================
