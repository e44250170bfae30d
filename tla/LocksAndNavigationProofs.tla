---------------------- MODULE LocksAndNavigationProofs ----------------------
(***************************************************************************)
(* Proofs about two components that share no state: OperationLocks, for any *)
(* set of invocations, any number of lock files and any family of key sets, *)
(* and CodeNavigation, for any sources, histories, page sizes and limits    *)
(* and any number of changes of the index.                                  *)
(***************************************************************************)
EXTENDS OperationLocks, CodeNavigation, FiniteSetTheorems, SequenceTheorems,
        WellFoundedInduction, TLAPS

\* A non-empty set of numbers bounded by n has a greatest element.
LEMMA GreatestExists ==
    ASSUME NEW n \in Nat, NEW T \in SUBSET (0 .. n), T # {}
    PROVE  \E m \in T : \A j \in T : j <= m
<1> DEFINE U == {n - m : m \in T}
<1>1. U \subseteq Nat /\ U # {}
  <2>1. ASSUME NEW m \in T
        PROVE  n - m \in Nat
    <3>1. m \in Int /\ 0 <= m /\ m <= n
      OBVIOUS
    <3>2. QED
      BY <3>1
  <2>2. U \subseteq Nat
    BY <2>1
  <2>3. PICK m \in T : TRUE
    OBVIOUS
  <2>4. n - m \in U
    BY <2>3
  <2>5. QED
    BY <2>2, <2>4
<1>2. PICK u \in U : \A v \in U : ~ (<<v, u>> \in OpToRel(<, Nat))
  BY <1>1, NatLessThanWellFounded, WFMin, Zenon
<1>3. PICK m \in T : u = n - m
  OBVIOUS
<1>4. ASSUME NEW j \in T
      PROVE  j <= m
  <2>1. n - j \in U /\ n - j \in Nat /\ u \in Nat
    BY <1>1
  <2>2. ~ (n - j < u)
    BY <1>2, <2>1 DEF OpToRel
  <2>3. QED
    BY <1>3, <2>2
<1>5. QED
  BY <1>4

-----------------------------------------------------------------------------
(* Operation locks *)

\* Taking the next key adds a key nobody else holds and that lies above all
\* keys already held: an acquisition keeps the locks exclusive and ordered.
LEMMA AcquireKeepsOrder ==
    ASSUME NEW o \in Op, LocksInv, Acquire(o)
    PROVE  Exclusive' /\ HoldsWhatItNamed' /\ AcquiresUpwards'
<1>1. PICK k \in Key : /\ IsNext(o, k)
                       /\ Free(k)
                       /\ held' = [held EXCEPT ![o] = @ \cup {k}]
  BY DEF Acquire
<1>2. Exclusive'
  BY <1>1 DEF LocksInv, TypeOK, Exclusive, Free
<1>3. HoldsWhatItNamed'
  BY <1>1 DEF LocksInv, TypeOK, HoldsWhatItNamed, IsNext, Acquire
<1>4. AcquiresUpwards'
  <2> SUFFICES ASSUME NEW p \in Op, pc'[p] = "acquiring",
                      NEW j \in held'[p], NEW m \in wanted'[p] \ held'[p]
               PROVE  j < m
    BY DEF AcquiresUpwards
  <2>1. CASE p # o
    BY <1>1, <2>1 DEF LocksInv, TypeOK, AcquiresUpwards, Acquire
  <2>2. CASE p = o
    <3>1. m \in wanted[o] \ held[o] /\ m # k /\ k <= m
      BY <1>1, <2>2 DEF LocksInv, TypeOK, IsNext, Acquire
    <3>2. k \in Nat /\ m \in Nat
      BY <3>1, LocksAssumption DEF LocksInv, TypeOK, Key
    <3>3. CASE j = k
      BY <3>1, <3>2, <3>3
    <3>4. CASE j \in held[o]
      BY <2>2, <3>1, <3>4 DEF LocksInv, AcquiresUpwards, Acquire
    <3>5. QED
      BY <1>1, <2>2, <3>3, <3>4 DEF LocksInv, TypeOK
  <2>3. QED
    BY <2>1, <2>2
<1>5. QED
  BY <1>2, <1>3, <1>4

\* LocksInv, the inductive invariant, holds of every reachable state: types,
\* one holder per lock, and the ascending order of acquisition.
THEOREM LocksInvariant == LockSpec => []LocksInv
<1>1. LockInit => LocksInv
  BY DEF LockInit, LocksInv, TypeOK, Phase, Exclusive, HoldsWhatItNamed,
         HeldWhenInside, AcquiresUpwards, IdleHoldsNothing
<1>2. LocksInv /\ [LockNext]_lockVars => LocksInv'
  <2> SUFFICES ASSUME LocksInv, [LockNext]_lockVars
               PROVE  LocksInv'
    OBVIOUS
  <2> USE DEF LocksInv, TypeOK, Phase
  <2>1. ASSUME NEW o \in Op, Request(o)
        PROVE  LocksInv'
    BY <2>1, LocksAssumption
       DEF Request, Exclusive, HoldsWhatItNamed, HeldWhenInside,
           AcquiresUpwards, IdleHoldsNothing
  <2>2. ASSUME NEW o \in Op, Acquire(o)
        PROVE  LocksInv'
    <3>1. TypeOK'
      BY <2>2 DEF Acquire
    <3>2. HeldWhenInside' /\ IdleHoldsNothing'
      BY <2>2 DEF Acquire, HeldWhenInside, IdleHoldsNothing
    <3>3. QED
      BY <2>2, <3>1, <3>2, AcquireKeepsOrder
  <2>3. ASSUME NEW o \in Op, Enter(o)
        PROVE  LocksInv'
    BY <2>3 DEF Enter, Exclusive, HoldsWhatItNamed, HeldWhenInside,
                AcquiresUpwards, IdleHoldsNothing
  <2>4. ASSUME NEW o \in Op, AbortAcquire(o)
        PROVE  LocksInv'
    BY <2>4 DEF AbortAcquire, Exclusive, HoldsWhatItNamed, HeldWhenInside,
                AcquiresUpwards, IdleHoldsNothing
  <2>5. ASSUME NEW o \in Op, Leave(o)
        PROVE  LocksInv'
    BY <2>5 DEF Leave, Exclusive, HoldsWhatItNamed, HeldWhenInside,
                AcquiresUpwards, IdleHoldsNothing
  <2>6. ASSUME NEW o \in Op, Release(o)
        PROVE  LocksInv'
    BY <2>6 DEF Release, Exclusive, HoldsWhatItNamed, HeldWhenInside,
                AcquiresUpwards, IdleHoldsNothing
  <2>7. ASSUME NEW o \in Op, Crash(o)
        PROVE  LocksInv'
    BY <2>7 DEF Crash, Exclusive, HoldsWhatItNamed, HeldWhenInside,
                AcquiresUpwards, IdleHoldsNothing
  <2>8. CASE UNCHANGED lockVars
    BY <2>8 DEF lockVars, Exclusive, HoldsWhatItNamed, HeldWhenInside,
                AcquiresUpwards, IdleHoldsNothing
  <2>9. QED
    BY <2>1, <2>2, <2>3, <2>4, <2>5, <2>6, <2>7, <2>8 DEF LockNext, Finished
<1>3. QED
  BY <1>1, <1>2, PTL DEF LockSpec

\* The bodies of two operations that share a key never run together,
\* whatever the operations and however others fail or crash.
THEOREM BodiesExclude == LockSpec => []MutualExclusion
<1>1. LocksInv => MutualExclusion
  BY DEF LocksInv, MutualExclusion, HeldWhenInside, Exclusive
<1>2. QED
  BY <1>1, LocksInvariant, PTL

\* An operation that is over holds no lock.
THEOREM LocksDropped == LockSpec => []NothingLeftLocked
<1>1. LocksInv => NothingLeftLocked
  BY DEF LocksInv, NothingLeftLocked, IdleHoldsNothing
<1>2. QED
  BY <1>1, LocksInvariant, PTL

-----------------------------------------------------------------------------

\* Waiting goes upwards: if o waits for q and q waits for r, then the key q
\* misses is greater than the key o misses.
LEMMA WaitingGoesUp ==
    ASSUME LocksInv, NEW o \in Op, NEW q \in Op,
           NEW k \in Key, IsNext(o, k), k \in held[q],
           pc[q] = "acquiring", NEW m \in Key, IsNext(q, m)
    PROVE  k < m
BY DEF LocksInv, AcquiresUpwards, IsNext

\* No set of operations, of any size, can be waiting for one another.
THEOREM DeadlockFree == LockSpec => []NoWaitCycle
<1>1. LocksInv => NoWaitCycle
  <2> SUFFICES ASSUME LocksInv, NEW S \in SUBSET Op, S # {},
                      \A o \in S : \E q \in S : WaitsFor(o, q)
               PROVE  FALSE
    BY DEF NoWaitCycle
  <2> DEFINE T == {k \in Key : \E o \in S : IsNext(o, k)}
  <2>1. T \in SUBSET (0 .. NKeys) /\ T # {}
    BY LocksAssumption DEF WaitsFor, Key
  <2>2. PICK k \in T : \A j \in T : j <= k
    BY <2>1, LocksAssumption, GreatestExists, Zenon
  <2>3. PICK o \in S : IsNext(o, k)
    OBVIOUS
  <2>4. PICK q \in S : WaitsFor(o, q)
    OBVIOUS
  <2>5. k \in held[q]
    <3>1. PICK j \in Key : IsNext(o, j) /\ j \in held[q]
      BY <2>4 DEF WaitsFor
    <3>2. j = k
      BY <2>3, <3>1, LocksAssumption DEF IsNext, Key
    <3>3. QED
      BY <3>1, <3>2
  <2>6. PICK r \in S : WaitsFor(q, r)
    OBVIOUS
  <2>7. PICK m \in Key : IsNext(q, m)
    BY <2>6 DEF WaitsFor
  <2>8. k < m
    BY <2>3, <2>5, <2>6, <2>7, WaitingGoesUp DEF WaitsFor
  <2>9. m <= k
    BY <2>2, <2>7
  <2>10. QED
    BY <2>8, <2>9, LocksAssumption DEF Key
<1>2. QED
  BY <1>1, LocksInvariant, PTL

-----------------------------------------------------------------------------
(* Code navigation: what is in the index *)

\* Tags are numbered, and are of definitions of their blob.
TagsTyped ==
    /\ content \in [Blob -> Sources] /\ history \in Histories
    /\ \E n \in Nat : DOMAIN tags \subseteq 1..n
    /\ \A t \in DOMAIN tags :
          tags[t].blob \in Blob /\ tags[t].def \in DOMAIN content[tags[t].blob].defs

\* What a search sorts by is a pair of numbers.
LEMMA OrderedTags ==
    ASSUME TagsTyped, NEW s \in DOMAIN tags
    PROVE  s \in Nat \ {0} /\ Def(s).name \in Symbols /\ Def(s).name \in Nat
           /\ Cursor(s) \in Nat \X Nat
<1>1. s \in Nat \ {0} BY DEF TagsTyped
<1>2. content[tags[s].blob] \in Sources BY DEF TagsTyped
<1>3. Def(s).name \in Symbols BY <1>2, CodeNavigationAssumption DEF TagsTyped, Def
<1>4. Def(s).name \in Nat BY <1>3, CodeNavigationAssumption
<1> QED BY <1>1, <1>3, <1>4 DEF Cursor

\* The order of a search is total.
LEMMA OrderedTotal ==
    ASSUME NEW a \in Nat \X Nat, NEW b \in Nat \X Nat, NEW c \in Nat \X Nat
    PROVE  /\ ~ Ordered(a, a)
           /\ Ordered(a, b) /\ Ordered(b, c) => Ordered(a, c)
           /\ Ordered(a, b) \/ Ordered(b, a) \/ a = b
<1>1. a = <<a[1], a[2]>> /\ b = <<b[1], b[2]>> OBVIOUS
<1>2. a[1] \in Nat /\ a[2] \in Nat /\ b[1] \in Nat /\ b[2] \in Nat /\ c[1] \in Nat /\ c[2] \in Nat
  OBVIOUS
<1> QED BY <1>1, <1>2 DEF Ordered

InSearchOrder(S) == InOrder(S, LAMBDA s, t : Ordered(Cursor(s), Cursor(t)))

\* The matches of a search in its order: all of them, each at its rank.
LEMMA SearchOrder ==
    ASSUME TagsTyped, NEW S \in SUBSET DOMAIN tags
    PROVE  \E n \in Nat :
              /\ InSearchOrder(S) \in [1..n -> S]
              /\ \A i, j \in 1..n : i < j =>
                    Ordered(Cursor(InSearchOrder(S)[i]), Cursor(InSearchOrder(S)[j]))
              /\ \A t \in S : \E i \in 1..n : InSearchOrder(S)[i] = t
<1> DEFINE found == InSearchOrder(S)
           n == Cardinality(S)
           Below(x) == {y \in S : Ordered(Cursor(y), Cursor(x))}
           Rank == [x \in S |-> Cardinality(Below(x))]
<1>1. \A x \in S : Cursor(x) \in Nat \X Nat BY OrderedTags
<1>2. \A x, y \in S : Cursor(x) = Cursor(y) => x = y BY DEF Cursor
<1>3. IsFiniteSet(S)
  <2>1. PICK k \in Nat : DOMAIN tags \subseteq 1..k BY DEF TagsTyped
  <2>2. IsFiniteSet(1..k) BY <2>1, FS_Interval
  <2> QED BY <2>1, <2>2, FS_Subset
<1>4. n \in Nat BY <1>3, FS_CardinalityType
<1>5. ASSUME NEW x \in S PROVE IsFiniteSet(Below(x)) /\ Cardinality(Below(x)) \in 0..(n - 1)
  <2>1. Below(x) \in SUBSET S OBVIOUS
  <2>2. x \notin Below(x) BY <1>1, OrderedTotal
  <2>3. /\ IsFiniteSet(Below(x)) /\ Cardinality(Below(x)) <= n
        /\ n = Cardinality(Below(x)) => S = Below(x)
    BY <1>3, <2>1, FS_Subset
  <2>4. Cardinality(Below(x)) \in Nat BY <2>3, FS_CardinalityType
  <2> QED BY <1>4, <2>2, <2>3, <2>4
<1>6. ASSUME NEW x \in S, NEW y \in S, Ordered(Cursor(x), Cursor(y))
      PROVE  Cardinality(Below(x)) < Cardinality(Below(y))
  <2>1. Below(x) \in SUBSET Below(y) BY <1>1, <1>6, OrderedTotal
  <2>2. x \in Below(y) \ Below(x) BY <1>1, <1>6, OrderedTotal
  <2>3. /\ Cardinality(Below(x)) <= Cardinality(Below(y))
        /\ Cardinality(Below(y)) = Cardinality(Below(x)) => Below(y) = Below(x)
    BY <1>5, <2>1, FS_Subset
  <2>4. Cardinality(Below(x)) # Cardinality(Below(y)) BY <2>2, <2>3
  <2>5. Cardinality(Below(x)) \in Int /\ Cardinality(Below(y)) \in Int BY <1>5
  <2> QED BY <2>3, <2>4, <2>5
<1> HIDE DEF Below
<1>7. Rank \in [S -> 0..(n - 1)] BY <1>5
<1>8. \A x, y \in S : Rank[x] = Rank[y] => x = y
  <2>1. SUFFICES ASSUME NEW x \in S, NEW y \in S, Rank[x] = Rank[y] PROVE x = y
    OBVIOUS
  <2>2. Cardinality(Below(x)) = Cardinality(Below(y)) BY <2>1
  <2>3. ~ Ordered(Cursor(x), Cursor(y)) /\ ~ Ordered(Cursor(y), Cursor(x))
    BY <1>5, <1>6, <2>2
  <2> QED BY <1>1, <1>2, <2>3, OrderedTotal
<1>9. \A i \in 1..n : \E x \in S : Rank[x] = i - 1
  <2>1. Rank \in Injection(S, 0..(n - 1)) BY <1>7, <1>8 DEF Injection, IsInjective
  <2>2. IsFiniteSet(0..(n - 1)) /\ Cardinality(0..(n - 1)) = n BY <1>4, FS_Interval
  <2>3. Rank \in Surjection(S, 0..(n - 1)) BY <1>4, <2>1, <2>2, FS_Injection
  <2>4. \A k \in 0..(n - 1) : \E x \in S : Rank[x] = k BY <2>3 DEF Surjection
  <2>5. \A i \in 1..n : i - 1 \in 0..(n - 1) BY <1>4
  <2> QED BY <2>4, <2>5
<1>10. found = [i \in 1..n |-> CHOOSE x \in S : Cardinality(Below(x)) = i - 1]
  BY DEF InSearchOrder, InOrder, Below
<1>11. ASSUME NEW i \in 1..n PROVE found[i] \in S /\ Cardinality(Below(found[i])) = i - 1
  <2>1. \E x \in S : Cardinality(Below(x)) = i - 1 BY <1>9
  <2>2. found[i] = CHOOSE x \in S : Cardinality(Below(x)) = i - 1 BY <1>10
  <2> QED BY <2>1, <2>2
<1>12. found \in [1..n -> S] BY <1>10, <1>11
<1> HIDE DEF found
<1>13. ASSUME NEW i \in 1..n, NEW j \in 1..n, i < j
       PROVE  Ordered(Cursor(found[i]), Cursor(found[j]))
  <2>1. found[i] \in S /\ found[j] \in S BY <1>11
  <2>2. Cardinality(Below(found[i])) = i - 1 /\ Cardinality(Below(found[j])) = j - 1 BY <1>11
  <2>3. found[i] # found[j] /\ ~ Ordered(Cursor(found[j]), Cursor(found[i]))
    BY <1>4, <1>6, <1>13, <2>1, <2>2
  <2> QED BY <1>1, <1>2, <2>1, <2>3, OrderedTotal
<1>14. ASSUME NEW t \in S PROVE \E i \in 1..n : found[i] = t
  <2> DEFINE i == Cardinality(Below(t)) + 1
  <2>1. i \in 1..n BY <1>4, <1>5
  <2>2. Cardinality(Below(found[i])) = Cardinality(Below(t)) /\ found[i] \in S
    BY <1>5, <1>11, <2>1
  <2>3. found[i] = t BY <1>8, <2>2
  <2> QED BY <2>1, <2>3
<1> QED BY <1>4, <1>12, <1>13, <1>14 DEF found

\* A page: the first matches after the cursor, and what they leave.
LEMMA SearchPage ==
    ASSUME TagsTyped, NEW S \in SUBSET DOMAIN tags, NEW cursor, NEW limit \in Nat
    PROVE  LET A == {t \in S : After(Cursor(t), cursor)}
               page == Search(S, cursor, limit)
               k == Len(page.results)
           IN  /\ page.results \in Seq(A) /\ page.truncated \in BOOLEAN
               /\ \A i, j \in 1..k : i < j =>
                     Ordered(Cursor(page.results[i]), Cursor(page.results[j]))
               /\ page.truncated => k = limit
               /\ \A t \in A :
                     \/ \E i \in 1..k : page.results[i] = t
                     \/ /\ page.truncated
                        /\ \A i \in 1..k : Ordered(Cursor(page.results[i]), Cursor(t))
<1> DEFINE A == {t \in S : After(Cursor(t), cursor)}
           found == InSearchOrder(A)
           page == Search(S, cursor, limit)
           results == page.results
<1>1. PICK n \in Nat :
         /\ found \in [1..n -> A]
         /\ \A i, j \in 1..n : i < j => Ordered(Cursor(found[i]), Cursor(found[j]))
         /\ \A t \in A : \E i \in 1..n : found[i] = t
  <2>1. A \in SUBSET DOMAIN tags OBVIOUS
  <2> HIDE DEF A
  <2> QED BY <2>1, SearchOrder
<1>2. page = [results |-> SubSeq(found, 1, Min({limit, Len(found)})),
              truncated |-> Len(found) > limit]
  BY DEF Search, InSearchOrder
<1> HIDE DEF A, found, page
<1>3. found \in Seq(A) /\ Len(found) = n BY <1>1
<1>4. PICK m \in Nat : m = (IF limit <= n THEN limit ELSE n) OBVIOUS
<1>5. Min({limit, n}) = m BY <1>4 DEF Min
<1>6. results = SubSeq(found, 1, m) /\ page.truncated = (n > limit)
  BY <1>2, <1>3, <1>5
<1>7. /\ results \in Seq(A) /\ Len(results) = m
      /\ \A i \in 1..m : results[i] = found[i]
  BY <1>3, <1>4, <1>6
<1>8. \A i, j \in 1..m : i < j => Ordered(Cursor(results[i]), Cursor(results[j]))
  BY <1>1, <1>4, <1>7
<1>9. page.truncated => m = limit
  <2>1. page.truncated => n > limit BY <1>6
  <2>2. n > limit => m = limit BY <1>4
  <2> QED BY <2>1, <2>2
<1>10. ASSUME NEW t \in A, \A i \in 1..m : results[i] # t
       PROVE  page.truncated /\ \A i \in 1..m : Ordered(Cursor(results[i]), Cursor(t))
  <2>1. PICK j \in 1..n : found[j] = t BY <1>1
  <2>2. ~ (j \in 1..m) BY <1>7, <1>10, <2>1
  <2>3. m < j /\ m = limit /\ n > limit BY <1>4, <2>1, <2>2
  <2>4. \A i \in 1..m : results[i] = found[i] /\ i < j /\ i \in 1..n BY <1>7, <2>3
  <2> QED BY <1>1, <1>6, <2>1, <2>3, <2>4
<1>11. page.truncated \in BOOLEAN BY <1>6
<1> QED BY <1>7, <1>8, <1>9, <1>10, <1>11 DEF A, page

-----------------------------------------------------------------------------
(* What storing and forgetting leave as it was *)

\* Tags either stay as they are or go; new ones have other ids.
TagsChange(b) ==
    /\ content' = content /\ history' = history
    /\ DOMAIN tags \ TagsOf(b) \subseteq DOMAIN tags'
    /\ \A t \in DOMAIN tags \ TagsOf(b) : tags'[t] = tags[t]
    /\ Disturbed(b)

\* Storing and forgetting a blob are such changes.
LEMMA TagsAfter ==
    ASSUME TagsTyped, NEW b \in Blob, Analyse(b) \/ Forget(b)
    PROVE  TagsTyped' /\ TagsChange(b)
<1> DEFINE kept == Restrict(tags, DOMAIN tags \ TagsOf(b))
<1>1. /\ content' = content /\ history' = history /\ Disturbed(b)
      /\ content' \in [Blob -> Sources] /\ history' \in Histories
  BY DEF TagsTyped, Analyse, Forget
<1>2. kept = [t \in DOMAIN tags \ TagsOf(b) |-> tags[t]] BY DEF Restrict
<1>3. PICK n \in Nat : DOMAIN tags \subseteq 1..n BY DEF TagsTyped
<1>4. CASE Forget(b)
  <2>1. tags' = kept BY <1>4 DEF Forget
  <2>2. TagsChange(b) BY <1>1, <1>2, <2>1 DEF TagsChange
  <2>3. DOMAIN tags' \subseteq 1..n BY <1>2, <1>3, <2>1
  <2>4. \A t \in DOMAIN tags' :
           tags'[t].blob \in Blob /\ tags'[t].def \in DOMAIN content[tags'[t].blob].defs
    BY <1>2, <2>1 DEF TagsTyped
  <2> QED BY <1>1, <2>2, <2>3, <2>4 DEF TagsTyped
<1>5. CASE Analyse(b)
  <2> DEFINE next == Max(DOMAIN kept \cup {0})
             defs == content[b].defs
             Id(i) == IF i = None THEN None ELSE next + i
             new(t) == [blob |-> b, def |-> t - next,
                        enclosing |-> Id(Enclosing(content[b], t - next))]
  <2>1. tags' = [t \in DOMAIN kept \cup {next + i : i \in DOMAIN defs} |->
                    IF t \in DOMAIN kept THEN kept[t] ELSE new(t)]
    BY <1>5 DEF Analyse
  <2>2. next \in 0..n /\ \A t \in DOMAIN kept : t <= next
    <3> DEFINE T == DOMAIN kept \cup {0}
    <3>1. T \in SUBSET (0..n) /\ T # {} BY <1>2, <1>3
    <3>2. PICK m \in T : \A j \in T : j <= m BY <3>1, GreatestExists, Zenon
    <3>3. T \subseteq Nat BY <3>1
    <3> HIDE DEF T
    <3>4. \E x \in T : \A y \in T : x >= y BY <3>2, <3>3
    <3>5. Max(T) \in T /\ \A y \in T : Max(T) >= y BY <3>4 DEF Max
    <3>6. DOMAIN kept \subseteq T BY DEF T
    <3>7. next = Max(T) BY DEF T
    <3> HIDE DEF next
    <3> QED BY <3>1, <3>3, <3>5, <3>6, <3>7
  <2>3. defs \in Seq({defs[i] : i \in DOMAIN defs})
    <3>1. content[b] \in Sources BY DEF TagsTyped
    <3> QED BY <3>1, CodeNavigationAssumption
  <2>4. PICK k \in Nat : DOMAIN defs = 1..k BY <2>3
  <2> HIDE DEF next, defs, kept, Id
  <2>5. DOMAIN tags' = DOMAIN kept \cup {next + i : i \in 1..k} BY <2>1, <2>4
  <2>6. DOMAIN tags' \subseteq 1..(n + k) /\ n + k \in Nat
    <3>1. DOMAIN kept \subseteq 1..n BY <1>2, <1>3
    <3>2. \A i \in 1..k : next + i \in 1..(n + k) BY <2>2, <2>4
    <3> QED BY <1>3, <2>4, <2>5, <3>1, <3>2
  <2>7. \A t \in DOMAIN kept : tags'[t] = tags[t] /\ t \in DOMAIN tags'
    BY <1>2, <2>1
  <2>8. ASSUME NEW t \in DOMAIN tags' \ DOMAIN kept
        PROVE  tags'[t].blob = b /\ tags'[t].def \in DOMAIN defs
    <3>1. PICK i \in 1..k : t = next + i BY <2>5, <2>8
    <3>2. tags'[t] = new(t) BY <2>1, <2>8
    <3>3. t - next = i BY <2>2, <2>4, <3>1
    <3> QED BY <2>4, <3>2, <3>3
  <2>9. \A t \in DOMAIN tags' :
           tags'[t].blob \in Blob /\ tags'[t].def \in DOMAIN content[tags'[t].blob].defs
    <3>1. SUFFICES ASSUME NEW t \in DOMAIN tags'
                   PROVE  /\ tags'[t].blob \in Blob
                          /\ tags'[t].def \in DOMAIN content[tags'[t].blob].defs
      OBVIOUS
    <3>2. CASE t \in DOMAIN kept BY <1>2, <2>7, <3>2 DEF TagsTyped
    <3>3. CASE t \notin DOMAIN kept BY <2>8, <3>3 DEF defs
    <3> QED BY <3>2, <3>3
  <2>10. TagsChange(b) BY <1>1, <1>2, <2>7 DEF TagsChange
  <2> QED BY <1>1, <2>6, <2>9, <2>10 DEF TagsTyped
<1> QED BY <1>4, <1>5

-----------------------------------------------------------------------------
(* Searching page by page *)

Searching ==
    [op : {"search"}, names : SUBSET Symbols, cursor : (Nat \X Nat) \cup {None},
     seen : Seq(Nat \X Nat), had : SUBSET DOMAIN tags, alone : BOOLEAN, done : BOOLEAN]

\* What was there from the beginning is listed or comes after the cursor, which
\* is the last that is listed.
Paging ==
    /\ client \in Searching
    /\ \A i, j \in 1..Len(client.seen) : i < j => Ordered(client.seen[i], client.seen[j])
    /\ ~ client.done =>
          client.cursor = IF client.seen = <<>> THEN None ELSE client.seen[Len(client.seen)]
    /\ \A t \in client.had :
          /\ Def(t).name \in client.names
          /\ \/ Cursor(t) \in Range_(client.seen)
             \/ ~ client.done /\ After(Cursor(t), client.cursor)

PagesInv == TagsTyped /\ (client.op = "search" => Paging)

\* A page more keeps what is listed ordered and the rest after the cursor.
LEMMA NextPagePaging ==
    ASSUME PagesInv, NEW limit \in Limits, NextPage(limit)
    PROVE  Paging'
<1> DEFINE c == client.cursor
           seen == client.seen
           M == {t \in DOMAIN tags : Def(t).name \in client.names}
           A == {t \in M : After(Cursor(t), c)}
           page == Search(M, c, limit)
           results == page.results
           k == Len(results)
           shown == [i \in DOMAIN results |-> Cursor(results[i])]
           cursor == IF page.truncated THEN Cursor(results[k]) ELSE None
<1>1. /\ TagsTyped /\ client \in Searching /\ ~ client.done
      /\ \A i, j \in 1..Len(seen) : i < j => Ordered(seen[i], seen[j])
      /\ c = IF seen = <<>> THEN None ELSE seen[Len(seen)]
      /\ \A t \in client.had : /\ Def(t).name \in client.names
                               /\ Cursor(t) \in Range_(seen) \/ After(Cursor(t), c)
      /\ limit \in Nat \ {0}
  BY CodeNavigationAssumption DEF PagesInv, Paging, NextPage
<1>2. client' = [client EXCEPT !.seen = @ \o shown, !.cursor = cursor,
                               !.done = ~ page.truncated]
  BY DEF NextPage
<1>3. /\ results \in Seq(A) /\ page.truncated \in BOOLEAN
      /\ \A i, j \in 1..k : i < j => Ordered(Cursor(results[i]), Cursor(results[j]))
      /\ page.truncated => k = limit
      /\ \A t \in A :
            \/ \E i \in 1..k : results[i] = t
            \/ page.truncated /\ \A i \in 1..k : Ordered(Cursor(results[i]), Cursor(t))
  <2>1. M \in SUBSET DOMAIN tags OBVIOUS
  <2>2. limit \in Nat BY <1>1
  <2>3. TagsTyped BY <1>1
  <2> HIDE DEF M
  <2>4. LET B == {t \in M : After(Cursor(t), c)}
            p == Search(M, c, limit)
            n == Len(p.results)
        IN  /\ p.results \in Seq(B) /\ p.truncated \in BOOLEAN
            /\ \A i, j \in 1..n : i < j => Ordered(Cursor(p.results[i]), Cursor(p.results[j]))
            /\ p.truncated => n = limit
            /\ \A t \in B :
                  \/ \E i \in 1..n : p.results[i] = t
                  \/ /\ p.truncated
                     /\ \A i \in 1..n : Ordered(Cursor(p.results[i]), Cursor(t))
    <3> HIDE DEF c
    <3> QED BY <2>1, <2>2, <2>3, SearchPage, Zenon
  <2> QED BY <2>4
<1>4. tags' = tags /\ content' = content BY DEF NextPage
<1>5. \A t \in DOMAIN tags : Cursor(t) \in Nat \X Nat BY <1>1, OrderedTags
<1>6. \A i \in 1..k : results[i] \in A /\ results[i] \in DOMAIN tags BY <1>3
<1>7. \A i \in 1..k : After(Cursor(results[i]), c) BY <1>6
<1> HIDE DEF A, page
<1>8. shown \in Seq(Nat \X Nat) /\ Len(shown) = k
      /\ \A i \in 1..k : shown[i] = Cursor(results[i])
  <2>1. DOMAIN results = 1..k /\ k \in Nat BY <1>3
  <2> QED BY <1>5, <1>6, <2>1
<1>9. /\ client'.seen = seen \o shown /\ client'.cursor = cursor
      /\ client'.done = ~ page.truncated
      /\ client'.names = client.names /\ client'.had = client.had
      /\ client'.op = "search" /\ client'.alone = client.alone
  BY <1>1, <1>2 DEF Searching
<1>10. page.truncated => k \in 1..k /\ k # 0 BY <1>1, <1>3
<1>11. cursor \in (Nat \X Nat) \cup {None} BY <1>5, <1>6, <1>10
<1>12. seen \in Seq(Nat \X Nat) BY <1>1 DEF Searching
<1> DEFINE all == seen \o shown
<1>13. /\ all \in Seq(Nat \X Nat) /\ Len(all) = Len(seen) + k /\ Len(seen) \in Nat /\ k \in Nat
       /\ \A i \in 1..Len(seen) : all[i] = seen[i]
       /\ \A i \in (Len(seen) + 1)..(Len(seen) + k) : all[i] = Cursor(results[i - Len(seen)])
  <2>1. k \in Nat BY <1>3
  <2> HIDE DEF shown, results, k
  <2>2. Len(all) = Len(seen) + k /\ all \in Seq(Nat \X Nat)
    <3>1. shown \in Seq(Nat \X Nat) /\ Len(shown) = k BY <1>8
    <3>2. \A P \in {Nat \X Nat} : \A x, y \in Seq(P) :
             x \o y \in Seq(P) /\ Len(x \o y) = Len(x) + Len(y)
      OBVIOUS
    <3> HIDE DEF all
    <3> QED BY <1>12, <3>1, <3>2 DEF all
  <2>3. \A i \in 1..Len(seen) : all[i] = seen[i] BY <1>8, <1>12
  <2>4. ASSUME NEW i \in (Len(seen) + 1)..(Len(seen) + k)
        PROVE  all[i] = Cursor(results[i - Len(seen)])
    <3>1. i - Len(seen) \in 1..k BY <1>12, <2>1
    <3>2. all[i] = shown[i - Len(seen)] BY <1>8, <1>12, <2>1
    <3> QED BY <1>8, <3>1, <3>2
  <2>5. Len(seen) \in Nat BY <1>12
  <2> HIDE DEF all, seen
  <2> QED BY <2>1, <2>2, <2>3, <2>4, <2>5
<1>14. client' \in Searching'
  <2>1. client' = [client EXCEPT !.seen = all, !.cursor = cursor, !.done = ~ page.truncated]
    BY <1>1, <1>2 DEF Searching
  <2>2. (~ page.truncated) \in BOOLEAN BY <1>3
  <2> HIDE DEF all, cursor
  <2> QED BY <1>1, <1>4, <1>11, <1>13, <2>1, <2>2 DEF Searching
<1> HIDE DEF shown, cursor, results, k
<1>15. ASSUME NEW i \in 1..Len(all), NEW j \in 1..Len(all), i < j
       PROVE  Ordered(all[i], all[j])
  <2>1. CASE j <= Len(seen)
    <3>1. i \in 1..Len(seen) /\ j \in 1..Len(seen) BY <1>13, <1>15, <2>1
    <3> QED BY <1>1, <1>13, <1>15, <3>1
  <2>2. CASE i > Len(seen)
    <3> DEFINE x == i - Len(seen)
               y == j - Len(seen)
    <3>1. x \in 1..k /\ y \in 1..k /\ x < y BY <1>13, <1>15, <2>2
    <3>2. /\ i \in (Len(seen) + 1)..(Len(seen) + k)
          /\ j \in (Len(seen) + 1)..(Len(seen) + k)
      BY <1>13, <1>15, <2>2
    <3>3. all[i] = Cursor(results[x]) /\ all[j] = Cursor(results[y]) BY <1>13, <3>2
    <3> QED BY <1>3, <3>1, <3>3
  <2>3. CASE i <= Len(seen) /\ j > Len(seen)
    <3> DEFINE y == j - Len(seen)
               last == seen[Len(seen)]
    <3>1. y \in 1..k /\ j \in (Len(seen) + 1)..(Len(seen) + k) /\ i \in 1..Len(seen)
          /\ Len(seen) \in 1..Len(seen)
      BY <1>13, <1>15, <2>3
    <3>2. all[j] = Cursor(results[y]) /\ all[i] = seen[i] BY <1>13, <3>1
    <3>3. c = last /\ last \in Nat \X Nat /\ seen[i] \in Nat \X Nat BY <1>1, <1>12, <3>1
    <3>4. c # None BY <3>3, CodeNavigationAssumption
    <3>5. Ordered(last, all[j]) BY <1>7, <3>1, <3>2, <3>3, <3>4 DEF After
    <3>6. i = Len(seen) \/ Ordered(seen[i], last)
      <4>1. CASE i < Len(seen) BY <1>1, <3>1, <4>1
      <4>2. i \in Nat /\ i <= Len(seen) BY <1>13, <3>1
      <4> QED BY <1>13, <4>1, <4>2
    <3>7. all[j] \in Nat \X Nat BY <1>5, <1>6, <3>1, <3>2
    <3>8. \A p, q, s \in Nat \X Nat : Ordered(p, q) /\ Ordered(q, s) => Ordered(p, s)
      BY OrderedTotal
    <3>9. CASE i = Len(seen) BY <3>2, <3>5, <3>9
    <3> HIDE DEF last
    <3>10. CASE Ordered(seen[i], last)
      <4>1. Ordered(seen[i], all[j]) BY <3>3, <3>5, <3>7, <3>8, <3>10
      <4> QED BY <3>2, <4>1
    <3> QED BY <3>6, <3>9, <3>10
  <2>4. i \in Nat /\ j \in Nat
    <3> HIDE DEF all
    <3> QED BY <1>13
  <2> HIDE DEF all, seen
  <2> QED BY <1>13, <2>1, <2>2, <2>3, <2>4
<1>16. ASSUME page.truncated PROVE all # <<>> /\ cursor = all[Len(all)]
  <2>1. k \in 1..k BY <1>10, <1>16
  <2>2. Len(all) \in (Len(seen) + 1)..(Len(seen) + k) /\ Len(all) - Len(seen) = k
    BY <1>13, <2>1
  <2>3. all[Len(all)] = Cursor(results[k]) BY <1>13, <2>2
  <2>4. Len(all) # 0 BY <1>13, <2>1
  <2> QED BY <1>16, <2>3, <2>4 DEF cursor
<1>17. ASSUME NEW t \in client.had
       PROVE  \/ Cursor(t) \in Range_(all)
              \/ page.truncated /\ After(Cursor(t), cursor)
  <2>1. CASE Cursor(t) \in Range_(seen)
    <3>1. PICK i \in DOMAIN seen : Cursor(t) = seen[i] BY <2>1 DEF Range_
    <3>2. i \in 1..Len(seen) /\ i \in 1..Len(all) BY <1>12, <1>13, <3>1
    <3>3. all[i] = seen[i] /\ i \in DOMAIN all BY <1>13, <3>2
    <3> QED BY <3>1, <3>3 DEF Range_
  <2>2. CASE After(Cursor(t), c)
    <3>1. t \in DOMAIN tags /\ Def(t).name \in client.names BY <1>1 DEF Searching
    <3>2. t \in A BY <2>2, <3>1 DEF A
    <3>3. CASE \E i \in 1..k : results[i] = t
      <4>1. PICK i \in 1..k : results[i] = t BY <3>3
      <4> DEFINE j == Len(seen) + i
      <4>2. j \in (Len(seen) + 1)..(Len(seen) + k) /\ j - Len(seen) = i /\ j \in 1..Len(all)
        BY <1>13, <4>1
      <4>3. all[j] = Cursor(t) BY <1>13, <4>1, <4>2
      <4>4. j \in DOMAIN all BY <1>13, <4>2
      <4> HIDE DEF j, all
      <4> QED BY <4>3, <4>4 DEF Range_
    <3>4. CASE page.truncated /\ \A i \in 1..k : Ordered(Cursor(results[i]), Cursor(t))
      <4>1. Ordered(cursor, Cursor(t)) BY <1>10, <3>4 DEF cursor
      <4> QED BY <3>4, <4>1 DEF After
    <3> QED BY <1>3, <3>2, <3>3, <3>4
  <2> QED BY <1>1, <2>1, <2>2
<1> HIDE DEF all
<1>18. \A t \in client'.had : Def(t)' = Def(t) /\ Cursor(t)' = Cursor(t)
  BY <1>4 DEF Def, Cursor
<1>19. client'.seen = all BY <1>9 DEF all
<1>20. \A t \in client'.had :
          /\ Def(t)'.name \in client'.names
          /\ \/ Cursor(t)' \in Range_(client'.seen)
             \/ ~ client'.done /\ After(Cursor(t)', client'.cursor)
  BY <1>1, <1>9, <1>17, <1>18, <1>19
<1> QED BY <1>9, <1>14, <1>15, <1>16, <1>19, <1>20 DEF Paging, After, Range_

\* So does every step of the client and of the index.
LEMMA PagesNext == PagesInv /\ [Next]_vars => PagesInv'
<1> SUFFICES ASSUME PagesInv, [Next]_vars PROVE PagesInv' OBVIOUS
<1>1. TagsTyped BY DEF PagesInv
<1>2. CASE \E b \in Blob : Analyse(b) \/ Forget(b)
  <2>1. PICK b \in Blob : TagsTyped' /\ TagsChange(b) BY <1>1, <1>2, TagsAfter
  <2>2. ASSUME client'.op = "search" PROVE Paging'
    <3>1. client.op = "search" /\ client \in Searching
      <4>1. CASE client.op = "search" BY <4>1 DEF PagesInv, Paging
      <4>2. CASE client.op = "trace"
        <5>1. client' = [client EXCEPT !.had = @ \ TagsOf(b), !.alone = FALSE]
          BY <2>1, <4>2 DEF TagsChange, Disturbed
        <5> QED BY <2>2, <4>2, <5>1
      <4>3. CASE ~ (client.op \in {"search", "trace"})
        BY <2>1, <2>2, <4>3 DEF TagsChange, Disturbed
      <4> QED BY <4>1, <4>2, <4>3
    <3>2. client' = [client EXCEPT !.had = @ \ TagsOf(b), !.alone = FALSE]
      BY <2>1, <3>1 DEF TagsChange, Disturbed
    <3>3. client'.had = client.had \ TagsOf(b) /\ client'.names = client.names
          /\ client'.seen = client.seen /\ client'.cursor = client.cursor
          /\ client'.done = client.done
      BY <3>1, <3>2 DEF Searching
    <3>4. client.had \ TagsOf(b) \subseteq DOMAIN tags'
      BY <2>1, <3>1 DEF TagsChange, Searching
    <3>5. client' \in Searching' BY <3>1, <3>2, <3>4 DEF Searching
    <3>6. \A t \in client'.had : Def(t)' = Def(t) /\ Cursor(t)' = Cursor(t)
      BY <2>1, <3>1, <3>3 DEF TagsChange, Searching, Def, Cursor
    <3> QED BY <3>1, <3>3, <3>5, <3>6 DEF PagesInv, Paging, After, Range_
  <2> QED BY <2>1, <2>2 DEF PagesInv
<1>3. CASE \E names \in SUBSET Symbols \ {{}} : StartSearch(names)
  <2>1. PICK names \in SUBSET Symbols : StartSearch(names) BY <1>3
  <2>2. /\ content' = content /\ history' = history /\ tags' = tags BY <2>1 DEF StartSearch
  <2> DEFINE matches == {t \in DOMAIN tags : Def(t).name \in names}
  <2>3. client' = [op |-> "search", names |-> names, cursor |-> None, seen |-> <<>>,
                   had |-> matches, alone |-> TRUE, done |-> FALSE]
    BY <2>1 DEF StartSearch
  <2>4. <<>> \in Seq(Nat \X Nat) /\ Len(<<>>) = 0 OBVIOUS
  <2>5. client' \in Searching' BY <2>2, <2>3, <2>4 DEF Searching
  <2>6. \A t \in client'.had : Def(t)' = Def(t) /\ Def(t).name \in names
    BY <2>2, <2>3 DEF Def
  <2>7. Paging' BY <2>3, <2>4, <2>5, <2>6 DEF Paging, After
  <2> QED BY <1>1, <2>2, <2>7 DEF PagesInv, TagsTyped
<1>4. CASE \E limit \in Limits : NextPage(limit)
  <2>1. content' = content /\ history' = history /\ tags' = tags BY <1>4 DEF NextPage
  <2> QED BY <1>1, <1>4, <2>1, NextPagePaging DEF PagesInv, TagsTyped
<1>5. CASE \/ \E symbol \in Symbols : StartTrace(symbol)
           \/ TraceRevision
           \/ \E ids \in {r \in Requests : IsInjective(r)}, context \in Contexts :
                 \E lines \in LineBudgets, chars \in CharBudgets :
                    ReadTagged(ids, context, lines, chars)
           \/ Finish
  <2>1. content' = content /\ history' = history /\ tags' = tags
    BY <1>5 DEF StartTrace, TraceRevision, ReadTagged, Finish
  <2>2. client'.op # "search"
    <3>1. CASE \E symbol \in Symbols : StartTrace(symbol) BY <3>1 DEF StartTrace
    <3>2. CASE TraceRevision
      <4>1. CASE client' = [op |-> "failed"] BY <4>1
      <4>2. CASE client' # [op |-> "failed"]
        <5>1. /\ client.op = "trace"
              /\ \E a, d, s : client' = [client EXCEPT !.at = a, !.done = d, !.steps = s]
          BY <3>2, <4>2 DEF TraceRevision
        <5> QED BY <5>1
      <4> QED BY <4>1, <4>2
    <3>3. CASE \E ids \in {r \in Requests : IsInjective(r)}, context \in Contexts :
                 \E lines \in LineBudgets, chars \in CharBudgets :
                    ReadTagged(ids, context, lines, chars)
      BY <3>3 DEF ReadTagged
    <3>4. CASE Finish BY <3>4 DEF Finish, NoOperation
    <3> QED BY <1>5, <3>1, <3>2, <3>3, <3>4
  <2> QED BY <1>1, <2>1, <2>2 DEF PagesInv, TagsTyped
<1>6. CASE UNCHANGED vars
  BY <1>1, <1>6 DEF vars, PagesInv, TagsTyped, Paging, Searching, Def, Cursor, After, Range_
<1> QED BY <1>2, <1>3, <1>4, <1>5, <1>6 DEF Next

\* search_tags page by page, with limits that may change from page to page,
\* over an index that is rebuilt between the pages: nothing is listed twice,
\* and what was there all the time is listed.
THEOREM PagesAreComplete == Spec => []PagesComplete
<1>1. Init => PagesInv
  <2> SUFFICES ASSUME Init PROVE PagesInv OBVIOUS
  <2>1. DOMAIN tags = {} /\ 0 \in Nat BY DEF Init
  <2> QED BY <2>1 DEF Init, PagesInv, TagsTyped, NoOperation
<1>2. PagesInv => PagesComplete
  <2> SUFFICES ASSUME Paging
               PROVE  /\ \A i \in 1..(Len(client.seen) - 1) :
                            Ordered(client.seen[i], client.seen[i + 1])
                      /\ client.done => \A t \in client.had : Cursor(t) \in Range_(client.seen)
    BY DEF PagesInv, PagesComplete
  <2>1. Len(client.seen) \in Nat BY DEF Paging, Searching
  <2> QED BY <2>1 DEF Paging
<1> QED BY <1>1, <1>2, PagesNext, PTL DEF Spec

-----------------------------------------------------------------------------
(* Tracing a symbol revision by revision *)

TraceStep == [revisions : Seq(Nat), matches : Seq(Nat), ambiguous : BOOLEAN]

\* The steps are about adjacent ranges of revisions.
Chained(steps) ==
    \A i \in 1..Len(steps) :
        LET from == Through(steps, i - 1) through == Through(steps, i) IN
        /\ from \in Nat /\ through \in Nat /\ from < through
        /\ steps[i].revisions = [k \in 1..(through - from) |-> from + k]

Tracing ==
    [op : {"trace"}, symbol : Symbols, at : Nat, steps : Seq(TraceStep),
     had : SUBSET {}, alone : BOOLEAN, done : BOOLEAN]

\* The steps say what is known of the revisions before the one it is at.
TracedSoFar ==
    /\ client \in Tracing
    /\ Chained(client.steps)
    /\ client.at = Through(client.steps, Len(client.steps)) + 1
    /\ client.at \in 1..(Len(history) + 1)
    /\ client.done <=> client.at = Len(history) + 1
    /\ client.alone =>
         /\ \A i \in 1..Len(client.steps) : \A r \in Range_(client.steps[i].revisions) :
               Range_(client.steps[i].matches) = Matches(client.symbol, history[r])
         /\ \A i \in 1..(Len(client.steps) - 1) :
               client.steps[i].matches # client.steps[i + 1].matches

TraceInv == TagsTyped /\ (client.op = "trace" => TracedSoFar)

JoinLast(steps, r) == [steps EXCEPT ![Len(steps)].revisions = Append(@, r)]

\* A revision that joins the last step.
LEMMA ChainedJoin ==
    ASSUME NEW steps \in Seq(TraceStep), Len(steps) # 0, Chained(steps),
           NEW r \in Nat, r = Through(steps, Len(steps)) + 1,
           NEW longer, longer = JoinLast(steps, r)
    PROVE  /\ longer \in Seq(TraceStep) /\ Len(longer) = Len(steps)
           /\ \A i \in 1..(Len(steps) - 1) : longer[i] = steps[i]
           /\ longer[Len(steps)].matches = steps[Len(steps)].matches
           /\ longer[Len(steps)].revisions = Append(steps[Len(steps)].revisions, r)
           /\ Through(longer, Len(longer)) = r
           /\ Chained(longer)
<1> DEFINE n == Len(steps)
           old == steps[n]
           from == Through(steps, n - 1)
<1>1. n \in Nat /\ n \in 1..n /\ DOMAIN steps = 1..n OBVIOUS
<1>2. old \in TraceStep BY <1>1
<1>3. old.revisions \in Seq(Nat) BY <1>2 DEF TraceStep
<1> DEFINE joined == Append(old.revisions, r)
           new == [old EXCEPT !.revisions = joined]
<1>4. joined \in Seq(Nat) /\ Len(joined) = Len(old.revisions) + 1
      /\ joined[Len(joined)] = r
      /\ \A k \in 1..Len(old.revisions) : joined[k] = old.revisions[k]
  BY <1>3
<1>5. new \in TraceStep /\ new.matches = old.matches /\ new.revisions = joined
  <2> HIDE DEF joined, old
  <2> QED BY <1>2, <1>4 DEF TraceStep
<1>6. longer = [steps EXCEPT ![n] = new] BY <1>1 DEF JoinLast
<1> HIDE DEF new, joined
<1>7. /\ longer \in Seq(TraceStep) /\ Len(longer) = n
      /\ longer[n] = new /\ \A i \in 1..(n - 1) : longer[i] = steps[i]
  <2>1. steps \in [1..n -> TraceStep] BY <1>1
  <2> HIDE DEF n
  <2>2. longer \in [1..n -> TraceStep] BY <1>1, <1>5, <1>6, <2>1
  <2>3. longer[n] = new /\ \A i \in 1..(n - 1) : longer[i] = steps[i]
    BY <1>1, <1>6, <2>1
  <2>4. longer \in Seq(TraceStep) /\ Len(longer) = n BY <1>1, <2>2
  <2> QED BY <2>3, <2>4
<1> HIDE DEF n, old
<1>8. Through(longer, n) = r
  <2>1. n # 0 BY DEF n
  <2> QED BY <1>4, <1>5, <1>7, <2>1 DEF Through
<1>9. \A i \in 0..(n - 1) : Through(longer, i) = Through(steps, i)
  BY <1>1, <1>7 DEF Through
<1>10. /\ from \in Nat /\ r - 1 \in Nat /\ from < r - 1
       /\ old.revisions = [k \in 1..(r - 1 - from) |-> from + k]
  <2>1. Through(steps, n) = r - 1
    <3>1. r = Through(steps, n) + 1 BY DEF n
    <3>2. Through(steps, n) \in Nat BY <1>1 DEF Chained, n
    <3> QED BY <3>1, <3>2
  <2> QED BY <1>1, <2>1 DEF Chained, n, old
<1> HIDE DEF from
<1>11. joined = [k \in 1..(r - from) |-> from + k]
  <2>1. r - 1 - from \in Nat BY <1>10
  <2>2. Len(old.revisions) = r - 1 - from BY <1>3, <1>10, <2>1
  <2>3. Len(joined) = r - from BY <1>4, <1>10, <2>2
  <2>4. DOMAIN joined = 1..(r - from) /\ joined = [k \in DOMAIN joined |-> joined[k]]
    <3>1. joined \in Seq(Nat) BY <1>4
    <3>2. joined \in [1..Len(joined) -> Nat] BY <3>1, LenProperties
    <3>3. joined \in [1..(r - from) -> Nat] BY <2>3, <3>2
    <3> QED BY <3>3, Zenon
  <2>5. ASSUME NEW k \in 1..(r - from) PROVE joined[k] = from + k
    <3>1. CASE k = r - from
      <4>1. joined[k] = r BY <1>4, <2>3, <3>1
      <4>2. from + k = r BY <1>10, <3>1
      <4> QED BY <4>1, <4>2
    <3>2. CASE k # r - from
      <4>1. k \in 1..(r - 1 - from) BY <1>10, <3>2
      <4> QED BY <1>4, <1>10, <2>2, <4>1
    <3> QED BY <3>1, <3>2
  <2> QED BY <2>4, <2>5
<1>12. ASSUME NEW i \in 1..n
       PROVE  /\ Through(longer, i - 1) \in Nat /\ Through(longer, i) \in Nat
              /\ Through(longer, i - 1) < Through(longer, i)
              /\ longer[i].revisions =
                    [k \in 1..(Through(longer, i) - Through(longer, i - 1)) |->
                       Through(longer, i - 1) + k]
  <2>1. CASE i = n
    <3>1. Through(longer, n - 1) = from
      <4>1. n - 1 \in 0..(n - 1) BY <1>1
      <4> QED BY <1>9, <4>1 DEF from
    <3>2. longer[n].revisions = joined BY <1>5, <1>7
    <3>3. from < r BY <1>10
    <3> QED BY <1>8, <1>10, <1>11, <2>1, <3>1, <3>2, <3>3
  <2>2. CASE i # n
    <3>1. i \in 1..(n - 1) /\ i \in 0..(n - 1) /\ i - 1 \in 0..(n - 1) BY <1>1, <2>2
    <3>2. /\ Through(longer, i - 1) = Through(steps, i - 1)
          /\ Through(longer, i) = Through(steps, i) /\ longer[i] = steps[i]
      BY <1>7, <1>9, <3>1
    <3> QED BY <3>2 DEF Chained, n
  <2> QED BY <2>1, <2>2
<1>13. Chained(longer) BY <1>7, <1>12 DEF Chained
<1>14. new.matches = steps[n].matches /\ new.revisions = Append(steps[n].revisions, r)
  BY <1>5 DEF old, joined
<1> QED BY <1>7, <1>8, <1>13, <1>14 DEF n

\* A revision that begins a step.
LEMMA ChainedAppend ==
    ASSUME NEW steps \in Seq(TraceStep), Chained(steps),
           NEW r \in Nat, r = Through(steps, Len(steps)) + 1,
           NEW step \in TraceStep, step.revisions = <<r>>
    PROVE  /\ Through(Append(steps, step), Len(steps) + 1) = r
           /\ Chained(Append(steps, step))
<1> DEFINE n == Len(steps)
           longer == Append(steps, step)
<1>1. n \in Nat /\ Len(longer) = n + 1 /\ longer[n + 1] = step
      /\ \A i \in 1..n : longer[i] = steps[i]
  OBVIOUS
<1> HIDE DEF longer
<1>2. \A i \in 0..n : Through(longer, i) = Through(steps, i) BY <1>1 DEF Through
<1> HIDE DEF n
<1>3. Len(step.revisions) = 1 /\ step.revisions[1] = r OBVIOUS
<1>4. Through(longer, n + 1) = r
  <2>1. n + 1 # 0 BY <1>1
  <2> QED BY <1>1, <1>3, <2>1 DEF Through
<1>5. Through(steps, n) \in Nat /\ Through(steps, n) = r - 1
  <2>1. CASE n = 0 BY <2>1 DEF Through, n
  <2>2. CASE n # 0
    <3>1. n \in 1..n BY <1>1, <2>2
    <3>2. Through(steps, n) \in Nat BY <3>1 DEF Chained, n
    <3> QED BY <3>2 DEF n
  <2> QED BY <2>1, <2>2
<1>6. step.revisions = [k \in 1..(r - (r - 1)) |-> r - 1 + k]
  <2>1. r - (r - 1) = 1 OBVIOUS
  <2>2. <<r>> = [k \in 1..1 |-> r - 1 + k] OBVIOUS
  <2> QED BY <2>1, <2>2
<1>7. ASSUME NEW i \in 1..(n + 1)
      PROVE  /\ Through(longer, i - 1) \in Nat /\ Through(longer, i) \in Nat
             /\ Through(longer, i - 1) < Through(longer, i)
             /\ longer[i].revisions =
                   [k \in 1..(Through(longer, i) - Through(longer, i - 1)) |->
                      Through(longer, i - 1) + k]
  <2>1. CASE i = n + 1
    <3>1. i - 1 = n /\ n \in 0..n BY <1>1, <2>1
    <3>2. Through(longer, i - 1) = r - 1 /\ r - 1 \in Nat BY <1>2, <1>5, <3>1
    <3>3. Through(longer, i) = r /\ longer[i] = step BY <1>1, <1>4, <2>1
    <3> QED BY <1>6, <3>2, <3>3
  <2>2. CASE i # n + 1
    <3>1. i \in 1..n /\ i \in 0..n /\ i - 1 \in 0..n BY <1>1, <2>2
    <3>2. /\ Through(longer, i - 1) = Through(steps, i - 1)
          /\ Through(longer, i) = Through(steps, i) /\ longer[i] = steps[i]
      BY <1>1, <1>2, <3>1
    <3> QED BY <3>1, <3>2 DEF Chained, n
  <2> QED BY <2>1, <2>2
<1>8. Chained(longer) BY <1>1, <1>7 DEF Chained
<1> QED BY <1>4, <1>8 DEF n, longer

\* A revision more joins the last step or begins one, as its matches say.
LEMMA TraceRevisionTraced ==
    ASSUME TraceInv, TraceRevision, client'.op = "trace"
    PROVE  TracedSoFar'
<1> DEFINE r == client.at
           b == history[r]
           M == Matches(client.symbol, b)
           found == Search(M, None, MatchLimit)
           matches == found.results
           steps == client.steps
           n == Len(steps)
           step == [revisions |-> <<r>>, matches |-> matches, ambiguous |-> Len(matches) > 1]
           longer == IF Collapses(steps, matches)
                     THEN [steps EXCEPT ![n].revisions = Append(@, r)]
                     ELSE Append(steps, step)
<1>1. /\ TagsTyped /\ client \in Tracing /\ ~ client.done
      /\ Chained(steps) /\ r = Through(steps, n) + 1
      /\ r \in 1..(Len(history) + 1) /\ (client.done <=> r = Len(history) + 1)
      /\ client.alone =>
           /\ \A i \in 1..n : \A x \in Range_(steps[i].revisions) :
                 Range_(steps[i].matches) = Matches(client.symbol, history[x])
           /\ \A i \in 1..(n - 1) : steps[i].matches # steps[i + 1].matches
  BY DEF TraceInv, TracedSoFar, TraceRevision
<1>2. /\ ~ found.truncated
      /\ client' = [client EXCEPT !.at = r + 1, !.done = r = Len(history), !.steps = longer]
  <2>1. [op |-> "failed"].op # "trace" OBVIOUS
  <2> QED BY <2>1 DEF TraceRevision
<1>3. tags' = tags /\ content' = content /\ history' = history BY DEF TraceRevision
<1>4. Len(history) \in Nat
  <2>1. history \in Seq(Blob) BY <1>1, CodeNavigationAssumption DEF TagsTyped
  <2> QED BY <2>1
<1>5. r \in 1..Len(history) /\ r \in Nat /\ steps \in Seq(TraceStep) /\ n \in Nat
  <2>1. r \in Nat /\ steps \in Seq(TraceStep) BY <1>1 DEF Tracing
  <2> QED BY <1>1, <1>4, <2>1
<1>6. matches \in Seq(Nat) /\ Range_(matches) = M
  <2> DEFINE A == {t \in M : After(Cursor(t), None)}
  <2>1. M \in SUBSET DOMAIN tags BY DEF Matches, TagsOf
  <2>2. A = M BY DEF After
  <2>3. MatchLimit \in Nat /\ TagsTyped BY <1>1, CodeNavigationAssumption
  <2> HIDE DEF M
  <2>4. LET B == {t \in M : After(Cursor(t), None)}
            p == Search(M, None, MatchLimit)
            k == Len(p.results)
        IN  /\ p.results \in Seq(B) /\ p.truncated \in BOOLEAN
            /\ \A i, j \in 1..k : i < j => Ordered(Cursor(p.results[i]), Cursor(p.results[j]))
            /\ p.truncated => k = MatchLimit
            /\ \A t \in B :
                  \/ \E i \in 1..k : p.results[i] = t
                  \/ /\ p.truncated
                     /\ \A i \in 1..k : Ordered(Cursor(p.results[i]), Cursor(t))
    BY <2>1, <2>3, SearchPage, Zenon
  <2>5. /\ matches \in Seq(A)
        /\ \A t \in A : \E i \in 1..Len(matches) : matches[i] = t
    BY <1>2, <2>4
  <2> HIDE DEF A, found
  <2>6. matches \in Seq(M) /\ \A t \in M : \E i \in 1..Len(matches) : matches[i] = t
    BY <2>2, <2>5
  <2>7. M \subseteq Nat BY <2>1, <2>3 DEF TagsTyped
  <2>8. DOMAIN matches = 1..Len(matches) /\ \A i \in 1..Len(matches) : matches[i] \in M
    BY <2>6
  <2>9. Range_(matches) = M BY <2>6, <2>8 DEF Range_
  <2>10. \A i \in 1..Len(matches) : matches[i] \in Nat BY <2>7, <2>8
  <2>11. Len(matches) \in Nat /\ matches = [i \in 1..Len(matches) |-> matches[i]] BY <2>6
  <2> QED BY <2>9, <2>10, <2>11
<1> HIDE DEF found, matches, M
<1>7. step \in TraceStep
  <2>1. <<r>> \in Seq(Nat) BY <1>5
  <2>2. (Len(matches) > 1) \in BOOLEAN BY <1>6
  <2> QED BY <1>6, <2>1, <2>2 DEF TraceStep
<1>8. step.revisions = <<r>> /\ step.matches = matches OBVIOUS
<1> HIDE DEF step
<1>9. ASSUME client.alone
      PROVE  /\ \A i \in 1..n : \A x \in Range_(steps[i].revisions) :
                  Range_(steps[i].matches) = Matches(client.symbol, history[x])
             /\ \A i \in 1..(n - 1) : steps[i].matches # steps[i + 1].matches
             /\ Range_(matches) = Matches(client.symbol, history[r])
  BY <1>1, <1>6, <1>9 DEF M
<1> DEFINE Known(s) ==
             /\ \A i \in 1..Len(s) : \A x \in Range_(s[i].revisions) :
                   Range_(s[i].matches) = Matches(client.symbol, history[x])
             /\ \A i \in 1..(Len(s) - 1) : s[i].matches # s[i + 1].matches
<1>10. /\ longer \in Seq(TraceStep) /\ Chained(longer)
       /\ Through(longer, Len(longer)) = r
       /\ client.alone => Known(longer)
  <2>1. CASE Collapses(steps, matches)
    <3>1. n # 0 /\ steps[n].matches = matches BY <1>5, <2>1 DEF Collapses
    <3>2. longer = JoinLast(steps, r) BY <2>1 DEF JoinLast
    <3> HIDE DEF longer
    <3>3. /\ longer \in Seq(TraceStep) /\ Len(longer) = n
          /\ \A i \in 1..(n - 1) : longer[i] = steps[i]
          /\ longer[n].matches = steps[n].matches
          /\ longer[n].revisions = Append(steps[n].revisions, r)
          /\ Through(longer, Len(longer)) = r /\ Chained(longer)
      <4>1. Len(steps) # 0 BY <3>1
      <4> HIDE DEF steps, r
      <4> QED BY <1>1, <1>5, <3>2, <4>1, ChainedJoin
    <3>4. ASSUME client.alone PROVE Known(longer)
      <4>1. ASSUME NEW i \in 1..n, NEW x \in Range_(longer[i].revisions)
            PROVE  Range_(longer[i].matches) = Matches(client.symbol, history[x])
        <5>1. CASE i # n
          <6>1. i \in 1..(n - 1) BY <1>5, <5>1
          <6>2. longer[i] = steps[i] BY <3>3, <6>1
          <6> QED BY <1>9, <3>4, <4>1, <6>2
        <5>2. CASE i = n
          <6>1. n \in 1..n /\ steps[n].revisions \in Seq(Nat)
            <7>1. n \in 1..n BY <1>5, <3>1
            <7>2. steps[n] \in TraceStep BY <1>5, <7>1
            <7> QED BY <7>1, <7>2 DEF TraceStep
          <6>2. x \in Range_(Append(steps[n].revisions, r)) BY <3>3, <4>1, <5>2
          <6>3. x \in Range_(steps[n].revisions) \/ x = r BY <6>1, <6>2 DEF Range_
          <6>4. Range_(longer[i].matches) = Range_(steps[n].matches) BY <3>3, <5>2
          <6>5. x \in Range_(steps[n].revisions) =>
                   Range_(steps[n].matches) = Matches(client.symbol, history[x])
            BY <1>9, <3>4, <6>1
          <6> QED BY <1>9, <3>1, <3>4, <6>3, <6>4, <6>5
        <5> QED BY <5>1, <5>2
      <4>2. ASSUME NEW i \in 1..(n - 1) PROVE longer[i].matches # longer[i + 1].matches
        <5>1. longer[i] = steps[i] BY <3>3
        <5>2. i + 1 = n \/ i + 1 \in 1..(n - 1) BY <1>5
        <5>3. longer[i + 1].matches = steps[i + 1].matches BY <3>3, <5>2
        <5>4. steps[i].matches # steps[i + 1].matches BY <1>9, <3>4
        <5> QED BY <5>1, <5>3, <5>4
      <4> QED BY <3>3, <4>1, <4>2
    <3> HIDE DEF Known
    <3> QED BY <3>3, <3>4
  <2>2. CASE ~ Collapses(steps, matches)
    <3>1. n # 0 => steps[n].matches # matches BY <1>5, <2>2 DEF Collapses
    <3>2. longer = Append(steps, step) BY <2>2
    <3> HIDE DEF longer
    <3>3. /\ longer \in Seq(TraceStep) /\ Len(longer) = n + 1
          /\ longer[n + 1] = step /\ \A i \in 1..n : longer[i] = steps[i]
      BY <1>5, <1>7, <3>2
    <3>4. Through(longer, n + 1) = r /\ Chained(longer)
      BY <1>1, <1>5, <1>7, <1>8, <3>2, ChainedAppend
    <3>5. ASSUME client.alone PROVE Known(longer)
      <4>1. ASSUME NEW i \in 1..(n + 1), NEW x \in Range_(longer[i].revisions)
            PROVE  Range_(longer[i].matches) = Matches(client.symbol, history[x])
        <5>1. CASE i # n + 1
          <6>1. i \in 1..n BY <1>5, <5>1
          <6>2. longer[i] = steps[i] BY <3>3, <6>1
          <6> QED BY <1>9, <3>5, <4>1, <6>1, <6>2
        <5>2. CASE i = n + 1
          <6>1. x \in Range_(<<r>>) BY <1>8, <3>3, <4>1, <5>2
          <6>2. x = r BY <6>1 DEF Range_
          <6>3. longer[i].matches = matches BY <1>8, <3>3, <5>2
          <6> QED BY <1>9, <3>5, <6>2, <6>3
        <5> QED BY <5>1, <5>2
      <4>2. ASSUME NEW i \in 1..n PROVE longer[i].matches # longer[i + 1].matches
        <5>1. CASE i # n
          <6>1. i \in 1..(n - 1) /\ i + 1 \in 1..n BY <1>5, <5>1
          <6>2. longer[i] = steps[i] /\ longer[i + 1] = steps[i + 1] BY <3>3, <6>1
          <6> QED BY <1>9, <3>5, <6>1, <6>2
        <5>2. CASE i = n
          <6>1. n # 0 BY <5>2
          <6>2. longer[i] = steps[n] /\ longer[i + 1] = step BY <3>3, <5>2
          <6> QED BY <1>8, <3>1, <6>1, <6>2
        <5> QED BY <5>1, <5>2
      <4>3. n + 1 - 1 = n BY <1>5
      <4> QED BY <3>3, <4>1, <4>2, <4>3
    <3> HIDE DEF Known
    <3> QED BY <3>3, <3>4, <3>5
  <2> QED BY <2>1, <2>2
<1> HIDE DEF longer, Known
<1>11. /\ client'.op = "trace" /\ client'.symbol = client.symbol
       /\ client'.at = r + 1 /\ client'.steps = longer
       /\ client'.alone = client.alone /\ client'.done = (r = Len(history))
  BY <1>1, <1>2 DEF Tracing
<1>12. client' \in Tracing
  <2>1. r + 1 \in Nat /\ (r = Len(history)) \in BOOLEAN BY <1>5
  <2> QED BY <1>1, <1>2, <1>10, <2>1 DEF Tracing
<1>13. r + 1 \in 1..(Len(history) + 1) /\ (r = Len(history) <=> r + 1 = Len(history) + 1)
  BY <1>4, <1>5
<1>14. \A x : Matches(client.symbol, history[x])' = Matches(client.symbol, history[x])
  BY <1>3, <1>11 DEF Matches, TagsOf, Def
<1>15. client.alone =>
         /\ \A i \in 1..Len(longer) : \A x \in Range_(longer[i].revisions) :
               Range_(longer[i].matches) = Matches(client.symbol, history[x])'
         /\ \A i \in 1..(Len(longer) - 1) : longer[i].matches # longer[i + 1].matches
  BY <1>10, <1>14 DEF Known
<1> QED
  BY <1>10, <1>11, <1>12, <1>13, <1>15, <1>3 DEF TracedSoFar

\* The other steps leave the steps of a trace alone, or say that it is not.
LEMMA TraceNext == TraceInv /\ [Next]_vars => TraceInv'
<1> SUFFICES ASSUME TraceInv, [Next]_vars PROVE TraceInv' OBVIOUS
<1>1. TagsTyped BY DEF TraceInv
<1>2. CASE \E b \in Blob : Analyse(b) \/ Forget(b)
  <2>1. PICK b \in Blob : TagsTyped' /\ TagsChange(b) BY <1>1, <1>2, TagsAfter
  <2>2. ASSUME client'.op = "trace" PROVE TracedSoFar'
    <3>1. client.op = "trace" /\ TracedSoFar
      <4>1. CASE client.op = "trace" BY <4>1 DEF TraceInv
      <4>2. CASE client.op = "search"
        <5>1. client' = [client EXCEPT !.had = @ \ TagsOf(b), !.alone = FALSE]
          BY <2>1, <4>2 DEF TagsChange, Disturbed
        <5> QED BY <2>2, <4>2, <5>1
      <4>3. CASE ~ (client.op \in {"search", "trace"})
        BY <2>1, <2>2, <4>3 DEF TagsChange, Disturbed
      <4> QED BY <4>1, <4>2, <4>3
    <3>2. client' = [client EXCEPT !.had = @ \ TagsOf(b), !.alone = FALSE]
      BY <2>1, <3>1 DEF TagsChange, Disturbed
    <3>3. client \in Tracing BY <3>1 DEF TracedSoFar
    <3>4. /\ client'.had = client.had \ TagsOf(b) /\ client'.steps = client.steps
          /\ client'.at = client.at /\ client'.done = client.done /\ ~ client'.alone
      BY <3>2, <3>3 DEF Tracing
    <3>5. client' \in Tracing
      <4>1. client.had \ TagsOf(b) \in SUBSET {} BY <3>3 DEF Tracing
      <4> QED BY <3>2, <3>3, <4>1 DEF Tracing
    <3>6. history' = history BY <2>1 DEF TagsChange
    <3> QED BY <3>1, <3>4, <3>5, <3>6 DEF TracedSoFar
  <2> QED BY <2>1, <2>2 DEF TraceInv
<1>3. CASE \E symbol \in Symbols : StartTrace(symbol)
  <2>1. PICK symbol \in Symbols : StartTrace(symbol) BY <1>3
  <2>2. /\ content' = content /\ history' = history /\ tags' = tags BY <2>1 DEF StartTrace
  <2>3. client' = [op |-> "trace", symbol |-> symbol, at |-> 1, steps |-> <<>>,
                   had |-> {}, alone |-> TRUE, done |-> history = <<>>]
    BY <2>1 DEF StartTrace
  <2>4. <<>> \in Seq(TraceStep) /\ Len(<<>>) = 0 /\ (history = <<>>) \in BOOLEAN OBVIOUS
  <2>5. client' \in Tracing BY <2>3, <2>4 DEF Tracing
  <2>6. history \in Seq(Blob) BY <1>1, CodeNavigationAssumption DEF TagsTyped
  <2>7. Len(history) \in Nat /\ (history = <<>> <=> 1 = Len(history) + 1)
    BY <2>6
  <2>8. client'.steps = <<>> /\ client'.at = 1 /\ client'.done = (history = <<>>)
    BY <2>3
  <2>9. Chained(<<>>) /\ Through(<<>>, 0) = 0 BY <2>4 DEF Chained, Through
  <2>10. \A i \in 1..0 : FALSE OBVIOUS
  <2>11. \A i \in 1..(0 - 1) : FALSE OBVIOUS
  <2>12. TracedSoFar'
    <3>1. 0 + 1 = 1 /\ 1 \in 1..(Len(history) + 1) BY <2>7
    <3>2. /\ \A i \in 1..Len(client'.steps) : \A r \in Range_(client'.steps[i].revisions) :
                Range_(client'.steps[i].matches) = Matches(client.symbol, history[r])'
          /\ \A i \in 1..(Len(client'.steps) - 1) :
                client'.steps[i].matches # client'.steps[i + 1].matches
      BY <2>4, <2>8, <2>10, <2>11
    <3>3. Chained(client'.steps) /\ client'.at = Through(client'.steps, Len(client'.steps)) + 1
      BY <2>4, <2>8, <2>9, <3>1
    <3>4. client'.at \in 1..(Len(history') + 1) /\ (client'.done <=> client'.at = Len(history') + 1)
      BY <2>2, <2>7, <2>8, <3>1
    <3> QED BY <2>5, <3>2, <3>3, <3>4 DEF TracedSoFar
  <2> QED BY <1>1, <2>2, <2>12 DEF TraceInv, TagsTyped
<1>4. CASE TraceRevision
  <2>1. content' = content /\ history' = history /\ tags' = tags BY <1>4 DEF TraceRevision
  <2> QED BY <1>1, <1>4, <2>1, TraceRevisionTraced DEF TraceInv, TagsTyped
<1>5. CASE \/ \E names \in SUBSET Symbols \ {{}} : StartSearch(names)
           \/ \E limit \in Limits : NextPage(limit)
           \/ \E ids \in {r \in Requests : IsInjective(r)}, context \in Contexts :
                 \E lines \in LineBudgets, chars \in CharBudgets :
                    ReadTagged(ids, context, lines, chars)
           \/ Finish
  <2>1. content' = content /\ history' = history /\ tags' = tags
    BY <1>5 DEF StartSearch, NextPage, ReadTagged, Finish
  <2>2. client'.op # "trace"
    <3>1. CASE \E names \in SUBSET Symbols \ {{}} : StartSearch(names)
      BY <3>1 DEF StartSearch
    <3>2. CASE \E limit \in Limits : NextPage(limit)
      <4>1. PICK limit \in Limits : NextPage(limit) BY <3>2
      <4> DEFINE page == Search({t \in DOMAIN tags : Def(t).name \in client.names},
                                client.cursor, limit)
                 more == [i \in DOMAIN page.results |-> Cursor(page.results[i])]
                 cursor == IF page.truncated THEN Cursor(page.results[Len(page.results)])
                           ELSE None
      <4>2. client.op = "search"
            /\ client' = [client EXCEPT !.seen = @ \o more, !.cursor = cursor,
                                        !.done = ~ page.truncated]
        BY <4>1 DEF NextPage
      <4> HIDE DEF page, more, cursor
      <4> QED BY <4>2
    <3>3. CASE \E ids \in {r \in Requests : IsInjective(r)}, context \in Contexts :
                 \E lines \in LineBudgets, chars \in CharBudgets :
                    ReadTagged(ids, context, lines, chars)
      BY <3>3 DEF ReadTagged
    <3>4. CASE Finish BY <3>4 DEF Finish, NoOperation
    <3> QED BY <1>5, <3>1, <3>2, <3>3, <3>4
  <2> QED BY <1>1, <2>1, <2>2 DEF TraceInv, TagsTyped
<1>6. CASE UNCHANGED vars
  BY <1>1, <1>6 DEF vars, TraceInv, TagsTyped, TracedSoFar, Matches, TagsOf, Def
<1> QED BY <1>2, <1>3, <1>4, <1>5, <1>6 DEF Next

\* trace_history, one call of the index per revision: every revision is named
\* once and in order, whatever happens to the index in between; if nothing does,
\* the steps are the runs of revisions with the same definitions.
THEOREM TracesAreFaithful == Spec => []HistoryFaithful
<1>1. Init => TraceInv
  <2> SUFFICES ASSUME Init PROVE TraceInv OBVIOUS
  <2>1. DOMAIN tags = {} /\ 0 \in Nat BY DEF Init
  <2> QED BY <2>1 DEF Init, TraceInv, TagsTyped, NoOperation
<1>2. TraceInv => HistoryFaithful
  <2> SUFFICES ASSUME TagsTyped, TracedSoFar, client.done PROVE HistoryFaithful
    BY DEF TraceInv, HistoryFaithful
  <2> DEFINE steps == client.steps
             n == Len(steps)
  <2>1. steps \in Seq(TraceStep) /\ Chained(steps) /\ client.at = Through(steps, n) + 1
        /\ client.at = Len(history) + 1
    BY DEF TracedSoFar, Tracing
  <2>2. DOMAIN steps = 1..n /\ n \in Nat BY <2>1
  <2>3. Len(history) \in Nat
    <3>1. history \in Seq(Blob) BY CodeNavigationAssumption DEF TagsTyped
    <3> QED BY <3>1
  <2>4. Through(steps, n) \in Nat
    <3>1. CASE n = 0 BY <3>1 DEF Through
    <3>2. CASE n # 0
      <4>1. n \in 1..n BY <2>2, <3>2
      <4> QED BY <2>1, <4>1 DEF Chained
    <3> QED BY <3>1, <3>2
  <2>5. Through(steps, n) = Len(history) BY <2>1, <2>3, <2>4
  <2>6. \A i \in DOMAIN steps :
          /\ Through(steps, i - 1) < Through(steps, i)
          /\ steps[i].revisions =
                [k \in 1..(Through(steps, i) - Through(steps, i - 1)) |->
                   Through(steps, i - 1) + k]
    BY <2>1, <2>2 DEF Chained
  <2>7. ASSUME client.alone
        PROVE  /\ \A s \in Range_(steps) : \A r \in Range_(s.revisions) :
                     Range_(s.matches) = Matches(client.symbol, history[r])
               /\ \A i \in 1..(n - 1) : steps[i].matches # steps[i + 1].matches
    <3>1. /\ \A i \in 1..n : \A r \in Range_(steps[i].revisions) :
                Range_(steps[i].matches) = Matches(client.symbol, history[r])
          /\ \A i \in 1..(n - 1) : steps[i].matches # steps[i + 1].matches
      BY <2>7 DEF TracedSoFar
    <3>2. \A s \in Range_(steps) : \E i \in 1..n : s = steps[i] BY <2>2 DEF Range_
    <3> QED BY <3>1, <3>2
  <2> HIDE DEF steps
  <2> QED BY <2>5, <2>6, <2>7 DEF HistoryFaithful, steps
<1> QED BY <1>1, <1>2, TraceNext, PTL DEF Spec
=============================================================================
