------------------------------ MODULE SetOrder ------------------------------
(* SetToSortSeq of SequencesExt without its search through all functions.   *)
EXTENDS Integers, FiniteSets, Sequences

InOrder(S, Less(_, _)) ==
    [i \in 1..Cardinality(S) |->
        CHOOSE x \in S : Cardinality({y \in S : Less(y, x)}) = i - 1]
Ascending(S) == InOrder(S, LAMBDA a, b : a < b)
=============================================================================
