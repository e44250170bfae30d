-------------------------- MODULE MCOperationLocks --------------------------
(***************************************************************************)
(* Three invocations over three lock files, with key sets of every shape   *)
(* the manager builds: one key (annotate, detach of nothing) and two keys  *)
(* (open, export, attach, close, detach), overlapping in all ways.         *)
(***************************************************************************)
EXTENDS OperationLocks

MCKeySets == {K \in SUBSET (1 .. NKeys) : Cardinality(K) \in {1, 2}}

=============================================================================
