--------------------------- MODULE OperationLocks ---------------------------
(***************************************************************************)
(* workspace_store.operation_locks: the advisory file locks that serialize *)
(* the manager's mutating operations.  An operation names a few keys       *)
(* ("workspace:<package>:<name>", "config:<config>:<package>"); the        *)
(* context manager takes an exclusive flock on one file per distinct key,  *)
(* in sorted order, runs the body, and unlocks in reverse order however    *)
(* the body or the acquisition ends.                                       *)
(*                                                                         *)
(* Keys are numbered by their place in the sort order.  An element of Op   *)
(* is one invocation (a CLI process, or one call of the MCP server), so it *)
(* runs at most once; how many there are is not bounded by the module.     *)
(***************************************************************************)
EXTENDS Naturals, FiniteSets

CONSTANTS Op,        \* invocations of manager operations
          NKeys,     \* number of lock files
          KeySets    \* the key sets the manager's operations ask for

Key == 1 .. NKeys

ASSUME LocksAssumption ==
    /\ NKeys \in Nat
    /\ KeySets \subseteq SUBSET Key

VARIABLES pc,        \* where each invocation is
          wanted,    \* the keys it named
          held       \* the keys whose flock it holds

lockVars == <<pc, wanted, held>>

Phase == {"new", "acquiring", "inside", "releasing", "done"}

TypeOK ==
    /\ pc \in [Op -> Phase]
    /\ wanted \in [Op -> SUBSET Key]
    /\ held \in [Op -> SUBSET Key]

LockInit ==
    /\ pc = [o \in Op |-> "new"]
    /\ wanted = [o \in Op |-> {}]
    /\ held = [o \in Op |-> {}]

-----------------------------------------------------------------------------

\* flock(LOCK_EX) returns when no open handle holds the file's lock.
Free(k) == \A q \in Op : k \notin held[q]

\* Mutant of IsNext: the keys are taken in the order the caller gave them.
UnsortedNext(o, k) == k \in wanted[o] \ held[o]

\* "for key in sorted(set(keys))": the next key is the least one missing.
IsNext(o, k) ==
    /\ k \in wanted[o] \ held[o]
    /\ \A j \in wanted[o] \ held[o] : k <= j

\* The last handle of reversed(handles): the greatest key still held.
IsLast(o, k) ==
    /\ k \in held[o]
    /\ \A j \in held[o] : j <= k

-----------------------------------------------------------------------------

\* The operation computes its keys and enters the context manager.
Request(o) ==
    /\ pc[o] = "new"
    /\ \E keys \in KeySets : wanted' = [wanted EXCEPT ![o] = keys]
    /\ pc' = [pc EXCEPT ![o] = "acquiring"]
    /\ UNCHANGED held

\* One turn of the acquisition loop.
Acquire(o) ==
    /\ pc[o] = "acquiring"
    /\ \E k \in Key :
          /\ IsNext(o, k)
          /\ Free(k)
          /\ held' = [held EXCEPT ![o] = @ \cup {k}]
    /\ UNCHANGED <<pc, wanted>>

\* The loop is over: "yield" runs the body of the operation.
Enter(o) ==
    /\ pc[o] = "acquiring"
    /\ held[o] = wanted[o]
    /\ pc' = [pc EXCEPT ![o] = "inside"]
    /\ UNCHANGED <<wanted, held>>

\* open or flock raises (also: an interrupt while waiting): finally runs.
AbortAcquire(o) ==
    /\ pc[o] = "acquiring"
    /\ held[o] # wanted[o]
    /\ pc' = [pc EXCEPT ![o] = "releasing"]
    /\ UNCHANGED <<wanted, held>>

\* The body returns or raises: finally runs.
Leave(o) ==
    /\ pc[o] = "inside"
    /\ pc' = [pc EXCEPT ![o] = "releasing"]
    /\ UNCHANGED <<wanted, held>>

\* Mutant of Release: only the last handle is unlocked and closed.
ReleaseLastOnly(o) ==
    /\ pc[o] = "releasing"
    /\ \/ /\ held[o] = {}
          /\ UNCHANGED held
       \/ \E k \in Key :
             /\ IsLast(o, k)
             /\ held' = [held EXCEPT ![o] = @ \ {k}]
    /\ pc' = [pc EXCEPT ![o] = "done"]
    /\ UNCHANGED wanted

\* One turn of the unlocking loop, or its end.
Release(o) ==
    /\ pc[o] = "releasing"
    /\ \/ /\ held[o] = {}
          /\ pc' = [pc EXCEPT ![o] = "done"]
          /\ UNCHANGED held
       \/ \E k \in Key :
             /\ IsLast(o, k)
             /\ held' = [held EXCEPT ![o] = @ \ {k}]
             /\ UNCHANGED pc
    /\ UNCHANGED wanted

\* The process dies; the kernel closes its handles and drops its flocks.
Crash(o) ==
    /\ pc[o] \in {"acquiring", "inside", "releasing"}
    /\ held' = [held EXCEPT ![o] = {}]
    /\ pc' = [pc EXCEPT ![o] = "done"]
    /\ UNCHANGED wanted

Finished ==
    /\ \A o \in Op : pc[o] = "done"
    /\ UNCHANGED lockVars

LockNext ==
    \/ \E o \in Op :
          \/ Request(o) \/ Acquire(o) \/ Enter(o) \/ AbortAcquire(o)
          \/ Leave(o) \/ Release(o) \/ Crash(o)
    \/ Finished

LockSpec == LockInit /\ [][LockNext]_lockVars

\* An invocation that can take its own next step eventually takes it; no one
\* is obliged to start, to be interrupted or to crash.
Fairness ==
    \A o \in Op : WF_lockVars(Acquire(o) \/ Enter(o) \/ Leave(o) \/ Release(o))

FairSpec == LockSpec /\ Fairness

-----------------------------------------------------------------------------
(* Properties *)

\* Two operations whose bodies run at the same time name no common key: the
\* promise of operation_locks ("Serialize manager mutations").
MutualExclusion ==
    \A o, q \in Op :
        o # q /\ pc[o] = "inside" /\ pc[q] = "inside"
            => wanted[o] \cap wanted[q] = {}

\* o is blocked in flock on a file that q has locked.
WaitsFor(o, q) ==
    /\ pc[o] = "acquiring"
    /\ \E k \in Key : IsNext(o, k) /\ k \in held[q]

\* No set of operations all wait for one another: in every non-empty set
\* somebody is not blocked by a member of the set.  This is what taking the
\* keys in sorted order is for.
NoWaitCycle ==
    \A S \in SUBSET Op :
        S # {} => \E o \in S : \A q \in S : ~ WaitsFor(o, q)

\* Once an operation is over, however it ended, none of its locks survives it.
NothingLeftLocked ==
    \A o \in Op : pc[o] = "done" => held[o] = {}

\* An operation that waits for its locks eventually runs or gives up.
EventuallyGranted ==
    \A o \in Op : pc[o] = "acquiring" ~> pc[o] # "acquiring"

\* What the induction needs beside the types: a lock has one holder, only
\* operations under way hold locks, they hold only keys they named and, while
\* acquiring, every key held precedes every key still missing.
Exclusive ==
    \A o, q \in Op : o # q => held[o] \cap held[q] = {}

HoldsWhatItNamed ==
    \A o \in Op : held[o] \subseteq wanted[o]

HeldWhenInside ==
    \A o \in Op : pc[o] = "inside" => held[o] = wanted[o]

AcquiresUpwards ==
    \A o \in Op : pc[o] = "acquiring" =>
        \A j \in held[o], k \in wanted[o] \ held[o] : j < k

IdleHoldsNothing ==
    \A o \in Op : pc[o] \in {"new", "done"} => held[o] = {}

LocksInv ==
    /\ TypeOK
    /\ Exclusive
    /\ HoldsWhatItNamed
    /\ HeldWhenInside
    /\ AcquiresUpwards
    /\ IdleHoldsNothing
=============================================================================
