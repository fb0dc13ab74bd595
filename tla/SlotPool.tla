------------------------------ MODULE SlotPool ------------------------------
(***************************************************************************)
(* What a ConcurrencyGuard promises the ask endpoints: a pool of Size      *)
(* slots, given out without waiting, in which an owner that has work under *)
(* way keeps its slot until that work has ended.  AskAdmission is shown to *)
(* implement one such pool for each of its three guards.                   *)
(***************************************************************************)
EXTENDS Naturals, FiniteSets

CONSTANTS Owners,   \* the requests that may own a slot
          Size      \* max_concurrent

VARIABLES free,     \* the semaphore's counter
          holding,  \* the owners of a slot
          working   \* the owners whose generation task has not ended

vars == <<free, holding, working>>

Init ==
  /\ free = Size
  /\ holding = {}
  /\ working = {}

\* ConcurrencyGuard.acquire: refuses instead of waiting when no slot is free
Acquire(o) ==
  /\ free > 0
  /\ o \notin holding
  /\ free' = free - 1
  /\ holding' = holding \cup {o}
  /\ UNCHANGED working

Begin(o) ==
  /\ o \in holding
  /\ working' = working \cup {o}
  /\ UNCHANGED <<free, holding>>

End(ended) ==
  /\ working' = working \ ended
  /\ UNCHANGED <<free, holding>>

\* ConcurrencyGuard.release, never while the owner's work is under way
Release(o) ==
  /\ o \in holding
  /\ o \notin working
  /\ free' = free + 1
  /\ holding' = holding \ {o}
  /\ UNCHANGED working

Next ==
  \/ \E o \in Owners : Acquire(o) \/ Begin(o) \/ Release(o)
  \/ \E ended \in SUBSET Owners : End(ended)

Spec == Init /\ [][Next]_vars
-----------------------------------------------------------------------------
TypeOK ==
  /\ free \in Nat
  /\ holding \in SUBSET Owners
  /\ working \in SUBSET Owners

(* No slot is lost or made up: free slots and held slots add up to Size.   *)
Conserved == free + Cardinality(holding) = Size

(* Work is only done by owners of a slot, hence never more than Size at a  *)
(* time.                                                                   *)
Bounded == working \subseteq holding /\ Cardinality(working) <= Size

PoolInv == TypeOK /\ Conserved /\ working \subseteq holding
=============================================================================
