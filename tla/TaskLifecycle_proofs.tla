------------------------ MODULE TaskLifecycle_proofs ------------------------
(***************************************************************************)
(* What every implementation of TaskLifecycle inherits.                    *)
(***************************************************************************)
EXTENDS TaskLifecycle, TLAPS

LEMMA LifecycleInitial == LifecycleInit => LifecycleInv
BY LifecycleAssumption
   DEF LifecycleInit, LifecycleInv, LifecycleTypeOK, CountInBounds, DeliveredSettled,
       Statuses

LEMMA LifecycleInductive == LifecycleInv /\ [LifecycleNext]_lifecycle => LifecycleInv'
<1> SUFFICES ASSUME LifecycleInv, [LifecycleNext]_lifecycle PROVE LifecycleInv'
  OBVIOUS
<1> USE LifecycleAssumption
    DEF LifecycleInv, LifecycleTypeOK, CountInBounds, DeliveredSettled, Statuses, Move
<1>1. CASE UNCHANGED lifecycle
  BY <1>1 DEF lifecycle
<1>2. ASSUME NEW t \in Tasks, Create(t) \/ Enqueue(t) PROVE LifecycleInv'
  BY <1>2 DEF Create, Enqueue
<1>3. ASSUME NEW t \in Tasks, Start(t) PROVE LifecycleInv'
  BY <1>3 DEF Start, Count
<1>4. ASSUME NEW t \in Tasks, Backoff(t) PROVE LifecycleInv'
  BY <1>4 DEF Backoff, Count
<1>5. ASSUME NEW t \in Tasks, DeadLettered(t) PROVE LifecycleInv'
  BY <1>5 DEF DeadLettered, Count
<1>6. ASSUME NEW t \in Tasks, Delivered(t) PROVE LifecycleInv'
  BY <1>6 DEF Delivered
<1>7. ASSUME NEW t \in Tasks, Confirm(t) \/ Supersede(t) \/ Fail(t) PROVE LifecycleInv'
  BY <1>7 DEF Confirm, Supersede, Fail
<1>8. ASSUME NEW t \in Tasks, Requeued(t) PROVE LifecycleInv'
  BY <1>8 DEF Requeued, Count
<1> QED
  BY <1>1, <1>2, <1>3, <1>4, <1>5, <1>6, <1>7, <1>8 DEF LifecycleNext

\* A delivered task stays settled, and the attempt count stays in bounds,
\* whatever moves the rows as the life cycle allows.
THEOREM LifecycleSafe == LifecycleSpec => []LifecycleInv
BY LifecycleInitial, LifecycleInductive, PTL DEF LifecycleSpec
=============================================================================
