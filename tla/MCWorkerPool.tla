---------------------------- MODULE MCWorkerPool ----------------------------
(* Instances of WorkerPool for TLC. *)
EXTENDS WorkerPool, TLC

CONSTANTS j1, j2, w1, p1, p2

AllForOne == [j \in PoolJob |-> w1]
TwoAttempts == [j \in PoolJob |-> 2]
OneAttempt == [j \in PoolJob |-> 1]
TwoSlots == [w \in PoolWorker |-> 2]
ThreeSlots == [w \in PoolWorker |-> 3]
OneSlot == [w \in PoolWorker |-> 1]

Alike == Permutations(PoolJob) \cup Permutations(Poll)

\* Bound: two jobs are followed up to the first attempt of each, and while
\* their worker is there; one job alone to the end.
ApartOrFirst ==
    \/ \E j \in PoolJob : rows[j].status = "unused"
    \/ /\ \A j \in PoolJob : rows[j].attempts <= 1
       /\ \A w \in PoolWorker : leaving[w] = "no"
=============================================================================
