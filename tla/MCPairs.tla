------------------------------ MODULE MCPairs ------------------------------
(***************************************************************************)
(* Two jobs in one pool, or two calls for one operation.  WorkerPool and   *)
(* OperationControl share no state here: a behaviour is about one of them, *)
(* which part names, and the other stays in its initial state.             *)
(***************************************************************************)
EXTENDS MCWorkerPool, OperationControl

CONSTANTS c1, c2, o1

VARIABLE part

\* One task or two; the ids that are left are for what a resume enqueues.
\* Bound: a task that gives itself back does so once.
Task(j) == [id |-> j, operationId |-> o1, dependsOn |-> None, delayed |-> FALSE]
TaskBatches == {{Task(1)}, {Task(1), Task(2)}}
OfW1 == [j \in Job |-> w1]
OneAtATime == [w \in Worker |-> 1]
SamePriority == [j \in Job |-> 0]
NoKeys == [j \in Job |-> None]
OneTry == [j \in Job |-> 1]

PairsInit ==
    /\ part \in {"jobs", "calls"}
    /\ PoolInit
    /\ ControlInit

PairsNext ==
    \/ part = "jobs" /\ PoolNext /\ UNCHANGED <<part, controlVars>>
    \/ part = "calls" /\ ControlNext /\ UNCHANGED <<part, poolVars>>

PairsSpec == PairsInit /\ [][PairsNext]_<<part, poolVars, controlVars>>

\* Bound: only a task that is alone gives itself back, and not after a resume.
OneGivesBack ==
    \A j \in Job : jobs[j].attempts > 1 =>
        /\ j = 1
        /\ jobs[2] = BlankJob \/ taskOf[2] = 1

PairsBound == ApartOrFirst /\ OneGivesBack

PairsAlike == Alike \cup Permutations(Call)
=============================================================================
