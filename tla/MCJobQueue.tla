---------------------------- MODULE MCJobQueue ----------------------------
(***************************************************************************)
(* Instances of JobQueue with one operation.  "Pair" is a job and its      *)
(* dependent, or two independent jobs.  "Chains" is three jobs, each       *)
(* waiting for the one before, on two workers, or instead two jobs under   *)
(* one dedupe key, as a resume enqueues a cancelled job again.             *)
(***************************************************************************)
EXTENDS JobQueue

CONSTANTS w1, w2, o1, Key

Task(j, o, p) == [id |-> j, operationId |-> o, dependsOn |-> p, delayed |-> FALSE]

OneWorker == {w1}
TwoWorkers == {w1, w2}
OneOperation == {o1}
OneSlot == [w \in Worker |-> 1]
SamePriority == [j \in Job |-> 0]
OnW1 == [j \in Job |-> w1]
SecondOnW2 == [j \in Job |-> IF j = 2 THEN w2 ELSE w1]
TwoAttempts == [j \in Job |-> 2]
OneAttempt == [j \in Job |-> 1]
NoKeys == [j \in Job |-> None]

PairJobs == 1..2
PairBatches == {{Task(1, o1, None)}, {Task(2, o1, 1)}, {Task(2, o1, None)}}

ChainJobs == 1..3
TwinJobs == 4..5
ChainsJobs == ChainJobs \cup TwinJobs
ChainsAttempts == [j \in Job |-> IF j \in TwinJobs THEN 2 ELSE 1]
KeyOfTwins == [j \in Job |-> IF j \in TwinJobs THEN Key ELSE None]
ChainsBatches ==
    { {Task(1, o1, None)}, {Task(2, o1, 1)}, {Task(3, o1, 2)},
      {Task(4, o1, None), Task(5, None, None)}, {Task(5, o1, None)} }

\* Bound: a behaviour is about the twins, or about the chain with one attempt
\* each.
ChainOrTwins ==
    \/ \A j \in ChainJobs : jobs[j] = BlankJob
    \/ /\ \A j \in TwinJobs : jobs[j] = BlankJob
       /\ \A j \in ChainJobs : jobs[j].attempts <= 1
=============================================================================
