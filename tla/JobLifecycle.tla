---------------------------- MODULE JobLifecycle ----------------------------
(***************************************************************************)
(* What the queue promises about a job to those who enqueue, execute and   *)
(* watch it: the statuses a job passes through, that it runs after the job *)
(* it depends on, that every start is a claim of its own, and that a       *)
(* result is that of the last claim.                                       *)
(*                                                                         *)
(* A step of the queue may move any number of jobs, each by one step of    *)
(* its life.  What makes a job move, in which order jobs are claimed, and  *)
(* what is counted about them is not said here.                            *)
(***************************************************************************)
EXTENDS Integers

CONSTANTS Job, None

VARIABLE life

Gone == {"unused", "deleted"}

Life ==
    [ status : {"pending", "running", "completed", "failed", "cancelled"} \cup Gone,
      parent : Job \cup {None},
      claims : Nat,           \* how often the job was claimed
      result : Nat ]          \* the claim whose result is stored, 0 is none

At(status, parent, claims, result) ==
    [status |-> status, parent |-> parent, claims |-> claims, result |-> result]

Unborn == At("unused", None, 0, 0)

\* The job j depends on has completed, or there is none (any more).
ParentDone(j) ==
    life[j].parent # None => life[life[j].parent].status = "completed"

\* A job forgets its parent when the parent is deleted, and only then.
ParentAfter(j) ==
    IF life[j].parent # None /\ life'[life[j].parent].status = "deleted"
    THEN None ELSE life[j].parent

\* j goes to a status and keeps the rest of its row.
Moves(j, from, to) ==
    /\ life[j].status \in from
    /\ life'[j] = At(to, ParentAfter(j), life[j].claims, life[j].result)

Stays(j) == life'[j] = At(life[j].status, ParentAfter(j), life[j].claims, life[j].result)

Submitted(j) ==
    /\ life[j].status = "unused"
    /\ \E p \in Job \cup {None} :
        /\ p # None => life[p].status \notin Gone
        /\ life'[j] = At("pending", p, 0, 0)

\* A running job may be claimed again: its last claim was lost.
Claimed(j) ==
    /\ life[j].status \in {"pending", "running"}
    /\ ParentDone(j)
    /\ life'[j] = At("running", life[j].parent, life[j].claims + 1, life[j].result)

GivenBack(j) == Moves(j, {"running"}, "pending")

Completed(j) ==
    /\ life[j].status = "running"
    /\ life'[j] = At("completed", life[j].parent, life[j].claims, life[j].claims)

Failed(j) == Moves(j, {"running"}, "failed")

Cancelled(j) == Moves(j, {"pending", "running"}, "cancelled")

Deleted(j) ==
    /\ life[j].status \notin Gone
    /\ life'[j] = At("deleted", None, 0, 0)

Lives(j) ==
    Stays(j) \/ Submitted(j) \/ Claimed(j) \/ GivenBack(j)
      \/ Completed(j) \/ Failed(j) \/ Cancelled(j) \/ Deleted(j)

Init == life = [j \in Job |-> Unborn]

Next ==
    /\ life' \in [Job -> Life]
    /\ \A j \in Job : Lives(j)

Spec == Init /\ [][Next]_life
=============================================================================
