-------------------------- MODULE OperationCounters --------------------------
(***************************************************************************)
(* The counter arithmetic of a worker operation: the row of                *)
(* worker_operations that groups the jobs of one user-visible task.  Each  *)
(* operator is one UPDATE of repositories/worker-operation/*.writer.ts, as *)
(* a function from the row before it to the row after it.  SQLite          *)
(* evaluates every SET expression over the row before the update, hence    *)
(* the unprimed "op" everywhere on the right.                              *)
(*                                                                         *)
(* Left out: names, references, progress percent and timestamps, which no  *)
(* counter or status expression reads.                                     *)
(***************************************************************************)
EXTENDS Integers

OperationStatus == {"pending", "running", "completed", "failed", "cancelled"}

TerminalStatus == {"completed", "failed", "cancelled"}

\* An id without a row: not used yet, or its row was deleted.  Ids are never
\* used again.
Missing == {"unused", "deleted"}

RowStatus == OperationStatus \cup Missing

OperationRow ==
    [ status : RowStatus,
      cancelRequested : BOOLEAN,
      total : Nat, pending : Nat, running : Nat,
      completed : Nat, failed : Nat, cancelled : Nat ]

BlankRow(status) ==
    [ status |-> status, cancelRequested |-> FALSE,
      total |-> 0, pending |-> 0, running |-> 0,
      completed |-> 0, failed |-> 0, cancelled |-> 0 ]

\* A new operation; one created with an error is born failed.
CreatedRow(withError) ==
    BlankRow(IF withError THEN "failed" ELSE "pending")

\* Faulty variant: without the clamp.
Unclamped(a, b) == a - b

\* MAX(a - b, 0) of the SQL.
Minus(a, b) == IF a >= b THEN a - b ELSE 0

Finished(op) == op.completed + op.failed + op.cancelled
-----------------------------------------------------------------------------
\* Faulty variant: a finished operation stays finished.
IncrementOnly(op, n) ==
    [op EXCEPT !.total = op.total + n, !.pending = op.pending + n]

\* n jobs were inserted: the total grows and a finished operation reopens.
IncrementTotalItems(op, n) ==
    IF n = 0 THEN op
    ELSE [op EXCEPT
            !.total = op.total + n,
            !.pending = op.pending + n,
            !.status = IF op.status \in {"completed", "failed"} /\ ~op.cancelRequested
                       THEN "pending" ELSE op.status]

\* n pending jobs were claimed.
MarkJobStarted(op, n) ==
    IF n = 0 THEN op
    ELSE [op EXCEPT
            !.status = IF op.status = "pending" THEN "running" ELSE op.status,
            !.pending = Minus(op.pending, n),
            !.running = op.running + n]

\* Faulty variant: the jobs stay counted as running.
RetriedStillRunning(op, n) ==
    IF n = 0 THEN op ELSE [op EXCEPT !.pending = op.pending + n]

\* n running jobs went back to the queue.
MarkJobRetried(op, n) ==
    IF n = 0 THEN op
    ELSE [op EXCEPT
            !.running = Minus(op.running, n),
            !.pending = op.pending + n,
            !.status = IF op.cancelRequested \/ op.status = "cancelled" THEN "cancelled"
                       ELSE IF Minus(op.running, n) = 0 /\ op.completed = 0 THEN "pending"
                       ELSE op.status]

\* The status a finished job leaves behind: "after" carries the new counters.
StatusAfterFinish(op, after) ==
    IF op.status = "cancelled" THEN "cancelled"
    ELSE IF Finished(after) >= op.total /\ after.running = 0
         THEN IF op.cancelRequested \/ after.cancelled > 0 THEN "cancelled"
              ELSE IF after.failed > 0 THEN "failed"
              ELSE "completed"
    ELSE IF after.running = 0 THEN "pending" ELSE "running"

\* n running jobs reached the terminal status "outcome".
MarkJobFinished(op, outcome, n) ==
    IF n = 0 THEN op
    ELSE LET after == [op EXCEPT
                         !.running = Minus(op.running, n),
                         !.completed = op.completed + (IF outcome = "completed" THEN n ELSE 0),
                         !.failed = op.failed + (IF outcome = "failed" THEN n ELSE 0),
                         !.cancelled = op.cancelled + (IF outcome = "cancelled" THEN n ELSE 0)]
         IN  [after EXCEPT !.status = StatusAfterFinish(op, after)]

\* n pending jobs were cancelled before they started.
MarkPendingJobsCancelled(op, n) ==
    IF n = 0 THEN op
    ELSE LET after == [op EXCEPT
                         !.pending = Minus(op.pending, n),
                         !.cancelled = op.cancelled + n]
         IN  [after EXCEPT
                !.status =
                  IF op.status = "cancelled" THEN "cancelled"
                  ELSE IF Finished(after) >= op.total /\ op.running = 0 THEN "cancelled"
                  ELSE IF op.running > 0 THEN "running"
                  ELSE op.status]

RequestCancel(op) ==
    [op EXCEPT !.cancelRequested = TRUE, !.status = "cancelled"]

\* Admin resume: counters restart at zero, the total is preset by the caller.
MarkResumed(total) ==
    [BlankRow("pending") EXCEPT !.total = total]

\* Rebuilds the row from the numbers of its jobs by status.  Cancelled jobs
\* are history of earlier runs and are not counted.
Reconciled(op, pending, running, completed, failed) ==
    LET active == pending + running + completed + failed
    IN  [op EXCEPT
           !.total = active, !.pending = pending, !.running = running,
           !.completed = completed, !.failed = failed, !.cancelled = 0,
           !.status = IF active = 0 \/ op.cancelRequested THEN "cancelled"
                      ELSE IF running > 0 THEN "running"
                      ELSE IF pending > 0 THEN "pending"
                      ELSE IF failed > 0 THEN "failed"
                      ELSE "completed"]
=============================================================================
