--------------------------- MODULE JobQueueProofs ---------------------------
(***************************************************************************)
(* Theorems about JobQueue, for every value of its constants: the types,   *)
(* that the counters of an operation match its rows, and that its status   *)
(* matches both.                                                           *)
(***************************************************************************)
EXTENDS JobQueue, FiniteSetTheorems, TLAPS

(***************************************************************************)
(* The counter writers of OperationCounters map rows to rows, and each     *)
(* moves exactly the items it is told to between two counters, so that no  *)
(* item is lost or counted twice.                                          *)
(***************************************************************************)
LEMMA StatusValues ==
  /\ "pending" \in RowStatus /\ "running" \in RowStatus
  /\ "completed" \in RowStatus /\ "failed" \in RowStatus
  /\ "cancelled" \in RowStatus
  /\ "unused" \in RowStatus /\ "deleted" \in RowStatus
BY DEF RowStatus, OperationStatus, Missing

LEMMA MinusType ==
  ASSUME NEW a \in Nat, NEW b \in Nat
  PROVE  /\ Minus(a, b) \in Nat
         /\ b <= a => Minus(a, b) = a - b
BY DEF Minus

LEMMA FieldTypes ==
  ASSUME NEW op \in OperationRow
  PROVE  /\ op.status \in RowStatus /\ op.cancelRequested \in BOOLEAN
         /\ op.total \in Nat /\ op.pending \in Nat /\ op.running \in Nat
         /\ op.completed \in Nat /\ op.failed \in Nat /\ op.cancelled \in Nat
BY DEF OperationRow

LEMMA BlankRowType ==
  ASSUME NEW status \in RowStatus
  PROVE  BlankRow(status) \in OperationRow
BY DEF BlankRow, OperationRow

(***************************************************************************)
(* Type correctness, one lemma per writer.                                 *)
(***************************************************************************)
LEMMA IncrementType ==
  ASSUME NEW op \in OperationRow, NEW n \in Nat
  PROVE  IncrementTotalItems(op, n) \in OperationRow
<1> DEFINE status == IF op.status \in {"completed", "failed"} /\ ~op.cancelRequested
                     THEN "pending" ELSE op.status
           total == op.total + n
           pending == op.pending + n
<1>1. status \in RowStatus /\ total \in Nat /\ pending \in Nat
  BY StatusValues DEF OperationRow, Minus
<1>2. IncrementTotalItems(op, n) = IF n = 0 THEN op ELSE
        [op EXCEPT !.total = total, !.pending = pending, !.status = status]
  BY DEF IncrementTotalItems
<1> HIDE DEF status, total, pending
<1>3. [op EXCEPT !.total = total, !.pending = pending, !.status = status] \in OperationRow
  BY <1>1, Zenon DEF OperationRow
<1>4. QED
  BY <1>2, <1>3, Zenon

LEMMA StartedType ==
  ASSUME NEW op \in OperationRow, NEW n \in Nat
  PROVE  MarkJobStarted(op, n) \in OperationRow
<1> DEFINE status == IF op.status = "pending" THEN "running" ELSE op.status
           pending == Minus(op.pending, n)
           running == op.running + n
<1>1. status \in RowStatus /\ pending \in Nat /\ running \in Nat
  BY StatusValues DEF OperationRow, Minus
<1>2. MarkJobStarted(op, n) = IF n = 0 THEN op ELSE
        [op EXCEPT !.status = status, !.pending = pending, !.running = running]
  BY DEF MarkJobStarted
<1> HIDE DEF status, pending, running
<1>3. [op EXCEPT !.status = status, !.pending = pending, !.running = running] \in OperationRow
  BY <1>1, Zenon DEF OperationRow
<1>4. QED
  BY <1>2, <1>3, Zenon

LEMMA RetriedType ==
  ASSUME NEW op \in OperationRow, NEW n \in Nat
  PROVE  MarkJobRetried(op, n) \in OperationRow
<1> DEFINE status == IF op.cancelRequested \/ op.status = "cancelled" THEN "cancelled"
                     ELSE IF Minus(op.running, n) = 0 /\ op.completed = 0 THEN "pending"
                     ELSE op.status
           running == Minus(op.running, n)
           pending == op.pending + n
<1>1. status \in RowStatus /\ running \in Nat /\ pending \in Nat
  BY StatusValues DEF OperationRow, Minus
<1>2. MarkJobRetried(op, n) = IF n = 0 THEN op ELSE
        [op EXCEPT !.running = running, !.pending = pending, !.status = status]
  BY DEF MarkJobRetried
<1> HIDE DEF status, running, pending
<1>3. [op EXCEPT !.running = running, !.pending = pending, !.status = status] \in OperationRow
  BY <1>1, Zenon DEF OperationRow
<1>4. QED
  BY <1>2, <1>3, Zenon

LEMMA FinishedType ==
  ASSUME NEW op \in OperationRow, NEW n \in Nat, NEW outcome \in TerminalStatus
  PROVE  MarkJobFinished(op, outcome, n) \in OperationRow
<1> DEFINE after == [op EXCEPT
                       !.running = Minus(op.running, n),
                       !.completed = op.completed + (IF outcome = "completed" THEN n ELSE 0),
                       !.failed = op.failed + (IF outcome = "failed" THEN n ELSE 0),
                       !.cancelled = op.cancelled + (IF outcome = "cancelled" THEN n ELSE 0)]
<1>1. after \in OperationRow
  <2> DEFINE running == Minus(op.running, n)
             completed == op.completed + (IF outcome = "completed" THEN n ELSE 0)
             failed == op.failed + (IF outcome = "failed" THEN n ELSE 0)
             cancelled == op.cancelled + (IF outcome = "cancelled" THEN n ELSE 0)
  <2>1. running \in Nat /\ completed \in Nat /\ failed \in Nat /\ cancelled \in Nat
    BY DEF OperationRow, Minus
  <2> HIDE DEF running, completed, failed, cancelled
  <2>2. [op EXCEPT !.running = running, !.completed = completed,
                   !.failed = failed, !.cancelled = cancelled] \in OperationRow
    BY <2>1, Zenon DEF OperationRow
  <2>3. QED
    BY <2>2 DEF running, completed, failed, cancelled
<1>2. MarkJobFinished(op, outcome, n) =
        IF n = 0 THEN op ELSE [after EXCEPT !.status = StatusAfterFinish(op, after)]
  BY DEF MarkJobFinished
<1> HIDE DEF after
<1>3. StatusAfterFinish(op, after) \in RowStatus
  BY StatusValues DEF StatusAfterFinish
<1>4. [after EXCEPT !.status = StatusAfterFinish(op, after)] \in OperationRow
  BY <1>1, <1>3, Zenon DEF OperationRow
<1>5. QED
  BY <1>2, <1>4, Zenon

LEMMA PendingCancelledType ==
  ASSUME NEW op \in OperationRow, NEW n \in Nat
  PROVE  MarkPendingJobsCancelled(op, n) \in OperationRow
<1> DEFINE after == [op EXCEPT !.pending = Minus(op.pending, n),
                               !.cancelled = op.cancelled + n]
           status == IF op.status = "cancelled" THEN "cancelled"
                     ELSE IF Finished(after) >= op.total /\ op.running = 0 THEN "cancelled"
                     ELSE IF op.running > 0 THEN "running"
                     ELSE op.status
<1>1. after \in OperationRow
  <2> DEFINE pending == Minus(op.pending, n)
             cancelled == op.cancelled + n
  <2>1. pending \in Nat /\ cancelled \in Nat
    BY DEF OperationRow, Minus
  <2> HIDE DEF pending, cancelled
  <2>2. [op EXCEPT !.pending = pending, !.cancelled = cancelled] \in OperationRow
    BY <2>1, Zenon DEF OperationRow
  <2>3. QED
    BY <2>2 DEF pending, cancelled
<1>2. MarkPendingJobsCancelled(op, n) =
        IF n = 0 THEN op ELSE [after EXCEPT !.status = status]
  BY DEF MarkPendingJobsCancelled
<1>3. status \in RowStatus
  BY StatusValues DEF OperationRow
<1> HIDE DEF after, status
<1>4. [after EXCEPT !.status = status] \in OperationRow
  BY <1>1, <1>3, Zenon DEF OperationRow
<1>5. QED
  BY <1>2, <1>4, Zenon

(***************************************************************************)
(* What each writer does to the counters when the clamp of the SQL does    *)
(* not bite.  In these the n = 0 shortcut of the code is no special case.  *)
(***************************************************************************)
LEMMA IncrementCounts ==
  ASSUME NEW op \in OperationRow, NEW n \in Nat
  PROVE  LET new == IncrementTotalItems(op, n)
         IN  /\ new.total = op.total + n /\ new.pending = op.pending + n
             /\ new.running = op.running /\ new.completed = op.completed
             /\ new.failed = op.failed /\ new.cancelled = op.cancelled
             /\ new.cancelRequested = op.cancelRequested
BY DEF IncrementTotalItems, OperationRow

LEMMA StartedCounts ==
  ASSUME NEW op \in OperationRow, NEW n \in Nat, n <= op.pending
  PROVE  LET new == MarkJobStarted(op, n)
         IN  /\ new.total = op.total /\ new.pending = op.pending - n
             /\ new.running = op.running + n /\ new.completed = op.completed
             /\ new.failed = op.failed /\ new.cancelled = op.cancelled
             /\ new.cancelRequested = op.cancelRequested
BY DEF MarkJobStarted, Minus, OperationRow

LEMMA RetriedCounts ==
  ASSUME NEW op \in OperationRow, NEW n \in Nat, n <= op.running
  PROVE  LET new == MarkJobRetried(op, n)
         IN  /\ new.total = op.total /\ new.pending = op.pending + n
             /\ new.running = op.running - n /\ new.completed = op.completed
             /\ new.failed = op.failed /\ new.cancelled = op.cancelled
             /\ new.cancelRequested = op.cancelRequested
BY DEF MarkJobRetried, Minus, OperationRow

LEMMA FinishedCounts ==
  ASSUME NEW op \in OperationRow, NEW n \in Nat, n <= op.running,
         NEW outcome \in TerminalStatus
  PROVE  LET new == MarkJobFinished(op, outcome, n)
         IN  /\ new.total = op.total /\ new.pending = op.pending
             /\ new.running = op.running - n
             /\ new.completed = op.completed + (IF outcome = "completed" THEN n ELSE 0)
             /\ new.failed = op.failed + (IF outcome = "failed" THEN n ELSE 0)
             /\ new.cancelled = op.cancelled + (IF outcome = "cancelled" THEN n ELSE 0)
             /\ new.cancelRequested = op.cancelRequested
BY DEF MarkJobFinished, Minus, OperationRow

LEMMA PendingCancelledCounts ==
  ASSUME NEW op \in OperationRow, NEW n \in Nat, n <= op.pending
  PROVE  LET new == MarkPendingJobsCancelled(op, n)
         IN  /\ new.total = op.total /\ new.pending = op.pending - n
             /\ new.running = op.running /\ new.completed = op.completed
             /\ new.failed = op.failed /\ new.cancelled = op.cancelled + n
             /\ new.cancelRequested = op.cancelRequested
BY DEF MarkPendingJobsCancelled, Minus, OperationRow

(***************************************************************************)
(* The status each writer computes fits the counters it leaves, provided   *)
(* the status before fitted and the total is the sum of the other five.    *)
(***************************************************************************)
Balanced(op) == op.total = op.pending + op.running + Finished(op)

StatusFits(op) ==
    /\ op.status \in {"completed", "failed"} => op.pending + op.running = 0
    /\ op.status = "completed" => op.failed + op.cancelled = 0
    /\ op.pending + op.running = 0 /\ op.total > 0 => op.status \in TerminalStatus
    /\ op.running > 0 => op.status \in {"running", "cancelled"}

LEMMA IncrementFits ==
  ASSUME NEW op \in OperationRow, NEW n \in Nat, StatusFits(op),
         n # 0 => ~op.cancelRequested
  PROVE  StatusFits(IncrementTotalItems(op, n))
<1> DEFINE new == IncrementTotalItems(op, n)
<1>0. /\ op.total \in Nat /\ op.pending \in Nat /\ op.running \in Nat
      /\ op.completed \in Nat /\ op.failed \in Nat /\ op.cancelled \in Nat
  BY FieldTypes
<1>1. /\ new.total = op.total + n /\ new.pending = op.pending + n
      /\ new.running = op.running /\ new.completed = op.completed
      /\ new.failed = op.failed /\ new.cancelled = op.cancelled
  BY IncrementCounts
<1>2. /\ n = 0 => new = op
      /\ n # 0 => new.status = IF op.status \in {"completed", "failed"}
                               THEN "pending" ELSE op.status
  BY DEF IncrementTotalItems, OperationRow
<1> SUFFICES StatusFits(new)
  OBVIOUS
<1> HIDE DEF new
<1>3. CASE n = 0
  BY <1>2, <1>3
<1>4. CASE n # 0
  <2>1. new.pending > 0 /\ new.pending + new.running # 0
    BY <1>0, <1>1, <1>4
  <2>2. new.status \notin {"completed", "failed"}
    BY <1>2, <1>4
  <2>3. new.running > 0 => new.status \in {"running", "cancelled"}
    BY <1>1, <1>2, <1>4 DEF StatusFits
  <2>4. QED
    BY <2>1, <2>2, <2>3 DEF StatusFits
<1>5. QED
  BY <1>3, <1>4

LEMMA StartedFits ==
  ASSUME NEW op \in OperationRow, NEW n \in Nat, n <= op.pending,
         Present(op), StatusFits(op)
  PROVE  StatusFits(MarkJobStarted(op, n))
<1> DEFINE new == MarkJobStarted(op, n)
<1>0. /\ op.total \in Nat /\ op.pending \in Nat /\ op.running \in Nat
      /\ op.completed \in Nat /\ op.failed \in Nat /\ op.cancelled \in Nat
  BY FieldTypes
<1>1. /\ new.total = op.total /\ new.pending = op.pending - n
      /\ new.running = op.running + n /\ new.completed = op.completed
      /\ new.failed = op.failed /\ new.cancelled = op.cancelled
  BY StartedCounts
<1>2. /\ n = 0 => new = op
      /\ n # 0 => new.status = IF op.status = "pending" THEN "running" ELSE op.status
  BY DEF MarkJobStarted, OperationRow
<1>3. op.status \in OperationStatus
  BY FieldTypes DEF Present, RowStatus
<1> SUFFICES StatusFits(new)
  OBVIOUS
<1> HIDE DEF new
<1>4. QED
  <2>1. CASE n = 0
    BY <1>2, <2>1
  <2>2. CASE n # 0
    <3>1. op.pending > 0 /\ new.running > 0
      BY <1>0, <1>1, <2>2
    <3>2. op.status \in {"pending", "running", "cancelled"}
      BY <1>0, <1>3, <3>1 DEF StatusFits, OperationStatus
    <3>3. new.status \in {"running", "cancelled"}
      BY <1>2, <2>2, <3>2
    <3>4. QED
      BY <1>0, <1>1, <3>1, <3>3 DEF StatusFits, TerminalStatus
  <2>3. QED
    BY <2>1, <2>2

LEMMA RetriedFits ==
  ASSUME NEW op \in OperationRow, NEW n \in Nat, n <= op.running, StatusFits(op)
  PROVE  StatusFits(MarkJobRetried(op, n))
<1> DEFINE new == MarkJobRetried(op, n)
<1>0. /\ op.total \in Nat /\ op.pending \in Nat /\ op.running \in Nat
      /\ op.completed \in Nat /\ op.failed \in Nat /\ op.cancelled \in Nat
  BY FieldTypes
<1>1. /\ new.total = op.total /\ new.pending = op.pending + n
      /\ new.running = op.running - n /\ new.completed = op.completed
      /\ new.failed = op.failed /\ new.cancelled = op.cancelled
  BY RetriedCounts
<1>2. /\ n = 0 => new = op
      /\ n # 0 => new.status \in {"cancelled", "pending", op.status}
      /\ n # 0 /\ new.status = "pending" => op.running = n \/ op.status = "pending"
  BY FieldTypes DEF MarkJobRetried, Minus, OperationRow
<1> SUFFICES StatusFits(new)
  OBVIOUS
<1> HIDE DEF new
<1>3. QED
  <2>1. CASE n = 0
    BY <1>2, <2>1
  <2>2. CASE n # 0
    <3>1. op.running > 0 /\ new.pending > 0 /\ op.status \in {"running", "cancelled"}
      BY <1>0, <1>1, <2>2 DEF StatusFits
    <3>2. new.status \in {"pending", "running", "cancelled"}
      BY <1>2, <2>2, <3>1
    <3>3. new.status = "pending" => new.running = 0
      BY <1>0, <1>1, <1>2, <2>2, <3>1
    <3>4. new.pending + new.running # 0 /\ (new.running > 0 => new.running # 0)
      BY <1>0, <1>1, <2>2
    <3>5. QED
      BY <3>2, <3>3, <3>4 DEF StatusFits
  <2>3. QED
    BY <2>1, <2>2

LEMMA FinishedFits ==
  ASSUME NEW op \in OperationRow, NEW n \in Nat, n <= op.running,
         NEW outcome \in TerminalStatus, Balanced(op), StatusFits(op)
  PROVE  StatusFits(MarkJobFinished(op, outcome, n))
<1> DEFINE after == [op EXCEPT
                       !.running = Minus(op.running, n),
                       !.completed = op.completed + (IF outcome = "completed" THEN n ELSE 0),
                       !.failed = op.failed + (IF outcome = "failed" THEN n ELSE 0),
                       !.cancelled = op.cancelled + (IF outcome = "cancelled" THEN n ELSE 0)]
           new == MarkJobFinished(op, outcome, n)
<1>0. /\ op.total \in Nat /\ op.pending \in Nat /\ op.running \in Nat
      /\ op.completed \in Nat /\ op.failed \in Nat /\ op.cancelled \in Nat
  BY FieldTypes
<1>1. CASE n = 0
  BY <1>1 DEF MarkJobFinished
<1>2. CASE n # 0
  <2> SUFFICES StatusFits(new)
    OBVIOUS
  <2>1. /\ new.total = op.total /\ new.pending = op.pending
        /\ new.running = op.running - n
        /\ new.completed = op.completed + (IF outcome = "completed" THEN n ELSE 0)
        /\ new.failed = op.failed + (IF outcome = "failed" THEN n ELSE 0)
        /\ new.cancelled = op.cancelled + (IF outcome = "cancelled" THEN n ELSE 0)
    BY FinishedCounts
  <2>2. new = [after EXCEPT !.status = StatusAfterFinish(op, after)]
    BY <1>2 DEF MarkJobFinished
  <2>3. /\ new.status = StatusAfterFinish(op, after)
        /\ new.running = after.running /\ new.completed = after.completed
        /\ new.failed = after.failed /\ new.cancelled = after.cancelled
    <3>1. DOMAIN after = {"status", "cancelRequested", "total", "pending", "running",
                          "completed", "failed", "cancelled"}
      BY DEF OperationRow
    <3> HIDE DEF after, new
    <3>2. QED
      BY <2>2, <3>1
  <2> HIDE DEF after, new
  <2>4. Finished(new) = Finished(after) /\ Finished(new) = Finished(op) + n
    <3>1. Finished(new) = Finished(after)
      BY <2>3 DEF Finished
    <3>2. Finished(new) = Finished(op) + n
      BY <1>0, <2>1 DEF Finished, TerminalStatus
    <3>3. QED
      BY <3>1, <3>2
  <2>5. Finished(new) >= op.total <=> new.pending + new.running = 0
    <3>1. Finished(op) \in Nat
      BY <1>0 DEF Finished
    <3>2. QED
      BY <1>0, <2>1, <2>4, <3>1 DEF Balanced
  <2>6. /\ new.pending \in Nat /\ new.running \in Nat /\ new.failed \in Nat
        /\ new.cancelled \in Nat /\ new.total \in Nat
    BY <1>0, <2>1
  <2>7. new.status =
          IF op.status = "cancelled" THEN "cancelled"
          ELSE IF new.pending + new.running = 0 /\ new.running = 0
               THEN IF op.cancelRequested \/ new.cancelled > 0 THEN "cancelled"
                    ELSE IF new.failed > 0 THEN "failed"
                    ELSE "completed"
          ELSE IF new.running = 0 THEN "pending" ELSE "running"
    BY <2>3, <2>4, <2>5 DEF StatusAfterFinish
  <2>8. QED
    BY <2>6, <2>7 DEF StatusFits, TerminalStatus
<1>3. QED
  BY <1>1, <1>2

LEMMA PendingCancelledFits ==
  ASSUME NEW op \in OperationRow, NEW n \in Nat, n <= op.pending,
         Present(op), Balanced(op), StatusFits(op)
  PROVE  StatusFits(MarkPendingJobsCancelled(op, n))
<1> DEFINE after == [op EXCEPT !.pending = Minus(op.pending, n),
                               !.cancelled = op.cancelled + n]
           new == MarkPendingJobsCancelled(op, n)
<1>0. /\ op.total \in Nat /\ op.pending \in Nat /\ op.running \in Nat
      /\ op.completed \in Nat /\ op.failed \in Nat /\ op.cancelled \in Nat
  BY FieldTypes
<1>1. CASE n = 0
  BY <1>1 DEF MarkPendingJobsCancelled
<1>2. CASE n # 0
  <2> SUFFICES StatusFits(new)
    OBVIOUS
  <2>1. /\ new.total = op.total /\ new.pending = op.pending - n
        /\ new.running = op.running /\ new.completed = op.completed
        /\ new.failed = op.failed /\ new.cancelled = op.cancelled + n
    BY PendingCancelledCounts
  <2>2. Finished(after) = Finished(op) + n
    BY FieldTypes DEF Finished, OperationRow
  <2>3. new.status =
          IF op.status = "cancelled" THEN "cancelled"
          ELSE IF Finished(after) >= op.total /\ op.running = 0 THEN "cancelled"
          ELSE IF op.running > 0 THEN "running"
          ELSE op.status
    BY <1>2 DEF MarkPendingJobsCancelled, OperationRow
  <2> HIDE DEF after, new
  <2>4. Finished(after) >= op.total <=> new.pending + new.running = 0
    BY <1>0, <2>1, <2>2 DEF Balanced, Finished
  <2>5. op.pending > 0 /\ op.status \notin {"completed", "failed"}
    BY <1>0, <1>2 DEF StatusFits
  <2>6. QED
    BY <2>1, <2>3, <2>4, <2>5, <1>0 DEF StatusFits, TerminalStatus
<1>3. QED
  BY <1>1, <1>2
-----------------------------------------------------------------------------
DbType == [jobs : [Job -> JobRow], ops : [Operation -> OperationRow]]
-----------------------------------------------------------------------------
LEMMA JobsFinite ==
  ASSUME NEW S \in SUBSET Job
  PROVE  IsFiniteSet(S) /\ Cardinality(S) \in Nat
BY JobAssumption, FS_Subset, FS_CardinalityType

LEMMA CountType ==
  ASSUME NEW js, NEW S \in SUBSET Job, NEW o
  PROVE  CountOf(js, S, o) \in Nat
BY JobsFinite DEF CountOf

LEMMA NextDueType ==
  ASSUME NEW js \in [Job -> JobRow], NEW S \in SUBSET Job
  PROVE  NextDue(js, S) \in Nat \ {0}
<1> DEFINE A == {k \in S : js[k].status \in Active}
           Upto == [j \in A |-> 1..js[j].dueAs]
           U == UNION {1..js[j].dueAs : j \in A}
<1>1. IsFiniteSet(A)
  BY JobsFinite
<1>2. \A j \in A : IsFiniteSet(Upto[j])
  <2> TAKE j \in A
  <2>1. js[j].dueAs \in Int
    BY DEF JobRow
  <2>2. QED
    BY <2>1, FS_Interval
<1>3. IsFiniteSet({Upto[j] : j \in A})
  <2>1. Upto \in Surjection(A, {Upto[j] : j \in A})
    BY DEF Surjection
  <2>2. QED
    BY <1>1, <2>1, FS_Surjection
<1>4. IsFiniteSet(UNION {Upto[j] : j \in A})
  BY <1>2, <1>3, FS_UNION
<1>5. UNION {Upto[j] : j \in A} = U
  OBVIOUS
<1>6. Cardinality(U) \in Nat
  BY <1>4, <1>5, FS_CardinalityType
<1>7. QED
  BY <1>6 DEF NextDue

LEMMA ReleaseType ==
  ASSUME NEW row \in JobRow, NEW status \in RowStatus
  PROVE  Release(row, status) \in JobRow
BY Zenon DEF Release, JobRow

LEMMA ReleaseFields ==
  ASSUME NEW row \in JobRow, NEW status \in RowStatus
  PROVE  LET new == Release(row, status)
         IN  /\ new.status = status /\ new.claimToken = 0
             /\ new.operationId = row.operationId /\ new.dependsOn = row.dependsOn
             /\ new.attempts = row.attempts /\ new.dueAs = row.dueAs
             /\ new.result = row.result
BY DEF Release, JobRow

LEMMA MovedType ==
  ASSUME NEW js \in [Job -> JobRow], NEW S, NEW status \in RowStatus
  PROVE  Moved(js, S, status) \in [Job -> JobRow]
BY ReleaseType DEF Moved

LEMMA ClaimedType ==
  ASSUME NEW row \in JobRow
  PROVE  /\ ClaimedRow(row) \in JobRow
         /\ ClaimedRow(row).status = "running"
         /\ ClaimedRow(row).operationId = row.operationId
         /\ ClaimedRow(row).dependsOn = row.dependsOn
         /\ ClaimedRow(row).result = row.result
<1> DEFINE attempts == row.attempts + 1
<1>1. attempts \in Nat
  BY DEF JobRow
<1> HIDE DEF attempts
<1>2. [row EXCEPT !.status = "running", !.attempts = attempts,
                  !.claimToken = attempts,
                  !.leaseExpired = FALSE, !.foreign = FALSE] \in JobRow
  BY <1>1, StatusValues, Zenon DEF JobRow
<1>3. QED
  <2>1. ClaimedRow(row) \in JobRow
    BY <1>2 DEF ClaimedRow, attempts
  <2>2. QED
    BY <2>1 DEF ClaimedRow, JobRow
-----------------------------------------------------------------------------
(***************************************************************************)
(* Moving a set of jobs from one status to another moves as many from one  *)
(* count to the other, for every operation.                                *)
(***************************************************************************)
Shifted(js, new, S, from, to, o) ==
  /\ CountOf(js, S, o) \in Nat
  /\ CountIn(js, from, o) \in Nat /\ CountIn(js, to, o) \in Nat
  /\ CountOf(js, S, o) <= CountIn(js, from, o)
  /\ CountIn(new, from, o) = CountIn(js, from, o) - CountOf(js, S, o)
  /\ CountIn(new, to, o) = CountIn(js, to, o) + CountOf(js, S, o)
  /\ \A st : st \notin {from, to} => CountIn(new, st, o) = CountIn(js, st, o)

LEMMA MoveCounts ==
  ASSUME NEW js, NEW new, NEW S \in SUBSET Job, NEW from, NEW to, from # to,
         \A j \in Job : new[j].operationId = js[j].operationId,
         \A j \in S : js[j].status = from /\ new[j].status = to,
         \A j \in Job \ S : new[j].status = js[j].status,
         NEW o
  PROVE  Shifted(js, new, S, from, to, o)
<1> DEFINE Of(st) == {j \in InState(js, st) : js[j].operationId = o}
           OfNew(st) == {j \in InState(new, st) : new[j].operationId = o}
           M == {j \in S : js[j].operationId = o}
<1>1. /\ CountOf(js, S, o) = Cardinality(M)
      /\ \A st : CountIn(js, st, o) = Cardinality(Of(st))
      /\ \A st : CountIn(new, st, o) = Cardinality(OfNew(st))
  BY DEF CountOf, CountIn
<1>2. /\ M \subseteq Of(from)
      /\ OfNew(from) = Of(from) \ M
      /\ OfNew(to) = Of(to) \cup M
      /\ Of(to) \cap M = {}
      /\ \A st : st \notin {from, to} => OfNew(st) = Of(st)
  BY DEF InState
<1>3. /\ IsFiniteSet(M) /\ Cardinality(M) \in Nat
      /\ \A st : IsFiniteSet(Of(st)) /\ Cardinality(Of(st)) \in Nat
  BY JobsFinite DEF InState
<1> HIDE DEF Of, OfNew, M
<1>4. Cardinality(M) <= Cardinality(Of(from))
  BY <1>2, <1>3, FS_Subset
<1>5. Cardinality(OfNew(from)) = Cardinality(Of(from)) - Cardinality(M)
  <2>1. Of(from) \cap M = M
    BY <1>2
  <2>2. IsFiniteSet(Of(from)) /\ IsFiniteSet(M)
    BY <1>3
  <2>3. Cardinality(Of(from) \ M) = Cardinality(Of(from)) - Cardinality(Of(from) \cap M)
    BY <2>2, FS_Difference
  <2>4. OfNew(from) = Of(from) \ M
    BY <1>2
  <2>5. QED
    BY <2>1, <2>3, <2>4
<1>6. Cardinality(OfNew(to)) = Cardinality(Of(to)) + Cardinality(M)
  <2>1. Cardinality(Of(to) \cap M) = 0
    BY <1>2, FS_EmptySet
  <2>2. Cardinality(Of(to) \cup M)
          = Cardinality(Of(to)) + Cardinality(M) - Cardinality(Of(to) \cap M)
    BY <1>3, FS_Union
  <2>3. QED
    BY <2>1, <2>2, <1>2, <1>3
<1>7. QED
  BY <1>1, <1>2, <1>3, <1>4, <1>5, <1>6 DEF Shifted
-----------------------------------------------------------------------------
(***************************************************************************)
(* What holds of the two tables between transactions: jobs refer to        *)
(* operations that exist, and settled operations are counted exactly, with *)
(* a status that fits.                                                     *)
(***************************************************************************)
ForeignKey(db) ==
    \A j \in Job : LET o == db.jobs[j].operationId
                   IN  o # None => o \in Operation /\ Present(db.ops[o])

Kept(db, o) == RowsCounted(db, o, hidden[o]) /\ StatusFits(db.ops[o])

Counted(db) ==
    \A o \in Operation : Present(db.ops[o]) /\ o \notin unsettled => Kept(db, o)

Good(db) ==
    /\ db \in DbType /\ hidden \in [Operation -> Nat]
    /\ ForeignKey(db) /\ Counted(db)

LEMMA DbFields ==
  ASSUME NEW db \in DbType
  PROVE  /\ db.jobs \in [Job -> JobRow] /\ db.ops \in [Operation -> OperationRow]
         /\ \A j \in Job : db.jobs[j] \in JobRow
         /\ \A o \in Operation : db.ops[o] \in OperationRow
BY DEF DbType

(***************************************************************************)
(* The writers keep a present row present, and with n = 0 change nothing.  *)
(***************************************************************************)
LEMMA WritersKeepRow ==
  ASSUME NEW op \in OperationRow, Present(op), NEW n \in Nat, NEW outcome \in TerminalStatus
  PROVE  /\ Present(MarkJobStarted(op, n)) /\ Present(MarkJobRetried(op, n))
         /\ Present(MarkJobFinished(op, outcome, n))
         /\ Present(MarkPendingJobsCancelled(op, n))
         /\ Present(IncrementTotalItems(op, n))
BY DEF Present, Missing, OperationRow, MarkJobStarted, MarkJobRetried, MarkJobFinished,
       MarkPendingJobsCancelled, IncrementTotalItems, StatusAfterFinish

LEMMA NothingCounted ==
  ASSUME NEW db \in DbType, ForeignKey(db), NEW S \in SUBSET Job,
         NEW o \in Operation, ~Present(db.ops[o])
  PROVE  CountOf(db.jobs, S, o) = 0
<1>1. {j \in S : db.jobs[j].operationId = o} = {}
  BY NoneAssumption DEF ForeignKey
<1>2. QED
  BY <1>1, FS_EmptySet DEF CountOf

(***************************************************************************)
(* The frame shared by the four writers: the jobs S go from one status to  *)
(* another, and every operation's counters are changed by as many.         *)
(***************************************************************************)
LEMMA GoodAfterMove ==
  ASSUME NEW db, Good(db), NEW js \in [Job -> JobRow], NEW os \in [Operation -> OperationRow],
         NEW S \in SUBSET Job, NEW from, NEW to, from # to,
         \A j \in Job : js[j].operationId = db.jobs[j].operationId,
         \A j \in S : db.jobs[j].status = from /\ js[j].status = to,
         \A j \in Job \ S : js[j].status = db.jobs[j].status,
         \A o \in Operation :
            LET n == CountOf(db.jobs, S, o)
            IN  /\ Present(db.ops[o]) => Present(os[o])
                /\ n = 0 => os[o] = db.ops[o],
         \A o \in Operation :
            Present(db.ops[o]) /\ Kept(db, o) /\ Shifted(db.jobs, js, S, from, to, o)
              => Kept([jobs |-> js, ops |-> os], o)
  PROVE  Good([jobs |-> js, ops |-> os])
<1> DEFINE new == [jobs |-> js, ops |-> os]
<1>1. new \in DbType /\ new.jobs = js /\ new.ops = os
  BY DEF DbType
<1>2. ForeignKey(new)
  BY <1>1 DEF ForeignKey, Good
<1>3. Counted(new)
  <2> SUFFICES ASSUME NEW o \in Operation, Present(os[o]), o \notin unsettled
               PROVE  Kept(new, o)
    BY <1>1 DEF Counted
  <2>1. Present(db.ops[o])
    BY NothingCounted DEF Good
  <2>2. Kept(db, o)
    BY <2>1 DEF Good, Counted
  <2>3. Shifted(db.jobs, js, S, from, to, o)
    BY MoveCounts
  <2>4. QED
    BY <2>1, <2>2, <2>3
<1>4. QED
  BY <1>1, <1>2, <1>3 DEF Good

(***************************************************************************)
(* Each kind of move keeps the tables good: pending jobs are cancelled or  *)
(* started, running ones are requeued or finished.                         *)
(***************************************************************************)
LEMMA GoodAfterPendingCancelled ==
  ASSUME NEW db, Good(db), NEW S \in SUBSET InState(db.jobs, "pending")
  PROVE  Good([jobs |-> Moved(db.jobs, S, "cancelled"),
               ops |-> CountPendingCancelled(db.jobs, db.ops, S)])
<1> DEFINE js == Moved(db.jobs, S, "cancelled")
           os == CountPendingCancelled(db.jobs, db.ops, S)
<1>1. /\ db \in DbType /\ S \in SUBSET Job
      /\ db.jobs \in [Job -> JobRow] /\ db.ops \in [Operation -> OperationRow]
  BY DbFields DEF Good, InState
<1>2. js \in [Job -> JobRow]
  BY <1>1, MovedType, StatusValues
<1>3. /\ \A j \in Job : js[j].operationId = db.jobs[j].operationId
      /\ \A j \in S : db.jobs[j].status = "pending" /\ js[j].status = "cancelled"
      /\ \A j \in Job \ S : js[j].status = db.jobs[j].status
  BY <1>1, ReleaseFields, StatusValues DEF Moved, InState
<1>4. \A o \in Operation : CountOf(db.jobs, S, o) \in Nat
  BY <1>1, CountType
<1>5. \A o \in Operation : os[o] = MarkPendingJobsCancelled(db.ops[o], CountOf(db.jobs, S, o))
  BY DEF CountPendingCancelled
<1>6. os \in [Operation -> OperationRow]
  BY <1>1, <1>4, PendingCancelledType DEF CountPendingCancelled
<1>7. \A o \in Operation :
         LET n == CountOf(db.jobs, S, o)
         IN  /\ Present(db.ops[o]) => Present(os[o])
             /\ n = 0 => os[o] = db.ops[o]
  <2> TAKE o \in Operation
  <2> DEFINE n == CountOf(db.jobs, S, o)
  <2>1. n \in Nat /\ db.ops[o] \in OperationRow /\ os[o] = MarkPendingJobsCancelled(db.ops[o], n)
    BY <1>1, <1>4, <1>5
  <2> HIDE DEF n, os
  <2>2. n = 0 => os[o] = db.ops[o]
    BY <2>1 DEF MarkPendingJobsCancelled
  <2>3. Present(db.ops[o]) => Present(os[o])
    BY <2>1, WritersKeepRow DEF TerminalStatus
  <2>4. QED
    BY <2>2, <2>3 DEF n
<1>8. ASSUME NEW o \in Operation, Present(db.ops[o]), Kept(db, o),
             Shifted(db.jobs, js, S, "pending", "cancelled", o)
      PROVE  Kept([jobs |-> js, ops |-> os], o)
  <2> DEFINE n == CountOf(db.jobs, S, o)
  <2> HIDE DEF js, os
  <2>1. n \in Nat /\ db.ops[o] \in OperationRow /\ n <= db.ops[o].pending
    BY <1>1, <1>8 DEF Shifted, Kept, RowsCounted
  <2>0. hidden[o] \in Nat
    BY DEF Good
  <2>2. os[o] = MarkPendingJobsCancelled(db.ops[o], n)
    BY <1>5
  <2>3. LET new == MarkPendingJobsCancelled(db.ops[o], n)
        IN  /\ new.total = db.ops[o].total /\ new.pending = db.ops[o].pending - n
            /\ new.running = db.ops[o].running /\ new.completed = db.ops[o].completed
            /\ new.failed = db.ops[o].failed /\ new.cancelled = db.ops[o].cancelled + n
            /\ new.cancelRequested = db.ops[o].cancelRequested
    BY <2>1, PendingCancelledCounts
  <2>4. RowsCounted([jobs |-> js, ops |-> os], o, hidden[o])
    BY <1>1, <1>8, <2>1, <2>0, <2>2, <2>3 DEF Kept, RowsCounted, Shifted, Finished, OperationRow
  <2>5. StatusFits(os[o])
    BY <1>8, <2>1, <2>2, PendingCancelledFits DEF Kept, RowsCounted, Balanced
  <2>6. QED
    BY <2>4, <2>5 DEF Kept
<1>9. QED
  <2> HIDE DEF js, os
  <2>1. Good([jobs |-> js, ops |-> os])
    BY <1>1, <1>2, <1>3, <1>6, <1>7, <1>8, GoodAfterMove
  <2>2. QED
    BY <2>1 DEF js, os

LEMMA GoodAfterStarted ==
  ASSUME NEW db, Good(db), NEW S \in SUBSET InState(db.jobs, "pending")
  PROVE  Good([jobs |-> [j \in Job |-> IF j \in S THEN ClaimedRow(db.jobs[j])
                                       ELSE db.jobs[j]],
               ops |-> CountStarted(db.jobs, db.ops, S)])
<1> DEFINE js == [j \in Job |-> IF j \in S THEN ClaimedRow(db.jobs[j]) ELSE db.jobs[j]]
           os == CountStarted(db.jobs, db.ops, S)
<1>1. /\ db \in DbType /\ S \in SUBSET Job
      /\ db.jobs \in [Job -> JobRow] /\ db.ops \in [Operation -> OperationRow]
  BY DbFields DEF Good, InState
<1>2. js \in [Job -> JobRow]
  BY <1>1, ClaimedType
<1>3. /\ \A j \in Job : js[j].operationId = db.jobs[j].operationId
      /\ \A j \in S : db.jobs[j].status = "pending" /\ js[j].status = "running"
      /\ \A j \in Job \ S : js[j].status = db.jobs[j].status
  BY <1>1, ClaimedType DEF InState
<1>4. \A o \in Operation : CountOf(db.jobs, S, o) \in Nat
  BY <1>1, CountType
<1>5. \A o \in Operation : os[o] = MarkJobStarted(db.ops[o], CountOf(db.jobs, S, o))
  BY DEF CountStarted
<1>6. os \in [Operation -> OperationRow]
  BY <1>1, <1>4, StartedType DEF CountStarted
<1>7. \A o \in Operation :
         LET n == CountOf(db.jobs, S, o)
         IN  /\ Present(db.ops[o]) => Present(os[o])
             /\ n = 0 => os[o] = db.ops[o]
  <2> TAKE o \in Operation
  <2> DEFINE n == CountOf(db.jobs, S, o)
  <2>1. n \in Nat /\ db.ops[o] \in OperationRow /\ os[o] = MarkJobStarted(db.ops[o], n)
    BY <1>1, <1>4, <1>5
  <2> HIDE DEF n, os
  <2>2. n = 0 => os[o] = db.ops[o]
    BY <2>1 DEF MarkJobStarted
  <2>3. Present(db.ops[o]) => Present(os[o])
    BY <2>1, WritersKeepRow DEF TerminalStatus
  <2>4. QED
    BY <2>2, <2>3 DEF n
<1>8. ASSUME NEW o \in Operation, Present(db.ops[o]), Kept(db, o),
             Shifted(db.jobs, js, S, "pending", "running", o)
      PROVE  Kept([jobs |-> js, ops |-> os], o)
  <2> DEFINE n == CountOf(db.jobs, S, o)
  <2> HIDE DEF js, os
  <2>1. n \in Nat /\ db.ops[o] \in OperationRow /\ n <= db.ops[o].pending
    BY <1>1, <1>8 DEF Shifted, Kept, RowsCounted
  <2>0. hidden[o] \in Nat
    BY DEF Good
  <2>2. os[o] = MarkJobStarted(db.ops[o], n)
    BY <1>5
  <2>3. LET new == MarkJobStarted(db.ops[o], n)
        IN  /\ new.total = db.ops[o].total /\ new.pending = db.ops[o].pending - n
            /\ new.running = db.ops[o].running + n /\ new.completed = db.ops[o].completed
            /\ new.failed = db.ops[o].failed /\ new.cancelled = db.ops[o].cancelled
            /\ new.cancelRequested = db.ops[o].cancelRequested
    BY <2>1, StartedCounts
  <2>4. RowsCounted([jobs |-> js, ops |-> os], o, hidden[o])
    BY <1>1, <1>8, <2>1, <2>0, <2>2, <2>3 DEF Kept, RowsCounted, Shifted, Finished, OperationRow
  <2>5. StatusFits(os[o])
    BY <1>8, <2>1, <2>2, StartedFits DEF Kept, RowsCounted, Balanced
  <2>6. QED
    BY <2>4, <2>5 DEF Kept
<1>9. QED
  <2> HIDE DEF js, os
  <2>1. Good([jobs |-> js, ops |-> os])
    BY <1>1, <1>2, <1>3, <1>6, <1>7, <1>8, GoodAfterMove
  <2>2. QED
    BY <2>1 DEF js, os

LEMMA GoodAfterRetried ==
  ASSUME NEW db, Good(db), NEW S \in SUBSET InState(db.jobs, "running")
  PROVE  Good([jobs |-> Moved(db.jobs, S, "pending"),
               ops |-> CountRetried(db.jobs, db.ops, S)])
<1> DEFINE js == Moved(db.jobs, S, "pending")
           os == CountRetried(db.jobs, db.ops, S)
<1>1. /\ db \in DbType /\ S \in SUBSET Job
      /\ db.jobs \in [Job -> JobRow] /\ db.ops \in [Operation -> OperationRow]
  BY DbFields DEF Good, InState
<1>2. js \in [Job -> JobRow]
  BY <1>1, MovedType, StatusValues
<1>3. /\ \A j \in Job : js[j].operationId = db.jobs[j].operationId
      /\ \A j \in S : db.jobs[j].status = "running" /\ js[j].status = "pending"
      /\ \A j \in Job \ S : js[j].status = db.jobs[j].status
  BY <1>1, ReleaseFields, StatusValues DEF Moved, InState
<1>4. \A o \in Operation : CountOf(db.jobs, S, o) \in Nat
  BY <1>1, CountType
<1>5. \A o \in Operation : os[o] = MarkJobRetried(db.ops[o], CountOf(db.jobs, S, o))
  BY DEF CountRetried
<1>6. os \in [Operation -> OperationRow]
  BY <1>1, <1>4, RetriedType DEF CountRetried
<1>7. \A o \in Operation :
         LET n == CountOf(db.jobs, S, o)
         IN  /\ Present(db.ops[o]) => Present(os[o])
             /\ n = 0 => os[o] = db.ops[o]
  <2> TAKE o \in Operation
  <2> DEFINE n == CountOf(db.jobs, S, o)
  <2>1. n \in Nat /\ db.ops[o] \in OperationRow /\ os[o] = MarkJobRetried(db.ops[o], n)
    BY <1>1, <1>4, <1>5
  <2> HIDE DEF n, os
  <2>2. n = 0 => os[o] = db.ops[o]
    BY <2>1 DEF MarkJobRetried
  <2>3. Present(db.ops[o]) => Present(os[o])
    BY <2>1, WritersKeepRow DEF TerminalStatus
  <2>4. QED
    BY <2>2, <2>3 DEF n
<1>8. ASSUME NEW o \in Operation, Present(db.ops[o]), Kept(db, o),
             Shifted(db.jobs, js, S, "running", "pending", o)
      PROVE  Kept([jobs |-> js, ops |-> os], o)
  <2> DEFINE n == CountOf(db.jobs, S, o)
  <2> HIDE DEF js, os
  <2>1. n \in Nat /\ db.ops[o] \in OperationRow /\ n <= db.ops[o].running
    BY <1>1, <1>8 DEF Shifted, Kept, RowsCounted
  <2>0. hidden[o] \in Nat
    BY DEF Good
  <2>2. os[o] = MarkJobRetried(db.ops[o], n)
    BY <1>5
  <2>3. LET new == MarkJobRetried(db.ops[o], n)
        IN  /\ new.total = db.ops[o].total /\ new.pending = db.ops[o].pending + n
            /\ new.running = db.ops[o].running - n /\ new.completed = db.ops[o].completed
            /\ new.failed = db.ops[o].failed /\ new.cancelled = db.ops[o].cancelled
            /\ new.cancelRequested = db.ops[o].cancelRequested
    BY <2>1, RetriedCounts
  <2>4. RowsCounted([jobs |-> js, ops |-> os], o, hidden[o])
    BY <1>1, <1>8, <2>1, <2>0, <2>2, <2>3 DEF Kept, RowsCounted, Shifted, Finished, OperationRow
  <2>5. StatusFits(os[o])
    BY <1>8, <2>1, <2>2, RetriedFits DEF Kept, RowsCounted, Balanced
  <2>6. QED
    BY <2>4, <2>5 DEF Kept
<1>9. QED
  <2> HIDE DEF js, os
  <2>1. Good([jobs |-> js, ops |-> os])
    BY <1>1, <1>2, <1>3, <1>6, <1>7, <1>8, GoodAfterMove
  <2>2. QED
    BY <2>1 DEF js, os

LEMMA GoodAfterFinished ==
  ASSUME NEW db, Good(db), NEW S \in SUBSET InState(db.jobs, "running"), NEW outcome \in TerminalStatus
  PROVE  Good([jobs |-> Moved(db.jobs, S, outcome),
               ops |-> CountFinished(db.jobs, db.ops, S, outcome)])
<1> DEFINE js == Moved(db.jobs, S, outcome)
           os == CountFinished(db.jobs, db.ops, S, outcome)
<1>1. /\ db \in DbType /\ S \in SUBSET Job
      /\ db.jobs \in [Job -> JobRow] /\ db.ops \in [Operation -> OperationRow]
  BY DbFields DEF Good, InState
<1>2. js \in [Job -> JobRow]
  BY <1>1, MovedType, StatusValues DEF TerminalStatus
<1>3. /\ \A j \in Job : js[j].operationId = db.jobs[j].operationId
      /\ \A j \in S : db.jobs[j].status = "running" /\ js[j].status = outcome
      /\ \A j \in Job \ S : js[j].status = db.jobs[j].status
  BY <1>1, ReleaseFields, StatusValues DEF Moved, InState, TerminalStatus
<1>4. \A o \in Operation : CountOf(db.jobs, S, o) \in Nat
  BY <1>1, CountType
<1>5. \A o \in Operation : os[o] = MarkJobFinished(db.ops[o], outcome, CountOf(db.jobs, S, o))
  BY DEF CountFinished
<1>6. os \in [Operation -> OperationRow]
  BY <1>1, <1>4, FinishedType DEF CountFinished
<1>7. \A o \in Operation :
         LET n == CountOf(db.jobs, S, o)
         IN  /\ Present(db.ops[o]) => Present(os[o])
             /\ n = 0 => os[o] = db.ops[o]
  <2> TAKE o \in Operation
  <2> DEFINE n == CountOf(db.jobs, S, o)
  <2>1. n \in Nat /\ db.ops[o] \in OperationRow /\ os[o] = MarkJobFinished(db.ops[o], outcome, n)
    BY <1>1, <1>4, <1>5
  <2> HIDE DEF n, os
  <2>2. n = 0 => os[o] = db.ops[o]
    BY <2>1 DEF MarkJobFinished
  <2>3. Present(db.ops[o]) => Present(os[o])
    BY <2>1, WritersKeepRow
  <2>4. QED
    BY <2>2, <2>3 DEF n
<1>8. ASSUME NEW o \in Operation, Present(db.ops[o]), Kept(db, o),
             Shifted(db.jobs, js, S, "running", outcome, o)
      PROVE  Kept([jobs |-> js, ops |-> os], o)
  <2> DEFINE n == CountOf(db.jobs, S, o)
  <2> HIDE DEF js, os
  <2>1. n \in Nat /\ db.ops[o] \in OperationRow /\ n <= db.ops[o].running
    BY <1>1, <1>8 DEF Shifted, Kept, RowsCounted
  <2>0. hidden[o] \in Nat
    BY DEF Good
  <2>2. os[o] = MarkJobFinished(db.ops[o], outcome, n)
    BY <1>5
  <2>3. LET new == MarkJobFinished(db.ops[o], outcome, n)
        IN  /\ new.total = db.ops[o].total /\ new.pending = db.ops[o].pending
            /\ new.running = db.ops[o].running - n
            /\ new.completed = db.ops[o].completed + (IF outcome = "completed" THEN n ELSE 0)
            /\ new.failed = db.ops[o].failed + (IF outcome = "failed" THEN n ELSE 0)
            /\ new.cancelled = db.ops[o].cancelled + (IF outcome = "cancelled" THEN n ELSE 0)
            /\ new.cancelRequested = db.ops[o].cancelRequested
    BY <2>1, FinishedCounts
  <2>4. RowsCounted([jobs |-> js, ops |-> os], o, hidden[o])
    <3>1. CASE outcome = "completed"
      BY <1>1, <1>8, <2>1, <2>0, <2>2, <2>3, <3>1
      DEF Kept, RowsCounted, Shifted, Finished, OperationRow
    <3>2. CASE outcome = "failed"
      BY <1>1, <1>8, <2>1, <2>0, <2>2, <2>3, <3>2
      DEF Kept, RowsCounted, Shifted, Finished, OperationRow
    <3>3. CASE outcome = "cancelled"
      BY <1>1, <1>8, <2>1, <2>0, <2>2, <2>3, <3>3
      DEF Kept, RowsCounted, Shifted, Finished, OperationRow
    <3>4. QED
      BY <3>1, <3>2, <3>3 DEF TerminalStatus
  <2>5. StatusFits(os[o])
    BY <1>8, <2>1, <2>2, FinishedFits DEF Kept, RowsCounted, Balanced
  <2>6. QED
    BY <2>4, <2>5 DEF Kept
<1>9. QED
  <2> HIDE DEF js, os
  <2>1. "running" # outcome
    BY DEF TerminalStatus
  <2>2. Good([jobs |-> js, ops |-> os])
    BY <2>1, <1>1, <1>2, <1>3, <1>6, <1>7, <1>8, GoodAfterMove
  <2>3. QED
    BY <2>2 DEF js, os

(***************************************************************************)
(* The operators the transactions are composed of.                         *)
(***************************************************************************)
LEMMA DependentsPending ==
  ASSUME NEW js, NEW S
  PROVE  PendingDependents(js, S) \in SUBSET InState(js, "pending")
BY DEF PendingDependents

LEMMA GoodAfterCancelPending ==
  ASSUME NEW db, Good(db), NEW S \in SUBSET InState(db.jobs, "pending")
  PROVE  Good(CancelPendingJobs(db, S))
<1>1. S \cup PendingDependents(db.jobs, S) \in SUBSET InState(db.jobs, "pending")
  BY DependentsPending
<1>2. QED
  BY <1>1, GoodAfterPendingCancelled DEF CancelPendingJobs

LEMMA GoodAfterFinish ==
  ASSUME NEW db, Good(db), NEW S \in SUBSET InState(db.jobs, "running"),
         NEW outcome \in TerminalStatus
  PROVE  Good(FinishJobs(db, S, outcome))
<1> DEFINE done == [ jobs |-> Moved(db.jobs, S, outcome),
                     ops  |-> CountFinished(db.jobs, db.ops, S, outcome) ]
           dependents == PendingDependents(done.jobs, S)
           last == [ jobs |-> Moved(done.jobs, dependents, "cancelled"),
                     ops  |-> CountPendingCancelled(done.jobs, done.ops, dependents) ]
<1>1. Good(done)
  BY GoodAfterFinished
<1>2. FinishJobs(db, S, outcome) = IF outcome = "failed" THEN last ELSE done
  BY DEF FinishJobs
<1> HIDE DEF done
<1>3. Good(last)
  BY <1>1, DependentsPending, GoodAfterPendingCancelled
<1>4. QED
  BY <1>1, <1>2, <1>3

LEMMA GoodAfterRequeue ==
  ASSUME NEW db, Good(db), NEW S \in SUBSET InState(db.jobs, "running")
  PROVE  Good(RequeueJobs(db, S))
BY GoodAfterRetried DEF RequeueJobs

\* A sweep reads a row once.
ReadOnce(reads) == \A r, q \in reads : r.id = q.id => r = q

\* The two sets a recovery writes: one is requeued, the other then failed.
LEMMA RecoverParts ==
  ASSUME NEW db, Good(db), NEW reads \in SUBSET RowRead, ReadOnce(reads)
  PROVE  LET running   == {r \in reads : db.jobs[r.id].status = "running"}
             retryable == {r.id : r \in {x \in running : x.attempts < MaxAttempts[x.id]}}
             exhausted == {r.id : r \in {x \in running : x.attempts >= MaxAttempts[x.id]}}
             requeued  == RequeueJobs(db, retryable)
         IN  /\ Good(requeued) /\ retryable \in SUBSET InState(db.jobs, "running")
             /\ exhausted \in SUBSET InState(requeued.jobs, "running")
<1> DEFINE running   == {r \in reads : db.jobs[r.id].status = "running"}
           retryable == {r.id : r \in {x \in running : x.attempts < MaxAttempts[x.id]}}
           exhausted == {r.id : r \in {x \in running : x.attempts >= MaxAttempts[x.id]}}
           requeued  == RequeueJobs(db, retryable)
<1>1. retryable \in SUBSET InState(db.jobs, "running")
  BY DEF RowRead, InState
<1>2. exhausted \in SUBSET InState(db.jobs, "running")
  BY DEF RowRead, InState
<1>3. Good(requeued)
  BY <1>1, GoodAfterRequeue
<1>4. exhausted \in SUBSET InState(requeued.jobs, "running")
  <2>1. \A j \in exhausted : j \notin retryable
    BY RequestAssumption DEF ReadOnce, RowRead
  <2>2. \A j \in Job \ retryable : requeued.jobs[j] = db.jobs[j]
    BY DEF RequeueJobs, Moved
  <2> HIDE DEF retryable, exhausted, requeued
  <2>3. QED
    BY <1>2, <2>1, <2>2 DEF InState
<1>5. QED
  BY <1>1, <1>3, <1>4

LEMMA GoodAfterRecover ==
  ASSUME NEW db, Good(db), NEW reads \in SUBSET RowRead, ReadOnce(reads)
  PROVE  Good(RecoverRows(db, reads))
BY RecoverParts, GoodAfterFinish DEF RecoverRows, TerminalStatus

(***************************************************************************)
(* A cancellation of pending jobs never reaches a job whose parent is not  *)
(* itself pending.                                                         *)
(***************************************************************************)
LEMMA DependentsHavePendingParent ==
  ASSUME NEW js, NEW S \in SUBSET InState(js, "pending"),
         NEW j \in PendingDependents(js, S)
  PROVE  js[j].dependsOn \in InState(js, "pending")
<1> DEFINE waiting == {k \in InState(js, "pending") : js[k].dependsOn # None}
           T == {k \in waiting : js[k].dependsOn \in InState(js, "pending")}
<1>1. T \in SUBSET waiting
  OBVIOUS
<1>2. \A k \in waiting : js[k].dependsOn \in S \cup T => k \in T
  OBVIOUS
<1>3. j \in T
  BY <1>1, <1>2 DEF PendingDependents
<1>4. QED
  BY <1>3

LEMMA GoodAfterClaims ==
  ASSUME NEW db, Good(db), NEW w, NEW max
  PROVE  Good(ClaimCandidates(db, w, max))
<1> DEFINE js      == db.jobs
           free    == FreeSlots(js, w)
           found   == Candidates(js, w, max)
           ready   == {j \in found : Claimable(db, j)}
           claimed == Granted(js, ready, free, max)
           dropped == {j \in Reached(js, found, ready, free, max) : MustCancel(db, j)}
           after   == CancelPendingJobs(db, dropped)
           new     == [ jobs |-> [j \in Job |-> IF j \in claimed THEN ClaimedRow(js[j])
                                               ELSE after.jobs[j]],
                        ops  |-> CountStarted(js, after.ops, claimed) ]
<1>1. ClaimCandidates(db, w, max) = new
  BY DEF ClaimCandidates
<1>2. found \in SUBSET InState(js, "pending")
  BY DEF Candidates, DuePending
<1>3. /\ dropped \in SUBSET InState(js, "pending")
      /\ claimed \in SUBSET InState(js, "pending")
      /\ \A j \in claimed : j \notin dropped /\ Claimable(db, j)
  BY <1>2 DEF Claimable, Granted, Reached
<1> HIDE DEF claimed, dropped
<1>4. Good(after)
  BY <1>3, GoodAfterCancelPending
<1>5. \A j \in claimed : j \notin dropped \cup PendingDependents(js, dropped)
  <2> SUFFICES ASSUME NEW j \in claimed, j \in PendingDependents(js, dropped)
               PROVE  FALSE
    BY <1>3
  <2>1. js[j].dependsOn \in InState(js, "pending")
    BY <1>3, DependentsHavePendingParent
  <2>2. js[j].dependsOn # None
    BY <2>1, NoneAssumption DEF InState
  <2>3. QED
    BY <2>1, <2>2, <1>3 DEF Claimable, ParentStatus, Active, InState
<1>6. /\ \A j \in claimed : after.jobs[j] = js[j]
      /\ \A j \in Job : after.jobs[j].operationId = js[j].operationId
  <2>1. after.jobs = Moved(js, dropped \cup PendingDependents(js, dropped), "cancelled")
    BY DEF CancelPendingJobs
  <2>2. \A j \in Job : js[j] \in JobRow
    BY DbFields DEF Good
  <2>3. claimed \subseteq Job
    BY <1>3 DEF InState
  <2> HIDE DEF after
  <2>4. QED
    BY <2>1, <2>2, <2>3, <1>5, ReleaseFields, StatusValues DEF Moved
<1> HIDE DEF after
<1>7. claimed \in SUBSET InState(after.jobs, "pending")
  BY <1>3, <1>6 DEF InState
<1>8. \A o \in Operation : CountOf(js, claimed, o) = CountOf(after.jobs, claimed, o)
  <2>1. \A j \in claimed : after.jobs[j].operationId = js[j].operationId
    BY <1>6
  <2>2. \A o \in Operation : {j \in claimed : js[j].operationId = o}
                            = {j \in claimed : after.jobs[j].operationId = o}
    BY <2>1
  <2>3. QED
    BY <2>2 DEF CountOf
<1>9. CountStarted(js, after.ops, claimed) = CountStarted(after.jobs, after.ops, claimed)
  BY <1>8 DEF CountStarted
<1>10. [j \in Job |-> IF j \in claimed THEN ClaimedRow(js[j]) ELSE after.jobs[j]]
        = [j \in Job |-> IF j \in claimed THEN ClaimedRow(after.jobs[j]) ELSE after.jobs[j]]
  BY <1>6
<1>11. QED
  BY <1>1, <1>4, <1>7, <1>9, <1>10, GoodAfterStarted
-----------------------------------------------------------------------------
(***************************************************************************)
(* The inductive invariant.  CountersMatchRows alone is not inductive: the *)
(* counters of an operation stay right only because no job refers to an    *)
(* operation without a row, and because a sweep reads each row once.       *)
(* StatusMatchesRows is StatusFitsCounters where the counters are right.   *)
(***************************************************************************)
StatusFitsCounters ==
    \A o \in Operation : Present(ops[o]) /\ o \notin unsettled => StatusFits(ops[o])

IInv ==
    /\ TypeOK
    /\ ForeignKey(Db)
    /\ CountersMatchRows
    /\ StatusFitsCounters
    /\ ReadOnce(orphanScan)

LEMMA IInvIsGood == IInv => Good(Db) /\ Db.jobs = jobs /\ Db.ops = ops
BY DEF IInv, TypeOK, Good, Counted, Kept, CountersMatchRows, StatusFitsCounters, Db, DbType

(***************************************************************************)
(* A transaction that leaves good tables behind keeps the invariant.       *)
(***************************************************************************)
LEMMA CommitGood ==
  ASSUME IInv, NEW STATE after, Good(after), Commit(after),
         polled' \in SUBSET polled,
         orphanScan' \in {orphanScan, {}}, expiredOps' \in {expiredOps, {}},
         UNCHANGED <<unsettled, hidden>>
  PROVE  IInv'
<1>1. TypeOK'
  BY DEF IInv, TypeOK, Good, DbType, Commit
<1>2. ForeignKey(Db)'
  BY DEF ForeignKey, Good, Commit, Db
<1>3. CountersMatchRows'
  <2> SUFFICES ASSUME NEW o \in Operation, Present(ops'[o]), o \notin unsettled
               PROVE  RowsCounted([jobs |-> jobs', ops |-> ops'], o, hidden[o])
    BY DEF CountersMatchRows, Db
  <2>1. RowsCounted(after, o, hidden[o])
    BY DEF Good, Counted, Kept, Commit
  <2>2. QED
    BY <2>1 DEF RowsCounted, Commit
<1>4. StatusFitsCounters'
  BY DEF StatusFitsCounters, Good, Counted, Kept, Commit
<1>5. ReadOnce(orphanScan')
  BY DEF IInv, ReadOnce
<1>6. QED
  BY <1>1, <1>2, <1>3, <1>4, <1>5 DEF IInv

(***************************************************************************)
(* Nothing in Good depends on more of a job than its status and operation. *)
(***************************************************************************)
LEMMA GoodAfterAnnotate ==
  ASSUME NEW db, Good(db), NEW js \in [Job -> JobRow],
         \A j \in Job : js[j].status = db.jobs[j].status
                       /\ js[j].operationId = db.jobs[j].operationId
  PROVE  Good([jobs |-> js, ops |-> db.ops])
<1>1. \A st, o : CountIn(js, st, o) = CountIn(db.jobs, st, o)
  <2> TAKE st, o
  <2>1. {j \in InState(js, st) : js[j].operationId = o}
          = {j \in InState(db.jobs, st) : db.jobs[j].operationId = o}
    BY DEF InState
  <2>2. QED
    BY <2>1 DEF CountIn, CountOf
<1>2. Counted([jobs |-> js, ops |-> db.ops])
  BY <1>1 DEF Good, Counted, Kept, RowsCounted
<1>3. ForeignKey([jobs |-> js, ops |-> db.ops])
  BY DEF Good, ForeignKey
<1>4. QED
  BY <1>2, <1>3 DEF Good, DbType

LEMMA GoodWithJob ==
  ASSUME NEW db, Good(db), NEW j \in Job, NEW row \in JobRow,
         row.status = db.jobs[j].status, row.operationId = db.jobs[j].operationId
  PROVE  Good(WithJob(db, j, row))
<1> DEFINE js == [db.jobs EXCEPT ![j] = row]
<1>1. db.jobs \in [Job -> JobRow]
  BY DbFields DEF Good
<1>2. js \in [Job -> JobRow]
  BY <1>1
<1>3. WithJob(db, j, row) = [jobs |-> js, ops |-> db.ops]
  BY DEF WithJob, Good, DbType
<1>4. \A k \in Job : js[k].status = db.jobs[k].status
                    /\ js[k].operationId = db.jobs[k].operationId
  BY <1>1
<1> HIDE DEF js
<1>5. QED
  BY <1>2, <1>3, <1>4, GoodAfterAnnotate
-----------------------------------------------------------------------------
(***************************************************************************)
(* One lemma per action, or per group of actions with the same shape.      *)
(***************************************************************************)
LEMMA ReadsType ==
  ASSUME IInv, NEW S \in SUBSET Job
  PROVE  Reads(jobs, S) \in SUBSET RowRead /\ ReadOnce(Reads(jobs, S))
BY DEF Reads, RowRead, ReadOnce, IInv, TypeOK, JobRow

LEMMA StepClaim ==
  ASSUME IInv, NEW w, NEW max, NEW spared, ClaimNextBatch(w, max, spared)
  PROVE  IInv'
<1> DEFINE reads == Reads(jobs, ExpiredLeases(w) \ spared)
           recovered == RecoverRows(Db, reads)
           after == ClaimCandidates(recovered, w, max)
<1>1. reads \in SUBSET RowRead /\ ReadOnce(reads)
  BY ReadsType DEF ExpiredLeases, InState
<1> HIDE DEF reads
<1>2. Good(recovered)
  BY <1>1, IInvIsGood, GoodAfterRecover
<1> HIDE DEF recovered
<1>3. Good(after)
  BY <1>2, GoodAfterClaims
<1>4. Commit(after) /\ polled' \in SUBSET polled
  BY DEF ClaimNextBatch, reads, recovered
<1> HIDE DEF after
<1>5. QED
  BY <1>3, <1>4, CommitGood DEF ClaimNextBatch

LEMMA StepPoll ==
  ASSUME IInv, NEW w \in Worker, PollDue(w)
  PROVE  IInv'
<1>1. polled' \subseteq Worker /\ UNCHANGED <<jobs, ops, orphanScan, expiredOps, unsettled, hidden>>
  BY DEF PollDue, IInv, TypeOK
<1>2. QED
  BY <1>1 DEF IInv, TypeOK, Db, ForeignKey, CountersMatchRows, StatusFitsCounters,
        RowsCounted

LEMMA StepOutcome ==
  ASSUME IInv, NEW j \in Job, NEW token \in Nat, NEW delayed,
         Complete(j, token) \/ Fail(j, token) \/ Retry(j, token, delayed)
  PROVE  IInv'
<1>1. Good(Db) /\ {j} \in SUBSET InState(Db.jobs, "running")
  BY IInvIsGood DEF Complete, Fail, Retry, HoldsClaim, InState
<1>2. /\ "completed" \in TerminalStatus /\ "failed" \in TerminalStatus
  BY DEF TerminalStatus
<1>3. CASE Complete(j, token)
  <2> DEFINE done == FinishJobs(Db, {j}, "completed")
             row == [done.jobs[j] EXCEPT !.result = token]
             after == WithJob(done, j, row)
  <2>1. Good(done)
    BY <1>1, <1>2, GoodAfterFinish
  <2>2. Commit(after)
    BY <1>3 DEF Complete
  <2> HIDE DEF done
  <2>3. done.jobs[j] \in JobRow
    BY <2>1, DbFields DEF Good
  <2>4. row \in JobRow /\ row.status = done.jobs[j].status
        /\ row.operationId = done.jobs[j].operationId
    BY <2>3 DEF JobRow
  <2> HIDE DEF row
  <2>5. Good(after)
    BY <2>1, <2>4, GoodWithJob
  <2>6. QED
    BY <1>3, <2>2, <2>5, CommitGood DEF Complete
<1>4. CASE Fail(j, token)
  <2>1. Good(FinishJobs(Db, {j}, "failed"))
    BY <1>1, <1>2, GoodAfterFinish
  <2>2. QED
    BY <1>4, <2>1, CommitGood DEF Fail
<1>5. CASE Retry(j, token, delayed)
  <2> DEFINE queued == RequeueJobs(Db, {j})
             due == IF delayed THEN 0 ELSE NextDue(jobs, Job \ {j})
             row == [queued.jobs[j] EXCEPT !.dueAs = due, !.result = 0]
             after == WithJob(queued, j, row)
  <2>1. Good(queued)
    BY <1>1, GoodAfterRequeue
  <2>2. Commit(after)
    BY <1>5 DEF Retry
  <2>3. due \in Nat
    BY NextDueType DEF IInv, TypeOK
  <2> HIDE DEF queued, due
  <2>4. queued.jobs[j] \in JobRow
    BY <2>1, DbFields DEF Good
  <2>5. row \in JobRow
    <3> DEFINE r == [queued.jobs[j] EXCEPT !.dueAs = due]
    <3>1. r \in JobRow
      BY <2>3, <2>4, Zenon DEF JobRow
    <3> HIDE DEF r
    <3>2. 0 \in Nat
      OBVIOUS
    <3>3. [r EXCEPT !.result = 0] \in JobRow
      BY <3>1, <3>2, Zenon DEF JobRow
    <3>4. QED
      BY <3>3 DEF r
  <2>6. row.status = queued.jobs[j].status /\ row.operationId = queued.jobs[j].operationId
    BY <2>4 DEF JobRow
  <2> HIDE DEF row
  <2>7. Good(after)
    BY <2>1, <2>5, <2>6, GoodWithJob
  <2>8. QED
    BY <1>5, <2>2, <2>7, CommitGood DEF Retry
<1>6. QED
  BY <1>3, <1>4, <1>5

LEMMA StepCancel ==
  ASSUME IInv, Cancel
  PROVE  IInv'
<1>1. Good(Db) /\ Db.jobs = jobs /\ "cancelled" \in TerminalStatus
  BY IInvIsGood DEF TerminalStatus
<1>2. ASSUME NEW S \in SUBSET InState(jobs, "pending"), Commit(CancelPendingJobs(Db, S)),
             UNCHANGED <<polled, orphanScan, expiredOps, unsettled, hidden>>
      PROVE  IInv'
  <2>1. Good(CancelPendingJobs(Db, S))
    BY <1>1, GoodAfterCancelPending
  <2>2. QED
    BY <1>2, <2>1, CommitGood
<1>3. ASSUME NEW S \in SUBSET InState(jobs, "running"), Commit(FinishJobs(Db, S, "cancelled")),
             UNCHANGED <<polled, orphanScan, expiredOps, unsettled, hidden>>
      PROVE  IInv'
  <2>1. Good(FinishJobs(Db, S, "cancelled"))
    BY <1>1, GoodAfterFinish
  <2>2. QED
    BY <1>3, <2>1, CommitGood
<1>4. ASSUME NEW j \in Job, CancelPending(j) PROVE IInv'
  <2>1. {j} \in SUBSET InState(jobs, "pending")
    BY <1>4 DEF CancelPending, InState
  <2>2. QED
    BY <1>2, <1>4, <2>1 DEF CancelPending
<1>5. ASSUME NEW j \in Job, CancelRunning(j) PROVE IInv'
  <2>1. {j} \in SUBSET InState(jobs, "running")
    BY <1>5 DEF CancelRunning, InState
  <2>2. QED
    BY <1>3, <1>5, <2>1 DEF CancelRunning
<1>6. ASSUME NEW o, CancelPendingByOperation(o) PROVE IInv'
  BY <1>2, <1>6 DEF CancelPendingByOperation
<1>7. ASSUME NEW w, CancelAllPending(w) PROVE IInv'
  BY <1>2, <1>7 DEF CancelAllPending
<1>8. ASSUME NEW w, CancelAllRunning(w) PROVE IInv'
  BY <1>3, <1>8 DEF CancelAllRunning
<1>9. QED
  BY <1>4, <1>5, <1>6, <1>7, <1>8 DEF Cancel

\* What BatchAssumption says of the batches; a resume makes others.
OneEach(batch) == \A x, y \in batch : x.id = y.id => x = y

LEMMA StepEnqueue ==
  ASSUME IInv, NEW batch \in SUBSET Input, OneEach(batch),
         NEW counted \in BOOLEAN, EnqueueMany(batch, counted)
  PROVE  IInv'
<1> DEFINE new  == Inserted(batch)
           due  == NextDue(jobs, Job)
           into == {in.operationId : in \in new} \ {None}
           In(o) == Cardinality({in \in new : in.operationId = o})
           IdsIn(o) == {j \in Job : \E in \in new : in.id = j /\ in.operationId = o}
           NewRow(j) == InsertedRow(CHOOSE in \in new : in.id = j, due)
<1>1. /\ jobs \in [Job -> JobRow] /\ ops \in [Operation -> OperationRow]
      /\ unsettled \subseteq Operation /\ hidden \in [Operation -> Nat]
  BY DEF IInv, TypeOK
<1>2. /\ new \subseteq Input
      /\ \A x, y \in new : x.id = y.id => x = y
      /\ \A in \in new : ValidInput(in)
  BY DEF EnqueueMany, Inserted, OneEach
<1>3. due \in Nat
  BY <1>1, NextDueType
<1>4. /\ jobs' = [j \in Job |-> IF \E in \in new : in.id = j THEN NewRow(j) ELSE jobs[j]]
      /\ ops' = IF counted
                THEN [o \in Operation |-> IncrementTotalItems(ops[o], In(o))]
                ELSE ops
      /\ unsettled' = IF counted THEN unsettled ELSE unsettled \cup into
      /\ UNCHANGED <<polled, orphanScan, expiredOps, hidden>>
  BY DEF EnqueueMany
<1> HIDE DEF new, due
<1>5. ASSUME NEW in \in new
      PROVE  /\ in.id \in Job /\ NewRow(in.id) \in JobRow
             /\ NewRow(in.id).status = "pending"
             /\ NewRow(in.id).operationId = in.operationId
             /\ in.operationId \in Operation \cup {None}
             /\ in.operationId # None => Present(ops[in.operationId])
             /\ jobs[in.id].status = "unused"
  <2>1. (CHOOSE x \in new : x.id = in.id) = in
    BY <1>2
  <2>2. in \in Input /\ ValidInput(in)
    BY <1>2
  <2>3. /\ InsertedRow(in, due) \in JobRow
        /\ InsertedRow(in, due).status = "pending"
        /\ InsertedRow(in, due).operationId = in.operationId
    <3> DEFINE d == IF in.delayed THEN 0 ELSE due
    <3>1. d \in Nat /\ in.dependsOn \in Job \cup {None}
          /\ in.operationId \in Operation \cup {None}
      BY <1>3, <2>2 DEF Input
    <3>2. QED
      BY <3>1, StatusValues DEF InsertedRow, JobRow
  <2>4. QED
    BY <2>1, <2>2, <2>3 DEF Input, ValidInput
<1>6. jobs' \in [Job -> JobRow]
  BY <1>1, <1>4, <1>5
<1>7. \A o \in Operation :
         /\ In(o) \in Nat
         /\ In(o) # 0 => Present(ops[o])
         /\ CountIn(jobs', "pending", o) = CountIn(jobs, "pending", o) + In(o)
         /\ \A st : st \notin {"pending", "unused"} => CountIn(jobs', st, o) = CountIn(jobs, st, o)
  <2> TAKE o \in Operation
  <2> DEFINE Ins == {in \in new : in.operationId = o}
             IdOf == [in \in Ins |-> in.id]
             Old(st) == {j \in InState(jobs, st) : jobs[j].operationId = o}
             Now(st) == {j \in InState(jobs', st) : jobs'[j].operationId = o}
  <2>1. IsFiniteSet(IdsIn(o)) /\ Cardinality(IdsIn(o)) \in Nat
    BY JobsFinite
  <2>2. IdOf \in Injection(Ins, IdsIn(o)) /\ IdOf \in Surjection(Ins, IdsIn(o))
    BY <1>2, <1>5 DEF Injection, Surjection, IsInjective
  <2>3. In(o) = Cardinality(IdsIn(o)) /\ IsFiniteSet(Ins)
    BY <2>1, <2>2, FS_Injection
  <2>4. In(o) # 0 => Present(ops[o])
    <3>1. Ins = {} => In(o) = 0
      BY FS_EmptySet
    <3>2. QED
      BY <3>1, <1>5, NoneAssumption
  <2>5. /\ Now("pending") = Old("pending") \cup IdsIn(o)
        /\ Old("pending") \cap IdsIn(o) = {}
    BY <1>4, <1>5 DEF InState
  <2>6. Cardinality(Now("pending")) = Cardinality(Old("pending")) + Cardinality(IdsIn(o))
    <3>1. IsFiniteSet(Old("pending")) /\ Cardinality(Old("pending")) \in Nat
      BY JobsFinite DEF InState
    <3> HIDE DEF Old, Now, IdsIn
    <3>2. Cardinality(Old("pending") \cap IdsIn(o)) = 0
      BY <2>5, FS_EmptySet
    <3>3. Cardinality(Old("pending") \cup IdsIn(o))
            = Cardinality(Old("pending")) + Cardinality(IdsIn(o))
              - Cardinality(Old("pending") \cap IdsIn(o))
      BY <2>1, <3>1, FS_Union
    <3>4. Now("pending") = Old("pending") \cup IdsIn(o)
      BY <2>5
    <3>5. Cardinality(Now("pending"))
            = Cardinality(Old("pending")) + Cardinality(IdsIn(o)) - 0
      BY <3>2, <3>3, <3>4
    <3>6. QED
      BY <2>1, <3>1, <3>5
  <2>7. ASSUME NEW st, st \notin {"pending", "unused"} PROVE Now(st) = Old(st)
    BY <1>4, <1>5, <2>7 DEF InState
  <2>8. QED
    BY <2>1, <2>3, <2>4, <2>6, <2>7 DEF CountIn, CountOf
<1>8. ops' \in [Operation -> OperationRow]
  BY <1>1, <1>4, <1>7, IncrementType
<1>9. TypeOK'
  <2>1. into \subseteq Operation
    BY <1>5
  <2>2. QED
    BY <1>1, <1>4, <1>6, <1>8, <2>1 DEF IInv, TypeOK
<1>10. \A o \in Operation : Present(ops[o]) <=> Present(ops'[o])
  <2> TAKE o \in Operation
  <2>1. In(o) = 0 => IncrementTotalItems(ops[o], In(o)) = ops[o]
    BY DEF IncrementTotalItems
  <2>2. Present(ops[o]) => Present(IncrementTotalItems(ops[o], In(o)))
    BY <1>1, <1>7, WritersKeepRow DEF TerminalStatus
  <2>3. QED
    BY <1>4, <1>7, <2>1, <2>2
<1>11. ForeignKey(Db)'
  <2> SUFFICES ASSUME NEW j \in Job, jobs'[j].operationId # None
               PROVE  jobs'[j].operationId \in Operation /\ Present(ops'[jobs'[j].operationId])
    BY DEF ForeignKey, Db
  <2>1. CASE \E in \in new : in.id = j
    <3>1. PICK in \in new : in.id = j
      BY <2>1
    <3>2. jobs'[j].operationId = in.operationId
      BY <1>4, <1>5, <3>1
    <3>3. QED
      BY <1>5, <1>10, <3>2
  <2>2. CASE ~ \E in \in new : in.id = j
    <3>1. jobs'[j] = jobs[j]
      BY <1>4, <2>2
    <3>2. jobs[j].operationId \in Operation /\ Present(ops[jobs[j].operationId])
      BY <3>1 DEF IInv, ForeignKey, Db
    <3>3. QED
      BY <1>10, <3>1, <3>2
  <2>3. QED
    BY <2>1, <2>2
<1>12. CountersMatchRows'
  <2> SUFFICES ASSUME NEW o \in Operation, Present(ops'[o]), o \notin unsettled'
               PROVE  RowsCounted(Db', o, hidden[o])
    BY <1>4 DEF CountersMatchRows
  <2>1. RowsCounted(Db, o, hidden[o])
    BY <1>4, <1>10 DEF IInv, CountersMatchRows
  <2>2. In(o) = 0 \/ counted
    <3>1. ~counted => o \notin into
      BY <1>4
    <3>2. o \notin into => {in \in new : in.operationId = o} = {}
      BY NoneAssumption
    <3>3. QED
      BY <3>1, <3>2, FS_EmptySet
  <2>3. ops'[o] = IncrementTotalItems(ops[o], In(o))
    BY <1>4, <2>2 DEF IncrementTotalItems
  <2>4. ops[o] \in OperationRow /\ In(o) \in Nat
    BY <1>1, <1>7
  <2> DEFINE n == In(o)
  <2> HIDE DEF n
  <2>5. /\ ops'[o].total = ops[o].total + n /\ ops'[o].pending = ops[o].pending + n
        /\ ops'[o].running = ops[o].running /\ ops'[o].completed = ops[o].completed
        /\ ops'[o].failed = ops[o].failed /\ ops'[o].cancelled = ops[o].cancelled
    BY <2>3, <2>4, IncrementCounts DEF n
  <2>6. /\ CountIn(jobs', "pending", o) = CountIn(jobs, "pending", o) + n
        /\ CountIn(jobs', "running", o) = CountIn(jobs, "running", o)
        /\ CountIn(jobs', "completed", o) = CountIn(jobs, "completed", o)
        /\ CountIn(jobs', "failed", o) = CountIn(jobs, "failed", o)
        /\ CountIn(jobs', "cancelled", o) = CountIn(jobs, "cancelled", o)
    BY <1>7 DEF n
  <2>7. n \in Nat
    BY <2>4 DEF n
  <2>8. QED
    BY <2>1, <2>4, <2>5, <2>6, <2>7 DEF RowsCounted, Finished, Db, OperationRow
<1>13. StatusFitsCounters'
  <2> SUFFICES ASSUME NEW o \in Operation, Present(ops'[o]), o \notin unsettled'
               PROVE  StatusFits(ops'[o])
    BY DEF StatusFitsCounters
  <2>1. Present(ops[o]) /\ StatusFits(ops[o]) /\ ops[o] \in OperationRow
    BY <1>1, <1>4, <1>10 DEF IInv, StatusFitsCounters
  <2>2. In(o) # 0 => ~ops[o].cancelRequested
    <3>1. {in \in new : in.operationId = o} = {} => In(o) = 0
      BY FS_EmptySet
    <3>2. QED
      BY <1>2, <3>1, NoneAssumption DEF ValidInput
  <2>3. StatusFits(IncrementTotalItems(ops[o], In(o)))
    BY <1>7, <2>1, <2>2, IncrementFits
  <2>4. QED
    BY <1>4, <2>1, <2>3
<1>14. QED
  BY <1>4, <1>9, <1>11, <1>12, <1>13 DEF IInv

(***************************************************************************)
(* Rows that disappear or are detached: an operation keeps its counters as *)
(* long as every job counted for it keeps its status and its operation.    *)
(***************************************************************************)
Untouched(js, new, o) ==
  \A j \in Job :
     \/ new[j].status = js[j].status /\ new[j].operationId = js[j].operationId
     \/ js[j].operationId # o /\ new[j].operationId # o

LEMMA SameRowsCounted ==
  ASSUME NEW js, NEW new, NEW o, Untouched(js, new, o)
  PROVE  \A st : CountIn(new, st, o) = CountIn(js, st, o)
<1> TAKE st
<1>1. {j \in InState(new, st) : new[j].operationId = o}
        = {j \in InState(js, st) : js[j].operationId = o}
  BY DEF InState, Untouched
<1>2. QED
  BY <1>1 DEF CountIn, CountOf

LEMMA DeletedType ==
  ASSUME NEW js \in [Job -> JobRow], NEW S
  PROVE  /\ Deleted(js, S) \in [Job -> JobRow]
         /\ \A j \in Job \ S : /\ Deleted(js, S)[j].status = js[j].status
                               /\ Deleted(js, S)[j].operationId = js[j].operationId
         /\ \A j \in Job \cap S : /\ Deleted(js, S)[j].status = "deleted"
                                 /\ Deleted(js, S)[j].operationId = None
<1>1. /\ [BlankJob EXCEPT !.status = "deleted"] \in JobRow
      /\ [BlankJob EXCEPT !.status = "deleted"].status = "deleted"
      /\ [BlankJob EXCEPT !.status = "deleted"].operationId = None
  BY StatusValues DEF BlankJob, JobRow
<1>2. \A j \in Job : /\ [js[j] EXCEPT !.dependsOn = None] \in JobRow
                    /\ [js[j] EXCEPT !.dependsOn = None].status = js[j].status
                    /\ [js[j] EXCEPT !.dependsOn = None].operationId = js[j].operationId
  BY DEF JobRow
<1>3. QED
  BY <1>1, <1>2 DEF Deleted

LEMMA StepOperation ==
  ASSUME IInv, NEW o \in Operation,
         \/ \E withError \in BOOLEAN : CreateOperation(o, withError)
         \/ RemoveOperation(o)
         \/ CancelRequested(o)
         \/ \E total \in Nat : Resume(o, total)
         \/ ReconcileFromJobs(o)
  PROVE  IInv'
<1>1. /\ jobs \in [Job -> JobRow] /\ ops \in [Operation -> OperationRow]
      /\ ops[o] \in OperationRow /\ TypeOK /\ ForeignKey(Db) /\ ReadOnce(orphanScan)
  BY DEF IInv, TypeOK
<1>2. \A p \in Operation : Present(ops[p]) /\ p \notin unsettled =>
         RowsCounted(Db, p, hidden[p]) /\ StatusFits(ops[p])
  BY DEF IInv, CountersMatchRows, StatusFitsCounters
<1>3. ASSUME NEW withError \in BOOLEAN, CreateOperation(o, withError) PROVE IInv'
  <2>1. /\ ops' = [ops EXCEPT ![o] = CreatedRow(withError)]
        /\ hidden' = [hidden EXCEPT ![o] = 0]
        /\ UNCHANGED <<jobs, polled, orphanScan, expiredOps, unsettled>>
        /\ ~Present(ops[o])
    BY <1>3 DEF CreateOperation, Present, Missing
  <2>2. CreatedRow(withError) \in OperationRow /\ Present(CreatedRow(withError))
    BY BlankRowType, StatusValues DEF CreatedRow, BlankRow, Present, Missing
  <2>3. TypeOK'
    BY <1>1, <2>1, <2>2 DEF TypeOK
  <2>4. ForeignKey(Db)'
    BY <1>1, <2>1, <2>2 DEF ForeignKey, Db
  <2>5. RowsCounted(Db', o, 0)
    <3>1. \A st : CountIn(jobs, st, o) = 0
      <4> TAKE st
      <4>1. {j \in InState(jobs, st) : jobs[j].operationId = o} = {}
        BY <1>1, <2>1, NoneAssumption DEF ForeignKey, Db, InState
      <4>2. QED
        BY <4>1, FS_EmptySet DEF CountIn, CountOf
    <3>2. ops'[o] = CreatedRow(withError)
      BY <1>1, <2>1
    <3>3. QED
      BY <2>1, <3>1, <3>2 DEF RowsCounted, Db, CreatedRow, BlankRow, Finished
  <2>6. CountersMatchRows'
    <3> SUFFICES ASSUME NEW p \in Operation, Present(ops'[p]), p \notin unsettled
                 PROVE  RowsCounted(Db', p, hidden'[p])
      BY <2>1 DEF CountersMatchRows
    <3>1. CASE p = o
      BY <1>1, <2>1, <2>5, <3>1 DEF TypeOK
    <3>2. CASE p # o
      <4>1. ops'[p] = ops[p] /\ hidden'[p] = hidden[p] /\ jobs' = jobs
        BY <1>1, <2>1, <3>2 DEF TypeOK
      <4>2. QED
        BY <1>2, <4>1 DEF RowsCounted, Db
    <3>3. QED
      BY <3>1, <3>2
  <2>7. StatusFits(CreatedRow(withError))
    BY DEF StatusFits, CreatedRow, BlankRow
  <2>8. StatusFitsCounters'
    BY <1>1, <1>2, <2>1, <2>7 DEF StatusFitsCounters
  <2>9. QED
    BY <1>1, <2>1, <2>3, <2>4, <2>6, <2>8 DEF IInv
<1>4. CASE RemoveOperation(o)
  <2>1. /\ ops' = [ops EXCEPT ![o] = BlankRow("deleted")]
        /\ jobs' = Detached(jobs, o)
        /\ UNCHANGED <<polled, orphanScan, expiredOps, unsettled, hidden>>
    BY <1>4 DEF RemoveOperation
  <2>2. BlankRow("deleted") \in OperationRow /\ ~Present(BlankRow("deleted"))
    BY BlankRowType, StatusValues DEF BlankRow, Present, Missing
  <2>3. \A j \in Job : /\ [jobs[j] EXCEPT !.operationId = None] \in JobRow
                      /\ [jobs[j] EXCEPT !.operationId = None].operationId = None
                      /\ [jobs[j] EXCEPT !.operationId = None].status = jobs[j].status
    BY <1>1 DEF JobRow
  <2>4. jobs' \in [Job -> JobRow]
    BY <1>1, <2>1, <2>3 DEF Detached
  <2>5. TypeOK'
    BY <1>1, <2>1, <2>2, <2>4 DEF TypeOK
  <2>6. \A j \in Job : jobs'[j].operationId
                        = IF jobs[j].operationId = o THEN None ELSE jobs[j].operationId
    BY <2>1, <2>3 DEF Detached
  <2>7. ForeignKey(Db)'
    BY <1>1, <2>1, <2>6 DEF ForeignKey, Db
  <2>8. CountersMatchRows'
    <3> SUFFICES ASSUME NEW p \in Operation, Present(ops'[p]), p \notin unsettled
                 PROVE  RowsCounted(Db', p, hidden[p])
      BY <2>1 DEF CountersMatchRows
    <3>1. p # o /\ ops'[p] = ops[p]
      BY <1>1, <2>1, <2>2
    <3>2. \A st : CountIn(jobs', st, p) = CountIn(jobs, st, p)
      <4>1. \A j \in Job : jobs'[j].status = jobs[j].status
        BY <2>1, <2>3 DEF Detached
      <4>2. None # p
        BY NoneAssumption
      <4>3. Untouched(jobs, jobs', p)
        BY <2>6, <3>1, <4>1, <4>2 DEF Untouched
      <4>4. QED
        BY <4>3, SameRowsCounted
    <3>3. QED
      BY <1>2, <3>1, <3>2 DEF RowsCounted, Db
  <2>9. StatusFitsCounters'
    BY <1>1, <1>2, <2>1, <2>2 DEF StatusFitsCounters
  <2>10. QED
    BY <1>1, <2>1, <2>5, <2>7, <2>8, <2>9 DEF IInv
<1>5. CASE CancelRequested(o)
  <2>1. /\ Present(ops[o])
        /\ ops' = [ops EXCEPT ![o] = RequestCancel(ops[o])]
        /\ UNCHANGED <<jobs, polled, orphanScan, expiredOps, unsettled, hidden>>
    BY <1>5 DEF CancelRequested
  <2> DEFINE new == RequestCancel(ops[o])
  <2>2. /\ new \in OperationRow /\ Present(new)
        /\ new.total = ops[o].total /\ new.pending = ops[o].pending
        /\ new.running = ops[o].running /\ new.completed = ops[o].completed
        /\ new.failed = ops[o].failed /\ new.cancelled = ops[o].cancelled
        /\ new.status = "cancelled"
    BY <1>1, StatusValues DEF RequestCancel, OperationRow, Present, Missing
  <2> HIDE DEF new
  <2>3. ops'[o] = new /\ \A p \in Operation : p # o => ops'[p] = ops[p]
    BY <1>1, <2>1 DEF new
  <2>4. TypeOK'
    BY <1>1, <2>1, <2>2 DEF TypeOK, new
  <2>5. ForeignKey(Db)'
    BY <1>1, <2>1, <2>2, <2>3 DEF ForeignKey, Db
  <2>6. CountersMatchRows'
    BY <1>2, <2>1, <2>2, <2>3 DEF CountersMatchRows, RowsCounted, Db, Finished
  <2>7. StatusFits(new)
    BY <2>2 DEF StatusFits, TerminalStatus
  <2>8. StatusFitsCounters'
    BY <1>2, <2>1, <2>3, <2>7 DEF StatusFitsCounters
  <2>9. QED
    BY <1>1, <2>1, <2>4, <2>5, <2>6, <2>8 DEF IInv
<1>6. ASSUME NEW total \in Nat, Resume(o, total) PROVE IInv'
  <2>1. /\ ops' = [ops EXCEPT ![o] = MarkResumed(total)]
        /\ unsettled' = unsettled \cup {o}
        /\ UNCHANGED <<jobs, polled, orphanScan, expiredOps, hidden>>
    BY <1>6 DEF Resume
  <2>2. MarkResumed(total) \in OperationRow /\ Present(MarkResumed(total))
    BY StatusValues DEF MarkResumed, BlankRow, OperationRow, Present, Missing
  <2>3. TypeOK'
    BY <1>1, <2>1, <2>2 DEF TypeOK
  <2>4. ForeignKey(Db)'
    BY <1>1, <2>1, <2>2 DEF ForeignKey, Db
  <2>5. CountersMatchRows'
    BY <1>1, <1>2, <2>1 DEF CountersMatchRows, RowsCounted, Db
  <2>6. StatusFitsCounters'
    BY <1>1, <1>2, <2>1 DEF StatusFitsCounters
  <2>7. QED
    BY <1>1, <2>1, <2>3, <2>4, <2>5, <2>6 DEF IInv
<1>7. CASE ReconcileFromJobs(o)
  <2> DEFINE In(st) == CountIn(jobs, st, o)
             new == Reconciled(ops[o], In("pending"), In("running"), In("completed"), In("failed"))
  <2>1. /\ Present(ops[o])
        /\ ops' = [ops EXCEPT ![o] = new]
        /\ unsettled' = unsettled \ {o}
        /\ hidden' = [hidden EXCEPT ![o] = In("cancelled")]
        /\ UNCHANGED <<jobs, polled, orphanScan, expiredOps>>
    BY <1>7 DEF ReconcileFromJobs
  <2>2. \A st : In(st) \in Nat
    BY CountType DEF CountIn, InState
  <2>3. /\ new \in OperationRow
        /\ new.total = In("pending") + In("running") + In("completed") + In("failed")
        /\ new.pending = In("pending") /\ new.running = In("running")
        /\ new.completed = In("completed") /\ new.failed = In("failed") /\ new.cancelled = 0
        /\ StatusFits(new)
    <3> DEFINE pending == In("pending")
               running == In("running")
               completed == In("completed")
               failed == In("failed")
    <3>1. /\ pending \in Nat /\ running \in Nat /\ completed \in Nat /\ failed \in Nat
      BY <2>2
    <3> DEFINE total == pending + running + completed + failed
               cancelled == 0
               status == IF total = 0 \/ ops[o].cancelRequested THEN "cancelled"
                         ELSE IF running > 0 THEN "running"
                         ELSE IF pending > 0 THEN "pending"
                         ELSE IF failed > 0 THEN "failed"
                         ELSE "completed"
    <3>2. new = [ops[o] EXCEPT !.total = total, !.pending = pending, !.running = running,
                               !.completed = completed, !.failed = failed,
                               !.cancelled = cancelled, !.status = status]
      BY DEF Reconciled
    <3> HIDE DEF pending, running, completed, failed, new
    <3>3. total \in Nat /\ cancelled \in Nat /\ status \in RowStatus
      BY <3>1, StatusValues
    <3>4. /\ cancelled = 0 /\ total = pending + running + completed + failed
          /\ status \in {"completed", "failed"} => pending + running = 0
          /\ status = "completed" => failed = 0
          /\ pending + running = 0 => status \in TerminalStatus
          /\ running > 0 => status \in {"running", "cancelled"}
      BY <3>1 DEF TerminalStatus
    <3> HIDE DEF total, cancelled, status
    <3>5. new \in OperationRow
      BY <1>1, <3>1, <3>2, <3>3, Zenon DEF OperationRow
    <3>6. /\ new.total = total /\ new.pending = pending /\ new.running = running
          /\ new.completed = completed /\ new.failed = failed /\ new.cancelled = cancelled
          /\ new.status = status
      BY <1>1, <3>2 DEF OperationRow
    <3>7. StatusFits(new)
      BY <3>1, <3>4, <3>6 DEF StatusFits
    <3>8. QED
      BY <3>4, <3>5, <3>6, <3>7 DEF pending, running, completed, failed
  <2>4. Present(new)
    BY <1>1 DEF Reconciled, Present, Missing, OperationRow
  <2> HIDE DEF new, In
  <2>5. /\ ops'[o] = new /\ hidden'[o] = In("cancelled")
        /\ \A p \in Operation : p # o => ops'[p] = ops[p] /\ hidden'[p] = hidden[p]
    BY <1>1, <2>1 DEF TypeOK
  <2>6. TypeOK'
    BY <1>1, <2>1, <2>2, <2>3 DEF TypeOK
  <2>7. ForeignKey(Db)'
    BY <1>1, <2>1, <2>4, <2>5 DEF ForeignKey, Db
  <2>8. RowsCounted(Db', o, In("cancelled"))
    BY <2>1, <2>2, <2>3, <2>5 DEF RowsCounted, Db, Finished, In
  <2>9. CountersMatchRows'
    <3> SUFFICES ASSUME NEW p \in Operation, Present(ops'[p]), p \notin unsettled'
                 PROVE  RowsCounted(Db', p, hidden'[p])
      BY DEF CountersMatchRows
    <3>1. CASE p = o
      BY <2>5, <2>8, <3>1
    <3>2. CASE p # o
      <4>1. ops'[p] = ops[p] /\ hidden'[p] = hidden[p] /\ jobs' = jobs /\ p \notin unsettled
        BY <2>1, <2>5, <3>2
      <4>2. QED
        BY <1>2, <4>1 DEF RowsCounted, Db
    <3>3. QED
      BY <3>1, <3>2
  <2>10. StatusFitsCounters'
    BY <1>2, <2>1, <2>3, <2>5 DEF StatusFitsCounters
  <2>11. QED
    BY <1>1, <2>1, <2>6, <2>7, <2>9, <2>10 DEF IInv
<1>8. QED
  BY <1>3, <1>4, <1>5, <1>6, <1>7

\* DELETE of the jobs S, and of operations whose jobs are all among S.
LEMMA DeleteKeepsIInv ==
  ASSUME IInv, NEW S \in SUBSET Job, NEW G \in SUBSET Operation,
         \A j \in Job : jobs[j].operationId \in G => j \in S,
         \A j \in S : jobs[j].operationId \in G \cup {None},
         jobs' = Deleted(jobs, S),
         ops' = [o \in Operation |-> IF o \in G THEN BlankRow("deleted") ELSE ops[o]],
         expiredOps' \in {expiredOps, {}},
         UNCHANGED <<polled, orphanScan, unsettled, hidden>>
  PROVE  IInv'
<1>1. /\ jobs \in [Job -> JobRow] /\ ops \in [Operation -> OperationRow] /\ TypeOK
      /\ ForeignKey(Db) /\ ReadOnce(orphanScan)
  BY DEF IInv, TypeOK
<1>2. BlankRow("deleted") \in OperationRow /\ ~Present(BlankRow("deleted"))
  BY BlankRowType, StatusValues DEF BlankRow, Present, Missing
<1>3. /\ jobs' \in [Job -> JobRow]
      /\ \A j \in Job \ S : /\ jobs'[j].status = jobs[j].status
                           /\ jobs'[j].operationId = jobs[j].operationId
      /\ \A j \in S : jobs'[j].operationId = None
  BY <1>1, DeletedType
<1>4. ops' \in [Operation -> OperationRow]
  BY <1>1, <1>2
<1>5. TypeOK'
  BY <1>1, <1>3, <1>4 DEF TypeOK
<1>6. ForeignKey(Db)'
  <2> SUFFICES ASSUME NEW j \in Job, jobs'[j].operationId # None
               PROVE  jobs'[j].operationId \in Operation /\ Present(ops'[jobs'[j].operationId])
    BY DEF ForeignKey, Db
  <2>1. j \notin S /\ jobs'[j].operationId = jobs[j].operationId
    BY <1>3
  <2>2. jobs[j].operationId \in Operation /\ Present(ops[jobs[j].operationId])
    BY <1>1, <2>1 DEF ForeignKey, Db
  <2>3. jobs[j].operationId \notin G
    BY <2>1
  <2>4. QED
    BY <2>1, <2>2, <2>3
<1>7. CountersMatchRows'
  <2> SUFFICES ASSUME NEW p \in Operation, Present(ops'[p]), p \notin unsettled
               PROVE  RowsCounted(Db', p, hidden[p])
    BY DEF CountersMatchRows
  <2>1. p \notin G /\ ops'[p] = ops[p]
    BY <1>2
  <2>2. RowsCounted(Db, p, hidden[p])
    BY <2>1 DEF IInv, CountersMatchRows
  <2>3. None # p
    BY NoneAssumption
  <2>4. Untouched(jobs, jobs', p)
    BY <1>3, <2>1, <2>3 DEF Untouched
  <2>5. \A st : CountIn(jobs', st, p) = CountIn(jobs, st, p)
    BY <2>4, SameRowsCounted
  <2>6. QED
    BY <2>1, <2>2, <2>5 DEF RowsCounted, Db
<1>8. StatusFitsCounters'
  <2>1. \A p \in Operation : Present(ops'[p]) => Present(ops[p]) /\ ops'[p] = ops[p]
    BY <1>2
  <2>2. QED
    BY <2>1 DEF IInv, StatusFitsCounters
<1>9. QED
  BY <1>1, <1>5, <1>6, <1>7, <1>8 DEF IInv

LEMMA StepSweep ==
  ASSUME IInv, Sweep
  PROVE  IInv'
<1>1. /\ TypeOK /\ ForeignKey(Db) /\ CountersMatchRows /\ StatusFitsCounters
      /\ ReadOnce(orphanScan)
      /\ jobs \in [Job -> JobRow] /\ ops \in [Operation -> OperationRow]
  BY DEF IInv, TypeOK
<1>2. ASSUME NEW spared, OrphanRead(spared) PROVE IInv'
  <2>1. Orphans \ spared \in SUBSET Job
    BY DEF Orphans, InState
  <2>2. orphanScan' \in SUBSET RowRead /\ ReadOnce(orphanScan')
    BY <1>2, <2>1, ReadsType DEF OrphanRead
  <2>3. UNCHANGED <<jobs, ops, polled, expiredOps, unsettled, hidden>>
    BY <1>2 DEF OrphanRead
  <2>4. QED
    BY <1>1, <2>2, <2>3 DEF IInv, TypeOK, Db, ForeignKey, CountersMatchRows, StatusFitsCounters,
        RowsCounted
<1>3. CASE RecoverOrphans
  <2>1. Good(RecoverRows(Db, orphanScan))
    BY <1>1, IInvIsGood, GoodAfterRecover DEF TypeOK
  <2>2. QED
    BY <1>3, <2>1, CommitGood DEF RecoverOrphans
<1>4. ASSUME NEW o \in Operation, ExpiredRead(o) PROVE IInv'
  <2>1. /\ expiredOps' \subseteq Operation
        /\ UNCHANGED <<jobs, ops, polled, orphanScan, unsettled, hidden>>
    BY <1>1, <1>4 DEF ExpiredRead, TypeOK
  <2>2. QED
    BY <1>1, <2>1 DEF IInv, TypeOK, Db, ForeignKey, CountersMatchRows, StatusFitsCounters,
        RowsCounted
<1>5. CASE DeleteExpired
  <2> DEFINE S == {j \in Job : jobs[j].operationId \in expiredOps}
  <2>1. /\ jobs' = Deleted(jobs, S)
        /\ ops' = [o \in Operation |-> IF o \in expiredOps THEN BlankRow("deleted") ELSE ops[o]]
        /\ expiredOps' = {}
        /\ UNCHANGED <<polled, orphanScan, unsettled, hidden>>
    BY <1>5 DEF DeleteExpired
  <2>2. /\ S \in SUBSET Job /\ expiredOps \in SUBSET Operation
        /\ \A j \in Job : jobs[j].operationId \in expiredOps => j \in S
        /\ \A j \in S : jobs[j].operationId \in expiredOps \cup {None}
    BY <1>1 DEF TypeOK
  <2> HIDE DEF S
  <2>3. QED
    BY <2>1, <2>2, DeleteKeepsIInv
<1>6. ASSUME NEW j \in Job, PurgeStandalone(j) PROVE IInv'
  <2>1. /\ jobs' = Deleted(jobs, {j})
        /\ jobs[j].operationId = None
        /\ UNCHANGED <<ops, polled, orphanScan, expiredOps, unsettled, hidden>>
    BY <1>6 DEF PurgeStandalone
  <2> DEFINE S == {j}
             G == {}
  <2>2. /\ ops' = [o \in Operation |-> IF o \in G THEN BlankRow("deleted") ELSE ops[o]]
        /\ G \in SUBSET Operation /\ S \in SUBSET Job
        /\ \A k \in Job : jobs[k].operationId \in G => k \in S
        /\ \A k \in S : jobs[k].operationId \in G \cup {None}
    BY <1>1, <2>1
  <2>3. jobs' = Deleted(jobs, S)
    BY <2>1
  <2> HIDE DEF S, G
  <2>4. QED
    BY <2>1, <2>2, <2>3, DeleteKeepsIInv
<1>7. QED
  BY <1>2, <1>3, <1>4, <1>5, <1>6 DEF Sweep

LEMMA StepTime ==
  ASSUME IInv, Time
  PROVE  IInv'
<1>1. Good(Db) /\ Db.jobs = jobs /\ Db.ops = ops
  BY IInvIsGood
<1>2. jobs \in [Job -> JobRow] /\ \A j \in Job : jobs[j] \in JobRow
  BY DEF IInv, TypeOK
<1>3. ASSUME jobs' \in [Job -> JobRow], UNCHANGED <<ops, unsettled, hidden>>,
             polled' \in SUBSET polled,
             orphanScan' \in {orphanScan, {}}, expiredOps' \in {expiredOps, {}},
             \A j \in Job : jobs'[j].status = jobs[j].status
                          /\ jobs'[j].operationId = jobs[j].operationId
      PROVE  IInv'
  <2> DEFINE after == [jobs |-> jobs', ops |-> Db.ops]
  <2>1. Good(after)
    BY <1>1, <1>3, GoodAfterAnnotate
  <2>2. TypeOK'
    BY <1>3 DEF IInv, TypeOK
  <2>3. ForeignKey(Db)'
    BY <1>1, <1>3, <2>1 DEF Good, ForeignKey, Db
  <2>4. CountersMatchRows'
    BY <1>1, <1>3, <2>1 DEF Good, Counted, Kept, CountersMatchRows, RowsCounted, Db
  <2>5. StatusFitsCounters'
    BY <1>3 DEF IInv, StatusFitsCounters
  <2>6. ReadOnce(orphanScan')
    BY <1>3 DEF IInv, ReadOnce
  <2>7. QED
    BY <2>2, <2>3, <2>4, <2>5, <2>6 DEF IInv
<1>4. ASSUME NEW j \in Job, BecomeDue(j) PROVE IInv'
  <2> DEFINE due == NextDue(jobs, Job)
             row == [jobs[j] EXCEPT !.dueAs = due]
  <2>1. due \in Nat
    BY <1>2, NextDueType
  <2> HIDE DEF due
  <2>2. row \in JobRow /\ row.status = jobs[j].status /\ row.operationId = jobs[j].operationId
    BY <1>2, <2>1 DEF JobRow
  <2>3. jobs' = [jobs EXCEPT ![j] = row]
    BY <1>4 DEF BecomeDue, due
  <2> HIDE DEF row
  <2>4. QED
    BY <1>2, <1>3, <1>4, <2>2, <2>3 DEF BecomeDue
<1>5. ASSUME NEW j \in Job, LeaseExpires(j) PROVE IInv'
  <2> DEFINE row == [jobs[j] EXCEPT !.leaseExpired = TRUE]
  <2>1. row \in JobRow /\ row.status = jobs[j].status /\ row.operationId = jobs[j].operationId
    BY <1>2 DEF JobRow
  <2>2. jobs' = [jobs EXCEPT ![j] = row]
    BY <1>5 DEF LeaseExpires
  <2> HIDE DEF row
  <2>3. QED
    BY <1>2, <1>3, <1>5, <2>1, <2>2 DEF LeaseExpires
<1>6. CASE Restart
  <2>1. \A j \in Job : /\ [jobs[j] EXCEPT !.foreign = TRUE] \in JobRow
                      /\ [jobs[j] EXCEPT !.foreign = TRUE].status = jobs[j].status
                      /\ [jobs[j] EXCEPT !.foreign = TRUE].operationId = jobs[j].operationId
    BY <1>2 DEF JobRow
  <2>2. /\ jobs' \in [Job -> JobRow]
        /\ \A j \in Job : jobs'[j].status = jobs[j].status
                        /\ jobs'[j].operationId = jobs[j].operationId
    BY <1>2, <1>6, <2>1 DEF Restart
  <2>3. QED
    BY <1>3, <1>6, <2>2 DEF Restart
<1>7. QED
  BY <1>4, <1>5, <1>6 DEF Time
-----------------------------------------------------------------------------
LEMMA IInvInit == Init => IInv
<1> SUFFICES ASSUME Init PROVE IInv
  OBVIOUS
<1>1. TypeOK
  BY BlankRowType, StatusValues DEF Init, TypeOK, BlankJob, JobRow
<1>2. ForeignKey(Db)
  BY DEF Init, ForeignKey, Db, BlankJob
<1>3. CountersMatchRows
  BY DEF Init, CountersMatchRows, BlankRow, Present, Missing
<1>4. StatusFitsCounters
  BY DEF Init, StatusFitsCounters, BlankRow, Present, Missing
<1>5. ReadOnce(orphanScan)
  BY DEF Init, ReadOnce
<1>6. QED
  BY <1>1, <1>2, <1>3, <1>4, <1>5 DEF IInv

LEMMA IInvStep == IInv /\ [Next]_vars => IInv'
<1> SUFFICES ASSUME IInv, [Next]_vars PROVE IInv'
  OBVIOUS
<1>1. CASE Enqueue
  BY <1>1, BatchAssumption, StepEnqueue DEF Enqueue, OneEach
<1>2. CASE Claim
  BY <1>2, StepClaim, StepPoll DEF Claim, ClaimPass
<1>3. CASE Outcome
  <2>1. \A j \in Job : Tokens(j) \subseteq Nat
    BY DEF Tokens, IInv, TypeOK, JobRow
  <2>2. QED
    BY <1>3, <2>1, StepOutcome DEF Outcome
<1>4. CASE Cancel
  BY <1>4, StepCancel
<1>5. CASE ChangeOperation
  <2>1. \A o : 1..CountIn(jobs, "cancelled", o) \subseteq Nat
    BY CountType DEF CountIn, InState
  <2>2. QED
    BY <1>5, <2>1, StepOperation DEF ChangeOperation
<1>6. CASE Sweep
  BY <1>6, StepSweep
<1>7. CASE Time
  BY <1>7, StepTime
<1>8. CASE UNCHANGED vars
  <2>1. Good(Db) /\ Db.jobs = jobs /\ Db.ops = ops
    BY IInvIsGood
  <2>2. Commit(Db) /\ UNCHANGED <<polled, orphanScan, expiredOps, unsettled, hidden>>
    BY <1>8, <2>1 DEF vars, Commit
  <2>3. QED
    BY <2>1, <2>2, CommitGood
<1>9. QED
  BY <1>1, <1>2, <1>3, <1>4, <1>5, <1>6, <1>7, <1>8 DEF Next

(***************************************************************************)
(* Every table the transactions leave behind is well typed.                *)
(***************************************************************************)
THEOREM TypeCorrect == Spec => []TypeOK
<1>1. IInv => TypeOK
  BY DEF IInv
<1>2. QED
  BY <1>1, IInvInit, IInvStep, PTL DEF Spec

(***************************************************************************)
(* The counters of an operation, which progress.writer.ts only ever        *)
(* changes by increments, equal the numbers of its jobs by status, for any *)
(* number of jobs, workers and operations and any order of transactions.   *)
(***************************************************************************)
THEOREM CountersCorrect == Spec => []CountersMatchRows
<1>1. IInv => CountersMatchRows
  BY DEF IInv
<1>2. QED
  BY <1>1, IInvInit, IInvStep, PTL DEF Spec

(***************************************************************************)
(* The status expressions of progress.writer.ts, each computed by SQL from *)
(* the counters before its own update, never report an operation finished  *)
(* while a job of it is pending or running, nor leave one open when none   *)
(* is.                                                                     *)
(***************************************************************************)
THEOREM StatusCorrect == Spec => []StatusMatchesRows
<1>1. IInv => StatusMatchesRows
  <2> SUFFICES ASSUME IInv, NEW o \in Operation, Present(ops[o]), o \notin unsettled
               PROVE  LET idle == CountIn(jobs, "pending", o) + CountIn(jobs, "running", o) = 0
                      IN  /\ ops[o].status \in {"completed", "failed"} => idle
                          /\ ops[o].status = "completed" => ops[o].failed + ops[o].cancelled = 0
                          /\ idle /\ ops[o].total > 0 => ops[o].status \in TerminalStatus
                          /\ CountIn(jobs, "running", o) > 0
                               => ops[o].status \in {"running", "cancelled"}
    BY DEF StatusMatchesRows
  <2>1. StatusFits(ops[o]) /\ RowsCounted(Db, o, hidden[o])
    BY DEF IInv, StatusFitsCounters, CountersMatchRows
  <2>2. /\ ops[o].pending = CountIn(jobs, "pending", o)
        /\ ops[o].running = CountIn(jobs, "running", o)
    BY <2>1 DEF RowsCounted, Db
  <2>3. QED
    BY <2>1, <2>2 DEF StatusFits
<1>2. QED
  BY <1>1, IInvInit, IInvStep, PTL DEF Spec
=============================================================================
