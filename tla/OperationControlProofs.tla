----------------------- MODULE OperationControlProofs -----------------------
(***************************************************************************)
(* The cancel and resume calls.  Each of their steps is a transaction of   *)
(* the queue, or one of two that JobQueue's callers make only here: a      *)
(* resume with a total that has gone stale, and the enqueue of copies.     *)
(* What the calls promise is carried by the calls themselves: as long as   *)
(* an operation is unsettled some resume still has its rebuild to do, and  *)
(* as long as a job of a cancelled operation runs some cancel still has    *)
(* its update to make.                                                     *)
(***************************************************************************)
EXTENDS OperationControl, JobLifecycleProofs

(***************************************************************************)
(* The ranks of a set of jobs are the numbers below its size.              *)
(***************************************************************************)
LEMMA RanksRise ==
  ASSUME NEW S \in SUBSET Job, NEW j \in S, NEW k \in S, j < k
  PROVE  Rank(S, j) < Rank(S, k)
<1> DEFINE P == {i \in S : i < j}
           Q == {i \in S : i < k}
<1>1. Job \subseteq Nat
  BY JobAssumption
<1>2. P \in SUBSET Q /\ j \in Q /\ j \notin P /\ Q \in SUBSET Job /\ P \in SUBSET Job
  <2>1. j \in Nat /\ k \in Nat /\ \A i \in S : i \in Nat
    BY <1>1
  <2>2. \A i \in S : i < j => i < k
    BY <2>1
  <2>3. j \notin P
    BY <2>1
  <2>4. QED
    BY <2>2, <2>3
<1> HIDE DEF P, Q
<1>3. IsFiniteSet(Q) /\ Cardinality(P) \in Nat /\ Cardinality(Q) \in Nat
  BY <1>2, JobsFinite
<1>4. Cardinality(P) <= Cardinality(Q) /\ (Cardinality(P) = Cardinality(Q) => P = Q)
  BY <1>2, <1>3, FS_Subset
<1>5. Cardinality(P) < Cardinality(Q)
  BY <1>2, <1>3, <1>4
<1>6. QED
  BY <1>5 DEF P, Q, Rank

LEMMA RankBelow ==
  ASSUME NEW S \in SUBSET Job, NEW j \in S
  PROVE  Rank(S, j) \in 0..(Cardinality(S) - 1)
<1> DEFINE P == {i \in S : i < j}
<1>1. P \in SUBSET S /\ j \in S /\ P \in SUBSET Job
  OBVIOUS
<1>0. j \notin P
  <2>1. j \in Nat
    BY JobAssumption
  <2>2. QED
    BY <2>1
<1> HIDE DEF P
<1>2. IsFiniteSet(S) /\ Cardinality(P) \in Nat /\ Cardinality(S) \in Nat
  BY <1>1, JobsFinite
<1>3. Cardinality(P) <= Cardinality(S) /\ (Cardinality(P) = Cardinality(S) => P = S)
  BY <1>1, <1>2, FS_Subset
<1>4. Cardinality(P) < Cardinality(S)
  BY <1>0, <1>1, <1>2, <1>3
<1>5. Cardinality(P) \in 0..(Cardinality(S) - 1)
  BY <1>2, <1>4
<1>6. QED
  BY <1>5 DEF P, Rank

LEMMA EveryRankTaken ==
  ASSUME NEW S \in SUBSET Job, NEW n \in 0..(Cardinality(S) - 1)
  PROVE  \E j \in S : Rank(S, j) = n
<1> DEFINE size  == Cardinality(S)
           ranks == 0..(size - 1)
           rank  == [j \in S |-> Rank(S, j)]
<1>1. IsFiniteSet(S) /\ size \in Nat
  BY JobsFinite
<1>2. rank \in [S -> ranks]
  BY RankBelow
<1>3. ASSUME NEW j \in S, NEW k \in S, j # k PROVE rank[j] # rank[k]
  <2>1. rank[j] \in ranks /\ rank[k] \in ranks
    BY <1>2
  <2>2. rank[j] = Rank(S, j) /\ rank[k] = Rank(S, k)
    OBVIOUS
  <2>3. j < k \/ k < j
    BY <1>3, JobAssumption
  <2>4. rank[j] < rank[k] \/ rank[k] < rank[j]
    BY <2>2, <2>3, RanksRise
  <2> HIDE DEF rank
  <2>5. QED
    BY <1>1, <2>1, <2>4
<1> HIDE DEF rank
<1>4. rank \in Injection(S, ranks)
  BY <1>2, <1>3 DEF Injection, IsInjective
<1>5. IsFiniteSet(ranks) /\ Cardinality(ranks) = size
  BY <1>1, FS_Interval
<1>6. rank \in Surjection(S, ranks)
  BY <1>4, <1>5, FS_Injection
<1>7. \E j \in S : rank[j] = n
  BY <1>6 DEF Surjection
<1>8. QED
  BY <1>7 DEF rank

(***************************************************************************)
(* A page that is not empty has a last job, which the cursor moves to.     *)
(***************************************************************************)
LEMMA MaxIsJob ==
  ASSUME NEW S \in SUBSET Job, S # {}
  PROVE  Max(S) \in S
<1> DEFINE n == Cardinality(S) - 1
<1>1. IsFiniteSet(S) /\ Cardinality(S) \in Nat /\ Cardinality(S) # 0
  BY JobsFinite, FS_EmptySet
<1>2. n \in 0..n
  BY <1>1
<1>3. PICK j \in S : Rank(S, j) = n
  BY <1>2, EveryRankTaken
<1>4. ASSUME NEW k \in S, j < k PROVE FALSE
  <2>1. Rank(S, j) < Rank(S, k)
    BY <1>4, RanksRise
  <2>2. Rank(S, k) \in 0..n
    BY RankBelow
  <2> HIDE DEF n
  <2>3. QED
    BY <1>2, <1>3, <2>1, <2>2
<1>5. \A k \in S : j >= k
  BY <1>4, JobAssumption
<1>6. QED
  BY <1>5 DEF Max
-----------------------------------------------------------------------------
(***************************************************************************)
(* The copies of one worker's group are as many new ids, one input each.   *)
(***************************************************************************)
CopyBatch(o, S) == {Copy(o, j) : j \in S}

LEMMA CopiesAreInput ==
  ASSUME NEW o \in Operation, NEW S \in SUBSET Job
  PROVE  CopyBatch(o, S) \in SUBSET Input /\ OneEach(CopyBatch(o, S))
<1>1. \A j \in S : Copy(o, j) \in Input /\ Copy(o, j).id = j
  BY DEF Copy, Input
<1>2. QED
  BY <1>1 DEF CopyBatch, OneEach

(***************************************************************************)
(* What a step of the calls does to the tables.                            *)
(***************************************************************************)
StaleResume ==
    \E o \in Operation, total \in Nat : Resume(o, total)

CopyEnqueue ==
    \E batch \in SUBSET Input : OneEach(batch) /\ EnqueueMany(batch, FALSE)

QueueStep == [Next]_vars \/ StaleResume \/ CopyEnqueue

LEMMA QueueStepKeepsLInv ==
  ASSUME LInv, QueueStep
  PROVE  /\ LInv'
         /\ \A j \in Job : JobStep(jobs, jobs', j)
<1>1. IInv /\ LifeInv(jobs) /\ jobs \in [Job -> JobRow]
  BY DEF LInv, IInv, TypeOK
<1>2. CASE Next
  BY <1>2, LInvStep, NextSteps
<1>3. CASE UNCHANGED vars
  <2>1. AllSettled(jobs, jobs')
    BY <1>3 DEF vars, AllSettled, Settled
  <2>2. QED
    BY <1>1, <1>3, <2>1, LInvStep, SettledIsStep DEF JobStep, QuietStep
<1>4. CASE StaleResume
  <2>1. UNCHANGED jobs
    BY <1>4 DEF StaleResume, Resume
  <2>2. AllSettled(jobs, jobs')
    BY <2>1 DEF AllSettled, Settled
  <2>3. IInv'
    BY <1>1, <1>4, StepOperation DEF StaleResume
  <2>4. LifeInv(jobs)'
    BY <1>1, <2>1 DEF LifeInv
  <2>5. QED
    BY <1>1, <2>2, <2>3, <2>4, SettledIsStep DEF JobStep, QuietStep, LInv
<1>5. CASE CopyEnqueue
  <2>1. PICK batch \in SUBSET Input : OneEach(batch) /\ EnqueueMany(batch, FALSE)
    BY <1>5 DEF CopyEnqueue
  <2>2. IInv'
    BY <1>1, <2>1, StepEnqueue
  <2>3. \A j \in Job : JobStep(jobs, jobs', j)
    BY <1>1, <2>1, EnqueueSteps DEF JobStep
  <2>4. jobs' \in [Job -> JobRow]
    BY <2>2 DEF IInv, TypeOK
  <2>5. LifeInv(jobs')
    BY <1>1, <2>3, <2>4, JobStepKeepsLifeInv
  <2>6. QED
    BY <2>2, <2>3, <2>5 DEF LInv
<1>6. QED
  BY <1>2, <1>3, <1>4, <1>5 DEF QueueStep

(***************************************************************************)
(* A job of a stopped operation that runs after a step ran before it.      *)
(***************************************************************************)
LEMMA RunsOn ==
  ASSUME LInv, QueueStep, NEW o \in Operation, Stopped(ops[o]), NEW j \in JobsIn(o, "running")'
  PROVE  j \in JobsIn(o, "running")
<1>1. /\ j \in Job /\ jobs'[j].status = "running" /\ jobs'[j].operationId = o
      /\ o # None /\ jobs[j].attempts \in Nat
  BY NoneAssumption DEF JobsIn, InState, LInv, IInv, TypeOK, JobRow
<1>2. JobStep(jobs, jobs', j)
  BY <1>1, QueueStepKeepsLInv
<1>3. CASE StatusStep(jobs, jobs', j)
  BY <1>1, <1>3 DEF StatusStep, JobsIn, InState
<1>4. CASE ClaimStep(jobs, jobs', j)
  <2>1. jobs[j].attempts < jobs'[j].attempts /\ jobs[j].operationId = o
    BY <1>1, <1>4 DEF ClaimStep
  <2>2. CASE Next
    BY <1>1, <2>1, <2>2, StartedIsNotStopped
  <2>3. CASE UNCHANGED vars \/ StaleResume
    BY <1>1, <2>1, <2>3 DEF vars, StaleResume, Resume
  <2>4. CASE CopyEnqueue
    <3>1. QuietStep(jobs, jobs', j)
      BY <1>1, <2>4, EnqueueSteps DEF CopyEnqueue, LInv
    <3>2. QED
      BY <1>1, <1>4, <2>1, <3>1 DEF QuietStep, PlainStep, StatusStep, CompleteStep, DeleteStep,
         SubmitStep
  <2>5. QED
    BY <2>2, <2>3, <2>4 DEF QueueStep
<1>5. QED
  BY <1>1, <1>2, <1>3, <1>4 DEF JobStep, QuietStep, PlainStep, CompleteStep, DeleteStep, SubmitStep
-----------------------------------------------------------------------------
(***************************************************************************)
(* Only RequestFirst asks an operation to stop: no counter writer touches  *)
(* cancel_requested, and what writes a whole row clears it.                *)
(***************************************************************************)
Asked(os) == {o \in Operation : os[o].cancelRequested}

LEMMA WritersKeepAsked ==
  ASSUME NEW op \in OperationRow, NEW n \in Nat, NEW outcome \in TerminalStatus
  PROVE  /\ IncrementTotalItems(op, n).cancelRequested = op.cancelRequested
         /\ MarkJobStarted(op, n).cancelRequested = op.cancelRequested
         /\ MarkJobRetried(op, n).cancelRequested = op.cancelRequested
         /\ MarkJobFinished(op, outcome, n).cancelRequested = op.cancelRequested
         /\ MarkPendingJobsCancelled(op, n).cancelRequested = op.cancelRequested
BY DEF OperationRow, IncrementTotalItems, MarkJobStarted, MarkJobRetried, MarkJobFinished,
       MarkPendingJobsCancelled

LEMMA CancelPendingKeepsAsked ==
  ASSUME NEW db, Good(db), NEW S \in SUBSET InState(db.jobs, "pending")
  PROVE  Asked(CancelPendingJobs(db, S).ops) = Asked(db.ops)
<1> DEFINE gone == S \cup PendingDependents(db.jobs, S)
<1>1. gone \in SUBSET Job
  BY DependentsPending DEF InState
<1>2. CancelPendingJobs(db, S).ops = CountPendingCancelled(db.jobs, db.ops, gone)
  BY DEF CancelPendingJobs
<1> HIDE DEF gone
<1>3. \A o \in Operation : db.ops[o] \in OperationRow /\ CountOf(db.jobs, gone, o) \in Nat
  BY <1>1, DbFields, CountType DEF Good
<1>4. QED
  BY <1>2, <1>3, WritersKeepAsked DEF CountPendingCancelled, Asked, TerminalStatus

LEMMA FinishKeepsAsked ==
  ASSUME NEW db, Good(db), NEW outcome \in TerminalStatus,
         NEW S \in SUBSET InState(db.jobs, "running")
  PROVE  Asked(FinishJobs(db, S, outcome).ops) = Asked(db.ops)
<1> DEFINE done == [ jobs |-> Moved(db.jobs, S, outcome),
                     ops  |-> CountFinished(db.jobs, db.ops, S, outcome) ]
           gone == PendingDependents(done.jobs, S)
<1>1. Good(done) /\ S \in SUBSET Job
  BY GoodAfterFinished DEF InState
<1>2. \A o \in Operation : db.ops[o] \in OperationRow /\ CountOf(db.jobs, S, o) \in Nat
  BY <1>1, DbFields, CountType DEF Good
<1>3. Asked(done.ops) = Asked(db.ops)
  BY <1>2, WritersKeepAsked DEF CountFinished, Asked
<1>4. FinishJobs(db, S, outcome) \in
        { done, [ jobs |-> Moved(done.jobs, gone, "cancelled"),
                  ops  |-> CountPendingCancelled(done.jobs, done.ops, gone) ] }
  BY DEF FinishJobs
<1> HIDE DEF done
<1>5. gone \in SUBSET Job
  BY DependentsPending DEF InState
<1> HIDE DEF gone
<1>6. \A o \in Operation : done.ops[o] \in OperationRow /\ CountOf(done.jobs, gone, o) \in Nat
  BY <1>1, <1>5, DbFields, CountType DEF Good
<1>7. Asked(CountPendingCancelled(done.jobs, done.ops, gone)) = Asked(done.ops)
  BY <1>6, WritersKeepAsked DEF CountPendingCancelled, Asked
<1>8. QED
  BY <1>3, <1>4, <1>7

LEMMA RequeueKeepsAsked ==
  ASSUME NEW db, Good(db), NEW S \in SUBSET Job
  PROVE  Asked(RequeueJobs(db, S).ops) = Asked(db.ops)
<1>1. \A o \in Operation : db.ops[o] \in OperationRow /\ CountOf(db.jobs, S, o) \in Nat
  BY DbFields, CountType DEF Good
<1>2. QED
  BY <1>1, WritersKeepAsked DEF RequeueJobs, CountRetried, Asked, TerminalStatus

LEMMA RecoverKeepsAsked ==
  ASSUME NEW db, Good(db), NEW reads \in SUBSET RowRead, ReadOnce(reads)
  PROVE  Asked(RecoverRows(db, reads).ops) = Asked(db.ops)
<1> DEFINE running   == {r \in reads : db.jobs[r.id].status = "running"}
           retryable == {r.id : r \in {x \in running : x.attempts < MaxAttempts[x.id]}}
           exhausted == {r.id : r \in {x \in running : x.attempts >= MaxAttempts[x.id]}}
           requeued  == RequeueJobs(db, retryable)
<1>1. /\ Good(requeued) /\ retryable \in SUBSET InState(db.jobs, "running")
      /\ exhausted \in SUBSET InState(requeued.jobs, "running")
  BY RecoverParts
<1>2. RecoverRows(db, reads) = FinishJobs(requeued, exhausted, "failed")
  BY DEF RecoverRows
<1> HIDE DEF retryable, exhausted
<1>3. Asked(requeued.ops) = Asked(db.ops)
  BY <1>1, RequeueKeepsAsked DEF InState
<1> HIDE DEF requeued
<1>4. QED
  BY <1>1, <1>2, <1>3, FinishKeepsAsked DEF TerminalStatus

LEMMA ClaimsKeepAsked ==
  ASSUME NEW db, Good(db), NEW w, NEW max
  PROVE  Asked(ClaimCandidates(db, w, max).ops) = Asked(db.ops)
<1> DEFINE js      == db.jobs
           free    == FreeSlots(js, w)
           found   == Candidates(js, w, max)
           ready   == {j \in found : Claimable(db, j)}
           claimed == Granted(js, ready, free, max)
           dropped == {j \in Reached(js, found, ready, free, max) : MustCancel(db, j)}
           after   == CancelPendingJobs(db, dropped)
<1>1. ClaimCandidates(db, w, max).ops = CountStarted(js, after.ops, claimed)
  BY DEF ClaimCandidates
<1>2. /\ dropped \in SUBSET InState(js, "pending")
      /\ claimed \in SUBSET Job
  BY DEF Candidates, DuePending, Granted, Reached, InState
<1> HIDE DEF claimed, dropped
<1>3. Good(after) /\ Asked(after.ops) = Asked(db.ops)
  BY <1>2, GoodAfterCancelPending, CancelPendingKeepsAsked
<1> HIDE DEF after
<1>4. \A o \in Operation : after.ops[o] \in OperationRow /\ CountOf(js, claimed, o) \in Nat
  BY <1>2, <1>3, DbFields, CountType DEF Good
<1>5. Asked(CountStarted(js, after.ops, claimed)) = Asked(after.ops)
  BY <1>4, WritersKeepAsked DEF CountStarted, Asked, TerminalStatus
<1>6. QED
  BY <1>1, <1>3, <1>5

LEMMA OutcomeKeepsAsked ==
  ASSUME LInv, NEW j \in Job, NEW token \in Nat, NEW delayed,
         Complete(j, token) \/ Fail(j, token) \/ Retry(j, token, delayed)
  PROVE  Asked(ops') = Asked(ops)
<1>1. Good(Db) /\ Db.ops = ops /\ {j} \in SUBSET InState(Db.jobs, "running") /\ {j} \in SUBSET Job
  BY IInvIsGood DEF LInv, Complete, Fail, Retry, HoldsClaim, InState
<1>2. "completed" \in TerminalStatus /\ "failed" \in TerminalStatus
  BY DEF TerminalStatus
<1>3. ASSUME NEW db \in DbType, NEW row PROVE WithJob(db, j, row).ops = db.ops
  BY DEF WithJob, DbType
<1>4. CASE Complete(j, token)
  <2> DEFINE after == FinishJobs(Db, {j}, "completed")
             row == [after.jobs[j] EXCEPT !.result = token]
  <2>1. after \in DbType /\ Asked(after.ops) = Asked(ops)
    BY <1>1, <1>2, GoodAfterFinish, FinishKeepsAsked DEF Good
  <2>2. ops' = WithJob(after, j, row).ops
    BY <1>4 DEF Complete, Commit
  <2> HIDE DEF after, row
  <2>3. QED
    BY <1>3, <2>1, <2>2
<1>5. CASE Fail(j, token)
  BY <1>1, <1>2, <1>5, FinishKeepsAsked DEF Fail, Commit
<1>6. CASE Retry(j, token, delayed)
  <2> DEFINE after == RequeueJobs(Db, {j})
             due == IF delayed THEN 0 ELSE NextDue(jobs, Job \ {j})
             row == [after.jobs[j] EXCEPT !.dueAs = due, !.result = 0]
  <2>1. after \in DbType /\ Asked(after.ops) = Asked(ops)
    BY <1>1, GoodAfterRequeue, RequeueKeepsAsked DEF Good
  <2>2. ops' = WithJob(after, j, row).ops
    BY <1>6 DEF Retry, Commit
  <2> HIDE DEF after, row
  <2>3. QED
    BY <1>3, <2>1, <2>2
<1>7. QED
  BY <1>4, <1>5, <1>6

LEMMA CancelKeepsAsked ==
  ASSUME LInv, Cancel
  PROVE  Asked(ops') = Asked(ops)
<1>1. Good(Db) /\ Db.ops = ops /\ Db.jobs = jobs /\ "cancelled" \in TerminalStatus
  BY IInvIsGood DEF LInv, TerminalStatus
<1>2. ASSUME NEW S \in SUBSET InState(jobs, "pending"), Commit(CancelPendingJobs(Db, S))
      PROVE  Asked(ops') = Asked(ops)
  BY <1>1, <1>2, CancelPendingKeepsAsked DEF Commit
<1>3. ASSUME NEW S \in SUBSET InState(jobs, "running"), Commit(FinishJobs(Db, S, "cancelled"))
      PROVE  Asked(ops') = Asked(ops)
  BY <1>1, <1>3, FinishKeepsAsked DEF Commit
<1>4. ASSUME NEW j \in Job, CancelPending(j) PROVE Asked(ops') = Asked(ops)
  <2>1. {j} \in SUBSET InState(jobs, "pending")
    BY <1>4 DEF CancelPending, InState
  <2>2. QED
    BY <1>2, <1>4, <2>1 DEF CancelPending
<1>5. ASSUME NEW j \in Job, CancelRunning(j) PROVE Asked(ops') = Asked(ops)
  <2>1. {j} \in SUBSET InState(jobs, "running")
    BY <1>5 DEF CancelRunning, InState
  <2>2. QED
    BY <1>3, <1>5, <2>1 DEF CancelRunning
<1>6. ASSUME NEW o, CancelPendingByOperation(o) PROVE Asked(ops') = Asked(ops)
  BY <1>2, <1>6 DEF CancelPendingByOperation
<1>7. ASSUME NEW w, CancelAllPending(w) PROVE Asked(ops') = Asked(ops)
  BY <1>2, <1>7 DEF CancelAllPending
<1>8. ASSUME NEW w, CancelAllRunning(w) PROVE Asked(ops') = Asked(ops)
  BY <1>3, <1>8 DEF CancelAllRunning
<1>9. QED
  BY <1>4, <1>5, <1>6, <1>7, <1>8 DEF Cancel

LEMMA ClaimKeepsAsked ==
  ASSUME LInv, Claim
  PROVE  Asked(ops') = Asked(ops)
<1>1. ASSUME NEW w, NEW max, NEW spared, ClaimNextBatch(w, max, spared)
      PROVE  Asked(ops') = Asked(ops)
  <2> DEFINE reads == Reads(jobs, ExpiredLeases(w) \ spared)
             mid == RecoverRows(Db, reads)
  <2>1. reads \in SUBSET RowRead /\ ReadOnce(reads)
    BY ReadsType DEF LInv, ExpiredLeases, InState
  <2>2. ops' = ClaimCandidates(mid, w, max).ops
    BY <1>1 DEF ClaimNextBatch, Commit
  <2> HIDE DEF reads
  <2>3. Good(mid) /\ Asked(mid.ops) = Asked(ops)
    BY <2>1, IInvIsGood, GoodAfterRecover, RecoverKeepsAsked DEF LInv
  <2> HIDE DEF mid
  <2>4. QED
    BY <2>2, <2>3, ClaimsKeepAsked
<1>2. QED
  BY <1>1 DEF Claim, ClaimPass, PollDue

LEMMA EnqueueKeepsAsked ==
  ASSUME LInv, NEW batch \in SUBSET Input, OneEach(batch), NEW counted \in BOOLEAN,
         EnqueueMany(batch, counted)
  PROVE  Asked(ops') = Asked(ops)
<1> DEFINE new == Inserted(batch)
           In(o) == Cardinality({in \in new : in.operationId = o})
<1>1. ASSUME NEW o PROVE In(o) \in Nat
  <2> DEFINE S == {in \in new : in.operationId = o}
             id == [in \in S |-> in.id]
  <2>1. new \subseteq batch
    BY DEF Inserted
  <2> HIDE DEF new
  <2>2. \A x, y \in S : x.id \in Job /\ (x.id = y.id => x = y)
    BY <2>1 DEF OneEach, Input
  <2> HIDE DEF S
  <2>3. id \in Injection(S, Job)
    BY <2>2 DEF Injection, IsInjective
  <2>4. IsFiniteSet(S)
    BY <2>3, JobAssumption, FS_Injection
  <2>5. QED
    BY <2>4, FS_CardinalityType DEF S
<1>2. \A o \in Operation : ops[o] \in OperationRow
  BY DEF LInv, IInv, TypeOK
<1>3. ops' = IF counted THEN [o \in Operation |-> IncrementTotalItems(ops[o], In(o))] ELSE ops
  BY DEF EnqueueMany
<1> HIDE DEF In
<1>4. QED
  BY <1>1, <1>2, <1>3, WritersKeepAsked DEF Asked, TerminalStatus

LEMMA OperationKeepsAsked ==
  ASSUME LInv, NEW o \in Operation,
         \/ \E withError \in BOOLEAN : CreateOperation(o, withError)
         \/ \E total \in Nat : Resume(o, total)
         \/ ReconcileFromJobs(o)
  PROVE  Asked(ops') \subseteq Asked(ops)
<1>1. ops \in [Operation -> OperationRow] /\ ops[o] \in OperationRow
  BY DEF LInv, IInv, TypeOK
<1>2. PICK row : ops' = [ops EXCEPT ![o] = row] /\ (row.cancelRequested => ops[o].cancelRequested)
  <2>1. \A withError \in BOOLEAN : ~CreatedRow(withError).cancelRequested
    BY DEF CreatedRow, BlankRow
  <2>2. \A total \in Nat : ~MarkResumed(total).cancelRequested
    BY DEF MarkResumed, BlankRow
  <2>3. \A p, r, d, f : Reconciled(ops[o], p, r, d, f).cancelRequested = ops[o].cancelRequested
    BY <1>1 DEF Reconciled, OperationRow
  <2>4. QED
    BY <2>1, <2>2, <2>3 DEF CreateOperation, Resume, ReconcileFromJobs
<1>3. QED
  BY <1>1, <1>2 DEF Asked
-----------------------------------------------------------------------------
(***************************************************************************)
(* The invariant.  A call that is under way is about an operation.  An     *)
(* operation is unsettled only while a resume has its rebuild before it,   *)
(* and a job of an operation that was asked to stop runs only while a      *)
(* cancel has its update before it.                                        *)
(***************************************************************************)
CallState == [ op : Operation \cup {None}, at : Step, total : Nat,
               cursor : Nat, more : BOOLEAN, todo : SUBSET Job ]

CallsFit ==
    \A c \in Call : IF At(c, "idle") THEN call[c] = NoCall ELSE call[c].op \in Operation

Rebuilding == {"page", "enqueue", "rollback", "reconcile"}

UnsettledIsRebuilt ==
    \A o \in unsettled : \E c \in Call : call[c].op = o /\ call[c].at \in Rebuilding

WillCancel(c, j) ==
    \/ call[c].at \in {"pending", "read"}
    \/ At(c, "running") /\ j \in call[c].todo

RunningIsCancelled ==
    \A o \in Asked(ops) : \A j \in JobsIn(o, "running") :
        \E c \in Call : call[c].op = o /\ WillCancel(c, j)

ControlInv ==
    /\ LInv
    /\ call \in [Call -> CallState]
    /\ taskOf \in [Job -> Job]
    /\ CallsFit
    /\ UnsettledIsRebuilt
    /\ RunningIsCancelled

LEMMA ControlInvInit == ControlInit => ControlInv
<1> SUFFICES ASSUME ControlInit PROVE ControlInv
  OBVIOUS
<1>1. LInv
  BY LInvInit DEF ControlInit
<1>2. NoCall \in CallState /\ NoCall.at = "idle"
  BY DEF NoCall, CallState, Step
<1>3. call \in [Call -> CallState] /\ taskOf \in [Job -> Job] /\ CallsFit
  BY <1>2 DEF ControlInit, CallsFit, At
<1>4. UnsettledIsRebuilt
  BY DEF ControlInit, Init, UnsettledIsRebuilt
<1>5. Asked(ops) = {}
  BY DEF ControlInit, Init, Asked, BlankRow
<1>6. QED
  BY <1>1, <1>3, <1>4, <1>5 DEF ControlInv, RunningIsCancelled

(***************************************************************************)
(* The calls under way are about operations.                               *)
(***************************************************************************)
LEMMA OpOfCall ==
  ASSUME ControlInv, NEW c \in Call, ~At(c, "idle")
  PROVE  call[c].op \in Operation
BY DEF ControlInv, CallsFit

LEMMA CancelPendingRowsSteps ==
  ASSUME LInv, NEW o \in Operation, CancelPendingRows(o)
  PROVE  /\ [Next]_vars
         /\ Asked(ops') = Asked(ops)
         /\ UNCHANGED unsettled
<1>1. CASE NoChange
  BY <1>1 DEF NoChange, vars
<1>2. CASE CancelPendingByOperation(o)
  <2>1. Cancel
    BY <1>2 DEF Cancel
  <2>2. QED
    BY <1>2, <2>1, CancelKeepsAsked DEF Next, CancelPendingByOperation
<1>3. QED
  BY <1>1, <1>2 DEF CancelPendingRows

\* The update of a job that runs, or that finds no row.
CancelIfRunning(j) == IF jobs[j].status = "running" THEN CancelRunning(j) ELSE NoChange

LEMMA CancelIfRunningSteps ==
  ASSUME LInv, NEW j \in Job, CancelIfRunning(j)
  PROVE  /\ [Next]_vars
         /\ Asked(ops') = Asked(ops)
         /\ UNCHANGED unsettled
         /\ jobs'[j].status # "running"
<1>1. CASE jobs[j].status # "running"
  BY <1>1 DEF CancelIfRunning, NoChange, vars
<1>2. CASE jobs[j].status = "running"
  <2>1. CancelRunning(j) /\ Cancel
    BY <1>2 DEF Cancel, CancelIfRunning
  <2>2. jobs'[j].status # "running"
    <3>1. "cancelled" # "failed"
      OBVIOUS
    <3>2. FinishJobs(Db, {j}, "cancelled").jobs = Moved(Db.jobs, {j}, "cancelled")
      BY <3>1 DEF FinishJobs
    <3>3. jobs' = Moved(jobs, {j}, "cancelled") /\ jobs[j] \in JobRow
      BY <2>1, <3>2 DEF CancelRunning, Commit, Db, LInv, IInv, TypeOK
    <3>4. QED
      BY <3>3, ReleaseFields, StatusValues DEF Moved
  <2>3. QED
    BY <2>1, <2>2, CancelKeepsAsked DEF Next, CancelRunning
<1>3. QED
  BY <1>1, <1>2

\* The batch of a resume's enqueue.
EnqueueCopies(c, w) ==
    EnqueueMany(CopyBatch(call[c].op, Copies(GroupOf(c, w), w)), FALSE)

LEMMA EnqueueCopiesSteps ==
  ASSUME ControlInv, NEW c \in Call, At(c, "enqueue"), NEW w, EnqueueCopies(c, w)
  PROVE  /\ QueueStep
         /\ Asked(ops') = Asked(ops)
         /\ unsettled' \subseteq unsettled \cup {call[c].op}
<1> DEFINE o == call[c].op
           new == Copies(GroupOf(c, w), w)
           batch == CopyBatch(o, new)
<1>1. o \in Operation /\ LInv
  BY OpOfCall DEF At, ControlInv
<1>2. new \in SUBSET Job
  BY DEF Copies, FirstOf, InState
<1>3. EnqueueMany(batch, FALSE)
  BY DEF EnqueueCopies
<1>4. \A in \in batch : in.operationId = o
  BY DEF CopyBatch, Copy
<1> HIDE DEF new
<1>5. batch \in SUBSET Input /\ OneEach(batch)
  BY <1>1, <1>2, CopiesAreInput
<1> HIDE DEF batch, o
<1>6. QueueStep
  BY <1>3, <1>5 DEF QueueStep, CopyEnqueue
<1>7. Asked(ops') = Asked(ops)
  BY <1>1, <1>3, <1>5, EnqueueKeepsAsked
<1>8. unsettled' \subseteq unsettled \cup {o}
  BY <1>3, <1>4 DEF EnqueueMany, Inserted
<1>9. QED
  BY <1>6, <1>7, <1>8 DEF o

LEMMA ReconcileSteps ==
  ASSUME LInv, NEW o \in Operation, ReconcileFromJobs(o)
  PROVE  /\ [Next]_vars
         /\ Asked(ops') \subseteq Asked(ops)
         /\ unsettled' = unsettled \ {o}
<1>1. ChangeOperation
  BY DEF ChangeOperation
<1>2. QED
  BY <1>1, OperationKeepsAsked DEF Next, ReconcileFromJobs

LEMMA BeginOrWorkSteps ==
  ASSUME LInv, Begin \/ Work
  PROVE  /\ [Next]_vars
         /\ Asked(ops') \subseteq Asked(ops)
         /\ UNCHANGED unsettled
<1>1. ASSUME NEW o \in Operation, CreateOperation(o, FALSE)
      PROVE  Next /\ Asked(ops') \subseteq Asked(ops) /\ UNCHANGED unsettled
  <2>1. ChangeOperation
    BY <1>1 DEF ChangeOperation
  <2>2. QED
    BY <1>1, <2>1, OperationKeepsAsked DEF Next, CreateOperation
<1>2. ASSUME NEW batch \in Batches, EnqueueMany(batch, TRUE)
      PROVE  Next /\ Asked(ops') \subseteq Asked(ops) /\ UNCHANGED unsettled
  <2>1. batch \in SUBSET Input /\ OneEach(batch)
    BY BatchAssumption DEF OneEach
  <2>2. Enqueue
    BY <1>2 DEF Enqueue
  <2>3. QED
    BY <1>2, <2>1, <2>2, EnqueueKeepsAsked DEF Next, EnqueueMany
<1>3. CASE Claim
  BY <1>3, ClaimKeepsAsked DEF Next, Claim, PollDue, ClaimPass, ClaimNextBatch
<1>4. ASSUME NEW j \in Job, NEW token \in Tokens(j),
             Complete(j, token) \/ Fail(j, token) \/ Retry(j, token, FALSE)
      PROVE  Next /\ Asked(ops') \subseteq Asked(ops) /\ UNCHANGED unsettled
  <2>1. token \in Nat
    BY DEF Tokens, LInv, IInv, TypeOK, JobRow
  <2>2. Outcome
    BY <1>4 DEF Outcome
  <2>3. QED
    BY <1>4, <2>1, <2>2, OutcomeKeepsAsked DEF Next, Complete, Fail, Retry
<1>5. QED
  BY <1>1, <1>2, <1>3, <1>4 DEF Begin, Work
-----------------------------------------------------------------------------
(***************************************************************************)
(* The state of the calls is well typed.                                   *)
(***************************************************************************)
LEMMA CallFields ==
  ASSUME NEW st \in CallState
  PROVE  /\ \A step \in Step : [st EXCEPT !.at = step] \in CallState
         /\ \A T \in SUBSET Job : [st EXCEPT !.todo = T] \in CallState
         /\ \A step \in Step, T \in SUBSET Job :
               [st EXCEPT !.at = step, !.todo = T] \in CallState
         /\ \A n \in Nat : [st EXCEPT !.at = "mark", !.total = n] \in CallState
BY DEF CallState, Step

LEMMA PageState ==
  ASSUME NEW st \in CallState, NEW page \in SUBSET Job, NEW n \in Nat, NEW b \in BOOLEAN
  PROVE  [st EXCEPT !.at = "enqueue", !.todo = page, !.cursor = n, !.more = b] \in CallState
BY DEF CallState, Step

\* The call that c makes goes from one state to the other.
Becomes(c, st) == call' = [call EXCEPT ![c] = st]

LEMMA BecomesTyped ==
  ASSUME call \in [Call -> CallState], NEW c \in Call, NEW st \in CallState, Becomes(c, st)
  PROVE  call' \in [Call -> CallState]
BY DEF Becomes

LEMMA GoTyped ==
  ASSUME call \in [Call -> CallState], NEW c \in Call, NEW step \in Step, Go(c, step)
  PROVE  call' \in [Call -> CallState]
<1>1. [call[c] EXCEPT !.at = step] \in CallState
  BY CallFields
<1>2. Becomes(c, [call[c] EXCEPT !.at = step])
  BY DEF Go, Becomes
<1>3. QED
  BY <1>1, <1>2, BecomesTyped

LEMMA EndTyped ==
  ASSUME call \in [Call -> CallState], NEW c \in Call, End(c)
  PROVE  call' \in [Call -> CallState]
BY DEF End, NoCall, CallState, Step

LEMMA NextGroupTyped ==
  ASSUME call \in [Call -> CallState], NEW c \in Call, NEW group, NextGroup(c, group)
  PROVE  call' \in [Call -> CallState]
<1> DEFINE T == call[c].todo \ group
           step == IF call[c].todo # group THEN "enqueue"
                   ELSE IF call[c].more THEN "page" ELSE "reconcile"
           st == [call[c] EXCEPT !.todo = T, !.at = step]
<1>1. T \in SUBSET Job /\ step \in Step
  BY DEF CallState, Step
<1>2. Becomes(c, st)
  BY DEF NextGroup, Becomes
<1> HIDE DEF T, step
<1>3. st \in CallState
  BY <1>1 DEF CallState
<1>4. QED
  BY <1>2, <1>3, BecomesTyped

(***************************************************************************)
(* Each copy stands for the task of the job that has its place in the      *)
(* group: there is one, since there are as many copies as jobs.            *)
(***************************************************************************)
LEMMA TaskOfTyped ==
  ASSUME taskOf \in [Job -> Job], NEW group \in SUBSET Job, NEW new \in SUBSET Job,
         Cardinality(new) = Cardinality(group),
         taskOf' = [j \in Job |->
                      IF j \in new
                      THEN taskOf[CHOOSE k \in group : Rank(group, k) = Rank(new, j)]
                      ELSE taskOf[j]]
  PROVE  taskOf' \in [Job -> Job]
<1>1. ASSUME NEW j \in new
      PROVE  (CHOOSE k \in group : Rank(group, k) = Rank(new, j)) \in group
  <2> DEFINE n == Rank(new, j)
  <2>1. n \in 0..(Cardinality(group) - 1)
    BY RankBelow
  <2> HIDE DEF n
  <2>2. \E k \in group : Rank(group, k) = n
    BY <2>1, EveryRankTaken
  <2>3. (CHOOSE k \in group : Rank(group, k) = n) \in group
    BY <2>2
  <2>4. QED
    BY <2>3 DEF n
<1>2. \A j \in Job : taskOf'[j] \in Job
  BY <1>1
<1>3. QED
  BY <1>2

LEMMA ControlTyped ==
  ASSUME ControlInv, ControlNext
  PROVE  call' \in [Call -> CallState] /\ taskOf' \in [Job -> Job]
<1>1. call \in [Call -> CallState] /\ taskOf \in [Job -> Job]
  BY DEF ControlInv
<1>3. CASE (Begin \/ Work) /\ UNCHANGED <<call, taskOf>>
  BY <1>1, <1>3
<1>4. ASSUME NEW c \in Call, NEW o \in Operation, CancelBegin(c, o) \/ ResumeBegin(c, o)
      PROVE  call' \in [Call -> CallState] /\ UNCHANGED taskOf
  <2>1. /\ [NoCall EXCEPT !.op = o, !.at = "request"] \in CallState
        /\ [NoCall EXCEPT !.op = o, !.at = "count"] \in CallState
    BY DEF NoCall, CallState, Step
  <2>2. QED
    BY <1>1, <1>4, <2>1, BecomesTyped DEF CancelBegin, ResumeBegin, Becomes
<1>5. ASSUME NEW c \in Call, RequestFirst(c) \/ PendingNext(c) \/ ResumeMark(c) \/ Rollback(c)
      PROVE  call' \in [Call -> CallState] /\ UNCHANGED taskOf
  BY <1>1, <1>5, GoTyped DEF RequestFirst, PendingNext, ResumeMark, Rollback, Step
<1>6. ASSUME NEW c \in Call, ReadRunning(c)
      PROVE  call' \in [Call -> CallState] /\ UNCHANGED taskOf
  <2> DEFINE found == ToCancel(call[c].op)
             st == [call[c] EXCEPT !.at = "running", !.todo = found]
  <2>1. found \in SUBSET Job
    BY DEF ToCancel, JobsIn, InState
  <2>2. End(c) \/ Becomes(c, st)
    BY <1>6 DEF ReadRunning, Becomes
  <2> HIDE DEF found
  <2>3. st \in CallState
    BY <1>1, <2>1, CallFields DEF Step
  <2>4. QED
    BY <1>1, <1>6, <2>2, <2>3, BecomesTyped, EndTyped DEF ReadRunning
<1>7. ASSUME NEW c \in Call, NEW j \in Job, CancelOne(c, j)
      PROVE  call' \in [Call -> CallState] /\ UNCHANGED taskOf
  <2> DEFINE rest == call[c].todo \ {j}
             st == [call[c] EXCEPT !.todo = rest]
  <2>1. rest \in SUBSET Job
    BY <1>1 DEF CallState
  <2>2. End(c) \/ Becomes(c, st)
    BY <1>7 DEF CancelOne, Becomes
  <2> HIDE DEF rest
  <2>3. st \in CallState
    BY <1>1, <2>1, CallFields
  <2>4. QED
    BY <1>1, <1>7, <2>2, <2>3, BecomesTyped, EndTyped DEF CancelOne
<1>8. ASSUME NEW c \in Call, ResumeCount(c)
      PROVE  call' \in [Call -> CallState] /\ UNCHANGED taskOf
  <2> DEFINE total == CountIn(jobs, "cancelled", call[c].op)
             st == [call[c] EXCEPT !.at = "mark", !.total = total]
  <2>1. total \in Nat
    BY CountType DEF CountIn, InState
  <2>2. End(c) \/ Becomes(c, st)
    BY <1>8 DEF ResumeCount, Becomes
  <2> HIDE DEF total
  <2>3. st \in CallState
    BY <1>1, <2>1, CallFields
  <2>4. QED
    BY <1>1, <1>8, <2>2, <2>3, BecomesTyped, EndTyped DEF ResumeCount
<1>9. ASSUME NEW c \in Call, ResumePage(c)
      PROVE  call' \in [Call -> CallState] /\ UNCHANGED taskOf
  <2> DEFINE page == Page(call[c].op, call[c].cursor)
             last == Max(page)
             full == Cardinality(page) = PageSize
             st == [call[c] EXCEPT !.at = "enqueue", !.todo = page, !.cursor = last, !.more = full]
  <2>1. page \in SUBSET Job
    BY DEF Page, FirstOf, JobsIn, InState
  <2>2. Go(c, "reconcile") \/ (page # {} /\ Becomes(c, st))
    BY <1>9 DEF ResumePage, Becomes
  <2>3. full \in BOOLEAN
    OBVIOUS
  <2> HIDE DEF page, full
  <2>4. page # {} => last \in Nat
    BY <2>1, MaxIsJob, JobAssumption
  <2> HIDE DEF last
  <2>5. page # {} => st \in CallState
    BY <1>1, <2>1, <2>3, <2>4, PageState
  <2> HIDE DEF st
  <2>6. QED
    BY <1>1, <1>9, <2>2, <2>5, BecomesTyped, GoTyped DEF ResumePage, Step
<1>10. ASSUME NEW c \in Call, NEW w \in Worker, ResumeEnqueue(c, w)
       PROVE  call' \in [Call -> CallState] /\ taskOf' \in [Job -> Job]
  <2> DEFINE group == GroupOf(c, w)
             new == Copies(group, w)
  <2>1. group \in SUBSET Job /\ new \in SUBSET Job
    BY <1>1 DEF GroupOf, Copies, FirstOf, InState, CallState
  <2>2. CASE ops[call[c].op].cancelRequested
    BY <1>1, <1>10, <2>2, GoTyped DEF ResumeEnqueue, Step
  <2>3. CASE ~ops[call[c].op].cancelRequested
    <3>1. /\ NextGroup(c, group)
          /\ Cardinality(new) = Cardinality(group)
          /\ taskOf' = [j \in Job |->
                          IF j \in new
                          THEN taskOf[CHOOSE k \in group : Rank(group, k) = Rank(new, j)]
                          ELSE taskOf[j]]
      BY <1>10, <2>3 DEF ResumeEnqueue
    <3> HIDE DEF group, new
    <3>2. taskOf' \in [Job -> Job]
      BY <1>1, <2>1, <3>1, TaskOfTyped
    <3>3. QED
      BY <1>1, <3>1, <3>2, NextGroupTyped
  <2>4. QED
    BY <2>2, <2>3
<1>11. ASSUME NEW c \in Call, NEW w \in Worker, ResumeSkip(c, w)
       PROVE  call' \in [Call -> CallState] /\ UNCHANGED taskOf
  BY <1>1, <1>11, NextGroupTyped DEF ResumeSkip
<1>12. ASSUME NEW c \in Call, ResumeReconcile(c)
       PROVE  call' \in [Call -> CallState] /\ UNCHANGED taskOf
  BY <1>1, <1>12, EndTyped DEF ResumeReconcile
<1>13. QED
  BY <1>1, <1>3, <1>4, <1>5, <1>6, <1>7, <1>8, <1>9, <1>10, <1>11, <1>12 DEF ControlNext
-----------------------------------------------------------------------------
(***************************************************************************)
(* Every step is one of the queue.  Requests are made by the first step of *)
(* a cancel, and operations become unsettled by those of a resume.         *)
(***************************************************************************)
\* A step that makes no request and takes up no unsettled operation.
PlainTables == QueueStep /\ Asked(ops') \subseteq Asked(ops) /\ unsettled' \subseteq unsettled

LEMMA UntouchedTables ==
  ASSUME UNCHANGED vars
  PROVE  PlainTables
BY DEF vars, PlainTables, QueueStep, Asked

LEMMA ControlTables ==
  ASSUME ControlInv, ControlNext
  PROVE  /\ QueueStep
         /\ \A o \in Asked(ops') \ Asked(ops) :
               \E c \in Call : call[c].op = o /\ RequestFirst(c)
         /\ \A o \in unsettled' \ unsettled :
               \E c \in Call : /\ call[c].op = o
                               /\ ResumeMark(c) \/ \E w \in Worker : ResumeEnqueue(c, w)
<1>1. LInv /\ ops \in [Operation -> OperationRow]
  BY DEF ControlInv, LInv, IInv, TypeOK
<1>2. ASSUME (Begin \/ Work) PROVE PlainTables
  BY <1>1, <1>2, BeginOrWorkSteps DEF PlainTables, QueueStep
<1>3. ASSUME NEW c \in Call, NEW o \in Operation, CancelBegin(c, o) \/ ResumeBegin(c, o)
      PROVE  PlainTables
  BY <1>3, UntouchedTables DEF CancelBegin, ResumeBegin
<1>4. ASSUME NEW c \in Call, RequestFirst(c)
      PROVE  /\ QueueStep
             /\ Asked(ops') \subseteq Asked(ops) \cup {call[c].op}
             /\ UNCHANGED unsettled
  <2>1. call[c].op \in Operation
    BY <1>4, OpOfCall DEF RequestFirst, At
  <2>2. ChangeOperation
    BY <1>4, <2>1 DEF RequestFirst, ChangeOperation
  <2>3. QED
    BY <1>1, <1>4, <2>2 DEF RequestFirst, CancelRequested, QueueStep, Next, Asked
<1>5. ASSUME NEW c \in Call, PendingNext(c) \/ Rollback(c) PROVE PlainTables
  <2>1. call[c].op \in Operation /\ CancelPendingRows(call[c].op)
    BY <1>5, OpOfCall DEF PendingNext, Rollback, At
  <2>2. QED
    BY <1>1, <2>1, CancelPendingRowsSteps DEF PlainTables, QueueStep
<1>6. ASSUME NEW c \in Call, ReadRunning(c) \/ ResumeCount(c) \/ ResumePage(c) PROVE PlainTables
  BY <1>6, UntouchedTables DEF ReadRunning, ResumeCount, ResumePage
<1>7. ASSUME NEW c \in Call, NEW j \in Job, CancelOne(c, j) PROVE PlainTables
  <2>1. CancelIfRunning(j)
    BY <1>7 DEF CancelOne, CancelIfRunning
  <2>2. QED
    BY <1>1, <2>1, CancelIfRunningSteps DEF PlainTables, QueueStep
<1>8. ASSUME NEW c \in Call, ResumeMark(c)
      PROVE  /\ QueueStep
             /\ Asked(ops') \subseteq Asked(ops)
             /\ unsettled' \subseteq unsettled \cup {call[c].op}
  <2>1. call[c].op \in Operation /\ call[c].total \in Nat
    BY <1>8, OpOfCall DEF ResumeMark, At, ControlInv, CallState
  <2>2. Resume(call[c].op, call[c].total)
    BY <1>8 DEF ResumeMark
  <2>3. QueueStep
    BY <2>1, <2>2 DEF StaleResume, QueueStep
  <2>4. Asked(ops') \subseteq Asked(ops)
    BY <1>1, <2>1, <2>2, OperationKeepsAsked
  <2>5. QED
    BY <2>2, <2>3, <2>4 DEF Resume
<1>9. ASSUME NEW c \in Call, NEW w \in Worker, ResumeEnqueue(c, w)
      PROVE  \/ PlainTables
             \/ /\ QueueStep
                /\ Asked(ops') \subseteq Asked(ops)
                /\ unsettled' \subseteq unsettled \cup {call[c].op}
  <2>1. CASE UNCHANGED vars
    BY <2>1, UntouchedTables
  <2>2. CASE EnqueueCopies(c, w)
    BY <1>9, <2>2, EnqueueCopiesSteps DEF ResumeEnqueue
  <2>3. QED
    BY <1>9, <2>1, <2>2 DEF ResumeEnqueue, EnqueueCopies, CopyBatch
<1>10. ASSUME NEW c \in Call, NEW w \in Worker, ResumeSkip(c, w) PROVE PlainTables
  BY <1>10, UntouchedTables DEF ResumeSkip
<1>11. ASSUME NEW c \in Call, ResumeReconcile(c) PROVE PlainTables
  <2>1. call[c].op \in Operation /\ ReconcileFromJobs(call[c].op)
    BY <1>11, OpOfCall DEF ResumeReconcile, Rebuild, At
  <2>2. QED
    BY <1>1, <2>1, ReconcileSteps DEF PlainTables, QueueStep
<1>12. CASE PlainTables
  BY <1>12 DEF PlainTables
<1>13. QED
  BY <1>2, <1>3, <1>4, <1>5, <1>6, <1>7, <1>8, <1>9, <1>10, <1>11, <1>12 DEF ControlNext

(***************************************************************************)
(* A step of the calls is one of a single call.                            *)
(***************************************************************************)
CallStep(c) ==
    \/ \E o \in Operation : CancelBegin(c, o) \/ ResumeBegin(c, o)
    \/ RequestFirst(c) \/ PendingNext(c) \/ ReadRunning(c)
    \/ \E j \in Job : CancelOne(c, j)
    \/ ResumeCount(c) \/ ResumeMark(c) \/ ResumePage(c)
    \/ \E w \in Worker : ResumeEnqueue(c, w) \/ ResumeSkip(c, w)
    \/ Rollback(c) \/ ResumeReconcile(c)

LEMMA OneCallMoves ==
  ASSUME ControlInv, ControlNext, NEW c \in Call
  PROVE  call'[c] = call[c] \/ CallStep(c)
<1>1. call \in [Call -> CallState]
  BY DEF ControlInv
<1>2. CASE UNCHANGED call
  BY <1>2
<1>3. ASSUME NEW d \in Call, d # c, CallStep(d) PROVE call'[c] = call[c]
  BY <1>1, <1>3 DEF CallStep, CancelBegin, ResumeBegin, RequestFirst, PendingNext, ReadRunning,
     CancelOne, ResumeCount, ResumeMark, ResumePage, ResumeEnqueue, ResumeSkip, Rollback,
     ResumeReconcile, Go, End, NextGroup
<1>4. QED
  BY <1>2, <1>3 DEF ControlNext, CallStep

(***************************************************************************)
(* A call keeps its operation.  A resume that has marked it stays at its   *)
(* work until its rebuild, and a cancel until the jobs it found are dealt  *)
(* with.                                                                   *)
(***************************************************************************)
LEMMA ResumeGoesOn ==
  ASSUME ControlInv, ControlNext, NEW c \in Call, call[c].at \in Rebuilding, ~ResumeReconcile(c)
  PROVE  call'[c].op = call[c].op /\ call'[c].at \in Rebuilding
<1> DEFINE Moves == call'[c].op = call[c].op /\ call'[c].at \in Rebuilding
<1>1. /\ call \in [Call -> CallState] /\ call[c] \in CallState
      /\ call[c] # NoCall
  BY DEF ControlInv, NoCall, Rebuilding
<1>2. CASE call'[c] = call[c]
  BY <1>2
<1>3. ASSUME NEW step \in Rebuilding, Go(c, step) PROVE Moves
  BY <1>1, <1>3 DEF Go, CallState
<1>4. ASSUME NEW group, NextGroup(c, group) PROVE Moves
  BY <1>1, <1>4 DEF NextGroup, CallState, Rebuilding
<1>5. CASE ResumePage(c)
  BY <1>1, <1>3, <1>5 DEF ResumePage, CallState, Rebuilding
<1>6. ASSUME \/ \E o \in Operation : CancelBegin(c, o) \/ ResumeBegin(c, o)
             \/ RequestFirst(c) \/ PendingNext(c) \/ ReadRunning(c)
             \/ \E j \in Job : CancelOne(c, j)
             \/ ResumeCount(c) \/ ResumeMark(c)
      PROVE  FALSE
  BY <1>1, <1>6 DEF CancelBegin, ResumeBegin, RequestFirst, PendingNext, ReadRunning, CancelOne,
     ResumeCount, ResumeMark, At, Rebuilding
<1>7. ASSUME \/ \E w \in Worker : ResumeEnqueue(c, w) \/ ResumeSkip(c, w)
             \/ Rollback(c)
      PROVE  Moves
  BY <1>3, <1>4, <1>7 DEF ResumeEnqueue, ResumeSkip, Rollback, Rebuilding
<1>8. QED
  BY <1>2, <1>5, <1>6, <1>7, OneCallMoves DEF CallStep

LEMMA CancelGoesOn ==
  ASSUME ControlInv, ControlNext, NEW c \in Call, NEW j \in Job, WillCancel(c, j),
         j \in JobsIn(call[c].op, "running"), jobs'[j].status = "running"
  PROVE  call'[c].op = call[c].op /\ WillCancel(c, j)'
<1> DEFINE Moves == call'[c].op = call[c].op /\ WillCancel(c, j)'
<1>1. /\ call \in [Call -> CallState] /\ call[c] \in CallState
      /\ call[c] # NoCall /\ LInv
  BY DEF ControlInv, NoCall, WillCancel, At
<1>2. CASE call'[c] = call[c]
  BY <1>2 DEF WillCancel, At
<1>3. CASE PendingNext(c)
  BY <1>1, <1>3 DEF PendingNext, Go, CallState, WillCancel
<1>4. CASE ReadRunning(c)
  <2>1. j \in ToCancel(call[c].op)
    BY DEF ToCancel
  <2>2. call' = [call EXCEPT ![c].at = "running", ![c].todo = ToCancel(call[c].op)]
    BY <1>4, <2>1 DEF ReadRunning
  <2>3. QED
    BY <1>1, <2>1, <2>2 DEF CallState, WillCancel, At
<1>5. ASSUME NEW i \in Job, CancelOne(c, i) PROVE Moves
  <2>1. CancelIfRunning(i) /\ At(c, "running") /\ j \in call[c].todo
    BY <1>5 DEF CancelOne, CancelIfRunning, WillCancel, At
  <2>2. i # j
    BY <1>1, <2>1, CancelIfRunningSteps
  <2>3. call' = [call EXCEPT ![c].todo = @ \ {i}]
    BY <1>5, <2>1, <2>2 DEF CancelOne
  <2>4. QED
    BY <1>1, <2>1, <2>2, <2>3 DEF CallState, WillCancel, At
<1>6. ASSUME \/ \E o \in Operation : CancelBegin(c, o) \/ ResumeBegin(c, o)
             \/ RequestFirst(c)
             \/ ResumeCount(c) \/ ResumeMark(c) \/ ResumePage(c)
             \/ \E w \in Worker : ResumeEnqueue(c, w) \/ ResumeSkip(c, w)
             \/ Rollback(c) \/ ResumeReconcile(c)
      PROVE  FALSE
  BY <1>1, <1>6 DEF CancelBegin, ResumeBegin, RequestFirst, ResumeCount, ResumeMark, ResumePage,
     ResumeEnqueue, ResumeSkip, Rollback, ResumeReconcile, At, WillCancel
<1>7. QED
  BY <1>2, <1>3, <1>4, <1>5, <1>6, OneCallMoves DEF CallStep

LEMMA UnsettledStep ==
  ASSUME ControlInv, ControlNext
  PROVE  UnsettledIsRebuilt'
<1> SUFFICES ASSUME NEW o \in unsettled'
             PROVE  \E c \in Call : call'[c].op = o /\ call'[c].at \in Rebuilding
  BY DEF UnsettledIsRebuilt
<1>1. call \in [Call -> CallState] /\ LInv /\ unsettled \subseteq Operation
  BY DEF ControlInv, LInv, IInv, TypeOK
<1>2. CASE o \notin unsettled
  <2>1. PICK c \in Call : /\ call[c].op = o
                          /\ ResumeMark(c) \/ \E w \in Worker : ResumeEnqueue(c, w)
    BY <1>2, ControlTables
  <2>2. call[c] \in CallState
    BY <1>1
  <2>3. CASE ResumeMark(c)
    BY <1>1, <2>1, <2>2, <2>3 DEF ResumeMark, Go, CallState, Rebuilding
  <2>4. ASSUME NEW w \in Worker, ResumeEnqueue(c, w)
        PROVE  call[c].at \in Rebuilding /\ ~ResumeReconcile(c)
    BY <2>4 DEF ResumeEnqueue, ResumeReconcile, At, Rebuilding
  <2>5. QED
    BY <2>1, <2>3, <2>4, ResumeGoesOn
<1>3. CASE o \in unsettled
  <2>1. PICK c \in Call : call[c].op = o /\ call[c].at \in Rebuilding
    BY <1>3 DEF ControlInv, UnsettledIsRebuilt
  <2>2. ~ResumeReconcile(c)
    BY <1>1, <1>3, <2>1, ReconcileSteps DEF ResumeReconcile, Rebuild
  <2>3. QED
    BY <2>1, <2>2, ResumeGoesOn
<1>4. QED
  BY <1>2, <1>3

LEMMA RunningStep ==
  ASSUME ControlInv, ControlNext
  PROVE  RunningIsCancelled'
<1> SUFFICES ASSUME NEW o \in Asked(ops'), NEW j \in JobsIn(o, "running")'
             PROVE  \E c \in Call : call'[c].op = o /\ WillCancel(c, j)'
  BY DEF RunningIsCancelled
<1>1. call \in [Call -> CallState] /\ LInv /\ o \in Operation
  BY DEF ControlInv, Asked
<1>2. CASE o \notin Asked(ops)
  <2>1. PICK c \in Call : call[c].op = o /\ RequestFirst(c)
    BY <1>2, ControlTables
  <2>2. call'[c].op = o /\ call'[c].at = "pending"
    BY <1>1, <2>1 DEF RequestFirst, Go, CallState
  <2>3. QED
    BY <2>2 DEF WillCancel
<1>3. CASE o \in Asked(ops)
  <2>1. Stopped(ops[o]) /\ QueueStep
    BY <1>3, ControlTables DEF Asked, Stopped
  <2>2. j \in JobsIn(o, "running") /\ j \in Job /\ jobs'[j].status = "running"
    BY <1>1, <2>1, RunsOn DEF JobsIn, InState
  <2>3. PICK c \in Call : call[c].op = o /\ WillCancel(c, j)
    BY <1>3, <2>2 DEF ControlInv, RunningIsCancelled
  <2>4. QED
    BY <2>2, <2>3, CancelGoesOn
<1>4. QED
  BY <1>2, <1>3

LEMMA CallsFitStep ==
  ASSUME ControlInv, ControlNext
  PROVE  CallsFit'
<1> SUFFICES ASSUME NEW c \in Call
             PROVE  IF call'[c].at = "idle" THEN call'[c] = NoCall ELSE call'[c].op \in Operation
  BY DEF CallsFit, At
<1>1. /\ call \in [Call -> CallState] /\ call[c] \in CallState
      /\ IF call[c].at = "idle" THEN call[c] = NoCall ELSE call[c].op \in Operation
  BY DEF ControlInv, CallsFit, At
<1>2. CASE call'[c] = call[c]
  BY <1>1, <1>2
<1>3. CASE End(c)
  BY <1>1, <1>3 DEF End, NoCall
<1>4. ASSUME NEW o \in Operation, CancelBegin(c, o) \/ ResumeBegin(c, o)
      PROVE  call'[c].at # "idle" /\ call'[c].op \in Operation
  BY <1>1, <1>4 DEF CancelBegin, ResumeBegin, NoCall
<1>5. ASSUME CallStep(c), \A o \in Operation : ~CancelBegin(c, o) /\ ~ResumeBegin(c, o), ~End(c)
      PROVE  call'[c].at # "idle" /\ call'[c].op \in Operation
  <2>1. call[c].op \in Operation /\ call[c].at # "idle"
    BY <1>1, <1>5 DEF CallStep, RequestFirst, PendingNext, ReadRunning, CancelOne, ResumeCount,
       ResumeMark, ResumePage, ResumeEnqueue, ResumeSkip, Rollback, ResumeReconcile, At
  <2>2. ASSUME NEW step, step # "idle", Go(c, step)
        PROVE  call'[c].at # "idle" /\ call'[c].op \in Operation
    BY <1>1, <2>1, <2>2 DEF Go, CallState
  <2>3. ASSUME NEW group, NextGroup(c, group)
        PROVE  call'[c].at # "idle" /\ call'[c].op \in Operation
    BY <1>1, <2>1, <2>3 DEF NextGroup, CallState
  <2>4. CASE ReadRunning(c) \/ ResumeCount(c) \/ ResumePage(c)
    BY <1>1, <1>5, <2>1, <2>2, <2>4 DEF ReadRunning, ResumeCount, ResumePage, CallState
  <2>5. ASSUME NEW j \in Job, CancelOne(c, j)
        PROVE  call'[c].at # "idle" /\ call'[c].op \in Operation
    BY <1>1, <1>5, <2>1, <2>5 DEF CancelOne, CallState
  <2>6. QED
    BY <1>5, <2>2, <2>3, <2>4, <2>5 DEF CallStep, RequestFirst, PendingNext, ResumeMark,
       ResumeEnqueue, ResumeSkip, Rollback, ResumeReconcile
<1>6. QED
  BY <1>2, <1>3, <1>4, <1>5, OneCallMoves

LEMMA ControlInvStep == ControlInv /\ [ControlNext]_controlVars => ControlInv'
<1> SUFFICES ASSUME ControlInv, [ControlNext]_controlVars PROVE ControlInv'
  OBVIOUS
<1>1. CASE ControlNext
  <2>1. LInv'
    BY <1>1, ControlTables, QueueStepKeepsLInv DEF ControlInv
  <2>2. QED
    BY <1>1, <2>1, ControlTyped, CallsFitStep, UnsettledStep, RunningStep DEF ControlInv
<1>2. CASE UNCHANGED controlVars
  <2>1. LInv'
    BY <1>2, LInvStep DEF ControlInv, controlVars
  <2>2. QED
    BY <1>2, <2>1 DEF ControlInv, controlVars, vars, CallsFit, UnsettledIsRebuilt,
       RunningIsCancelled, At, WillCancel, JobsIn, InState
<1>3. QED
  BY <1>1, <1>2
-----------------------------------------------------------------------------
(***************************************************************************)
(* Every reachable state of the calls and of the tables they work on is    *)
(* well typed: a page that is not empty has a last job for the cursor      *)
(* (resume), and each job of a group has a copy of its own.                *)
(***************************************************************************)
THEOREM ControlTypeCorrect == ControlSpec => []ControlTypeOK
<1>1. ControlInv => ControlTypeOK
  BY DEF ControlInv, ControlTypeOK, CallState, LInv, IInv
<1>2. QED
  BY <1>1, ControlInvInit, ControlInvStep, PTL DEF ControlSpec

LEMMA QuietSettles ==
  ASSUME ControlInv, Quiet
  PROVE  unsettled = {} /\ \A o \in Asked(ops) : JobsIn(o, "running") = {}
BY DEF ControlInv, Quiet, NoCall, UnsettledIsRebuilt, RunningIsCancelled, Rebuilding, WillCancel, At

(***************************************************************************)
(* Once the calls are over, however they overlapped, the counters are      *)
(* those of the rows and the status fits them: resume's last transaction,  *)
(* reconcileFromJobs, rebuilds what its preset total and its uncounted     *)
(* enqueues left wrong.                                                    *)
(***************************************************************************)
THEOREM CountersSettled == ControlSpec => []CountersSettle
<1>1. ControlInv => CountersSettle
  <2> SUFFICES ASSUME ControlInv, Quiet, NEW o \in Operation, Present(ops[o])
               PROVE  LET work == CountIn(jobs, "pending", o) + CountIn(jobs, "running", o)
                      IN  /\ RowsCounted(Db, o, hidden[o])
                          /\ ops[o].status \in Active /\ ops[o].total > 0 => work > 0
                          /\ ops[o].status \in {"completed", "failed"} => work = 0
    BY DEF CountersSettle
  <2>1. StatusFits(ops[o]) /\ RowsCounted(Db, o, hidden[o])
    BY QuietSettles DEF ControlInv, LInv, IInv, StatusFitsCounters, CountersMatchRows
  <2>2. /\ ops[o].pending = CountIn(jobs, "pending", o)
        /\ ops[o].running = CountIn(jobs, "running", o)
        /\ ops[o] \in OperationRow
    BY <2>1 DEF RowsCounted, Db, ControlInv, LInv, IInv, TypeOK
  <2>3. ops[o].pending \in Nat /\ ops[o].running \in Nat
    BY <2>2, FieldTypes
  <2>4. QED
    BY <2>1, <2>2, <2>3 DEF StatusFits, Active, TerminalStatus
<1>2. QED
  BY <1>1, ControlInvInit, ControlInvStep, PTL DEF ControlSpec

(***************************************************************************)
(* Once a cancel is over nothing of its operation runs, unless a resume    *)
(* has lifted it: the request comes before the pending rows and those      *)
(* before the running ones, so that a claim in between either is refused   *)
(* or is found (cancel).                                                   *)
(***************************************************************************)
THEOREM CancelStops == ControlSpec => []CancelStopsAll
<1>1. ControlInv => CancelStopsAll
  BY QuietSettles DEF CancelStopsAll, Asked
<1>2. QED
  BY <1>1, ControlInvInit, ControlInvStep, PTL DEF ControlSpec
-----------------------------------------------------------------------------
(* What the queue promises holds however an administrator's calls overlap. *)

LEMMA QueueStepKeepsLimits ==
  ASSUME LInv, QueueStep, ConcurrencyRespected, OneActivePerDedupeKey
  PROVE  ConcurrencyRespected' /\ OneActivePerDedupeKey'
<1>1. CASE [Next]_vars
  BY <1>1, ConcurrencyStep, DedupeStep
<1>2. CASE StaleResume
  BY <1>2 DEF StaleResume, Resume, ConcurrencyRespected, RunningFor, InState, OneActivePerDedupeKey
<1>3. CASE CopyEnqueue
  <2>1. PICK batch \in SUBSET Input : EnqueueMany(batch, FALSE)
    BY <1>3 DEF CopyEnqueue
  <2>2. \A j \in Job : QuietStep(jobs, jobs', j)
    BY <2>1, EnqueueSteps DEF LInv
  <2>3. ASSUME NEW v \in Worker PROVE RunningFor(v)' <= Concurrency[v]
    <3>1. RunningOf(jobs', v) \subseteq RunningOf(jobs, v) /\ RunningOf(jobs, v) \in SUBSET Job
      BY <2>2, QuietRunsNoMore DEF RunningOf, InState
    <3>2. /\ Cardinality(RunningOf(jobs', v)) \in Nat
          /\ Cardinality(RunningOf(jobs, v)) <= Concurrency[v]
      BY <3>1, JobsFinite DEF ConcurrencyRespected, RunningFor, RunningOf, InState
    <3>3. Cardinality(RunningOf(jobs', v)) <= Concurrency[v]
      BY <3>1, <3>2, FewerRunning, JobsFinite, LimitAssumption
    <3>4. QED
      BY <3>3 DEF RunningFor, RunningOf, InState
  <2>4. QED
    BY <2>1, <2>3, InsertKeepsUnique DEF ConcurrencyRespected, OneActivePerDedupeKey
<1>4. QED
  BY <1>1, <1>2, <1>3 DEF QueueStep

(***************************************************************************)
(* The tables under cancel and resume: the counters are those of the rows  *)
(* but for an operation whose resume is not over, no job starts before its *)
(* parent is done, no result is of an older claim, no worker runs more     *)
(* than its concurrency, and a resume's copies, which are inserted without *)
(* being counted, respect the dedupe key as the first enqueue does.        *)
(***************************************************************************)
THEOREM CallsKeepTables ==
  ControlSpec => [](/\ CountersMatchRows /\ DependencyRespected /\ ResultOfLastClaim
                    /\ ConcurrencyRespected /\ OneActivePerDedupeKey)
<1> DEFINE Limits == ConcurrencyRespected /\ OneActivePerDedupeKey
<1>1. LInv => CountersMatchRows /\ DependencyRespected /\ ResultOfLastClaim
  BY DEF LInv, IInv, LifeInv, DependencyRespected, ParentStatus, ResultOfLastClaim
<1>2. ControlInv => LInv
  BY DEF ControlInv
<1>3. ControlInit => Limits
  BY ConcurrencyInit DEF ControlInit, Init, BlankJob, OneActivePerDedupeKey, Active
<1>4. ControlInv /\ Limits /\ [ControlNext]_controlVars => Limits'
  <2>1. ControlInv /\ [ControlNext]_controlVars => LInv /\ QueueStep
    BY ControlTables DEF ControlInv, controlVars, QueueStep
  <2>2. QED
    BY <2>1, QueueStepKeepsLimits
<1> HIDE DEF Limits
<1>5. ControlSpec => []LInv /\ []Limits
  BY <1>2, <1>3, <1>4, ControlInvInit, ControlInvStep, PTL DEF ControlSpec
<1>6. QED
  BY <1>1, <1>5, PTL DEF Limits

(***************************************************************************)
(* Under the calls, too, nothing of a stopped operation is claimed: only a *)
(* claim pass starts a job, and it looks at the operation itself, whatever *)
(* a resume was told about it before.                                      *)
(***************************************************************************)
THEOREM CallsStartNothingStopped == ControlSpec => CancelledNeverStarts
<1> DEFINE A == \A j \in Job, o \in Operation :
                  jobs[j].attempts < jobs'[j].attempts /\ jobs[j].operationId = o =>
                      ~ops[o].cancelRequested /\ ops[o].status # "cancelled"
<1>1. ControlInv /\ [ControlNext]_controlVars => [A]_vars
  <2> SUFFICES ASSUME ControlInv, ControlNext, NEW j \in Job, NEW o \in Operation,
                      jobs[j].attempts < jobs'[j].attempts, jobs[j].operationId = o
               PROVE  ~Stopped(ops[o])
    BY DEF controlVars, Stopped
  <2>1. LInv /\ QueueStep /\ jobs[j].attempts \in Nat
    BY ControlTables DEF ControlInv, LInv, IInv, TypeOK, JobRow
  <2>2. CASE Next
    BY <2>1, <2>2, StartedIsNotStopped
  <2>3. CASE UNCHANGED vars \/ StaleResume
    BY <2>1, <2>3 DEF vars, StaleResume, Resume
  <2>4. CASE CopyEnqueue
    <3>1. QuietStep(jobs, jobs', j)
      BY <2>1, <2>4, EnqueueSteps DEF CopyEnqueue, LInv
    <3>2. QED
      BY <2>1, <3>1 DEF QuietStep, PlainStep, StatusStep, CompleteStep, DeleteStep, SubmitStep
  <2>5. QED
    BY <2>1, <2>2, <2>3, <2>4 DEF QueueStep
<1>2. QED
  BY <1>1, ControlInvInit, ControlInvStep, PTL DEF ControlSpec, CancelledNeverStarts

(***************************************************************************)
(* The queue under cancel and resume implements the life of a job as well: *)
(* a resume enqueues copies and brings no cancelled row back, and the      *)
(* statements of a cancel find rows that have moved on.                    *)
(***************************************************************************)
THEOREM CallsKeepPromise == ControlSpec => JobsKeepPromise
<1>1. ControlInit => Lifecycle!Init
  BY InitPromised DEF ControlInit
<1>2. ControlInv /\ ControlInv' /\ [ControlNext]_controlVars => [Lifecycle!Next]_Promised
  <2>1. ASSUME ControlInv, ControlInv', ControlNext PROVE Lifecycle!Next
    <3>1. LInv /\ LInv' /\ QueueStep
      BY <2>1, ControlTables DEF ControlInv
    <3>2. \A j \in Job : JobStep(jobs, jobs', j)
      BY <3>1, QueueStepKeepsLInv
    <3>3. QED
      BY <3>1, <3>2, JobStepsPromised
  <2>2. ASSUME UNCHANGED controlVars PROVE UNCHANGED Promised
    BY <2>2 DEF controlVars, vars, Promised
  <2>3. QED
    BY <2>1, <2>2
<1>3. QED
  BY <1>1, <1>2, ControlInvInit, ControlInvStep, PTL
     DEF ControlSpec, JobsKeepPromise, Lifecycle!Spec
=============================================================================
