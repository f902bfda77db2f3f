------------------------- MODULE JobLifecycleProofs -------------------------
(***************************************************************************)
(* JobQueue implements JobLifecycle.  Each transaction is shown to move    *)
(* every job by one JobStep, which is a step of the job's life, and which  *)
(* keeps the facts about single jobs (LifeInv) that the next one needs.    *)
(* Then what limits the jobs that run, that a failure reaches every job    *)
(* behind it, and that a claim pass leaves no slot idle beside a runnable  *)
(* job.                                                                    *)
(***************************************************************************)
EXTENDS JobQueueProofs

\* The parent of j after a step from the table js to new.
ParentLeft(js, new, j) ==
    LET p == js[j].dependsOn
    IN  IF p # None /\ new[p].status = "deleted" THEN None ELSE p

\* Everything but the status is kept; a job found running keeps its claim.
StatusStep(js, new, j) ==
    /\ new[j].dependsOn = ParentLeft(js, new, j)
    /\ new[j].operationId \in {js[j].operationId, None}
    /\ new[j].attempts = js[j].attempts
    /\ new[j].result = js[j].result
    /\ \/ new[j].status = js[j].status /\ new[j].claimToken = js[j].claimToken
       \/ js[j].status = "running" /\ new[j].status \in {"pending", "failed", "cancelled"}
       \/ js[j].status = "pending" /\ new[j].status = "cancelled"

SubmitStep(js, new, j) ==
    /\ js[j].status = "unused"
    /\ new[j].status = "pending" /\ new[j].attempts = 0 /\ new[j].result = 0
    /\ LET p == new[j].dependsOn
       IN  p # None => /\ p \in Job /\ Present(js[p]) /\ Present(new[p])

ClaimStep(js, new, j) ==
    /\ js[j].status \in Active /\ new[j].status = "running"
    /\ new[j].attempts = js[j].attempts + 1 /\ new[j].claimToken = new[j].attempts
    /\ new[j].result = js[j].result /\ new[j].dependsOn = js[j].dependsOn
    /\ new[j].operationId \in {js[j].operationId, None}
    /\ LET p == js[j].dependsOn
       IN  p # None => js[p].status = "completed" /\ new[p].status = "completed"

CompleteStep(js, new, j) ==
    /\ js[j].status = "running" /\ new[j].status = "completed"
    /\ new[j].attempts = js[j].attempts /\ new[j].result = js[j].attempts
    /\ new[j].dependsOn = js[j].dependsOn
    /\ LET p == js[j].dependsOn IN p # None => new[p].status = "completed"

DeleteStep(js, new, j) ==
    /\ Present(js[j])
    /\ new[j].status = "deleted" /\ new[j].dependsOn = None /\ new[j].operationId = None
    /\ new[j].attempts = 0 /\ new[j].result = 0

\* What a transaction does to a job that is neither enqueued nor claimed,
PlainStep(js, new, j) ==
    StatusStep(js, new, j) \/ CompleteStep(js, new, j) \/ DeleteStep(js, new, j)

\* to one that is not claimed,
QuietStep(js, new, j) == PlainStep(js, new, j) \/ SubmitStep(js, new, j)

\* and to any job.
JobStep(js, new, j) == QuietStep(js, new, j) \/ ClaimStep(js, new, j)

\* What is true of the rows: an id without a row belongs to no operation, a
\* running job holds its last claim, a result is there only when the job has
\* completed and is that of the last claim, a parent is there and, for a job
\* that has started, has completed.
LifeInv(js) ==
    \A j \in Job :
        LET p == js[j].dependsOn
        IN  /\ js[j].status \in Missing => js[j].operationId = None
            /\ js[j].status = "running" => js[j].claimToken = js[j].attempts
            /\ js[j].status \in Active => js[j].result = 0
            /\ js[j].status = "completed" => js[j].result = js[j].attempts
            /\ p # None => Present(js[p])
            /\ p # None /\ js[j].status \in {"running", "completed", "failed"}
                 => js[p].status = "completed"
-----------------------------------------------------------------------------
LEMMA JobStepKeepsLifeInv ==
  ASSUME NEW js \in [Job -> JobRow], NEW new \in [Job -> JobRow], LifeInv(js),
         \A j \in Job : JobStep(js, new, j)
  PROVE  LifeInv(new)
<1> SUFFICES ASSUME NEW j \in Job
             PROVE  LET p == new[j].dependsOn
                    IN  /\ new[j].status \in Missing => new[j].operationId = None
                        /\ new[j].status = "running" => new[j].claimToken = new[j].attempts
                        /\ new[j].status \in Active => new[j].result = 0
                        /\ new[j].status = "completed" => new[j].result = new[j].attempts
                        /\ p # None => Present(new[p])
                        /\ p # None /\ new[j].status \in {"running", "completed", "failed"}
                             => new[p].status = "completed"
  BY DEF LifeInv
<1>1. /\ js[j].dependsOn \in Job \cup {None} /\ new[j].dependsOn \in Job \cup {None}
      /\ js[j] \in JobRow /\ new[j] \in JobRow
  BY DEF JobRow
<1>2. \A p \in Job : /\ js[p].status = "completed"
                          => new[p].status \in {"completed", "deleted"}
                     /\ Present(js[p]) => new[p].status # "unused"
  BY DEF JobStep, QuietStep, PlainStep, StatusStep, SubmitStep, ClaimStep, CompleteStep, DeleteStep, Present,
         Missing, Active
<1>3. CASE StatusStep(js, new, j)
  BY <1>1, <1>2, <1>3 DEF StatusStep, ParentLeft, LifeInv, Present, Missing, Active
<1>4. CASE SubmitStep(js, new, j)
  BY <1>1, <1>2, <1>4 DEF SubmitStep, LifeInv, Present, Missing, Active
<1>5. CASE ClaimStep(js, new, j)
  BY <1>1, <1>2, <1>5 DEF ClaimStep, LifeInv, Present, Missing, Active
<1>6. CASE CompleteStep(js, new, j)
  BY <1>1, <1>2, <1>6 DEF CompleteStep, LifeInv, Present, Missing, Active
<1>7. CASE DeleteStep(js, new, j)
  BY <1>1, <1>2, <1>7 DEF DeleteStep, LifeInv, Present, Missing, Active
<1>8. QED
  BY <1>3, <1>4, <1>5, <1>6, <1>7 DEF JobStep, QuietStep, PlainStep
-----------------------------------------------------------------------------
(***************************************************************************)
(* Updates that only take claims away.                                     *)
(***************************************************************************)
Settled(js, new, j) ==
    /\ new[j].dependsOn = js[j].dependsOn
    /\ new[j].operationId \in {js[j].operationId, None}
    /\ new[j].attempts = js[j].attempts
    /\ new[j].result = js[j].result
    /\ \/ new[j].status = js[j].status /\ new[j].claimToken = js[j].claimToken
       \/ js[j].status = "running" /\ new[j].status \in {"pending", "failed", "cancelled"}
       \/ js[j].status = "pending" /\ new[j].status = "cancelled"

AllSettled(js, new) == \A j \in Job : Settled(js, new, j)

LEMMA SettledTwice ==
  ASSUME NEW js, NEW mid, NEW new, AllSettled(js, mid), AllSettled(mid, new)
  PROVE  AllSettled(js, new)
BY DEF AllSettled, Settled

LEMMA SettledIsStep ==
  ASSUME NEW js \in [Job -> JobRow], NEW new, LifeInv(js), AllSettled(js, new)
  PROVE  \A j \in Job : PlainStep(js, new, j)
<1> SUFFICES ASSUME NEW j \in Job PROVE StatusStep(js, new, j)
  BY DEF PlainStep
<1>1. js[j].dependsOn \in Job \cup {None}
  BY DEF JobRow
<1>2. ASSUME js[j].dependsOn # None PROVE new[js[j].dependsOn].status # "deleted"
  BY <1>1, <1>2 DEF LifeInv, AllSettled, Settled, Present, Missing
<1>3. QED
  BY <1>1, <1>2 DEF StatusStep, ParentLeft, AllSettled, Settled

LEMMA MovedSettles ==
  ASSUME NEW js \in [Job -> JobRow], NEW from, NEW to, NEW S \in SUBSET InState(js, from),
         \/ from = "running" /\ to \in {"pending", "failed", "cancelled"}
         \/ from = "pending" /\ to = "cancelled"
  PROVE  AllSettled(js, Moved(js, S, to))
<1>1. to \in RowStatus
  BY StatusValues
<1>2. SUFFICES ASSUME NEW j \in Job PROVE Settled(js, Moved(js, S, to), j)
  BY DEF AllSettled
<1>3. CASE j \in S
  <2>1. js[j].status = from
    BY <1>3 DEF InState
  <2>2. LET new == Release(js[j], to)
        IN  /\ new.status = to /\ new.dependsOn = js[j].dependsOn
            /\ new.attempts = js[j].attempts /\ new.result = js[j].result
            /\ new.operationId = js[j].operationId
    BY <1>1, ReleaseFields
  <2>3. Moved(js, S, to)[j] = Release(js[j], to)
    BY <1>3 DEF Moved
  <2>4. QED
    BY <2>1, <2>2, <2>3 DEF Settled
<1>4. CASE j \notin S
  BY <1>4 DEF Moved, Settled
<1>5. QED
  BY <1>3, <1>4

LEMMA CancelPendingSettles ==
  ASSUME NEW db, Good(db), NEW S \in SUBSET InState(db.jobs, "pending")
  PROVE  AllSettled(db.jobs, CancelPendingJobs(db, S).jobs)
<1>1. S \cup PendingDependents(db.jobs, S) \in SUBSET InState(db.jobs, "pending")
  BY DependentsPending
<1>2. CancelPendingJobs(db, S).jobs
        = Moved(db.jobs, S \cup PendingDependents(db.jobs, S), "cancelled")
  BY DEF CancelPendingJobs
<1>3. QED
  BY <1>1, <1>2, DbFields, MovedSettles DEF Good

LEMMA FinishSettles ==
  ASSUME NEW db, Good(db), NEW S \in SUBSET InState(db.jobs, "running"),
         NEW outcome \in {"failed", "cancelled"}
  PROVE  AllSettled(db.jobs, FinishJobs(db, S, outcome).jobs)
<1> DEFINE mid == Moved(db.jobs, S, outcome)
           dependents == PendingDependents(mid, S)
<1>1. db.jobs \in [Job -> JobRow] /\ outcome \in RowStatus
  BY DbFields, StatusValues DEF Good
<1>2. AllSettled(db.jobs, mid) /\ mid \in [Job -> JobRow]
  BY <1>1, MovedSettles, MovedType
<1>3. FinishJobs(db, S, outcome).jobs
        = IF outcome = "failed" THEN Moved(mid, dependents, "cancelled") ELSE mid
  BY DEF FinishJobs
<1> HIDE DEF mid
<1>4. AllSettled(mid, Moved(mid, dependents, "cancelled"))
  BY <1>2, DependentsPending, MovedSettles
<1>5. QED
  BY <1>2, <1>3, <1>4, SettledTwice

LEMMA RequeueSettles ==
  ASSUME NEW db, Good(db), NEW S \in SUBSET InState(db.jobs, "running")
  PROVE  AllSettled(db.jobs, RequeueJobs(db, S).jobs)
BY DbFields, MovedSettles DEF Good, RequeueJobs

LEMMA RecoverSettles ==
  ASSUME NEW db, Good(db), NEW reads \in SUBSET RowRead, ReadOnce(reads)
  PROVE  AllSettled(db.jobs, RecoverRows(db, reads).jobs)
<1> DEFINE running   == {r \in reads : db.jobs[r.id].status = "running"}
           retryable == {r.id : r \in {x \in running : x.attempts < MaxAttempts[x.id]}}
           exhausted == {r.id : r \in {x \in running : x.attempts >= MaxAttempts[x.id]}}
           requeued  == RequeueJobs(db, retryable)
<1>1. /\ Good(requeued) /\ retryable \in SUBSET InState(db.jobs, "running")
      /\ exhausted \in SUBSET InState(requeued.jobs, "running")
  BY RecoverParts
<1>2. RecoverRows(db, reads) = FinishJobs(requeued, exhausted, "failed")
  BY DEF RecoverRows
<1> HIDE DEF retryable, exhausted
<1>3. AllSettled(db.jobs, requeued.jobs)
  BY <1>1, RequeueSettles
<1> HIDE DEF requeued
<1>4. AllSettled(requeued.jobs, FinishJobs(requeued, exhausted, "failed").jobs)
  BY <1>1, FinishSettles
<1>5. QED
  BY <1>2, <1>3, <1>4, SettledTwice
-----------------------------------------------------------------------------
(***************************************************************************)
(* The claim pass: recovery settles jobs, then some are claimed and some   *)
(* cancelled.                                                              *)
(***************************************************************************)
LEMMA ClaimedFields ==
  ASSUME NEW row \in JobRow
  PROVE  /\ ClaimedRow(row).attempts = row.attempts + 1
         /\ ClaimedRow(row).claimToken = row.attempts + 1
BY DEF ClaimedRow, JobRow

LEMMA ClaimsStep ==
  ASSUME NEW db, Good(db), LifeInv(db.jobs), NEW w, NEW max
  PROVE  LET new == ClaimCandidates(db, w, max).jobs
         IN  \A j \in Job : Settled(db.jobs, new, j) \/ ClaimStep(db.jobs, new, j)
<1> DEFINE js      == db.jobs
           free    == FreeSlots(js, w)
           found   == Candidates(js, w, max)
           ready   == {j \in found : Claimable(db, j)}
           claimed == Granted(js, ready, free, max)
           dropped == {j \in Reached(js, found, ready, free, max) : MustCancel(db, j)}
           after   == CancelPendingJobs(db, dropped)
           new     == [j \in Job |-> IF j \in claimed THEN ClaimedRow(js[j]) ELSE after.jobs[j]]
<1>1. ClaimCandidates(db, w, max).jobs = new
  BY DEF ClaimCandidates
<1>2. /\ dropped \in SUBSET InState(js, "pending")
      /\ claimed \in SUBSET InState(js, "pending")
      /\ \A j \in claimed : Claimable(db, j)
  BY DEF Candidates, DuePending, Claimable, Granted, Reached
<1> HIDE DEF claimed, dropped
<1>3. AllSettled(js, after.jobs)
  BY <1>2, CancelPendingSettles
<1> HIDE DEF after
<1>4. js \in [Job -> JobRow] /\ \A j \in Job : js[j] \in JobRow
  BY DbFields DEF Good
<1>5. ASSUME NEW j \in Job, j \notin claimed PROVE Settled(js, new, j)
  BY <1>3, <1>5 DEF AllSettled, Settled
<1>6. ASSUME NEW j \in Job, j \in claimed PROVE ClaimStep(js, new, j)
  <2> DEFINE p == js[j].dependsOn
  <2>1. /\ js[j].status = "pending" /\ p \in Job \cup {None}
        /\ new[j] = ClaimedRow(js[j])
    BY <1>2, <1>4, <1>6 DEF InState, JobRow
  <2>2. ASSUME p # None PROVE js[p].status = "completed"
    <3>1. ParentStatus(js, j) = js[p].status
      BY <2>2 DEF ParentStatus
    <3>2. js[p].status \notin {"pending", "running", "failed", "cancelled"}
      BY <1>2, <1>6, <3>1 DEF Claimable, MustCancel, Active
    <3>3. Present(js[p]) /\ js[p].status \in RowStatus
      BY <1>4, <2>1, <2>2 DEF LifeInv, JobRow
    <3>4. QED
      BY <3>2, <3>3 DEF Present, RowStatus, Missing, OperationStatus
  <2>3. ASSUME p # None PROVE new[p].status = "completed"
    <3>1. p \in Job /\ p \notin claimed
      BY <1>2, <2>1, <2>2, <2>3 DEF InState
    <3>2. Settled(js, new, p)
      BY <1>5, <3>1
    <3>3. QED
      BY <2>2, <2>3, <3>2 DEF Settled
  <2>4. /\ new[j].status = "running" /\ new[j].attempts = js[j].attempts + 1
        /\ new[j].claimToken = js[j].attempts + 1
        /\ new[j].result = js[j].result /\ new[j].dependsOn = p
        /\ new[j].operationId = js[j].operationId
    BY <1>4, <2>1, ClaimedType, ClaimedFields
  <2> HIDE DEF new
  <2>5. QED
    BY <2>1, <2>2, <2>3, <2>4 DEF ClaimStep, Active
<1>7. QED
  BY <1>1, <1>5, <1>6

LEMMA ClaimPassSteps ==
  ASSUME IInv, LifeInv(jobs), NEW w, NEW max, NEW spared, ClaimNextBatch(w, max, spared)
  PROVE  \A j \in Job : PlainStep(jobs, jobs', j) \/ ClaimStep(jobs, jobs', j)
<1> DEFINE reads == Reads(jobs, ExpiredLeases(w) \ spared)
           mid == RecoverRows(Db, reads)
           new == ClaimCandidates(mid, w, max).jobs
<1>1. reads \in SUBSET RowRead /\ ReadOnce(reads)
  BY ReadsType DEF ExpiredLeases, InState
<1>2. jobs' = new
  BY DEF ClaimNextBatch, Commit
<1> HIDE DEF reads
<1>3. Good(mid) /\ AllSettled(jobs, mid.jobs)
  BY <1>1, IInvIsGood, GoodAfterRecover, RecoverSettles
<1> HIDE DEF mid
<1>4. jobs \in [Job -> JobRow] /\ mid.jobs \in [Job -> JobRow]
  BY <1>3, DbFields DEF IInv, TypeOK, Good
<1>5. LifeInv(mid.jobs)
  BY <1>3, <1>4, SettledIsStep, JobStepKeepsLifeInv DEF JobStep, QuietStep
<1>6. \A j \in Job : Settled(mid.jobs, new, j) \/ ClaimStep(mid.jobs, new, j)
  BY <1>3, <1>5, ClaimsStep
<1> HIDE DEF new
<1> SUFFICES ASSUME NEW j \in Job PROVE PlainStep(jobs, new, j) \/ ClaimStep(jobs, new, j)
  BY <1>2
<1> DEFINE p == jobs[j].dependsOn
<1>7. /\ p \in Job \cup {None} /\ p = mid.jobs[j].dependsOn
      /\ p # None => Present(jobs[p])
      /\ p # None => Settled(jobs, mid.jobs, p)
      /\ Settled(jobs, mid.jobs, j)
  BY <1>3, <1>4 DEF AllSettled, Settled, JobRow, LifeInv
<1>8. CASE Settled(mid.jobs, new, j)
  <2>1. Settled(jobs, new, j)
    BY <1>7, <1>8 DEF Settled
  <2>2. ASSUME p # None PROVE new[p].status # "deleted"
    BY <1>6, <1>7, <2>2 DEF Settled, ClaimStep, Present, Missing
  <2>3. QED
    BY <2>1, <2>2 DEF Settled, PlainStep, StatusStep, ParentLeft
<1>9. CASE ClaimStep(mid.jobs, new, j)
  <2>1. ClaimStep(jobs, new, j)
    BY <1>7, <1>9 DEF ClaimStep, Settled, Active
  <2>2. QED
    BY <2>1
<1>10. QED
  BY <1>6, <1>8, <1>9
-----------------------------------------------------------------------------
LEMMA OutcomeSteps ==
  ASSUME IInv, LifeInv(jobs), NEW j \in Job, NEW token \in Nat, NEW delayed,
         Complete(j, token) \/ Fail(j, token) \/ Retry(j, token, delayed)
  PROVE  \A k \in Job : PlainStep(jobs, jobs', k)
<1>1. /\ Good(Db) /\ Db.jobs = jobs
      /\ {j} \in SUBSET InState(Db.jobs, "running")
      /\ jobs \in [Job -> JobRow] /\ jobs[j] \in JobRow
      /\ jobs[j].status = "running" /\ jobs[j].claimToken = token
  BY IInvIsGood DEF Complete, Fail, Retry, HoldsClaim, InState, IInv, TypeOK
<1>2. CASE Complete(j, token)
  <2> DEFINE done == FinishJobs(Db, {j}, "completed").jobs
             row == [done[j] EXCEPT !.result = token]
  <2>1. done = Moved(jobs, {j}, "completed")
    <3>1. "completed" # "failed"
      OBVIOUS
    <3>2. FinishJobs(Db, {j}, "completed").jobs = Moved(Db.jobs, {j}, "completed")
      BY <3>1 DEF FinishJobs
    <3>3. QED
      BY <1>1, <3>2
  <2>2. jobs' = [done EXCEPT ![j] = row]
    BY <1>2 DEF Complete, Commit, WithJob
  <2> HIDE DEF done
  <2>3. /\ done[j] = Release(jobs[j], "completed")
        /\ \A k \in Job \ {j} : done[k] = jobs[k]
        /\ done \in [Job -> JobRow]
    <3>1. "completed" \in RowStatus
      BY StatusValues
    <3>2. done \in [Job -> JobRow]
      BY <1>1, <2>1, <3>1, MovedType
    <3>3. QED
      BY <2>1, <3>2 DEF Moved
  <2>4. /\ done[j].status = "completed" /\ done[j].dependsOn = jobs[j].dependsOn
        /\ done[j].attempts = jobs[j].attempts /\ done[j] \in JobRow
    BY <1>1, <2>3, ReleaseFields, StatusValues
  <2>5. /\ row.status = "completed" /\ row.dependsOn = jobs[j].dependsOn
        /\ row.attempts = jobs[j].attempts /\ row.result = token
    BY <2>4 DEF JobRow
  <2> HIDE DEF row
  <2>6. jobs'[j] = row /\ \A k \in Job \ {j} : jobs'[k] = jobs[k]
    BY <2>2, <2>3
  <2>7. jobs[j].attempts = token
    BY <1>1 DEF LifeInv
  <2>8. \A k \in Job : LET p == jobs[k].dependsOn
                       IN  p # None => p \in Job /\ Present(jobs[p])
    BY <1>1 DEF LifeInv, JobRow
  <2>9. CompleteStep(jobs, jobs', j)
    <3> DEFINE p == jobs[j].dependsOn
    <3>1. p # None => jobs[p].status = "completed"
      BY <1>1 DEF LifeInv
    <3>2. p # None => jobs'[p].status = "completed"
      BY <1>1, <2>6, <2>8, <3>1
    <3>3. QED
      BY <1>1, <2>5, <2>6, <2>7, <3>2 DEF CompleteStep
  <2>10. ASSUME NEW k \in Job \ {j} PROVE StatusStep(jobs, jobs', k)
    BY <2>5, <2>6, <2>8 DEF StatusStep, ParentLeft, Present, Missing
  <2>11. QED
    BY <2>9, <2>10 DEF PlainStep
<1>3. CASE Fail(j, token)
  <2>1. AllSettled(jobs, jobs')
    BY <1>1, <1>3, FinishSettles DEF Fail, Commit
  <2>2. QED
    BY <1>1, <2>1, SettledIsStep
<1>4. CASE Retry(j, token, delayed)
  <2> DEFINE queued == RequeueJobs(Db, {j}).jobs
             due == IF delayed THEN 0 ELSE NextDue(jobs, Job \ {j})
             row == [queued[j] EXCEPT !.dueAs = due, !.result = 0]
  <2>1. AllSettled(jobs, queued) /\ queued \in [Job -> JobRow]
    BY <1>1, RequeueSettles, GoodAfterRequeue, DbFields DEF Good
  <2>2. queued[j] \in JobRow /\ queued[j].status = "pending"
    BY <1>1, <2>1, StatusValues, ReleaseFields DEF RequeueJobs, Moved
  <2>3. jobs' = [queued EXCEPT ![j] = row]
    BY <1>4 DEF Retry, Commit, WithJob
  <2> HIDE DEF queued, due
  <2>4. /\ row.status = "pending" /\ row.dependsOn = queued[j].dependsOn
        /\ row.operationId = queued[j].operationId
        /\ row.attempts = queued[j].attempts /\ row.result = 0
    BY <2>2 DEF JobRow
  <2> HIDE DEF row
  <2>5. jobs[j].result = 0
    BY <1>1 DEF LifeInv, Active
  <2>6. AllSettled(jobs, jobs')
    BY <1>1, <2>1, <2>3, <2>4, <2>5 DEF AllSettled, Settled
  <2>7. QED
    BY <1>1, <2>6, SettledIsStep
<1>5. QED
  BY <1>2, <1>3, <1>4

LEMMA CancelSteps ==
  ASSUME IInv, LifeInv(jobs), Cancel
  PROVE  \A j \in Job : PlainStep(jobs, jobs', j)
<1>1. Good(Db) /\ Db.jobs = jobs /\ jobs \in [Job -> JobRow]
  BY IInvIsGood DEF IInv, TypeOK
<1>2. ASSUME NEW S \in SUBSET InState(jobs, "pending"), Commit(CancelPendingJobs(Db, S))
      PROVE  AllSettled(jobs, jobs')
  BY <1>1, <1>2, CancelPendingSettles DEF Commit
<1>3. ASSUME NEW S \in SUBSET InState(jobs, "running"), Commit(FinishJobs(Db, S, "cancelled"))
      PROVE  AllSettled(jobs, jobs')
  BY <1>1, <1>3, FinishSettles DEF Commit
<1>4. ASSUME NEW j \in Job, CancelPending(j) PROVE AllSettled(jobs, jobs')
  <2>1. {j} \in SUBSET InState(jobs, "pending")
    BY <1>4 DEF CancelPending, InState
  <2>2. QED
    BY <1>2, <1>4, <2>1 DEF CancelPending
<1>5. ASSUME NEW j \in Job, CancelRunning(j) PROVE AllSettled(jobs, jobs')
  <2>1. {j} \in SUBSET InState(jobs, "running")
    BY <1>5 DEF CancelRunning, InState
  <2>2. QED
    BY <1>3, <1>5, <2>1 DEF CancelRunning
<1>6. ASSUME NEW o, CancelPendingByOperation(o) PROVE AllSettled(jobs, jobs')
  BY <1>2, <1>6 DEF CancelPendingByOperation
<1>7. ASSUME NEW w, CancelAllPending(w) PROVE AllSettled(jobs, jobs')
  BY <1>2, <1>7 DEF CancelAllPending
<1>8. ASSUME NEW w, CancelAllRunning(w) PROVE AllSettled(jobs, jobs')
  BY <1>3, <1>8 DEF CancelAllRunning
<1>9. AllSettled(jobs, jobs')
  BY <1>4, <1>5, <1>6, <1>7, <1>8 DEF Cancel
<1>10. QED
  BY <1>1, <1>9, SettledIsStep

LEMMA OperationSteps ==
  ASSUME IInv, LifeInv(jobs), ChangeOperation
  PROVE  \A j \in Job : PlainStep(jobs, jobs', j)
<1>1. jobs \in [Job -> JobRow] /\ \A j \in Job : jobs[j] \in JobRow
  BY DEF IInv, TypeOK
<1>2. CASE UNCHANGED jobs
  BY <1>1, <1>2, SettledIsStep DEF AllSettled, Settled
<1>3. ASSUME NEW o \in Operation, RemoveOperation(o) PROVE AllSettled(jobs, jobs')
  <2>1. \A j \in Job : LET row == [jobs[j] EXCEPT !.operationId = None]
                       IN  /\ row.status = jobs[j].status /\ row.operationId = None
                           /\ row.dependsOn = jobs[j].dependsOn
                           /\ row.attempts = jobs[j].attempts /\ row.result = jobs[j].result
                           /\ row.claimToken = jobs[j].claimToken
    BY <1>1 DEF JobRow
  <2>2. \A j \in Job : jobs'[j] \in {jobs[j], [jobs[j] EXCEPT !.operationId = None]}
    BY <1>3 DEF RemoveOperation, Detached
  <2>3. QED
    BY <2>1, <2>2 DEF AllSettled, Settled
<1>4. QED
  BY <1>1, <1>2, <1>3, SettledIsStep
     DEF ChangeOperation, CreateOperation, CancelRequested, Resume, ReconcileFromJobs

LEMMA DeleteSteps ==
  ASSUME IInv, LifeInv(jobs), NEW S \in SUBSET Job, \A j \in S : Present(jobs[j]),
         jobs' = Deleted(jobs, S)
  PROVE  \A j \in Job : PlainStep(jobs, jobs', j)
<1>1. jobs \in [Job -> JobRow] /\ \A j \in Job : jobs[j] \in JobRow
  BY DEF IInv, TypeOK
<1> SUFFICES ASSUME NEW j \in Job PROVE PlainStep(jobs, jobs', j)
  OBVIOUS
<1>2. CASE j \in S
  <2>1. jobs'[j] = [BlankJob EXCEPT !.status = "deleted"]
    BY <1>2 DEF Deleted
  <2>2. QED
    BY <1>2, <2>1 DEF BlankJob, PlainStep, DeleteStep
<1>3. CASE j \notin S
  <2> DEFINE p == jobs[j].dependsOn
             cut == [jobs[j] EXCEPT !.dependsOn = None]
  <2>1. /\ cut.status = jobs[j].status /\ cut.operationId = jobs[j].operationId
        /\ cut.dependsOn = None /\ cut.claimToken = jobs[j].claimToken
        /\ cut.attempts = jobs[j].attempts /\ cut.result = jobs[j].result
    BY <1>1 DEF JobRow
  <2>2. jobs'[j] = IF p \in S THEN cut ELSE jobs[j]
    BY <1>3 DEF Deleted
  <2> HIDE DEF cut
  <2>3. p # None => /\ p \in Job /\ Present(jobs[p])
                    /\ jobs'[p].status = "deleted" <=> p \in S
    <3> SUFFICES ASSUME p # None
                 PROVE  /\ p \in Job /\ Present(jobs[p])
                        /\ jobs'[p].status = "deleted" <=> p \in S
      OBVIOUS
    <3>1. p \in Job /\ Present(jobs[p])
      BY <1>1 DEF LifeInv, JobRow
    <3>2. p \in S => jobs'[p].status = "deleted"
      BY <1>1, DeletedType
    <3>3. p \notin S => jobs'[p].status = jobs[p].status
      BY <1>1, <3>1, DeletedType
    <3>4. QED
      BY <3>1, <3>2, <3>3 DEF Present, Missing
  <2>4. StatusStep(jobs, jobs', j)
    BY <2>1, <2>2, <2>3, NoneAssumption DEF StatusStep, ParentLeft
  <2>5. QED
    BY <2>4 DEF PlainStep
<1>4. QED
  BY <1>2, <1>3

LEMMA SweepSteps ==
  ASSUME IInv, LifeInv(jobs), Sweep
  PROVE  \A j \in Job : PlainStep(jobs, jobs', j)
<1>1. jobs \in [Job -> JobRow] /\ Good(Db) /\ Db.jobs = jobs
  BY IInvIsGood DEF IInv, TypeOK
<1>2. CASE UNCHANGED jobs
  BY <1>1, <1>2, SettledIsStep DEF AllSettled, Settled
<1>3. CASE RecoverOrphans
  <2>1. orphanScan \in SUBSET RowRead /\ ReadOnce(orphanScan)
    BY DEF IInv, TypeOK
  <2>2. AllSettled(jobs, jobs')
    BY <1>1, <1>3, <2>1, RecoverSettles DEF RecoverOrphans, Commit
  <2>3. QED
    BY <1>1, <2>2, SettledIsStep
<1>4. CASE DeleteExpired
  <2> DEFINE S == {j \in Job : jobs[j].operationId \in expiredOps}
  <2>1. jobs' = Deleted(jobs, S)
    BY <1>4 DEF DeleteExpired
  <2>2. \A j \in S : Present(jobs[j])
    BY NoneAssumption DEF LifeInv, Present, IInv, TypeOK
  <2> HIDE DEF S
  <2>3. S \in SUBSET Job
    BY DEF S
  <2>4. QED
    BY <2>1, <2>2, <2>3, DeleteSteps
<1>5. ASSUME NEW k \in Job, PurgeStandalone(k) PROVE \A j \in Job : PlainStep(jobs, jobs', j)
  <2>1. jobs' = Deleted(jobs, {k}) /\ Present(jobs[k])
    BY <1>5 DEF PurgeStandalone, TerminalStatus, Present, Missing
  <2>2. \A j \in {k} : Present(jobs[j])
    BY <2>1
  <2>3. QED
    BY <2>1, <2>2, DeleteSteps
<1>6. QED
  BY <1>2, <1>3, <1>4, <1>5 DEF Sweep, OrphanRead, ExpiredRead

LEMMA TimeSteps ==
  ASSUME IInv, LifeInv(jobs), Time
  PROVE  \A j \in Job : PlainStep(jobs, jobs', j)
<1>1. jobs \in [Job -> JobRow] /\ \A j \in Job : jobs[j] \in JobRow
  BY DEF IInv, TypeOK
<1> DEFINE Alike(row, new) ==
             /\ new.status = row.status /\ new.operationId = row.operationId
             /\ new.dependsOn = row.dependsOn /\ new.claimToken = row.claimToken
             /\ new.attempts = row.attempts /\ new.result = row.result
<1>2. \A j \in Job : \A due : Alike(jobs[j], [jobs[j] EXCEPT !.dueAs = due])
  BY <1>1 DEF JobRow
<1>3. \A j \in Job : /\ Alike(jobs[j], [jobs[j] EXCEPT !.leaseExpired = TRUE])
                     /\ Alike(jobs[j], [jobs[j] EXCEPT !.foreign = TRUE])
                     /\ Alike(jobs[j], jobs[j])
  BY <1>1 DEF JobRow
<1> HIDE DEF Alike
<1>4. ASSUME NEW k \in Job, BecomeDue(k) PROVE \A j \in Job : Alike(jobs[j], jobs'[j])
  <2> DEFINE due == NextDue(jobs, Job)
             row == [jobs[k] EXCEPT !.dueAs = due]
  <2>1. jobs' = [jobs EXCEPT ![k] = row]
    BY <1>4 DEF BecomeDue
  <2>2. Alike(jobs[k], row)
    BY <1>2
  <2> HIDE DEF row
  <2>3. QED
    BY <1>1, <1>3, <2>1, <2>2
<1>5. ASSUME NEW k \in Job, LeaseExpires(k) PROVE \A j \in Job : Alike(jobs[j], jobs'[j])
  <2> DEFINE row == [jobs[k] EXCEPT !.leaseExpired = TRUE]
  <2>1. jobs' = [jobs EXCEPT ![k] = row]
    BY <1>5 DEF LeaseExpires
  <2>2. Alike(jobs[k], row)
    BY <1>3
  <2> HIDE DEF row
  <2>3. QED
    BY <1>1, <1>3, <2>1, <2>2
<1>6. ASSUME Restart PROVE \A j \in Job : Alike(jobs[j], jobs'[j])
  <2>1. \A j \in Job : jobs'[j] = jobs[j] \/ jobs'[j] = [jobs[j] EXCEPT !.foreign = TRUE]
    BY <1>6 DEF Restart
  <2>2. QED
    BY <1>3, <2>1
<1>7. AllSettled(jobs, jobs')
  BY <1>4, <1>5, <1>6 DEF Time, AllSettled, Settled, Alike
<1>8. QED
  BY <1>1, <1>7, SettledIsStep

LEMMA EnqueueSteps ==
  ASSUME IInv, LifeInv(jobs), NEW batch \in SUBSET Input, NEW counted \in BOOLEAN,
         EnqueueMany(batch, counted)
  PROVE  \A j \in Job : QuietStep(jobs, jobs', j)
<1> DEFINE new == Inserted(batch)
           due == NextDue(jobs, Job)
           Of(j) == CHOOSE in \in new : in.id = j
<1>1. /\ jobs \in [Job -> JobRow]
      /\ \A in \in new : in \in Input /\ ValidInput(in)
  BY DEF EnqueueMany, Inserted, IInv, TypeOK
<1>2. \A j \in Job : jobs'[j] = IF \E in \in new : in.id = j
                               THEN InsertedRow(Of(j), due) ELSE jobs[j]
  BY DEF EnqueueMany
<1> HIDE DEF new, due
<1>3. ASSUME NEW j \in Job, \E in \in new : in.id = j
      PROVE  Of(j) \in new /\ Of(j).id = j
  BY <1>3
<1> HIDE DEF Of
<1>4. ASSUME NEW j \in Job, Present(jobs[j]) PROVE jobs'[j] = jobs[j]
  BY <1>1, <1>2, <1>4 DEF ValidInput, Present, Missing
<1> SUFFICES ASSUME NEW j \in Job PROVE QuietStep(jobs, jobs', j)
  OBVIOUS
<1>5. CASE \E in \in new : in.id = j
  <2> DEFINE in == Of(j)
             p == in.dependsOn
  <2>1. in \in Input /\ ValidInput(in) /\ in.id = j
    BY <1>1, <1>3, <1>5
  <2>2. jobs'[j] = InsertedRow(in, due)
    BY <1>2, <1>5
  <2> HIDE DEF in
  <2>3. /\ jobs'[j].status = "pending" /\ jobs'[j].attempts = 0
        /\ jobs'[j].result = 0 /\ jobs'[j].dependsOn = p
    BY <2>2 DEF InsertedRow
  <2>4. p # None => p \in Job /\ Present(jobs[p])
    BY <2>1 DEF ValidInput, Input
  <2>5. p # None => Present(jobs'[p])
    BY <1>4, <2>4
  <2>6. jobs[j].status = "unused"
    BY <2>1 DEF ValidInput
  <2>7. QED
    BY <2>3, <2>4, <2>5, <2>6 DEF QuietStep, PlainStep, SubmitStep
<1>6. CASE ~(\E in \in new : in.id = j)
  <2> DEFINE p == jobs[j].dependsOn
  <2>1. jobs'[j] = jobs[j]
    BY <1>2, <1>6
  <2>2. p # None => p \in Job /\ Present(jobs[p])
    BY <1>1 DEF LifeInv, JobRow
  <2>3. p # None => jobs'[p].status # "deleted"
    BY <1>4, <2>2 DEF Present, Missing
  <2>4. QED
    BY <2>1, <2>3 DEF QuietStep, PlainStep, StatusStep, ParentLeft
<1>7. QED
  BY <1>5, <1>6
-----------------------------------------------------------------------------
LInv == IInv /\ LifeInv(jobs)

LEMMA LInvInit == Init => LInv
<1>1. Init => LifeInv(jobs)
  BY DEF Init, LifeInv, BlankJob, Active, Missing
<1>2. QED
  BY <1>1, IInvInit DEF LInv

LEMMA PlainSteps ==
  ASSUME LInv,
         \/ Outcome \/ Cancel \/ ChangeOperation \/ Sweep \/ Time
         \/ \E w \in Worker : PollDue(w)
  PROVE  \A j \in Job : PlainStep(jobs, jobs', j)
<1>1. IInv /\ LifeInv(jobs) /\ jobs \in [Job -> JobRow]
  BY DEF LInv, IInv, TypeOK
<1>2. CASE \E w \in Worker : PollDue(w)
  <2>1. AllSettled(jobs, jobs')
    BY <1>2 DEF PollDue, AllSettled, Settled
  <2>2. QED
    BY <1>1, <2>1, SettledIsStep
<1>3. CASE Outcome
  <2>1. \A j \in Job : Tokens(j) \subseteq Nat
    BY <1>1 DEF Tokens, JobRow
  <2>2. QED
    BY <1>1, <1>3, <2>1, OutcomeSteps DEF Outcome
<1>4. CASE Cancel
  BY <1>1, <1>4, CancelSteps
<1>5. CASE ChangeOperation
  BY <1>1, <1>5, OperationSteps
<1>6. CASE Sweep
  BY <1>1, <1>6, SweepSteps
<1>7. CASE Time
  BY <1>1, <1>7, TimeSteps
<1>8. QED
  BY <1>2, <1>3, <1>4, <1>5, <1>6, <1>7

LEMMA QuietSteps ==
  ASSUME LInv,
         \/ Enqueue \/ Outcome \/ Cancel \/ ChangeOperation \/ Sweep \/ Time
         \/ \E w \in Worker : PollDue(w)
  PROVE  \A j \in Job : QuietStep(jobs, jobs', j)
<1>1. CASE Enqueue
  BY <1>1, BatchAssumption, EnqueueSteps DEF Enqueue, LInv
<1>2. QED
  BY <1>1, PlainSteps DEF QuietStep

LEMMA NextSteps ==
  ASSUME LInv, Next
  PROVE  \A j \in Job : JobStep(jobs, jobs', j)
<1>1. ASSUME NEW w \in Worker, ClaimPass(w) PROVE \A j \in Job : JobStep(jobs, jobs', j)
  BY <1>1, ClaimPassSteps DEF LInv, ClaimPass, JobStep, QuietStep
<1>2. QED
  BY <1>1, QuietSteps DEF Next, Claim, JobStep

LEMMA LInvStep == LInv /\ [Next]_vars => LInv'
<1> SUFFICES ASSUME LInv, [Next]_vars PROVE LInv'
  OBVIOUS
<1>1. IInv' /\ jobs \in [Job -> JobRow] /\ jobs' \in [Job -> JobRow] /\ LifeInv(jobs)
  BY IInvStep DEF LInv, IInv, TypeOK
<1>2. CASE Next
  BY <1>1, <1>2, NextSteps, JobStepKeepsLifeInv DEF LInv
<1>3. CASE UNCHANGED vars
  BY <1>1, <1>3 DEF LInv, LifeInv, vars
<1>4. QED
  BY <1>2, <1>3

(***************************************************************************)
(* A job starts only once the job it depends on has completed or was       *)
(* deleted, and stays in that order: claimRunnableItems looks at the       *)
(* parents, and no recovery, retry or cancellation takes a completed       *)
(* parent back.                                                            *)
(***************************************************************************)
THEOREM DependenciesCorrect == Spec => []DependencyRespected
<1>1. LInv => DependencyRespected
  <2> SUFFICES ASSUME LInv, NEW j \in Job,
                      jobs[j].status \in {"running", "completed", "failed"}
               PROVE  ParentStatus(jobs, j) \in {"completed", "deleted"}
    BY DEF DependencyRespected
  <2>1. QED
    BY DEF LInv, LifeInv, ParentStatus
<1>2. QED
  BY <1>1, LInvInit, LInvStep, PTL DEF Spec

(***************************************************************************)
(* The result of a completed job is that of its last claim: an execution   *)
(* whose claim was recovered cannot report, since runningJobWhere compares *)
(* the claim token.                                                        *)
(***************************************************************************)
THEOREM ResultsCorrect == Spec => []ResultOfLastClaim
<1>1. LInv => ResultOfLastClaim
  BY DEF LInv, LifeInv, ResultOfLastClaim
<1>2. QED
  BY <1>1, LInvInit, LInvStep, PTL DEF Spec

(***************************************************************************)
(* A finished job stays as it is until it is deleted.                      *)
(***************************************************************************)
THEOREM FinishedStay == Spec => FinishedJobsStay
<1> DEFINE Stay(j) == \/ jobs'[j].status = "deleted"
                      \/ /\ jobs'[j].status = jobs[j].status
                         /\ jobs'[j].attempts = jobs[j].attempts
                         /\ jobs'[j].result = jobs[j].result
           AllStay == \A j \in Job : jobs[j].status \in TerminalStatus => Stay(j)
<1>1. LInv /\ [Next]_vars => [AllStay]_vars
  <2> SUFFICES ASSUME LInv, Next, NEW j \in Job, jobs[j].status \in TerminalStatus
               PROVE  Stay(j)
    OBVIOUS
  <2>1. JobStep(jobs, jobs', j)
    BY NextSteps
  <2>2. QED
    BY <2>1 DEF JobStep, QuietStep, PlainStep, StatusStep, SubmitStep, ClaimStep, CompleteStep, DeleteStep,
                TerminalStatus, Active, Present, Missing
<1>2. QED
  BY <1>1, LInvInit, LInvStep, PTL DEF Spec, FinishedJobsStay
-----------------------------------------------------------------------------
(***************************************************************************)
(* Refinement.                                                             *)
(***************************************************************************)
LEMMA PromisedAre ==
  ASSUME NEW j \in Job
  PROVE  /\ Promised[j].status = jobs[j].status /\ Promised[j].parent = jobs[j].dependsOn
         /\ Promised[j].claims = jobs[j].attempts /\ Promised[j].result = jobs[j].result
         /\ Promised'[j].status = jobs'[j].status
         /\ Promised'[j] = Lifecycle!At(jobs'[j].status, jobs'[j].dependsOn,
                                        jobs'[j].attempts, jobs'[j].result)
BY DEF Promised, Lifecycle!At

LEMMA LifeTyped ==
  ASSUME NEW js \in [Job -> JobRow]
  PROVE  [j \in Job |-> [ status |-> js[j].status, parent |-> js[j].dependsOn,
                          claims |-> js[j].attempts, result |-> js[j].result ]]
           \in [Job -> Lifecycle!Life]
<1> SUFFICES ASSUME NEW j \in Job
             PROVE  [ status |-> js[j].status, parent |-> js[j].dependsOn,
                      claims |-> js[j].attempts, result |-> js[j].result ] \in Lifecycle!Life
  OBVIOUS
<1>1. js[j] \in JobRow
  OBVIOUS
<1>2. /\ js[j].status \in Lifecycle!Gone \cup {"pending", "running", "completed", "failed", "cancelled"}
      /\ js[j].dependsOn \in Job \cup {None} /\ js[j].attempts \in Nat /\ js[j].result \in Nat
  BY <1>1 DEF JobRow, RowStatus, OperationStatus, Missing, Lifecycle!Gone
<1>3. QED
  BY <1>2 DEF Lifecycle!Life

LEMMA JobStepLives ==
  ASSUME jobs \in [Job -> JobRow], jobs' \in [Job -> JobRow], LifeInv(jobs),
         NEW j \in Job, JobStep(jobs, jobs', j)
  PROVE  Lifecycle!Lives(j)
<1> DEFINE p == jobs[j].dependsOn
           left == ParentLeft(jobs, jobs', j)
           c == jobs[j].attempts
           r == jobs[j].result
<1>1. Promised'[j] = Lifecycle!At(jobs'[j].status, jobs'[j].dependsOn, jobs'[j].attempts,
                            jobs'[j].result)
  BY PromisedAre
<1>2. ASSUME p # None
      PROVE  /\ p \in Job /\ Promised[p].status = jobs[p].status
             /\ Promised'[p].status = jobs'[p].status /\ Present(jobs[p])
  <2>1. p \in Job /\ Present(jobs[p])
    BY <1>2 DEF JobRow, LifeInv
  <2>2. QED
    BY <2>1, PromisedAre
<1>3. /\ Promised[j].status = jobs[j].status /\ Promised[j].parent = p
      /\ Promised[j].claims = c /\ Promised[j].result = r
  BY PromisedAre
<1>4. Lifecycle!ParentAfter(j) = left
  BY <1>2, <1>3 DEF Lifecycle!ParentAfter, ParentLeft
<1>5. CASE StatusStep(jobs, jobs', j)
  <2>1. Promised'[j] = Lifecycle!At(jobs'[j].status, left, c, r)
    BY <1>1, <1>5 DEF StatusStep
  <2> HIDE DEF left
  <2>2. CASE jobs'[j].status = jobs[j].status
    BY <1>3, <1>4, <2>1, <2>2 DEF Lifecycle!Lives, Lifecycle!Stays
  <2>3. CASE jobs[j].status = "running" /\ jobs'[j].status = "pending"
    BY <1>3, <1>4, <2>1, <2>3 DEF Lifecycle!Lives, Lifecycle!GivenBack, Lifecycle!Moves
  <2>4. CASE jobs[j].status = "running" /\ jobs'[j].status = "failed"
    BY <1>3, <1>4, <2>1, <2>4 DEF Lifecycle!Lives, Lifecycle!Failed, Lifecycle!Moves
  <2>5. CASE jobs[j].status \in {"pending", "running"} /\ jobs'[j].status = "cancelled"
    BY <1>3, <1>4, <2>1, <2>5 DEF Lifecycle!Lives, Lifecycle!Cancelled, Lifecycle!Moves
  <2>6. QED
    BY <1>5, <2>2, <2>3, <2>4, <2>5 DEF StatusStep
<1>6. CASE SubmitStep(jobs, jobs', j)
  <2> DEFINE q == jobs'[j].dependsOn
  <2>1. /\ jobs[j].status = "unused" /\ Promised'[j] = Lifecycle!At("pending", q, 0, 0)
    BY <1>1, <1>6 DEF SubmitStep
  <2>2. q \in Job \cup {None}
    BY DEF JobRow
  <2>3. q # None => Promised[q].status \notin Lifecycle!Gone
    BY <1>6, PromisedAre DEF SubmitStep, Present, Missing, Lifecycle!Gone
  <2> HIDE DEF q
  <2>4. QED
    BY <1>3, <2>1, <2>2, <2>3 DEF Lifecycle!Lives, Lifecycle!Submitted
<1>7. CASE ClaimStep(jobs, jobs', j)
  <2>1. Promised'[j] = Lifecycle!At("running", p, c + 1, r)
    BY <1>1, <1>7 DEF ClaimStep
  <2>2. Lifecycle!ParentDone(j)
    BY <1>2, <1>3, <1>7 DEF ClaimStep, Lifecycle!ParentDone
  <2>3. QED
    BY <1>3, <1>7, <2>1, <2>2 DEF ClaimStep, Active, Lifecycle!Lives, Lifecycle!Claimed
<1>8. CASE CompleteStep(jobs, jobs', j)
  <2>1. Promised'[j] = Lifecycle!At("completed", p, c, c)
    BY <1>1, <1>8 DEF CompleteStep
  <2>2. QED
    BY <1>3, <1>8, <2>1 DEF CompleteStep, Lifecycle!Lives, Lifecycle!Completed
<1>9. CASE DeleteStep(jobs, jobs', j)
  <2>1. Promised'[j] = Lifecycle!At("deleted", None, 0, 0)
    BY <1>1, <1>9 DEF DeleteStep
  <2>2. QED
    BY <1>3, <1>9, <2>1
       DEF DeleteStep, Present, Missing, Lifecycle!Gone, Lifecycle!Lives, Lifecycle!Deleted
<1>10. QED
  BY <1>5, <1>6, <1>7, <1>8, <1>9 DEF JobStep, QuietStep, PlainStep

(***************************************************************************)
(* A step that moves every row by one step of a job is one of the          *)
(* abstract queue; so far the proof does not ask which module took it.     *)
(***************************************************************************)
LEMMA InitPromised == Init => Lifecycle!Init
BY DEF Init, BlankJob, Lifecycle!Init, Lifecycle!Unborn, Lifecycle!At, Promised

LEMMA JobStepsPromised ==
  ASSUME LInv, LInv', \A j \in Job : JobStep(jobs, jobs', j)
  PROVE  Lifecycle!Next
<1>1. jobs \in [Job -> JobRow] /\ jobs' \in [Job -> JobRow] /\ LifeInv(jobs)
  BY DEF LInv, IInv, TypeOK
<1>2. \A j \in Job : Lifecycle!Lives(j)
  BY <1>1, JobStepLives
<1>3. Promised' \in [Job -> Lifecycle!Life]
  BY <1>1, LifeTyped DEF Promised
<1>4. QED
  BY <1>2, <1>3 DEF Lifecycle!Next

(***************************************************************************)
(* The queue implements the life of a job: whatever transactions of        *)
(* repositories/worker-jobs and repositories/worker-operation overlap, a   *)
(* job only takes the steps of JobLifecycle.                               *)
(***************************************************************************)
THEOREM PromiseKept == Spec => JobsKeepPromise
<1>1. LInv /\ LInv' /\ [Next]_vars => [Lifecycle!Next]_Promised
  <2>1. ASSUME LInv, LInv', Next PROVE Lifecycle!Next
    BY <2>1, NextSteps, JobStepsPromised
  <2>2. ASSUME UNCHANGED vars PROVE UNCHANGED Promised
    BY <2>2 DEF vars, Promised
  <2>3. QED
    BY <2>1, <2>2
<1>2. QED
  BY <1>1, InitPromised, LInvInit, LInvStep, PTL DEF Spec, JobsKeepPromise, Lifecycle!Spec
-----------------------------------------------------------------------------
(* What limits the jobs that run: a worker's concurrency, the dedupe key,  *)
(* and the cancellation of the operation.                                  *)

(***************************************************************************)
(* The order of a claim pass is a strict total order of the jobs, so that  *)
(* fewer than n of the jobs R have fewer than n others before them.        *)
(***************************************************************************)
LEMMA BeforeIsOrder ==
  ASSUME NEW js \in [Job -> JobRow], NEW j \in Job, NEW k \in Job
  PROVE  /\ ~Before(js, j, j)
         /\ j # k => Before(js, j, k) \/ Before(js, k, j)
         /\ \A i \in Job : Before(js, i, j) /\ Before(js, j, k) => Before(js, i, k)
<1>1. /\ Job \subseteq Nat /\ \A i \in Job : PriorityOf[i] \in Nat /\ js[i].dueAs \in Nat
  BY JobAssumption, RequestAssumption DEF JobRow
<1>2. ~Before(js, j, j)
  BY <1>1 DEF Before
<1>3. j # k => Before(js, j, k) \/ Before(js, k, j)
  BY <1>1 DEF Before
<1>4. ASSUME NEW i \in Job, Before(js, i, j), Before(js, j, k) PROVE Before(js, i, k)
  BY <1>1, <1>4 DEF Before
<1>5. QED
  BY <1>2, <1>3, <1>4

LEMMA MorePrecede ==
  ASSUME NEW js \in [Job -> JobRow], NEW R \in SUBSET Job, NEW j \in R, NEW k \in R,
         Before(js, j, k)
  PROVE  Cardinality(Preceding(js, R, j)) < Cardinality(Preceding(js, R, k))
<1> DEFINE P == Preceding(js, R, j)
           Q == Preceding(js, R, k)
<1>1. P \subseteq Q /\ j \in Q /\ j \notin P
  BY BeforeIsOrder DEF Preceding
<1>2. P \in SUBSET Job /\ Q \in SUBSET Job
  BY DEF Preceding
<1> HIDE DEF P, Q
<1>3. IsFiniteSet(Q) /\ Cardinality(P) \in Nat /\ Cardinality(Q) \in Nat
  BY <1>2, JobsFinite
<1>4. Cardinality(P) <= Cardinality(Q) /\ (Cardinality(P) = Cardinality(Q) => P = Q)
  BY <1>1, <1>3, FS_Subset
<1>5. Cardinality(P) < Cardinality(Q)
  BY <1>1, <1>3, <1>4
<1>6. QED
  BY <1>5 DEF P, Q

LEMMA FewAreEarly ==
  ASSUME NEW js \in [Job -> JobRow], NEW R \in SUBSET Job, NEW n \in Nat
  PROVE  Cardinality({j \in R : Cardinality(Preceding(js, R, j)) < n}) <= n
<1> DEFINE early == {j \in R : Cardinality(Preceding(js, R, j)) < n}
           rank == [j \in early |-> Cardinality(Preceding(js, R, j))]
           ranks == 0..(n - 1)
<1>1. \A j \in R : Cardinality(Preceding(js, R, j)) \in Nat
  BY JobsFinite DEF Preceding
<1>2. rank \in [early -> ranks]
  BY <1>1
<1>3. ASSUME NEW j \in early, NEW k \in early, j # k PROVE rank[j] # rank[k]
  <2>1. /\ j \in R /\ k \in R /\ rank[j] = Cardinality(Preceding(js, R, j))
        /\ rank[k] = Cardinality(Preceding(js, R, k))
    OBVIOUS
  <2>2. Before(js, j, k) \/ Before(js, k, j)
    BY <1>3, <2>1, BeforeIsOrder
  <2>3. rank[j] < rank[k] \/ rank[k] < rank[j]
    BY <2>1, <2>2, MorePrecede
  <2>4. rank[j] \in Nat /\ rank[k] \in Nat
    BY <1>1, <2>1
  <2> HIDE DEF rank
  <2>5. QED
    BY <2>3, <2>4
<1> HIDE DEF rank, early
<1>4. rank \in Injection(early, ranks)
  BY <1>2, <1>3 DEF Injection, IsInjective
<1>5. IsFiniteSet(ranks) /\ Cardinality(ranks) = n
  BY FS_Interval
<1>6. Cardinality(early) <= Cardinality(ranks)
  BY <1>4, <1>5, FS_Injection
<1>7. QED
  BY <1>5, <1>6 DEF early
-----------------------------------------------------------------------------
RunningOf(js, w) == {j \in InState(js, "running") : WorkerOf[j] = w}

LEMMA FewerRunning ==
  ASSUME NEW js, NEW new, NEW w, RunningOf(new, w) \subseteq RunningOf(js, w)
  PROVE  Cardinality(RunningOf(new, w)) <= Cardinality(RunningOf(js, w))
<1>1. RunningOf(js, w) \in SUBSET Job
  BY DEF RunningOf, InState
<1>2. QED
  BY <1>1, JobsFinite, FS_Subset

LEMMA QuietRunsNoMore ==
  ASSUME NEW js, NEW new, NEW w, \A j \in Job : QuietStep(js, new, j)
  PROVE  RunningOf(new, w) \subseteq RunningOf(js, w)
BY DEF RunningOf, InState, QuietStep, PlainStep, StatusStep, SubmitStep, CompleteStep, DeleteStep

(***************************************************************************)
(* claimRunnableItems hands out no more than the slots it found free, to   *)
(* jobs of its own worker.                                                 *)
(***************************************************************************)
LEMMA ClaimsFit ==
  ASSUME NEW db, Good(db), LifeInv(db.jobs), NEW w \in Worker, NEW max,
         NEW v \in Worker, Cardinality(RunningOf(db.jobs, v)) <= Concurrency[v]
  PROVE  Cardinality(RunningOf(ClaimCandidates(db, w, max).jobs, v)) <= Concurrency[v]
<1> DEFINE js      == db.jobs
           free    == FreeSlots(js, w)
           found   == Candidates(js, w, max)
           ready   == {j \in found : Claimable(db, j)}
           claimed == Granted(js, ready, free, max)
           dropped == {j \in Reached(js, found, ready, free, max) : MustCancel(db, j)}
           after   == CancelPendingJobs(db, dropped)
           new     == [j \in Job |-> IF j \in claimed THEN ClaimedRow(js[j]) ELSE after.jobs[j]]
           m       == Cardinality(RunningOf(js, v))
<1>1. ClaimCandidates(db, w, max).jobs = new
  BY DEF ClaimCandidates
<1>2. js \in [Job -> JobRow]
  BY DbFields DEF Good
<1>3. /\ ready \in SUBSET Job /\ dropped \in SUBSET InState(js, "pending")
      /\ \A j \in ready : WorkerOf[j] = w
      /\ claimed \subseteq {j \in ready : Cardinality(Preceding(js, ready, j)) < free}
  BY DEF Candidates, DuePending, InState, Granted, Reached
<1>4. m \in Nat /\ Concurrency[v] \in Nat /\ RunningOf(js, v) \in SUBSET Job
  BY JobsFinite, LimitAssumption DEF RunningOf, InState
<1>5. v = w => free = Concurrency[v] - m /\ free \in Nat
  BY <1>4 DEF FreeSlots, Minus, RunningOf
<1> HIDE DEF ready, free
<1>6. claimed \in SUBSET Job /\ \A j \in claimed : WorkerOf[j] = w
  BY <1>3
<1> HIDE DEF claimed, dropped
<1>7. AllSettled(js, after.jobs)
  BY <1>3, CancelPendingSettles
<1> HIDE DEF after
<1>8. RunningOf(new, v) \subseteq RunningOf(js, v) \cup {j \in claimed : v = w}
  <2> SUFFICES ASSUME NEW j \in RunningOf(new, v), j \notin RunningOf(js, v)
               PROVE  j \in claimed /\ v = w
    OBVIOUS
  <2>1. j \in Job /\ new[j].status = "running" /\ WorkerOf[j] = v /\ js[j].status # "running"
    BY DEF RunningOf, InState
  <2>2. j \in claimed
    BY <1>7, <2>1 DEF AllSettled, Settled
  <2>3. QED
    BY <1>6, <2>1, <2>2
<1> HIDE DEF new
<1>9. CASE v # w
  BY <1>1, <1>4, <1>8, <1>9, FewerRunning, JobsFinite DEF m
<1>10. CASE v = w
  <2> DEFINE early == {j \in ready : Cardinality(Preceding(js, ready, j)) < free}
             U == RunningOf(js, v) \cup early
  <2>1. Cardinality(early) <= free
    BY <1>2, <1>3, <1>5, <1>10, FewAreEarly
  <2>2. early \in SUBSET Job /\ RunningOf(new, v) \subseteq U
    BY <1>3, <1>8
  <2> HIDE DEF early
  <2>3. IsFiniteSet(U) /\ Cardinality(U) <= m + Cardinality(early)
    <3>1. /\ IsFiniteSet(early) /\ Cardinality(early) \in Nat
          /\ IsFiniteSet(RunningOf(js, v))
          /\ Cardinality(RunningOf(js, v) \cap early) \in Nat
      BY <1>4, <2>2, JobsFinite
    <3>2. /\ IsFiniteSet(U)
          /\ Cardinality(U) = m + Cardinality(early) - Cardinality(RunningOf(js, v) \cap early)
      BY <3>1, FS_Union
    <3> HIDE DEF U, m
    <3>3. QED
      BY <1>4, <3>1, <3>2
  <2>4. Cardinality(RunningOf(new, v)) <= Cardinality(U)
    BY <2>2, <2>3, FS_Subset
  <2>5. /\ Cardinality(U) \in Nat /\ Cardinality(early) \in Nat
        /\ Cardinality(RunningOf(new, v)) \in Nat
    BY <1>4, <2>2, JobsFinite
  <2> HIDE DEF U, m
  <2>6. QED
    BY <1>1, <1>4, <1>5, <1>10, <2>1, <2>3, <2>4, <2>5
<1>11. QED
  BY <1>9, <1>10

LEMMA ConcurrencyStep == LInv /\ ConcurrencyRespected /\ [Next]_vars => ConcurrencyRespected'
<1> SUFFICES ASSUME LInv, ConcurrencyRespected, [Next]_vars, NEW v \in Worker
             PROVE  Cardinality(RunningOf(jobs', v)) <= Concurrency[v]
  BY DEF ConcurrencyRespected, RunningFor, RunningOf, InState
<1>1. /\ Cardinality(RunningOf(jobs, v)) <= Concurrency[v]
      /\ Cardinality(RunningOf(jobs, v)) \in Nat /\ Concurrency[v] \in Nat
      /\ RunningOf(jobs, v) \in SUBSET Job
  BY JobsFinite, LimitAssumption DEF ConcurrencyRespected, RunningFor, RunningOf, InState
<1>2. ASSUME NEW js, RunningOf(js, v) \subseteq RunningOf(jobs, v)
      PROVE  Cardinality(RunningOf(js, v)) <= Concurrency[v]
  <2>1. Cardinality(RunningOf(js, v)) \in Nat
    BY <1>1, <1>2, JobsFinite
  <2>2. QED
    BY <1>1, <1>2, <2>1, FewerRunning
<1>3. ASSUME \/ Enqueue \/ Outcome \/ Cancel \/ ChangeOperation \/ Sweep \/ Time
             \/ \E w \in Worker : PollDue(w)
      PROVE  Cardinality(RunningOf(jobs', v)) <= Concurrency[v]
  <2>1. \A j \in Job : QuietStep(jobs, jobs', j)
    BY <1>3, QuietSteps
  <2>2. RunningOf(jobs', v) \subseteq RunningOf(jobs, v)
    BY <2>1, QuietRunsNoMore
  <2>3. QED
    BY <1>1, <2>2, FewerRunning, JobsFinite
<1>4. ASSUME NEW w \in Worker, NEW max, NEW spared, ClaimNextBatch(w, max, spared)
      PROVE  Cardinality(RunningOf(jobs', v)) <= Concurrency[v]
  <2> DEFINE reads == Reads(jobs, ExpiredLeases(w) \ spared)
             mid == RecoverRows(Db, reads)
  <2>1. reads \in SUBSET RowRead /\ ReadOnce(reads)
    BY ReadsType DEF LInv, ExpiredLeases, InState
  <2>2. jobs' = ClaimCandidates(mid, w, max).jobs
    BY <1>4 DEF ClaimNextBatch, Commit
  <2> HIDE DEF reads
  <2>3. Good(mid) /\ AllSettled(jobs, mid.jobs)
    BY <2>1, IInvIsGood, GoodAfterRecover, RecoverSettles DEF LInv
  <2> HIDE DEF mid
  <2>4. LifeInv(mid.jobs)
    BY <2>3, SettledIsStep, JobStepKeepsLifeInv, DbFields DEF JobStep, QuietStep, LInv, IInv, TypeOK, Good
  <2>5. RunningOf(mid.jobs, v) \subseteq RunningOf(jobs, v)
    BY <2>3 DEF AllSettled, Settled, RunningOf, InState
  <2>6. QED
    BY <1>2, <2>2, <2>3, <2>4, <2>5, ClaimsFit
<1>5. CASE UNCHANGED vars
  BY <1>1, <1>5 DEF vars
<1>6. QED
  BY <1>3, <1>4, <1>5 DEF Next, Claim, ClaimPass

LEMMA ConcurrencyInit == Init => ConcurrencyRespected
<1> SUFFICES ASSUME Init, NEW w \in Worker
             PROVE  RunningFor(w) <= Concurrency[w]
  BY DEF ConcurrencyRespected
<1>1. {j \in InState(jobs, "running") : WorkerOf[j] = w} = {}
  BY DEF Init, BlankJob, InState
<1>2. QED
  BY <1>1, FS_EmptySet, LimitAssumption DEF RunningFor

(***************************************************************************)
(* A worker never runs more jobs than its concurrency: the claims of       *)
(* claimRunnableItems count the running rows in the transaction that       *)
(* claims, after it has recovered lost ones.                               *)
(***************************************************************************)
THEOREM ConcurrencyCorrect == Spec => []ConcurrencyRespected
BY LInvInit, LInvStep, ConcurrencyInit, ConcurrencyStep, PTL DEF Spec
-----------------------------------------------------------------------------
(***************************************************************************)
(* A job that becomes active was inserted; every other active job has been *)
(* active before.                                                          *)
(***************************************************************************)
LEMMA InsertKeepsUnique ==
  ASSUME OneActivePerDedupeKey, NEW batch, NEW counted, EnqueueMany(batch, counted),
         NEW j \in Job, NEW k \in Job, j # k, SameDedupe(j, k)
  PROVE  ~(jobs'[j].status \in Active /\ jobs'[k].status \in Active)
<1> SUFFICES ASSUME jobs'[j].status \in Active, jobs'[k].status \in Active
             PROVE  FALSE
  OBVIOUS
<1> DEFINE new == Inserted(batch)
<1>1. SameDedupe(k, j)
  BY DEF SameDedupe
<1>2. ASSUME NEW i \in Job PROVE (\E in \in new : in.id = i) \/ jobs'[i] = jobs[i]
  BY DEF EnqueueMany
<1>3. ASSUME NEW in \in new, NEW i \in Job, SameDedupe(in.id, i)
      PROVE  jobs[i].status \notin Active /\ ~(i < in.id /\ \E x \in batch : x.id = i)
  BY <1>3 DEF Inserted
<1>4. new \subseteq batch
  BY DEF Inserted
<1> HIDE DEF new
<1>5. j < k \/ k < j
  BY JobAssumption
<1>6. QED
  BY <1>1, <1>2, <1>3, <1>4, <1>5 DEF OneActivePerDedupeKey

LEMMA DedupeStep == LInv /\ OneActivePerDedupeKey /\ [Next]_vars => OneActivePerDedupeKey'
<1> SUFFICES ASSUME LInv, OneActivePerDedupeKey, [Next]_vars,
                    NEW j \in Job, NEW k \in Job, j # k, SameDedupe(j, k),
                    jobs'[j].status \in Active, jobs'[k].status \in Active
             PROVE  FALSE
  BY DEF OneActivePerDedupeKey
<1>1. CASE Enqueue
  BY <1>1, InsertKeepsUnique DEF Enqueue
<1>2. ASSUME \A i \in Job : jobs'[i].status \in Active => jobs[i].status \in Active
      PROVE  FALSE
  BY <1>2 DEF OneActivePerDedupeKey
<1>3. CASE UNCHANGED vars
  BY <1>2, <1>3 DEF vars
<1>4. ASSUME Next, ~Enqueue, NEW i \in Job, jobs'[i].status \in Active
      PROVE  jobs[i].status \in Active
  <2>1. PlainStep(jobs, jobs', i) \/ ClaimStep(jobs, jobs', i)
    BY <1>4, PlainSteps, ClaimPassSteps DEF Next, Claim, ClaimPass, LInv
  <2>2. QED
    BY <1>4, <2>1 DEF PlainStep, StatusStep, ClaimStep, CompleteStep, DeleteStep, Active
<1>5. QED
  BY <1>1, <1>2, <1>3, <1>4

(***************************************************************************)
(* The partial unique index holds for every way a row becomes active: an   *)
(* insert is skipped for an active twin, and no retry, recovery or resume  *)
(* activates a row that was not active.                                    *)
(***************************************************************************)
THEOREM DedupeCorrect == Spec => []OneActivePerDedupeKey
<1>1. Init => OneActivePerDedupeKey
  BY DEF Init, BlankJob, OneActivePerDedupeKey, Active
<1>2. QED
  BY <1>1, LInvInit, LInvStep, DedupeStep, PTL DEF Spec
-----------------------------------------------------------------------------
Stopped(op) == op.cancelRequested \/ op.status = "cancelled"

LEMMA WritersKeepStopped ==
  ASSUME NEW op \in OperationRow, Stopped(op), NEW n \in Nat, NEW outcome \in TerminalStatus
  PROVE  /\ Stopped(MarkJobRetried(op, n)) /\ Stopped(MarkJobFinished(op, outcome, n))
         /\ Stopped(MarkPendingJobsCancelled(op, n))
BY DEF Stopped, OperationRow, MarkJobRetried, MarkJobFinished, MarkPendingJobsCancelled,
       StatusAfterFinish

\* Jobs keep their operation, and an operation that is stopped stays so.
KeepsStopped(db, after) ==
    /\ \A j \in Job : after.jobs[j].operationId = db.jobs[j].operationId
    /\ \A o \in Operation : Stopped(db.ops[o]) => Stopped(after.ops[o])

LEMMA MovedKeepsOperation ==
  ASSUME NEW js \in [Job -> JobRow], NEW S, NEW status \in RowStatus
  PROVE  \A j \in Job : Moved(js, S, status)[j].operationId = js[j].operationId
BY ReleaseFields DEF Moved

LEMMA RequeueKeepsStopped ==
  ASSUME NEW db, Good(db), NEW S \in SUBSET Job
  PROVE  KeepsStopped(db, RequeueJobs(db, S))
<1> DEFINE after == RequeueJobs(db, S)
<1>1. /\ db.jobs \in [Job -> JobRow] /\ "pending" \in RowStatus
      /\ \A o \in Operation : db.ops[o] \in OperationRow
  BY DbFields, StatusValues DEF Good
<1>2. /\ after.jobs = Moved(db.jobs, S, "pending")
      /\ \A o \in Operation : after.ops[o] = MarkJobRetried(db.ops[o], CountOf(db.jobs, S, o))
  BY DEF RequeueJobs, CountRetried
<1> HIDE DEF after
<1>3. \A j \in Job : after.jobs[j].operationId = db.jobs[j].operationId
  BY <1>1, <1>2, MovedKeepsOperation
<1>4. ASSUME NEW o \in Operation, Stopped(db.ops[o]) PROVE Stopped(after.ops[o])
  BY <1>1, <1>2, <1>4, CountType, WritersKeepStopped DEF TerminalStatus
<1>5. QED
  BY <1>3, <1>4 DEF KeepsStopped, after

LEMMA FailKeepsStopped ==
  ASSUME NEW db, Good(db), NEW S \in SUBSET InState(db.jobs, "running")
  PROVE  KeepsStopped(db, FinishJobs(db, S, "failed"))
<1> DEFINE done == [ jobs |-> Moved(db.jobs, S, "failed"),
                     ops  |-> CountFinished(db.jobs, db.ops, S, "failed") ]
           gone == PendingDependents(done.jobs, S)
           last == [ jobs |-> Moved(done.jobs, gone, "cancelled"),
                     ops  |-> CountPendingCancelled(done.jobs, done.ops, gone) ]
<1>1. FinishJobs(db, S, "failed") = last
  BY DEF FinishJobs
<1>2. /\ Good(done) /\ "failed" \in RowStatus /\ "cancelled" \in RowStatus
      /\ "failed" \in TerminalStatus /\ S \in SUBSET Job
  BY GoodAfterFinished, StatusValues DEF TerminalStatus, InState
<1>3. /\ db.jobs \in [Job -> JobRow] /\ \A o \in Operation : db.ops[o] \in OperationRow
      /\ done.jobs \in [Job -> JobRow] /\ \A o \in Operation : done.ops[o] \in OperationRow
  BY <1>2, DbFields DEF Good
<1>4. \A j \in Job : done.jobs[j].operationId = db.jobs[j].operationId
  BY <1>2, <1>3, MovedKeepsOperation
<1>5. \A o \in Operation : done.ops[o] = MarkJobFinished(db.ops[o], "failed", CountOf(db.jobs, S, o))
  BY DEF CountFinished
<1>6. ASSUME NEW o \in Operation, Stopped(db.ops[o]) PROVE Stopped(done.ops[o])
  BY <1>2, <1>3, <1>5, <1>6, CountType, WritersKeepStopped
<1> HIDE DEF done
<1>7. gone \in SUBSET Job
  BY DependentsPending DEF InState
<1> HIDE DEF gone
<1>8. \A j \in Job : last.jobs[j].operationId = done.jobs[j].operationId
  BY <1>2, <1>3, MovedKeepsOperation
<1>9. \A o \in Operation : last.ops[o] = MarkPendingJobsCancelled(done.ops[o], CountOf(done.jobs, gone, o))
  BY DEF CountPendingCancelled
<1>10. ASSUME NEW o \in Operation, Stopped(done.ops[o]) PROVE Stopped(last.ops[o])
  BY <1>2, <1>3, <1>7, <1>9, <1>10, CountType, WritersKeepStopped
<1> HIDE DEF last
<1>11. QED
  BY <1>1, <1>4, <1>6, <1>8, <1>10 DEF KeepsStopped

LEMMA RecoverKeepsStopped ==
  ASSUME NEW db, Good(db), NEW reads \in SUBSET RowRead, ReadOnce(reads)
  PROVE  KeepsStopped(db, RecoverRows(db, reads))
<1> DEFINE running   == {r \in reads : db.jobs[r.id].status = "running"}
           retryable == {r.id : r \in {x \in running : x.attempts < MaxAttempts[x.id]}}
           exhausted == {r.id : r \in {x \in running : x.attempts >= MaxAttempts[x.id]}}
           requeued  == RequeueJobs(db, retryable)
<1>1. /\ Good(requeued) /\ retryable \in SUBSET InState(db.jobs, "running")
      /\ exhausted \in SUBSET InState(requeued.jobs, "running")
  BY RecoverParts
<1>2. RecoverRows(db, reads) = FinishJobs(requeued, exhausted, "failed")
  BY DEF RecoverRows
<1> HIDE DEF retryable, exhausted
<1>3. KeepsStopped(db, requeued)
  BY <1>1, RequeueKeepsStopped DEF InState
<1> HIDE DEF requeued
<1>4. KeepsStopped(requeued, FinishJobs(requeued, exhausted, "failed"))
  BY <1>1, FailKeepsStopped
<1>5. QED
  BY <1>2, <1>3, <1>4 DEF KeepsStopped

(***************************************************************************)
(* A claim pass starts no job of an operation that is cancelled or asked   *)
(* to be, also when it has recovered that job itself; nothing else starts  *)
(* jobs.  The claim and the cancellation meet in cancelledOperations of    *)
(* claimRunnableItems.                                                     *)
(***************************************************************************)
LEMMA StartedIsNotStopped ==
  ASSUME LInv, Next, NEW j \in Job, NEW o \in Operation,
         jobs[j].attempts < jobs'[j].attempts, jobs[j].operationId = o
  PROVE  ~Stopped(ops[o])
<1>1. jobs \in [Job -> JobRow] /\ \A i \in Job : jobs[i].attempts \in Nat
  BY DEF LInv, IInv, TypeOK, JobRow
<1>2. \E w \in Worker : ClaimPass(w)
  <2> SUFFICES ASSUME \A w \in Worker : ~ClaimPass(w) PROVE FALSE
    OBVIOUS
  <2>1. QuietStep(jobs, jobs', j)
    BY QuietSteps DEF Next, Claim
  <2>2. CASE SubmitStep(jobs, jobs', j)
    BY <1>1, <2>2 DEF SubmitStep
  <2>3. CASE DeleteStep(jobs, jobs', j)
    BY <1>1, <2>3 DEF DeleteStep
  <2>4. CASE StatusStep(jobs, jobs', j) \/ CompleteStep(jobs, jobs', j)
    BY <1>1, <2>4 DEF StatusStep, CompleteStep
  <2>5. QED
    BY <2>1, <2>2, <2>3, <2>4 DEF QuietStep, PlainStep
<1>3. PICK w \in Worker : ClaimPass(w)
  BY <1>2
<1>4. PICK max \in 1..Concurrency[w] : \E spared \in SUBSET ExpiredLeases(w) :
         ClaimNextBatch(w, max, spared)
  BY <1>3 DEF ClaimPass
<1>5. PICK spared \in SUBSET ExpiredLeases(w) : ClaimNextBatch(w, max, spared)
  BY <1>4
<1> DEFINE reads == Reads(jobs, ExpiredLeases(w) \ spared)
           mid == RecoverRows(Db, reads)
           ready == {i \in Candidates(mid.jobs, w, max) : Claimable(mid, i)}
           claimed == Granted(mid.jobs, ready, FreeSlots(mid.jobs, w), max)
           found == Candidates(mid.jobs, w, max)
           dropped == {i \in Reached(mid.jobs, found, ready, FreeSlots(mid.jobs, w), max) :
                         MustCancel(mid, i)}
           after == CancelPendingJobs(mid, dropped)
<1>6. reads \in SUBSET RowRead /\ ReadOnce(reads)
  BY ReadsType DEF LInv, ExpiredLeases, InState
<1>7. jobs' = [i \in Job |-> IF i \in claimed THEN ClaimedRow(mid.jobs[i]) ELSE after.jobs[i]]
  BY <1>5 DEF ClaimNextBatch, Commit, ClaimCandidates
<1>8. /\ dropped \in SUBSET InState(mid.jobs, "pending")
      /\ \A i \in claimed : Claimable(mid, i)
  BY DEF Candidates, DuePending, Granted, Reached
<1> HIDE DEF reads
<1>9. /\ Good(mid) /\ AllSettled(jobs, mid.jobs) /\ KeepsStopped(Db, mid)
      /\ Db.jobs = jobs /\ Db.ops = ops
  BY <1>6, IInvIsGood, GoodAfterRecover, RecoverSettles, RecoverKeepsStopped DEF LInv
<1> HIDE DEF mid, claimed, dropped
<1>10. AllSettled(mid.jobs, after.jobs)
  BY <1>8, <1>9, CancelPendingSettles
<1> HIDE DEF after
<1>11. j \in claimed
  BY <1>1, <1>7, <1>9, <1>10 DEF AllSettled, Settled
<1>12. ~OperationCancelled(mid, j) /\ mid.jobs[j].operationId = o /\ o # None
  BY <1>8, <1>9, <1>11, NoneAssumption DEF Claimable, MustCancel, KeepsStopped
<1>13. ~Stopped(mid.ops[o])
  BY <1>12 DEF OperationCancelled, Stopped
<1>14. QED
  BY <1>9, <1>13 DEF KeepsStopped

(***************************************************************************)
(* A job of a cancelled operation never starts.                            *)
(***************************************************************************)
THEOREM CancelledStaysUnstarted == Spec => CancelledNeverStarts
<1> DEFINE A == \A j \in Job, o \in Operation :
                  jobs[j].attempts < jobs'[j].attempts /\ jobs[j].operationId = o =>
                      ~ops[o].cancelRequested /\ ops[o].status # "cancelled"
<1>1. LInv /\ [Next]_vars => [A]_vars
  BY StartedIsNotStopped DEF Stopped
<1>2. QED
  BY <1>1, LInvInit, LInvStep, PTL DEF Spec, CancelledNeverStarts
-----------------------------------------------------------------------------
(* What a failure or a cancellation leaves behind.                         *)

\* Every job that is failed or cancelled takes its pending dependents along,
\* and a job that was not active stays as it is.
Cascaded(js, new) ==
    \A j \in Job :
        LET p == js[j].dependsOn
        IN  /\ new[j].dependsOn = p
            /\ js[j].status \notin Active => new[j].status = js[j].status
            /\ new[j].status = "pending" /\ p # None /\ js[p].status \in Active
                 => new[p].status \notin {"failed", "cancelled"}

NoneRequeued(js, new) ==
    \A j \in Job : new[j].status = "pending" => js[j].status = "pending"

LEMMA CascadedTwice ==
  ASSUME NEW js \in [Job -> JobRow], NEW mid, NEW new, Cascaded(js, mid),
         Cascaded(mid, new), NoneRequeued(mid, new)
  PROVE  Cascaded(js, new)
<1> SUFFICES ASSUME NEW j \in Job
             PROVE  LET p == js[j].dependsOn
                    IN  /\ new[j].dependsOn = p
                        /\ js[j].status \notin Active => new[j].status = js[j].status
                        /\ new[j].status = "pending" /\ p # None /\ js[p].status \in Active
                             => new[p].status \notin {"failed", "cancelled"}
  BY DEF Cascaded
<1> DEFINE p == js[j].dependsOn
<1>1. p \in Job \cup {None}
  BY DEF JobRow
<1>2. mid[j].dependsOn = p /\ new[j].dependsOn = p
  BY DEF Cascaded
<1>3. js[j].status \notin Active => new[j].status = js[j].status
  BY DEF Cascaded
<1>4. ASSUME new[j].status = "pending", p # None, js[p].status \in Active
      PROVE  new[p].status \notin {"failed", "cancelled"}
  <2>1. mid[j].status = "pending" /\ p \in Job
    BY <1>1, <1>4 DEF NoneRequeued
  <2>2. mid[p].status \notin {"failed", "cancelled"}
    BY <1>4, <2>1 DEF Cascaded
  <2>3. CASE mid[p].status \in Active
    BY <1>2, <1>4, <2>3 DEF Cascaded
  <2>4. CASE mid[p].status \notin Active
    BY <2>1, <2>2, <2>4 DEF Cascaded
  <2>5. QED
    BY <2>3, <2>4
<1>5. QED
  BY <1>2, <1>3, <1>4

\* The search finds the dependents of what it finds.
LEMMA DependentsClosed ==
  ASSUME NEW js, NEW S, NEW j \in InState(js, "pending"), js[j].dependsOn # None,
         js[j].dependsOn \in S \cup PendingDependents(js, S)
  PROVE  j \in PendingDependents(js, S)
BY DEF PendingDependents

LEMMA ClosedCascades ==
  ASSUME NEW js \in [Job -> JobRow], NEW new, NEW F \in SUBSET Job,
         \A j \in Job : new[j].dependsOn = js[j].dependsOn,
         \A j \in F : js[j].status \in Active /\ new[j].status \in {"failed", "cancelled"},
         \A j \in Job \ F : new[j].status = js[j].status,
         \A j \in InState(js, "pending") :
            js[j].dependsOn # None /\ js[j].dependsOn \in F => j \in F
  PROVE  Cascaded(js, new) /\ NoneRequeued(js, new)
<1>1. NoneRequeued(js, new)
  BY DEF NoneRequeued
<1>2. ASSUME NEW j \in Job, new[j].status = "pending", js[j].dependsOn # None,
             js[js[j].dependsOn].status \in Active
      PROVE  new[js[j].dependsOn].status \notin {"failed", "cancelled"}
  <2>1. j \notin F /\ j \in InState(js, "pending")
    BY <1>2 DEF InState
  <2>2. js[j].dependsOn \in Job \ F
    BY <1>2, <2>1 DEF JobRow
  <2>3. QED
    BY <1>2, <2>2 DEF Active
<1>3. \A j \in Job : js[j].status \notin Active => new[j].status = js[j].status
  OBVIOUS
<1>4. QED
  BY <1>1, <1>2, <1>3 DEF Cascaded

LEMMA CancelPendingCascades ==
  ASSUME NEW db, Good(db), NEW S \in SUBSET InState(db.jobs, "pending")
  PROVE  LET new == CancelPendingJobs(db, S).jobs
         IN  Cascaded(db.jobs, new) /\ NoneRequeued(db.jobs, new)
<1> DEFINE js == db.jobs
           gone == S \cup PendingDependents(js, S)
           new == CancelPendingJobs(db, S).jobs
<1>1. js \in [Job -> JobRow] /\ "cancelled" \in RowStatus
  BY DbFields, StatusValues DEF Good
<1>2. new = Moved(js, gone, "cancelled")
  BY DEF CancelPendingJobs
<1>3. gone \in SUBSET InState(js, "pending")
  BY DependentsPending
<1>4. \A j \in InState(js, "pending") :
         js[j].dependsOn # None /\ js[j].dependsOn \in gone => j \in gone
  BY DependentsClosed
<1> HIDE DEF new, gone
<1>5. /\ \A j \in Job : new[j].dependsOn = js[j].dependsOn
      /\ \A j \in gone : js[j].status \in Active /\ new[j].status \in {"failed", "cancelled"}
      /\ \A j \in Job \ gone : new[j].status = js[j].status
  BY <1>1, <1>2, <1>3, ReleaseFields DEF Moved, InState, Active
<1>6. gone \in SUBSET Job
  BY <1>3 DEF InState
<1>7. Cascaded(js, new) /\ NoneRequeued(js, new)
  BY <1>1, <1>4, <1>5, <1>6, ClosedCascades
<1>8. QED
  BY <1>7 DEF new

LEMMA FailCascades ==
  ASSUME NEW db, Good(db), NEW S \in SUBSET InState(db.jobs, "running")
  PROVE  LET new == FinishJobs(db, S, "failed").jobs
         IN  Cascaded(db.jobs, new) /\ NoneRequeued(db.jobs, new)
<1> DEFINE js == db.jobs
           done == Moved(js, S, "failed")
           gone == PendingDependents(done, S)
           new == FinishJobs(db, S, "failed").jobs
<1>1. js \in [Job -> JobRow] /\ "cancelled" \in RowStatus /\ "failed" \in RowStatus
  BY DbFields, StatusValues DEF Good
<1>2. new = Moved(done, gone, "cancelled")
  BY DEF FinishJobs
<1>3. gone \in SUBSET InState(done, "pending")
  BY DependentsPending
<1>4. \A j \in InState(done, "pending") :
         done[j].dependsOn # None /\ done[j].dependsOn \in S \cup gone => j \in gone
  BY DependentsClosed
<1>5. done \in [Job -> JobRow]
  BY <1>1, MovedType
<1>6. /\ \A j \in Job : done[j].dependsOn = js[j].dependsOn
      /\ \A j \in S : js[j].status = "running" /\ done[j].status = "failed"
      /\ \A j \in Job \ S : done[j].status = js[j].status
      /\ S \in SUBSET Job
  BY <1>1, ReleaseFields DEF Moved, InState
<1> HIDE DEF new, gone, done
<1>7. /\ \A j \in Job : new[j].dependsOn = done[j].dependsOn
      /\ \A j \in gone : done[j].status = "pending" /\ new[j].status = "cancelled"
      /\ \A j \in Job \ gone : new[j].status = done[j].status
      /\ gone \in SUBSET Job
  BY <1>1, <1>2, <1>3, <1>5, ReleaseFields DEF Moved, InState
<1> DEFINE F == S \cup gone
<1>8. /\ F \in SUBSET Job
      /\ \A j \in Job : new[j].dependsOn = js[j].dependsOn
      /\ \A j \in F : js[j].status \in Active /\ new[j].status \in {"failed", "cancelled"}
      /\ \A j \in Job \ F : new[j].status = js[j].status
  <2>1. \A j \in S : j \notin gone
    BY <1>6, <1>7
  <2>2. QED
    BY <1>6, <1>7, <2>1 DEF Active
<1>9. \A j \in InState(js, "pending") :
         js[j].dependsOn # None /\ js[j].dependsOn \in F => j \in F
  BY <1>4, <1>6 DEF InState
<1> HIDE DEF F
<1>10. Cascaded(js, new) /\ NoneRequeued(js, new)
  BY <1>1, <1>8, <1>9, ClosedCascades
<1>11. QED
  BY <1>10 DEF new

LEMMA RecoverCascades ==
  ASSUME NEW db, Good(db), NEW reads \in SUBSET RowRead, ReadOnce(reads)
  PROVE  Cascaded(db.jobs, RecoverRows(db, reads).jobs)
<1> DEFINE running   == {r \in reads : db.jobs[r.id].status = "running"}
           retryable == {r.id : r \in {x \in running : x.attempts < MaxAttempts[x.id]}}
           exhausted == {r.id : r \in {x \in running : x.attempts >= MaxAttempts[x.id]}}
           requeued  == RequeueJobs(db, retryable)
<1>1. /\ Good(requeued) /\ retryable \in SUBSET InState(db.jobs, "running")
      /\ exhausted \in SUBSET InState(requeued.jobs, "running")
  BY RecoverParts
<1>2. RecoverRows(db, reads) = FinishJobs(requeued, exhausted, "failed")
  BY DEF RecoverRows
<1> HIDE DEF retryable, exhausted
<1>3. db.jobs \in [Job -> JobRow] /\ "pending" \in RowStatus
  BY DbFields, StatusValues DEF Good
<1>4. Cascaded(db.jobs, requeued.jobs)
  <2> DEFINE new == requeued.jobs
  <2>1. new = Moved(db.jobs, retryable, "pending")
    BY DEF RequeueJobs
  <2> HIDE DEF new
  <2>2. /\ \A j \in Job : new[j].dependsOn = db.jobs[j].dependsOn
        /\ \A j \in retryable : db.jobs[j].status = "running" /\ new[j].status = "pending"
        /\ \A j \in Job \ retryable : new[j].status = db.jobs[j].status
    BY <1>1, <1>3, <2>1, ReleaseFields DEF Moved, InState
  <2>3. \A j \in Job : db.jobs[j].dependsOn \in Job \cup {None}
    BY <1>3 DEF JobRow
  <2>4. Cascaded(db.jobs, new)
    BY <2>2, <2>3 DEF Cascaded, Active
  <2>5. QED
    BY <2>4 DEF new
<1> HIDE DEF requeued
<1>5. LET new == FinishJobs(requeued, exhausted, "failed").jobs
      IN  Cascaded(requeued.jobs, new) /\ NoneRequeued(requeued.jobs, new)
  BY <1>1, FailCascades
<1>6. QED
  BY <1>2, <1>3, <1>4, <1>5, CascadedTwice

LEMMA ClaimsCascade ==
  ASSUME NEW db, Good(db), NEW w, NEW max
  PROVE  LET new == ClaimCandidates(db, w, max).jobs
         IN  Cascaded(db.jobs, new) /\ NoneRequeued(db.jobs, new)
<1> DEFINE js      == db.jobs
           free    == FreeSlots(js, w)
           found   == Candidates(js, w, max)
           ready   == {j \in found : Claimable(db, j)}
           claimed == Granted(js, ready, free, max)
           dropped == {j \in Reached(js, found, ready, free, max) : MustCancel(db, j)}
           after   == CancelPendingJobs(db, dropped).jobs
           new     == [j \in Job |-> IF j \in claimed THEN ClaimedRow(js[j]) ELSE after[j]]
<1>1. ClaimCandidates(db, w, max).jobs = new
  BY DEF ClaimCandidates
<1>2. /\ dropped \in SUBSET InState(js, "pending")
      /\ claimed \in SUBSET InState(js, "pending")
  BY DEF Candidates, DuePending, Granted, Reached
<1> HIDE DEF claimed, dropped
<1>3. Cascaded(js, after) /\ NoneRequeued(js, after)
  BY <1>2, CancelPendingCascades
<1> HIDE DEF after
<1>4. \A j \in Job : js[j] \in JobRow /\ js[j].dependsOn \in Job \cup {None}
  BY DbFields DEF Good, JobRow
<1>5. \A j \in claimed : js[j].status = "pending" /\ j \in Job
  BY <1>2 DEF InState
<1>6. \A j \in Job : IF j \in claimed
                     THEN new[j].status = "running" /\ new[j].dependsOn = js[j].dependsOn
                     ELSE new[j] = after[j]
  BY <1>4, ClaimedType
<1> HIDE DEF new
<1>7. NoneRequeued(js, new)
  BY <1>3, <1>6 DEF NoneRequeued
<1>8. Cascaded(js, new)
  <2> SUFFICES ASSUME NEW j \in Job
               PROVE  LET p == js[j].dependsOn
                      IN  /\ new[j].dependsOn = p
                          /\ js[j].status \notin Active => new[j].status = js[j].status
                          /\ new[j].status = "pending" /\ p # None /\ js[p].status \in Active
                               => new[p].status \notin {"failed", "cancelled"}
    BY DEF Cascaded
  <2>1. new[j].dependsOn = js[j].dependsOn
    BY <1>3, <1>6 DEF Cascaded
  <2>2. js[j].status \notin Active => new[j].status = js[j].status
    BY <1>3, <1>5, <1>6 DEF Cascaded, Active
  <2>3. ASSUME new[j].status = "pending", js[j].dependsOn # None,
               js[js[j].dependsOn].status \in Active
        PROVE  new[js[j].dependsOn].status \notin {"failed", "cancelled"}
    <3>1. after[j].status = "pending" /\ js[j].dependsOn \in Job
      BY <1>4, <1>6, <2>3
    <3>2. after[js[j].dependsOn].status \notin {"failed", "cancelled"}
      BY <1>3, <2>3, <3>1 DEF Cascaded
    <3>3. QED
      BY <1>6, <3>1, <3>2
  <2>4. QED
    BY <2>1, <2>2, <2>3
<1>9. QED
  BY <1>1, <1>7, <1>8

(***************************************************************************)
(* A running job moved to "completed" or "cancelled", or back to the       *)
(* queue, is outside what the cascade promises.                            *)
(***************************************************************************)
ParentDropped(j) ==
    LET p == jobs[j].dependsOn
    IN  /\ jobs[j].status = "pending"
        /\ p # None
        /\ \/ jobs[p].status = "running" /\ jobs'[p].status = "failed"
           \/ jobs[p].status = "pending" /\ jobs'[p].status = "cancelled"

\* A step that does neither to any job.
Spares(js, new) ==
    \A k \in Job : \/ new[k].status = js[k].status
                   \/ new[k].status = "deleted"
                   \/ js[k].status = "unused"
                   \/ js[k].status = "running" /\ new[k].status # "failed"

LEMMA SameSpares ==
  ASSUME UNCHANGED jobs
  PROVE  Spares(jobs, jobs')
BY DEF Spares

LEMMA CascadeStep ==
  ASSUME LInv, Next, NEW j \in Job, ParentDropped(j)
  PROVE  jobs'[j].status # "pending"
<1> DEFINE p == jobs[j].dependsOn
<1>1. /\ p \in Job /\ jobs \in [Job -> JobRow] /\ IInv /\ LifeInv(jobs)
      /\ Good(Db) /\ Db.jobs = jobs
  BY IInvIsGood DEF LInv, IInv, TypeOK, JobRow, ParentDropped
<1>2. ASSUME Cascaded(jobs, jobs') PROVE jobs'[j].status # "pending"
  BY <1>2 DEF Cascaded, ParentDropped, Active
<1>3. ~Spares(jobs, jobs')
  BY <1>1 DEF Spares, ParentDropped
<1>4. CASE Enqueue
  <2>1. ASSUME NEW batch \in Batches, NEW counted \in BOOLEAN, EnqueueMany(batch, counted)
        PROVE  \A k \in Job : jobs'[k] = jobs[k] \/ jobs[k].status = "unused"
    BY <2>1 DEF EnqueueMany, Inserted, ValidInput
  <2>2. QED
    BY <1>3, <1>4, <2>1 DEF Enqueue, Spares
<1>5. ASSUME NEW w \in Worker, ClaimPass(w) PROVE Cascaded(jobs, jobs')
  <2> PICK max \in 1..Concurrency[w] : \E spared \in SUBSET ExpiredLeases(w) :
             ClaimNextBatch(w, max, spared)
    BY <1>5 DEF ClaimPass
  <2> PICK spared \in SUBSET ExpiredLeases(w) : ClaimNextBatch(w, max, spared)
    OBVIOUS
  <2> DEFINE reads == Reads(jobs, ExpiredLeases(w) \ spared)
             mid == RecoverRows(Db, reads)
             new == ClaimCandidates(mid, w, max).jobs
  <2>1. reads \in SUBSET RowRead /\ ReadOnce(reads)
    BY <1>1, ReadsType DEF ExpiredLeases, InState
  <2>2. jobs' = new
    BY DEF ClaimNextBatch, Commit
  <2> HIDE DEF reads
  <2>3. Good(mid) /\ Cascaded(jobs, mid.jobs)
    BY <1>1, <2>1, GoodAfterRecover, RecoverCascades
  <2> HIDE DEF mid
  <2>4. Cascaded(mid.jobs, new) /\ NoneRequeued(mid.jobs, new)
    BY <2>3, ClaimsCascade
  <2> HIDE DEF new
  <2>5. QED
    BY <1>1, <2>2, <2>3, <2>4, CascadedTwice
<1>6. ASSUME NEW w \in Worker, PollDue(w) PROVE FALSE
  BY <1>3, <1>6, SameSpares DEF PollDue
<1>7. ASSUME NEW k \in Job, NEW token \in Tokens(k), Complete(k, token) PROVE FALSE
  <2> DEFINE done == FinishJobs(Db, {k}, "completed").jobs
  <2>1. done = Moved(jobs, {k}, "completed")
    <3>1. "completed" # "failed"
      OBVIOUS
    <3>2. FinishJobs(Db, {k}, "completed").jobs = Moved(Db.jobs, {k}, "completed")
      BY <3>1 DEF FinishJobs
    <3>3. QED
      BY <1>1, <3>2
  <2>2. /\ jobs' = [done EXCEPT ![k] = [done[k] EXCEPT !.result = token]]
        /\ jobs[k].status = "running"
    BY <1>7 DEF Complete, HoldsClaim, Commit, WithJob
  <2> HIDE DEF done
  <2>3. /\ done \in [Job -> JobRow] /\ done[k].status = "completed"
        /\ \A i \in Job \ {k} : done[i] = jobs[i]
    <3>1. "completed" \in RowStatus
      BY StatusValues
    <3>2. done \in [Job -> JobRow]
      BY <1>1, <2>1, <3>1, MovedType
    <3>3. QED
      BY <1>1, <2>1, <3>1, <3>2, ReleaseFields DEF Moved
  <2>4. [done[k] EXCEPT !.result = token].status = "completed"
    BY <2>3 DEF JobRow
  <2>5. QED
    BY <1>3, <2>2, <2>3, <2>4 DEF Spares
<1>8. ASSUME NEW k \in Job, NEW token \in Tokens(k), Fail(k, token) PROVE Cascaded(jobs, jobs')
  <2>1. {k} \in SUBSET InState(Db.jobs, "running")
    BY <1>1, <1>8 DEF Fail, HoldsClaim, InState
  <2>2. jobs' = FinishJobs(Db, {k}, "failed").jobs
    BY <1>8 DEF Fail, Commit
  <2>3. QED
    BY <1>1, <2>1, <2>2, FailCascades
<1>9. ASSUME NEW k \in Job, NEW token \in Tokens(k), NEW delayed, Retry(k, token, delayed)
      PROVE  FALSE
  <2> DEFINE queued == RequeueJobs(Db, {k}).jobs
             due == IF delayed THEN 0 ELSE NextDue(jobs, Job \ {k})
             row == [queued[k] EXCEPT !.dueAs = due, !.result = 0]
  <2>1. jobs' = [queued EXCEPT ![k] = row] /\ jobs[k].status = "running"
    BY <1>9 DEF Retry, HoldsClaim, Commit, WithJob
  <2>2. queued = Moved(jobs, {k}, "pending")
    BY <1>1 DEF RequeueJobs
  <2> HIDE DEF queued, due
  <2>3. /\ queued \in [Job -> JobRow] /\ queued[k].status = "pending"
        /\ \A i \in Job \ {k} : queued[i] = jobs[i]
    <3>1. "pending" \in RowStatus
      BY StatusValues
    <3>2. queued \in [Job -> JobRow]
      BY <1>1, <2>2, <3>1, MovedType
    <3>3. QED
      BY <1>1, <2>2, <3>1, <3>2, ReleaseFields DEF Moved
  <2>4. row.status = "pending"
    BY <2>3 DEF JobRow
  <2> HIDE DEF row
  <2>5. QED
    BY <1>3, <2>1, <2>3, <2>4 DEF Spares
<1>10. CASE Cancel
  <2>1. ASSUME NEW S \in SUBSET InState(jobs, "pending"), Commit(CancelPendingJobs(Db, S))
        PROVE  jobs'[j].status # "pending"
    BY <1>1, <1>2, <2>1, CancelPendingCascades DEF Commit
  <2>2. ASSUME NEW S \in SUBSET InState(jobs, "running"), Commit(FinishJobs(Db, S, "cancelled"))
        PROVE  FALSE
    <3>1. jobs' = Moved(jobs, S, "cancelled")
      <4>1. "cancelled" # "failed"
        OBVIOUS
      <4>2. FinishJobs(Db, S, "cancelled").jobs = Moved(Db.jobs, S, "cancelled")
        BY <4>1 DEF FinishJobs
      <4>3. QED
        BY <1>1, <2>2, <4>2 DEF Commit
    <3>2. \A k \in Job : IF k \in S THEN /\ jobs[k].status = "running"
                                         /\ jobs'[k].status = "cancelled"
                         ELSE jobs'[k] = jobs[k]
      BY <1>1, <3>1, ReleaseFields, StatusValues DEF Moved, InState
    <3>3. QED
      BY <1>3, <3>2 DEF Spares
  <2>3. ASSUME NEW k \in Job, CancelPending(k) PROVE jobs'[j].status # "pending"
    <3>1. {k} \in SUBSET InState(jobs, "pending")
      BY <2>3 DEF CancelPending, InState
    <3>2. QED
      BY <2>1, <2>3, <3>1 DEF CancelPending
  <2>4. ASSUME NEW k \in Job, CancelRunning(k) PROVE FALSE
    <3>1. {k} \in SUBSET InState(jobs, "running")
      BY <2>4 DEF CancelRunning, InState
    <3>2. QED
      BY <2>2, <2>4, <3>1 DEF CancelRunning
  <2>5. ASSUME NEW o, CancelPendingByOperation(o) PROVE jobs'[j].status # "pending"
    BY <2>1, <2>5 DEF CancelPendingByOperation
  <2>6. ASSUME NEW w, CancelAllPending(w) PROVE jobs'[j].status # "pending"
    BY <2>1, <2>6 DEF CancelAllPending
  <2>7. ASSUME NEW w, CancelAllRunning(w) PROVE FALSE
    BY <2>2, <2>7 DEF CancelAllRunning
  <2>8. QED
    BY <1>10, <2>3, <2>4, <2>5, <2>6, <2>7 DEF Cancel
<1>11. CASE ChangeOperation
  <2>1. ASSUME NEW o \in Operation, RemoveOperation(o) PROVE FALSE
    <3>1. \A k \in Job : [jobs[k] EXCEPT !.operationId = None].status = jobs[k].status
      BY <1>1 DEF JobRow
    <3>2. \A k \in Job : jobs'[k].status = jobs[k].status
      BY <2>1, <3>1 DEF RemoveOperation, Detached
    <3>3. QED
      BY <1>3, <3>2 DEF Spares
  <2>2. ASSUME NEW o \in Operation, ~RemoveOperation(o),
               \/ \E withError \in BOOLEAN : CreateOperation(o, withError)
               \/ RemoveOperation(o)
               \/ CancelRequested(o)
               \/ \E total \in 1..CountIn(jobs, "cancelled", o) : Resume(o, total)
               \/ ReconcileFromJobs(o)
        PROVE  FALSE
    BY <1>3, <2>2, SameSpares DEF CreateOperation, CancelRequested, Resume, ReconcileFromJobs
  <2>3. QED
    BY <1>11, <2>1, <2>2 DEF ChangeOperation
<1>12. CASE Sweep
  <2>1. ASSUME NEW S, jobs' = Deleted(jobs, S) PROVE FALSE
    <3>1. \A k \in Job \ S : jobs'[k].status = jobs[k].status
      BY <1>1, <2>1, DeletedType
    <3>2. \A k \in Job \cap S : jobs'[k].status = "deleted"
      BY <1>1, <2>1, DeletedType
    <3>3. QED
      BY <1>3, <3>1, <3>2 DEF Spares
  <2>2. CASE RecoverOrphans
    <3>1. orphanScan \in SUBSET RowRead /\ ReadOnce(orphanScan)
      BY <1>1 DEF IInv, TypeOK
    <3>2. jobs' = RecoverRows(Db, orphanScan).jobs
      BY <2>2 DEF RecoverOrphans, Commit
    <3>3. QED
      BY <1>1, <1>2, <3>1, <3>2, RecoverCascades
  <2>3. CASE DeleteExpired
    BY <2>1, <2>3 DEF DeleteExpired
  <2>4. ASSUME NEW k \in Job, PurgeStandalone(k) PROVE FALSE
    BY <2>1, <2>4 DEF PurgeStandalone
  <2>5. ASSUME NEW spared, OrphanRead(spared) PROVE FALSE
    BY <1>3, <2>5, SameSpares DEF OrphanRead
  <2>6. ASSUME NEW o, ExpiredRead(o) PROVE FALSE
    BY <1>3, <2>6, SameSpares DEF ExpiredRead
  <2>7. QED
    BY <1>12, <2>2, <2>3, <2>4, <2>5, <2>6 DEF Sweep
<1>13. CASE Time
  <2>1. ASSUME NEW i \in Job, NEW row, row.status = jobs[i].status,
               jobs' = [jobs EXCEPT ![i] = row]
        PROVE  FALSE
    BY <1>1, <1>3, <2>1 DEF Spares
  <2>2. ASSUME NEW i \in Job, BecomeDue(i) PROVE FALSE
    <3> DEFINE row == [jobs[i] EXCEPT !.dueAs = NextDue(jobs, Job)]
    <3>1. row.status = jobs[i].status
      BY <1>1 DEF JobRow
    <3>2. jobs' = [jobs EXCEPT ![i] = row]
      BY <2>2 DEF BecomeDue
    <3> HIDE DEF row
    <3>3. QED
      BY <2>1, <3>1, <3>2
  <2>3. ASSUME NEW i \in Job, LeaseExpires(i) PROVE FALSE
    <3> DEFINE row == [jobs[i] EXCEPT !.leaseExpired = TRUE]
    <3>1. row.status = jobs[i].status
      BY <1>1 DEF JobRow
    <3>2. jobs' = [jobs EXCEPT ![i] = row]
      BY <2>3 DEF LeaseExpires
    <3> HIDE DEF row
    <3>3. QED
      BY <2>1, <3>1, <3>2
  <2>4. ASSUME Restart PROVE FALSE
    <3>1. \A k \in Job : [jobs[k] EXCEPT !.foreign = TRUE].status = jobs[k].status
      BY <1>1 DEF JobRow
    <3>2. \A k \in Job : jobs'[k].status = jobs[k].status
      BY <2>4, <3>1 DEF Restart
    <3>3. QED
      BY <1>3, <3>2 DEF Spares
  <2>5. QED
    BY <1>13, <2>2, <2>3, <2>4 DEF Time
<1>14. QED
  BY <1>2, <1>4, <1>5, <1>6, <1>7, <1>8, <1>9, <1>10, <1>11, <1>12, <1>13
  DEF Next, Claim, Outcome

(***************************************************************************)
(* The transaction that fails a job, or cancels it before it started,      *)
(* cancels every pending job that waits for it, directly or not: the       *)
(* level-by-level search of cascadeCancel stops only when a level is       *)
(* empty.                                                                  *)
(***************************************************************************)
THEOREM CascadeComplete == Spec => CascadeReachesDependents
<1> DEFINE A == \A j \in Job :
                  LET p == jobs[j].dependsOn
                  IN  /\ jobs[j].status = "pending"
                      /\ p # None
                      /\ \/ jobs[p].status = "running" /\ jobs'[p].status = "failed"
                         \/ jobs[p].status = "pending" /\ jobs'[p].status = "cancelled"
                      => jobs'[j].status # "pending"
<1>1. LInv /\ [Next]_vars => [A]_vars
  BY CascadeStep DEF ParentDropped
<1>2. QED
  BY <1>1, LInvInit, LInvStep, PTL DEF Spec, CascadeReachesDependents
-----------------------------------------------------------------------------
(* The claim pass takes every runnable job it can.                         *)

(***************************************************************************)
(* In the order of a claim pass, the first jobs of R are n unless R has    *)
(* fewer: if one job of R has n others before it, then n of them come      *)
(* early.                                                                  *)
(***************************************************************************)
LEMMA ManyAreEarly ==
  ASSUME NEW js \in [Job -> JobRow], NEW R \in SUBSET Job, NEW n \in Nat, NEW late \in R,
         n <= Cardinality(Preceding(js, R, late))
  PROVE  n <= Cardinality({j \in R : Cardinality(Preceding(js, R, j)) < n})
<1> DEFINE size   == Cardinality(R)
           places == 0..(size - 1)
           place  == [j \in R |-> Cardinality(Preceding(js, R, j))]
           early  == {j \in R : place[j] < n}
           first  == [j \in early |-> place[j]]
<1>1. IsFiniteSet(R) /\ size \in Nat
  BY JobsFinite
<1>2. ASSUME NEW j \in R PROVE place[j] \in places
  <2>1. Preceding(js, R, j) \subseteq R /\ j \notin Preceding(js, R, j)
    BY BeforeIsOrder DEF Preceding
  <2> DEFINE P == Preceding(js, R, j)
  <2>2. IsFiniteSet(P) /\ Cardinality(P) \in Nat
    BY <2>1, JobsFinite
  <2> HIDE DEF P
  <2>3. Cardinality(P) <= size /\ (Cardinality(P) = size => P = R)
    BY <1>1, <2>1, <2>2, FS_Subset DEF P
  <2>4. Cardinality(P) < size
    BY <1>1, <2>1, <2>2, <2>3 DEF P
  <2>5. place[j] = Cardinality(P)
    BY DEF P
  <2> HIDE DEF place, size
  <2>6. QED
    BY <1>1, <2>2, <2>4, <2>5
<1>3. place \in [R -> places]
  <2>1. place = [j \in R |-> place[j]]
    OBVIOUS
  <2> HIDE DEF place, places
  <2>2. QED
    BY <1>2, <2>1
<1>4. ASSUME NEW j \in R, NEW k \in R, j # k PROVE place[j] # place[k]
  <2>1. Before(js, j, k) \/ Before(js, k, j)
    BY <1>4, BeforeIsOrder
  <2>2. place[j] < place[k] \/ place[k] < place[j]
    BY <2>1, MorePrecede
  <2>3. place[j] \in places /\ place[k] \in places
    BY <1>2
  <2> HIDE DEF place
  <2>4. QED
    BY <1>1, <2>2, <2>3
<1>5. n <= place[late]
  OBVIOUS
<1>6. early = {j \in R : Cardinality(Preceding(js, R, j)) < n}
  OBVIOUS
<1> HIDE DEF place
<1>7. place \in Injection(R, places)
  BY <1>3, <1>4 DEF Injection, IsInjective
<1>8. IsFiniteSet(places) /\ Cardinality(places) = size
  <2> HIDE DEF size
  <2>1. QED
    BY <1>1, FS_Interval
<1>9. place \in Surjection(R, places)
  BY <1>7, <1>8, FS_Injection
<1>10. n <= size
  BY <1>1, <1>2, <1>5
<1>11. \A i \in 0..(n - 1) : i \in places
  BY <1>1, <1>10
<1>12. \A i \in 0..(n - 1) : \E j \in R : place[j] = i
  BY <1>9, <1>11 DEF Surjection
<1>13. \A j \in early : first[j] \in 0..(n - 1)
  BY <1>1, <1>2
<1>14. \A i \in 0..(n - 1) : \E j \in early : first[j] = i
  BY <1>12
<1>15. first \in Surjection(early, 0..(n - 1))
  BY <1>13, <1>14 DEF Surjection
<1>16. early \in SUBSET Job
  OBVIOUS
<1> HIDE DEF first, early
<1>17. IsFiniteSet(0..(n - 1)) /\ Cardinality(0..(n - 1)) = n
  <2>1. n - 1 \in Int /\ (0 > n - 1 => n = 0)
    OBVIOUS
  <2>2. QED
    BY <2>1, FS_Interval
<1>18. IsFiniteSet(early) /\ Cardinality(early) \in Nat
  BY <1>16, JobsFinite
<1>19. Cardinality(0..(n - 1)) <= Cardinality(early)
  BY <1>15, <1>18, FS_Surjection
<1>20. QED
  BY <1>6, <1>17, <1>19
-----------------------------------------------------------------------------
(***************************************************************************)
(* Neither a recovery nor a claim moves a job in the queue.                *)
(***************************************************************************)
SamePlaces(js, new) == \A j \in Job : new[j].dueAs = js[j].dueAs

LEMMA MovedKeepsPlaces ==
  ASSUME NEW js \in [Job -> JobRow], NEW S, NEW to
  PROVE  SamePlaces(js, Moved(js, S, to))
BY DEF SamePlaces, Moved, Release, JobRow

LEMMA RecoverKeepsPlaces ==
  ASSUME NEW db, Good(db), NEW reads \in SUBSET RowRead, ReadOnce(reads)
  PROVE  SamePlaces(db.jobs, RecoverRows(db, reads).jobs)
<1> DEFINE running   == {r \in reads : db.jobs[r.id].status = "running"}
           retryable == {r.id : r \in {x \in running : x.attempts < MaxAttempts[x.id]}}
           exhausted == {r.id : r \in {x \in running : x.attempts >= MaxAttempts[x.id]}}
           requeued  == RequeueJobs(db, retryable)
           failed    == Moved(requeued.jobs, exhausted, "failed")
<1>1. /\ Good(requeued) /\ exhausted \in SUBSET InState(requeued.jobs, "running")
  BY RecoverParts
<1>2. RecoverRows(db, reads).jobs
        = Moved(failed, PendingDependents(failed, exhausted), "cancelled")
  BY DEF RecoverRows, FinishJobs
<1>3. SamePlaces(db.jobs, requeued.jobs)
  BY DbFields, MovedKeepsPlaces DEF Good, RequeueJobs
<1> HIDE DEF exhausted, requeued
<1>4. requeued.jobs \in [Job -> JobRow]
  BY <1>1, DbFields DEF Good
<1>5. SamePlaces(requeued.jobs, failed) /\ failed \in [Job -> JobRow]
  BY <1>4, StatusValues, MovedKeepsPlaces, MovedType
<1> HIDE DEF failed
<1>6. SamePlaces(failed, RecoverRows(db, reads).jobs)
  BY <1>2, <1>5, MovedKeepsPlaces
<1>7. QED
  BY <1>3, <1>5, <1>6 DEF SamePlaces
-----------------------------------------------------------------------------
(***************************************************************************)
(* claimRunnableItems: unless it has claimed the number asked for or       *)
(* filled the worker, it has gone through all its candidates and granted   *)
(* every claimable one; what is left waits for a parent that is still      *)
(* active, or was cancelled in the same pass.                              *)
(***************************************************************************)
Restarted(js, new) == {j \in Job : js[j].attempts < new[j].attempts}

LEMMA ClaimsAllReady ==
  ASSUME NEW db, Good(db), LifeInv(db.jobs), NEW w \in Worker, NEW max \in Nat,
         Cardinality(Restarted(db.jobs, ClaimCandidates(db, w, max).jobs)) < max,
         Cardinality(RunningOf(ClaimCandidates(db, w, max).jobs, w)) < Concurrency[w],
         NEW j \in Candidates(db.jobs, w, max),
         ClaimCandidates(db, w, max).jobs[j].status = "pending"
  PROVE  LET new == ClaimCandidates(db, w, max).jobs
             p   == new[j].dependsOn
         IN  p # None /\ new[p].status \in Active \cup {"cancelled"}
<1> DEFINE js      == db.jobs
           free    == FreeSlots(js, w)
           found   == Candidates(js, w, max)
           ready   == {k \in found : Claimable(db, k)}
           Place(k) == Cardinality(Preceding(js, ready, k))
           claimed == Granted(js, ready, free, max)
           reached == Reached(js, found, ready, free, max)
           dropped == {k \in reached : MustCancel(db, k)}
           after   == CancelPendingJobs(db, dropped)
           new     == [k \in Job |-> IF k \in claimed THEN ClaimedRow(js[k]) ELSE after.jobs[k]]
           busy    == RunningOf(js, w)
<1>1. ClaimCandidates(db, w, max).jobs = new
  BY DEF ClaimCandidates
<1>2. js \in [Job -> JobRow] /\ \A k \in Job : js[k] \in JobRow
  BY DbFields DEF Good
<1>3. /\ found \in SUBSET InState(js, "pending") /\ InState(js, "pending") \in SUBSET Job
      /\ ready \in SUBSET found
  BY DEF Candidates, DuePending, InState
<1>4. /\ dropped \in SUBSET InState(js, "pending") /\ claimed \in SUBSET ready
      /\ claimed = {k \in ready : Place(k) < free /\ Place(k) < max}
      /\ reached = {k \in found : Place(k) <= free /\ Place(k) < max}
  BY <1>3 DEF Granted, Reached
<1>5. \A k \in Job : Place(k) \in Nat
  <2> TAKE k \in Job
  <2>1. Preceding(js, ready, k) \in SUBSET Job
    BY <1>3 DEF Preceding
  <2>2. QED
    BY <2>1, JobsFinite
<1>6. /\ Cardinality(busy) \in Nat /\ Concurrency[w] \in Nat /\ busy \in SUBSET Job
      /\ busy = {k \in Job : js[k].status = "running" /\ WorkerOf[k] = w}
  BY JobsFinite, LimitAssumption DEF RunningOf, InState
<1>7. /\ free \in Nat
      /\ free >= Concurrency[w] - Cardinality(busy)
  BY <1>6 DEF FreeSlots, Minus, RunningOf
<1>8. \A k \in found : WorkerOf[k] = w
  BY DEF Candidates, DuePending
<1> HIDE DEF found, ready, free, busy, claimed, reached
<1>9. AllSettled(js, after.jobs)
  BY <1>4, CancelPendingSettles
<1>10. \A k \in Job : js[k].status = "running" => after.jobs[k] = js[k]
  <2>1. dropped \cup PendingDependents(js, dropped) \in SUBSET InState(js, "pending")
    BY <1>4, DependentsPending
  <2> HIDE DEF dropped
  <2>2. QED
    BY <2>1 DEF CancelPendingJobs, Moved, InState
<1>11. \A k \in dropped : after.jobs[k].status = "cancelled"
  <2> TAKE k \in dropped
  <2>1. k \in Job /\ after.jobs[k] = Release(js[k], "cancelled")
    BY <1>3, <1>4 DEF CancelPendingJobs, Moved
  <2>2. QED
    BY <1>2, <2>1, StatusValues, ReleaseFields
<1> HIDE DEF after, dropped
<1>12. \A k \in claimed : new[k].status = "running" /\ new[k].attempts = js[k].attempts + 1
  <2> TAKE k \in claimed
  <2>1. k \in Job /\ new[k] = ClaimedRow(js[k])
    BY <1>3, <1>4
  <2>2. QED
    BY <1>2, <2>1, ClaimedType, ClaimedFields
<1>13. \A k \in Job : k \notin claimed => new[k] = after.jobs[k]
  OBVIOUS
<1> HIDE DEF new
<1>14. claimed \subseteq Restarted(js, new) /\ Restarted(js, new) \in SUBSET Job
  <2>1. \A k \in claimed : k \in Job /\ js[k].attempts \in Nat
    BY <1>2, <1>3, <1>4 DEF JobRow
  <2>2. QED
    BY <1>12, <2>1 DEF Restarted
<1>15. Cardinality(claimed) < max
  <2>1. /\ IsFiniteSet(Restarted(js, new)) /\ Cardinality(Restarted(js, new)) \in Nat
        /\ Cardinality(claimed) \in Nat
    BY <1>3, <1>4, <1>14, JobsFinite
  <2>2. Cardinality(claimed) <= Cardinality(Restarted(js, new))
    BY <1>14, <2>1, FS_Subset
  <2>3. QED
    BY <1>1, <2>1, <2>2
<1>16. Cardinality(claimed) < free
  <2> DEFINE U == busy \cup claimed
  <2>1. busy \cap claimed = {} /\ U \in SUBSET Job
    BY <1>3, <1>4, <1>6 DEF InState
  <2>2. U \subseteq RunningOf(new, w) /\ RunningOf(new, w) \in SUBSET Job
    <3>1. ASSUME NEW k \in busy PROVE new[k].status = "running"
      <4>1. k \in Job /\ js[k].status = "running" /\ k \notin claimed
        BY <1>6, <2>1
      <4>2. QED
        BY <1>10, <1>13, <4>1
    <3>2. QED
      BY <1>3, <1>4, <1>6, <1>8, <1>12, <3>1 DEF RunningOf, InState
  <2>3. /\ IsFiniteSet(busy) /\ IsFiniteSet(claimed) /\ Cardinality(claimed) \in Nat
        /\ IsFiniteSet(RunningOf(new, w)) /\ Cardinality(RunningOf(new, w)) \in Nat
        /\ Cardinality(U) \in Nat
    BY <1>3, <1>4, <1>6, <2>1, <2>2, JobsFinite
  <2>4. Cardinality(U) = Cardinality(busy) + Cardinality(claimed)
    <3>1. Cardinality(U) = Cardinality(busy) + Cardinality(claimed) - Cardinality(busy \cap claimed)
      BY <2>3, FS_Union
    <3>2. Cardinality(busy \cap claimed) = 0
      BY <2>1, FS_EmptySet
    <3> HIDE DEF U
    <3>3. QED
      BY <1>6, <2>3, <3>1, <3>2
  <2>5. Cardinality(U) <= Cardinality(RunningOf(new, w))
    BY <2>2, <2>3, FS_Subset
  <2> HIDE DEF U
  <2>6. QED
    BY <1>1, <1>6, <1>7, <2>3, <2>4, <2>5
<1>17. ready = claimed
  <2> DEFINE n == IF free < max THEN free ELSE max
  <2>1. SUFFICES ASSUME NEW k \in ready, k \notin claimed PROVE FALSE
    BY <1>4
  <2>2. n \in Nat /\ n <= free /\ n <= max /\ n \in {free, max}
    BY <1>7
  <2>3. Place(k) \in Nat /\ ready \in SUBSET Job
    BY <1>3, <1>5
  <2>4. claimed = {i \in ready : Place(i) < n}
    BY <1>4, <1>5, <1>7, <2>3
  <2>5. n <= Place(k)
    BY <2>1, <2>2, <2>3, <2>4
  <2> HIDE DEF n
  <2>6. n <= Cardinality(claimed)
    BY <1>2, <2>2, <2>3, <2>4, <2>5, ManyAreEarly
  <2>7. Cardinality(claimed) \in Nat
    BY <1>4, <2>3, JobsFinite
  <2>8. QED
    BY <1>7, <1>15, <1>16, <2>2, <2>6, <2>7
<1>18. found \subseteq reached
  <2> SUFFICES ASSUME NEW k \in found PROVE k \in reached
    OBVIOUS
  <2>1. /\ ready \in SUBSET Job /\ Preceding(js, ready, k) \subseteq ready
        /\ k \in Job
    BY <1>3 DEF Preceding
  <2>2. IsFiniteSet(ready) /\ Cardinality(ready) \in Nat
    BY <2>1, JobsFinite
  <2>3. Place(k) <= Cardinality(ready)
    BY <2>1, <2>2, FS_Subset
  <2>4. Place(k) \in Nat
    BY <1>5, <2>1
  <2> HIDE DEF Place
  <2>5. Place(k) <= free /\ Place(k) < max
    BY <1>7, <1>15, <1>16, <1>17, <2>2, <2>3, <2>4
  <2>6. QED
    BY <1>4, <2>5
<1>19. j \in Job /\ j \in found /\ j \notin claimed /\ new[j].status = "pending"
  <2>1. j \in found /\ new[j].status = "pending"
    BY <1>1 DEF found
  <2>2. QED
    BY <1>3, <1>12, <2>1
<1>20. new[j] = after.jobs[j]
  BY <1>13, <1>19
<1>21. ~MustCancel(db, j) /\ ~Claimable(db, j)
  <2>1. j \notin dropped /\ j \notin ready
    BY <1>11, <1>17, <1>19, <1>20
  <2>2. j \in reached
    BY <1>18, <1>19
  <2>3. QED
    BY <1>19, <2>1, <2>2 DEF dropped, ready
<1> DEFINE p == js[j].dependsOn
<1>22. p # None /\ p \in Job /\ js[p].status \in Active
  BY <1>2, <1>19, <1>21 DEF Claimable, ParentStatus, JobRow, Active
<1>23. new[j].dependsOn = p
  BY <1>9, <1>19, <1>20 DEF AllSettled, Settled
<1>24. new[p].status \in Active \cup {"cancelled"}
  <2>1. CASE p \in claimed
    BY <1>12, <2>1 DEF Active
  <2>2. CASE p \notin claimed
    <3>1. new[p] = after.jobs[p] /\ Settled(js, after.jobs, p)
      BY <1>9, <1>13, <1>22, <2>2 DEF AllSettled
    <3>2. QED
      BY <1>10, <1>22, <3>1 DEF Settled, Active
  <2>3. QED
    BY <2>1, <2>2
<1>25. QED
  BY <1>1, <1>22, <1>23, <1>24


LEMMA ClaimsKeepPlaces ==
  ASSUME NEW db, Good(db), NEW w, NEW max
  PROVE  LET new == ClaimCandidates(db, w, max).jobs
         IN  /\ SamePlaces(db.jobs, new)
             /\ \A j \in Job : new[j].status = "pending" => db.jobs[j].status = "pending"
<1> DEFINE js      == db.jobs
           free    == FreeSlots(js, w)
           found   == Candidates(js, w, max)
           ready   == {j \in found : Claimable(db, j)}
           claimed == Granted(js, ready, free, max)
           dropped == {j \in Reached(js, found, ready, free, max) : MustCancel(db, j)}
           after   == CancelPendingJobs(db, dropped)
<1>1. ClaimCandidates(db, w, max).jobs
        = [j \in Job |-> IF j \in claimed THEN ClaimedRow(js[j]) ELSE after.jobs[j]]
  BY DEF ClaimCandidates
<1> HIDE DEF claimed, dropped
<1>2. js \in [Job -> JobRow]
  BY DbFields DEF Good
<1>3. SamePlaces(js, after.jobs)
  BY <1>2, MovedKeepsPlaces DEF CancelPendingJobs
<1>4. \A j \in Job : after.jobs[j] = js[j] \/ after.jobs[j].status = "cancelled"
  BY <1>2, StatusValues, ReleaseFields DEF CancelPendingJobs, Moved
<1> HIDE DEF after
<1>5. \A j \in Job : /\ ClaimedRow(js[j]).dueAs = js[j].dueAs
                     /\ ClaimedRow(js[j]).status = "running"
  BY <1>2 DEF ClaimedRow, JobRow
<1>6. QED
  BY <1>1, <1>3, <1>4, <1>5 DEF SamePlaces

(***************************************************************************)
(* What a pass claims or leaves it finds in the table its own recovery has *)
(* made, in which no job is further back than among the rows the worker    *)
(* had waiting or running before.                                          *)
(***************************************************************************)
ClaimPassComplete(w, max) ==
    \/ Claims >= max
    \/ RunningFor(w)' >= Concurrency[w]
    \/ \A j \in Job : WorkerOf[j] = w /\ InWindow(j) => ~Runnable(j)'

LEMMA ClaimPassTakesAll ==
  ASSUME LInv, NEW w \in Worker, NEW max \in Nat, NEW spared, ClaimNextBatch(w, max, spared)
  PROVE  ClaimPassComplete(w, max)
<1> DEFINE reads == Reads(jobs, ExpiredLeases(w) \ spared)
           mid   == RecoverRows(Db, reads)
           new   == ClaimCandidates(mid, w, max).jobs
<1>1. reads \in SUBSET RowRead /\ ReadOnce(reads)
  BY ReadsType DEF LInv, ExpiredLeases, InState
<1>2. jobs' = new
  BY DEF ClaimNextBatch, Commit
<1> HIDE DEF reads
<1>3. /\ Good(mid) /\ AllSettled(jobs, mid.jobs)
      /\ SamePlaces(jobs, mid.jobs)
  BY <1>1, IInvIsGood, GoodAfterRecover, RecoverSettles, RecoverKeepsPlaces DEF LInv
<1> HIDE DEF mid
<1>4. jobs \in [Job -> JobRow] /\ mid.jobs \in [Job -> JobRow]
  BY <1>3, DbFields DEF LInv, IInv, TypeOK, Good
<1>5. LifeInv(mid.jobs)
  BY <1>3, <1>4, SettledIsStep, JobStepKeepsLifeInv DEF JobStep, QuietStep, LInv
<1>6. Claims = Cardinality(Restarted(mid.jobs, new))
  BY <1>2, <1>3 DEF Claims, Restarted, AllSettled, Settled
<1>7. RunningFor(w)' = Cardinality(RunningOf(new, w))
  BY <1>2 DEF RunningFor, RunningOf, InState
<1> HIDE DEF new
<1>8. SUFFICES ASSUME ~(Claims >= max), ~(RunningFor(w)' >= Concurrency[w]),
                      NEW j \in Job, WorkerOf[j] = w, InWindow(j), Runnable(j)'
               PROVE  FALSE
  BY DEF ClaimPassComplete
<1>9. /\ Cardinality(Restarted(mid.jobs, new)) < max
       /\ Cardinality(RunningOf(new, w)) < Concurrency[w]
  <2>1. /\ Cardinality(Restarted(mid.jobs, new)) \in Nat
        /\ Cardinality(RunningOf(new, w)) \in Nat /\ Concurrency[w] \in Nat
    BY JobsFinite, LimitAssumption DEF Restarted, RunningOf, InState
  <2>2. QED
    BY <1>6, <1>7, <1>8, <2>1
<1>10. new[j].status = "pending" /\ jobs'[j].dueAs > 0 /\ Claimable(Db, j)'
  BY <1>2, <1>8 DEF Runnable
<1>11. mid.jobs[j].status = "pending"
  BY <1>3, <1>10, ClaimsKeepPlaces DEF new
<1>12. mid.jobs[j].dueAs > 0
  <2>1. new[j].dueAs = mid.jobs[j].dueAs
    BY <1>3, ClaimsKeepPlaces DEF new, SamePlaces
  <2>2. QED
    BY <1>2, <1>10, <2>1
<1>13. j \in Candidates(mid.jobs, w, max)
  <2> DEFINE due  == DuePending(mid.jobs, w)
             rows == {k \in Job : /\ jobs[k].status \in Active
                                  /\ WorkerOf[k] = WorkerOf[j]
                                  /\ jobs[k].dueAs > 0}
             P    == Preceding(mid.jobs, due, j)
             Q    == Preceding(jobs, rows, j)
  <2>1. j \in due
    BY <1>8, <1>11, <1>12 DEF DuePending, InState
  <2>2. due \subseteq rows
    BY <1>3, <1>8 DEF DuePending, InState, AllSettled, Settled, SamePlaces, Active
  <2>3. P \subseteq Q /\ P \in SUBSET Job /\ Q \in SUBSET Job
    BY <1>3, <2>2 DEF Preceding, Before, SamePlaces, DuePending, InState
  <2>4. Cardinality(Q) < CandidateLimit
    BY <1>8 DEF InWindow
  <2> HIDE DEF Q
  <2>5. Cardinality(P) < CandidateLimit
    <3> HIDE DEF P
    <3>1. IsFiniteSet(Q) /\ Cardinality(Q) \in Nat /\ Cardinality(P) \in Nat
      BY <2>3, JobsFinite
    <3>2. Cardinality(P) <= Cardinality(Q)
      BY <2>3, <3>1, FS_Subset
    <3>3. QED
      BY <2>4, <3>1, <3>2, LimitAssumption
  <2>6. QED
    BY <2>1, <2>5 DEF Candidates
<1> DEFINE p == new[j].dependsOn
<1>14. p # None /\ new[p].status \in Active \cup {"cancelled"}
  BY <1>3, <1>5, <1>9, <1>10, <1>13, ClaimsAllReady DEF new
<1>15. ParentStatus(jobs', j) \notin Active \cup {"failed", "cancelled"}
  BY <1>10 DEF Claimable, MustCancel, Db
<1>16. QED
  BY <1>2, <1>14, <1>15 DEF ParentStatus

(***************************************************************************)
(* claimNextBatch leaves no slot of its worker idle beside a job that      *)
(* could run: it passes over jobs that wait and cancels dead ones without  *)
(* counting them, and what its own recovery freed it claims at once.       *)
(***************************************************************************)
THEOREM ClaimsComplete == Spec => ClaimTakesEveryRunnable
<1>1. LInv /\ [Next]_vars =>
        [\A w \in Worker : \A max \in 1..Concurrency[w] : \A spared \in SUBSET ExpiredLeases(w) :
            ClaimNextBatch(w, max, spared) => ClaimPassComplete(w, max)]_vars
  <2>1. \A w \in Worker : \A max \in 1..Concurrency[w] : max \in Nat
    BY LimitAssumption
  <2>2. QED
    BY <2>1, ClaimPassTakesAll
<1>2. QED
  BY <1>1, LInvInit, LInvStep, PTL DEF Spec, ClaimTakesEveryRunnable, ClaimPassComplete
=============================================================================
