------------------------------ MODULE JobQueue ------------------------------
(***************************************************************************)
(* The durable job queue: the rows of worker_jobs and worker_operations    *)
(* and the transactions of repositories/worker-jobs and                    *)
(* repositories/worker-operation that change them.                         *)
(*                                                                         *)
(* One action is one committed transaction, or one autocommitted           *)
(* statement; the write lock of database.factory.ts runs them one at a     *)
(* time.  Where a function reads rows first and opens its transaction      *)
(* later, the read is an action of its own and what it read is kept in a   *)
(* variable (polled, orphanScan, expiredOps).  Any caller may issue any of them at *)
(* any time: this module knows nothing of the process that executes jobs.  *)
(*                                                                         *)
(* Data: a job's payload, references and result text are left out.  A      *)
(* claim token (a random UUID) is the number of the claim that wrote it,   *)
(* that is, the row's attempt counter at that moment.  Of runAt only what  *)
(* the code tests is kept: whether it has passed, and the order in which   *)
(* rows became due.  Of leaseUntil only whether it has passed.             *)
(***************************************************************************)
EXTENDS OperationCounters, FiniteSets

CONSTANTS
    Job,            \* job ids; version 7 UUIDs, so ordered by creation
    Worker,
    Operation,      \* ids of worker operations
    None,           \* NULL
    WorkerOf,       \* the worker a job id is enqueued for
    PriorityOf,     \* lower runs first
    DedupeKeyOf,    \* the job's dedupe key, or None
    MaxAttempts,    \* the job's attempt budget
    Concurrency,    \* how many jobs of a worker may run at once
    CandidateLimit, \* how many pending rows one claim pass looks at (20 in the code)
    Batches,        \* the enqueue calls that are made, each a set of inputs
    AttemptBound    \* bound: an execution gives its job back below this attempt only

\* One task of an enqueue call.
Input == [ id : Job, operationId : Operation \cup {None},
           dependsOn : Job \cup {None}, delayed : BOOLEAN ]

ASSUME JobAssumption == Job \subseteq Nat /\ IsFiniteSet(Job)

ASSUME NoneAssumption == None \notin Job /\ None \notin Operation

ASSUME RequestAssumption ==
    /\ WorkerOf \in [Job -> Worker]
    /\ PriorityOf \in [Job -> Nat]
    /\ MaxAttempts \in [Job -> Nat \ {0}]

ASSUME LimitAssumption ==
    /\ Concurrency \in [Worker -> Nat]
    /\ CandidateLimit \in Nat \ {0}
    /\ AttemptBound \in Nat

\* Ids are generated by the caller, one per task.
ASSUME BatchAssumption ==
    /\ Batches \subseteq SUBSET Input
    /\ \A b \in Batches : \A x, y \in b : x.id = y.id => x = y

VARIABLES
    jobs,       \* worker_jobs
    ops,        \* worker_operations
    polled,     \* workers a poll has seen due work for and not yet claimed for
    orphanScan, \* rows an orphan sweep has read and not yet recovered
    expiredOps, \* operations a retention sweep has read and not yet deleted
    unsettled,  \* history: operations whose counters a resume has preset or
                \* bypassed and no reconcile has rebuilt since
    hidden      \* history: per operation, the cancelled jobs the last
                \* reconcile left out of its counters

vars == <<jobs, ops, polled, orphanScan, expiredOps, unsettled, hidden>>

JobRow ==
    [ status : RowStatus,
      operationId : Operation \cup {None},
      dependsOn : Job \cup {None},
      attempts : Nat,
      claimToken : Nat,        \* 0 is NULL
      leaseExpired : BOOLEAN,
      foreign : BOOLEAN,       \* runnerId is that of an earlier process
      dueAs : Nat,             \* 0: runAt is in the future; else the position
                               \* in which the row became due
      result : Nat ]           \* the claim whose outcome is stored, 0 is NULL

BlankJob ==
    [ status |-> "unused", operationId |-> None, dependsOn |-> None,
      attempts |-> 0, claimToken |-> 0, leaseExpired |-> FALSE,
      foreign |-> FALSE, dueAs |-> 0, result |-> 0 ]

\* What a sweep keeps of a row it read.
RowRead == [id : Job, attempts : Nat]
-----------------------------------------------------------------------------
Active == {"pending", "running"}

Present(row) == row.status \notin Missing

InState(js, st) == {j \in Job : js[j].status = st}

\* How many of the jobs S belong to operation o.
CountOf(js, S, o) == Cardinality({j \in S : js[j].operationId = o})

CountIn(js, st, o) == CountOf(js, InState(js, st), o)

\* The position after that of every active row among S: the intervals cover
\* 1..m, m the last position taken.
NextDue(js, S) ==
    1 + Cardinality(UNION {1..js[j].dueAs : j \in {k \in S : js[k].status \in Active}})

\* RELEASE_CLAIM, with the status that goes with it.
Release(row, status) ==
    [row EXCEPT !.status = status, !.claimToken = 0,
                !.leaseExpired = FALSE, !.foreign = FALSE]

\* UPDATE ... SET status WHERE id IN S.
Moved(js, S, status) ==
    [j \in Job |-> IF j \in S THEN Release(js[j], status) ELSE js[j]]

\* Faulty variant: the search stops after the first level.
DirectDependents(js, S) == {j \in InState(js, "pending") : js[j].dependsOn \in S}

\* What the level-by-level search of cascadeCancel finds: the pending jobs
\* that depend on one of S, directly or through other pending jobs.
PendingDependents(js, S) ==
    LET waiting == {j \in InState(js, "pending") : js[j].dependsOn # None}
        Closed(T) == \A j \in waiting : js[j].dependsOn \in S \cup T => j \in T
    IN  {j \in waiting : \A T \in SUBSET waiting : Closed(T) => j \in T}

CountPendingCancelled(js, os, S) ==
    [o \in Operation |-> MarkPendingJobsCancelled(os[o], CountOf(js, S, o))]

CountStarted(js, os, S) ==
    [o \in Operation |-> MarkJobStarted(os[o], CountOf(js, S, o))]

CountRetried(js, os, S) ==
    [o \in Operation |-> MarkJobRetried(os[o], CountOf(js, S, o))]

CountFinished(js, os, S, outcome) ==
    [o \in Operation |-> MarkJobFinished(os[o], outcome, CountOf(js, S, o))]

\* Cancels the pending jobs S and their dependents.
CancelPendingJobs(db, S) ==
    LET gone == S \cup PendingDependents(db.jobs, S)
    IN  [ jobs |-> Moved(db.jobs, gone, "cancelled"),
          ops  |-> CountPendingCancelled(db.jobs, db.ops, gone) ]

\* Running jobs S reach a terminal status; only "failed" cascades.
FinishJobs(db, S, outcome) ==
    LET done == [ jobs |-> Moved(db.jobs, S, outcome),
                  ops  |-> CountFinished(db.jobs, db.ops, S, outcome) ]
        dependents == PendingDependents(done.jobs, S)
    IN  IF outcome = "failed"
        THEN [ jobs |-> Moved(done.jobs, dependents, "cancelled"),
               ops  |-> CountPendingCancelled(done.jobs, done.ops, dependents) ]
        ELSE done

\* Running jobs S go back to the queue with their runAt unchanged.
RequeueJobs(db, S) ==
    [ jobs |-> Moved(db.jobs, S, "pending"),
      ops  |-> CountRetried(db.jobs, db.ops, S) ]

\* Faulty variant: the rows are taken to be as they were read.
RecoverAsRead(db, reads) ==
    LET retryable == {r.id : r \in {x \in reads : x.attempts < MaxAttempts[x.id]}}
        exhausted == {r.id : r \in {x \in reads : x.attempts >= MaxAttempts[x.id]}}
    IN  FinishJobs(RequeueJobs(db, retryable), exhausted, "failed")

\* recoverExpiredRows: both updates re-check that the row is still running;
\* the attempts compared with the budget are the ones that were read.
RecoverRows(db, reads) ==
    LET running   == {r \in reads : db.jobs[r.id].status = "running"}
        retryable == {r.id : r \in {x \in running : x.attempts < MaxAttempts[x.id]}}
        exhausted == {r.id : r \in {x \in running : x.attempts >= MaxAttempts[x.id]}}
    IN  FinishJobs(RequeueJobs(db, retryable), exhausted, "failed")

Db == [jobs |-> jobs, ops |-> ops]

Commit(after) == jobs' = after.jobs /\ ops' = after.ops
-----------------------------------------------------------------------------
(* Claiming *)

\* ORDER BY priority, runAt, createdAt.
Before(js, j, k) ==
    \/ PriorityOf[j] < PriorityOf[k]
    \/ PriorityOf[j] = PriorityOf[k] /\ js[j].dueAs < js[k].dueAs
    \/ PriorityOf[j] = PriorityOf[k] /\ js[j].dueAs = js[k].dueAs /\ j < k

\* WHERE worker, pending and runAt passed.
DuePending(js, w) ==
    {j \in InState(js, "pending") : WorkerOf[j] = w /\ js[j].dueAs > 0}

Preceding(js, S, j) == {k \in S : Before(js, k, j)}

\* Faulty variant: the window is as wide as the number of jobs asked for.
NarrowCandidates(js, w, max) ==
    LET due == DuePending(js, w)
    IN  {j \in due : Cardinality(Preceding(js, due, j)) < max}

\* LIMIT of the candidate SELECT: the largest of three numbers.
Candidates(js, w, max) ==
    LET due == DuePending(js, w)
    IN  {j \in due : \E limit \in {max, CandidateLimit, 2 * Concurrency[w]} :
                        Cardinality(Preceding(js, due, j)) < limit}

\* Faulty variant: only the request is looked at, not the status.
OperationCancelRequested(db, j) ==
    LET o == db.jobs[j].operationId
    IN  o # None /\ db.ops[o].cancelRequested

OperationCancelled(db, j) ==
    LET o == db.jobs[j].operationId
    IN  o # None /\ (db.ops[o].cancelRequested \/ db.ops[o].status = "cancelled")

ParentStatus(js, j) ==
    IF js[j].dependsOn = None THEN "deleted" ELSE js[js[j].dependsOn].status

MustCancel(db, j) ==
    \/ OperationCancelled(db, j)
    \/ ParentStatus(db.jobs, j) \in {"failed", "cancelled"}

\* Faulty variant: a parent that runs is taken for one that is done.
EagerClaimable(db, j) ==
    ~MustCancel(db, j) /\ ParentStatus(db.jobs, j) # "pending"

Claimable(db, j) ==
    ~MustCancel(db, j) /\ ParentStatus(db.jobs, j) \notin Active

\* One row's guarded UPDATE.
ClaimedRow(row) ==
    [row EXCEPT !.status = "running", !.attempts = row.attempts + 1,
                !.claimToken = row.attempts + 1,
                !.leaseExpired = FALSE, !.foreign = FALSE]

FreeSlots(js, w) ==
    Minus(Concurrency[w], Cardinality({j \in InState(js, "running") : WorkerOf[j] = w}))

\* Faulty variant: the caller's number is trusted, not the running count.
GrantedUpTo(js, ready, free, max) ==
    {j \in ready : Cardinality(Preceding(js, ready, j)) < max}

\* The loop over the candidates claims in order, up to "max" and up to the
\* free slots.
Granted(js, ready, free, max) ==
    {j \in ready : LET earlier == Cardinality(Preceding(js, ready, j))
                   IN  earlier < free /\ earlier < max}

\* Faulty variant: a candidate that cannot be claimed is passed over.
PassedOver(js, found, ready, free, max) == {}

\* It ends at "max" claims, and at the first claimable candidate it has no
\* slot for: one that must be cancelled is cancelled only if it gets there.
Reached(js, found, ready, free, max) ==
    {j \in found : LET earlier == Cardinality(Preceding(js, ready, j))
                   IN  earlier <= free /\ earlier < max}

ClaimCandidates(db, w, max) ==
    LET js      == db.jobs
        free    == FreeSlots(js, w)
        found   == Candidates(js, w, max)
        ready   == {j \in found : Claimable(db, j)}
        claimed == Granted(js, ready, free, max)
        dropped == {j \in Reached(js, found, ready, free, max) : MustCancel(db, j)}
        after   == CancelPendingJobs(db, dropped)
    IN  [ jobs |-> [j \in Job |-> IF j \in claimed THEN ClaimedRow(js[j]) ELSE after.jobs[j]],
          ops  |-> CountStarted(js, after.ops, claimed) ]

\* Rows whose lease has passed, as the claim transaction reads them.
Reads(js, S) == {[id |-> j, attempts |-> js[j].attempts] : j \in S}

ExpiredLeases(w) ==
    {j \in InState(jobs, "running") : WorkerOf[j] = w /\ jobs[j].leaseExpired}

\* claimNextBatch looks for a due row before it opens its transaction, and
\* gives up, lease recovery included, if it finds none.
PollDue(w) ==
    /\ DuePending(jobs, w) # {}
    /\ polled' = polled \cup {w}
    /\ UNCHANGED <<jobs, ops, orphanScan, expiredOps, unsettled, hidden>>

\* Its transaction.  "spared" are the expired rows among the caller's
\* excludeActiveIds.
ClaimNextBatch(w, max, spared) ==
    /\ w \in polled
    /\ polled' = polled \ {w}
    /\ LET recovered == RecoverRows(Db, Reads(jobs, ExpiredLeases(w) \ spared))
       IN  Commit(ClaimCandidates(recovered, w, max))
    /\ UNCHANGED <<orphanScan, expiredOps, unsettled, hidden>>
-----------------------------------------------------------------------------
(* Outcomes of an execution.  "token" is the claim the execution holds;    *)
(* runnerId and claimToken must both be the row's.                         *)

\* Faulty variant: any execution of this process may report.
HoldsAnyClaim(j, token) ==
    jobs[j].status = "running" /\ ~jobs[j].foreign

HoldsClaim(j, token) ==
    /\ jobs[j].status = "running"
    /\ ~jobs[j].foreign
    /\ jobs[j].claimToken = token

WithJob(db, j, row) == [db EXCEPT !.jobs[j] = row]

Complete(j, token) ==
    /\ HoldsClaim(j, token)
    /\ LET after == FinishJobs(Db, {j}, "completed")
       IN  Commit(WithJob(after, j, [after.jobs[j] EXCEPT !.result = token]))
    /\ UNCHANGED <<polled, orphanScan, expiredOps, unsettled, hidden>>

Fail(j, token) ==
    /\ HoldsClaim(j, token)
    /\ Commit(FinishJobs(Db, {j}, "failed"))
    /\ UNCHANGED <<polled, orphanScan, expiredOps, unsettled, hidden>>

\* "delayed": the backoff puts runAt in the future.  Without one this is
\* requeueRunning, which has no regard for the attempt budget.
Retry(j, token, delayed) ==
    /\ HoldsClaim(j, token)
    /\ jobs[j].attempts < AttemptBound
    /\ LET after == RequeueJobs(Db, {j})
           due   == IF delayed THEN 0 ELSE NextDue(jobs, Job \ {j})
       IN  Commit(WithJob(after, j, [after.jobs[j] EXCEPT !.dueAs = due, !.result = 0]))
    /\ UNCHANGED <<polled, orphanScan, expiredOps, unsettled, hidden>>
-----------------------------------------------------------------------------
(* Cancellation *)

CancelPending(j) ==
    /\ jobs[j].status = "pending"
    /\ Commit(CancelPendingJobs(Db, {j}))
    /\ UNCHANGED <<polled, orphanScan, expiredOps, unsettled, hidden>>

\* Without a claim token, as the services call it; dependents are left to
\* the next claim pass.
CancelRunning(j) ==
    /\ jobs[j].status = "running"
    /\ Commit(FinishJobs(Db, {j}, "cancelled"))
    /\ UNCHANGED <<polled, orphanScan, expiredOps, unsettled, hidden>>

CancelPendingByOperation(o) ==
    LET S == {j \in InState(jobs, "pending") : jobs[j].operationId = o}
    IN  /\ S # {}
        /\ Commit(CancelPendingJobs(Db, S))
        /\ UNCHANGED <<polled, orphanScan, expiredOps, unsettled, hidden>>

CancelAllPending(w) ==
    LET S == {j \in InState(jobs, "pending") : WorkerOf[j] = w}
    IN  /\ S # {}
        /\ Commit(CancelPendingJobs(Db, S))
        /\ UNCHANGED <<polled, orphanScan, expiredOps, unsettled, hidden>>

CancelAllRunning(w) ==
    LET S == {j \in InState(jobs, "running") : WorkerOf[j] = w}
    IN  /\ S # {}
        /\ Commit(FinishJobs(Db, S, "cancelled"))
        /\ UNCHANGED <<polled, orphanScan, expiredOps, unsettled, hidden>>
-----------------------------------------------------------------------------
(* Enqueue *)

\* validateBatchRelations and assertDependencyValid.
ValidInput(in) ==
    /\ jobs[in.id].status = "unused"
    /\ in.operationId # None =>
         Present(ops[in.operationId]) /\ ~ops[in.operationId].cancelRequested
    /\ in.dependsOn # None =>
         /\ in.operationId # None
         /\ Present(jobs[in.dependsOn])
         /\ jobs[in.dependsOn].operationId = in.operationId

SameDedupe(j, k) ==
    DedupeKeyOf[j] # None /\ DedupeKeyOf[j] = DedupeKeyOf[k] /\ WorkerOf[j] = WorkerOf[k]

\* Faulty variant: only a pending twin is in the way.
InsertedBesideRunning(batch) ==
    {in \in batch : \A k \in Job :
        SameDedupe(in.id, k) =>
            /\ jobs[k].status # "pending"
            /\ ~(k < in.id /\ \E x \in batch : x.id = k)}

\* INSERT ... ON CONFLICT DO NOTHING under the partial unique index: a row
\* is skipped for an active twin, in the table or earlier in the batch.
Inserted(batch) ==
    {in \in batch : \A k \in Job :
        SameDedupe(in.id, k) =>
            /\ jobs[k].status \notin Active
            /\ ~(k < in.id /\ \E x \in batch : x.id = k)}

InsertedRow(in, due) ==
    [ status |-> "pending", operationId |-> in.operationId, dependsOn |-> in.dependsOn,
      attempts |-> 0, claimToken |-> 0, leaseExpired |-> FALSE, foreign |-> FALSE,
      dueAs |-> IF in.delayed THEN 0 ELSE due, result |-> 0 ]

\* "counted" is countOperationTotals: a resume has preset the total.
EnqueueMany(batch, counted) ==
    /\ \A in \in batch : ValidInput(in)
    /\ LET new  == Inserted(batch)
           due  == NextDue(jobs, Job)
           into == {in.operationId : in \in new} \ {None}
           In(o) == Cardinality({in \in new : in.operationId = o})
       IN  /\ jobs' = [j \in Job |->
                         IF \E in \in new : in.id = j
                         THEN InsertedRow(CHOOSE in \in new : in.id = j, due)
                         ELSE jobs[j]]
           /\ ops' = IF counted
                     THEN [o \in Operation |-> IncrementTotalItems(ops[o], In(o))]
                     ELSE ops
           /\ unsettled' = IF counted THEN unsettled ELSE unsettled \cup into
    /\ UNCHANGED <<polled, orphanScan, expiredOps, hidden>>
-----------------------------------------------------------------------------
(* Operations *)

\* The id is new: no row carries it.
CreateOperation(o, withError) ==
    /\ ops[o].status = "unused"
    /\ ops' = [ops EXCEPT ![o] = CreatedRow(withError)]
    /\ hidden' = [hidden EXCEPT ![o] = 0]
    /\ UNCHANGED <<jobs, polled, orphanScan, expiredOps, unsettled>>

\* The foreign key of worker_jobs is ON DELETE SET NULL.
Detached(js, o) ==
    [j \in Job |-> IF js[j].operationId = o
                   THEN [js[j] EXCEPT !.operationId = None] ELSE js[j]]

RemoveOperation(o) ==
    /\ Present(ops[o])
    /\ ops' = [ops EXCEPT ![o] = BlankRow("deleted")]
    /\ jobs' = Detached(jobs, o)
    /\ UNCHANGED <<polled, orphanScan, expiredOps, unsettled, hidden>>

CancelRequested(o) ==
    /\ Present(ops[o])
    /\ ops' = [ops EXCEPT ![o] = RequestCancel(ops[o])]
    /\ UNCHANGED <<jobs, polled, orphanScan, expiredOps, unsettled, hidden>>

\* The total is the cancelled count an admin resume read before.
Resume(o, total) ==
    /\ Present(ops[o])
    /\ ops' = [ops EXCEPT ![o] = MarkResumed(total)]
    /\ unsettled' = unsettled \cup {o}
    /\ UNCHANGED <<jobs, polled, orphanScan, expiredOps, hidden>>

ReconcileFromJobs(o) ==
    LET In(st) == CountIn(jobs, st, o)
    IN  /\ Present(ops[o])
        /\ ops' = [ops EXCEPT ![o] = Reconciled(ops[o], In("pending"), In("running"),
                                                In("completed"), In("failed"))]
        /\ unsettled' = unsettled \ {o}
        /\ hidden' = [hidden EXCEPT ![o] = In("cancelled")]
        /\ UNCHANGED <<jobs, polled, orphanScan, expiredOps>>
-----------------------------------------------------------------------------
(* Recovery, retention, time *)

\* Running rows whose lease has passed, or that an earlier process claimed.
Orphans == {j \in InState(jobs, "running") : jobs[j].leaseExpired \/ jobs[j].foreign}

\* The sweep's SELECT.  "spared" are the matching rows it does not return:
\* those of excludeActiveIds, and foreign ones still within their grace.
OrphanRead(spared) ==
    /\ orphanScan = {}
    /\ orphanScan' = Reads(jobs, Orphans \ spared)
    /\ UNCHANGED <<jobs, ops, polled, expiredOps, unsettled, hidden>>

\* The sweep's transaction, over the rows it read.
RecoverOrphans ==
    /\ orphanScan # {}
    /\ Commit(RecoverRows(Db, orphanScan))
    /\ orphanScan' = {}
    /\ UNCHANGED <<polled, expiredOps, unsettled, hidden>>

\* A retention sweep or a history purge reads a terminal operation; its age
\* is not modelled.
ExpiredRead(o) ==
    /\ ops[o].status \in TerminalStatus
    /\ o \notin expiredOps
    /\ expiredOps' = expiredOps \cup {o}
    /\ UNCHANGED <<jobs, ops, polled, orphanScan, unsettled, hidden>>

\* Faulty variant: the foreign key is not enforced.
DeletedAlone(js, S) ==
    [j \in Job |-> IF j \in S THEN [BlankJob EXCEPT !.status = "deleted"] ELSE js[j]]

\* DELETE of the rows S; the foreign key clears what referred to them.
Deleted(js, S) ==
    [j \in Job |->
        IF j \in S THEN [BlankJob EXCEPT !.status = "deleted"]
        ELSE IF js[j].dependsOn \in S THEN [js[j] EXCEPT !.dependsOn = None]
        ELSE js[j]]

\* The sweep's transaction: jobs first, then the operations it read.
DeleteExpired ==
    /\ expiredOps # {}
    /\ jobs' = Deleted(jobs, {j \in Job : jobs[j].operationId \in expiredOps})
    /\ ops' = [o \in Operation |-> IF o \in expiredOps THEN BlankRow("deleted") ELSE ops[o]]
    /\ expiredOps' = {}
    /\ UNCHANGED <<polled, orphanScan, unsettled, hidden>>

\* purgeTerminalJobs, trim and trimMany delete finished jobs that belong to
\* no operation; which of them is a question of age and count.
PurgeStandalone(j) ==
    /\ jobs[j].status \in TerminalStatus
    /\ jobs[j].operationId = None
    /\ jobs' = Deleted(jobs, {j})
    /\ UNCHANGED <<ops, polled, orphanScan, expiredOps, unsettled, hidden>>

\* A backoff ends: runAt passes.
BecomeDue(j) ==
    /\ jobs[j].status = "pending"
    /\ jobs[j].dueAs = 0
    /\ jobs' = [jobs EXCEPT ![j].dueAs = NextDue(jobs, Job)]
    /\ UNCHANGED <<ops, polled, orphanScan, expiredOps, unsettled, hidden>>

LeaseExpires(j) ==
    /\ jobs[j].status = "running"
    /\ ~jobs[j].leaseExpired
    /\ jobs' = [jobs EXCEPT ![j].leaseExpired = TRUE]
    /\ UNCHANGED <<ops, polled, orphanScan, expiredOps, unsettled, hidden>>

\* The process dies and a new one, with a new runner id, opens the file:
\* what sweeps had read is lost, and so is the claim of every running row.
Restart ==
    /\ jobs' = [j \in Job |-> IF jobs[j].status = "running"
                             THEN [jobs[j] EXCEPT !.foreign = TRUE] ELSE jobs[j]]
    /\ polled' = {}
    /\ orphanScan' = {}
    /\ expiredOps' = {}
    /\ UNCHANGED <<ops, unsettled, hidden>>
-----------------------------------------------------------------------------
Init ==
    /\ jobs = [j \in Job |-> BlankJob]
    /\ ops = [o \in Operation |-> BlankRow("unused")]
    /\ polled = {}
    /\ orphanScan = {}
    /\ expiredOps = {}
    /\ unsettled = {}
    /\ hidden = [o \in Operation |-> 0]

Tokens(j) == 1..jobs[j].attempts

Outcome ==
    \E j \in Job : \E token \in Tokens(j) :
        \/ Complete(j, token)
        \/ Fail(j, token)
        \/ \E delayed \in BOOLEAN : Retry(j, token, delayed)

ClaimPass(w) ==
    \E max \in 1..Concurrency[w] : \E spared \in SUBSET ExpiredLeases(w) :
        ClaimNextBatch(w, max, spared)

Claim ==
    \E w \in Worker :
        \/ PollDue(w)
        \/ ClaimPass(w)

Cancel ==
    \/ \E j \in Job : CancelPending(j) \/ CancelRunning(j)
    \/ \E o \in Operation : CancelPendingByOperation(o)
    \/ \E w \in Worker : CancelAllPending(w) \/ CancelAllRunning(w)

Enqueue ==
    \E batch \in Batches, counted \in BOOLEAN : EnqueueMany(batch, counted)

ChangeOperation ==
    \E o \in Operation :
        \/ \E withError \in BOOLEAN : CreateOperation(o, withError)
        \/ RemoveOperation(o)
        \/ CancelRequested(o)
        \/ \E total \in 1..CountIn(jobs, "cancelled", o) : Resume(o, total)
        \/ ReconcileFromJobs(o)

Sweep ==
    \/ \E spared \in SUBSET InState(jobs, "running") : OrphanRead(spared)
    \/ RecoverOrphans
    \/ \E o \in Operation : ExpiredRead(o)
    \/ DeleteExpired
    \/ \E j \in Job : PurgeStandalone(j)

Time ==
    \/ \E j \in Job : BecomeDue(j) \/ LeaseExpires(j)
    \/ Restart

Next == Enqueue \/ Claim \/ Outcome \/ Cancel \/ ChangeOperation \/ Sweep \/ Time

Spec == Init /\ [][Next]_vars

\* Weak fairness of a poll, of the end of an execution (at the latest its
\* timeout aborts it), of the end of a backoff and of the watchdog's sweep.
\* Each of these actions disables itself, so that weak fairness says no more
\* than that it is disabled again and again.
WeakFairness ==
    /\ \A w \in Worker : []<>~(w \notin polled /\ DuePending(jobs, w) # {})
    /\ \A j \in Job : /\ []<>~(jobs[j].status = "running" /\ ~jobs[j].foreign)
                      /\ []<>~(jobs[j].status = "pending" /\ jobs[j].dueAs = 0)
    /\ []<>~(orphanScan = {} /\ Orphans # {})

\* Strong fairness where a restart discards what was read: the process is not
\* killed between every read and the transaction that follows it.
StrongFairness ==
    /\ \A w \in Worker : []<>(w \in polled) => []<><<ClaimPass(w)>>_vars
    /\ []<>(orphanScan # {}) => []<><<RecoverOrphans>>_vars

Fairness == WeakFairness /\ StrongFairness

FairSpec == Spec /\ Fairness
-----------------------------------------------------------------------------
TypeOK ==
    /\ jobs \in [Job -> JobRow]
    /\ ops \in [Operation -> OperationRow]
    /\ polled \subseteq Worker
    /\ orphanScan \subseteq RowRead
    /\ expiredOps \subseteq Operation
    /\ unsettled \subseteq Operation
    /\ hidden \in [Operation -> Nat]

\* The numbers of operation o's jobs by status, and its counters.  "left" are
\* the cancelled jobs that the counters have no part in.
RowsCounted(db, o, left) ==
    LET op == db.ops[o]
    IN  /\ op.pending = CountIn(db.jobs, "pending", o)
        /\ op.running = CountIn(db.jobs, "running", o)
        /\ op.completed = CountIn(db.jobs, "completed", o)
        /\ op.failed = CountIn(db.jobs, "failed", o)
        /\ op.cancelled + left = CountIn(db.jobs, "cancelled", o)
        /\ op.total = op.pending + op.running + Finished(op)

\* The counters, which every writer maintains with relative updates (and with
\* MAX(.., 0) clamps that would hide a drift), equal the numbers of rows they
\* count, whenever no resume of the operation is under way.
CountersMatchRows ==
    \A o \in Operation : Present(ops[o]) /\ o \notin unsettled =>
        RowsCounted(Db, o, hidden[o])

\* An operation is not reported finished while work is left, and not left
\* open when none is: nothing would ever close it.
StatusMatchesRows ==
    \A o \in Operation : Present(ops[o]) /\ o \notin unsettled =>
        LET idle == CountIn(jobs, "pending", o) + CountIn(jobs, "running", o) = 0
        IN  /\ ops[o].status \in {"completed", "failed"} => idle
            /\ ops[o].status = "completed" => ops[o].failed + ops[o].cancelled = 0
            /\ idle /\ ops[o].total > 0 => ops[o].status \in TerminalStatus
            /\ CountIn(jobs, "running", o) > 0 => ops[o].status \in {"running", "cancelled"}

\* A job starts only once the job it depends on has completed (or was
\* deleted), and no recovery, retry or cancellation undoes that.
DependencyRespected ==
    \A j \in Job : jobs[j].status \in {"running", "completed", "failed"} =>
        ParentStatus(jobs, j) \in {"completed", "deleted"}

RunningFor(w) == Cardinality({j \in InState(jobs, "running") : WorkerOf[j] = w})

\* The claim transactions of a worker never hand out more jobs than its
\* concurrency, whatever was recovered or requeued in between.
ConcurrencyRespected ==
    \A w \in Worker : RunningFor(w) <= Concurrency[w]

\* What the partial unique index promises, over every way a row becomes
\* active: inserted, retried, recovered.
OneActivePerDedupeKey ==
    \A j, k \in Job : j # k /\ SameDedupe(j, k) =>
        ~(jobs[j].status \in Active /\ jobs[k].status \in Active)

\* The outcome stored on a completed job is that of its last claim: an
\* execution whose claim was recovered in the meantime cannot decide it.
ResultOfLastClaim ==
    \A j \in Job : jobs[j].status = "completed" => jobs[j].result = jobs[j].attempts

\* A finished job stays as it is until it is deleted: nothing resurrects it.
FinishedJobsStay ==
    [][\A j \in Job : jobs[j].status \in TerminalStatus =>
          \/ jobs'[j].status = "deleted"
          \/ /\ jobs'[j].status = jobs[j].status
             /\ jobs'[j].attempts = jobs[j].attempts
             /\ jobs'[j].result = jobs[j].result]_vars

\* The transaction that fails a job, or cancels it before it started, leaves
\* no pending job behind it, however long or branched the chain of dependents.
CascadeReachesDependents ==
    [][\A j \in Job :
          LET p == jobs[j].dependsOn
          IN  /\ jobs[j].status = "pending"
              /\ p # None
              /\ \/ jobs[p].status = "running" /\ jobs'[p].status = "failed"
                 \/ jobs[p].status = "pending" /\ jobs'[p].status = "cancelled"
              => jobs'[j].status # "pending"]_vars

\* A job of a cancelled operation never starts, also when the claim and the
\* cancellation overlap or when the claim itself requeues the job first.
CancelledNeverStarts ==
    [][\A j \in Job, o \in Operation :
          jobs[j].attempts < jobs'[j].attempts /\ jobs[j].operationId = o =>
              ~ops[o].cancelRequested /\ ops[o].status # "cancelled"]_vars

\* A retention sweep or a purge, which decide by an earlier read what to
\* delete, delete no operation that is pending or running, nor its jobs.
\* Comment in retention.writer.ts: a live operation "must never lose its row
\* and jobs while pending/running".
LiveOperationKept ==
    [][DeleteExpired => \A o \in Operation : ops[o].status \in Active => Present(ops'[o])]_vars

Runnable(j) ==
    /\ jobs[j].status = "pending"
    /\ jobs[j].dueAs > 0
    /\ Claimable(Db, j)

Claims == Cardinality({j \in Job : jobs[j].attempts < jobs'[j].attempts})

\* Of the rows that wait for their worker or run, fewer than the candidate
\* SELECT always reads are due before this one.
InWindow(j) ==
    LET due == {k \in Job : /\ jobs[k].status \in Active
                            /\ WorkerOf[k] = WorkerOf[j]
                            /\ jobs[k].dueAs > 0}
    IN  Cardinality(Preceding(jobs, due, j)) < CandidateLimit

\* A claim pass leaves a runnable job of its worker unclaimed only if it has
\* reached the number asked for or the worker's concurrency, or if the job
\* is too far back to be read: jobs that wait for another do not hide it.
\* Comment in claims.writer.ts: it "claims every runnable job for one worker
\* in a single transaction, up to max".
ClaimTakesEveryRunnable ==
    [][\A w \in Worker : \A max \in 1..Concurrency[w] : \A spared \in SUBSET ExpiredLeases(w) :
          ClaimNextBatch(w, max, spared) =>
              \/ Claims >= max
              \/ RunningFor(w)' >= Concurrency[w]
              \/ \A j \in Job : WorkerOf[j] = w /\ InWindow(j) => ~Runnable(j)']_vars

\* A job that could run is claimed at some time, or stops being runnable: no
\* queue position, lost lease or crash leaves it behind for ever.
RunnableIsClaimed == \A j \in Job : Runnable(j) ~> ~Runnable(j)

\* A pending job that may not run any more, because its operation was
\* cancelled or its parent did not complete, does not stay pending for ever:
\* cancelling a running parent leaves its dependents to the claim passes.
BlockedIsCancelled ==
    \A j \in Job : (jobs[j].status = "pending" /\ MustCancel(Db, j))
                    ~> ~(jobs[j].status = "pending" /\ MustCancel(Db, j))

\* The part of the tables that JobLifecycle speaks of.
Promised ==
    [j \in Job |-> [ status |-> jobs[j].status, parent |-> jobs[j].dependsOn,
                     claims |-> jobs[j].attempts, result |-> jobs[j].result ]]

Lifecycle == INSTANCE JobLifecycle WITH life <- Promised

\* The queue implements the life of a job: whatever transactions overlap,
\* every job only ever takes the steps its submitter was promised.
JobsKeepPromise == Lifecycle!Spec
=============================================================================
