-------------------------- MODULE OperationControl --------------------------
(***************************************************************************)
(* The cancel and resume calls of an administrator on one operation        *)
(* (workers/core/worker-operations.service.ts): sequences of the queue's   *)
(* transactions, with an await before each, that overlap one another and   *)
(* the work of the queue.                                                  *)
(*                                                                         *)
(* Of the queue's own steps those are here that need neither a crash nor   *)
(* a lost lease; retention leaves operations alone that were just in use.  *)
(* Tasks have no dedupe key.                                               *)
(***************************************************************************)
EXTENDS JobQueue, FiniteSetsExt

CONSTANTS
    Call,       \* bound: calls under way at once
    PageSize    \* RESUME_PAGE_SIZE

VARIABLES
    call,       \* the calls under way
    taskOf      \* history: the job a row was first enqueued as

controlVars == <<vars, call, taskOf>>

NoCall == [op |-> None, at |-> "idle", total |-> 0, cursor |-> 0, more |-> FALSE,
           todo |-> {}]

Step ==
    {"idle", "request", "pending", "read", "running",
     "count", "mark", "page", "enqueue", "reconcile", "rollback"}

ControlTypeOK ==
    /\ TypeOK
    /\ call \in [Call -> [ op : Operation \cup {None}, at : Step, total : Nat,
                           cursor : Nat, more : BOOLEAN, todo : SUBSET Job ]]
    /\ taskOf \in [Job -> Job]

At(c, step) == call[c].at = step
Go(c, step) == call' = [call EXCEPT ![c].at = step]
End(c) == call' = [call EXCEPT ![c] = NoCall]

\* What a statement does that finds no row.
NoChange == UNCHANGED vars

JobsIn(o, status) == {j \in InState(jobs, status) : jobs[j].operationId = o}

\* The rows are cancelled if there are any.
CancelPendingRows(o) ==
    IF JobsIn(o, "pending") = {} THEN NoChange ELSE CancelPendingByOperation(o)
-----------------------------------------------------------------------------
(* cancel *)

CancelBegin(c, o) ==
    /\ call[c] = NoCall
    /\ ops[o].status \in Active
    /\ call' = [call EXCEPT ![c] = [NoCall EXCEPT !.op = o, !.at = "request"]]
    /\ UNCHANGED <<vars, taskOf>>

RequestFirst(c) ==
    /\ At(c, "request")
    /\ CancelRequested(call[c].op)
    /\ Go(c, "pending")
    /\ UNCHANGED taskOf

PendingNext(c) ==
    /\ At(c, "pending")
    /\ CancelPendingRows(call[c].op)
    /\ Go(c, "read")
    /\ UNCHANGED taskOf

\* Faulty variant: what runs is left to end by itself.
NoneToCancel(o) == {}

ToCancel(o) == JobsIn(o, "running")

ReadRunning(c) ==
    /\ At(c, "read")
    /\ LET found == ToCancel(call[c].op)
       IN  IF found = {} THEN End(c)
           ELSE call' = [call EXCEPT ![c].at = "running", ![c].todo = found]
    /\ UNCHANGED <<vars, taskOf>>

\* One of the updates that are made side by side.
CancelOne(c, j) ==
    /\ At(c, "running") /\ j \in call[c].todo
    /\ IF jobs[j].status = "running" THEN CancelRunning(j) ELSE NoChange
    /\ IF call[c].todo = {j} THEN End(c)
       ELSE call' = [call EXCEPT ![c].todo = @ \ {j}]
    /\ UNCHANGED taskOf
-----------------------------------------------------------------------------
(* resume *)

ResumeBegin(c, o) ==
    /\ call[c] = NoCall
    /\ ops[o].status = "cancelled"
    /\ call' = [call EXCEPT ![c] = [NoCall EXCEPT !.op = o, !.at = "count"]]
    /\ UNCHANGED <<vars, taskOf>>

ResumeCount(c) ==
    /\ At(c, "count")
    /\ LET total == CountIn(jobs, "cancelled", call[c].op)
       IN  IF total = 0 THEN End(c)
           ELSE call' = [call EXCEPT ![c].at = "mark", ![c].total = total]
    /\ UNCHANGED <<vars, taskOf>>

ResumeMark(c) ==
    /\ At(c, "mark")
    /\ Resume(call[c].op, call[c].total)
    /\ Go(c, "page")
    /\ UNCHANGED taskOf

\* The first n of S, by id.
FirstOf(S, n) == {j \in S : Cardinality({k \in S : k < j}) < n}

Page(o, cursor) == FirstOf({j \in JobsIn(o, "cancelled") : j > cursor}, PageSize)

ResumePage(c) ==
    /\ At(c, "page")
    /\ LET page == Page(call[c].op, call[c].cursor)
       IN  IF page = {} THEN Go(c, "reconcile")
           ELSE call' = [call EXCEPT ![c].at = "enqueue", ![c].todo = page,
                                     ![c].cursor = Max(page),
                                     ![c].more = Cardinality(page) = PageSize]
    /\ UNCHANGED <<vars, taskOf>>

\* The new rows, in the order of the old; ids are those of the same worker.
Copies(S, w) == FirstOf({j \in InState(jobs, "unused") : WorkerOf[j] = w}, Cardinality(S))

Rank(S, j) == Cardinality({k \in S : k < j})

\* The input has no dependency: a job that waited for another waits no more.
Copy(o, j) == [id |-> j, operationId |-> o, dependsOn |-> None, delayed |-> FALSE]

\* One worker's jobs of the page are dealt with.  A page that is not full is
\* the last.
NextGroup(c, group) ==
    call' = [call EXCEPT
        ![c].todo = @ \ group,
        ![c].at = IF call[c].todo # group THEN "enqueue"
                  ELSE IF call[c].more THEN "page" ELSE "reconcile"]

GroupOf(c, w) == {j \in call[c].todo : WorkerOf[j] = w}

\* Its enqueue is refused if the operation was cancelled meanwhile.
ResumeEnqueue(c, w) ==
    LET o     == call[c].op
        group == GroupOf(c, w)
        new   == Copies(group, w)
    IN  /\ At(c, "enqueue") /\ group # {}
        /\ IF ops[o].cancelRequested
           THEN Go(c, "rollback") /\ UNCHANGED <<vars, taskOf>>
           ELSE /\ Cardinality(new) = Cardinality(group)
                /\ EnqueueMany({Copy(o, j) : j \in new}, FALSE)
                /\ NextGroup(c, group)
                /\ taskOf' = [j \in Job |->
                       IF j \in new
                       THEN taskOf[CHOOSE k \in group : Rank(group, k) = Rank(new, j)]
                       ELSE taskOf[j]]

\* The worker's plugin is gone.
ResumeSkip(c, w) ==
    /\ At(c, "enqueue") /\ GroupOf(c, w) # {}
    /\ NextGroup(c, GroupOf(c, w))
    /\ UNCHANGED <<vars, taskOf>>

Rollback(c) ==
    /\ At(c, "rollback")
    /\ CancelPendingRows(call[c].op)
    /\ Go(c, "reconcile")
    /\ UNCHANGED taskOf

\* Faulty variant: the preset total is taken to be right.
TrustTotal(o) == NoChange

Rebuild(o) == ReconcileFromJobs(o)

ResumeReconcile(c) ==
    /\ At(c, "reconcile")
    /\ Rebuild(call[c].op)
    /\ End(c)
    /\ UNCHANGED taskOf
-----------------------------------------------------------------------------
Quiet == \A c \in Call : call[c] = NoCall

\* The operation is created and its tasks are enqueued; then they are worked on.
Begin ==
    \/ \E o \in Operation : CreateOperation(o, FALSE)
    \/ \E batch \in Batches : EnqueueMany(batch, TRUE) /\ jobs = [j \in Job |-> BlankJob]

\* A retry's delay is over at once.
Work ==
    \/ Claim
    \/ \E j \in Job : \E token \in Tokens(j) :
          Complete(j, token) \/ Fail(j, token) \/ Retry(j, token, FALSE)

ControlInit ==
    /\ Init
    /\ call = [c \in Call |-> NoCall]
    /\ taskOf = [j \in Job |-> j]

ControlNext ==
    \/ (Begin \/ Work) /\ UNCHANGED <<call, taskOf>>
    \/ \E c \in Call :
          \/ \E o \in Operation : CancelBegin(c, o) \/ ResumeBegin(c, o)
          \/ RequestFirst(c) \/ PendingNext(c) \/ ReadRunning(c)
          \/ \E j \in Job : CancelOne(c, j)
          \/ ResumeCount(c) \/ ResumeMark(c) \/ ResumePage(c)
          \/ \E w \in Worker : ResumeEnqueue(c, w) \/ ResumeSkip(c, w)
          \/ Rollback(c) \/ ResumeReconcile(c)

ControlSpec == ControlInit /\ [][ControlNext]_controlVars
-----------------------------------------------------------------------------
\* However the calls overlapped, once they are over the counters are those of
\* the rows again, and the operation is open exactly as long as it has work to
\* do: each resume presets a total that other calls may make wrong, and its
\* rebuild is the last word (resume, reconcileFromJobs).
CountersSettle ==
    Quiet => \A o \in Operation : Present(ops[o]) =>
        LET work == CountIn(jobs, "pending", o) + CountIn(jobs, "running", o)
        IN  /\ RowsCounted(Db, o, hidden[o])
            /\ ops[o].status \in Active /\ ops[o].total > 0 => work > 0
            /\ ops[o].status \in {"completed", "failed"} => work = 0

\* Once a cancel call is over and no resume has lifted it, nothing of the
\* operation runs: what a claim took between two of its steps is found by the
\* next (cancel: "Pending rows first ...").
CancelStopsAll ==
    Quiet => \A o \in Operation : ops[o].cancelRequested => JobsIn(o, "running") = {}

\* A task that is done is not done again: a resume brings back what was
\* cancelled, and of that not the rows a resume before it has replaced.  The
\* comment in reconcileFromJobs calls these "the pre-resume history"; resume
\* takes them for work.
DoneTasksStayDone ==
    [][\A j, k \in Job :
          jobs[j].status = "unused" /\ jobs'[j].status = "pending" /\ jobs[k].status = "completed"
              => taskOf'[j] # taskOf'[k]]_controlVars
=============================================================================
