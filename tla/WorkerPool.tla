----------------------------- MODULE WorkerPool -----------------------------
(***************************************************************************)
(* The process that executes jobs: the execution pool, the polls that      *)
(* claim for it, the orphan sweep, and what cancels or stops executions    *)
(* (workers/core/worker-pool.service.ts, worker-polling.service.ts,        *)
(* worker-watchdog.service.ts, workers/worker.service.ts).                 *)
(*                                                                         *)
(* Everything but the rows is in one thread: an action is what happens     *)
(* between two awaits, or one committed transaction.  Of the rows this     *)
(* module has what the pool depends on; JobQueue has all of them.  When a  *)
(* poll begins is the subject of PollLoop: here one may begin whenever     *)
(* none is in flight.                                                      *)
(*                                                                         *)
(* Time is left to chance: a timer that is armed may fire, a lease may     *)
(* have passed, a retry's delay is over at once.                           *)
(***************************************************************************)
EXTENDS Integers, FiniteSets

CONSTANTS
    PoolJob, PoolWorker,
    NoWorker,
    Poll,           \* bound: how many polls may be in flight at once
    PoolWorkerOf,   \* the worker a job is for
    PoolMaxAttempts, \* the attempt budget of a job
    PoolConcurrency, \* of a worker
    PoolMax,        \* executions at a time, over all workers
    DisturbanceBound \* bound on cancellations, rescues, shutdowns, removals of
                    \* workers, extended timeouts, failed writes, stalls, crashes

ASSUME PoolAssumption ==
    /\ IsFiniteSet(PoolJob)
    /\ NoWorker \notin PoolWorker
    /\ PoolWorkerOf \in [PoolJob -> PoolWorker]
    /\ PoolMaxAttempts \in [PoolJob -> Nat \ {0}]
    /\ PoolConcurrency \in [PoolWorker -> Nat]
    /\ PoolMax \in Nat \ {0}
    /\ DisturbanceBound \in Nat

VARIABLES
    rows,       \* worker_jobs
    execs,      \* executions whose handler or writes are not over
    held,       \* the map "running": the attempt that holds the job's slot, or 0
    count,      \* runningCountByWorker
    polls,      \* poll() calls in flight
    isPolling,  \* the in-flight guard
    up,         \* the engine has not been shut down
    sweep,      \* rows an orphan sweep has read and not yet recovered
    registered, \* the registry
    leaving,    \* where the removal of a worker is
    awaited,    \* executions a drain waits for
    cancelling, \* jobs a cancelItem has aborted and not yet cancelled
    disturbances, \* how many of DisturbanceBound have happened
    leaked,     \* history: slots whose entry in the map was overwritten
    lost,       \* history: claims whose last write failed
    overtaken   \* history: a guard was cleared while its poll was in flight

rowVars == <<rows, lost>>
slotVars == <<execs, held, count, leaked>>
pollVars == <<polls, isPolling, overtaken>>
workerVars == <<registered, leaving, awaited, cancelling>>
poolVars == <<rowVars, slotVars, pollVars, workerVars, up, sweep, disturbances>>

PoolFinished == {"completed", "failed", "cancelled"}

Row == [ status : {"unused", "pending", "running"} \cup PoolFinished,
         attempts : Nat,
         lapsed : BOOLEAN,   \* leaseUntil has passed
         foreign : BOOLEAN,  \* claimed by a process that is gone
         result : Nat ]      \* the attempt whose result is stored, 0 is none

Reason == {"none", "cancel", "rescue", "shutdown", "timeout"}

Write == {"none", "complete", "retry", "fail", "cancel", "requeue"}

\* An ActiveExecution.  Its claim token is the number of the attempt.
Execution ==
    [ job : PoolJob, token : Nat,
      phase : {"handler", "writing", "closing", "ended"},
      reason : Reason,   \* abortReason
      timer : BOOLEAN,   \* timeoutTimer armed
      grace : BOOLEAN,   \* graceTimer armed
      ok : BOOLEAN,      \* the handler returned and its success is being written
      write : Write,     \* what its end writes to the row
      final : Write ]    \* what finalizeAbandonedExecution is about to write

PoolClaim == [job : PoolJob, token : Nat]

PollState ==
    [ phase : {"idle", "listing", "claiming"},
      todo : SUBSET PoolWorker,        \* workers of the list not yet looked at
      active : SUBSET PoolJob,         \* the snapshot of getActiveJobIds
      worker : PoolWorker \cup {NoWorker}, \* the one it claims for,
      max : Nat ]                      \* and the number of jobs it asks for

IdlePoll == [ phase |-> "idle", todo |-> {}, active |-> {}, worker |-> NoWorker,
              max |-> 0 ]
-----------------------------------------------------------------------------
JobsOf(w) == {j \in PoolJob : PoolWorkerOf[j] = w}

HeldJobs(h) == {j \in PoolJob : h[j] # 0}

Holds(e) == held[e.job] = e.token

Update(e, f) == (execs \ {e}) \cup {f}

SetStatus(row, status) ==
    [row EXCEPT !.status = status, !.lapsed = FALSE, !.foreign = FALSE]

RunningOf(rs, w) == {j \in JobsOf(w) : rs[j].status = "running"}

PendingOf(rs, w) == {j \in JobsOf(w) : rs[j].status = "pending"}

Disturb == disturbances < DisturbanceBound /\ disturbances' = disturbances + 1

Smaller(a, b) == IF a < b THEN a ELSE b
-----------------------------------------------------------------------------
(* The repository's writers, as functions from rows to rows. *)

\* recoverExpiredRows: the rows are only checked to be running still.
Recovered(rs, reads) ==
    [j \in PoolJob |->
        IF rs[j].status = "running" /\ \E r \in reads : r.job = j
        THEN IF \E r \in reads : r.job = j /\ r.token < PoolMaxAttempts[j]
             THEN SetStatus(rs[j], "pending")
             ELSE SetStatus(rs[j], "failed")
        ELSE rs[j]]

PoolReads(rs, S) == {[job |-> j, token |-> rs[j].attempts] : j \in S}

Cancelled(rs, S) == [j \in PoolJob |-> IF j \in S THEN SetStatus(rs[j], "cancelled") ELSE rs[j]]

\* Faulty variant: the caller's list is not looked at.
RecoverAllLeases(rs, w, active) ==
    Recovered(rs, PoolReads(rs, {j \in RunningOf(rs, w) : rs[j].lapsed}))

\* claimNextBatch: recovery of expired leases, then claims up to what the
\* poll asked for and the running rows leave free.
RecoverLeases(rs, w, active) ==
    Recovered(rs, PoolReads(rs, {j \in RunningOf(rs, w) \ active : rs[j].lapsed}))

PoolClaimable(rs, w, max) ==
    LET free == Smaller(max, PoolConcurrency[w] - Cardinality(RunningOf(rs, w)))
    IN  {S \in SUBSET PendingOf(rs, w) :
            \/ Cardinality(S) = free
            \/ S = PendingOf(rs, w) /\ Cardinality(S) <= free
            \/ S = {} /\ free < 0}

ClaimedRows(rs, S) ==
    [j \in PoolJob |-> IF j \in S
                       THEN [rs[j] EXCEPT !.status = "running", !.attempts = rs[j].attempts + 1]
                       ELSE rs[j]]

\* Faulty variant: that the row still runs is taken from its claim token.
OwnsClaim(e) ==
    /\ ~rows[e.job].foreign
    /\ rows[e.job].attempts = e.token

\* The writers of an outcome are guarded by runner and claim token.
OwnsRow(e) ==
    /\ rows[e.job].status = "running"
    /\ ~rows[e.job].foreign
    /\ rows[e.job].attempts = e.token

Target(write) ==
    CASE write = "complete" -> "completed"
      [] write = "fail"     -> "failed"
      [] write = "cancel"   -> "cancelled"
      [] OTHER              -> "pending"

Written(e, write) ==
    IF OwnsRow(e)
    THEN [rows EXCEPT ![e.job] =
             [SetStatus(rows[e.job], Target(write)) EXCEPT
                 !.result = IF write = "complete" THEN e.token ELSE rows[e.job].result]]
    ELSE rows
-----------------------------------------------------------------------------
(* Polls *)

Free(h, c, w) ==
    Smaller(PoolConcurrency[w] - c[w], PoolMax - Cardinality(HeldJobs(h)))

\* Where the loop over the pending workers is at its next await: it passes
\* over workers that are gone or have no slot free.
LoopStates(h, c, todo, active) ==
    LET ready == {w \in todo \cap registered : Free(h, c, w) > 0}
    IN  IF ready = {} THEN {IdlePoll}
        ELSE {[ phase |-> "claiming", todo |-> rest \ {w}, active |-> active,
                worker |-> w, max |-> Free(h, c, w) ] :
                  w \in ready, rest \in {r \in SUBSET todo : ready \subseteq r}}

\* Faulty variant: the guard is left set.
SetPollOnly(p, state) ==
    /\ polls' = [polls EXCEPT ![p] = state]
    /\ UNCHANGED isPolling

\* A poll that ends clears the guard, whoever set it.
SetPoll(p, state) ==
    /\ polls' = [polls EXCEPT ![p] = state]
    /\ isPolling' = (isPolling /\ state.phase # "idle")

PollBegin(p) ==
    /\ up /\ ~isPolling
    /\ polls[p] = IdlePoll
    /\ Cardinality(HeldJobs(held)) < PoolMax
    /\ polls' = [polls EXCEPT ![p].phase = "listing"]
    /\ isPolling' = TRUE
    /\ UNCHANGED <<rowVars, slotVars, overtaken, workerVars, up, sweep, disturbances>>

\* The workers with due jobs are read; the snapshot of the held jobs is
\* taken once, here.
PollList(p) ==
    LET due == {w \in PoolWorker : PendingOf(rows, w) # {}}
    IN  /\ polls[p].phase = "listing"
        /\ \E s \in LoopStates(held, count, due, HeldJobs(held)) : SetPoll(p, s)
        /\ UNCHANGED <<rowVars, slotVars, overtaken, workerVars, up, sweep, disturbances>>

Started(j, token) ==
    [ job |-> j, token |-> token, phase |-> "handler", reason |-> "none",
      timer |-> TRUE, grace |-> FALSE, ok |-> FALSE, write |-> "none", final |-> "none" ]

\* start() of the jobs S: the map entry is set and the count raised whether or
\* not an earlier execution still holds the job.
Start(S, w) ==
    /\ execs' = execs \cup {Started(j, rows'[j].attempts) : j \in S}
    /\ held' = [j \in PoolJob |-> IF j \in S THEN rows'[j].attempts ELSE held[j]]
    /\ count' = [count EXCEPT ![w] = count[w] + Cardinality(S)]
    /\ leaked' = [leaked EXCEPT ![w] = leaked[w] + Cardinality(S \cap HeldJobs(held))]

\* The claim's transaction, unless no due row was seen before it, and the starts
\* of what it returned: no timer or request comes between them.
PollClaim(p) ==
    LET w     == polls[p].worker
        ready == RecoverLeases(rows, w, polls[p].active)
    IN  /\ polls[p].phase = "claiming"
        /\ \/ /\ PendingOf(rows, w) = {}
              /\ UNCHANGED <<rows, slotVars>>
           \/ \E S \in PoolClaimable(ready, w, polls[p].max) :
                 /\ rows' = ClaimedRows(ready, S)
                 /\ Start(S, w)
        /\ \E s \in LoopStates(held', count', polls[p].todo, polls[p].active) : SetPoll(p, s)
        /\ UNCHANGED <<lost, overtaken, workerVars, up, sweep, disturbances>>

\* A read or the transaction fails: the poll ends.
PollFails(p) ==
    /\ Disturb
    /\ polls[p].phase \in {"listing", "claiming"}
    /\ SetPoll(p, IdlePoll)
    /\ UNCHANGED <<rowVars, slotVars, overtaken, workerVars, up, sweep>>

\* recoverFromStall: the poll in flight is taken for dead.  It is not
\* stopped, and goes on when what it waits for comes.
RecoverFromStall ==
    /\ Disturb
    /\ up /\ isPolling
    /\ isPolling' = FALSE
    /\ overtaken' = TRUE
    /\ UNCHANGED <<rowVars, slotVars, polls, workerVars, up, sweep>>
-----------------------------------------------------------------------------
(* Executions *)

\* Faulty variant: the count is lowered whoever holds the entry.
ReleaseCount(e) ==
    LET w == PoolWorkerOf[e.job]
    IN  /\ held' = IF Holds(e) THEN [held EXCEPT ![e.job] = 0] ELSE held
        /\ count' = [count EXCEPT ![w] = count[w] - 1]

\* Faulty variant: an aborted execution leaves its slot to the grace timer.
ReleaseUnlessAborted(e) ==
    LET w == PoolWorkerOf[e.job]
    IN  IF Holds(e) /\ e.reason = "none"
        THEN /\ held' = [held EXCEPT ![e.job] = 0]
             /\ count' = [count EXCEPT ![w] = IF count[w] <= 1 THEN 0 ELSE count[w] - 1]
        ELSE UNCHANGED <<held, count>>

\* releaseSlot.
PoolRelease(e) ==
    LET w == PoolWorkerOf[e.job]
    IN  IF Holds(e)
        THEN /\ held' = [held EXCEPT ![e.job] = 0]
             /\ count' = [count EXCEPT ![w] = IF count[w] <= 1 THEN 0 ELSE count[w] - 1]
        ELSE UNCHANGED <<held, count>>

\* What the end of a handler leads to.
Decision(e, ok) ==
    CASE e.reason \in {"rescue", "shutdown"} -> "requeue"
      [] e.reason = "cancel"                 -> "cancel"
      [] ok                                  -> "complete"
      [] e.token < PoolMaxAttempts[e.job]    -> "retry"
      [] OTHER                               -> "fail"

HandlerEnds(e, ok) ==
    /\ e.phase = "handler"
    /\ execs' = Update(e, [e EXCEPT !.phase = "writing", !.ok = ok, !.write = Decision(e, ok)])
    /\ UNCHANGED <<rowVars, held, count, leaked, pollVars, workerVars, up, sweep, disturbances>>

Ended(e) == [e EXCEPT !.phase = "ended", !.timer = FALSE, !.grace = FALSE]

\* The finally block; the execution is over unless its abandonment is still
\* being written.
Finish(e) ==
    /\ PoolRelease(e)
    /\ execs' = IF e.final = "none" THEN execs \ {e} ELSE Update(e, Ended(e))

\* A job that goes back to the queue gives its slot back at once; otherwise
\* the schedule's record is written first.
OutcomeWritten(e) ==
    /\ e.phase = "writing"
    /\ rows' = Written(e, e.write)
    /\ IF Target(e.write) = "pending"
       THEN Finish(e)
       ELSE /\ execs' = Update(e, [e EXCEPT !.phase = "closing", !.ok = FALSE])
            /\ UNCHANGED <<held, count>>
    /\ UNCHANGED <<lost, leaked, pollVars, workerVars, up, sweep, disturbances>>

\* A write that fails after a success is handled as a failure of the task;
\* after a failure there is no second attempt.
OutcomeFails(e) ==
    /\ Disturb
    /\ e.phase = "writing"
    /\ IF e.ok
       THEN /\ execs' = Update(e, [e EXCEPT !.ok = FALSE, !.write = Decision(e, FALSE)])
            /\ UNCHANGED lost
       ELSE /\ execs' = Update(e, [e EXCEPT !.phase = "closing"])
            /\ lost' = lost \cup {[job |-> e.job, token |-> e.token]}
    /\ UNCHANGED <<rows, held, count, leaked, pollVars, workerVars, up, sweep>>

Close(e) ==
    /\ e.phase = "closing"
    /\ Finish(e)
    /\ UNCHANGED <<rowVars, leaked, pollVars, workerVars, up, sweep, disturbances>>

\* Faulty variant: an abort arms no grace timer.
AbortWithoutGrace(e, reason) ==
    [e EXCEPT !.reason = reason, !.timer = FALSE]

\* abortExecution.  A later abort overwrites the reason of an earlier one.
Aborted(e, reason) ==
    [e EXCEPT !.reason = reason, !.timer = FALSE, !.grace = TRUE]

AbortAll(S, reason) ==
    execs' = (execs \ S) \cup {Aborted(e, reason) : e \in S}

TimeoutFires(e) ==
    /\ e.timer
    /\ execs' = Update(e, Aborted(e, "timeout"))
    /\ UNCHANGED <<rowVars, held, count, leaked, pollVars, workerVars, up, sweep, disturbances>>

\* A handler may also extend its timeout after it has been aborted.
ExtendTimeout(e) ==
    /\ Disturb
    /\ e.phase = "handler"
    /\ Holds(e)
    /\ ~e.timer
    /\ execs' = Update(e, [e EXCEPT !.timer = TRUE])
    /\ UNCHANGED <<rowVars, held, count, leaked, pollVars, workerVars, up, sweep>>

\* Faulty variant: only a cancellation and a timeout are finalized.
FinalizationOfSome(reason) ==
    CASE reason = "cancel"  -> "cancel"
      [] reason = "timeout" -> "fail"
      [] OTHER              -> "none"

Finalization(reason) ==
    CASE reason = "cancel"  -> "cancel"
      [] reason = "timeout" -> "fail"
      [] OTHER              -> "requeue"

\* The handler ignored its abort: the slot is given back and the row is to
\* be finalized.
GraceFires(e) ==
    /\ e.grace
    /\ PoolRelease(e)
    /\ LET f == [e EXCEPT !.grace = FALSE]
       IN  execs' = Update(e, IF Holds(e) THEN [f EXCEPT !.final = Finalization(e.reason)] ELSE f)
    /\ UNCHANGED <<rowVars, leaked, pollVars, workerVars, up, sweep, disturbances>>

AfterFinal(e) ==
    execs' = IF e.phase = "ended" THEN execs \ {e}
             ELSE Update(e, [e EXCEPT !.final = "none"])

Finalize(e) ==
    /\ e.final # "none"
    /\ rows' = Written(e, e.final)
    /\ AfterFinal(e)
    /\ UNCHANGED <<lost, held, count, leaked, pollVars, workerVars, up, sweep, disturbances>>

FinalizeFails(e) ==
    /\ Disturb
    /\ e.final # "none"
    /\ lost' = lost \cup {[job |-> e.job, token |-> e.token]}
    /\ AfterFinal(e)
    /\ UNCHANGED <<rows, held, count, leaked, pollVars, workerVars, up, sweep>>
-----------------------------------------------------------------------------
(* What aborts executions *)

HeldExecs(S) == {e \in execs : e.job \in S /\ Holds(e)}

\* cancelItem of a running job: its execution is aborted, if there is one,
CancelItem(j) ==
    /\ Disturb
    /\ rows[j].status = "running"
    /\ j \notin cancelling
    /\ cancelling' = cancelling \cup {j}
    /\ AbortAll(HeldExecs({j}), "cancel")
    /\ UNCHANGED <<rowVars, held, count, leaked, pollVars, registered, leaving, awaited,
                   up, sweep>>

\* then its row is read again and cancelled, whatever claim it is under.
CancelRow(j) ==
    /\ j \in cancelling
    /\ cancelling' = cancelling \ {j}
    /\ rows' = IF rows[j].status \in {"pending", "running"} THEN Cancelled(rows, {j}) ELSE rows
    /\ UNCHANGED <<lost, slotVars, pollVars, registered, leaving, awaited, up, sweep, disturbances>>

\* Server rescue of an unprotected worker.
RequeueAllForWorker(w) ==
    LET S == HeldExecs(JobsOf(w))
    IN  /\ S # {}
        /\ Disturb
        /\ AbortAll(S, "rescue")
        /\ UNCHANGED <<rowVars, held, count, leaked, pollVars, workerVars, up, sweep>>

\* unregisterWorker, up to its first await,
Unregister(w) ==
    /\ Disturb
    /\ w \in registered
    /\ registered' = registered \ {w}
    /\ AbortAll(HeldExecs(JobsOf(w)), "cancel")
    /\ leaving' = [leaving EXCEPT ![w] = "cancelling"]
    /\ UNCHANGED <<rowVars, held, count, leaked, pollVars, awaited, cancelling, up, sweep>>

\* and the cancellation of its pending jobs.
UnregisterCancels(w) ==
    /\ leaving[w] = "cancelling"
    /\ rows' = Cancelled(rows, PendingOf(rows, w))
    /\ leaving' = [leaving EXCEPT ![w] = "out"]
    /\ UNCHANGED <<lost, slotVars, pollVars, registered, awaited, cancelling, up, sweep, disturbances>>

\* drainWorkers, of a plugin that is uninstalled: it waits for what is held
\* now,
DrainBegin(w) ==
    /\ leaving[w] = "out"
    /\ leaving' = [leaving EXCEPT ![w] = "draining"]
    /\ awaited' = [awaited EXCEPT ![w] =
                      {[job |-> e.job, token |-> e.token] : e \in HeldExecs(JobsOf(w))}]
    /\ UNCHANGED <<rowVars, slotVars, pollVars, registered, cancelling, up, sweep, disturbances>>

Settled(c) ==
    ~\E e \in execs : e.job = c.job /\ e.token = c.token /\ e.phase # "ended"

\* or for the time limit, and then cancels the pending jobs again.
DrainEnd(w) ==
    /\ leaving[w] = "draining"
    /\ rows' = Cancelled(rows, PendingOf(rows, w))
    /\ leaving' = [leaving EXCEPT ![w] = IF \A c \in awaited[w] : Settled(c)
                                         THEN "drained" ELSE "timedOut"]
    /\ awaited' = [awaited EXCEPT ![w] = {}]
    /\ UNCHANGED <<lost, slotVars, pollVars, registered, cancelling, up, sweep, disturbances>>

\* A plugin that is reloaded registers its workers again.
Register(w) ==
    /\ leaving[w] \in {"out", "drained", "timedOut"}
    /\ registered' = registered \cup {w}
    /\ leaving' = [leaving EXCEPT ![w] = "no"]
    /\ UNCHANGED <<rowVars, slotVars, pollVars, awaited, cancelling, up, sweep, disturbances>>

\* Polling and the watchdog stop and every execution is aborted.  A poll in
\* flight goes on.
Shutdown ==
    /\ Disturb
    /\ up
    /\ up' = FALSE
    /\ AbortAll(HeldExecs(PoolJob), "shutdown")
    /\ UNCHANGED <<rowVars, held, count, leaked, pollVars, workerVars, sweep>>
-----------------------------------------------------------------------------
(* The queue's side *)

PoolEnqueue(j) ==
    /\ rows[j].status = "unused"
    /\ PoolWorkerOf[j] \in registered
    /\ rows' = [rows EXCEPT ![j].status = "pending"]
    /\ UNCHANGED <<lost, slotVars, pollVars, workerVars, up, sweep, disturbances>>

LeaseLapses(j) ==
    /\ rows[j].status = "running"
    /\ ~rows[j].lapsed
    /\ rows' = [rows EXCEPT ![j].lapsed = TRUE]
    /\ UNCHANGED <<lost, slotVars, pollVars, workerVars, up, sweep, disturbances>>

\* Faulty variant: leases are left to the claims.
ForeignOrphans == {j \in PoolJob : rows[j].status = "running" /\ held[j] = 0 /\ rows[j].foreign}

\* The rows the sweep reads: none that is held; a foreign one may be spared
\* by its grace.
PoolOrphans == {j \in PoolJob : rows[j].status = "running" /\ held[j] = 0
                                /\ (rows[j].lapsed \/ rows[j].foreign)}

SweepRead ==
    /\ up /\ sweep = {}
    /\ \E spared \in SUBSET {j \in PoolOrphans : ~rows[j].lapsed} :
          sweep' = PoolReads(rows, PoolOrphans \ spared)
    /\ UNCHANGED <<rowVars, slotVars, pollVars, workerVars, up, disturbances>>

SweepCommit ==
    /\ sweep # {}
    /\ rows' = Recovered(rows, sweep)
    /\ sweep' = {}
    /\ UNCHANGED <<lost, slotVars, pollVars, workerVars, up, disturbances>>

\* The process ends, at any time, and a new one opens the file.
PoolRestart ==
    /\ Disturb
    /\ rows' = [j \in PoolJob |-> IF rows[j].status = "running"
                                 THEN [rows[j] EXCEPT !.foreign = TRUE] ELSE rows[j]]
    /\ execs' = {}
    /\ held' = [j \in PoolJob |-> 0]
    /\ count' = [w \in PoolWorker |-> 0]
    /\ leaked' = [w \in PoolWorker |-> 0]
    /\ polls' = [p \in Poll |-> IdlePoll]
    /\ isPolling' = FALSE
    /\ overtaken' = FALSE
    /\ up' = TRUE
    /\ sweep' = {}
    /\ registered' = PoolWorker
    /\ leaving' = [w \in PoolWorker |-> "no"]
    /\ awaited' = [w \in PoolWorker |-> {}]
    /\ cancelling' = {}
    /\ UNCHANGED lost
-----------------------------------------------------------------------------
PoolInit ==
    /\ rows = [j \in PoolJob |-> [ status |-> "unused", attempts |-> 0,
                                   lapsed |-> FALSE, foreign |-> FALSE, result |-> 0 ]]
    /\ execs = {}
    /\ held = [j \in PoolJob |-> 0]
    /\ count = [w \in PoolWorker |-> 0]
    /\ leaked = [w \in PoolWorker |-> 0]
    /\ polls = [p \in Poll |-> IdlePoll]
    /\ isPolling = FALSE
    /\ overtaken = FALSE
    /\ up = TRUE
    /\ sweep = {}
    /\ registered = PoolWorker
    /\ leaving = [w \in PoolWorker |-> "no"]
    /\ awaited = [w \in PoolWorker |-> {}]
    /\ cancelling = {}
    /\ disturbances = 0
    /\ lost = {}

PollStep(p) == PollList(p) \/ PollClaim(p)

ExecStep(e) ==
    \/ \E ok \in BOOLEAN : HandlerEnds(e, ok)
    \/ OutcomeWritten(e) \/ OutcomeFails(e) \/ Close(e)
    \/ TimeoutFires(e) \/ ExtendTimeout(e) \/ GraceFires(e)
    \/ Finalize(e) \/ FinalizeFails(e)

WorkerStep(w) ==
    \/ RequeueAllForWorker(w)
    \/ Unregister(w) \/ UnregisterCancels(w)
    \/ DrainBegin(w) \/ DrainEnd(w) \/ Register(w)

JobStep(j) == PoolEnqueue(j) \/ LeaseLapses(j) \/ CancelItem(j) \/ CancelRow(j)

PoolNext ==
    \/ \E p \in Poll : PollBegin(p) \/ PollStep(p) \/ PollFails(p)
    \/ \E e \in execs : ExecStep(e)
    \/ \E w \in PoolWorker : WorkerStep(w)
    \/ \E j \in PoolJob : JobStep(j)
    \/ RecoverFromStall
    \/ SweepRead \/ SweepCommit
    \/ Shutdown \/ PoolRestart

PoolSpec == PoolInit /\ [][PoolNext]_poolVars

\* A pending job is polled for (DueIsPolled of PollLoop).  Polls and writes
\* take their time but end; timers that are armed fire; a handler need not
\* end.  A grace timer is only put off by an abort that arms it again.
PoolFairness ==
    /\ \A p \in Poll :
          /\ WF_poolVars(PollBegin(p) /\ \E j \in PoolJob : rows[j].status = "pending")
          /\ WF_poolVars(PollStep(p))
    /\ \A j \in PoolJob : \A t \in 1..(2 * PoolMaxAttempts[j] + DisturbanceBound) :
          LET Of == {e \in execs : e.job = j /\ e.token = t}
          IN  /\ WF_poolVars(\E e \in Of : OutcomeWritten(e) \/ Close(e))
              /\ WF_poolVars(\E e \in Of : Finalize(e))
              /\ WF_poolVars(\E e \in Of : TimeoutFires(e))
              /\ WF_poolVars(\E e \in Of : GraceFires(e))
    /\ \A j \in PoolJob : WF_poolVars(LeaseLapses(j))
    /\ WF_poolVars(SweepRead) /\ WF_poolVars(SweepCommit)
-----------------------------------------------------------------------------
PoolTypeOK ==
    /\ rows \in [PoolJob -> Row]
    /\ execs \subseteq Execution
    /\ held \in [PoolJob -> Nat]
    /\ count \in [PoolWorker -> Nat]
    /\ polls \in [Poll -> PollState]
    /\ isPolling \in BOOLEAN
    /\ up \in BOOLEAN
    /\ sweep \subseteq PoolClaim
    /\ registered \subseteq PoolWorker
    /\ leaving \in [PoolWorker -> {"no", "cancelling", "out", "draining", "drained", "timedOut"}]
    /\ awaited \in [PoolWorker -> SUBSET PoolClaim]
    /\ cancelling \subseteq PoolJob
    /\ disturbances \in 0..DisturbanceBound
    /\ leaked \in [PoolWorker -> Nat]
    /\ lost \subseteq PoolClaim
    /\ overtaken \in BOOLEAN

\* A slot is held by an execution that is not over and will give it back,
\* and by one that no newer claim of the job has replaced.  The count per
\* worker, which is kept by hand beside the map, is the number of slots held
\* in it and of those that were overwritten: it is never too low, and no
\* execution gives back the slot of another (running, runningCountByWorker).
SlotsAreHeld ==
    /\ \A j \in PoolJob : held[j] # 0 =>
          \E e \in execs : e.job = j /\ Holds(e) /\ e.phase # "ended"
    /\ \A w \in PoolWorker :
          count[w] = Cardinality(HeldJobs(held) \cap JobsOf(w)) + leaked[w]

\* Every row that runs under this process has somebody behind it: the
\* execution that holds its slot, or the finalization of one that was
\* abandoned; unless the last write for the claim failed.
RowHasOwner ==
    \A j \in PoolJob : rows[j].status = "running" /\ ~rows[j].foreign =>
        LET claim == [job |-> j, token |-> rows[j].attempts]
        IN  \/ \E e \in execs : /\ e.job = j /\ e.token = rows[j].attempts
                                /\ Holds(e) \/ e.final # "none"
            \/ claim \in lost

\* The lease recovery of a claim takes no job whose slot is held, unless the
\* watchdog has let a second poll begin.  Comment in claims.writer.ts: "Jobs
\* still held by this process ... must NOT be recovered and re-claimed by a
\* parallel poll".
ClaimSparesHeld ==
    [][~overtaken => \A p \in Poll : PollClaim(p) =>
          \A j \in HeldJobs(held) :
              rows[j].status = "running" /\ rows[j].attempts = held[j] => rows'[j] = rows[j]]_poolVars

\* No job is started while an execution of it that was never aborted, and
\* whose handler is at work, holds its slot: that "would execute the task
\* twice" (claims.writer.ts).
NoSecondExecution ==
    \A d, e \in execs : d.job = e.job /\ d # e =>
        ~(d.phase = "handler" /\ e.phase = "handler" /\ d.reason = "none" /\ e.reason = "none")

\* Once the workers of a plugin have been drained, none of their handlers is
\* at work that was not told to stop (only one that ignores its abort may
\* outlive the time limit): the drain is there "so a straggling
\* handler cannot write" against data that is deleted next (worker.service.ts).
NoHandlerAfterDrain ==
    \A e \in execs :
        leaving[PoolWorkerOf[e.job]] \in {"drained", "timedOut"} /\ e.phase = "handler" =>
            e.reason # "none"

\* A slot is given back, by its handler or against its will, also when the
\* handler never ends, ignores its abort or extends its timeout after it.
SlotComesBack ==
    \A j \in PoolJob : \A t \in 1..(2 * PoolMaxAttempts[j] + DisturbanceBound) :
        held[j] = t ~> held[j] # t

\* A row does not run for ever: whatever writes fail and wherever the process
\* dies, its execution, a claim or the sweep moves it on.
RowMovesOn ==
    \A j \in PoolJob : rows[j].status = "running" ~> (rows[j].status # "running" \/ ~up)

\* A pending job is claimed, or cancelled, as long as its worker is there and
\* has lost no slot.
PendingIsClaimed ==
    \A j \in PoolJob : LET w == PoolWorkerOf[j] IN
        rows[j].status = "pending" ~>
            \/ rows[j].status # "pending" \/ ~up
            \/ w \notin registered \/ leaked[w] > 0

\* The part of the rows that JobLifecycle speaks of: an attempt is a claim, and
\* no job here waits for another.
PoolPromised ==
    [j \in PoolJob |-> [ status |-> rows[j].status, parent |-> NoWorker,
                         claims |-> rows[j].attempts, result |-> rows[j].result ]]

PoolLifecycle == INSTANCE JobLifecycle WITH
    Job <- PoolJob, None <- NoWorker, life <- PoolPromised

\* The executing process keeps the promise of the queue: whichever claims,
\* aborts, timers, finalizations, sweeps and crashes meet, a row only takes the
\* steps of a job's life, and a result is that of its last claim.
PoolKeepsPromise == PoolLifecycle!Spec
=============================================================================
