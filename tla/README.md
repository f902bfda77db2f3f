# A formal model of the ReelVault server

ReelVault is a self-hosted media server: it scans libraries, fetches metadata,
transcodes and streams, downloads, runs plugins, and updates itself. Almost all
of its slow work goes through one mechanism, the durable job queue, and the rest
of the server leans on what that queue promises; what does not, above all, is a
stream that plays. This directory models the
server from its source, component by component, checks the models with TLC and
proves the central facts with TLAPS.

Paths below are relative to `src/src/` of the repository.

## Contents

| file | what it is |
| --- | --- |
| `OperationCounters.tla` | the counter and status arithmetic of a worker operation, one operator per `UPDATE` |
| `JobQueue.tla` | the transactions of `worker_jobs` and `worker_operations`, the specification, its properties and its fairness |
| `JobLifecycle.tla` | what the queue promises about one job, as an abstract specification; `JobQueue` and `WorkerPool` both implement it |
| `OperationControl.tla` | cancel and resume of an operation, as sequences of the queue's transactions |
| `WorkerPool.tla` | the executions of claimed jobs: slots, aborts, timers, polls that claim, the sweep, the removal of workers |
| `PollLoop.tla` | when the queue is polled: timers, in-flight guard, remembered wake-ups, recovery by the watchdog |
| `WriteLock.tla` | the lock behind which all writes of the process queue |
| `StreamingSessions.tla` | the runtime of streaming sessions: entities, slots, ffmpeg processes, and the asynchronous functions that race over them |
| `Downloads.tla` | offline downloads: rows, runs, files, promotion, cancellation, reconciliation |
| `UpdateInstall.tla` | installing an update and rolling it back, with failures and crashes between the renames |
| `JobQueueProofs.tla` | the arithmetic of the counters; types, counters and status of the queue |
| `JobLifecycleProofs.tla` | dependencies, claim tokens, finality of outcomes; that `JobQueue` implements `JobLifecycle`; concurrency, dedupe keys, cancelled operations, cascades, complete claim passes |
| `OperationControlProofs.tla` | cancel and resume calls over the queue: what they settle and stop, and that the queue keeps its properties under them |
| `WorkerPoolProofs.tla` | the safety properties of the pool; that `WorkerPool` implements `JobLifecycle`; what it takes for a job to be executed twice |
| `StreamingSessionsProofs.tla`, `DownloadsProofs.tla` | the safety properties of those modules; what it takes to exceed the session limits |
| `ServicesProofs.tla`, `MCServicesProofs.tla` | the safety properties of `WriteLock`, `PollLoop` and `UpdateInstall`; those of all services in the composition of `MCServices` |
| `MCJobQueue.tla`, `MCJobQueuePair.cfg`, `MCJobQueueRetention.cfg` | instances of the queue |
| `MCStreamingSessions.tla`, `MCStreamingSessionsOne.cfg`, `MCStreamingSessionsFree.cfg` | instances of the sessions |
| `MCWorkerPool.tla`, `MCWorkerPoolTwice.cfg`, `MCWorkerPoolDrain.cfg` | instances of the pool |
| `MCContention.tla`, `.cfg` | chains and twins of jobs; two sessions for one slot |
| `MCPairs.tla`, `MCPairs.cfg`, `MCPairsResume.cfg` | two jobs in the pool; two calls on an operation |
| `MCServices.tla`, `.cfg` | small instances of the lock, the loop, the pool, the update and the downloads |
| `UpdateInstallBin.cfg`, `DownloadsWaiting.cfg` | instances that need no MC module |
| `PROJECT.json` | the index: components, runs, mutants, map from definitions to source lines, findings, hazards, theorems |

Run a check with `tlc -config MCJobQueuePair.cfg MCJobQueue.tla` and the proofs
with `tlapm JobLifecycleProofs.tla`, and likewise for the other instances and proof
modules.

## Inventory

### The worker system

**Job queue** (`repositories/worker-jobs/`, `schemas/worker.schema.ts`).
State: one row per job in `worker_jobs` (status, operation, parent, attempts,
runner and claim token, lease, `runAt`, result). Operations: enqueue (batches,
dedupe by a partial unique index), claim a batch (recover expired leases, cancel
what may not run, hand out the rest), complete, retry, requeue, fail, five forms
of cancellation, orphan recovery, retention and purge.
Hard: functions read before they open their transaction; lease recovery races
the late report of the old execution; a failure must reach the whole chain of
dependents; a process may die holding claims.
Correct when: a job starts only after its parent, once per claim, never for a
cancelled operation, within the worker's concurrency; a terminal job stays as it
is; nothing runnable is left for ever.

**Operation counters** (`repositories/worker-operation/`).
State: one row per user-visible task in `worker_operations` (status, cancel
request, total and five counters). Every job transition updates it *relatively*
(`pending = MAX(pending - n, 0)`), in the same transaction. Hard: each of about
fifteen transitions has to name the right delta, and the clamps hide a wrong one;
a finished operation reopens when a job is added; resume presets counters.
Correct when: the counters equal the rows they count and the status follows from
them.

**Streaming slots** (`streams.writer.ts`, `worker-operations.service.ts`). An
operation with an ffmpeg process attached holds a slot in `runningItems` that no
job row accounts for. Hard: two independent paths release it (process end,
session release).

**Worker pool** (`workers/core/worker-pool.service.ts`). State: executions by job
id, running count per worker, abort controllers, timers. Operations: start,
finish, abort (cancel, timeout, stall, shutdown), heartbeat. Hard: which of
several abort reasons wins, an execution that outlives its claim, a grace timer
against a handler that answers late. Correct when: a slot is held by one live
execution and comes back whatever its handler does; no job is executed twice at a
time; every running row has somebody who will move it on.

**Polling loop, watchdog, registry, queue service** (`workers/core/`,
`workers/worker.service.ts`). A loop per worker with wake-ups and backoff; a
watchdog that reports stalls and sweeps orphans. Hard: wake-ups during a poll,
claims in flight at shutdown, a worker unregistered while it runs. Correct when: no
wake-up is lost, due work is looked at even while a poll hangs, and a removed
worker's handlers are told to stop.

**Operation control** (`worker-operations.service.ts`). Cancel, resume (in pages,
with a rollback), cancel everything, create-and-enqueue. Hard: sequences of
transactions with other calls and claims between them. Correct when: the counters
settle on the rows, what was cancelled stops, and what is done is not done again.

**Scheduler** (`worker-scheduler.service.ts`). Persisted next-run deadlines,
catch-up after downtime, trigger changes during a pass.

**Worker definitions** (`workers/`, `modules/*/workers`). About thirty handlers:
scan, ingest, metadata, images, downloads, retention.

**Rescue and resource allocator**. Aborts unprotected workers under memory
pressure and requeues their jobs.

### Storage

**Database access and write lock** (`integrations/drizzle-orm/database.factory.ts`).
One SQLite connection; a promise chain serialises transactions, nested ones become
savepoints, writes inside a transaction re-enter. Hard: a nested call that waits
for the lock its own caller holds. Everything above relies on it. Correct when: two
writes never run at once, and every queued one runs.

**Memory cache, single flight, keyed mutex**. Loads against invalidation.

### Streaming and playback

**Streaming sessions** (`modules/streaming/`). State, all in memory: an entity per
session (`creating`, `active`, `ending`, then deleted; its ffmpeg process and the
number of processes attached so far), reservations and user bindings, a mutex per
session. Operations: create (reserve, register, prepare, enqueue a `stream-init`
job), start a process, attach it, seek, fall back to the software encoder,
release, reap. Hard: a start takes seconds and a release may come at any await of
it; stopping a process is awaited; the init job, the restarts, the creating
request and the reaper all name the session and not what they themselves took of
it. Correct when: no ffmpeg is left behind and no two write into one directory; a
release is final and leaves nothing; a session does not stay half-created; the
slots add up to the limit.

**Decisions, playlists, segments**: arithmetic.
**ffmpeg/ffprobe**: process tracking. **Playback progress**
(`services/playback/`): heartbeat aggregation; reads the row before its
transaction.

### The rest

**Downloads** (`modules/downloads/`). State: a row per download, its output file,
its job in the queue, the run of the worker and its kill-switch. Hard: the run, a
cancel, a delete, the expiry and the reconciliation at startup each read the row,
change it and remove or name files across awaits; a waiting download is started
by whoever frees a slot. Correct when: what is shown as completed has its file,
what was cancelled leaves none, and nothing waits while a slot is free.

**Update install** (`services/updates/`). State: the install root, a backup of what
was replaced, staged releases, a marker per component, the running install. Hard: a
swap is several renames, any of which may fail or be the last before a crash; a
cancellation may come at every stage. Correct when: no failure loses the only copy of
a directory, and a cancelled install replaces nothing.

**Plugins** (lifecycle, capabilities, catalogue),
**library scanner and watcher**, **realtime**, **authentication** (quick connect,
PIN limiter), **catalogue and metadata**, **sidecars, images, subtitles**,
**notifications and administration**, **HTTP API**, **configuration**,
**benchmarks, scripts, installers**. `PROJECT.json` lists each with its sources,
its status and the reason.

How they interact: services and request handlers call the queue's repositories
directly; the polling loop calls the claim, the pool calls the outcome writers
with the claim token it was handed; operation control and the scheduler create
operations and jobs; the realtime layer only reports. All shared state is in the
database or in single-threaded memory, so interleavings happen at `await`s, and
above all at the wait for the write lock.

## Plan

Order is by how much of the server depends on the part.

1. `OperationCounters`, `JobQueue`: the tables everything else writes to. Checked;
   all safety proved.
2. `JobLifecycle`: what the queue promises about one job, an abstract
   specification that `JobQueue`, `OperationControl` and `WorkerPool` implement. Checked
   and proved.
3. `StreamingSessions`: the second place where the server races with itself.
   Checked, its safety proved.
4. `WorkerPool` and `PollLoop`: executions and the polls that start them. In the
   pool a poll may begin at any time, in the loop a poll does not start anything;
   each takes from the other what it proves or checks (`DueIsPolled` is the
   fairness of `PollBegin`). Checked, the safety of both proved.
5. `OperationControl`, on top of `JobQueue`: sequences of its transactions. Checked
   and proved, on top of the proofs of `JobQueue`.
6. `WriteLock`: why the other modules may take a transaction as one step. Checked,
   its safety proved.
7. `UpdateInstall` and `Downloads`: components of their own. Checked, their safety
   proved.

Every safety property and every refinement a passing run checks is a theorem. What
would add most from here: the scheduler and the plugin lifecycle as models.

## The model of the queue

`jobs` and `ops` are the two tables. An action is one committed transaction, or
one autocommitted statement. Where the code reads first and opens a transaction
later, the read is an action of its own and what it found is state:

| variable | code |
| --- | --- |
| `jobs`, `ops` | the rows of `worker_jobs`, `worker_operations` |
| `polled` | `claimNextBatch` saw a due row and has not opened its transaction (`claims.writer.ts`) |
| `orphanScan` | rows `recoverOrphaned` read before its transaction, with the attempts it read |
| `expiredOps` | operations a retention sweep or purge read before it deletes them |
| `unsettled` | history: operations a resume has preset or bypassed and no reconcile has rebuilt |
| `hidden` | history: cancelled jobs the last reconcile left out of the counters |

The two history variables are read by properties only.

| action | code |
| --- | --- |
| `EnqueueMany` | `intake.repository.ts` `enqueueMany`, `enqueue` |
| `PollDue`, `ClaimNextBatch` | `claims.writer.ts` `claimNextBatch`: lease recovery, cancellation of blocked rows, claims, in one transaction |
| `Complete`, `Fail`, `Retry` | the outcome writers, guarded by runner and claim token; `Retry` without delay is `requeueRunning` |
| `CancelPending`, `CancelRunning`, `CancelPendingByOperation`, `CancelAllPending`, `CancelAllRunning` | `cancellation.writer.ts` and its callers in `worker-queue.service.ts` |
| `CreateOperation`, `RemoveOperation`, `CancelRequested`, `Resume`, `ReconcileFromJobs` | the writers of `worker-operation/` |
| `OrphanRead`, `RecoverOrphans` | `recoverOrphaned`, read and transaction |
| `ExpiredRead`, `DeleteExpired`, `PurgeStandalone` | `retention.writer.ts` of both repositories |
| `BecomeDue`, `LeaseExpires`, `Restart` | time passes; the process dies and another opens the file |

Any caller may issue any action at any time, so the model covers every pool,
poller and service of the other modules, and more.

Each transaction is written as a function from the two tables to the two tables
(`FinishJobs`, `RequeueJobs`, `CancelPendingJobs`, `RecoverRows`,
`ClaimCandidates`), composed in the code's order; this is also what makes them
provable one by one. SQLite evaluates the `SET` expressions of an `UPDATE` over
the old row, and so does `OperationCounters`.

Abstractions:
- a claim token (a UUID) is the attempt number of the claim that wrote it;
- of `runAt` only whether it has passed and the order in which rows became due,
  of `leaseUntil` only whether it has passed;
- payloads, references and results are left out, except *which claim* wrote a
  result;
- job ids are ordered by creation (version 7 UUIDs), so the `createdAt` of the
  `ORDER BY` is the id;
- ids are not used again; a deleted row is marked `deleted`;
- the level-by-level cascade is its result, the least set closed under "pending
  and depends on a cancelled one".

`JobLifecycle` is the abstract specification. Its one variable `life` has, of each
job, its status, its parent, how often it was claimed and the claim whose result it
stores. Every job moves by one of eight steps (`Submitted`, `Claimed`, `GivenBack`,
`Completed`, `Failed`, `Cancelled`, `Deleted`, or it stays), and a step of the
system moves any number of jobs. `Promised` in `JobQueue` is the mapping: the four
columns of the row. The promise leaves open *when* a job is claimed, in which
order, how many jobs move together and what is counted; it fixes that a
terminal status is left by deletion alone, that a claim needs a parent that
completed, that every start raises the claim number, that a result is that of the
current claim, and that a parent is forgotten exactly when it is deleted.

Left out of these components: the progress percent and its writer, timestamps,
the age that makes an operation expire (any terminal operation may be read as
expired), names, and operations that stream.

## The model of the streaming sessions

Everything is in one process and one thread, so an action is what one asynchronous
function does between two awaits, and every await is a place where any other
function may run. Four kinds of function work on a session; where each of them is,
is state:

| variable | code |
| --- | --- |
| `state`, `process`, `generation` | the entity in `session.store.ts`; `new` before it is registered, `gone` after it is deleted |
| `reserved`, `bound` | `reservedIds` and `sessionUsers` of `session-reservation.tracker.ts` |
| `named` | the entities whose `operationId` is set |
| `creation` | the request that creates the session: before `prepareSession`, before and after the enqueue of the job |
| `phase`, `held`, `seen` | of the init job and of the two restarts (seek, fallback): where it is, which process it stops or is about to attach, which generation a seek captured |
| `reaper` | the deadline check of the reaper: picked, operations read, releasing |
| `deadSeen`, `fellBack` | playlist requests that saw the process dead; the sessions that fell back already |
| `running`, `dying`, `spawned` | the ffmpeg processes, those with a signal on the way, and how many there have been |
| `started`, `ended` | history: the lifecycle callbacks that were called |

| action | code |
| --- | --- |
| `Register`, `Prepared`, `EnqueueInit`, `EnqueueFails`, `SetOperation` | the creating request, `sessions/session-lifecycle.service.ts` |
| `InitDropped`, `InitStart`, `InitRecorded`, `InitClose` | `stream.initializer.ts` and the ends of `StreamingManager.startSession` |
| `SeekBegin`, `SeekProbed` | `doSeek` of `runtime/streaming.manager.ts`, under the mutex of `seeking/seek.scheduler.ts` |
| `PlaylistSeesDead`, `FallbackBegin` | `buffer/playlist.waiter.ts`, `retryWithSoftwareEncoder` |
| `RestartStopped`, `RestartRecorded` | `prepareSession` after the old process is stopped; the end of a restart |
| `Spawn`, `SpawnFails`, `Attach`, `AttachRefused`, `RefusedStopped` | `ffmpeg/process.manager.ts` `startSession`, for every kind of start, and the manager's `catch` |
| `Exit` | a process ends, killed or by itself |
| `ReleaseSession`, `FinalizeRelease` | `releaseSession`, claim and finalization |
| `ReaperPick`, `ReaperRead`, `ReaperRelease` | the reservation deadline in `session.reaper.ts` |

The mutex of `SeekScheduler` is the guard `Unlocked` of the two restarts; nothing
else is serialized, as in the code. A release waits for its own write to the
operation's slot, and all writes queue behind each other, hence the guard
`SlotWritten` of `FinalizeRelease`: a start whose slot write is under way finishes
it first.

Abstractions: a session id is a random UUID and is not used again; of every
deadline only that it may pass; a kill that is given up after its bounded wait
leaves the process `dying`, from where it exits some time later. Left out: the
temporary directory and the playlist, the debounce of seeks and seeks served from
the buffer, inactivity as a condition (a release may come at any time), the cap on
software transcodes, the list of terminated sessions, the shutdown of the server,
and the operation's counters.

## The model of the pool

`WorkerPool` has of a row what the pool depends on (status, attempts, result, whether the
lease has passed and whether the process that claimed it is gone); `JobQueue` has
the rest. A result is the attempt that wrote it. An action is what happens between two awaits, or one transaction.

| variable | code |
| --- | --- |
| `rows` | `worker_jobs` |
| `execs` | the executions (`ActiveExecution`) whose handler or writes are not over: phase, outcome to write, abort reason, timeout and grace timer, finalization |
| `held`, `count` | the map `running` and `runningCountByWorker` of `worker-pool.service.ts` |
| `polls`, `isPolling` | the `poll()` calls in flight, each with its snapshot of active jobs and the workers it has still to claim for; the guard |
| `sweep` | the rows the orphan sweep has read and not yet recovered |
| `up`, `registered`, `leaving`, `awaited` | the engine; the registry; how far the removal of a worker is, and what its drain waits for |
| `cancelling` | jobs whose execution a `cancelItem` has aborted and whose row it has not written yet |
| `disturbances` | bound, see below |
| `leaked`, `lost`, `overtaken` | history: slots whose map entry was overwritten; claims whose last write failed; that a guard was cleared under a poll |

| action | code |
| --- | --- |
| `PollBegin`, `PollList`, `PollClaim`, `PollFails`, `RecoverFromStall` | `worker-polling.service.ts` `poll` and the watchdog's recovery of it |
| `HandlerEnds`, `OutcomeWritten`, `OutcomeFails`, `Close` | `execute` after the handler, the writes of its outcome, the `finally` |
| `TimeoutFires`, `ExtendTimeout`, `GraceFires`, `Finalize`, `FinalizeFails` | the timers and the finalization of an execution that was given up |
| `CancelItem`, `CancelRow`, `RequeueAllForWorker` | cancellation of one job; the rescue under memory pressure |
| `Unregister`, `UnregisterCancels`, `DrainBegin`, `DrainEnd`, `Register`, `Shutdown` | `worker.service.ts`, in the order of its awaits |
| `PoolEnqueue`, `LeaseLapses`, `SweepRead`, `SweepCommit`, `PoolRestart` | the outside, the watchdog's sweep, a crash |

The same finalization is used when the grace period ends and when the engine shuts
down; an execution keeps its place in `execs` until its last write, since the slot
may be given back before.

## The model of the polling loop

`PollLoop` is about *whether* there will be another poll. Its state is that of
`worker-polling.service.ts` (`isRunning`, `isPolling`, `pollAgain` and whether
`pollDebounceTimer` and `pollTimer` are armed), the polls in flight (listing the
workers with due jobs, then claiming for one after the other), those whose query does
not come back for now (`hung`), and the watchdog's view (`stale`: the last poll is
too long ago; `stalls`: consecutive failures modulo the number after which it
escalates). `due` and `full` are the world: workers with due jobs, the pool without a
free slot.

`triggerPoll` is the operator `Trigger`, with the guard, flag and timer as they are at
the call, because several callers invoke it in the middle of a step: an enqueue
(`OnEnqueue`), a slot that is given back (`SlotFreed`), `Recover`, the end of a poll
(`AfterPoll`). The other actions are the timers (`PollTimerFires`, `DebounceFires`),
the stages of a poll (`List`, `Claim`, `Fails`, `Hangs`, `ComesBack`), `Start`,
`Stop`, and the watchdog's `CheckHealth`. A backoff that ends (`BecomesDue`) announces
nothing, in the code too: the idle timer is what finds it.

## The model of the write lock

`transactionLock` is the last promise of the chain in `database.factory.ts`, by its
number; `released` are those that are resolved; `ticket` is the promise an operation
made. `lockScope` and `txScope` are `writeLockStore` and `als`, the two async-local
stores, as a callback of the operation sees them: what it issues inherits them, and so
does what it leaves behind when it ends, whence `open`, the scopes that are still open.
`under` is history: whose lock an operation works under.

`RunWrite` writes inline when its context holds the lock and queues otherwise;
`Transaction` does the same and opens a savepoint (`Savepoint`) when its context is in a
transaction; `Acquire` is a turn, `End` the end of a callback, with or without an
error. Assumed of the callers: an operation ends after those that run inline in its
scope, and nobody who holds the lock waits for a write that was issued outside his
context.

## The model of operation control

`OperationControl` extends `JobQueue`. `call` has of each call under way its next
step, and of a resume its preset total, the cursor of its paging and the rows of the
page it has still to enqueue; each action is one awaited call of
`worker-operations.service.ts` and conjoins a transaction of the queue:

| action | code |
| --- | --- |
| `CancelBegin`, `RequestFirst`, `PendingNext`, `ReadRunning`, `CancelOne` | `cancel`: check, request, pending rows, then the running ones one by one |
| `ResumeBegin`, `ResumeCount`, `ResumeMark`, `ResumePage`, `ResumeEnqueue`, `ResumeSkip`, `ResumeReconcile` | `resume`: check, count, preset, page by page and worker by worker, rebuild |
| `Rollback` | the `catch` of `resume` |

Between them the queue works: claims, outcomes, requeues, and a new operation.
`taskOf` is history: which task a row is a copy of.

## The model of downloads

A row of one profile is `absent`, then has its status, then is `deleted`; `named` says
that its file name is recorded, `file` that its output is on disk, `source` that the
media file is still in the library, `job` where its job is. `run` is the one run of the
worker, with its step, whether ffmpeg succeeded and whether it was aborted;
`promotion`, `call` and `boot` are the steps of `promoteQueued`, of the cancel or delete
call on a download, and of the reconciliation. `doomed` and `torn` are history:
downloads whose deletion has begun, and those whose cancellation a crash cut short.

| action | code |
| --- | --- |
| `Request`, `Count`, `Find`, `EnqueueNext` | `prepare` and `promoteQueued` of `downloads.service.ts` |
| `StartRun`, `Load` ... `Claim` | `process`, up to the claim of a running slot |
| `Register`, `RecordName`, `Spawn`, `FfmpegExits`, `Finalize`, `FailFinalizing`, `CompleteProcessing`, `DropOutput`, `ReleaseClaim`, `Leave`, `MarkFailed`, `Settle` | `download.runner.ts` and the `finally` of `process` |
| `PoolAborts` | the pool aborts the job |
| `CancelBegin`, `CancelWrite`, `KillInFlight`, `DeleteBegin`, `Expire`, `DeleteDownloadFile`, `DeleteRow`, `SweepOrphanArtifacts` | cancel, delete, expiry and the sweep of files without a row |
| `ReconcileList`, `ReconcileRow`, `ReconcileEnqueue`, `SourceLost`, `Restart` | the reconciliation at startup; the media file is deleted, and the row with it; a crash |

Assumed: the worker runs one job at a time with one attempt
(`config/server/workers.config.ts`), so there is one run; database calls and removals
of files succeed; the server serves requests only after the reconciliation
(`index.ts`).

## The model of the update

A file is a directory of the install root (`server`, `bun`, `bin`, `web`) by the version
it is of; 0 is none. `root`, `previous`, `staged` and `discard` are the four places
where it can be, `marker` the rollback marker of a component, `job` the install with
its stage, `aborted` its abort signal, `running` the version of the server process.

| action | code |
| --- | --- |
| `StartInstall`, `CancelInstall`, `Downloaded`, `Verified`, `Checked`, `StageEnds` | the stages and checkpoints of `install/apply.service.ts` and `actions.service.ts` |
| `SwapIn`, `SwapFails`, `CrashInSwap` | `swapIntoPlace` and `swapWebDirectory` (`update-swap.utils.ts`): done, failed at one of the renames and undone, or cut off there |
| `ExtractedForScript`, `Exit` | on Windows, the staged release and the script that swaps after the process is gone (`restart.scheduler.ts`); elsewhere the exit for a restart |
| `Rollback`, `RollbackFails` | `swapBackFromPrevious`, complete or stopped at a name |
| `Crash`, `Boot` | a crash elsewhere; the next start, which cleans up |

The order of the renames is that of `componentNames`; `First(c, k)` are the first k of
them, so a swap may stop after any. Assumed: history, notifications and the clean-up of
the download succeed; one process installs.

## What is checked

| run | instance | shows |
| --- | --- | --- |
| `pair` | a job and its dependent, or two independent jobs; one worker with one slot, two attempts; under fairness | type invariant; counters and status match the rows; concurrency and claim tokens are respected; cancelled jobs never start; a claim pass takes every runnable job; all this implements `JobLifecycle`; a runnable job is claimed or stops being runnable; a blocked pending job is cancelled |
| `contention` | three jobs in a chain, the middle one on a second worker; or two jobs under one dedupe key, in one batch and separately; or two sessions of one user for one slot, the first with two processes | a job starts only after its parent; failure and cancellation reach the end of the chain in the same transaction; never two active jobs per key; no slot is leaked; a session holds its slot until its first process is attached |
| `one_session` | one session with up to three processes | no process without an owner; never two in one directory; a release is final; nothing is reported as started after its end; no session stays in `creating`; a release ends with no process, slot or restart left |
| `pairs` | two jobs of one worker with two slots, two overlapping polls, one disturbance; or two overlapping cancel and resume calls on an operation of up to two tasks | slots and counts match the executions; a running row has an owner; a claim spares what is held; the rows of the pool implement `JobLifecycle` too; the counters settle on the rows; what was cancelled stops |
| `services` | three nested or queued writes; a polling loop with two workers and one mishap; a pool with one job and one disturbance; an update on either platform with two mishaps; a download with two mishaps | writes exclude each other and all run; no wake-up is lost and due work is looked at; a slot comes back, a row moves on, a pending job is claimed; a swap loses nothing, a cancelled install replaces nothing; a completed download has its file, a cancelled one leaves none |
| `retention` | as `pair` | *violated*: a sweep deletes a live operation |
| `free_slot` | two sessions, one slot | *violated*: a restart takes a slot that is no longer free |
| `twice` | two jobs with three slots, two attempts, one poll, the orphan sweep, one disturbance | *violated*: a job is executed twice at a time |
| `drain` | one job of a worker that is removed | *violated*: a handler is at work, unaborted, after the drain |
| `resume_twice` | one call at a time, up to two tasks | *violated*: a task that is done is done again |
| `download_waits` | two downloads, one slot | *violated*: a download waits while the slot is free |
| `bin_live` | an update, no mishap | *violated*: the bundled ffmpeg is moved away |

Every property of a passing run has a mutant in `PROJECT.json`: a plausible bug in
one definition that makes TLC report the property violated. The definitions named
"Faulty variant" in the modules are those bugs; no specification uses them.

`contention`, `pairs` and `services` put instances of modules that share no state
into one run: a behaviour is about one of them, which the variable `part` names, and
the others stay in their initial states. This is not the composition of components
that interact: that is `OperationControl` over `JobQueue`, and the polls, executions
and sweep over one set of rows in `WorkerPool`.

### Bounds, and why they are enough

- *Jobs of the queue*: two, three in a chain. Each property relates at most two jobs,
  or a chain; the third level of the chain is where a search that stops early first
  differs. The chain has one attempt each (`ChainOrTwins`): retries and recoveries of a
  pair are in `pair`.
- *Operations*: one. Counters of different operations do not touch each other in
  any writer; a job without operation is among the twins. Ids are not used again, so the
  operation is also seen deleted, with jobs left behind.
- *Attempts*: `MaxAttempts` 1 or 2, so that a recovery both requeues and exhausts;
  `AttemptBound` stops executions from giving a job back for ever (`requeueRunning`
  disregards the budget), which would make the state space infinite.
- *Concurrency*: one slot, the smallest at which two jobs compete; two in `pairs`,
  the smallest at which two are executed side by side; three in `twice`, one for the
  healthy execution, one for the job whose claim started it again, and one in which the
  next poll starts it once more.
- *CandidateLimit*: 20 in the code, 2 or 3 here, and never fewer than the pending rows.
  The window (`max(max, 20, 2 * concurrency)`, `claims.writer.ts:109`) matters when there are
  more: rows that wait for a running parent take it up, and a runnable job behind twenty
  of them waits until the parent ends. `ClaimTakesEveryRunnable` is therefore about jobs
  within the window (`InWindow`), and is proved for any window; `RunnableIsClaimed` is
  checked where the window does not bite.
- *Calls*: two at once, on one task or two with three ids, pages of one task, so that a resume
  of two takes more than one page and a resumed task can be resumed again; of two tasks
  none gives itself back, and a single one only before it is resumed (`OneGivesBack`). `resume_twice` needs
  five ids, but only one call at a time.
- *Pool*: `DisturbanceBound` counts what clients and faults do (a cancellation, a
  rescue, a removal, a shutdown, an extended timeout, a failed write, a stalled poll, a
  crash). One at any point of any interleaving is what each property was written
  against, and all that the findings need. `twice` has one poll, so that none is
  overtaken and the sweep alone can be what goes wrong; with two polls its shortest
  counterexample is that of an overtaken poll. In `pairs` two jobs are followed up to the
  first attempt of each and not into a removal of their worker (`ApartOrFirst`), one alone
  through all of it.
- *Lock*: three operations: a holder, one nested in it or left behind by it, and one
  that waits.
- *Loop*: two polls, so that a recovery can start one beside one that hangs; one
  mishap, since a second would only repeat the first after the loop has recovered.
- *Update*: two versions, two mishaps: a swap that stopped, and what a second makes of
  what it left. *Download*: one, with two mishaps; the slots concern two downloads, which
  is `download_waits`.
- *Sessions*: one for what concerns a single session, since sessions share only the
  slots; two for the slots, with a limit of one, the smallest at which they compete, and
  without the fallback, which `one_session` has (`Contenders`).
- *Processes of a session* (`MaxSpawns`): three, so that a seek and a fallback can
  each follow the first start and each other; with two sessions, two and one. The
  bound is on starting a restart and not on its steps, so no start is cut off.

Symmetry is used in `pairs` alone: its jobs, polls and calls are interchangeable
(no order is defined on them and no `CHOOSE` picks one), and its properties are
invariants, an action property and a refinement (an initial condition and a step
relation, without fairness), which treat them alike; none of them is liveness.

### Deadlock

Checked in the runs of the queue alone: a restart is always possible there, so it says
little, and their liveness properties say more. The other runs may really stop: every session is gone and
no id is left, all operations of the lock are over, the engine is shut down, the
disturbances are used up, a component has no newer version. That nobody waits for ever
is what their liveness properties say.

### Fairness

`FairSpec` of `JobQueue` assumes, of each actor, what its code does:
- a worker with due work is polled: the loop runs every interval
  (`worker-polling.service.ts`; this is `DueIsPolled` of `PollLoop`);
- an execution ends: at the latest its timeout aborts it and the pool writes an
  outcome, or its lease expires and the sweep takes it (`SlotComesBack` and `RowMovesOn`
  of `WorkerPool`);
- a backoff ends, since it is a date;
- the watchdog sweeps orphans on a timer (`worker-watchdog.service.ts`).

These actions disable themselves, so their weak fairness is written as "disabled
again and again", which TLC and a reader handle more easily than `WF`. A restart
discards what a poll or a sweep has read, hence strong fairness for `ClaimPass`
and `RecoverOrphans`: the process is not killed between *every* read and the
transaction that follows. Nothing is assumed of enqueue, cancel, resume, retention
or restart.

`WorkerPool`: a poll begins while a job is pending, and its steps and those of the
sweep end (database calls return); an outcome that is due is written, or its write
fails; timers that are armed fire; a lease runs out. A handler need not end, and
nothing is assumed of the callers.

`PollLoop`: armed timers fire, the watchdog's timer ticks, the last poll becomes old
while none succeeds, and a query that does not hang comes back. A query that hangs may
hang for ever.

`WriteLock`: a resolved promise is seen, and every callback ends. The second is a
property of the callbacks: they are sequences of local SQLite statements.

The fairness of `StreamingSessions` says that every await ends: a write or a read of
the database answers, the waits for a process are bounded
(`waitForExitWithTimeout`), the queue runs a queued job or drops it (which is what
`RunnableIsClaimed` and `BlockedIsCancelled` are about), and the reaper's timer
ticks. A process that was sent its signal exits: the code escalates to SIGKILL, and
a process that the kernel cannot end is left out. Nothing is assumed of clients:
no seek, release or playlist request has to come; nor does a process at work ever
have to end.

`OperationControl`, `Downloads` and `UpdateInstall` state no liveness and no fairness.

## What is proved

Each theorem holds for every value of the constants that satisfies the assumptions of
its module; the runs show the same properties on small instances. A property in the
last column is stated by the theorem, under the module's specification.

| module | theorem | states |
| --- | --- | --- |
| `JobQueueProofs` | `TypeCorrect` | `[]TypeOK` |
| | `CountersCorrect` | `[]CountersMatchRows` |
| | `StatusCorrect` | `[]StatusMatchesRows` |
| `JobLifecycleProofs` | `DependenciesCorrect` | `[]DependencyRespected` |
| | `ResultsCorrect` | `[]ResultOfLastClaim` |
| | `FinishedStay` | `FinishedJobsStay` (in no run: `JobsKeepPromise` implies it) |
| | `PromiseKept` | `JobsKeepPromise`, the refinement to `JobLifecycle` |
| | `ConcurrencyCorrect` | `[]ConcurrencyRespected` |
| | `DedupeCorrect` | `[]OneActivePerDedupeKey` |
| | `CancelledStaysUnstarted` | `CancelledNeverStarts` |
| | `CascadeComplete` | `CascadeReachesDependents` |
| | `ClaimsComplete` | `ClaimTakesEveryRunnable` |
| `OperationControlProofs` | `ControlTypeCorrect` | `[]ControlTypeOK` |
| | `CountersSettled` | `[]CountersSettle` |
| | `CancelStops` | `[]CancelStopsAll` |
| | `CallsKeepTables` | `[](CountersMatchRows /\ DependencyRespected /\ ResultOfLastClaim /\ ConcurrencyRespected /\ OneActivePerDedupeKey)` under the calls |
| | `CallsStartNothingStopped` | `CancelledNeverStarts` under the calls |
| | `CallsKeepPromise` | `JobsKeepPromise` under the calls |
| `WorkerPoolProofs` | `WorkerPoolTypeCorrect` | `[]PoolTypeOK` |
| | `SlotsCorrect` | `[]SlotsAreHeld` |
| | `RowsHaveOwners` | `[]RowHasOwner` |
| | `HeldJobsSpared` | `ClaimSparesHeld` |
| | `PoolPromiseKept` | `PoolKeepsPromise`, the refinement to `JobLifecycle` |
| | `SecondExecutionIsStale` | `[]NoSecondExecution`, if no poll is overtaken and the sweep compares the claim |
| | `HandlersDrained` | `[]NoHandlerAfterDrain`, if besides only jobs of registered workers are started |
| `StreamingSessionsProofs` | `TypeCorrect` | `[]SessionsTypeOK` |
| | `NoOrphan` | `[]NoOrphanProcess` |
| | `OneWriterCorrect` | `[]OneWriter` |
| | `ReleaseFinal` | `ReleaseIsFinal` |
| | `NoLeak` | `[]NoLeakedSlot` |
| | `FirstStartKeepsSlot` | `[]FirstStartHoldsSlot` |
| | `StartBeforeEnd` | `NoStartAfterEnd` |
| | `LimitsKept` | `[]WithinLimits`, if restarts concern sessions that have a slot |
| `DownloadsProofs` | `DownloadsTypeCorrect` | `[]DownloadTypeOK` |
| | `CompletedHasFile` | `[]CompletedKeepsFile` |
| | `CancelledIsCleared` | `[]CancelledLeavesNothing` |
| `ServicesProofs` | `WriteLockTypeCorrect` | `[]LockTypeOK` |
| | `OneWriterAtATime` | `[]WritesAlone` |
| | `PollLoopTypeCorrect` | `[]LoopTypeOK` |
| | `NoLostWakeUp` | `[]WakeUpRemembered` |
| | `UpdateTypeCorrect` | `[]UpdateTypeOK` |
| | `SwapKeepsFiles` | `SwapLosesNothing` |
| | `CancelKeepsFiles` | `CancelledReplacesNothing` |
| | `BinMovesOnly` | the steps that take `bin/` away |
| `MCServicesProofs` | `ServicesKeepApart` | `LockSpec /\ LoopSpec /\ pool!PoolSpec /\ UpdateSpec /\ DownloadSpec` of the composition |
| | `ServicesTypeCorrect` | `[]AllTypesOK` |
| | `ServicesSafe` | the safety properties of the services in the composition |

The assumptions say what the constants are and no more. Queue: jobs are a finite set of
naturals (`JobAssumption`), `None` is neither a job nor an operation (`NoneAssumption`),
the request and limit functions have their types and the attempt budget is positive
(`RequestAssumption`, `LimitAssumption`), the tasks of a batch have distinct ids
(`BatchAssumption`). Pool: finitely many jobs, typed limits, a positive attempt budget
(`PoolAssumption`). Lock: `NoOp` is no operation (`WriteLockAssumption`). Downloads and
update: their bounds are naturals (`DownloadAssumption`, `UpdateAssumption`). Sessions:
they are finitely many and have owners, the limits are positive (`SessionAssumption`,
`SessionLimitAssumption`); only `LimitsKept` counts sessions and needs it. The composition
of the services: there is a worker, and `NoWorker` is none (`ServicesAssumption`). The loop
needs none. TLC evaluates each of these in the runs of its module.

Three of the theorems have hypotheses about steps: `SecondExecutionIsStale`,
`HandlersDrained` and `LimitsKept` are about what the runs `twice`, `drain` and
`free_slot` show to fail. The code does not make these hypotheses true. Each names the one
check that is missing, and the theorem says that with it nothing else is.

### The counters

The inductive invariant is

    IInv == TypeOK /\ ForeignKey(Db) /\ CountersMatchRows /\ StatusFitsCounters
            /\ ReadOnce(orphanScan)

- `CountersMatchRows` alone is not inductive: `Minus` clamps at zero, so a
  decrement is exact only if the counter is at least as large as the number of
  rows that leave, and that is known from the equality itself, hence one invariant
  for all counters together.
- `ForeignKey`: a job's operation is present. Without it, creating an operation
  could find jobs that carry its id already.
- `ReadOnce`: an orphan sweep has read a row once. Otherwise one row could be both
  requeued and failed in the same transaction, and would be counted twice.
- `StatusFitsCounters`: the status of an operation fits its own counters
  (`StatusFits`). With the equality above it gives `StatusMatchesRows`; on its own it is
  what each writer can be shown to keep, since a writer sees the row of the operation and
  not the jobs. It too is false without the equality: a writer that moves more items
  than a counter has closes an operation that has work left.

The argument has three layers. The lemmas about the arithmetic show of each `UPDATE`
that it moves `n` between two counters, keeps the type, the total and `StatusFits`, if
the source counter is at least `n`. The lemmas about finite sets show that
moving a set of rows from one status to another changes the per-operation counts
by the size of the moved part; from both, lemma by lemma, that each *transaction
function* takes tables whose counters match to tables whose counters match
(`Good`). The claim pass and the sweeps are compositions of those functions, so
their lemmas are short. The last layer has one step per action.

### The life of a job

`JobLifecycleProofs` shows, transaction by transaction, that each job takes a
`JobStep`: submitted, claimed, completed, deleted, or a change of status that keeps
its claim number and result and leaves a terminal status alone. To know this of a
step one needs facts about the rows before it, which are again invariant:

    LInv == IInv /\ LifeInv(jobs)

`LifeInv` says that a running job holds the token of its latest attempt, that an
active job has no result and a completed one that of its latest attempt, that the
parent of a row is present, and that the parent of a job that runs or has run is
`completed`. The last two are why `DependencyRespected` alone is not inductive: a
parent that is deleted must be known to take the reference with it. The
invariance of `LifeInv` follows from `JobStep` alone, without looking at the
transactions again, and so do `FinishedStay` and, step by step, the refinement:
each `JobStep` maps to one of the steps of `JobLifecycle` (`JobStepLives`).

### Concurrency

A claim pass counts the running jobs of its worker after its recoveries and grants
a candidate only if fewer candidates precede it than there are free slots. The
queue order is total (`BeforeIsOrder`), so distinct granted jobs have distinct
numbers of predecessors (`MorePrecede`), which is an injection of the granted jobs
into the free slots (`FewAreEarly`), and the bound follows from the cardinality of
an interval. All other transactions only shrink the set of running jobs
(`FewerRunning`).

### Complete claim passes

`ClaimsComplete` is the other direction: a pass that stops short of its limits has left
nothing behind that could run. If a claimable candidate was not granted, then as many
candidates precede it as there are grants to give, and the first of the candidates in
the queue order are that many (`ManyAreEarly`, by a surjection of the early candidates onto
the places below the limit), so the pass has claimed the number asked for or filled the
worker. Otherwise every claimable candidate was granted, hence the pass got to the end of
its candidates and cancelled those that must be (`ClaimsAllReady`). A candidate that is
still pending waits for a parent that was active: the parent is active still, or was
cancelled in the same pass, and in neither case could the candidate run. What remains is
that the candidates are the rows the property means, although the pass selects them
after its own recovery: recovery and claims move no row in the queue
(`RecoverKeepsPlaces`, `ClaimsKeepPlaces`) and only rows that were active can be pending
after it, so a row `InWindow` before the pass is among its candidates. The window is part
of the property, since the code reads no further.

### Dedupe keys and cancelled operations

`DedupeStep` splits by action: an enqueue inserts a row only beside no active row of
its key, in the table or earlier in the batch; every other step makes no row active
that was not, since recoveries and retries go from running to pending.
`StartedIsNotStopped` follows the claim pass: its recoveries may change an
operation's status (requeue reopens nothing, an exhausted row may finish it) but never
take back a cancellation (`RecoverKeepsStopped`), so that what the pass reads of the
operation afterwards still shows a cancellation that was there before it.

### Cascades

`CascadeReachesDependents` is about one transaction, but several updates may make it up:
a claim pass fails exhausted rows, cancels their dependents, then cancels candidates and
*their* dependents. `Cascaded(js, new)` says of any stretch of a transaction that no job is
left pending behind a parent that was active before the stretch and is failed or cancelled
after it, that jobs which were not active keep their status, and that parents stay. It
composes (`CascadedTwice`), the second clause being what makes it do so. Each single
cascade has it because the set of dependents is closed: a pending job whose parent is in
it is in it (`DependentsClosed`, `ClosedCascades`), on graphs of any depth and shape.

### Cancel and resume calls

`OperationControlProofs` stands on the invariant of the queue. Each step of a call is a
step of the queue, or one of two things callers do only here, for which the lemmas of
`JobQueueProofs` are stated generally enough: a resume with a total that has gone stale,
and the enqueue of copies without counting (`QueueStep`). To this comes what the calls
know:

    ControlInv == LInv /\ (* the calls are typed *) /\ CallsFit
                  /\ UnsettledIsRebuilt /\ RunningIsCancelled

- `UnsettledIsRebuilt`: an operation whose counters are off has a resume that has still
  its rebuild before it. Only the first step of a resume unsettles an operation and the
  enqueue of its copies does again, and both leave the call before its rebuild; another
  resume's rebuild may settle the counters in between, but no rebuild leaves its own
  operation unsettled. `CountersSettle` follows: without calls nothing is unsettled, and
  `IInv` has the rest.
- `RunningIsCancelled`: a job that runs although its operation was asked to stop is one
  that some cancel of that operation will still abort: it has yet to read the running
  jobs, or the job is on the list it read. The request comes before the read, and after the
  request no claim starts a job of the operation (`StartedIsNotStopped`), so what runs then
  has been running before, and the read finds it. `CancelStopsAll` follows.

A page of copies takes the next free ids in the order of the rows it replaces; that each
copy gets an id, and none gets two, is `EveryRankTaken`.

The theorems of the queue are about its `Next`, which has neither stale resumes nor
uncounted copies, so they are shown again for the queue under calls: by
`QueueStepKeepsLInv` and `QueueStepKeepsLimits` those two steps also are a `JobStep` of
every job, insert beside no active row of their key and start nothing. From these
`CallsKeepTables`, `CallsStartNothingStopped` and the refinement `CallsKeepPromise` follow
as they do in `JobLifecycleProofs`. `CountersMatchRows` excepts operations a resume has
unsettled; that none stays so is `CountersSettled`.

### Slots and rows of the pool

The invariants of `WorkerPoolProofs` rest on the token: a claim raises the attempts of its
row, so a token names one execution at most and is never ahead of its row (`ClaimInv`). A
held slot holds the token of an execution that is not over (`HolderInv`), so releasing by
token releases one's own slot alone; then the count kept by hand differs from the number
of held slots exactly by the slots whose entry was overwritten (`CountInv`), which is
`SlotsAreHeld`. `OwnerInv` says who backs a running row: the execution that has its token and is
in its handler or about to write, or the finalization of an execution that was given up;
it is preserved because an abort changes neither token nor phase (`AbortKeeps`), a shutdown
or an expired grace period turns the one kind of owner into the other, and a write that
fails is recorded in `lost`. `RowHasOwner` is `OwnerInv`.

`ClaimSparesHeld` needs `PollInv`: unless a guard was cleared (`overtaken`), there is one poll at a
time, and the snapshot it took covers every slot of the workers it has still to claim
for. It is stale as soon as it is taken, but only in the harmless direction: slots of
those workers may be given back, and none is taken but by this poll's own claims.

### The pool keeps the queue's promise

`WorkerPool` has rows of its own, and executions, timers and a sweep that write them at
times the queue knows nothing of. `PoolPromised` reads a job of `JobLifecycle` off such a
row: its status, its attempts as claims, its result, and no parent. `RowLives` says what a
step may do to a row; one lemma per kind of write (`WrittenLive`, `RecoveredLive`,
`CancelledLive`, `ClaimLives`) shows that it does no more, `RowsLiveStep` that every action
writes in these ways alone, and `RowLivesAsPromised` that each is a step of
`JobLifecycle`. Besides, a row not yet submitted is blank (`UnusedInv`). A completion
carries the attempt of the execution that writes it, and `OwnsRow` admits it only while the
row runs under that claim, which is why a result is that of the latest claim and a finished
row stays; the mutant `OwnsClaim`, which leaves out that the row runs, breaks the
refinement.

### What goes wrong only by a stale read

Runs `twice` and `drain` show two ways into trouble, a third is a poll that is overtaken
(finding 2). The theorems say that these are the only ones.

- `SweepComparesClaim` is the check `recoverExpiredRows` does not make, that a row it
  recovers is still under the claim that was read. With it, and as long as the watchdog has
  cleared no guard under a poll (`overtaken`), a job is never executed twice at a time. The
  invariant is `WorkInv`: a handler that nothing has told to stop holds its slot, and its
  row is still under its claim, running or cancelled (`AtWorkInv`). A claim cannot start
  such a job again, since by `PollInv` the recovery in the claim spares held jobs. The
  sweep cannot requeue its row: a claim the sweep has read held no slot then and, tokens
  not being used again, holds none later (`SweepInv`). An execution that was told to stop
  keeps its row only until its grace period is over, which is why the invariant is about
  the others; that only those are finalized away is `AbortedInv`.
- `StartsRegistered` is the look at the registry that `poll` takes before its claim and
  not after. With it too no handler of a removed worker is at work, un-aborted, after the
  drain; by `DrainInv` there is none from the moment the removal begins.

### Files of downloads

`CompletedKeepsFile` and `CancelledLeavesNothing` need each other's neighbourhood:

    IInv == DownloadTypeOK /\ BootInv /\ RunInv /\ OutputInv /\ CallInv
            /\ FileInv /\ CompletedKeepsFile

`OutputInv` is what the run knows across its awaits: from the start of ffmpeg on the row has
its file name, and an output that was found good stays until a call that has announced
itself removes it. `CallInv` is the order of the calls: they write the row, or doom it,
before they touch the file. `FileInv` says who will remove the file of a cancelled
download: the call, if it has still to unlink and knew the name, or the run, if it has not
passed its own check; a file without either is one whose clean-up a crash cut short
(`torn`). A call that came too early to see a name meets a run that has yet to look at its
kill-switch, which is where the two halves of the argument touch. `RunInv` and `BootInv`
tie the run to one row and the reconciliation to the rows it has listed.

### Processes and slots of sessions

The starts of a session exclude each other, but by two different means: the
restarts by the mutex, the first start and the restarts because a restart needs a
process to have been attached. `TurnInv` says so by way of the generation: while
it is zero there is no process and no restart, and once it is not the init job is
past its start. `ProcessInv` adds what the entity's handle says: it is null while a
start makes or attaches a process; while a restart waits for the old process,
nothing runs; in a release, the attached process has been killed. With these,

    IInv == SessionsTypeOK /\ TurnInv /\ ProcessInv /\ NoOrphanProcess

is inductive. `NoOrphanProcess` alone is not: detaching a handle, or attaching
another, loses a process unless nothing else of the session runs (`BeginStopped`).
`OneWriter` follows without a step of its own: two processes of a session would be
both attached, or both held by the one start that is busy (`Alone`), or one
attached while another is about to be, which `ProcessInv` excludes.

`NoLeakedSlot` is inductive as it stands. `FirstStartHoldsSlot` needs `SlotInv`, for
the time before the job is queued, and `TurnInv`: every release of a reservation is
by the session's id, and what keeps it from striking a session that is being
created is that its caller belongs to a later or to a failed start. Where that
argument ends, with a restart, begins finding 5. `LimitsKept` says that nothing else leads
there: `Holders`, the sessions with a process or a reservation, grows only by an admission,
which has checked both limits, as long as a restart reserves or attaches for a session that
is among them (`RestartsHoldSlot`, what the comment on `forceReserve` takes for granted).
The first process of a session may be attached without that hypothesis, by
`FirstStartHoldsSlot`, and the request that creates it may reserve again, by
`PreparingInv`. `NoStartAfterEnd` needs `EndedInv`, that no start of a session that ended is still to report.

### One writer at a time

`WritesAlone` needs the queue behind it. `LockInv` of `ServicesProofs` is the conjunction
of `LockTypeOK` and nine facts: promises are resolved in their order (`InOrder`) and belong to one
operation each (`OwnTickets`, `NotIssued`); who waits has a promise that is not resolved
(`Queued`), who runs under his own has an unresolved one with all earlier resolved
(`Turn`); who runs inline runs under somebody who runs (`UnderHolder`); open scopes
belong to running callbacks (`OpenRuns`); and a context that sees an open transaction
sees its lock (`TxSeen`, `TxUnderLock`), without which a nested `transaction` could open a
savepoint beside the holder. `WritesAlone` follows: two holders would each be the first
that is not resolved. Its one assumption is that `NoOp` is no operation.

### No lost wake-up

`WakeUpRemembered` allows the debounce timer to carry the wake-up while a poll is in
flight, and the flag `pollAgain` while none is listed. Inductive is the sharper `Awake`:
while the guard is set the wake-up is with a poll that has still to list or with the
flag, and otherwise with such a poll or the timer, and the loop runs. The watchdog's
recovery, which clears the guard under a poll, keeps it since it triggers after
clearing. `PollLoop` has no assumption.

### Swaps

Both properties are about single steps; what they need of the states before is that an
install runs only in a running process (`JobNeedsProcess`), so that no boot and no
rollback can be that step. The rest is one lemma per way in which a swap may end: done
(`SwapKeeps`), stopped while it moves files aside (`StopsAsideKeeps`), stopped while it
puts new ones in their place, by a crash (`StopsPlacingKeeps`) or by an error that is
undone (`FailsPlacingKeeps`), where what is removed has a backup or was not there
before. The types (`UpdateTypeCorrect`) follow the same cases.

`BinMovesOnly` goes through them with `SwapKeepsBin`: a swap that tests for `bin` leaves it
in place however it ends, so only the script and a rollback of the server, done or failed,
take it away. These are the two places finding 7 names.

### The services together

`MCServices` runs five services as one behaviour. `ServicesKeepApart` shows that it is a
behaviour of each of them, since a step of one leaves the variables of the others alone;
the theorems about each then hold of the composition (`ServicesTypeCorrect`,
`ServicesSafe`). The pool is instantiated together with its theorems, whose assumption
follows from that of the composition (`PoolConstants`).

## What is only model-checked

- All liveness: `RunnableIsClaimed`, `BlockedIsCancelled`, `CreatingEnds`,
  `ReleaseLeavesNothing`, `QueuedRuns`, `DueIsPolled`, `SlotComesBack`, `RowMovesOn` and
  `PendingIsClaimed`. The prover has no rules for fairness or `ENABLED` that would carry
  them, so nothing is proved about progress.
- The composition of `pairs` and of `contention`: their properties are proved of the
  modules they are made of, and of no composition.
- That the code's loop over levels computes the closed set of `PendingDependents` would
  need induction over data, which is out of the prover's reach too.

The type invariant of `StreamingSessions` is proved and in no run's configuration.

## Findings

Each is a run that TLC reports violated, and contradicts a comment of the code, quoted
in `PROJECT.json`.

1. **A retention sweep can delete a live operation**
   (`repositories/worker-operation/retention.writer.ts:57`).
   `cleanupExpiredOperations` and `purgeTerminalOperations` select terminal
   operations, wait for the write lock and then delete by id without looking at the
   status again. A resume, or an enqueue that reopens the operation, that commits
   in between is deleted along with its pending and running jobs. The comment at
   lines 48-50 says this must never happen. Run `retention`.
2. **The sweep can hand out a job that is being executed**
   (`repositories/worker-jobs/claims.writer.ts:383`). It excludes held jobs when it reads
   and recovers in a later transaction that checks `status = 'running'` alone. In run
   `twice` the process is replaced while a job runs, and the lease of its row passes. The
   sweep reads the row; a poll that came for another, pending job commits its claim first,
   which recovers the same lease and starts both jobs; the sweep then requeues the row of
   the healthy execution, and the next poll claims and starts it once more. The job is
   executed twice at a time, against the comment at lines 393-395, and one count of the
   worker is never given back. The run has one poll, so the sweep alone is at fault. A
   poll that was overtaken (the watchdog cleared its guard) gets there without a sweep: its
   claim recovers by a list of active jobs that is as old (`worker-polling.service.ts:177`),
   while another poll claims the job and its lease passes. With a comparison of the claim
   in the sweep only this second way is left (`SecondExecutionIsStale`).
3. **A removed worker can start a handler that nobody stops** (`workers/worker.service.ts:121`).
   A poll that waits for its claim has looked up the worker already; it starts the job
   after everything held was aborted, and the drain, whose purpose lines 200-203 name,
   only waits for it. Run `drain`; another look at the registry after the claim would
   exclude it, finding 2 apart (`HandlersDrained`).
4. **A second resume repeats what is done** (`workers/core/worker-operations.service.ts:128`).
   Resume lists every cancelled row of the operation, those an earlier resume has
   replaced included. After cancel, resume, cancel, resume a completed task runs again.
   Run `resume_twice`.
5. **A restart can exceed the session limit**
   (`modules/streaming/runtime/session-state/session-reservation.tracker.ts:101`).
   `forceReserve` takes a slot without a check, "guaranteed free" since the session was
   just stopped. After a restart whose ffmpeg did not start, the session is active
   without process or reservation; another session is admitted to its slot, and the next
   seek takes it once more. Run `free_slot`; no other step exceeds a limit (`LimitsKept`).
6. **A download can wait beside a free slot** (`modules/downloads/downloads.service.ts:402`).
   Waiting downloads are promoted when a run ends that had claimed its slot. One that was
   promoted and ends before its claim promotes nobody. Run `download_waits`.
7. **An update on Windows moves the bundled ffmpeg away**
   (`services/updates/install/restart.scheduler.ts:57`). The script that swaps the
   directories lacks the test for `bin` that `swapIntoPlace` has; so does the rollback on
   the other platforms. The comment at `update-swap.utils.ts:16-18` says `bin` stays
   live. Run `bin_live`; nothing else moves `bin/` (`BinMovesOnly`).

Also seen in the models and contradicted by no document, or by none that a run is spent
on:
- the claim window, see the bounds above;
- the init job of a session releases the session's reservation by its id, after a
  database write; a seek that reserved it anew meanwhile goes on without
  (`modules/streaming/runtime/stream.initializer.ts:56`);
- whether to report a session as started is decided after that same write, by the
  generation it has by then, so a session can end without having been reported as started
  (`modules/streaming/runtime/streaming.manager.ts:135`);
- the reaper releases a session whose operation was not known when it was picked without
  a second look, even if its process has been attached by then
  (`modules/streaming/runtime/session-state/session.reaper.ts:128`);
- a resume enqueues copies without the dependency of the row they replace
  (`workers/core/worker-operations.service.ts:154`).

Noticed while reading: the comment at `workers/core/worker-operations.service.ts:81-82`
is out of date, since the claim pass does look at the cancel request of an operation
(`claims.writer.ts:114-125`); the property `CancelledNeverStarts` relies on it.

## What is not modelled

Most of the repository, by lines, is not in a model, and much of it would gain nothing
from one:

- *Adapters, parsing and text*: ffmpeg arguments and probes, codec tables, playlists,
  sidecars, images, subtitles, metadata providers, HTTP routes and validation. They keep
  no state across calls; a table of examples is the better test.
- *Scripts, benchmarks, installers*: development tooling.
- *Authentication*: the better-auth library.
- *Realtime*: notifications of state that clients read again; losing one is allowed.
- *Scheduler*: deadlines from cron expressions and intervals. The calendar is most of
  it; its enqueues are calls that may come at any time.
- *Plugin lifecycle*: the largest part with state that is left out. Loading, watching
  and isolating modules is the runtime's; what the removal of a plugin does to jobs is in
  `WorkerPool`.
- *Playback progress*: one read before its transaction, listed as a hazard.
- *Streaming slots of an operation*: the running items that an attached process adds to
  its operation for display.
- *Memory cache, single flight, keyed mutex, limiters*: helpers of one file each.
- *Library scanner and watcher*: the events are the file system's, and what they lead to
  is an enqueue under a dedupe key, which the queue has.

Within the modelled components: the progress percent, timestamps and names; refusals of
a download (quota, duplicates) and its retry; the check for releases; the cap on software
transcodes; a rollback of a resume that itself fails; `cancelAll`, a sequence of cancels.
What TLC cannot reach: timing beyond order (leases, backoffs and timeouts are events, not
durations).
