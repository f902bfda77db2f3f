------------------------------ MODULE Downloads ------------------------------
(***************************************************************************)
(* The offline downloads of one profile (modules/downloads): the rows, the *)
(* runs that transcode them, the promotion of waiting downloads to jobs,   *)
(* cancellation, deletion and the reconciliation at boot, interleaved at   *)
(* every await.                                                            *)
(*                                                                         *)
(* The worker downloads-process runs one job at a time with one attempt    *)
(* (config/server/workers.config.ts), so a download has at most one job    *)
(* and there is at most one run.  Database calls and removals of files are *)
(* assumed to succeed.  Every download is of a media file of its own.      *)
(***************************************************************************)
EXTENDS Integers, FiniteSetsExt

CONSTANTS
    Last,       \* bound: downloads are 1..Last, in the order of their creation
    Slots,      \* downloads.maxConcurrentPerProfile
    Promoter,   \* bound: calls of promoteQueued under way at once
    DownloadMishaps \* bound: restarts of the server and jobs the pool aborts

ASSUME DownloadAssumption ==
    /\ Last \in Nat
    /\ Slots \in Nat
    /\ DownloadMishaps \in Nat

Download == 1..Last

VARIABLES
    row,        \* the status of each row, "absent" before and "deleted" after
    named,      \* whether fileName is recorded in the row
    file,       \* whether the output is on disk
    source,     \* whether the media file is still in the library
    job,        \* the active job of the download in the queue
    run,        \* the run of the worker
    promotion,  \* the calls of promoteQueued
    call,       \* the cancel or delete call on a download
    boot,       \* the reconciliation
    downloadMishaps,
    doomed,     \* history: downloads whose deletion has begun
    torn        \* history: downloads whose cancellation a crash cut short

rows == <<row, named, file, source>>
downloadVars == <<rows, job, run, promotion, call, boot, downloadMishaps, doomed, torn>>

Active == {"pending", "processing"}
Terminal == {"completed", "failed", "cancelled"}

With(status) == { d \in Download : row[d] = status }

NoRun ==
    [ d |-> 0, at |-> "idle", ok |-> FALSE, threw |-> FALSE, aborted |-> FALSE,
      signal |-> FALSE ]

NoPromotion == [at |-> "idle", todo |-> {}]
NoCall == [op |-> "none", at |-> "idle", named |-> FALSE]
BootListing == [at |-> "list", d |-> 0, todo |-> {}]

\* The steps of a run during which abortHandles holds its kill-switch.
Registered ==
    {"prepare", "spawn", "ffmpeg", "finalize", "fail", "complete", "check", "drop", "release"}

RunStep ==
    Registered \cup
        {"idle", "load", "missing", "source", "claim", "claimed", "leave", "thrown", "settle"}

RunState ==
    [ d : Download \cup {0}, at : RunStep, ok : BOOLEAN, threw : BOOLEAN, aborted : BOOLEAN,
      signal : BOOLEAN ]

PromotionState ==
    [at : {"idle", "count", "find", "enqueue"}, todo : SUBSET (Download \cup 1..Slots)]

CallState ==
    [ op : {"none", "cancel", "delete"}, at : {"idle", "write", "kill", "unlink", "remove"},
      named : BOOLEAN ]

BootState ==
    [at : {"list", "check", "enqueue", "done"}, d : Download \cup {0}, todo : SUBSET Download]

DownloadTypeOK ==
    /\ row \in [Download -> Active \cup Terminal \cup {"absent", "deleted"}]
    /\ {named, file, source} \subseteq [Download -> BOOLEAN]
    /\ job \in [Download -> {"none", "queued", "running"}]
    /\ run \in RunState /\ promotion \in [Promoter -> PromotionState]
    /\ call \in [Download -> CallState] /\ boot \in BootState
    /\ downloadMishaps \in 0..DownloadMishaps
    /\ doomed \subseteq Download /\ torn \subseteq Download

DownloadInit ==
    /\ row = [d \in Download |-> "absent"]
    /\ named = [d \in Download |-> FALSE]
    /\ file = named
    /\ source = [d \in Download |-> TRUE]
    /\ job = [d \in Download |-> "none"]
    /\ run = NoRun
    /\ promotion = [p \in Promoter |-> NoPromotion]
    /\ call = [d \in Download |-> NoCall]
    /\ boot = BootListing
    /\ downloadMishaps = 0 /\ doomed = {} /\ torn = {}

SetRow(d, status) == row' = [row EXCEPT ![d] = status]

\* addItem with the download's id as dedupe key: an active job is left alone.
Enqueue(d) == job' = [job EXCEPT ![d] = IF @ = "none" THEN "queued" ELSE @]
-----------------------------------------------------------------------------
(* promoteQueued: counts the running downloads, reads the oldest waiting   *)
(* ones and enqueues them, with an await before each.                      *)
Promoting ==
    \E p \in Promoter :
        /\ promotion[p] = NoPromotion
        /\ promotion' = [promotion EXCEPT ![p].at = "count"]

FreeSlots == Slots - Cardinality(With("processing"))

Oldest(S, n) == { d \in S : Cardinality({ e \in S : e < d }) < n }

\* The number of free slots is carried as the downloads it leaves room for.
Count(p) ==
    /\ promotion[p].at = "count"
    /\ promotion' = [promotion EXCEPT ![p] =
           IF FreeSlots <= 0 THEN NoPromotion ELSE [at |-> "find", todo |-> 1..FreeSlots]]
    /\ UNCHANGED <<rows, job, run, call, boot, downloadMishaps, doomed, torn>>

Find(p) ==
    /\ promotion[p].at = "find"
    /\ LET found == Oldest(With("pending"), Cardinality(promotion[p].todo))
       IN  promotion' = [promotion EXCEPT ![p] =
               IF found = {} THEN NoPromotion ELSE [at |-> "enqueue", todo |-> found]]
    /\ UNCHANGED <<rows, job, run, call, boot, downloadMishaps, doomed, torn>>

EnqueueNext(p) ==
    /\ promotion[p].at = "enqueue"
    /\ LET d == Min(promotion[p].todo)
           rest == promotion[p].todo \ {d}
       IN  /\ Enqueue(d)
           /\ promotion' = [promotion EXCEPT ![p] =
                  IF rest = {} THEN NoPromotion ELSE [@ EXCEPT !.todo = rest]]
    /\ UNCHANGED <<rows, run, call, boot, downloadMishaps, doomed, torn>>

(* prepare: the row is written, then the queue is promoted.  The server    *)
(* listens only after the reconciliation.                                  *)
Request(d) ==
    /\ boot.at = "done"
    /\ row[d] = "absent" /\ \A e \in 1..(d - 1) : row[e] # "absent"
    /\ source[d]
    /\ SetRow(d, "pending")
    /\ Promoting
    /\ UNCHANGED <<named, file, source, job, run, call, boot, downloadMishaps, doomed, torn>>
-----------------------------------------------------------------------------
(* The worker's handler and DownloadsService.process, up to the claim.     *)
StartRun(d) ==
    /\ run.at = "idle" /\ job[d] = "queued"
    /\ job' = [job EXCEPT ![d] = "running"]
    /\ run' = [NoRun EXCEPT !.d = d, !.at = "load"]
    /\ UNCHANGED <<rows, promotion, call, boot, downloadMishaps, doomed, torn>>

At(step) == run.at = step
Go(step) == run' = [run EXCEPT !.at = step]
OthersOfRun == <<call, boot, downloadMishaps, doomed, torn>>

LoadTo ==
    IF run.signal \/ row[run.d] = "deleted" THEN "thrown"
    ELSE IF row[run.d] = "pending" THEN "source" ELSE "settle"

Load ==
    /\ At("load") /\ Go(LoadTo)
    /\ UNCHANGED <<rows, job, promotion, OthersOfRun>>

FindSource ==
    /\ At("source") /\ Go(IF source[run.d] THEN "claim" ELSE "missing")
    /\ UNCHANGED <<rows, job, promotion, OthersOfRun>>

\* failIfActive, in a row that may have changed since it was read.
FailIfActive(d) ==
    IF row[d] \in Active THEN SetRow(d, "failed") ELSE UNCHANGED row

FailMissingSource ==
    /\ At("missing") /\ FailIfActive(run.d) /\ Go("settle")
    /\ UNCHANGED <<named, file, source, job, promotion, OthersOfRun>>

Claim ==
    /\ At("claim")
    /\ IF row[run.d] = "pending" /\ FreeSlots > 0
         THEN SetRow(run.d, "processing") /\ Go("claimed")
         ELSE UNCHANGED row /\ Go("settle")
    /\ UNCHANGED <<named, file, source, job, promotion, OthersOfRun>>

\* runClaimedDownload registers the kill-switch; the directory is not a file.
Register ==
    /\ At("claimed") /\ Go("prepare")
    /\ UNCHANGED <<rows, job, promotion, OthersOfRun>>

RecordName ==
    /\ At("prepare") /\ Go("spawn")
    /\ named' = IF row[run.d] = "deleted" THEN named ELSE [named EXCEPT ![run.d] = TRUE]
    /\ UNCHANGED <<row, file, source, job, promotion, OthersOfRun>>

\* ffmpeg is started, or cannot be, unless the run was stopped before.
Spawn ==
    /\ At("spawn")
    /\ \/ run.aborted /\ Go("drop") /\ UNCHANGED file
       \/ ~run.aborted /\ Go("release") /\ UNCHANGED file
       \/ ~run.aborted /\ ~run.signal /\ Go("ffmpeg") /\ file' = [file EXCEPT ![run.d] = TRUE]
    /\ UNCHANGED <<row, named, source, job, promotion, OthersOfRun>>

\* A run that was stopped may have ended well just before.
FfmpegExits ==
    /\ At("ffmpeg")
    /\ \E ok \in {FALSE, file[run.d]} : run' = [run EXCEPT !.at = "finalize", !.ok = ok]
    /\ UNCHANGED <<rows, job, promotion, OthersOfRun>>
-----------------------------------------------------------------------------
(* finalizeDownload.  ok stands for the exit code, an output that is not   *)
(* empty and the storage quota.                                            *)
Finalized ==
    IF row[run.d] = "cancelled" THEN "drop" ELSE IF run.ok THEN "complete" ELSE "fail"

Finalize ==
    /\ At("finalize") /\ Go(Finalized)
    /\ UNCHANGED <<rows, job, promotion, OthersOfRun>>

FailFinalizing ==
    /\ At("fail")
    /\ FailIfActive(run.d)
    /\ Go(IF row[run.d] \in Active THEN "drop" ELSE "check")
    /\ UNCHANGED <<named, file, source, job, promotion, OthersOfRun>>

\* Faulty variant: a row that is cancelled or waits again is completed.
CompletableUnlessGone(d) == row[d] # "deleted"

Completable(d) == row[d] = "processing"

CompleteProcessing ==
    /\ At("complete")
    /\ IF Completable(run.d)
         THEN SetRow(run.d, "completed") /\ Go("leave")
         ELSE UNCHANGED row /\ Go("check")
    /\ UNCHANGED <<named, file, source, job, promotion, OthersOfRun>>

DeleteOutputUnlessCompleted ==
    /\ At("check") /\ Go(IF row[run.d] = "completed" THEN "leave" ELSE "drop")
    /\ UNCHANGED <<rows, job, promotion, OthersOfRun>>

DropOutput ==
    /\ At("drop") /\ file' = [file EXCEPT ![run.d] = FALSE] /\ Go("leave")
    /\ UNCHANGED <<row, named, source, job, promotion, OthersOfRun>>

\* A run that throws hands its slot back.
ReleaseClaim ==
    /\ At("release")
    /\ IF row[run.d] = "processing" THEN SetRow(run.d, "pending") ELSE UNCHANGED row
    /\ run' = [run EXCEPT !.at = "leave", !.threw = TRUE]
    /\ UNCHANGED <<named, file, source, job, promotion, OthersOfRun>>

\* The finally block of process; the promotion goes on by itself.
Leave ==
    /\ At("leave") /\ Go(IF run.threw THEN "thrown" ELSE "settle")
    /\ Promoting
    /\ UNCHANGED <<rows, job, OthersOfRun>>

\* The worker's catch: its one attempt was the last, so the download fails.
MarkFailed ==
    /\ At("thrown") /\ Go("settle")
    /\ IF ~run.signal /\ row[run.d] \in Active
         THEN SetRow(run.d, "failed") /\ Promoting
         ELSE UNCHANGED <<row, promotion>>
    /\ UNCHANGED <<named, file, source, job, OthersOfRun>>

\* The pool writes the outcome: the job is not active any more.
Settle ==
    /\ At("settle")
    /\ job' = [job EXCEPT ![run.d] = "none"]
    /\ run' = NoRun
    /\ UNCHANGED <<rows, promotion, OthersOfRun>>

\* The pool aborts the job (timeout, cancellation, shutdown); ffmpeg listens.
PoolAborts ==
    /\ downloadMishaps < DownloadMishaps /\ downloadMishaps' = downloadMishaps + 1
    /\ run.at \notin {"idle", "settle"} /\ ~run.signal
    /\ run' = [run EXCEPT !.signal = TRUE, !.aborted = @ \/ run.at = "ffmpeg"]
    /\ UNCHANGED <<rows, job, promotion, call, boot, doomed, torn>>
-----------------------------------------------------------------------------
(* cancel and delete.  What a call goes on with is the row it has read.    *)
ToCall(d, step) == call' = [call EXCEPT ![d].at = step]
EndCall(d) == call' = [call EXCEPT ![d] = NoCall]

CancelBegin(d) ==
    /\ boot.at = "done" /\ call[d] = NoCall
    /\ row[d] \notin {"absent", "deleted", "completed"}
    /\ call' = [call EXCEPT ![d] = [op |-> "cancel", at |-> "write", named |-> FALSE]]
    /\ UNCHANGED <<rows, job, run, promotion, boot, downloadMishaps, doomed, torn>>

CancelWrite(d) ==
    /\ call[d].at = "write"
    /\ IF row[d] \in {"deleted", "completed"}
         THEN UNCHANGED row /\ EndCall(d)
         ELSE /\ SetRow(d, "cancelled")
              /\ call' = [call EXCEPT ![d].at = "kill", ![d].named = named[d]]
    /\ UNCHANGED <<named, file, source, job, run, promotion, boot, downloadMishaps, doomed, torn>>

DeleteBegin(d) ==
    /\ boot.at = "done" /\ call[d] = NoCall
    /\ row[d] \notin {"absent", "deleted"}
    /\ call' = [call EXCEPT ![d] = [op |-> "delete", at |-> "kill", named |-> named[d]]]
    /\ doomed' = doomed \cup {d}
    /\ UNCHANGED <<rows, job, run, promotion, boot, downloadMishaps, torn>>

\* One row of sweepExpired: it is days old, and no run is behind it.
Expire(d) ==
    /\ call[d] = NoCall
    /\ row[d] \in Terminal /\ run.d # d
    /\ call' = [call EXCEPT ![d] =
           [op |-> "delete", at |-> IF named[d] THEN "unlink" ELSE "remove", named |-> named[d]]]
    /\ doomed' = doomed \cup {d}
    /\ UNCHANGED <<rows, job, run, promotion, boot, downloadMishaps, torn>>

\* Faulty variant: cancel leaves the file to the run.
RunDropsIt(c) == IF c.op = "delete" THEN "remove" ELSE "idle"

AfterKill(c) ==
    IF c.named THEN "unlink" ELSE IF c.op = "delete" THEN "remove" ELSE "idle"

KillInFlight(d) ==
    /\ call[d].at = "kill"
    /\ run' = [run EXCEPT !.aborted = @ \/ (run.d = d /\ run.at \in Registered)]
    /\ IF AfterKill(call[d]) = "idle" THEN EndCall(d) ELSE ToCall(d, AfterKill(call[d]))
    /\ UNCHANGED <<rows, job, promotion, boot, downloadMishaps, doomed, torn>>

DeleteDownloadFile(d) ==
    /\ call[d].at = "unlink"
    /\ file' = [file EXCEPT ![d] = FALSE]
    /\ IF call[d].op = "delete" THEN ToCall(d, "remove") ELSE EndCall(d)
    /\ UNCHANGED <<row, named, source, job, run, promotion, boot, downloadMishaps, doomed, torn>>

DeleteRow(d) ==
    /\ call[d].at = "remove"
    /\ SetRow(d, "deleted") /\ EndCall(d)
    /\ UNCHANGED <<named, file, source, job, run, promotion, boot, downloadMishaps, doomed, torn>>

\* The directory of a download without a row, on the next retention sweep.
SweepOrphanArtifacts(d) ==
    /\ row[d] = "deleted" /\ file[d]
    /\ file' = [file EXCEPT ![d] = FALSE]
    /\ UNCHANGED <<row, named, source, job, run, promotion, call, boot, downloadMishaps, doomed,
                   torn>>
-----------------------------------------------------------------------------
(* reconcileOnStartup, which runs while the workers already poll.          *)
ReconcileList ==
    /\ boot.at = "list"
    /\ boot' = IF With("pending") \cup With("processing") = {}
                 THEN [BootListing EXCEPT !.at = "done"]
                 ELSE [at |-> "check", d |-> 0, todo |-> With("pending") \cup With("processing")]
    /\ UNCHANGED <<rows, job, run, promotion, call, downloadMishaps, doomed, torn>>

NextStale(rest) == boot' = [at |-> IF rest = {} THEN "done" ELSE "check", d |-> 0, todo |-> rest]

\* The missing source fails the row; a row that is still active is reset.
ReconcileRow ==
    /\ boot.at = "check"
    /\ LET d == Min(boot.todo)
           rest == boot.todo \ {d}
       IN  IF source[d] /\ row[d] \in Active
             THEN SetRow(d, "pending") /\ boot' = [at |-> "enqueue", d |-> d, todo |-> rest]
             ELSE FailIfActive(d) /\ NextStale(rest)
    /\ UNCHANGED <<named, file, source, job, run, promotion, call, downloadMishaps, doomed, torn>>

ReconcileEnqueue ==
    /\ boot.at = "enqueue"
    /\ Enqueue(boot.d)
    /\ NextStale(boot.todo)
    /\ UNCHANGED <<rows, run, promotion, call, downloadMishaps, doomed, torn>>

\* The media file is removed from the library, and its download with it
\* (ON DELETE CASCADE); the output stays on disk.
SourceLost(d) ==
    /\ source[d] /\ row[d] \notin {"absent", "deleted"}
    /\ source' = [source EXCEPT ![d] = FALSE]
    /\ SetRow(d, "deleted")
    /\ UNCHANGED <<named, file, job, run, promotion, call, boot, downloadMishaps, doomed, torn>>

\* The server goes down, and up to the end of the workers' recovery, which
\* fails the job of the run: its one attempt is used up.
Restart ==
    /\ downloadMishaps < DownloadMishaps
    /\ downloadMishaps' = downloadMishaps + 1
    /\ job' = [d \in Download |-> IF job[d] = "running" THEN "none" ELSE job[d]]
    /\ run' = NoRun
    /\ promotion' = [p \in Promoter |-> NoPromotion]
    /\ call' = [d \in Download |-> NoCall]
    /\ boot' = BootListing
    /\ torn' = torn \cup
           { d \in With("cancelled") : call[d] # NoCall \/ run.d = d }
    /\ UNCHANGED <<rows, doomed>>
-----------------------------------------------------------------------------
RunNext ==
    \/ Load \/ FindSource \/ FailMissingSource \/ Claim \/ Register \/ RecordName \/ Spawn
    \/ FfmpegExits \/ Finalize \/ FailFinalizing \/ CompleteProcessing
    \/ DeleteOutputUnlessCompleted \/ DropOutput \/ ReleaseClaim \/ Leave
    \/ MarkFailed \/ Settle \/ PoolAborts

DownloadNext ==
    \/ \E p \in Promoter : Count(p) \/ Find(p) \/ EnqueueNext(p)
    \/ \E d \in Download :
         \/ Request(d) \/ StartRun(d) \/ SourceLost(d)
         \/ CancelBegin(d) \/ CancelWrite(d) \/ DeleteBegin(d) \/ Expire(d)
         \/ KillInFlight(d) \/ DeleteDownloadFile(d) \/ DeleteRow(d)
         \/ SweepOrphanArtifacts(d)
    \/ RunNext
    \/ ReconcileList \/ ReconcileRow \/ ReconcileEnqueue
    \/ Restart

DownloadSpec == DownloadInit /\ [][DownloadNext]_downloadVars
-----------------------------------------------------------------------------
(* A download shown as completed has its file, and the file's name, unless *)
(* its deletion has begun: whatever the order in which the run finalizes,  *)
(* a cancel or the reconciliation changes the row and files are removed    *)
(* (completeProcessing, deleteOutputUnlessCompleted, deleteDownloadFile).  *)
CompletedKeepsFile ==
    \A d \in With("completed") \ doomed : file[d] /\ named[d]

(* A cancelled download leaves nothing on disk once its cancel call and    *)
(* its run are over: either the call removes the file or the run does,     *)
(* whichever learns of the other (cancel, finalizeDownload).  A crash in   *)
(* the middle leaves the file to the retention sweep.                      *)
CancelledLeavesNothing ==
    \A d \in With("cancelled") \ torn :
        run.d # d /\ call[d] = NoCall => ~file[d]

(* When nothing is under way, no download waits while a running slot is    *)
(* free: "otherwise it waits and is started when a slot frees up"          *)
(* (downloads.service.ts, process).  The code breaks this: a run that ends *)
(* before its claim, since its download was cancelled or deleted           *)
(* meanwhile, promotes nobody.                                             *)
Quiet ==
    /\ run = NoRun /\ boot.at = "done"
    /\ \A p \in Promoter : promotion[p] = NoPromotion
    /\ \A d \in Download : call[d] = NoCall /\ job[d] = "none"

WaitingIsServed == Quiet /\ FreeSlots > 0 => With("pending") = {}
==============================================================================
