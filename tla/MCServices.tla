----------------------------- MODULE MCServices -----------------------------
(***************************************************************************)
(* Small instances of the modules that describe one service each: four are *)
(* extended, so that their properties are checked by their own names, and  *)
(* the worker pool, whose names are those of other modules too, is         *)
(* instantiated, with its theorems.  They share no state, so a behaviour   *)
(* is about one of them, which part names; the others stay in their        *)
(* initial states, in which none of their fair actions is enabled.         *)
(***************************************************************************)
EXTENDS WriteLock, PollLoop, UpdateInstall, Downloads

CONSTANTS PoolJob, PoolWorker, PoolPoll, NoWorker, Disturbances

ASSUME ServicesAssumption ==
    /\ IsFiniteSet(PoolJob)
    /\ PoolWorker # {} /\ NoWorker \notin PoolWorker
    /\ Disturbances \in Nat

VARIABLES
    part,
    poolRows, execs, held, count, poolPolls, poolPolling, up, sweep, registered, leaving,
    awaited, cancelling, disturbances, leaked, lost, overtaken

poolVars ==
    <<poolRows, execs, held, count, poolPolls, poolPolling, up, sweep, registered, leaving,
      awaited, cancelling, disturbances, leaked, lost, overtaken>>

OnlyWorkerOf == [j \in PoolJob |-> CHOOSE w \in PoolWorker : TRUE]
OneAttempt == [j \in PoolJob |-> 1]
OneSlot == [w \in PoolWorker |-> 1]

pool ==
    INSTANCE WorkerPoolProofs WITH
        Poll <- PoolPoll, PoolWorkerOf <- OnlyWorkerOf, PoolMaxAttempts <- OneAttempt,
        PoolConcurrency <- OneSlot, PoolMax <- 1, DisturbanceBound <- Disturbances,
        rows <- poolRows, polls <- poolPolls, isPolling <- poolPolling

ServicesInit ==
    /\ part \in {"writes", "loop", "pool", "update", "downloads"}
    /\ LockInit
    /\ LoopInit
    /\ part # "loop" => due = {}
    /\ pool!PoolInit
    /\ UpdateInit
    /\ part # "update" => windows = FALSE
    /\ DownloadInit

ServicesNext ==
    \/ /\ part = "writes" /\ LockNext
       /\ UNCHANGED <<part, loopVars, poolVars, updateVars, downloadVars>>
    \/ /\ part = "loop" /\ LoopNext
       /\ UNCHANGED <<part, lockVars, poolVars, updateVars, downloadVars>>
    \/ /\ part = "pool" /\ pool!PoolNext
       /\ UNCHANGED <<part, lockVars, loopVars, updateVars, downloadVars>>
    \/ /\ part = "update" /\ UpdateNext
       /\ UNCHANGED <<part, lockVars, loopVars, poolVars, downloadVars>>
    \/ /\ part = "downloads" /\ DownloadNext
       /\ UNCHANGED <<part, lockVars, loopVars, poolVars, updateVars>>

ServicesSpec ==
    /\ ServicesInit
    /\ [][ServicesNext]_<<part, lockVars, loopVars, poolVars, updateVars, downloadVars>>
    /\ LockFairness /\ LoopFairness /\ pool!PoolFairness
-----------------------------------------------------------------------------
(* Every variable has its type: those of the services together, so that    *)
(* one invariant says it of all of them.                                   *)
AllTypesOK ==
    LockTypeOK /\ LoopTypeOK /\ pool!PoolTypeOK /\ UpdateTypeOK /\ DownloadTypeOK

SlotComesBack == pool!SlotComesBack
RowMovesOn == pool!RowMovesOn
PendingIsClaimed == pool!PendingIsClaimed
=============================================================================
