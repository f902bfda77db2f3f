-------------------------- MODULE MCServicesProofs --------------------------
(***************************************************************************)
(* The services that are checked together keep apart: the composition is   *)
(* an instance of each of their specifications, so what is proved of one   *)
(* holds in it too.                                                        *)
(***************************************************************************)
EXTENDS MCServices, ServicesProofs, DownloadsProofs

LEMMA PoolConstants == pool!PoolAssumption
BY ServicesAssumption
   DEF pool!PoolAssumption, OnlyWorkerOf, OneAttempt, OneSlot, IsFiniteSet, pool!IsFiniteSet

\* Only one service moves in a step, and the others do not change at all.
LEMMA ServicesStep ==
  ASSUME [ServicesNext]_<<part, lockVars, loopVars, poolVars, updateVars, downloadVars>>
  PROVE  /\ [LockNext]_lockVars
         /\ [LoopNext]_loopVars
         /\ [pool!PoolNext]_(pool!poolVars)
         /\ [UpdateNext]_updateVars
         /\ [DownloadNext]_downloadVars
<1>1. UNCHANGED poolVars => UNCHANGED pool!poolVars
  BY DEF poolVars, pool!poolVars, pool!rowVars, pool!slotVars, pool!pollVars, pool!workerVars
<1>. QED
  BY <1>1 DEF ServicesNext

\* The composition of `services` lets every service do only what its own specification allows, so
\* that each safety theorem about one of them is one about the run.
THEOREM ServicesKeepApart ==
  ServicesSpec => LockSpec /\ LoopSpec /\ pool!PoolSpec /\ UpdateSpec /\ DownloadSpec
<1>1. ServicesInit => LockInit /\ LoopInit /\ pool!PoolInit /\ UpdateInit /\ DownloadInit
  BY DEF ServicesInit
<1>. QED
  BY <1>1, ServicesStep, PTL
     DEF ServicesSpec, LockSpec, LoopSpec, pool!PoolSpec, UpdateSpec, DownloadSpec

\* Every variable of every service has its type in every behaviour of the composition.
THEOREM ServicesTypeCorrect == ServicesSpec => []AllTypesOK
BY ServicesKeepApart, WriteLockTypeCorrect, PollLoopTypeCorrect, pool!WorkerPoolTypeCorrect,
   PoolConstants, UpdateTypeCorrect, DownloadsTypeCorrect, PTL DEF AllTypesOK

\* So what is proved of each service holds while the others are there: writes do not overlap, no
\* wake-up is lost, downloads and updates keep their files, and a row that runs has an owner.
THEOREM ServicesSafe ==
  ServicesSpec =>
    /\ [](WritesAlone /\ WakeUpRemembered /\ CompletedKeepsFile /\ CancelledLeavesNothing)
    /\ [](pool!SlotsAreHeld /\ pool!RowHasOwner)
    /\ SwapLosesNothing /\ CancelledReplacesNothing
BY ServicesKeepApart, OneWriterAtATime, NoLostWakeUp, CompletedHasFile, CancelledIsCleared,
   PoolConstants, pool!SlotsCorrect, pool!RowsHaveOwners, SwapKeepsFiles, CancelKeepsFiles, PTL
=============================================================================
