---------------------------- MODULE DownloadsProofs ----------------------------
(***************************************************************************)
(* Theorems about Downloads, for any number of downloads, slots, calls of  *)
(* promoteQueued and mishaps.                                              *)
(***************************************************************************)
EXTENDS Downloads, FiniteSetTheorems, WellFoundedInduction, TLAPS

\* A run is of a download; it completes the row in its last steps, or finds it
\* completed by an earlier one.
RunInv ==
    /\ run.at = "idle" <=> run.d = 0
    /\ run.d # 0 /\ row[run.d] = "completed" => run.at \in {"load", "leave", "thrown", "settle"}

\* What a run of a row that is still there knows: the name was recorded before
\* ffmpeg started, and an output that was found good is there unless a call on the
\* download has removed it.
OutputInv ==
    /\ run.at \in {"spawn", "ffmpeg", "finalize", "complete"} /\ row[run.d] # "deleted" =>
           named[run.d]
    /\ run.at = "complete" => run.ok
    /\ /\ run.at \in {"finalize", "complete"} /\ run.ok
       /\ row[run.d] \notin {"cancelled", "deleted"} /\ run.d \notin doomed
       => file[run.d]

\* A call removes the file only after it has told the others.
CallInv ==
    \A d \in Download :
        /\ call[d].at \in {"write", "kill", "unlink", "remove"} => call[d].op # "none"
        /\ call[d].at = "write" => call[d].op = "cancel"
        /\ call[d].at = "remove" => call[d].op = "delete"
        /\ call[d].at \in {"kill", "unlink"} /\ call[d].op = "cancel" =>
               row[d] \in {"cancelled", "deleted"}
        /\ call[d].at \in {"kill", "unlink", "remove"} /\ call[d].op = "delete" => d \in doomed

\* Who removes the file of a cancelled download: its call, or its run.
CallRemoves(d) == call[d].at = "unlink" \/ (call[d].at = "kill" /\ call[d].named)
RunRemoves(d) ==
    run.d = d /\ run.at \in {"ffmpeg", "finalize", "complete", "fail", "check", "drop"}

FileInv ==
    \A d \in Download :
        /\ file[d] /\ row[d] # "deleted" => named[d]
        /\ row[d] = "cancelled" /\ d \notin torn /\ file[d] => CallRemoves(d) \/ RunRemoves(d)

BootInv == boot.at = "check" => boot.todo # {}

IInv ==
    DownloadTypeOK /\ BootInv /\ RunInv /\ OutputInv /\ CallInv /\ FileInv /\ CompletedKeepsFile
-----------------------------------------------------------------------------
LEMMA MinIsIn ==
  ASSUME NEW S \in SUBSET Nat, S # {}
  PROVE  Min(S) \in S
<1> DEFINE R == {p \in Nat \X Nat : p[1] < p[2]}
<1>1. IsWellFoundedOn(R, Nat)
  BY NatLessThanWellFounded DEF OpToRel
<1>2. PICK x \in S : \A y \in S : <<y, x>> \notin R
  BY <1>1, WFMin
<1>3. \A y \in S : ~(y < x)
  <2> SUFFICES ASSUME NEW y \in S, y < x PROVE FALSE
    OBVIOUS
  <2>1. <<y, x>> \in R
    OBVIOUS
  <2>2. QED
    BY <1>2, <2>1
<1>4. QED
  <2>1. \A y \in S : x =< y
    BY <1>3
  <2>2. QED
    BY <2>1 DEF Min

LEMMA FreeSlotsType == FreeSlots \in Int /\ FreeSlots =< Slots
<1>1. With("processing") \subseteq Download
  BY DEF With
<1>2. IsFiniteSet(Download)
  BY FS_Interval, DownloadAssumption DEF Download
<1>3. Cardinality(With("processing")) \in Nat
  BY <1>1, <1>2, FS_Subset, FS_CardinalityType
<1>4. QED
  BY <1>3, DownloadAssumption DEF FreeSlots

LEMMA DownloadNat == Download \subseteq Nat \ {0}
BY DownloadAssumption DEF Download
-----------------------------------------------------------------------------
(* How the records of a run, a promotion and a call change their steps.    *)
LEMMA RunMoves ==
  ASSUME DownloadTypeOK, NEW step \in RunStep
  PROVE  [run EXCEPT !.at = step] \in RunState
BY DEF DownloadTypeOK, RunState

LEMMA RunMarked ==
  ASSUME DownloadTypeOK, NEW step \in RunStep, NEW b \in BOOLEAN, NEW c \in BOOLEAN
  PROVE  /\ [run EXCEPT !.at = step, !.ok = b] \in RunState
         /\ [run EXCEPT !.at = step, !.threw = b] \in RunState
         /\ [run EXCEPT !.aborted = b] \in RunState
         /\ [run EXCEPT !.signal = b, !.aborted = c] \in RunState
BY DEF DownloadTypeOK, RunState

LEMMA PromotionMoves ==
  ASSUME DownloadTypeOK, NEW p \in Promoter
  PROVE  /\ promotion[p].todo \subseteq Download \cup 1..Slots
         /\ \A q \in PromotionState :
              [promotion EXCEPT ![p] = q] \in [Promoter -> PromotionState]
         /\ [promotion EXCEPT ![p].at = "count"] \in [Promoter -> PromotionState]
         /\ \A T \in SUBSET promotion[p].todo :
              [promotion[p] EXCEPT !.todo = T] \in PromotionState
BY DEF DownloadTypeOK, PromotionState

LEMMA PromotingTyped ==
  ASSUME DownloadTypeOK, Promoting
  PROVE  promotion' \in [Promoter -> PromotionState]
BY PromotionMoves DEF Promoting

LEMMA CallMoves ==
  ASSUME DownloadTypeOK, NEW d \in Download
  PROVE  /\ \A c \in CallState : [call EXCEPT ![d] = c] \in [Download -> CallState]
         /\ EndCall(d) => call' \in [Download -> CallState]
         /\ \A step \in {"kill", "unlink", "remove"} :
              ToCall(d, step) => call' \in [Download -> CallState]
         /\ [call EXCEPT ![d].at = "kill", ![d].named = named[d]] \in [Download -> CallState]
<1>1. named[d] \in BOOLEAN
  BY DEF DownloadTypeOK
<1>2. call[d] \in CallState /\ NoCall \in CallState
  BY DEF DownloadTypeOK, CallState, NoCall
<1>3. ASSUME NEW c \in CallState PROVE [call EXCEPT ![d] = c] \in [Download -> CallState]
  BY DEF DownloadTypeOK
<1>4. ASSUME NEW step \in {"kill", "unlink", "remove"}
      PROVE  [call EXCEPT ![d].at = step] \in [Download -> CallState]
  <2>1. [call[d] EXCEPT !.at = step] \in CallState
    BY <1>2 DEF CallState
  <2>2. [call EXCEPT ![d].at = step] = [call EXCEPT ![d] = [call[d] EXCEPT !.at = step]]
    BY DEF DownloadTypeOK
  <2>3. QED
    BY <2>1, <2>2, <1>3
<1>5. [call EXCEPT ![d].at = "kill", ![d].named = named[d]] \in [Download -> CallState]
  <2>1. [call[d] EXCEPT !.at = "kill", !.named = named[d]] \in CallState
    BY <1>1, <1>2 DEF CallState
  <2>2. [call EXCEPT ![d].at = "kill", ![d].named = named[d]]
            = [call EXCEPT ![d] = [call[d] EXCEPT !.at = "kill", !.named = named[d]]]
    BY DEF DownloadTypeOK
  <2>3. QED
    BY <2>1, <2>2, <1>3
<1>6. QED
  BY <1>2, <1>3, <1>4, <1>5 DEF EndCall, ToCall

LEMMA RowMoves ==
  ASSUME DownloadTypeOK, NEW d \in Download,
         NEW status \in Active \cup Terminal \cup {"absent", "deleted"}
  PROVE  [row EXCEPT ![d] = status] \in [Download -> Active \cup Terminal \cup {"absent", "deleted"}]
BY DEF DownloadTypeOK
LEMMA TypeStep ==
  ASSUME DownloadTypeOK, BootInv, RunInv, [DownloadNext]_downloadVars
  PROVE  DownloadTypeOK'
<1>1. ASSUME NEW p \in Promoter, Count(p) PROVE DownloadTypeOK'
  BY <1>1, PromotionMoves, FreeSlotsType, DownloadAssumption DEF Count, NoPromotion, rows,
     DownloadTypeOK, PromotionState
<1>2. ASSUME NEW p \in Promoter, Find(p) PROVE DownloadTypeOK'
  BY <1>2, PromotionMoves DEF Find, NoPromotion, rows, Oldest, With, DownloadTypeOK,
     PromotionState
<1>3. ASSUME NEW p \in Promoter, EnqueueNext(p) PROVE DownloadTypeOK'
  BY <1>3, PromotionMoves DEF EnqueueNext, NoPromotion, Enqueue, rows, DownloadTypeOK,
     PromotionState
<1>4. ASSUME NEW d \in Download, Request(d) PROVE DownloadTypeOK'
  BY <1>4, RowMoves, PromotingTyped DEF Request, SetRow, Promoting, DownloadTypeOK, Active,
     Terminal
<1>5. ASSUME NEW d \in Download, StartRun(d) PROVE DownloadTypeOK'
  BY <1>5 DEF StartRun, NoRun, rows, DownloadTypeOK, RunStep, RunState
<1>6. ASSUME NEW d \in Download, SourceLost(d) PROVE DownloadTypeOK'
  BY <1>6, RowMoves DEF SourceLost, SetRow, DownloadTypeOK, Active, Terminal
<1>7. ASSUME NEW d \in Download, CancelBegin(d) PROVE DownloadTypeOK'
  BY <1>7, CallMoves DEF CancelBegin, rows, DownloadTypeOK, CallState
<1>8. ASSUME NEW d \in Download, CancelWrite(d) PROVE DownloadTypeOK'
  <2>1. call' \in [Download -> CallState]
    BY <1>8, CallMoves DEF CancelWrite
  <2>2. row' \in [Download -> Active \cup Terminal \cup {"absent", "deleted"}]
    BY <1>8, RowMoves DEF CancelWrite, SetRow, Terminal, DownloadTypeOK
  <2>3. QED
    BY <1>8, <2>1, <2>2 DEF CancelWrite, DownloadTypeOK
<1>9. ASSUME NEW d \in Download, DeleteBegin(d) PROVE DownloadTypeOK'
  <2>1. [op |-> "delete", at |-> "kill", named |-> named[d]] \in CallState
    BY DEF DownloadTypeOK, CallState
  <2>2. call' \in [Download -> CallState]
    BY <1>9, <2>1, CallMoves DEF DeleteBegin
  <2>3. QED
    BY <1>9, <2>2 DEF DeleteBegin, rows, DownloadTypeOK
<1>10. ASSUME NEW d \in Download, Expire(d) PROVE DownloadTypeOK'
  <2>1. \A step \in {"unlink", "remove"} :
         [op |-> "delete", at |-> step, named |-> named[d]] \in CallState
    BY DEF DownloadTypeOK, CallState
  <2>2. call' \in [Download -> CallState]
    BY <1>10, <2>1, CallMoves DEF Expire
  <2>3. QED
    BY <1>10, <2>2 DEF Expire, rows, DownloadTypeOK
<1>11. ASSUME NEW d \in Download, KillInFlight(d) PROVE DownloadTypeOK'
  <2>1. run.aborted \in BOOLEAN
    BY DEF DownloadTypeOK, RunState
  <2>2. run' \in RunState
    BY <1>11, <2>1, RunMarked DEF KillInFlight, RunStep
  <2>3. AfterKill(call[d]) \in {"idle", "unlink", "remove"}
    BY DEF AfterKill
  <2>4. call' \in [Download -> CallState]
    BY <1>11, <2>3, CallMoves DEF KillInFlight
  <2>5. QED
    BY <1>11, <2>2, <2>4 DEF KillInFlight, rows, DownloadTypeOK
<1>12. ASSUME NEW d \in Download, DeleteDownloadFile(d) PROVE DownloadTypeOK'
  <2>1. call' \in [Download -> CallState]
    BY <1>12, CallMoves DEF DeleteDownloadFile
  <2>2. QED
    BY <1>12, <2>1 DEF DeleteDownloadFile, DownloadTypeOK
<1>13. ASSUME NEW d \in Download, DeleteRow(d) PROVE DownloadTypeOK'
  BY <1>13, RowMoves, CallMoves DEF DeleteRow, SetRow, EndCall, NoCall, DownloadTypeOK,
     CallState, Active, Terminal
<1>14. ASSUME NEW d \in Download, SweepOrphanArtifacts(d) PROVE DownloadTypeOK'
  BY <1>14 DEF SweepOrphanArtifacts, DownloadTypeOK
<1>15. CASE Load
  <2>1. run' \in RunState
    BY <1>15, RunMoves DEF Load, Go, LoadTo, RunStep, Registered
  <2>2. QED
    BY <1>15, <2>1 DEF Load, rows, OthersOfRun, DownloadTypeOK
<1>16. CASE FindSource
  <2>1. run' \in RunState
    BY <1>16, RunMoves DEF FindSource, Go, RunStep, Registered
  <2>2. QED
    BY <1>16, <2>1 DEF FindSource, rows, OthersOfRun, DownloadTypeOK
<1>17. CASE FailMissingSource
  <2>1. run' \in RunState
    BY <1>17, RunMoves DEF FailMissingSource, Go, RunStep, Registered
  <2>2. row' \in [Download -> Active \cup Terminal \cup {"absent", "deleted"}]
    BY <1>17 DEF FailMissingSource, FailIfActive, SetRow, Terminal, DownloadTypeOK
  <2>3. QED
    BY <1>17, <2>1, <2>2 DEF FailMissingSource, OthersOfRun, DownloadTypeOK
<1>18. CASE Claim
  <2>1. run' \in RunState
    BY <1>18, RunMoves DEF Claim, Go, RunStep, Registered
  <2>2. row' \in [Download -> Active \cup Terminal \cup {"absent", "deleted"}]
    BY <1>18 DEF Claim, SetRow, Active, DownloadTypeOK
  <2>3. QED
    BY <1>18, <2>1, <2>2 DEF Claim, OthersOfRun, DownloadTypeOK
<1>19. CASE Register
  <2>1. run' \in RunState
    BY <1>19, RunMoves DEF Register, Go, RunStep, Registered
  <2>2. QED
    BY <1>19, <2>1 DEF Register, rows, OthersOfRun, DownloadTypeOK
<1>20. CASE RecordName
  <2>1. run' \in RunState
    BY <1>20, RunMoves DEF RecordName, Go, RunStep, Registered
  <2>2. named' \in [Download -> BOOLEAN]
    BY <1>20 DEF RecordName, DownloadTypeOK
  <2>3. QED
    BY <1>20, <2>1, <2>2 DEF RecordName, OthersOfRun, DownloadTypeOK
<1>21. CASE Spawn
  <2>1. run' \in RunState
    BY <1>21, RunMoves DEF Spawn, Go, RunStep, Registered
  <2>2. file' \in [Download -> BOOLEAN]
    BY <1>21 DEF Spawn, DownloadTypeOK
  <2>3. QED
    BY <1>21, <2>1, <2>2 DEF Spawn, OthersOfRun, DownloadTypeOK
<1>22. CASE FfmpegExits
  <2>1. file[run.d] \in BOOLEAN
    BY <1>22 DEF FfmpegExits, At, RunInv, DownloadTypeOK, RunState
  <2>2. PICK ok \in BOOLEAN : run' = [run EXCEPT !.at = "finalize", !.ok = ok]
    BY <1>22, <2>1 DEF FfmpegExits
  <2>3. run' \in RunState
    BY <2>2, RunMarked DEF RunStep, Go, Registered
  <2>4. QED
    BY <1>22, <2>3 DEF FfmpegExits, rows, OthersOfRun, DownloadTypeOK
<1>23. CASE Finalize
  <2>1. run' \in RunState
    BY <1>23, RunMoves DEF Finalize, Go, Finalized, RunStep, Registered
  <2>2. QED
    BY <1>23, <2>1 DEF Finalize, rows, OthersOfRun, DownloadTypeOK
<1>24. CASE FailFinalizing
  <2>1. run' \in RunState
    BY <1>24, RunMoves DEF FailFinalizing, Go, RunStep, Registered
  <2>2. row' \in [Download -> Active \cup Terminal \cup {"absent", "deleted"}]
    BY <1>24 DEF FailFinalizing, FailIfActive, SetRow, Terminal, DownloadTypeOK
  <2>3. QED
    BY <1>24, <2>1, <2>2 DEF FailFinalizing, OthersOfRun, DownloadTypeOK
<1>25. CASE CompleteProcessing
  <2>1. run' \in RunState
    BY <1>25, RunMoves DEF CompleteProcessing, Go, RunStep, Registered
  <2>2. row' \in [Download -> Active \cup Terminal \cup {"absent", "deleted"}]
    BY <1>25 DEF CompleteProcessing, SetRow, Terminal, DownloadTypeOK
  <2>3. QED
    BY <1>25, <2>1, <2>2 DEF CompleteProcessing, OthersOfRun, DownloadTypeOK
<1>26. CASE DeleteOutputUnlessCompleted
  <2>1. run' \in RunState
    BY <1>26, RunMoves DEF DeleteOutputUnlessCompleted, Go, RunStep, Registered
  <2>2. QED
    BY <1>26, <2>1 DEF DeleteOutputUnlessCompleted, rows, OthersOfRun, DownloadTypeOK
<1>27. CASE DropOutput
  <2>1. run' \in RunState
    BY <1>27, RunMoves DEF DropOutput, Go, RunStep, Registered
  <2>2. file' \in [Download -> BOOLEAN]
    BY <1>27 DEF DropOutput, DownloadTypeOK
  <2>3. QED
    BY <1>27, <2>1, <2>2 DEF DropOutput, OthersOfRun, DownloadTypeOK
<1>28. CASE ReleaseClaim
  <2>1. run' \in RunState
    BY <1>28, RunMarked DEF ReleaseClaim, RunStep, Registered
  <2>2. row' \in [Download -> Active \cup Terminal \cup {"absent", "deleted"}]
    BY <1>28 DEF ReleaseClaim, SetRow, Active, DownloadTypeOK
  <2>3. QED
    BY <1>28, <2>1, <2>2 DEF ReleaseClaim, OthersOfRun, DownloadTypeOK
<1>29. CASE Leave
  <2>1. run' \in RunState
    BY <1>29, RunMoves DEF Leave, Go, RunStep, Registered
  <2>2. promotion' \in [Promoter -> PromotionState]
    BY <1>29, PromotingTyped DEF Leave
  <2>3. QED
    BY <1>29, <2>1, <2>2 DEF Leave, rows, OthersOfRun, DownloadTypeOK
<1>30. CASE MarkFailed
  <2>1. run' \in RunState
    BY <1>30, RunMoves DEF MarkFailed, Go, RunStep, Registered
  <2>2. row' \in [Download -> Active \cup Terminal \cup {"absent", "deleted"}]
    BY <1>30 DEF MarkFailed, SetRow, Terminal, DownloadTypeOK
  <2>3. promotion' \in [Promoter -> PromotionState]
    BY <1>30, PromotingTyped DEF MarkFailed, DownloadTypeOK
  <2>4. QED
    BY <1>30, <2>1, <2>2, <2>3 DEF MarkFailed, OthersOfRun, DownloadTypeOK
<1>31. CASE Settle
  BY <1>31 DEF Settle, At, NoRun, rows, OthersOfRun, DownloadTypeOK, RunStep, Registered,
     RunState
<1>32. CASE PoolAborts
  <2>1. run.aborted \in BOOLEAN
    BY DEF DownloadTypeOK, RunState
  <2>2. run' \in RunState
    BY <1>32, <2>1, RunMarked DEF PoolAborts, RunStep
  <2>3. QED
    BY <1>32, <2>2, DownloadAssumption DEF PoolAborts, rows, DownloadTypeOK
<1>33. CASE ReconcileList
  BY <1>33 DEF ReconcileList, BootListing, With, rows, DownloadTypeOK, BootState
<1>34. CASE ReconcileRow
  BY <1>34, MinIsIn, DownloadNat, RowMoves DEF ReconcileRow, FailIfActive, NextStale, SetRow,
     Active, DownloadTypeOK, BootState, BootInv, Terminal
<1>35. CASE ReconcileEnqueue
  BY <1>35 DEF ReconcileEnqueue, Enqueue, NextStale, rows, DownloadTypeOK, BootState
<1>36. CASE Restart
  BY <1>36, DownloadAssumption DEF Restart, NoRun, NoPromotion, NoCall, BootListing, With,
     rows, DownloadTypeOK, RunStep, Registered, RunState, PromotionState, CallState, BootState
<1>37. CASE UNCHANGED downloadVars
  BY <1>37 DEF downloadVars, rows, DownloadTypeOK
<1>38. QED
  BY <1>1, <1>2, <1>3, <1>4, <1>5, <1>6, <1>7, <1>8, <1>9, <1>10, <1>11, <1>12, <1>13, <1>14,
     <1>15, <1>16, <1>17, <1>18, <1>19, <1>20, <1>21, <1>22, <1>23, <1>24, <1>25, <1>26,
     <1>27, <1>28, <1>29, <1>30, <1>31, <1>32, <1>33, <1>34, <1>35, <1>36, <1>37 DEF
     DownloadNext, RunNext
-----------------------------------------------------------------------------
LEMMA BootStep ==
  ASSUME BootInv, [DownloadNext]_downloadVars
  PROVE  BootInv'
<1>1. CASE ReconcileList
  BY <1>1 DEF ReconcileList, BootListing, BootInv
<1>2. CASE ReconcileRow
  BY <1>2 DEF ReconcileRow, NextStale, BootInv
<1>3. CASE ReconcileEnqueue
  BY <1>3 DEF ReconcileEnqueue, NextStale, BootInv
<1>4. CASE Restart
  BY <1>4 DEF Restart, BootListing, BootInv
<1>5. CASE \/ UNCHANGED downloadVars
           \/ \E p \in Promoter : Count(p) \/ Find(p) \/ EnqueueNext(p)
           \/ \E d \in Download : \/ Request(d) \/ StartRun(d) \/ SourceLost(d)
                                  \/ CancelBegin(d) \/ CancelWrite(d) \/ DeleteBegin(d)
                                  \/ Expire(d) \/ KillInFlight(d) \/ DeleteDownloadFile(d)
                                  \/ DeleteRow(d) \/ SweepOrphanArtifacts(d)
           \/ \/ Load \/ FindSource \/ FailMissingSource \/ Claim \/ Register \/ RecordName
              \/ Spawn \/ FfmpegExits \/ Finalize \/ FailFinalizing \/ CompleteProcessing
              \/ DeleteOutputUnlessCompleted \/ DropOutput \/ ReleaseClaim \/ Leave
              \/ MarkFailed \/ Settle \/ PoolAborts
  BY <1>5 DEF Count, rows, Find, With, EnqueueNext, Request, StartRun, SourceLost,
     CancelBegin, CancelWrite, DeleteBegin, Expire, KillInFlight, DeleteDownloadFile,
     DeleteRow, SweepOrphanArtifacts, Load, At, OthersOfRun, FindSource, FailMissingSource,
     Claim, Register, RecordName, Spawn, FfmpegExits, Finalize, FailFinalizing,
     CompleteProcessing, DeleteOutputUnlessCompleted, DropOutput, ReleaseClaim, Leave,
     MarkFailed, Settle, PoolAborts, downloadVars, BootInv
<1>6. QED
  BY <1>1, <1>2, <1>3, <1>4, <1>5 DEF DownloadNext, RunNext

LEMMA RunStepKeeps ==
  ASSUME DownloadTypeOK, RunInv, [DownloadNext]_downloadVars
  PROVE  RunInv'
<1>1. ASSUME NEW d \in Download, Request(d) PROVE RunInv'
  BY <1>1 DEF Request, SetRow, DownloadTypeOK, RunState, RunInv
<1>2. ASSUME NEW d \in Download, StartRun(d) PROVE RunInv'
  BY <1>2, DownloadNat DEF StartRun, NoRun, rows, DownloadTypeOK, RunInv
<1>3. ASSUME NEW d \in Download, SourceLost(d) PROVE RunInv'
  BY <1>3 DEF SourceLost, SetRow, DownloadTypeOK, RunState, RunInv
<1>4. ASSUME NEW d \in Download, CancelWrite(d) PROVE RunInv'
  BY <1>4 DEF CancelWrite, SetRow, DownloadTypeOK, RunState, RunInv
<1>5. ASSUME NEW d \in Download, KillInFlight(d) PROVE RunInv'
  BY <1>5 DEF KillInFlight, rows, DownloadTypeOK, RunState, RunInv
<1>6. ASSUME NEW d \in Download, DeleteRow(d) PROVE RunInv'
  BY <1>6 DEF DeleteRow, SetRow, DownloadTypeOK, RunState, RunInv
<1>7. CASE Load
  BY <1>7 DEF Load, At, LoadTo, rows, OthersOfRun, Go, DownloadTypeOK, RunState, RunInv
<1>8. CASE FindSource
  BY <1>8 DEF FindSource, At, rows, OthersOfRun, Go, DownloadTypeOK, RunState, RunInv
<1>9. CASE FailMissingSource
  BY <1>9 DEF FailMissingSource, At, FailIfActive, SetRow, Active, OthersOfRun, Go,
     DownloadTypeOK, RunState, RunInv
<1>10. CASE Claim
  BY <1>10 DEF Claim, At, SetRow, OthersOfRun, Go, DownloadTypeOK, RunState, RunInv
<1>11. CASE Register
  BY <1>11 DEF Register, At, rows, OthersOfRun, Go, DownloadTypeOK, RunState, RunInv
<1>12. CASE RecordName
  BY <1>12 DEF RecordName, At, OthersOfRun, Go, DownloadTypeOK, RunState, RunInv
<1>13. CASE Spawn
  BY <1>13 DEF Spawn, At, OthersOfRun, Go, DownloadTypeOK, RunState, RunInv
<1>14. CASE FfmpegExits
  BY <1>14 DEF FfmpegExits, At, rows, OthersOfRun, DownloadTypeOK, RunState, RunInv
<1>15. CASE Finalize
  BY <1>15 DEF Finalize, At, Finalized, rows, OthersOfRun, Go, DownloadTypeOK, RunState,
     RunInv
<1>16. CASE FailFinalizing
  BY <1>16 DEF FailFinalizing, At, FailIfActive, SetRow, Active, OthersOfRun, Go,
     DownloadTypeOK, RunState, RunInv
<1>17. CASE CompleteProcessing
  BY <1>17 DEF CompleteProcessing, At, Completable, SetRow, OthersOfRun, Go, DownloadTypeOK,
     RunState, RunInv
<1>18. CASE DeleteOutputUnlessCompleted
  BY <1>18 DEF DeleteOutputUnlessCompleted, At, rows, OthersOfRun, Go, DownloadTypeOK,
     RunState, RunInv
<1>19. CASE DropOutput
  BY <1>19 DEF DropOutput, At, OthersOfRun, Go, DownloadTypeOK, RunState, RunInv
<1>20. CASE ReleaseClaim
  BY <1>20 DEF ReleaseClaim, At, SetRow, OthersOfRun, DownloadTypeOK, RunState, RunInv
<1>21. CASE Leave
  BY <1>21 DEF Leave, At, rows, OthersOfRun, Go, DownloadTypeOK, RunState, RunInv
<1>22. CASE MarkFailed
  BY <1>22 DEF MarkFailed, At, SetRow, Active, OthersOfRun, Go, DownloadTypeOK, RunState,
     RunInv
<1>23. CASE Settle
  BY <1>23 DEF Settle, At, NoRun, rows, OthersOfRun, DownloadTypeOK, RunState, RunInv
<1>24. CASE PoolAborts
  BY <1>24 DEF PoolAborts, rows, DownloadTypeOK, RunState, RunInv
<1>25. CASE ReconcileRow
  BY <1>25 DEF ReconcileRow, FailIfActive, SetRow, Active, DownloadTypeOK, RunState, RunInv
<1>26. CASE Restart
  BY <1>26 DEF Restart, NoRun, With, rows, DownloadTypeOK, RunState, RunInv
<1>27. CASE \/ UNCHANGED downloadVars
            \/ \E p \in Promoter : Count(p) \/ Find(p) \/ EnqueueNext(p)
            \/ \E d \in Download : \/ CancelBegin(d) \/ DeleteBegin(d) \/ Expire(d)
                                   \/ DeleteDownloadFile(d) \/ SweepOrphanArtifacts(d)
            \/ ReconcileList \/ ReconcileEnqueue
  BY <1>27 DEF Count, rows, Find, With, EnqueueNext, CancelBegin, DeleteBegin, Expire,
     DeleteDownloadFile, SweepOrphanArtifacts, ReconcileList, ReconcileEnqueue, downloadVars,
     DownloadTypeOK, RunState, RunInv
<1>28. QED
  BY <1>1, <1>2, <1>3, <1>4, <1>5, <1>6, <1>7, <1>8, <1>9, <1>10, <1>11, <1>12, <1>13, <1>14,
     <1>15, <1>16, <1>17, <1>18, <1>19, <1>20, <1>21, <1>22, <1>23, <1>24, <1>25, <1>26, <1>27
     DEF DownloadNext, RunNext

LEMMA CallStep ==
  ASSUME DownloadTypeOK, CallInv, [DownloadNext]_downloadVars
  PROVE  CallInv'
<1>1. ASSUME NEW d \in Download, Request(d) PROVE CallInv'
  BY <1>1 DEF Request, SetRow, DownloadTypeOK, CallState, CallInv
<1>2. ASSUME NEW d \in Download, SourceLost(d) PROVE CallInv'
  BY <1>2 DEF SourceLost, SetRow, DownloadTypeOK, CallState, CallInv
<1>3. ASSUME NEW d \in Download, CancelBegin(d) PROVE CallInv'
  BY <1>3 DEF CancelBegin, rows, NoCall, DownloadTypeOK, CallState, CallInv
<1>4. ASSUME NEW d \in Download, CancelWrite(d) PROVE CallInv'
  BY <1>4 DEF CancelWrite, SetRow, EndCall, NoCall, DownloadTypeOK, CallState, CallInv
<1>5. ASSUME NEW d \in Download, DeleteBegin(d) PROVE CallInv'
  BY <1>5 DEF DeleteBegin, rows, NoCall, DownloadTypeOK, CallState, CallInv
<1>6. ASSUME NEW d \in Download, Expire(d) PROVE CallInv'
  BY <1>6 DEF Expire, rows, NoCall, DownloadTypeOK, CallState, CallInv
<1>7. ASSUME NEW d \in Download, KillInFlight(d) PROVE CallInv'
  BY <1>7 DEF KillInFlight, AfterKill, EndCall, ToCall, NoCall, rows, DownloadTypeOK,
     CallState, CallInv
<1>8. ASSUME NEW d \in Download, DeleteDownloadFile(d) PROVE CallInv'
  BY <1>8 DEF DeleteDownloadFile, EndCall, ToCall, NoCall, DownloadTypeOK, CallState, CallInv
<1>9. ASSUME NEW d \in Download, DeleteRow(d) PROVE CallInv'
  BY <1>9 DEF DeleteRow, SetRow, EndCall, NoCall, DownloadTypeOK, CallState, CallInv
<1>10. CASE FailMissingSource
  BY <1>10 DEF FailMissingSource, At, FailIfActive, SetRow, Active, OthersOfRun,
     DownloadTypeOK, CallState, CallInv
<1>11. CASE Claim
  BY <1>11 DEF Claim, At, SetRow, OthersOfRun, DownloadTypeOK, CallState, CallInv
<1>12. CASE FailFinalizing
  BY <1>12 DEF FailFinalizing, At, FailIfActive, SetRow, Active, OthersOfRun, DownloadTypeOK,
     CallState, CallInv
<1>13. CASE CompleteProcessing
  BY <1>13 DEF CompleteProcessing, At, Completable, SetRow, OthersOfRun, DownloadTypeOK,
     CallState, CallInv
<1>14. CASE ReleaseClaim
  BY <1>14 DEF ReleaseClaim, At, SetRow, OthersOfRun, DownloadTypeOK, CallState, CallInv
<1>15. CASE MarkFailed
  BY <1>15 DEF MarkFailed, At, SetRow, Active, OthersOfRun, DownloadTypeOK, CallState, CallInv
<1>16. CASE ReconcileRow
  BY <1>16 DEF ReconcileRow, FailIfActive, SetRow, Active, DownloadTypeOK, CallState, CallInv
<1>17. CASE Restart
  BY <1>17 DEF Restart, NoCall, With, rows, DownloadTypeOK, CallState, CallInv
<1>18. CASE \/ UNCHANGED downloadVars
            \/ \E p \in Promoter : Count(p) \/ Find(p) \/ EnqueueNext(p)
            \/ \E d \in Download : StartRun(d) \/ SweepOrphanArtifacts(d)
            \/ \/ Load \/ FindSource \/ Register \/ RecordName \/ Spawn \/ FfmpegExits
               \/ Finalize \/ DeleteOutputUnlessCompleted \/ DropOutput \/ Leave \/ Settle
               \/ PoolAborts \/ ReconcileList \/ ReconcileEnqueue
  BY <1>18 DEF Count, rows, Find, With, EnqueueNext, StartRun, SweepOrphanArtifacts, Load, At,
     OthersOfRun, FindSource, Register, RecordName, Spawn, FfmpegExits, Finalize,
     DeleteOutputUnlessCompleted, DropOutput, Leave, Settle, PoolAborts, ReconcileList,
     ReconcileEnqueue, downloadVars, DownloadTypeOK, CallState, CallInv
<1>19. QED
  BY <1>1, <1>2, <1>3, <1>4, <1>5, <1>6, <1>7, <1>8, <1>9, <1>10, <1>11, <1>12, <1>13, <1>14,
     <1>15, <1>16, <1>17, <1>18 DEF DownloadNext, RunNext

LEMMA OutputStep ==
  ASSUME DownloadTypeOK, RunInv, CallInv, OutputInv, [DownloadNext]_downloadVars
  PROVE  OutputInv'
<1>1. ASSUME NEW d \in Download, Request(d) PROVE OutputInv'
  BY <1>1 DEF Request, SetRow, DownloadTypeOK, RunState, RunInv, OutputInv
<1>2. ASSUME NEW d \in Download, StartRun(d) PROVE OutputInv'
  BY <1>2 DEF StartRun, NoRun, rows, DownloadTypeOK, RunState, RunInv, OutputInv
<1>3. ASSUME NEW d \in Download, SourceLost(d) PROVE OutputInv'
  BY <1>3 DEF SourceLost, SetRow, DownloadTypeOK, RunState, RunInv, OutputInv
<1>4. ASSUME NEW d \in Download, CancelWrite(d) PROVE OutputInv'
  BY <1>4 DEF CancelWrite, SetRow, DownloadTypeOK, RunState, RunInv, OutputInv
<1>5. ASSUME NEW d \in Download, DeleteBegin(d) PROVE OutputInv'
  BY <1>5 DEF DeleteBegin, rows, DownloadTypeOK, RunState, RunInv, OutputInv
<1>6. ASSUME NEW d \in Download, Expire(d) PROVE OutputInv'
  BY <1>6 DEF Expire, rows, DownloadTypeOK, RunState, RunInv, OutputInv
<1>7. ASSUME NEW d \in Download, KillInFlight(d) PROVE OutputInv'
  BY <1>7 DEF KillInFlight, rows, DownloadTypeOK, RunState, RunInv, OutputInv
<1>8. ASSUME NEW d \in Download, DeleteDownloadFile(d) PROVE OutputInv'
  BY <1>8 DEF DeleteDownloadFile, DownloadTypeOK, RunState, RunInv, OutputInv, CallInv,
     CallState
<1>9. ASSUME NEW d \in Download, DeleteRow(d) PROVE OutputInv'
  BY <1>9 DEF DeleteRow, SetRow, DownloadTypeOK, RunState, RunInv, OutputInv
<1>10. ASSUME NEW d \in Download, SweepOrphanArtifacts(d) PROVE OutputInv'
  BY <1>10 DEF SweepOrphanArtifacts, DownloadTypeOK, RunState, RunInv, OutputInv
<1>11. CASE Load
  BY <1>11 DEF Load, At, LoadTo, rows, OthersOfRun, Go, DownloadTypeOK, RunState, RunInv,
     OutputInv
<1>12. CASE FindSource
  BY <1>12 DEF FindSource, At, rows, OthersOfRun, Go, DownloadTypeOK, RunState, RunInv,
     OutputInv
<1>13. CASE FailMissingSource
  BY <1>13 DEF FailMissingSource, At, FailIfActive, SetRow, Active, OthersOfRun, Go,
     DownloadTypeOK, RunState, RunInv, OutputInv
<1>14. CASE Claim
  BY <1>14 DEF Claim, At, SetRow, OthersOfRun, Go, DownloadTypeOK, RunState, RunInv, OutputInv
<1>15. CASE Register
  BY <1>15 DEF Register, At, rows, OthersOfRun, Go, DownloadTypeOK, RunState, RunInv,
     OutputInv
<1>16. CASE RecordName
  BY <1>16 DEF RecordName, At, OthersOfRun, Go, DownloadTypeOK, RunState, RunInv, OutputInv
<1>17. CASE Spawn
  BY <1>17 DEF Spawn, At, OthersOfRun, Go, DownloadTypeOK, RunState, RunInv, OutputInv
<1>18. CASE FfmpegExits
  BY <1>18 DEF FfmpegExits, At, rows, OthersOfRun, DownloadTypeOK, RunState, RunInv, OutputInv
<1>19. CASE Finalize
  BY <1>19 DEF Finalize, At, Finalized, rows, OthersOfRun, Go, DownloadTypeOK, RunState,
     RunInv, OutputInv
<1>20. CASE FailFinalizing
  BY <1>20 DEF FailFinalizing, At, FailIfActive, SetRow, Active, OthersOfRun, Go,
     DownloadTypeOK, RunState, RunInv, OutputInv
<1>21. CASE CompleteProcessing
  BY <1>21 DEF CompleteProcessing, At, Completable, SetRow, OthersOfRun, Go, DownloadTypeOK,
     RunState, RunInv, OutputInv
<1>22. CASE DeleteOutputUnlessCompleted
  BY <1>22 DEF DeleteOutputUnlessCompleted, At, rows, OthersOfRun, Go, DownloadTypeOK,
     RunState, RunInv, OutputInv
<1>23. CASE DropOutput
  BY <1>23 DEF DropOutput, At, OthersOfRun, Go, DownloadTypeOK, RunState, RunInv, OutputInv
<1>24. CASE ReleaseClaim
  BY <1>24 DEF ReleaseClaim, At, SetRow, OthersOfRun, DownloadTypeOK, RunState, RunInv,
     OutputInv
<1>25. CASE Leave
  BY <1>25 DEF Leave, At, rows, OthersOfRun, Go, DownloadTypeOK, RunState, RunInv, OutputInv
<1>26. CASE MarkFailed
  BY <1>26 DEF MarkFailed, At, SetRow, Active, OthersOfRun, Go, DownloadTypeOK, RunState,
     RunInv, OutputInv
<1>27. CASE Settle
  BY <1>27 DEF Settle, At, NoRun, rows, OthersOfRun, DownloadTypeOK, RunState, RunInv,
     OutputInv
<1>28. CASE PoolAborts
  BY <1>28 DEF PoolAborts, rows, DownloadTypeOK, RunState, RunInv, OutputInv
<1>29. CASE ReconcileRow
  BY <1>29 DEF ReconcileRow, FailIfActive, SetRow, Active, DownloadTypeOK, RunState, RunInv,
     OutputInv
<1>30. CASE Restart
  BY <1>30 DEF Restart, NoRun, With, rows, DownloadTypeOK, RunState, RunInv, OutputInv
<1>31. CASE \/ UNCHANGED downloadVars
            \/ \E p \in Promoter : Count(p) \/ Find(p) \/ EnqueueNext(p)
            \/ \E d \in Download : CancelBegin(d)
            \/ ReconcileList \/ ReconcileEnqueue
  BY <1>31 DEF Count, rows, Find, With, EnqueueNext, CancelBegin, ReconcileList,
     ReconcileEnqueue, downloadVars, DownloadTypeOK, RunState, RunInv, OutputInv
<1>32. QED
  BY <1>1, <1>2, <1>3, <1>4, <1>5, <1>6, <1>7, <1>8, <1>9, <1>10, <1>11, <1>12, <1>13, <1>14,
     <1>15, <1>16, <1>17, <1>18, <1>19, <1>20, <1>21, <1>22, <1>23, <1>24, <1>25, <1>26,
     <1>27, <1>28, <1>29, <1>30, <1>31 DEF DownloadNext, RunNext

LEMMA FileStep ==
  ASSUME DownloadTypeOK, RunInv, OutputInv, FileInv, [DownloadNext]_downloadVars
  PROVE  FileInv'
<1>1. ASSUME NEW d \in Download, Request(d) PROVE FileInv'
  BY <1>1 DEF Request, SetRow, DownloadTypeOK, RunState, CallState, RunInv, OutputInv,
     FileInv, CallRemoves, RunRemoves
<1>2. ASSUME NEW d \in Download, StartRun(d) PROVE FileInv'
  BY <1>2 DEF StartRun, NoRun, rows, DownloadTypeOK, RunState, CallState, RunInv, OutputInv,
     FileInv, CallRemoves, RunRemoves
<1>3. ASSUME NEW d \in Download, SourceLost(d) PROVE FileInv'
  BY <1>3 DEF SourceLost, SetRow, DownloadTypeOK, RunState, CallState, RunInv, OutputInv,
     FileInv, CallRemoves, RunRemoves
<1>4. ASSUME NEW d \in Download, CancelBegin(d) PROVE FileInv'
  BY <1>4 DEF CancelBegin, rows, NoCall, DownloadTypeOK, RunState, CallState, RunInv,
     OutputInv, FileInv, CallRemoves, RunRemoves
<1>5. ASSUME NEW d \in Download, CancelWrite(d) PROVE FileInv'
  BY <1>5 DEF CancelWrite, SetRow, EndCall, NoCall, DownloadTypeOK, RunState, CallState,
     RunInv, OutputInv, FileInv, CallRemoves, RunRemoves
<1>6. ASSUME NEW d \in Download, DeleteBegin(d) PROVE FileInv'
  BY <1>6 DEF DeleteBegin, rows, NoCall, DownloadTypeOK, RunState, CallState, RunInv,
     OutputInv, FileInv, CallRemoves, RunRemoves
<1>7. ASSUME NEW d \in Download, Expire(d) PROVE FileInv'
  BY <1>7 DEF Expire, rows, NoCall, DownloadTypeOK, RunState, CallState, RunInv, OutputInv,
     FileInv, CallRemoves, RunRemoves
<1>8. ASSUME NEW d \in Download, KillInFlight(d) PROVE FileInv'
  <2>1. /\ UNCHANGED <<row, named, file, torn>>
        /\ run'.d = run.d /\ run'.at = run.at
    BY <1>8 DEF KillInFlight, rows, DownloadTypeOK, RunState
  <2>2. \A e \in Download \ {d} : call'[e] = call[e]
    BY <1>8 DEF KillInFlight, EndCall, ToCall, DownloadTypeOK
  <2>3. CallRemoves(d) => CallRemoves(d)'
    BY <1>8 DEF KillInFlight, AfterKill, EndCall, ToCall, DownloadTypeOK, CallState, CallRemoves
  <2>4. \A e \in Download : CallRemoves(e) \/ RunRemoves(e) => (CallRemoves(e) \/ RunRemoves(e))'
    BY <2>1, <2>2, <2>3 DEF CallRemoves, RunRemoves
  <2>5. QED
    BY <2>1, <2>4 DEF FileInv
<1>9. ASSUME NEW d \in Download, DeleteDownloadFile(d) PROVE FileInv'
  BY <1>9 DEF DeleteDownloadFile, EndCall, ToCall, NoCall, DownloadTypeOK, RunState,
     CallState, RunInv, OutputInv, FileInv, CallRemoves, RunRemoves
<1>10. ASSUME NEW d \in Download, DeleteRow(d) PROVE FileInv'
  BY <1>10 DEF DeleteRow, SetRow, EndCall, NoCall, DownloadTypeOK, RunState, CallState,
     RunInv, OutputInv, FileInv, CallRemoves, RunRemoves
<1>11. ASSUME NEW d \in Download, SweepOrphanArtifacts(d) PROVE FileInv'
  BY <1>11 DEF SweepOrphanArtifacts, DownloadTypeOK, RunState, CallState, RunInv, OutputInv,
     FileInv, CallRemoves, RunRemoves
<1>12. CASE Load
  BY <1>12 DEF Load, At, LoadTo, rows, OthersOfRun, Go, DownloadTypeOK, RunState, CallState,
     RunInv, OutputInv, FileInv, CallRemoves, RunRemoves
<1>13. CASE FindSource
  BY <1>13 DEF FindSource, At, rows, OthersOfRun, Go, DownloadTypeOK, RunState, CallState,
     RunInv, OutputInv, FileInv, CallRemoves, RunRemoves
<1>14. CASE FailMissingSource
  BY <1>14 DEF FailMissingSource, At, FailIfActive, SetRow, Active, OthersOfRun, Go,
     DownloadTypeOK, RunState, CallState, RunInv, OutputInv, FileInv, CallRemoves, RunRemoves
<1>15. CASE Claim
  BY <1>15 DEF Claim, At, SetRow, OthersOfRun, Go, DownloadTypeOK, RunState, CallState,
     RunInv, OutputInv, FileInv, CallRemoves, RunRemoves
<1>16. CASE Register
  BY <1>16 DEF Register, At, rows, OthersOfRun, Go, DownloadTypeOK, RunState, CallState,
     RunInv, OutputInv, FileInv, CallRemoves, RunRemoves
<1>17. CASE RecordName
  BY <1>17 DEF RecordName, At, OthersOfRun, Go, DownloadTypeOK, RunState, CallState, RunInv,
     OutputInv, FileInv, CallRemoves, RunRemoves
<1>18. CASE Spawn
  BY <1>18 DEF Spawn, At, OthersOfRun, Go, DownloadTypeOK, RunState, CallState, RunInv,
     OutputInv, FileInv, CallRemoves, RunRemoves
<1>19. CASE FfmpegExits
  BY <1>19 DEF FfmpegExits, At, rows, OthersOfRun, DownloadTypeOK, RunState, CallState,
     RunInv, OutputInv, FileInv, CallRemoves, RunRemoves
<1>20. CASE Finalize
  BY <1>20 DEF Finalize, At, Finalized, rows, OthersOfRun, Go, DownloadTypeOK, RunState,
     CallState, RunInv, OutputInv, FileInv, CallRemoves, RunRemoves
<1>21. CASE FailFinalizing
  BY <1>21 DEF FailFinalizing, At, FailIfActive, SetRow, Active, OthersOfRun, Go,
     DownloadTypeOK, RunState, CallState, RunInv, OutputInv, FileInv, CallRemoves, RunRemoves
<1>22. CASE CompleteProcessing
  BY <1>22 DEF CompleteProcessing, At, Completable, SetRow, OthersOfRun, Go, DownloadTypeOK,
     RunState, CallState, RunInv, OutputInv, FileInv, CallRemoves, RunRemoves
<1>23. CASE DeleteOutputUnlessCompleted
  BY <1>23 DEF DeleteOutputUnlessCompleted, At, rows, OthersOfRun, Go, DownloadTypeOK,
     RunState, CallState, RunInv, OutputInv, FileInv, CallRemoves, RunRemoves
<1>24. CASE DropOutput
  BY <1>24 DEF DropOutput, At, OthersOfRun, Go, DownloadTypeOK, RunState, CallState, RunInv,
     OutputInv, FileInv, CallRemoves, RunRemoves
<1>25. CASE ReleaseClaim
  BY <1>25 DEF ReleaseClaim, At, SetRow, OthersOfRun, DownloadTypeOK, RunState, CallState,
     RunInv, OutputInv, FileInv, CallRemoves, RunRemoves
<1>26. CASE Leave
  BY <1>26 DEF Leave, At, rows, OthersOfRun, Go, DownloadTypeOK, RunState, CallState, RunInv,
     OutputInv, FileInv, CallRemoves, RunRemoves
<1>27. CASE MarkFailed
  BY <1>27 DEF MarkFailed, At, SetRow, Active, OthersOfRun, Go, DownloadTypeOK, RunState,
     CallState, RunInv, OutputInv, FileInv, CallRemoves, RunRemoves
<1>28. CASE Settle
  BY <1>28 DEF Settle, At, NoRun, rows, OthersOfRun, DownloadTypeOK, RunState, CallState,
     RunInv, OutputInv, FileInv, CallRemoves, RunRemoves
<1>29. CASE PoolAborts
  BY <1>29 DEF PoolAborts, rows, DownloadTypeOK, RunState, CallState, RunInv, OutputInv,
     FileInv, CallRemoves, RunRemoves
<1>30. CASE ReconcileRow
  BY <1>30 DEF ReconcileRow, FailIfActive, SetRow, Active, DownloadTypeOK, RunState,
     CallState, RunInv, OutputInv, FileInv, CallRemoves, RunRemoves
<1>31. CASE Restart
  BY <1>31 DEF Restart, NoRun, NoCall, With, rows, DownloadTypeOK, RunState, CallState,
     RunInv, OutputInv, FileInv, CallRemoves, RunRemoves
<1>32. CASE \/ UNCHANGED downloadVars
            \/ \E p \in Promoter : Count(p) \/ Find(p) \/ EnqueueNext(p)
            \/ ReconcileList \/ ReconcileEnqueue
  <2>1. UNCHANGED <<row, named, file, run, call, torn>>
    BY <1>32 DEF Count, rows, Find, With, EnqueueNext, ReconcileList, ReconcileEnqueue,
       downloadVars
  <2>2. QED
    BY <2>1 DEF DownloadTypeOK, RunState, CallState, RunInv, OutputInv, FileInv, CallRemoves, RunRemoves
<1>33. QED
  BY <1>1, <1>2, <1>3, <1>4, <1>5, <1>6, <1>7, <1>8, <1>9, <1>10, <1>11, <1>12, <1>13, <1>14,
     <1>15, <1>16, <1>17, <1>18, <1>19, <1>20, <1>21, <1>22, <1>23, <1>24, <1>25, <1>26,
     <1>27, <1>28, <1>29, <1>30, <1>31, <1>32 DEF DownloadNext, RunNext

LEMMA CompletedStep ==
  ASSUME DownloadTypeOK, RunInv, OutputInv, CallInv, CompletedKeepsFile,
         [DownloadNext]_downloadVars
  PROVE  CompletedKeepsFile'
<1>1. ASSUME NEW d \in Download, Request(d) PROVE CompletedKeepsFile'
  BY <1>1 DEF Request, SetRow, DownloadTypeOK, RunState, RunInv, CompletedKeepsFile, With
<1>2. ASSUME NEW d \in Download, SourceLost(d) PROVE CompletedKeepsFile'
  BY <1>2 DEF SourceLost, SetRow, DownloadTypeOK, RunState, RunInv, CompletedKeepsFile, With
<1>3. ASSUME NEW d \in Download, CancelWrite(d) PROVE CompletedKeepsFile'
  BY <1>3 DEF CancelWrite, SetRow, DownloadTypeOK, RunState, RunInv, CompletedKeepsFile, With
<1>4. ASSUME NEW d \in Download, DeleteBegin(d) PROVE CompletedKeepsFile'
  BY <1>4 DEF DeleteBegin, rows, DownloadTypeOK, RunState, RunInv, CompletedKeepsFile, With
<1>5. ASSUME NEW d \in Download, Expire(d) PROVE CompletedKeepsFile'
  BY <1>5 DEF Expire, rows, DownloadTypeOK, RunState, RunInv, CompletedKeepsFile, With
<1>6. ASSUME NEW d \in Download, DeleteDownloadFile(d) PROVE CompletedKeepsFile'
  BY <1>6 DEF DeleteDownloadFile, DownloadTypeOK, RunState, RunInv, CompletedKeepsFile, With,
     CallInv, CallState
<1>7. ASSUME NEW d \in Download, DeleteRow(d) PROVE CompletedKeepsFile'
  BY <1>7 DEF DeleteRow, SetRow, DownloadTypeOK, RunState, RunInv, CompletedKeepsFile, With
<1>8. ASSUME NEW d \in Download, SweepOrphanArtifacts(d) PROVE CompletedKeepsFile'
  BY <1>8 DEF SweepOrphanArtifacts, DownloadTypeOK, RunState, RunInv, CompletedKeepsFile, With
<1>9. CASE FailMissingSource
  BY <1>9 DEF FailMissingSource, At, FailIfActive, SetRow, Active, OthersOfRun,
     DownloadTypeOK, RunState, RunInv, CompletedKeepsFile, With
<1>10. CASE Claim
  BY <1>10 DEF Claim, At, SetRow, OthersOfRun, DownloadTypeOK, RunState, RunInv,
     CompletedKeepsFile, With
<1>11. CASE RecordName
  BY <1>11 DEF RecordName, At, OthersOfRun, DownloadTypeOK, RunState, RunInv,
     CompletedKeepsFile, With
<1>12. CASE Spawn
  BY <1>12 DEF Spawn, At, OthersOfRun, DownloadTypeOK, RunState, RunInv, CompletedKeepsFile,
     With
<1>13. CASE FailFinalizing
  BY <1>13 DEF FailFinalizing, At, FailIfActive, SetRow, Active, OthersOfRun, DownloadTypeOK,
     RunState, RunInv, CompletedKeepsFile, With
<1>14. CASE CompleteProcessing
  BY <1>14 DEF CompleteProcessing, At, Completable, SetRow, OthersOfRun, DownloadTypeOK,
     RunState, RunInv, CompletedKeepsFile, With, OutputInv
<1>15. CASE DropOutput
  BY <1>15 DEF DropOutput, At, OthersOfRun, DownloadTypeOK, RunState, RunInv,
     CompletedKeepsFile, With
<1>16. CASE ReleaseClaim
  BY <1>16 DEF ReleaseClaim, At, SetRow, OthersOfRun, DownloadTypeOK, RunState, RunInv,
     CompletedKeepsFile, With
<1>17. CASE MarkFailed
  BY <1>17 DEF MarkFailed, At, SetRow, Active, OthersOfRun, DownloadTypeOK, RunState, RunInv,
     CompletedKeepsFile, With
<1>18. CASE ReconcileRow
  BY <1>18 DEF ReconcileRow, FailIfActive, SetRow, Active, DownloadTypeOK, RunState, RunInv,
     CompletedKeepsFile, With
<1>19. CASE \/ UNCHANGED downloadVars
            \/ \E p \in Promoter : Count(p) \/ Find(p) \/ EnqueueNext(p)
            \/ \E d \in Download : StartRun(d) \/ CancelBegin(d) \/ KillInFlight(d)
            \/ \/ Load \/ FindSource \/ Register \/ FfmpegExits \/ Finalize
               \/ DeleteOutputUnlessCompleted \/ Leave \/ Settle \/ PoolAborts \/ ReconcileList
               \/ ReconcileEnqueue \/ Restart
  BY <1>19 DEF Count, rows, Find, With, EnqueueNext, StartRun, CancelBegin, KillInFlight,
     Load, At, OthersOfRun, FindSource, Register, FfmpegExits, Finalize,
     DeleteOutputUnlessCompleted, Leave, Settle, PoolAborts, ReconcileList, ReconcileEnqueue,
     Restart, downloadVars, DownloadTypeOK, RunState, RunInv, CompletedKeepsFile
<1>20. QED
  BY <1>1, <1>2, <1>3, <1>4, <1>5, <1>6, <1>7, <1>8, <1>9, <1>10, <1>11, <1>12, <1>13, <1>14,
     <1>15, <1>16, <1>17, <1>18, <1>19 DEF DownloadNext, RunNext
-----------------------------------------------------------------------------
LEMMA IInvHolds == DownloadSpec => []IInv
<1>1. DownloadInit => IInv
  <2> SUFFICES ASSUME DownloadInit PROVE IInv
    OBVIOUS
  <2>1. run \in RunState /\ boot \in BootState
    BY DEF DownloadInit, NoRun, BootListing, RunState, BootState, RunStep
  <2>2. promotion \in [Promoter -> PromotionState] /\ call \in [Download -> CallState]
    BY DEF DownloadInit, NoPromotion, NoCall, PromotionState, CallState
  <2>3. DownloadTypeOK
    BY <2>1, <2>2, DownloadAssumption DEF DownloadInit, DownloadTypeOK
  <2>4. BootInv /\ RunInv /\ OutputInv /\ CallInv
    BY DEF DownloadInit, BootListing, NoRun, NoCall, BootInv, RunInv, OutputInv, CallInv
  <2>5. FileInv /\ CompletedKeepsFile
    BY DEF DownloadInit, FileInv, CompletedKeepsFile, With
  <2>6. QED
    BY <2>3, <2>4, <2>5 DEF IInv
<1>2. IInv /\ [DownloadNext]_downloadVars => IInv'
  BY TypeStep, BootStep, RunStepKeeps, CallStep, OutputStep, FileStep, CompletedStep DEF IInv
<1>3. QED
  BY <1>1, <1>2, PTL DEF DownloadSpec

\* Every reachable state is well typed, whatever the number of downloads, of slots and
\* of calls of promoteQueued under way (downloads.service.ts, download.runner.ts).
THEOREM DownloadsTypeCorrect == DownloadSpec => []DownloadTypeOK
<1>1. IInv => DownloadTypeOK
  BY DEF IInv
<1>2. QED
  BY <1>1, IInvHolds, PTL

\* A completed download that nobody has begun to delete has its file and its name: no
\* cancel, sweep, reconciliation or second run takes it away (completeProcessing,
\* deleteOutputUnlessCompleted, deleteDownloadFile).
THEOREM CompletedHasFile == DownloadSpec => []CompletedKeepsFile
<1>1. IInv => CompletedKeepsFile
  BY DEF IInv
<1>2. QED
  BY <1>1, IInvHolds, PTL

\* The file of a cancelled download is removed by its call or by its run, whichever
\* learns of the other: when both are over none is left, unless a crash cut them short
\* (cancel, finalizeDownload).
THEOREM CancelledIsCleared == DownloadSpec => []CancelledLeavesNothing
<1>1. IInv => CancelledLeavesNothing
  BY DEF IInv, FileInv, CallRemoves, RunRemoves, CancelledLeavesNothing, With, NoCall,
     DownloadTypeOK
<1>2. QED
  BY <1>1, IInvHolds, PTL
================================================================================
