-------------------------- MODULE WorkerPoolProofs --------------------------
(***************************************************************************)
(* Proofs about WorkerPool.  The slots, the count beside the map and the   *)
(* rows' owners follow from one fact, that a claim token names at most one *)
(* execution and is never ahead of its row (ClaimInv); what a claim spares *)
(* follows from there being one poll at a time, whose snapshot covers the  *)
(* slots of every worker it has still to look at (PollInv).                *)
(***************************************************************************)
EXTENDS WorkerPool, FiniteSetTheorems, TLAPS

\* A token counts the claims of its job, and is given to one execution.
ClaimInv ==
    /\ \A e \in execs : e.token \in 1..rows[e.job].attempts
    /\ \A d, e \in execs : d.job = e.job /\ d.token = e.token => d = e

\* The slot is given back before an execution is ended.
HolderInv ==
    \A j \in PoolJob : held[j] # 0 =>
        \E e \in execs : e.job = j /\ e.token = held[j] /\ e.phase # "ended"

CountInv ==
    \A w \in PoolWorker : count[w] = Cardinality(HeldJobs(held) \cap JobsOf(w)) + leaked[w]

\* An execution that is still going to write its row; once its outcome is written, it owns it
\* no more.
Backs(e) == (Holds(e) /\ e.phase \in {"handler", "writing"}) \/ e.final # "none"

OwnerInv ==
    \A j \in PoolJob : rows[j].status = "running" /\ ~rows[j].foreign =>
        \/ \E e \in execs : e.job = j /\ e.token = rows[j].attempts /\ Backs(e)
        \/ [job |-> j, token |-> rows[j].attempts] \in lost

\* Where a poll claims; and unless one was overtaken, there is one at most, and its snapshot
\* holds every job that has a slot and is of a worker the poll has not claimed for yet.
PollInv ==
    /\ \A p \in Poll : polls[p].phase = "claiming" => polls[p].worker \in PoolWorker \ polls[p].todo
    /\ ~overtaken =>
        /\ \A p \in Poll : polls[p].phase # "idle" =>
              isPolling /\ \A q \in Poll \ {p} : polls[q].phase = "idle"
        /\ \A p \in Poll : polls[p].phase = "claiming" =>
              \A j \in HeldJobs(held) :
                  PoolWorkerOf[j] \in polls[p].todo \cup {polls[p].worker} => j \in polls[p].active

-----------------------------------------------------------------------------
(* Lemmas about the operators *)

LEMMA JobSets ==
  ASSUME NEW S \in SUBSET PoolJob
  PROVE  IsFiniteSet(S) /\ Cardinality(S) \in Nat
BY PoolAssumption, FS_Subset, FS_CardinalityType

LEMMA SetStatusRow ==
  ASSUME NEW row \in Row, NEW st \in {"unused", "pending", "running"} \cup PoolFinished
  PROVE  /\ SetStatus(row, st) \in Row
         /\ SetStatus(row, st).status = st /\ SetStatus(row, st).attempts = row.attempts
         /\ SetStatus(row, st).foreign = FALSE /\ SetStatus(row, st).result = row.result
BY DEF SetStatus, Row

LEMMA TargetStatus ==
  ASSUME NEW write \in Write
  PROVE  Target(write) \in {"completed", "failed", "cancelled", "pending"}
BY DEF Target, Write

\* The recovery of rows moves running ones back or to their end, and touches no other.
LEMMA RecoveredRows ==
  ASSUME NEW rs \in [PoolJob -> Row], NEW reads
  PROVE  /\ Recovered(rs, reads) \in [PoolJob -> Row]
         /\ \A j \in PoolJob :
               /\ Recovered(rs, reads)[j].attempts = rs[j].attempts
               /\ \/ Recovered(rs, reads)[j] = rs[j]
                  \/ /\ rs[j].status = "running" /\ \E r \in reads : r.job = j
                     /\ Recovered(rs, reads)[j].status \in {"pending", "failed"}
<1>1. \A j \in PoolJob : rs[j] \in Row
  OBVIOUS
<1>2. ASSUME NEW j \in PoolJob, NEW st \in {"pending", "failed"}
      PROVE  /\ SetStatus(rs[j], st) \in Row
             /\ SetStatus(rs[j], st).status = st
             /\ SetStatus(rs[j], st).attempts = rs[j].attempts
  <2>1. rs[j] \in Row /\ st \in {"unused", "pending", "running"} \cup PoolFinished
    BY DEF PoolFinished
  <2>. QED
    BY <2>1, SetStatusRow
<1>3. \A j \in PoolJob :
         \/ Recovered(rs, reads)[j] = rs[j]
         \/ /\ rs[j].status = "running" /\ \E r \in reads : r.job = j
            /\ \E st \in {"pending", "failed"} : Recovered(rs, reads)[j] = SetStatus(rs[j], st)
  BY Zenon DEF Recovered
<1>4. \E f : Recovered(rs, reads) = [j \in PoolJob |-> f[j]]
  BY DEF Recovered
<1>. QED
  BY <1>1, <1>2, <1>3, <1>4

\* The writer of an outcome touches the row of its claim only.
LEMMA WrittenRows ==
  ASSUME rows \in [PoolJob -> Row], NEW e \in Execution, NEW write \in Write
  PROVE  /\ Written(e, write) \in [PoolJob -> Row]
         /\ \A j \in PoolJob :
               /\ Written(e, write)[j].attempts = rows[j].attempts
               /\ Written(e, write)[j] = rows[j] \/ Written(e, write)[j].status # "running"
         /\ OwnsRow(e) => Written(e, write)[e.job].status = Target(write)
         /\ ~OwnsRow(e) => Written(e, write) = rows
<1>1. e.job \in PoolJob /\ rows[e.job] \in Row
  BY DEF Execution
<1>2. Target(write) \in {"completed", "failed", "cancelled", "pending"}
  BY TargetStatus
<1> DEFINE new == [SetStatus(rows[e.job], Target(write)) EXCEPT
                      !.result = IF write = "complete" THEN e.token ELSE rows[e.job].result]
<1>3. /\ SetStatus(rows[e.job], Target(write)) \in Row
      /\ SetStatus(rows[e.job], Target(write)).status = Target(write)
      /\ SetStatus(rows[e.job], Target(write)).attempts = rows[e.job].attempts
  BY <1>1, <1>2, SetStatusRow DEF PoolFinished
<1>4. new \in Row /\ new.status = Target(write) /\ new.attempts = rows[e.job].attempts
  BY <1>1, <1>3 DEF Row, Execution
<1>5. OwnsRow(e) => Written(e, write) = [rows EXCEPT ![e.job] = new]
  BY DEF Written
<1>6. ~OwnsRow(e) => Written(e, write) = rows
  BY DEF Written
<1> HIDE DEF new
<1>. QED
  BY <1>1, <1>2, <1>4, <1>5, <1>6

\* A claim makes each row it takes run under its next token.
LEMMA RowsClaimed ==
  ASSUME NEW rs \in [PoolJob -> Row], NEW S \in SUBSET PoolJob
  PROVE  /\ ClaimedRows(rs, S) \in [PoolJob -> Row]
         /\ \A j \in S : /\ ClaimedRows(rs, S)[j].status = "running"
                         /\ ClaimedRows(rs, S)[j].attempts = rs[j].attempts + 1
         /\ \A j \in PoolJob \ S : ClaimedRows(rs, S)[j] = rs[j]
<1>1. \A row \in Row : row.attempts + 1 \in Nat
  BY DEF Row
<1>2. ASSUME NEW row \in Row, NEW n \in Nat
      PROVE  LET next == [row EXCEPT !.status = "running", !.attempts = n]
             IN  next \in Row /\ next.status = "running" /\ next.attempts = n
  BY DEF Row
<1>. QED
  BY <1>1, <1>2 DEF ClaimedRows

\* Where a poll is after a worker: over, or about to claim for another one.
LEMMA LoopGoesOn ==
  ASSUME NEW h \in [PoolJob -> Nat], NEW c \in [PoolWorker -> Nat], registered \subseteq PoolWorker,
         NEW todo \in SUBSET PoolWorker, NEW active \in SUBSET PoolJob,
         NEW s \in LoopStates(h, c, todo, active)
  PROVE  /\ s \in PollState
         /\ \/ s = IdlePoll
            \/ /\ s.phase = "claiming" /\ s.active = active
               /\ s.worker \in todo /\ s.todo \subseteq todo \ {s.worker}
<1> DEFINE ready == {w \in todo \cap registered : Free(h, c, w) > 0}
<1>1. CASE s = IdlePoll
  BY <1>1 DEF IdlePoll, PollState
<1>2. CASE s # IdlePoll
  <2>1. PICK w \in ready, rest \in SUBSET todo :
            s = [ phase |-> "claiming", todo |-> rest \ {w}, active |-> active,
                  worker |-> w, max |-> Free(h, c, w) ]
    BY <1>2 DEF LoopStates
  <2>2. Cardinality(HeldJobs(h)) \in Nat
    BY JobSets DEF HeldJobs
  <2>3. Free(h, c, w) \in Nat
    BY <2>2, PoolAssumption DEF Free, Smaller
  <2>. QED
    BY <2>1, <2>3 DEF PollState
<1>. QED
  BY <1>1, <1>2

-----------------------------------------------------------------------------
(* Types *)

LEMMA DisturbType ==
  ASSUME PoolTypeOK, Disturb
  PROVE  disturbances' \in 0..DisturbanceBound
BY PoolAssumption DEF PoolTypeOK, Disturb

LEMMA SetPollType ==
  ASSUME PoolTypeOK, NEW p \in Poll, NEW s \in PollState, SetPoll(p, s)
  PROVE  polls' \in [Poll -> PollState] /\ isPolling' \in BOOLEAN
BY DEF PoolTypeOK, SetPoll

LEMMA IdleType == IdlePoll \in PollState
BY DEF IdlePoll, PollState

LEMMA StartedType ==
  ASSUME NEW j \in PoolJob, NEW token \in Nat
  PROVE  Started(j, token) \in Execution
BY DEF Started, Execution, Reason, Write

LEMMA UpdateType ==
  ASSUME PoolTypeOK, NEW e \in execs, NEW f \in Execution, execs' = Update(e, f)
  PROVE  execs' \subseteq Execution
BY DEF PoolTypeOK, Update

LEMMA AbortType ==
  ASSUME PoolTypeOK, NEW S \in SUBSET execs, NEW reason \in Reason, AbortAll(S, reason)
  PROVE  execs' \subseteq Execution
<1>1. ASSUME NEW e \in Execution
      PROVE  Aborted(e, reason) \in Execution
  BY DEF Aborted, Execution
<1>. QED
  BY <1>1 DEF PoolTypeOK, AbortAll

LEMMA HeldExecsType ==
  ASSUME NEW S
  PROVE  HeldExecs(S) \in SUBSET execs
BY DEF HeldExecs

\* A release gives back the slot of its own execution, or none.
LEMMA ReleaseType ==
  ASSUME PoolTypeOK, NEW e \in execs, PoolRelease(e)
  PROVE  held' \in [PoolJob -> Nat] /\ count' \in [PoolWorker -> Nat]
<1>1. e.job \in PoolJob /\ PoolWorkerOf[e.job] \in PoolWorker
  BY PoolAssumption DEF PoolTypeOK, Execution
<1>. QED
  BY <1>1 DEF PoolTypeOK, PoolRelease

LEMMA FinishType ==
  ASSUME PoolTypeOK, NEW e \in execs, Finish(e)
  PROVE  /\ held' \in [PoolJob -> Nat] /\ count' \in [PoolWorker -> Nat]
         /\ execs' \subseteq Execution
<1>1. Ended(e) \in Execution
  BY DEF PoolTypeOK, Ended, Execution
<1>. QED
  BY <1>1, ReleaseType DEF PoolTypeOK, Finish, Update

LEMMA DecisionType ==
  ASSUME NEW e, NEW ok
  PROVE  Decision(e, ok) \in Write
BY DEF Decision, Write

LEMMA FinalizationType ==
  ASSUME NEW reason
  PROVE  Finalization(reason) \in Write \ {"none"}
BY DEF Finalization, Write

LEMMA ClaimTokenType ==
  ASSUME PoolTypeOK, NEW e \in execs
  PROVE  [job |-> e.job, token |-> e.token] \in PoolClaim
BY DEF PoolTypeOK, Execution, PoolClaim

LEMMA PollTypes ==
  ASSUME PoolTypeOK, PollInv, NEW p \in Poll, PollBegin(p) \/ PollStep(p) \/ PollFails(p)
  PROVE  PoolTypeOK'
<1>1. CASE PollBegin(p)
  BY <1>1 DEF PoolTypeOK, PollBegin, PollState, rowVars, slotVars, workerVars
<1>2. CASE PollList(p)
  <2> DEFINE due == {w \in PoolWorker : PendingOf(rows, w) # {}}
  <2>1. PICK s \in LoopStates(held, count, due, HeldJobs(held)) : SetPoll(p, s)
    BY <1>2 DEF PollList
  <2>2. s \in PollState
    <3>1. due \in SUBSET PoolWorker /\ HeldJobs(held) \in SUBSET PoolJob
      BY DEF HeldJobs
    <3>. QED
      BY <3>1, LoopGoesOn DEF PoolTypeOK
  <2>3. polls' \in [Poll -> PollState] /\ isPolling' \in BOOLEAN
    BY <2>1, <2>2, SetPollType
  <2>. QED
    BY <1>2, <2>3 DEF PoolTypeOK, PollList, rowVars, slotVars, workerVars
<1>3. CASE PollClaim(p)
  <2> DEFINE w == polls[p].worker
             ready == RecoverLeases(rows, w, polls[p].active)
  <2>1. w \in PoolWorker
    BY <1>3 DEF PollClaim, PollInv
  <2>2. /\ rows' \in [PoolJob -> Row] /\ execs' \subseteq Execution /\ held' \in [PoolJob -> Nat]
        /\ count' \in [PoolWorker -> Nat] /\ leaked' \in [PoolWorker -> Nat]
    <3>1. CASE UNCHANGED <<rows, slotVars>>
      BY <3>1 DEF PoolTypeOK, slotVars
    <3>2. CASE \E S \in PoolClaimable(ready, w, polls[p].max) :
                  rows' = ClaimedRows(ready, S) /\ Start(S, w)
      <4>1. PICK S \in SUBSET PoolJob : rows' = ClaimedRows(ready, S) /\ Start(S, w)
        BY <3>2 DEF PoolClaimable, PendingOf, JobsOf
      <4>2. ready \in [PoolJob -> Row]
        BY RecoveredRows DEF PoolTypeOK, RecoverLeases
      <4>3. rows' \in [PoolJob -> Row] /\ \A j \in PoolJob : rows'[j].attempts \in Nat
        BY <4>1, <4>2, RowsClaimed DEF Row
      <4>4. \A j \in S : Started(j, rows'[j].attempts) \in Execution
        BY <4>3, StartedType
      <4>5. Cardinality(S) \in Nat /\ Cardinality(S \cap HeldJobs(held)) \in Nat
        BY JobSets
      <4>. QED
        BY <2>1, <4>1, <4>3, <4>4, <4>5 DEF PoolTypeOK, Start
    <3>. QED
      BY <1>3, <3>1, <3>2 DEF PollClaim
  <2>3. \E s \in LoopStates(held', count', polls[p].todo, polls[p].active) : SetPoll(p, s)
    BY <1>3 DEF PollClaim
  <2>4. polls[p].todo \in SUBSET PoolWorker /\ polls[p].active \in SUBSET PoolJob
    BY DEF PoolTypeOK, PollState
  <2>5. polls' \in [Poll -> PollState] /\ isPolling' \in BOOLEAN
    BY <2>2, <2>3, <2>4, LoopGoesOn, SetPollType DEF PoolTypeOK
  <2>. QED
    BY <1>3, <2>2, <2>5 DEF PoolTypeOK, PollClaim, workerVars
<1>4. CASE PollFails(p)
  <2>1. polls' \in [Poll -> PollState] /\ isPolling' \in BOOLEAN
    BY <1>4, SetPollType, IdleType DEF PollFails
  <2>. QED
    BY <1>4, <2>1, DisturbType DEF PoolTypeOK, PollFails, rowVars, slotVars, workerVars
<1>. QED
  BY <1>1, <1>2, <1>3, <1>4 DEF PollStep

LEMMA ExecTypes ==
  ASSUME PoolTypeOK, NEW e \in execs, ExecStep(e)
  PROVE  PoolTypeOK'
<1> USE DEF rowVars, slotVars, pollVars, workerVars
<1>1. e \in Execution
  BY DEF PoolTypeOK
<1>2. ASSUME NEW ok \in BOOLEAN, HandlerEnds(e, ok)
      PROVE  PoolTypeOK'
  <2>1. [e EXCEPT !.phase = "writing", !.ok = ok, !.write = Decision(e, ok)] \in Execution
    BY <1>1, DecisionType DEF Execution
  <2>. QED
    BY <1>2, <2>1, UpdateType DEF PoolTypeOK, HandlerEnds
<1>3. CASE OutcomeWritten(e)
  <2>1. e.write \in Write
    BY <1>1 DEF Execution
  <2>2. rows' \in [PoolJob -> Row]
    BY <1>1, <1>3, <2>1, WrittenRows DEF PoolTypeOK, OutcomeWritten
  <2>3. [e EXCEPT !.phase = "closing", !.ok = FALSE] \in Execution
    BY <1>1 DEF Execution
  <2>4. /\ held' \in [PoolJob -> Nat] /\ count' \in [PoolWorker -> Nat]
        /\ execs' \subseteq Execution
    BY <1>3, <2>3, UpdateType, FinishType DEF PoolTypeOK, OutcomeWritten
  <2>. QED
    BY <1>3, <2>2, <2>4 DEF PoolTypeOK, OutcomeWritten
<1>4. CASE OutcomeFails(e)
  <2>1. /\ [e EXCEPT !.ok = FALSE, !.write = Decision(e, FALSE)] \in Execution
        /\ [e EXCEPT !.phase = "closing"] \in Execution
    BY <1>1, DecisionType DEF Execution
  <2>2. execs' \subseteq Execution /\ lost' \subseteq PoolClaim
    BY <1>4, <2>1, UpdateType, ClaimTokenType DEF PoolTypeOK, OutcomeFails
  <2>. QED
    BY <1>4, <2>2, DisturbType DEF PoolTypeOK, OutcomeFails
<1>5. CASE Close(e)
  BY <1>5, FinishType DEF PoolTypeOK, Close
<1>6. CASE TimeoutFires(e)
  <2>1. Aborted(e, "timeout") \in Execution
    BY <1>1 DEF Aborted, Execution, Reason
  <2>. QED
    BY <1>6, <2>1, UpdateType DEF PoolTypeOK, TimeoutFires
<1>7. CASE ExtendTimeout(e)
  <2>1. [e EXCEPT !.timer = TRUE] \in Execution
    BY <1>1 DEF Execution
  <2>. QED
    BY <1>7, <2>1, UpdateType, DisturbType DEF PoolTypeOK, ExtendTimeout
<1>8. CASE GraceFires(e)
  <2>1. /\ [e EXCEPT !.grace = FALSE] \in Execution
        /\ [[e EXCEPT !.grace = FALSE] EXCEPT !.final = Finalization(e.reason)] \in Execution
    BY <1>1, FinalizationType DEF Execution
  <2>2. execs' \subseteq Execution
    BY <1>8, <2>1, UpdateType DEF GraceFires
  <2>. QED
    BY <1>8, <2>2, ReleaseType DEF PoolTypeOK, GraceFires
<1>9. CASE Finalize(e) \/ FinalizeFails(e)
  <2>1. [e EXCEPT !.final = "none"] \in Execution
    BY <1>1 DEF Execution, Write
  <2>2. execs' \subseteq Execution
    BY <1>9, <2>1, UpdateType DEF PoolTypeOK, Finalize, FinalizeFails, AfterFinal
  <2>3. CASE Finalize(e)
    <3>1. rows' \in [PoolJob -> Row]
      BY <1>1, <2>3, WrittenRows DEF PoolTypeOK, Finalize, Execution
    <3>. QED
      BY <2>2, <2>3, <3>1 DEF PoolTypeOK, Finalize
  <2>4. CASE FinalizeFails(e)
    BY <2>2, <2>4, DisturbType, ClaimTokenType DEF PoolTypeOK, FinalizeFails
  <2>. QED
    BY <1>9, <2>3, <2>4
<1>. QED
  BY <1>2, <1>3, <1>4, <1>5, <1>6, <1>7, <1>8, <1>9 DEF ExecStep

LEMMA RowsSet ==
  ASSUME PoolTypeOK, NEW S \in SUBSET PoolJob
  PROVE  /\ Cancelled(rows, S) \in [PoolJob -> Row]
         /\ PoolReads(rows, S) \subseteq PoolClaim
<1>1. \A j \in PoolJob : SetStatus(rows[j], "cancelled") \in Row /\ rows[j].attempts \in Nat
  BY SetStatusRow DEF PoolTypeOK, PoolFinished, Row
<1>. QED
  BY <1>1 DEF PoolTypeOK, Cancelled, PoolReads, PoolClaim

LEMMA WorkerTypes ==
  ASSUME PoolTypeOK, NEW w \in PoolWorker, WorkerStep(w)
  PROVE  PoolTypeOK'
<1> USE DEF rowVars, slotVars, pollVars
<1>1. CASE RequeueAllForWorker(w)
  <2>1. execs' \subseteq Execution
    BY <1>1, AbortType, HeldExecsType DEF RequeueAllForWorker, Reason
  <2>. QED
    BY <1>1, <2>1, DisturbType DEF PoolTypeOK, RequeueAllForWorker, workerVars
<1>2. CASE Unregister(w)
  <2>1. execs' \subseteq Execution
    BY <1>2, AbortType, HeldExecsType DEF Unregister, Reason
  <2>. QED
    BY <1>2, <2>1, DisturbType DEF PoolTypeOK, Unregister
<1>3. CASE UnregisterCancels(w) \/ DrainEnd(w)
  <2>1. PendingOf(rows, w) \in SUBSET PoolJob
    BY DEF PendingOf, JobsOf
  <2>2. rows' \in [PoolJob -> Row]
    BY <1>3, <2>1, RowsSet DEF UnregisterCancels, DrainEnd
  <2>3. CASE UnregisterCancels(w)
    BY <2>2, <2>3 DEF PoolTypeOK, UnregisterCancels
  <2>4. CASE DrainEnd(w)
    BY <2>2, <2>4 DEF PoolTypeOK, DrainEnd
  <2>. QED
    BY <1>3, <2>3, <2>4
<1>4. CASE DrainBegin(w)
  <2>1. {[job |-> e.job, token |-> e.token] : e \in HeldExecs(JobsOf(w))} \subseteq PoolClaim
    BY HeldExecsType, ClaimTokenType
  <2>. QED
    BY <1>4, <2>1 DEF PoolTypeOK, DrainBegin
<1>5. CASE Register(w)
  BY <1>5 DEF PoolTypeOK, Register
<1>. QED
  BY <1>1, <1>2, <1>3, <1>4, <1>5 DEF WorkerStep

LEMMA JobTypes ==
  ASSUME PoolTypeOK, NEW j \in PoolJob, JobStep(j)
  PROVE  PoolTypeOK'
<1> USE DEF rowVars, slotVars, pollVars, workerVars
<1>1. CASE PoolEnqueue(j) \/ LeaseLapses(j)
  <2>1. /\ [rows[j] EXCEPT !.status = "pending"] \in Row
        /\ [rows[j] EXCEPT !.lapsed = TRUE] \in Row
    BY DEF PoolTypeOK, Row
  <2>. QED
    BY <1>1, <2>1 DEF PoolTypeOK, PoolEnqueue, LeaseLapses
<1>2. CASE CancelItem(j)
  <2>1. execs' \subseteq Execution
    BY <1>2, AbortType, HeldExecsType DEF CancelItem, Reason
  <2>. QED
    BY <1>2, <2>1, DisturbType DEF PoolTypeOK, CancelItem
<1>3. CASE CancelRow(j)
  <2>1. rows' \in [PoolJob -> Row]
    BY <1>3, RowsSet DEF PoolTypeOK, CancelRow
  <2>. QED
    BY <1>3, <2>1 DEF PoolTypeOK, CancelRow
<1>. QED
  BY <1>1, <1>2, <1>3 DEF JobStep

LEMMA TypeStep ==
  ASSUME PoolTypeOK, PollInv, [PoolNext]_poolVars
  PROVE  PoolTypeOK'
<1> USE DEF rowVars, slotVars, pollVars, workerVars
<1>1. CASE RecoverFromStall
  BY <1>1, DisturbType DEF PoolTypeOK, RecoverFromStall
<1>2. CASE SweepRead
  <2>1. \A S \in SUBSET PoolJob : PoolReads(rows, S) \subseteq PoolClaim
    BY RowsSet
  <2>. QED
    BY <1>2, <2>1 DEF PoolTypeOK, SweepRead, PoolOrphans
<1>3. CASE SweepCommit
  <2>1. rows' \in [PoolJob -> Row]
    BY <1>3, RecoveredRows DEF PoolTypeOK, SweepCommit
  <2>. QED
    BY <1>3, <2>1 DEF PoolTypeOK, SweepCommit
<1>4. CASE Shutdown
  <2>1. execs' \subseteq Execution
    BY <1>4, AbortType, HeldExecsType DEF Shutdown, Reason
  <2>. QED
    BY <1>4, <2>1, DisturbType DEF PoolTypeOK, Shutdown
<1>5. CASE PoolRestart
  <2>1. \A j \in PoolJob : [rows[j] EXCEPT !.foreign = TRUE] \in Row
    BY DEF PoolTypeOK, Row
  <2>2. rows' \in [PoolJob -> Row]
    BY <1>5, <2>1 DEF PoolTypeOK, PoolRestart
  <2>. QED
    BY <1>5, <2>2, DisturbType, IdleType DEF PoolTypeOK, PoolRestart
<1>6. CASE UNCHANGED poolVars
  BY <1>6 DEF PoolTypeOK, poolVars
<1>. QED
  BY <1>1, <1>2, <1>3, <1>4, <1>5, <1>6, PollTypes, ExecTypes, WorkerTypes, JobTypes DEF PoolNext

-----------------------------------------------------------------------------
(* Polls *)

\* Slots that are given back leave a snapshot as complete as it was.
LEMMA PollsUntouched ==
  ASSUME PoolTypeOK, PollInv, UNCHANGED pollVars, HeldJobs(held') \subseteq HeldJobs(held)
  PROVE  PollInv'
BY DEF PollInv, pollVars

LEMMA ReleaseShrinks ==
  ASSUME PoolTypeOK, NEW e \in execs, PoolRelease(e)
  PROVE  HeldJobs(held') \subseteq HeldJobs(held)
BY DEF PoolTypeOK, PoolRelease, HeldJobs

\* The last poll that ends clears the guard; a second one cannot begin before.
LEMMA PollEnds ==
  ASSUME PoolTypeOK, PollInv, NEW p \in Poll, polls[p].phase # "idle", SetPoll(p, IdlePoll),
         UNCHANGED overtaken,
         ~overtaken => \A q \in Poll \ {p} : polls[q].phase = "idle"
  PROVE  PollInv'
<1>1. \A q \in Poll : polls'[q] = IF q = p THEN IdlePoll ELSE polls[q]
  BY DEF PoolTypeOK, SetPoll
<1>2. IdlePoll.phase = "idle"
  BY DEF IdlePoll
<1>3. \A q \in Poll : polls'[q].phase = "claiming" =>
          q # p /\ polls'[q] = polls[q] /\ polls[q].phase = "claiming"
  BY <1>1, <1>2
<1>4. ~overtaken' => \A q \in Poll : polls'[q].phase = "idle"
  BY <1>1, <1>2
<1>. QED
  BY <1>3, <1>4 DEF PollInv

\* The poll goes on to a worker of its list.  The slots taken since its snapshot are of workers
\* that are not on the list any more.
LEMMA PollGoesOn ==
  ASSUME PoolTypeOK, PollInv, NEW p \in Poll, polls[p].phase # "idle",
         NEW s, s.phase = "claiming", SetPoll(p, s), UNCHANGED overtaken,
         s.worker \in PoolWorker \ s.todo,
         ~overtaken => \A j \in HeldJobs(held') :
             PoolWorkerOf[j] \in s.todo \cup {s.worker} => j \in s.active
  PROVE  PollInv'
<1>1. \A q \in Poll : polls'[q] = IF q = p THEN s ELSE polls[q]
  BY DEF PoolTypeOK, SetPoll
<1>2. isPolling' = isPolling
  BY DEF PoolTypeOK, SetPoll
<1>3. \A q \in Poll : polls'[q].phase = "claiming" => polls'[q].worker \in PoolWorker \ polls'[q].todo
  BY <1>1 DEF PollInv
<1>4. ~overtaken' => isPolling /\ \A q \in Poll \ {p} : polls[q].phase = "idle"
  BY DEF PollInv
<1>. QED
  BY <1>1, <1>2, <1>3, <1>4 DEF PollInv

LEMMA PollStepInv ==
  ASSUME PoolTypeOK, PollInv, NEW p \in Poll, PollBegin(p) \/ PollStep(p) \/ PollFails(p)
  PROVE  PollInv'
<1>1. CASE PollBegin(p)
  <2>1. \A q \in Poll : polls'[q].phase = IF q = p THEN "listing" ELSE polls[q].phase
    BY <1>1 DEF PollBegin, PoolTypeOK, PollState
  <2>2. \A q \in Poll : polls'[q].phase = "claiming" => polls'[q] = polls[q]
    BY <1>1, <2>1 DEF PollBegin, PoolTypeOK
  <2>3. ~overtaken => \A q \in Poll : polls[q].phase = "idle"
    BY <1>1 DEF PollBegin, PollInv
  <2>4. isPolling' /\ UNCHANGED <<overtaken, held>>
    BY <1>1 DEF PollBegin, slotVars
  <2>. QED
    BY <2>1, <2>2, <2>3, <2>4 DEF PollInv
<1>2. CASE PollList(p)
  <2> DEFINE due == {w \in PoolWorker : PendingOf(rows, w) # {}}
  <2>1. PICK s \in LoopStates(held, count, due, HeldJobs(held)) : SetPoll(p, s)
    BY <1>2 DEF PollList
  <2>2. due \in SUBSET PoolWorker /\ HeldJobs(held) \in SUBSET PoolJob
    BY DEF HeldJobs
  <2>3. \/ s = IdlePoll
        \/ /\ s.phase = "claiming" /\ s.active = HeldJobs(held)
           /\ s.worker \in due /\ s.todo \subseteq due \ {s.worker}
    BY <2>2, LoopGoesOn DEF PoolTypeOK
  <2>4. /\ UNCHANGED <<overtaken, held>>
        /\ polls[p].phase # "idle"
        /\ ~overtaken => \A q \in Poll \ {p} : polls[q].phase = "idle"
    BY <1>2 DEF PollList, PollInv, slotVars
  <2>5. CASE s = IdlePoll
    BY <2>1, <2>4, <2>5, PollEnds
  <2>6. CASE s.phase = "claiming" /\ s # IdlePoll
    <3>1. s.worker \in PoolWorker \ s.todo
      BY <2>3, <2>6
    <3>2. \A j \in HeldJobs(held') : j \in s.active
      BY <2>3, <2>4, <2>6
    <3>. QED
      BY <2>1, <2>4, <2>6, <3>1, <3>2, PollGoesOn
  <2>. QED
    BY <2>3, <2>5, <2>6
<1>3. CASE PollClaim(p)
  <2> DEFINE w == polls[p].worker
             ready == RecoverLeases(rows, w, polls[p].active)
  <2>1. PICK s \in LoopStates(held', count', polls[p].todo, polls[p].active) : SetPoll(p, s)
    BY <1>3 DEF PollClaim
  <2>2. PoolTypeOK'
    BY <1>3, PollTypes DEF PollStep
  <2>3. polls[p].todo \in SUBSET PoolWorker /\ polls[p].active \in SUBSET PoolJob
    BY DEF PoolTypeOK, PollState
  <2>4. \/ s = IdlePoll
        \/ /\ s.phase = "claiming" /\ s.active = polls[p].active
           /\ s.worker \in polls[p].todo /\ s.todo \subseteq polls[p].todo \ {s.worker}
    BY <2>2, <2>3, LoopGoesOn DEF PoolTypeOK
  <2>5. /\ UNCHANGED overtaken
        /\ polls[p].phase = "claiming" /\ w \notin polls[p].todo
        /\ ~overtaken => \A q \in Poll \ {p} : polls[q].phase = "idle"
    BY <1>3 DEF PollClaim, PollInv
  <2>6. \A j \in HeldJobs(held') : j \in HeldJobs(held) \/ PoolWorkerOf[j] = w
    <3>1. CASE UNCHANGED slotVars
      BY <3>1 DEF slotVars
    <3>2. CASE \E S \in PoolClaimable(ready, w, polls[p].max) : Start(S, w)
      BY <3>2 DEF PoolClaimable, PendingOf, JobsOf, Start, HeldJobs
    <3>. QED
      BY <1>3, <3>1, <3>2 DEF PollClaim
  <2>7. CASE s = IdlePoll
    BY <2>1, <2>5, <2>7, PollEnds
  <2>8. CASE s.phase = "claiming" /\ s # IdlePoll
    <3>1. s.worker \in PoolWorker \ s.todo
      BY <2>3, <2>4, <2>8
    <3>2. ~overtaken' => \A j \in HeldJobs(held') :
             PoolWorkerOf[j] \in s.todo \cup {s.worker} => j \in s.active
      BY <2>4, <2>5, <2>6, <2>8 DEF PollInv
    <3>. QED
      BY <2>1, <2>5, <2>8, <3>1, <3>2, PollGoesOn
  <2>. QED
    BY <2>4, <2>7, <2>8
<1>4. CASE PollFails(p)
  <2>1. /\ SetPoll(p, IdlePoll) /\ polls[p].phase # "idle" /\ UNCHANGED overtaken
        /\ ~overtaken => \A q \in Poll \ {p} : polls[q].phase = "idle"
    BY <1>4 DEF PollFails, PollInv
  <2>. QED
    BY <2>1, PollEnds
<1>. QED
  BY <1>1, <1>2, <1>3, <1>4 DEF PollStep

\* What any other step leaves of the polls and the slots.
LEMMA OtherSteps ==
  ASSUME PoolTypeOK,
         \/ \E e \in execs : ExecStep(e)
         \/ \E w \in PoolWorker : WorkerStep(w)
         \/ \E j \in PoolJob : JobStep(j)
         \/ SweepRead \/ SweepCommit \/ Shutdown
  PROVE  UNCHANGED pollVars /\ HeldJobs(held') \subseteq HeldJobs(held)
<1> USE DEF slotVars, HeldJobs
<1>1. ASSUME NEW e \in execs, ExecStep(e)
      PROVE  UNCHANGED pollVars /\ HeldJobs(held') \subseteq HeldJobs(held)
  <2>1. UNCHANGED pollVars /\ (PoolRelease(e) \/ UNCHANGED held)
    BY <1>1 DEF ExecStep, HandlerEnds, OutcomeWritten, OutcomeFails, Close, TimeoutFires,
       ExtendTimeout, GraceFires, Finalize, FinalizeFails, Finish
  <2>. QED
    BY <2>1, ReleaseShrinks
<1>2. ASSUME NEW w \in PoolWorker, WorkerStep(w)
      PROVE  UNCHANGED <<pollVars, held>>
  BY <1>2 DEF WorkerStep, RequeueAllForWorker, Unregister, UnregisterCancels, DrainBegin,
     DrainEnd, Register
<1>3. ASSUME NEW j \in PoolJob, JobStep(j)
      PROVE  UNCHANGED <<pollVars, held>>
  BY <1>3 DEF JobStep, PoolEnqueue, LeaseLapses, CancelItem, CancelRow
<1>4. SweepRead \/ SweepCommit \/ Shutdown => UNCHANGED <<pollVars, held>>
  BY DEF SweepRead, SweepCommit, Shutdown
<1>. QED
  BY <1>1, <1>2, <1>3, <1>4

LEMMA PollInvStep ==
  ASSUME PoolTypeOK, PollInv, [PoolNext]_poolVars
  PROVE  PollInv'
<1>1. CASE \E p \in Poll : PollBegin(p) \/ PollStep(p) \/ PollFails(p)
  BY <1>1, PollStepInv
<1>2. CASE RecoverFromStall
  BY <1>2 DEF RecoverFromStall, PollInv
<1>3. CASE PoolRestart
  BY <1>3 DEF PoolRestart, PollInv, IdlePoll
<1>4. CASE UNCHANGED poolVars
  BY <1>4, PollsUntouched DEF poolVars, slotVars, HeldJobs
<1>. QED
  BY <1>1, <1>2, <1>3, <1>4, OtherSteps, PollsUntouched DEF PoolNext

-----------------------------------------------------------------------------
(* Executions and rows *)

PoolInv == ClaimInv /\ HolderInv /\ CountInv /\ OwnerInv

\* Rows that are written, but not claimed: none begins to run under this process.
RowsMove ==
    \A j \in PoolJob :
        /\ rows'[j].attempts = rows[j].attempts
        /\ rows'[j].status = "running" /\ ~rows'[j].foreign =>
              rows[j].status = "running" /\ ~rows[j].foreign

LEMMA RowsOnly ==
  ASSUME PoolTypeOK, PoolInv, RowsMove, UNCHANGED <<slotVars, lost>>
  PROVE  PoolInv'
<1>1. ClaimInv'
  BY DEF PoolTypeOK, Execution, PoolInv, ClaimInv, RowsMove, slotVars
<1>2. HolderInv' /\ CountInv'
  BY DEF PoolInv, HolderInv, CountInv, slotVars
<1>3. OwnerInv'
  BY DEF PoolInv, OwnerInv, Backs, Holds, RowsMove, slotVars
<1>. QED
  BY <1>1, <1>2, <1>3 DEF PoolInv

\* An abort changes neither the claim, nor the phase, nor what is written in the end.
LEMMA AbortKeeps ==
  ASSUME PoolTypeOK, PoolInv, NEW S \in SUBSET execs, NEW reason, AbortAll(S, reason),
         UNCHANGED <<rows, held, count, leaked, lost>>
  PROVE  PoolInv'
<1> DEFINE Same(e, f) == /\ e.job = f.job /\ e.token = f.token
                         /\ e.phase = f.phase /\ e.final = f.final
<1>1. \A e \in execs : Same(e, Aborted(e, reason))
  BY DEF PoolTypeOK, Execution, Aborted
<1>2. \A f \in execs' : \E e \in execs :
         Same(e, f) /\ f = IF e \in S THEN Aborted(e, reason) ELSE e
  BY <1>1 DEF AbortAll
<1>3. \A e \in execs : \E f \in execs' : Same(e, f)
  BY <1>1 DEF AbortAll
<1>4. ClaimInv'
  <2>1. \A e \in execs' : e.token \in 1..rows[e.job].attempts
    BY <1>2 DEF PoolInv, ClaimInv
  <2>2. ASSUME NEW d \in execs', NEW f \in execs', d.job = f.job, d.token = f.token
        PROVE  d = f
    <3>1. PICK a \in execs : Same(a, d) /\ d = IF a \in S THEN Aborted(a, reason) ELSE a
      BY <1>2
    <3>2. PICK b \in execs : Same(b, f) /\ f = IF b \in S THEN Aborted(b, reason) ELSE b
      BY <1>2
    <3>3. a = b
      BY <2>2, <3>1, <3>2 DEF PoolInv, ClaimInv
    <3>. QED
      BY <3>1, <3>2, <3>3
  <2>. QED
    BY <2>1, <2>2 DEF ClaimInv
<1>5. HolderInv' /\ CountInv'
  BY <1>3 DEF PoolInv, HolderInv, CountInv
<1>6. OwnerInv'
  BY <1>3 DEF PoolInv, OwnerInv, Backs, Holds
<1>. QED
  BY <1>4, <1>5, <1>6 DEF PoolInv

\* What a step of an execution does to it, to its slot, to its row and to the record of lost
\* claims.
Becomes(e, f) == f.job = e.job /\ f.token = e.token /\ execs' = Update(e, f)

\* The row of its claim runs no more, or the claim is recorded as lost.
Resolved(e) ==
    \/ rows'[e.job].status # "running" \/ rows'[e.job].foreign
    \/ rows'[e.job].attempts # e.token
    \/ [job |-> e.job, token |-> e.token] \in lost'

\* An execution that backs its row goes on to do so, unless it has resolved it.
StillBacks(e, f) ==
    f.final # "none" \/ (UNCHANGED held /\ Holds(e) /\ f.phase \in {"handler", "writing"})

StepOf(e) ==
    /\ RowsMove
    /\ lost \subseteq lost' /\ UNCHANGED leaked
    /\ execs' = execs \ {e} \/ \E f : Becomes(e, f)
    /\ \/ PoolRelease(e)
       \/ /\ UNCHANGED <<held, count>>
          /\ e.phase = "ended" \/ \E f : Becomes(e, f) /\ f.phase # "ended"
    /\ Backs(e) => Resolved(e) \/ \E f : Becomes(e, f) /\ StillBacks(e, f)

LEMMA ExecShape ==
  ASSUME PoolTypeOK, PoolInv, NEW e \in execs, ExecStep(e)
  PROVE  StepOf(e)
<1>1. e \in Execution /\ e.job \in PoolJob /\ e.write \in Write /\ e.final \in Write
  BY DEF PoolTypeOK, Execution
<1>2. UNCHANGED rows => RowsMove
  BY DEF RowsMove
<1>3. ASSUME NEW write \in Write, rows' = Written(e, write)
      PROVE  RowsMove /\ Resolved(e)
  <2>1. \A j \in PoolJob : /\ rows'[j].attempts = rows[j].attempts
                           /\ rows'[j] = rows[j] \/ rows'[j].status # "running"
    BY <1>1, <1>3, WrittenRows DEF PoolTypeOK
  <2>2. OwnsRow(e) => rows'[e.job].status # "running"
    BY <1>1, <1>3, WrittenRows, TargetStatus DEF PoolTypeOK
  <2>. QED
    BY <1>1, <2>1, <2>2 DEF RowsMove, OwnsRow, Resolved
<1>4. ASSUME NEW ok \in BOOLEAN, HandlerEnds(e, ok)
      PROVE  StepOf(e)
  <2> DEFINE f == [e EXCEPT !.phase = "writing", !.ok = ok, !.write = Decision(e, ok)]
  <2>1. f.job = e.job /\ f.token = e.token /\ f.phase = "writing" /\ f.final = e.final
    BY <1>1 DEF Execution
  <2>2. Becomes(e, f)
    BY <1>4, <2>1 DEF HandlerEnds, Becomes
  <2>. QED
    BY <1>2, <1>4, <2>1, <2>2 DEF HandlerEnds, StepOf, Backs, StillBacks, rowVars
<1>5. ASSUME Finish(e)
      PROVE  /\ e.final = "none" => execs' = execs \ {e}
             /\ e.final # "none" => Becomes(e, Ended(e)) /\ Ended(e).final = e.final
  <2>1. /\ Ended(e).job = e.job /\ Ended(e).token = e.token
        /\ Ended(e).final = e.final
    BY <1>1 DEF Ended, Execution
  <2>. QED
    BY <1>5, <2>1 DEF Finish, Becomes
<1>6. CASE OutcomeWritten(e)
  <2> DEFINE f == [e EXCEPT !.phase = "closing", !.ok = FALSE]
  <2>1. f.job = e.job /\ f.token = e.token /\ f.phase = "closing"
    BY <1>1 DEF Execution
  <2>2. Target(e.write) # "pending" => Becomes(e, f) /\ UNCHANGED <<held, count>>
    BY <1>6, <2>1 DEF OutcomeWritten, Becomes
  <2>3. Target(e.write) = "pending" => Finish(e)
    BY <1>6 DEF OutcomeWritten
  <2>4. RowsMove /\ Resolved(e) /\ UNCHANGED <<lost, leaked>>
    BY <1>1, <1>3, <1>6 DEF OutcomeWritten
  <2>. QED
    BY <1>5, <2>1, <2>2, <2>3, <2>4 DEF StepOf, Finish
<1>7. CASE OutcomeFails(e)
  <2> DEFINE f == [e EXCEPT !.ok = FALSE, !.write = Decision(e, FALSE)]
             g == [e EXCEPT !.phase = "closing"]
  <2>1. /\ f.job = e.job /\ f.token = e.token /\ f.phase = e.phase /\ f.final = e.final
        /\ g.job = e.job /\ g.token = e.token /\ g.phase = "closing"
    BY <1>1 DEF Execution
  <2>2. e.phase = "writing" /\ UNCHANGED <<rows, held, count, leaked>>
    BY <1>7 DEF OutcomeFails
  <2>3. CASE e.ok
    <3>1. Becomes(e, f) /\ UNCHANGED lost
      BY <1>7, <2>1, <2>3 DEF OutcomeFails, Becomes
    <3>. QED
      BY <1>2, <2>1, <2>2, <3>1 DEF StepOf, Backs, StillBacks
  <2>4. CASE ~e.ok
    <3>1. Becomes(e, g) /\ lost' = lost \cup {[job |-> e.job, token |-> e.token]}
      BY <1>7, <2>1, <2>4 DEF OutcomeFails, Becomes
    <3>. QED
      BY <1>2, <2>1, <2>2, <3>1 DEF StepOf, Resolved
  <2>. QED
    BY <2>3, <2>4
<1>8. CASE Close(e)
  BY <1>2, <1>5, <1>8 DEF Close, Finish, StepOf, Backs, StillBacks, rowVars
<1>9. CASE TimeoutFires(e) \/ ExtendTimeout(e)
  <2>1. PICK f \in {Aborted(e, "timeout"), [e EXCEPT !.timer = TRUE]} : execs' = Update(e, f)
    BY <1>9 DEF TimeoutFires, ExtendTimeout
  <2>2. f.job = e.job /\ f.token = e.token /\ f.phase = e.phase /\ f.final = e.final
    BY <1>1 DEF Aborted, Execution
  <2>3. Becomes(e, f) /\ UNCHANGED <<rowVars, held, count, leaked>>
    BY <1>9, <2>1, <2>2 DEF TimeoutFires, ExtendTimeout, Becomes
  <2>. QED
    BY <1>2, <2>2, <2>3 DEF StepOf, Backs, StillBacks, rowVars
<1>10. CASE GraceFires(e)
  <2> DEFINE g == [e EXCEPT !.grace = FALSE]
             f == IF Holds(e) THEN [g EXCEPT !.final = Finalization(e.reason)] ELSE g
  <2>1. /\ f.job = e.job /\ f.token = e.token
        /\ f.final = IF Holds(e) THEN Finalization(e.reason) ELSE e.final
    BY <1>1 DEF Execution
  <2>2. Becomes(e, f) /\ PoolRelease(e) /\ UNCHANGED <<rowVars, leaked>>
    BY <1>10, <2>1 DEF GraceFires, Becomes
  <2>3. Backs(e) => StillBacks(e, f)
    BY <2>1, FinalizationType DEF Backs, StillBacks
  <2>. QED
    BY <1>2, <2>2, <2>3 DEF StepOf, rowVars
<1>11. ASSUME AfterFinal(e), UNCHANGED <<held, count, leaked>>, RowsMove, Resolved(e),
              lost \subseteq lost'
       PROVE  StepOf(e)
  <2> DEFINE f == [e EXCEPT !.final = "none"]
  <2>1. f.job = e.job /\ f.token = e.token /\ f.phase = e.phase
    BY <1>1 DEF Execution
  <2>2. IF e.phase = "ended" THEN execs' = execs \ {e} ELSE Becomes(e, f)
    BY <1>11, <2>1 DEF AfterFinal, Becomes
  <2>. QED
    BY <1>11, <2>1, <2>2 DEF StepOf
<1>12. CASE Finalize(e)
  BY <1>1, <1>3, <1>11, <1>12 DEF Finalize
<1>13. CASE FinalizeFails(e)
  BY <1>2, <1>11, <1>13 DEF FinalizeFails, Resolved
<1>. QED
  BY <1>4, <1>6, <1>7, <1>8, <1>9, <1>10, <1>12, <1>13 DEF ExecStep

\* A release takes one slot out of the map and one off the count, or nothing.
LEMMA ReleaseCounts ==
  ASSUME PoolTypeOK, PoolInv, NEW e \in execs, PoolRelease(e), UNCHANGED leaked
  PROVE  CountInv'
<1>1. e.job \in PoolJob /\ PoolWorkerOf[e.job] \in PoolWorker /\ e.token # 0
  BY PoolAssumption DEF PoolTypeOK, Execution, PoolInv, ClaimInv
<1>2. CASE ~Holds(e)
  BY <1>2 DEF PoolRelease, PoolInv, CountInv
<1>3. CASE Holds(e)
  <2> DEFINE v == PoolWorkerOf[e.job]
             before(w) == HeldJobs(held) \cap JobsOf(w)
             after(w) == HeldJobs(held') \cap JobsOf(w)
  <2>1. /\ held' = [held EXCEPT ![e.job] = 0]
        /\ count' = [count EXCEPT ![v] = IF count[v] <= 1 THEN 0 ELSE count[v] - 1]
    BY <1>3 DEF PoolRelease
  <2>2. /\ e.job \in before(v) /\ after(v) = before(v) \ {e.job}
        /\ \A w \in PoolWorker \ {v} : after(w) = before(w)
    BY <1>1, <1>3, <2>1 DEF PoolTypeOK, Holds, HeldJobs, JobsOf
  <2>3. \A w \in PoolWorker : IsFiniteSet(before(w)) /\ Cardinality(before(w)) \in Nat
    BY JobSets DEF HeldJobs
  <2>4. /\ Cardinality(after(v)) = Cardinality(before(v)) - 1
        /\ Cardinality(after(v)) \in Nat
    <3>1. IsFiniteSet(before(v)) /\ after(v) \in SUBSET PoolJob
      BY <1>1, <2>3 DEF HeldJobs
    <3>. QED
      BY <2>2, <3>1, FS_RemoveElement, JobSets
  <2>5. ASSUME NEW w \in PoolWorker
        PROVE  count'[w] = Cardinality(after(w)) + leaked[w]
    <3>1. count[w] = Cardinality(before(w)) + leaked[w]
      BY DEF PoolInv, CountInv
    <3>2. /\ count[w] \in Nat /\ leaked[w] \in Nat /\ Cardinality(before(w)) \in Nat
          /\ count'[w] = IF w = v THEN (IF count[w] <= 1 THEN 0 ELSE count[w] - 1) ELSE count[w]
      BY <1>1, <2>1, <2>3 DEF PoolTypeOK
    <3>3. CASE w = v
      BY <2>4, <3>1, <3>2, <3>3
    <3>4. CASE w # v
      BY <2>2, <3>1, <3>2, <3>4
    <3>. QED
      BY <3>3, <3>4
  <2>. QED
    BY <2>5 DEF CountInv
<1>. QED
  BY <1>2, <1>3

LEMMA ExecInvStep ==
  ASSUME PoolTypeOK, PoolInv, NEW e \in execs, ExecStep(e)
  PROVE  PoolInv'
<1>1. StepOf(e)
  BY ExecShape
<1>2. \A f \in execs' : f \in execs \ {e} \/ (f.job = e.job /\ f.token = e.token)
  BY <1>1 DEF StepOf, Becomes, Update
<1>3. execs \ {e} \subseteq execs'
  BY <1>1 DEF StepOf, Becomes, Update
<1>4. \A d \in execs : d.job \in PoolJob /\ (d.job = e.job /\ d.token = e.token => d = e)
  BY DEF PoolTypeOK, Execution, PoolInv, ClaimInv
<1>5. \A f : Becomes(e, f) => f \in execs' /\ f.job = e.job /\ f.token = e.token
  BY DEF Becomes, Update
<1>6. ClaimInv'
  <2>1. \A f \in execs' : f.token \in 1..rows'[f.job].attempts
    BY <1>1, <1>2, <1>4 DEF PoolInv, ClaimInv, StepOf, RowsMove
  <2>2. ASSUME NEW d \in execs', NEW f \in execs', d.job = f.job, d.token = f.token
        PROVE  d = f
    <3>1. CASE d \in execs \ {e} /\ f \in execs \ {e}
      BY <2>2, <3>1 DEF PoolInv, ClaimInv
    <3>2. CASE d.job = e.job /\ d.token = e.token
      <4>1. d \notin execs \ {e} /\ f \notin execs \ {e}
        BY <1>4, <2>2, <3>2
      <4>. QED
        BY <1>1, <2>2, <4>1 DEF StepOf, Becomes, Update
    <3>3. CASE f.job = e.job /\ f.token = e.token
      <4>1. d \notin execs \ {e} /\ f \notin execs \ {e}
        BY <1>4, <2>2, <3>3
      <4>. QED
        BY <1>1, <2>2, <4>1 DEF StepOf, Becomes, Update
    <3>. QED
      BY <1>2, <2>2, <3>1, <3>2, <3>3
  <2>. QED
    BY <2>1, <2>2 DEF ClaimInv
<1>7. \A j \in PoolJob : held'[j] = held[j] \/ (j = e.job /\ held'[j] = 0 /\ Holds(e))
  BY <1>1, <1>4 DEF PoolTypeOK, StepOf, PoolRelease
<1>8. HolderInv'
  <2>1. ASSUME NEW j \in PoolJob, held'[j] # 0
        PROVE  \E f \in execs' : f.job = j /\ f.token = held'[j] /\ f.phase # "ended"
    <3>1. held'[j] = held[j]
      BY <1>7, <2>1
    <3>2. PICK d \in execs : d.job = j /\ d.token = held[j] /\ d.phase # "ended"
      BY <2>1, <3>1 DEF PoolInv, HolderInv
    <3>3. CASE d # e
      BY <1>3, <3>1, <3>2, <3>3
    <3>4. CASE d = e
      <4>1. ~PoolRelease(e)
        BY <1>4, <2>1, <3>1, <3>2, <3>4 DEF PoolTypeOK, PoolRelease, Holds
      <4>. QED
        BY <1>1, <1>5, <3>1, <3>2, <3>4, <4>1 DEF StepOf
    <3>. QED
      BY <3>3, <3>4
  <2>. QED
    BY <2>1 DEF HolderInv
<1>9. CountInv'
  BY <1>1, ReleaseCounts DEF PoolInv, CountInv, StepOf
<1>10. OwnerInv'
  <2>1. ASSUME NEW j \in PoolJob, rows'[j].status = "running", ~rows'[j].foreign,
               [job |-> j, token |-> rows'[j].attempts] \notin lost'
        PROVE  \E f \in execs' : f.job = j /\ f.token = rows'[j].attempts /\ Backs(f)'
    <3>1. /\ rows[j].status = "running" /\ ~rows[j].foreign
          /\ rows'[j].attempts = rows[j].attempts
      BY <1>1, <2>1 DEF StepOf, RowsMove
    <3>2. [job |-> j, token |-> rows[j].attempts] \notin lost
      BY <1>1, <2>1, <3>1 DEF StepOf
    <3>3. PICK d \in execs : d.job = j /\ d.token = rows[j].attempts /\ Backs(d)
      BY <3>1, <3>2 DEF PoolInv, OwnerInv
    <3>4. CASE d # e
      <4>1. ~(Holds(d) /\ Holds(e) /\ e.job = j)
        BY <1>4, <3>3, <3>4 DEF Holds
      <4>2. Backs(d)'
        BY <1>7, <3>3, <4>1 DEF Backs, Holds
      <4>. QED
        BY <1>3, <3>1, <3>3, <3>4, <4>2
    <3>5. CASE d = e
      <4>1. ~Resolved(e)
        BY <2>1, <3>1, <3>3, <3>5 DEF Resolved
      <4>2. PICK f : Becomes(e, f) /\ StillBacks(e, f)
        BY <1>1, <3>3, <3>5, <4>1 DEF StepOf
      <4>3. Backs(f)'
        BY <1>5, <4>2 DEF StillBacks, Backs, Holds
      <4>. QED
        BY <1>5, <3>1, <3>3, <3>5, <4>2, <4>3
    <3>. QED
      BY <3>4, <3>5
  <2>. QED
    BY <2>1 DEF OwnerInv
<1>. QED
  BY <1>6, <1>8, <1>9, <1>10 DEF PoolInv

LEMMA ClaimInvStep ==
  ASSUME PoolTypeOK, PollInv, PoolInv, NEW p \in Poll, PollClaim(p)
  PROVE  PoolInv'
<1> DEFINE w == polls[p].worker
           ready == RecoverLeases(rows, w, polls[p].active)
<1>1. w \in PoolWorker
  BY DEF PollClaim, PollInv
<1>2. UNCHANGED lost
  BY DEF PollClaim
<1>3. CASE UNCHANGED <<rows, slotVars>>
  BY <1>2, <1>3, RowsOnly DEF RowsMove
<1>4. CASE \E S \in PoolClaimable(ready, w, polls[p].max) :
              rows' = ClaimedRows(ready, S) /\ Start(S, w)
  <2>1. PICK S \in SUBSET PoolJob :
            /\ S \subseteq PendingOf(ready, w)
            /\ rows' = ClaimedRows(ready, S) /\ Start(S, w)
    BY <1>4 DEF PoolClaimable, PendingOf, JobsOf
  <2>2. S \subseteq JobsOf(w)
    BY <2>1 DEF PendingOf
  <2>3. /\ ready \in [PoolJob -> Row]
        /\ \A j \in PoolJob : /\ ready[j].attempts = rows[j].attempts
                              /\ ready[j] = rows[j] \/ ready[j].status \in {"pending", "failed"}
    BY RecoveredRows DEF PoolTypeOK, RecoverLeases
  <2>4. /\ \A j \in S : rows'[j].attempts = rows[j].attempts + 1
        /\ \A j \in PoolJob \ S : rows'[j] = ready[j]
    BY <2>1, <2>3, RowsClaimed
  <2>5. \A j \in PoolJob : rows[j].attempts \in Nat
    BY DEF PoolTypeOK, Row
  <2>6. /\ execs' = execs \cup {Started(j, rows'[j].attempts) : j \in S}
        /\ held' = [j \in PoolJob |-> IF j \in S THEN rows'[j].attempts ELSE held[j]]
        /\ count' = [count EXCEPT ![w] = count[w] + Cardinality(S)]
        /\ leaked' = [leaked EXCEPT ![w] = leaked[w] + Cardinality(S \cap HeldJobs(held))]
    BY <2>1 DEF Start
  <2>7. \A j \in S : LET e == Started(j, rows'[j].attempts)
                     IN  /\ e \in execs' /\ e.job = j /\ e.token = rows'[j].attempts
                         /\ e.phase = "handler"
    BY <2>6 DEF Started
  <2>8. \A e \in execs' : e \in execs \/ \E j \in S : e = Started(j, rows'[j].attempts)
    BY <2>6
  <2>9. \A e \in execs : e \in execs' /\ e.job \in PoolJob /\ e.token \in 1..rows[e.job].attempts
    BY <2>6 DEF PoolTypeOK, Execution, PoolInv, ClaimInv
  <2>10. ClaimInv'
    <3>1. \A e \in execs' : e.token \in 1..rows'[e.job].attempts
      BY <2>3, <2>4, <2>5, <2>7, <2>8, <2>9
    <3>2. \A d \in execs, j \in S :
             ~(d.job = j /\ d.token = rows'[j].attempts)
      BY <2>4, <2>5, <2>9
    <3>3. \A d, e \in execs' : d.job = e.job /\ d.token = e.token => d = e
      BY <2>7, <2>8, <3>2 DEF PoolInv, ClaimInv
    <3>. QED
      BY <3>1, <3>3 DEF ClaimInv
  <2>11. HolderInv'
    BY <2>6, <2>7, <2>9 DEF PoolInv, HolderInv
  <2>12. OwnerInv'
    <3>1. ASSUME NEW j \in S
          PROVE  \E e \in execs' : e.job = j /\ e.token = rows'[j].attempts /\ Backs(e)'
      <4>1. PICK e \in execs' : e.job = j /\ e.token = rows'[j].attempts /\ e.phase = "handler"
        BY <2>7
      <4>2. held'[j] = rows'[j].attempts
        BY <2>6
      <4>3. Backs(e)'
        BY <4>1, <4>2 DEF Backs, Holds
      <4>. QED
        BY <4>1, <4>3
    <3>2. ASSUME NEW j \in PoolJob \ S, rows'[j].status = "running", ~rows'[j].foreign,
                 [job |-> j, token |-> rows'[j].attempts] \notin lost'
          PROVE  \E e \in execs' : e.job = j /\ e.token = rows'[j].attempts /\ Backs(e)'
      <4>1. rows'[j] = rows[j] /\ held'[j] = held[j]
        BY <2>3, <2>4, <2>6, <3>2
      <4>2. PICK e \in execs : e.job = j /\ e.token = rows[j].attempts /\ Backs(e)
        BY <1>2, <3>2, <4>1 DEF PoolInv, OwnerInv
      <4>. QED
        BY <2>9, <4>1, <4>2 DEF Backs, Holds
    <3>. QED
      BY <3>1, <3>2 DEF OwnerInv
  <2>13. CountInv'
    <3> DEFINE before(v) == HeldJobs(held) \cap JobsOf(v)
               after(v) == HeldJobs(held') \cap JobsOf(v)
    <3>1. HeldJobs(held') = HeldJobs(held) \cup S
      BY <2>4, <2>5, <2>6 DEF HeldJobs
    <3>2. /\ after(w) = before(w) \cup S
          /\ before(w) \cap S = S \cap HeldJobs(held)
          /\ \A v \in PoolWorker \ {w} : after(v) = before(v)
      BY <2>2, <3>1 DEF JobsOf
    <3>3. /\ IsFiniteSet(before(w)) /\ Cardinality(before(w)) \in Nat
          /\ IsFiniteSet(S) /\ Cardinality(S) \in Nat
          /\ Cardinality(S \cap HeldJobs(held)) \in Nat
      BY JobSets DEF HeldJobs
    <3>4. Cardinality(after(w)) =
              Cardinality(before(w)) + Cardinality(S) - Cardinality(S \cap HeldJobs(held))
      BY <3>2, <3>3, FS_Union
    <3>5. count[w] = Cardinality(before(w)) + leaked[w]
      BY <1>1 DEF PoolInv, CountInv
    <3>6. /\ count[w] \in Nat /\ leaked[w] \in Nat
          /\ count'[w] = count[w] + Cardinality(S)
          /\ leaked'[w] = leaked[w] + Cardinality(S \cap HeldJobs(held))
          /\ \A v \in PoolWorker \ {w} : count'[v] = count[v] /\ leaked'[v] = leaked[v]
      BY <1>1, <2>6 DEF PoolTypeOK
    <3>7. count'[w] = Cardinality(after(w)) + leaked'[w]
      BY <3>3, <3>4, <3>5, <3>6
    <3>. QED
      BY <3>2, <3>6, <3>7 DEF PoolInv, CountInv
  <2>. QED
    BY <2>10, <2>11, <2>12, <2>13 DEF PoolInv
<1>. QED
  BY <1>3, <1>4 DEF PollClaim

LEMMA RestartInv ==
  ASSUME PoolTypeOK, PoolRestart
  PROVE  PoolInv'
<1>1. ClaimInv' /\ HolderInv'
  BY DEF PoolRestart, ClaimInv, HolderInv
<1>2. CountInv'
  <2>1. HeldJobs(held') = {}
    BY DEF PoolRestart, HeldJobs
  <2>2. Cardinality({}) = 0
    BY FS_EmptySet
  <2>3. \A w \in PoolWorker : HeldJobs(held') \cap JobsOf(w) = {} /\ count'[w] = 0 /\ leaked'[w] = 0
    BY <2>1 DEF PoolRestart
  <2>. QED
    BY <2>2, <2>3 DEF CountInv
<1>3. OwnerInv'
  <2>1. \A j \in PoolJob : rows'[j].status = "running" => rows'[j].foreign
    BY DEF PoolRestart, PoolTypeOK, Row
  <2>. QED
    BY <2>1 DEF OwnerInv
<1>. QED
  BY <1>1, <1>2, <1>3 DEF PoolInv

LEMMA PoolInvStep ==
  ASSUME PoolTypeOK, PollInv, PoolInv, [PoolNext]_poolVars
  PROVE  PoolInv'
<1> USE DEF rowVars, slotVars
<1>1. \A S \in SUBSET PoolJob :
         \A j \in PoolJob : /\ Cancelled(rows, S)[j].attempts = rows[j].attempts
                       /\ \/ Cancelled(rows, S)[j] = rows[j]
                          \/ Cancelled(rows, S)[j].status = "cancelled"
  <2>1. ASSUME NEW j \in PoolJob
        PROVE  /\ SetStatus(rows[j], "cancelled").status = "cancelled"
               /\ SetStatus(rows[j], "cancelled").attempts = rows[j].attempts
    <3>1. rows[j] \in Row
      BY DEF PoolTypeOK
    <3>. QED
      BY <3>1, SetStatusRow DEF PoolFinished
  <2>. QED
    BY <2>1 DEF Cancelled
<1>2. ASSUME NEW p \in Poll, PollBegin(p) \/ PollStep(p) \/ PollFails(p)
      PROVE  PoolInv'
  <2>1. CASE PollClaim(p)
    BY <2>1, ClaimInvStep
  <2>2. CASE PollBegin(p) \/ PollList(p) \/ PollFails(p)
    <3>1. UNCHANGED <<rows, slotVars, lost>>
      BY <2>2 DEF PollBegin, PollList, PollFails
    <3>. QED
      BY <3>1, RowsOnly DEF RowsMove
  <2>. QED
    BY <1>2, <2>1, <2>2 DEF PollStep
<1>3. ASSUME NEW w \in PoolWorker, WorkerStep(w)
      PROVE  PoolInv'
  <2>1. CASE RequeueAllForWorker(w) \/ Unregister(w)
    BY <2>1, AbortKeeps, HeldExecsType DEF RequeueAllForWorker, Unregister
  <2>2. CASE UnregisterCancels(w) \/ DrainEnd(w)
    <3>1. PendingOf(rows, w) \in SUBSET PoolJob
      BY DEF PendingOf, JobsOf
    <3>2. RowsMove
      BY <1>1, <2>2, <3>1 DEF RowsMove, UnregisterCancels, DrainEnd
    <3>. QED
      BY <2>2, <3>2, RowsOnly DEF UnregisterCancels, DrainEnd
  <2>3. CASE DrainBegin(w) \/ Register(w)
    BY <2>3, RowsOnly DEF DrainBegin, Register, RowsMove
  <2>. QED
    BY <1>3, <2>1, <2>2, <2>3 DEF WorkerStep
<1>4. ASSUME NEW j \in PoolJob, JobStep(j)
      PROVE  PoolInv'
  <2>1. CASE PoolEnqueue(j) \/ LeaseLapses(j)
    <3>1. RowsMove
      BY <2>1 DEF RowsMove, PoolTypeOK, Row, PoolEnqueue, LeaseLapses
    <3>. QED
      BY <2>1, <3>1, RowsOnly DEF PoolEnqueue, LeaseLapses
  <2>2. CASE CancelItem(j)
    BY <2>2, AbortKeeps, HeldExecsType DEF CancelItem
  <2>3. CASE CancelRow(j)
    <3>1. RowsMove
      BY <1>1, <2>3 DEF RowsMove, CancelRow
    <3>. QED
      BY <2>3, <3>1, RowsOnly DEF CancelRow
  <2>. QED
    BY <1>4, <2>1, <2>2, <2>3 DEF JobStep
<1>5. CASE RecoverFromStall \/ SweepRead \/ UNCHANGED poolVars
  BY <1>5, RowsOnly DEF RecoverFromStall, SweepRead, poolVars, RowsMove
<1>6. CASE SweepCommit
  <2>1. RowsMove
    BY <1>6, RecoveredRows DEF PoolTypeOK, RowsMove, SweepCommit
  <2>. QED
    BY <1>6, <2>1, RowsOnly DEF SweepCommit
<1>7. CASE Shutdown
  BY <1>7, AbortKeeps, HeldExecsType DEF Shutdown
<1>8. CASE PoolRestart
  BY <1>8, RestartInv
<1>. QED
  BY <1>2, <1>3, <1>4, <1>5, <1>6, <1>7, <1>8, ExecInvStep DEF PoolNext

-----------------------------------------------------------------------------
(* The theorems *)

LEMMA InitInv == PoolInit => PoolTypeOK /\ PollInv /\ PoolInv
<1> SUFFICES ASSUME PoolInit PROVE PoolTypeOK /\ PollInv /\ PoolInv
  OBVIOUS
<1>1. PoolTypeOK
  <2>1. [ status |-> "unused", attempts |-> 0, lapsed |-> FALSE, foreign |-> FALSE,
         result |-> 0 ] \in Row
    BY DEF Row
  <2>2. rows \in [PoolJob -> Row] /\ polls \in [Poll -> PollState]
    BY <2>1, IdleType DEF PoolInit
  <2>3. disturbances \in 0..DisturbanceBound
    BY PoolAssumption DEF PoolInit
  <2>4. /\ awaited \in [PoolWorker -> SUBSET PoolClaim]
        /\ leaving \in [PoolWorker -> {"no", "cancelling", "out", "draining", "drained", "timedOut"}]
    BY DEF PoolInit
  <2>. QED
    BY <2>2, <2>3, <2>4 DEF PoolInit, PoolTypeOK
<1>2. PollInv
  BY DEF PoolInit, PollInv, IdlePoll
<1>3. ClaimInv /\ HolderInv /\ OwnerInv
  BY DEF PoolInit, ClaimInv, HolderInv, OwnerInv
<1>4. CountInv
  <2>1. HeldJobs(held) = {}
    BY DEF PoolInit, HeldJobs
  <2>2. Cardinality({}) = 0
    BY FS_EmptySet
  <2>3. \A w \in PoolWorker : HeldJobs(held) \cap JobsOf(w) = {} /\ count[w] = 0 /\ leaked[w] = 0
    BY <2>1 DEF PoolInit
  <2>. QED
    BY <2>2, <2>3 DEF CountInv
<1>. QED
  BY <1>1, <1>2, <1>3, <1>4 DEF PoolInv

LEMMA PoolInvariant == PoolSpec => [](PoolTypeOK /\ PollInv /\ PoolInv)
<1>1. PoolTypeOK /\ PollInv /\ PoolInv /\ [PoolNext]_poolVars => PoolTypeOK' /\ PollInv' /\ PoolInv'
  BY TypeStep, PollInvStep, PoolInvStep
<1>. QED
  BY <1>1, InitInv, PTL DEF PoolSpec

\* The variables have their types.
THEOREM WorkerPoolTypeCorrect == PoolSpec => []PoolTypeOK
BY PoolInvariant, PTL

\* A slot has an execution that will give it back, and the count kept beside the map agrees with
\* it, whichever claims, aborts, timers and restarts come in which order (WorkerPool.start,
\* releaseSlot, onGraceExpired).
THEOREM SlotsCorrect == PoolSpec => []SlotsAreHeld
<1>1. HolderInv /\ CountInv => SlotsAreHeld
  BY DEF HolderInv, CountInv, SlotsAreHeld, Holds
<1>. QED
  BY <1>1, PoolInvariant, PTL DEF PoolInv

\* A row that runs under this process has an execution or a finalization behind it, or its last
\* write failed (executeJob, finalizeAbandonedExecution).
THEOREM RowsHaveOwners == PoolSpec => []RowHasOwner
<1>1. OwnerInv => RowHasOwner
  BY DEF OwnerInv, RowHasOwner, Backs
<1>. QED
  BY <1>1, PoolInvariant, PTL DEF PoolInv

LEMMA HeldIsSpared ==
  ASSUME PoolTypeOK, PollInv, ~overtaken, NEW p \in Poll, polls[p].phase = "claiming",
         NEW j \in HeldJobs(held)
  PROVE  RecoverLeases(rows, polls[p].worker, polls[p].active)[j] = rows[j]
<1> DEFINE w == polls[p].worker
           ready == RecoverLeases(rows, w, polls[p].active)
           reads == PoolReads(rows, {i \in RunningOf(rows, w) \ polls[p].active : rows[i].lapsed})
<1>1. j \in PoolJob
  BY DEF HeldJobs
<1>2. PoolWorkerOf[j] = w => j \in polls[p].active
  BY DEF PollInv
<1>3. ~\E r \in reads : r.job = j
  BY <1>2 DEF PoolReads, RunningOf, JobsOf
<1>4. ready = Recovered(rows, reads)
  BY DEF RecoverLeases
<1>5. rows \in [PoolJob -> Row]
  BY DEF PoolTypeOK
<1> HIDE DEF ready, reads
<1>. QED
  BY <1>1, <1>3, <1>4, <1>5, RecoveredRows DEF ready

\* The recovery of leases inside a claim passes over the jobs this process holds, as long as no
\* poll was overtaken (poll, claimNextBatch).
THEOREM HeldJobsSpared == PoolSpec => ClaimSparesHeld
<1> DEFINE Spared == ~overtaken => \A p \in Poll : PollClaim(p) =>
               \A j \in HeldJobs(held) :
                   rows[j].status = "running" /\ rows[j].attempts = held[j] => rows'[j] = rows[j]
<1>1. ASSUME PoolTypeOK, PollInv
      PROVE  Spared
  <2> SUFFICES ASSUME ~overtaken, NEW p \in Poll, PollClaim(p), NEW j \in HeldJobs(held),
                      rows[j].status = "running"
               PROVE  rows'[j] = rows[j]
    OBVIOUS
  <2> DEFINE ready == RecoverLeases(rows, polls[p].worker, polls[p].active)
  <2>1. j \in PoolJob /\ ready[j] = rows[j]
    BY <1>1, HeldIsSpared DEF HeldJobs, PollClaim
  <2>2. CASE UNCHANGED rows
    BY <2>2
  <2>3. CASE \E S \in PoolClaimable(ready, polls[p].worker, polls[p].max) :
                rows' = ClaimedRows(ready, S)
    BY <2>1, <2>3 DEF PoolClaimable, PendingOf, ClaimedRows
  <2>. QED
    BY <2>2, <2>3 DEF PollClaim
<1>2. PoolTypeOK /\ PollInv /\ [PoolNext]_poolVars => [Spared]_poolVars
  BY <1>1
<1>. QED
  BY <1>2, PoolInvariant, PTL DEF PoolSpec, ClaimSparesHeld
-----------------------------------------------------------------------------
(* The rows live the life of a job. *)

\* What one step may do to a row.
KeptClaims(r, n) == n.attempts = r.attempts /\ n.result = r.result

RowLives(r, n) ==
    \/ n.status = r.status /\ KeptClaims(r, n)
    \/ r.status = "unused" /\ n.status = "pending" /\ KeptClaims(r, n)
    \/ /\ r.status \in {"pending", "running"} /\ n.status = "running"
       /\ n.attempts = r.attempts + 1 /\ n.result = r.result
    \/ r.status = "running" /\ n.status \in {"pending", "failed"} /\ KeptClaims(r, n)
    \/ r.status \in {"pending", "running"} /\ n.status = "cancelled" /\ KeptClaims(r, n)
    \/ /\ r.status = "running" /\ n.status = "completed"
       /\ n.attempts = r.attempts /\ n.result = r.attempts

RowsLive == \A j \in PoolJob : RowLives(rows[j], rows'[j])

\* A job that was never enqueued has no claim and no result.
UnusedInv == \A j \in PoolJob : rows[j].status = "unused" => rows[j].attempts = 0 /\ rows[j].result = 0

LEMMA StayingLives == ASSUME NEW r PROVE RowLives(r, r)
BY DEF RowLives, KeptClaims

LEMMA RecoveredLive ==
  ASSUME NEW rs \in [PoolJob -> Row], NEW reads, NEW j \in PoolJob
  PROVE  /\ RowLives(rs[j], Recovered(rs, reads)[j])
         /\ KeptClaims(rs[j], Recovered(rs, reads)[j])
         /\ Recovered(rs, reads)[j].status = "pending" => rs[j].status \in {"pending", "running"}
<1>1. rs[j] \in Row
  OBVIOUS
<1>2. CASE Recovered(rs, reads)[j] = rs[j]
  BY <1>2 DEF RowLives, KeptClaims
<1>3. CASE /\ rs[j].status = "running"
           /\ \E st \in {"pending", "failed"} : Recovered(rs, reads)[j] = SetStatus(rs[j], st)
  <2> PICK st \in {"pending", "failed"} : Recovered(rs, reads)[j] = SetStatus(rs[j], st)
    BY <1>3
  <2>1. /\ SetStatus(rs[j], st).status = st
        /\ KeptClaims(rs[j], SetStatus(rs[j], st))
    BY <1>1, SetStatusRow DEF PoolFinished, KeptClaims
  <2>. QED
    BY <1>3, <2>1 DEF RowLives
<1>. QED
  BY <1>2, <1>3, Zenon DEF Recovered

LEMMA WrittenLive ==
  ASSUME rows \in [PoolJob -> Row], NEW e \in Execution, NEW write \in Write,
         rows' = Written(e, write)
  PROVE  RowsLive
<1>1. e.job \in PoolJob /\ rows[e.job] \in Row
  BY DEF Execution
<1>2. CASE ~OwnsRow(e)
  BY <1>2, StayingLives DEF Written, RowsLive
<1>3. CASE OwnsRow(e)
  <2> DEFINE set == SetStatus(rows[e.job], Target(write))
             new == [set EXCEPT !.result = IF write = "complete" THEN e.token
                                           ELSE rows[e.job].result]
  <2>1. /\ set \in Row /\ set.status = Target(write) /\ set.attempts = rows[e.job].attempts
    BY <1>1, TargetStatus, SetStatusRow DEF PoolFinished
  <2>2. rows[e.job].status = "running" /\ rows[e.job].attempts = e.token
    BY <1>3 DEF OwnsRow
  <2>3. /\ new.status = Target(write) /\ new.attempts = rows[e.job].attempts
        /\ new.result = IF write = "complete" THEN e.token ELSE rows[e.job].result
    BY <2>1 DEF Row
  <2>4. \A j \in PoolJob : rows'[j] = IF j = e.job THEN new ELSE rows[j]
    BY <1>1, <1>3 DEF Written
  <2>5. /\ write = "complete" => Target(write) = "completed"
        /\ write # "complete" => Target(write) \in {"pending", "failed", "cancelled"}
    BY DEF Target, Write
  <2> HIDE DEF new, set
  <2>6. RowLives(rows[e.job], new)
    BY <2>2, <2>3, <2>5 DEF RowLives, KeptClaims
  <2>. QED
    BY <2>4, <2>6, StayingLives DEF RowsLive
<1>. QED
  BY <1>2, <1>3

LEMMA CancelledLive ==
  ASSUME rows \in [PoolJob -> Row], NEW S,
         \A j \in PoolJob \cap S : rows[j].status \in {"pending", "running"},
         rows' = Cancelled(rows, S)
  PROVE  RowsLive
<1> SUFFICES ASSUME NEW j \in PoolJob PROVE RowLives(rows[j], rows'[j])
  BY DEF RowsLive
<1>1. rows[j] \in Row
  OBVIOUS
<1>2. CASE j \notin S
  BY <1>2, StayingLives DEF Cancelled
<1>3. CASE j \in S
  <2>1. rows'[j] = SetStatus(rows[j], "cancelled")
    BY <1>3 DEF Cancelled
  <2>2. \A row \in Row : LET new == SetStatus(row, "cancelled")
                         IN  KeptClaims(row, new) /\ new.status = "cancelled"
    BY SetStatusRow DEF PoolFinished, KeptClaims
  <2>. QED
    BY <1>1, <1>3, <2>1, <2>2 DEF RowLives
<1>. QED
  BY <1>2, <1>3

\* A claim may take a row whose lease it has recovered in the same transaction.
LEMMA ClaimLives ==
  ASSUME PoolTypeOK, NEW p \in Poll, PollClaim(p)
  PROVE  RowsLive
<1> DEFINE w == polls[p].worker
           ready == RecoverLeases(rows, w, polls[p].active)
<1>1. rows \in [PoolJob -> Row]
  BY DEF PoolTypeOK
<1>2. CASE UNCHANGED rows
  BY <1>2, StayingLives DEF RowsLive
<1>3. CASE \E S \in PoolClaimable(ready, w, polls[p].max) : rows' = ClaimedRows(ready, S)
  <2>1. /\ ready \in [PoolJob -> Row]
        /\ \A j \in PoolJob :
              /\ RowLives(rows[j], ready[j]) /\ KeptClaims(rows[j], ready[j])
              /\ ready[j].status = "pending" => rows[j].status \in {"pending", "running"}
    BY <1>1, RecoveredRows, RecoveredLive DEF RecoverLeases
  <2> HIDE DEF ready
  <2>2. PICK S \in SUBSET PoolJob : /\ \A j \in S : ready[j].status = "pending"
                                    /\ rows' = ClaimedRows(ready, S)
    BY <1>3 DEF PoolClaimable, PendingOf, JobsOf
  <2>3. ASSUME NEW j \in S
        PROVE  /\ rows'[j].status = "running" /\ rows'[j].attempts = rows[j].attempts + 1
               /\ rows'[j].result = rows[j].result
    <3>1. ready[j] \in Row
      BY <2>1, <2>2
    <3>2. rows'[j] = [ready[j] EXCEPT !.status = "running", !.attempts = ready[j].attempts + 1]
      BY <2>2 DEF ClaimedRows
    <3>3. ready[j].attempts = rows[j].attempts /\ ready[j].result = rows[j].result
      BY <2>1, <2>2 DEF KeptClaims
    <3>. QED
      BY <3>1, <3>2, <3>3 DEF Row
  <2>4. \A j \in PoolJob \ S : rows'[j] = ready[j]
    BY <2>2 DEF ClaimedRows
  <2>. QED
    BY <2>1, <2>2, <2>3, <2>4 DEF RowsLive, RowLives
<1>. QED
  BY <1>2, <1>3 DEF PollClaim

LEMMA RowsLiveStep ==
  ASSUME PoolTypeOK, [PoolNext]_poolVars
  PROVE  RowsLive
<1>1. rows \in [PoolJob -> Row]
  BY DEF PoolTypeOK
<1>2. UNCHANGED rows => RowsLive
  BY StayingLives DEF RowsLive
<1>3. ASSUME NEW p \in Poll, PollBegin(p) \/ PollStep(p) \/ PollFails(p)
      PROVE  RowsLive
  BY <1>2, <1>3, ClaimLives DEF PollBegin, PollStep, PollList, PollFails, rowVars
<1>4. ASSUME NEW e \in execs, ExecStep(e)
      PROVE  RowsLive
  <2>1. e \in Execution /\ e.write \in Write /\ e.final \in Write
    BY DEF PoolTypeOK, Execution
  <2>2. CASE OutcomeWritten(e) \/ Finalize(e)
    BY <1>1, <2>1, <2>2, WrittenLive DEF OutcomeWritten, Finalize
  <2>3. CASE ~(OutcomeWritten(e) \/ Finalize(e))
    BY <1>2, <1>4, <2>3 DEF ExecStep, HandlerEnds, OutcomeFails, Close, TimeoutFires,
       ExtendTimeout, GraceFires, FinalizeFails, rowVars
  <2>. QED
    BY <2>2, <2>3
<1>5. ASSUME NEW w \in PoolWorker, WorkerStep(w)
      PROVE  RowsLive
  <2>1. CASE UnregisterCancels(w) \/ DrainEnd(w)
    <3>1. rows' = Cancelled(rows, PendingOf(rows, w))
      BY <2>1 DEF UnregisterCancels, DrainEnd
    <3>. QED
      BY <1>1, <3>1, CancelledLive DEF PendingOf, JobsOf
  <2>2. CASE ~(UnregisterCancels(w) \/ DrainEnd(w))
    BY <1>2, <1>5, <2>2 DEF WorkerStep, RequeueAllForWorker, Unregister, DrainBegin, Register, rowVars
  <2>. QED
    BY <2>1, <2>2
<1>6. ASSUME NEW j \in PoolJob, JobStep(j)
      PROVE  RowsLive
  <2>1. CASE PoolEnqueue(j) \/ LeaseLapses(j)
    <3>1. rows[j] \in Row
      BY <1>1
    <3>2. \A i \in PoolJob \ {j} : rows'[i] = rows[i]
      BY <1>1, <2>1 DEF PoolEnqueue, LeaseLapses
    <3>3. RowLives(rows[j], rows'[j])
      BY <1>1, <2>1, <3>1 DEF PoolEnqueue, LeaseLapses, RowLives, KeptClaims, Row
    <3>. QED
      BY <3>2, <3>3, StayingLives DEF RowsLive
  <2>2. CASE CancelItem(j)
    BY <1>2, <2>2 DEF CancelItem, rowVars
  <2>3. CASE CancelRow(j)
    <3>1. \/ UNCHANGED rows
          \/ rows[j].status \in {"pending", "running"} /\ rows' = Cancelled(rows, {j})
      BY <2>3 DEF CancelRow
    <3>. QED
      BY <1>1, <1>2, <3>1, CancelledLive
  <2>. QED
    BY <1>6, <2>1, <2>2, <2>3 DEF JobStep
<1>7. CASE SweepCommit
  BY <1>1, <1>7, RecoveredLive DEF SweepCommit, RowsLive
<1>8. CASE PoolRestart
  <2> SUFFICES ASSUME NEW j \in PoolJob PROVE RowLives(rows[j], rows'[j])
    BY DEF RowsLive
  <2>1. rows[j] \in Row
    BY <1>1
  <2>2. rows'[j] = rows[j] \/ rows'[j] = [rows[j] EXCEPT !.foreign = TRUE]
    BY <1>8 DEF PoolRestart
  <2>. QED
    BY <2>1, <2>2 DEF RowLives, KeptClaims, Row
<1>9. CASE RecoverFromStall \/ SweepRead \/ Shutdown \/ UNCHANGED poolVars
  BY <1>2, <1>9 DEF RecoverFromStall, SweepRead, Shutdown, poolVars, rowVars
<1>. QED
  BY <1>3, <1>4, <1>5, <1>6, <1>7, <1>8, <1>9 DEF PoolNext

\* A step of a row is one of the abstract job.
LEMMA RowLivesAsPromised ==
  ASSUME PoolTypeOK, UnusedInv, NEW j \in PoolJob, RowLives(rows[j], rows'[j])
  PROVE  PoolLifecycle!Lives(j)
<1> DEFINE r == rows[j]
           n == rows'[j]
<1>1. /\ PoolPromised[j].status = r.status /\ PoolPromised[j].parent = NoWorker
      /\ PoolPromised[j].claims = r.attempts /\ PoolPromised[j].result = r.result
      /\ PoolPromised'[j] = PoolLifecycle!At(n.status, NoWorker, n.attempts, n.result)
  BY DEF PoolPromised, PoolLifecycle!At
<1>2. PoolLifecycle!ParentAfter(j) = NoWorker /\ PoolLifecycle!ParentDone(j)
  BY <1>1 DEF PoolLifecycle!ParentAfter, PoolLifecycle!ParentDone
<1>3. r.status = "unused" => r.attempts = 0 /\ r.result = 0
  BY DEF UnusedInv
<1> HIDE DEF r, n
<1>4. CASE n.status = r.status /\ KeptClaims(r, n)
  BY <1>1, <1>2, <1>4 DEF KeptClaims, PoolLifecycle!Lives, PoolLifecycle!Stays
<1>5. CASE r.status = "unused" /\ n.status = "pending" /\ KeptClaims(r, n)
  BY <1>1, <1>3, <1>5 DEF KeptClaims, PoolLifecycle!Lives, PoolLifecycle!Submitted
<1>6. CASE /\ r.status \in {"pending", "running"} /\ n.status = "running"
           /\ n.attempts = r.attempts + 1 /\ n.result = r.result
  BY <1>1, <1>2, <1>6 DEF PoolLifecycle!Lives, PoolLifecycle!Claimed
<1>7. CASE r.status = "running" /\ n.status \in {"pending", "failed"} /\ KeptClaims(r, n)
  BY <1>1, <1>2, <1>7
     DEF KeptClaims, PoolLifecycle!Lives, PoolLifecycle!GivenBack, PoolLifecycle!Failed,
         PoolLifecycle!Moves
<1>8. CASE r.status \in {"pending", "running"} /\ n.status = "cancelled" /\ KeptClaims(r, n)
  BY <1>1, <1>2, <1>8
     DEF KeptClaims, PoolLifecycle!Lives, PoolLifecycle!Cancelled, PoolLifecycle!Moves
<1>9. CASE /\ r.status = "running" /\ n.status = "completed"
           /\ n.attempts = r.attempts /\ n.result = r.attempts
  BY <1>1, <1>9 DEF PoolLifecycle!Lives, PoolLifecycle!Completed
<1>. QED
  BY <1>4, <1>5, <1>6, <1>7, <1>8, <1>9 DEF RowLives, r, n

LEMMA UnusedStep ==
  ASSUME UnusedInv, RowsLive
  PROVE  UnusedInv'
<1> SUFFICES ASSUME NEW j \in PoolJob, rows'[j].status = "unused"
             PROVE  rows'[j].attempts = 0 /\ rows'[j].result = 0
  BY DEF UnusedInv
<1>1. RowLives(rows[j], rows'[j])
  BY DEF RowsLive
<1>2. rows[j].status = "unused" /\ KeptClaims(rows[j], rows'[j])
  BY <1>1 DEF RowLives
<1>. QED
  BY <1>2 DEF UnusedInv, KeptClaims

\* The executing process implements the life of a job: whatever meets an execution - a claim that
\* recovers its lease, the sweep, a cancellation, a timeout, the removal of its worker, a crash -
\* its row only moves as JobLifecycle allows, and its result is that of the last claim
\* (completeItem and the other writers compare the claim token; executeJob, recoverOrphaned).
THEOREM PoolPromiseKept == PoolSpec => PoolKeepsPromise
<1>1. PoolInit => PoolLifecycle!Init /\ UnusedInv
  BY DEF PoolInit, PoolPromised, UnusedInv, PoolLifecycle!Init, PoolLifecycle!Unborn, PoolLifecycle!At
<1>2. PoolTypeOK /\ UnusedInv /\ [PoolNext]_poolVars => UnusedInv'
  BY RowsLiveStep, UnusedStep
<1>3. PoolTypeOK /\ PoolTypeOK' /\ UnusedInv /\ [PoolNext]_poolVars
        => [PoolLifecycle!Next]_PoolPromised
  <2> SUFFICES ASSUME PoolTypeOK, PoolTypeOK', UnusedInv, [PoolNext]_poolVars
               PROVE  PoolLifecycle!Next
    OBVIOUS
  <2>1. \A j \in PoolJob : PoolLifecycle!Lives(j)
    BY RowsLiveStep, RowLivesAsPromised DEF RowsLive
  <2>2. ASSUME NEW j \in PoolJob PROVE PoolPromised'[j] \in PoolLifecycle!Life
    <3>1. rows'[j] \in Row
      BY DEF PoolTypeOK
    <3>2. /\ rows'[j].attempts \in Nat /\ rows'[j].result \in Nat
          /\ rows'[j].status \in {"unused", "pending", "running"} \cup PoolFinished
      BY <3>1 DEF Row
    <3>. QED
      BY <3>2 DEF PoolPromised, PoolFinished, PoolLifecycle!Life, PoolLifecycle!Gone
  <2>3. PoolPromised' \in [PoolJob -> PoolLifecycle!Life]
    BY <2>2 DEF PoolPromised
  <2>. QED
    BY <2>1, <2>3 DEF PoolLifecycle!Next
<1>. QED
  BY <1>1, <1>2, <1>3, PoolInvariant, PTL DEF PoolSpec, PoolKeepsPromise, PoolLifecycle!Spec
-----------------------------------------------------------------------------
(* What goes wrong only by a stale read.  A job is executed twice only if  *)
(* a poll was overtaken, or a sweep recovers a claim it has not read; a    *)
(* handler outlives the drain of its worker only if, besides, a claim that *)
(* was under way when its worker was removed started it.                   *)

\* The check that recoverExpiredRows does not make.
SweepComparesClaim ==
    SweepCommit => \A r \in sweep : rows[r.job].status = "running" => rows[r.job].attempts = r.token

\* The check that poll makes before its claim and not after it.
StartsRegistered ==
    \A p \in Poll : PollClaim(p) /\ execs' # execs => polls[p].worker \in registered

\* A handler that nothing has told to stop.
AtWork(e) == e.phase = "handler" /\ e.reason = "none"

AbortedInv == \A e \in execs : e.grace \/ e.final # "none" => e.reason # "none"

\* The row of a handler at work is still that of its claim, or was cancelled under it.
AtWorkInv ==
    \A e \in execs : AtWork(e) =>
        /\ Holds(e) /\ rows[e.job].attempts = e.token
        /\ rows[e.job].status \in {"running", "cancelled"}

\* A claim the sweep has read holds no slot any more.
SweepInv == \A r \in sweep : r.token \in 1..rows[r.job].attempts /\ held[r.job] # r.token

RunningInv == \A j \in PoolJob : rows[j].status = "running" => rows[j].attempts > 0

WorkInv == AbortedInv /\ AtWorkInv /\ SweepInv /\ RunningInv

LEMMA RunningStep ==
  ASSUME PoolTypeOK, RunningInv, RowsLive
  PROVE  RunningInv' /\ \A j \in PoolJob : rows'[j].attempts >= rows[j].attempts
<1> SUFFICES ASSUME NEW j \in PoolJob
             PROVE  /\ rows'[j].status = "running" => rows'[j].attempts > 0
                    /\ rows'[j].attempts >= rows[j].attempts
  BY DEF RunningInv
<1>1. RowLives(rows[j], rows'[j]) /\ rows[j].attempts \in Nat
  BY DEF RowsLive, PoolTypeOK, Row
<1>. QED
  BY <1>1 DEF RowLives, KeptClaims, RunningInv

\* A slot that is taken is that of a new claim.
SlotsMove ==
    \A j \in PoolJob : \/ held'[j] = held[j] \/ held'[j] = 0
                       \/ held'[j] = rows[j].attempts + 1

LEMMA SweepKeeps ==
  ASSUME PoolTypeOK, SweepInv, RunningInv, RowsLive, SlotsMove, sweep' \subseteq sweep
  PROVE  SweepInv'
<1> SUFFICES ASSUME NEW r \in sweep
             PROVE  r.token \in 1..rows'[r.job].attempts /\ held'[r.job] # r.token
  BY DEF SweepInv
<1>1. r.job \in PoolJob /\ r.token \in Nat /\ rows[r.job].attempts \in Nat
  BY DEF PoolTypeOK, PoolClaim, Row
<1>2. rows'[r.job].attempts \in Nat /\ rows'[r.job].attempts >= rows[r.job].attempts
  BY <1>1 DEF RowsLive, RowLives, KeptClaims
<1>. QED
  BY <1>1, <1>2 DEF SweepInv, SlotsMove

\* A step that changes neither the executions nor their slots, and of the rows of handlers at
\* work at most cancels some.
LEMMA WorkUntouched ==
  ASSUME WorkInv, RowsLive, UNCHANGED <<execs, held>>,
         \A e \in execs : AtWork(e) =>
             rows'[e.job].attempts = rows[e.job].attempts
               /\ rows'[e.job].status \in {"running", "cancelled"}
  PROVE  AbortedInv' /\ AtWorkInv'
BY DEF WorkInv, AbortedInv, AtWorkInv, Holds

LEMMA WorkAborted ==
  ASSUME PoolTypeOK, WorkInv, NEW S \in SUBSET execs, NEW reason \in Reason \ {"none"},
         AbortAll(S, reason), UNCHANGED <<rows, held>>
  PROVE  /\ AbortedInv' /\ AtWorkInv'
         /\ \A d \in execs' : AtWork(d) => d \in execs \ S
<1>1. \A e \in execs : Aborted(e, reason).reason = reason
  BY DEF PoolTypeOK, Execution, Aborted
<1>2. \A d \in execs' : d \in execs \ S \/ d.reason = reason
  BY <1>1 DEF AbortAll
<1>. QED
  BY <1>2 DEF WorkInv, AbortedInv, AtWorkInv, AtWork, Holds

\* The steps of an execution leave the others at work, with their rows and slots.
LEMMA ExecLeavesOthers ==
  ASSUME PoolTypeOK, PoolInv, WorkInv, NEW e \in execs, ExecStep(e)
  PROVE  /\ AbortedInv'
         /\ \A d \in execs' : AtWork(d) =>
               \/ d \in execs \ {e}
               \/ /\ AtWork(e) /\ d.job = e.job /\ d.token = e.token
                  /\ UNCHANGED <<rows, held>>
         /\ \A j \in PoolJob : rows'[j] = rows[j] \/ (j = e.job /\ OwnsRow(e) /\ ~AtWork(e))
         /\ \A j \in PoolJob :
               held'[j] = held[j] \/ (j = e.job /\ Holds(e) /\ ~AtWork(e) /\ held'[j] = 0)
         /\ UNCHANGED <<sweep, registered, leaving>>
<1> DEFINE Safe(f) == f.grace \/ f.final # "none" => f.reason # "none"
           Idle(f) == Safe(f) /\ ~AtWork(f)
           Rest == UNCHANGED <<sweep, registered, leaving>>
           RowsRest == \A j \in PoolJob : rows'[j] = rows[j] \/ (j = e.job /\ OwnsRow(e))
           HeldRest == \A j \in PoolJob :
                         held'[j] = held[j] \/ (j = e.job /\ Holds(e) /\ held'[j] = 0)
<1>1. /\ e \in Execution /\ e.job \in PoolJob
      /\ \A d \in execs : Safe(d)
  BY DEF PoolTypeOK, Execution, WorkInv, AbortedInv
<1>2. UNCHANGED rows => RowsRest
  OBVIOUS
<1>3. UNCHANGED held => HeldRest
  OBVIOUS
<1>4. ASSUME NEW write, rows' = Written(e, write) PROVE RowsRest
  BY <1>4 DEF Written, PoolTypeOK
<1>5. ASSUME PoolRelease(e) PROVE HeldRest
  BY <1>1, <1>5 DEF PoolRelease, PoolTypeOK
<1>6. ASSUME NEW f, execs' = Update(e, f)
      PROVE  \A d \in execs' : d \in execs \ {e} \/ d = f
  BY <1>6 DEF Update
<1>7. ASSUME Finish(e)
      PROVE  HeldRest /\ \A d \in execs' : d \in execs \ {e} \/ Idle(d)
  <2>1. Ended(e).phase = "ended" /\ ~Ended(e).grace /\ Ended(e).final = e.final
          /\ Ended(e).reason = e.reason
    BY <1>1 DEF Ended, Execution
  <2>2. Idle(Ended(e))
    BY <1>1, <2>1 DEF AtWork
  <2>. QED
    BY <1>5, <1>7, <2>2 DEF Finish, Update
<1>8. ASSUME AfterFinal(e), e.final # "none"
      PROVE  \A d \in execs' : d \in execs \ {e} \/ Idle(d)
  <2> DEFINE f == [e EXCEPT !.final = "none"]
  <2>1. f.reason = e.reason /\ e.reason # "none"
    BY <1>1, <1>8 DEF Execution
  <2>2. Idle(f)
    BY <2>1 DEF AtWork
  <2>. QED
    BY <1>8, <2>2 DEF AfterFinal, Update
<1> DEFINE Alone ==
             /\ \A d \in execs' : d \in execs \ {e}
                  \/ (Safe(d) /\ (AtWork(d) => AtWork(e) /\ d.job = e.job /\ d.token = e.token))
             /\ UNCHANGED <<rows, held>>
           Writing == /\ ~AtWork(e) /\ RowsRest /\ HeldRest
                      /\ \A d \in execs' : d \in execs \ {e} \/ Idle(d)
<1>9. Rest
  BY DEF ExecStep, HandlerEnds, OutcomeWritten, OutcomeFails, Close, TimeoutFires, ExtendTimeout,
     GraceFires, Finalize, FinalizeFails, workerVars
<1>10. ASSUME NEW ok \in BOOLEAN, HandlerEnds(e, ok) PROVE Alone
  <2> DEFINE f == [e EXCEPT !.phase = "writing", !.ok = ok, !.write = Decision(e, ok)]
  <2>1. /\ f.phase = "writing" /\ f.grace = e.grace /\ f.final = e.final /\ f.reason = e.reason
    BY <1>1 DEF Execution
  <2> HIDE DEF f
  <2>2. execs' = Update(e, f)
    BY <1>10 DEF HandlerEnds, f
  <2>3. Idle(f)
    BY <1>1, <2>1 DEF AtWork
  <2>. QED
    BY <1>6, <1>10, <2>2, <2>3 DEF HandlerEnds, rowVars
<1>11. ASSUME TimeoutFires(e) PROVE Alone
  <2>1. Aborted(e, "timeout").reason = "timeout"
    BY <1>1 DEF Aborted, Execution
  <2>2. execs' = Update(e, Aborted(e, "timeout")) /\ UNCHANGED <<rows, held>>
    BY <1>11 DEF TimeoutFires, rowVars
  <2>3. Idle(Aborted(e, "timeout"))
    BY <2>1 DEF AtWork
  <2>. QED
    BY <1>6, <2>2, <2>3
<1>12. ASSUME ExtendTimeout(e) PROVE Alone
  <2> DEFINE f == [e EXCEPT !.timer = TRUE]
  <2>1. /\ f.phase = e.phase /\ f.grace = e.grace /\ f.final = e.final /\ f.reason = e.reason
        /\ f.job = e.job /\ f.token = e.token
    BY <1>1 DEF Execution
  <2> HIDE DEF f
  <2>2. execs' = Update(e, f) /\ UNCHANGED <<rows, held>>
    BY <1>12 DEF ExtendTimeout, rowVars, f
  <2>. QED
    BY <1>1, <1>6, <2>1, <2>2 DEF AtWork
<1>13. ASSUME OutcomeFails(e) PROVE Alone
  <2> DEFINE f == [e EXCEPT !.ok = FALSE, !.write = Decision(e, FALSE)]
             g == [e EXCEPT !.phase = "closing"]
  <2>1. /\ f.phase = e.phase /\ f.grace = e.grace /\ f.final = e.final /\ f.reason = e.reason
        /\ g.phase = "closing" /\ g.grace = e.grace /\ g.final = e.final /\ g.reason = e.reason
    BY <1>1 DEF Execution
  <2> HIDE DEF f, g
  <2>2. /\ execs' = Update(e, f) \/ execs' = Update(e, g)
        /\ UNCHANGED <<rows, held>> /\ e.phase = "writing"
    BY <1>13 DEF OutcomeFails, f, g
  <2>3. Idle(f) /\ Idle(g)
    BY <1>1, <2>1, <2>2 DEF AtWork
  <2>. QED
    BY <1>6, <2>2, <2>3
<1>14. ASSUME FinalizeFails(e) PROVE Alone
  BY <1>8, <1>14 DEF FinalizeFails
<1>15. ASSUME OutcomeWritten(e) PROVE Writing
  <2> DEFINE g == [e EXCEPT !.phase = "closing", !.ok = FALSE]
  <2>1. /\ g.phase = "closing" /\ g.grace = e.grace /\ g.final = e.final /\ g.reason = e.reason
    BY <1>1 DEF Execution
  <2> HIDE DEF g
  <2>2. \/ Finish(e)
        \/ execs' = Update(e, g) /\ UNCHANGED held
    BY <1>15 DEF OutcomeWritten, g
  <2>3. Idle(g)
    BY <1>1, <2>1 DEF AtWork
  <2>4. ~AtWork(e) /\ RowsRest
    BY <1>4, <1>15 DEF OutcomeWritten, AtWork
  <2>. QED
    BY <1>3, <1>6, <1>7, <2>2, <2>3, <2>4
<1>16. ASSUME Close(e) PROVE Writing
  BY <1>2, <1>7, <1>16 DEF Close, rowVars, AtWork
<1>17. ASSUME GraceFires(e) PROVE Writing
  <2> DEFINE f == [e EXCEPT !.grace = FALSE]
             g == [f EXCEPT !.final = Finalization(e.reason)]
  <2>1. f.reason = e.reason /\ g.reason = e.reason /\ e.reason # "none"
    BY <1>1, <1>17 DEF GraceFires, Execution
  <2> HIDE DEF f, g
  <2>2. execs' = Update(e, f) \/ execs' = Update(e, g)
    BY <1>17 DEF GraceFires, f, g
  <2>3. Idle(f) /\ Idle(g) /\ ~AtWork(e)
    BY <2>1 DEF AtWork
  <2>4. RowsRest /\ HeldRest
    BY <1>2, <1>5, <1>17 DEF GraceFires, rowVars
  <2>. QED
    BY <1>6, <2>2, <2>3, <2>4
<1>18. ASSUME Finalize(e) PROVE Writing
  BY <1>1, <1>3, <1>4, <1>8, <1>18 DEF Finalize, AtWork
<1>19. Alone \/ Writing
  BY <1>10, <1>11, <1>12, <1>13, <1>14, <1>15, <1>16, <1>17, <1>18 DEF ExecStep
<1>20. CASE Alone
  BY <1>1, <1>9, <1>20 DEF AbortedInv
<1>21. CASE Writing
  BY <1>1, <1>9, <1>21 DEF AbortedInv
<1>. QED
  BY <1>19, <1>20, <1>21

LEMMA ExecWorkStep ==
  ASSUME PoolTypeOK, PoolInv, WorkInv, NEW e \in execs, ExecStep(e), RowsLive
  PROVE  AbortedInv' /\ AtWorkInv' /\ SweepInv'
<1>1. SlotsMove /\ UNCHANGED sweep /\ AbortedInv'
  BY ExecLeavesOthers DEF SlotsMove
<1>2. AtWorkInv'
  <2> SUFFICES ASSUME NEW d \in execs', AtWork(d)
               PROVE  /\ held'[d.job] = d.token /\ rows'[d.job].attempts = d.token
                      /\ rows'[d.job].status \in {"running", "cancelled"}
    BY DEF AtWorkInv, Holds
  <2>1. CASE AtWork(e) /\ d.job = e.job /\ d.token = e.token /\ UNCHANGED <<rows, held>>
    BY <2>1 DEF WorkInv, AtWorkInv, Holds
  <2>2. CASE d \in execs \ {e}
    <3>1. /\ held[d.job] = d.token /\ rows[d.job].attempts = d.token /\ d.job \in PoolJob
          /\ rows[d.job].status \in {"running", "cancelled"}
      BY <2>2 DEF WorkInv, AtWorkInv, Holds, PoolTypeOK, Execution
    <3>2. ~(d.job = e.job /\ d.token = e.token)
      BY <2>2 DEF PoolInv, ClaimInv
    <3>3. rows'[d.job] = rows[d.job]
      BY <3>1, <3>2, ExecLeavesOthers DEF OwnsRow
    <3>4. held'[d.job] = held[d.job]
      BY <3>1, <3>2, ExecLeavesOthers DEF Holds
    <3>. QED
      BY <3>1, <3>3, <3>4
  <2>. QED
    BY <2>1, <2>2, ExecLeavesOthers
<1>3. SweepInv'
  BY <1>1, SweepKeeps DEF WorkInv
<1>. QED
  BY <1>1, <1>2, <1>3

\* A claim starts no job that a handler is at work on: its row is not due, and its lease is not
\* recovered.
LEMMA ClaimWorkStep ==
  ASSUME PoolTypeOK, PollInv, PoolInv, WorkInv, ~overtaken, NEW p \in Poll, PollClaim(p), RowsLive
  PROVE  /\ AbortedInv' /\ AtWorkInv' /\ SweepInv'
         /\ \A d \in execs' : AtWork(d) =>
               d \in execs \/ PoolWorkerOf[d.job] = polls[p].worker
<1> DEFINE w == polls[p].worker
           ready == RecoverLeases(rows, w, polls[p].active)
<1>1. polls[p].phase = "claiming" /\ UNCHANGED sweep
  BY DEF PollClaim
<1>2. CASE UNCHANGED <<rows, slotVars>>
  <2>1. SweepInv'
    BY <1>1, <1>2, SweepKeeps DEF WorkInv, SlotsMove, slotVars
  <2>. QED
    BY <1>2, <2>1, WorkUntouched DEF slotVars, WorkInv, AtWorkInv
<1>3. CASE \E S \in PoolClaimable(ready, w, polls[p].max) :
              rows' = ClaimedRows(ready, S) /\ Start(S, w)
  <2>1. /\ ready \in [PoolJob -> Row]
        /\ \A j \in PoolJob : ready[j].attempts = rows[j].attempts
    BY RecoveredRows DEF RecoverLeases, PoolTypeOK
  <2>2. ASSUME NEW e \in execs, AtWork(e)
        PROVE  /\ e.job \in PoolJob /\ ready[e.job] = rows[e.job]
               /\ rows[e.job].status \in {"running", "cancelled"}
    <3>1. e.job \in PoolJob /\ e.token # 0 /\ held[e.job] = e.token
      BY <2>2 DEF PoolTypeOK, Execution, PoolInv, ClaimInv, WorkInv, AtWorkInv, Holds
    <3>2. e.job \in HeldJobs(held)
      BY <3>1 DEF HeldJobs
    <3>. QED
      BY <1>1, <2>2, <3>1, <3>2, HeldIsSpared DEF WorkInv, AtWorkInv
  <2> HIDE DEF ready
  <2>3. PICK S \in SUBSET PoolJob :
               /\ \A j \in S : ready[j].status = "pending" /\ PoolWorkerOf[j] = w
               /\ rows' = ClaimedRows(ready, S) /\ Start(S, w)
    BY <1>3 DEF PoolClaimable, PendingOf, JobsOf
  <2>4. /\ \A j \in S : rows'[j].status = "running" /\ rows'[j].attempts = rows[j].attempts + 1
        /\ \A j \in PoolJob \ S : rows'[j] = ready[j]
    BY <2>1, <2>3, RowsClaimed
  <2>5. /\ \A j \in PoolJob : held'[j] = IF j \in S THEN rows'[j].attempts ELSE held[j]
        /\ execs' = execs \cup {Started(j, rows'[j].attempts) : j \in S}
    BY <2>3 DEF Start
  <2>6. \A j \in S : LET new == Started(j, rows'[j].attempts)
                    IN  /\ new.job = j /\ new.token = rows'[j].attempts
                        /\ ~new.grace /\ new.final = "none"
    BY DEF Started
  <2>7. AbortedInv'
    BY <2>5, <2>6 DEF WorkInv, AbortedInv
  <2>8. AtWorkInv'
    <3> SUFFICES ASSUME NEW d \in execs', AtWork(d)
                 PROVE  /\ held'[d.job] = d.token /\ rows'[d.job].attempts = d.token
                        /\ rows'[d.job].status \in {"running", "cancelled"}
      BY DEF AtWorkInv, Holds
    <3>1. CASE d \in execs
      <4>1. d.job \in PoolJob \ S
        BY <2>2, <2>3, <3>1
      <4>. QED
        BY <2>2, <2>4, <2>5, <3>1, <4>1 DEF WorkInv, AtWorkInv, Holds
    <3>2. CASE d \notin execs
      BY <2>4, <2>5, <2>6, <3>2
    <3>. QED
      BY <3>1, <3>2
  <2>9. SlotsMove
    BY <2>4, <2>5 DEF SlotsMove
  <2>10. SweepInv'
    BY <1>1, <2>9, SweepKeeps DEF WorkInv
  <2>11. \A d \in execs' : d \in execs \/ PoolWorkerOf[d.job] = w
    BY <2>3, <2>5, <2>6
  <2>. QED
    BY <2>7, <2>8, <2>10, <2>11
<1>. QED
  BY <1>2, <1>3 DEF PollClaim

LEMMA SweepWorkStep ==
  ASSUME PoolTypeOK, PoolInv, WorkInv, RowsLive, SweepRead \/ (SweepCommit /\ SweepComparesClaim)
  PROVE  AbortedInv' /\ AtWorkInv' /\ SweepInv'
<1> USE DEF rowVars, slotVars
<1>1. CASE SweepRead
  <2>1. PICK spared : sweep' = PoolReads(rows, PoolOrphans \ spared)
    BY <1>1 DEF SweepRead
  <2>2. ASSUME NEW r \in sweep'
        PROVE  r.token \in 1..rows[r.job].attempts /\ held[r.job] # r.token
    <3>1. PICK j \in PoolOrphans : r = [job |-> j, token |-> rows[j].attempts]
      BY <2>1 DEF PoolReads
    <3>2. /\ j \in PoolJob /\ rows[j].status = "running" /\ held[j] = 0
          /\ rows[j].attempts \in Nat
      BY <3>1 DEF PoolOrphans, PoolTypeOK, Row
    <3>3. rows[j].attempts > 0
      BY <3>2 DEF WorkInv, RunningInv
    <3>. QED
      BY <3>1, <3>2, <3>3
  <2>3. UNCHANGED <<rows, execs, held>>
    BY <1>1 DEF SweepRead
  <2>4. SweepInv'
    BY <2>2, <2>3 DEF SweepInv
  <2>5. AbortedInv' /\ AtWorkInv'
    BY <2>3, WorkUntouched DEF WorkInv, AtWorkInv
  <2>. QED
    BY <2>4, <2>5
<1>2. CASE SweepCommit /\ SweepComparesClaim
  <2>1. rows' = Recovered(rows, sweep) /\ sweep' = {} /\ UNCHANGED <<execs, held>>
    BY <1>2 DEF SweepCommit
  <2>2. ASSUME NEW e \in execs, AtWork(e)
        PROVE  rows'[e.job] = rows[e.job]
    <3>1. /\ e.job \in PoolJob /\ held[e.job] = e.token /\ rows[e.job].attempts = e.token
      BY <2>2 DEF PoolTypeOK, Execution, WorkInv, AtWorkInv, Holds
    <3>2. ~\E r \in sweep : r.job = e.job /\ rows[e.job].status = "running"
      BY <1>2, <3>1 DEF SweepComparesClaim, WorkInv, SweepInv
    <3>. QED
      BY <2>1, <3>1, <3>2, RecoveredRows DEF PoolTypeOK
  <2>3. AbortedInv' /\ AtWorkInv'
    BY <2>1, <2>2, WorkUntouched DEF WorkInv, AtWorkInv
  <2>4. SweepInv'
    BY <2>1 DEF SweepInv
  <2>. QED
    BY <2>3, <2>4
<1>. QED
  BY <1>1, <1>2

\* Rows that others write: at most a cancellation meets a row that is worked on.
LEMMA RowsWorkStep ==
  ASSUME PoolTypeOK, PoolInv, WorkInv, RowsLive,
         \/ \E w \in PoolWorker : UnregisterCancels(w) \/ DrainBegin(w) \/ DrainEnd(w) \/ Register(w)
         \/ \E j \in PoolJob : PoolEnqueue(j) \/ LeaseLapses(j) \/ CancelRow(j)
         \/ RecoverFromStall \/ UNCHANGED poolVars
         \/ \E p \in Poll : PollBegin(p) \/ PollList(p) \/ PollFails(p)
  PROVE  AbortedInv' /\ AtWorkInv' /\ SweepInv'
<1> USE DEF rowVars, slotVars
<1>1. UNCHANGED <<execs, held, sweep>>
  BY DEF UnregisterCancels, DrainBegin, DrainEnd, Register, PoolEnqueue, LeaseLapses, CancelRow,
     RecoverFromStall, poolVars, PollBegin, PollList, PollFails
<1>2. rows \in [PoolJob -> Row]
  BY DEF PoolTypeOK
<1>3. \/ UNCHANGED rows
      \/ \E S : /\ rows' = Cancelled(rows, S)
      \/ \E j \in PoolJob : PoolEnqueue(j) \/ LeaseLapses(j)
  BY DEF UnregisterCancels, DrainBegin, DrainEnd, Register, CancelRow,
     RecoverFromStall, poolVars, PollBegin, PollList, PollFails
<1>4. ASSUME NEW e \in execs, AtWork(e)
      PROVE  /\ rows'[e.job].attempts = rows[e.job].attempts
             /\ rows'[e.job].status \in {"running", "cancelled"}
  <2>1. /\ e.job \in PoolJob /\ rows[e.job] \in Row
        /\ rows[e.job].status \in {"running", "cancelled"}
    BY <1>2, <1>4 DEF PoolTypeOK, Execution, WorkInv, AtWorkInv
  <2>2. ASSUME NEW S, rows' = Cancelled(rows, S)
        PROVE  rows'[e.job] = rows[e.job] \/ rows'[e.job] = SetStatus(rows[e.job], "cancelled")
    BY <2>1, <2>2 DEF Cancelled
  <2>3. LET new == SetStatus(rows[e.job], "cancelled")
        IN  new.status = "cancelled" /\ new.attempts = rows[e.job].attempts
    BY <2>1, SetStatusRow DEF PoolFinished
  <2>4. ASSUME NEW j \in PoolJob, PoolEnqueue(j) \/ LeaseLapses(j)
        PROVE  /\ rows'[e.job].attempts = rows[e.job].attempts
               /\ rows'[e.job].status = rows[e.job].status
    BY <1>2, <2>1, <2>4 DEF PoolEnqueue, LeaseLapses, Row
  <2>. QED
    BY <1>3, <2>1, <2>2, <2>3, <2>4
<1>5. AbortedInv' /\ AtWorkInv'
  BY <1>1, <1>4, WorkUntouched
<1>6. SweepInv'
  BY <1>1, SweepKeeps DEF WorkInv, SlotsMove
<1>. QED
  BY <1>5, <1>6

\* Whoever aborts executions names a reason.
LEMMA SomeAborted ==
  ASSUME \/ \E w \in PoolWorker : RequeueAllForWorker(w) \/ Unregister(w)
         \/ \E j \in PoolJob : CancelItem(j)
         \/ Shutdown
  PROVE  \E S \in SUBSET execs, reason \in Reason \ {"none"} : AbortAll(S, reason)
<1>1. "cancel" \in Reason \ {"none"} /\ "rescue" \in Reason \ {"none"}
      /\ "shutdown" \in Reason \ {"none"}
  BY DEF Reason
<1>2. ASSUME NEW w \in PoolWorker, RequeueAllForWorker(w)
      PROVE  \E S \in SUBSET execs, reason \in Reason \ {"none"} : AbortAll(S, reason)
  <2>1. HeldExecs(JobsOf(w)) \in SUBSET execs /\ AbortAll(HeldExecs(JobsOf(w)), "rescue")
    BY <1>2, HeldExecsType DEF RequeueAllForWorker
  <2>. QED
    BY <1>1, <2>1
<1>3. ASSUME NEW w \in PoolWorker, Unregister(w)
      PROVE  \E S \in SUBSET execs, reason \in Reason \ {"none"} : AbortAll(S, reason)
  <2>1. HeldExecs(JobsOf(w)) \in SUBSET execs /\ AbortAll(HeldExecs(JobsOf(w)), "cancel")
    BY <1>3, HeldExecsType DEF Unregister
  <2>. QED
    BY <1>1, <2>1
<1>4. ASSUME NEW j \in PoolJob, CancelItem(j)
      PROVE  \E S \in SUBSET execs, reason \in Reason \ {"none"} : AbortAll(S, reason)
  <2>1. HeldExecs({j}) \in SUBSET execs /\ AbortAll(HeldExecs({j}), "cancel")
    BY <1>4, HeldExecsType DEF CancelItem
  <2>. QED
    BY <1>1, <2>1
<1>5. ASSUME Shutdown
      PROVE  \E S \in SUBSET execs, reason \in Reason \ {"none"} : AbortAll(S, reason)
  <2>1. HeldExecs(PoolJob) \in SUBSET execs /\ AbortAll(HeldExecs(PoolJob), "shutdown")
    BY <1>5, HeldExecsType DEF Shutdown
  <2>. QED
    BY <1>1, <2>1
<1>. QED
  BY <1>2, <1>3, <1>4, <1>5

LEMMA AbortWorkStep ==
  ASSUME PoolTypeOK, WorkInv, RowsLive,
         \/ \E w \in PoolWorker : RequeueAllForWorker(w) \/ Unregister(w)
         \/ \E j \in PoolJob : CancelItem(j)
         \/ Shutdown
  PROVE  AbortedInv' /\ AtWorkInv' /\ SweepInv'
<1>1. PICK S \in SUBSET execs, reason \in Reason \ {"none"} : AbortAll(S, reason)
  BY SomeAborted
<1>2. UNCHANGED <<rows, held, sweep>>
  BY DEF RequeueAllForWorker, Unregister, CancelItem, Shutdown, rowVars
<1>3. AbortedInv' /\ AtWorkInv'
  BY <1>1, <1>2, WorkAborted
<1>4. SweepInv'
  BY <1>2, SweepKeeps DEF WorkInv, SlotsMove
<1>. QED
  BY <1>3, <1>4

LEMMA WorkStep ==
  ASSUME PoolTypeOK, PollInv, PoolInv, WorkInv, ~overtaken, SweepComparesClaim,
         [PoolNext]_poolVars
  PROVE  WorkInv'
<1>1. RowsLive /\ RunningInv'
  BY RowsLiveStep, RunningStep DEF WorkInv
<1> SUFFICES AbortedInv' /\ AtWorkInv' /\ SweepInv'
  BY <1>1 DEF WorkInv
<1>2. ASSUME NEW p \in Poll, PollBegin(p) \/ PollList(p) \/ PollFails(p)
      PROVE  AbortedInv' /\ AtWorkInv' /\ SweepInv'
  BY <1>1, <1>2, RowsWorkStep
<1>3. ASSUME NEW p \in Poll, PollClaim(p)
      PROVE  AbortedInv' /\ AtWorkInv' /\ SweepInv'
  BY <1>1, <1>3, ClaimWorkStep
<1>4. ASSUME NEW e \in execs, ExecStep(e)
      PROVE  AbortedInv' /\ AtWorkInv' /\ SweepInv'
  BY <1>1, <1>4, ExecWorkStep
<1>5. ASSUME NEW w \in PoolWorker, WorkerStep(w)
      PROVE  AbortedInv' /\ AtWorkInv' /\ SweepInv'
  BY <1>1, <1>5, RowsWorkStep, AbortWorkStep DEF WorkerStep
<1>6. ASSUME NEW j \in PoolJob, JobStep(j)
      PROVE  AbortedInv' /\ AtWorkInv' /\ SweepInv'
  BY <1>1, <1>6, RowsWorkStep, AbortWorkStep DEF JobStep
<1>7. CASE RecoverFromStall \/ UNCHANGED poolVars
  BY <1>1, <1>7, RowsWorkStep
<1>8. CASE SweepRead \/ SweepCommit
  BY <1>1, <1>8, SweepWorkStep
<1>9. CASE Shutdown
  BY <1>1, <1>9, AbortWorkStep
<1>10. CASE PoolRestart
  BY <1>10 DEF PoolRestart, AbortedInv, AtWorkInv, SweepInv
<1>. QED
  BY <1>2, <1>3, <1>4, <1>5, <1>6, <1>7, <1>8, <1>9, <1>10 DEF PoolNext, PollStep

LEMMA WorkOrStutter ==
  ASSUME PoolTypeOK, PollInv, PoolInv, WorkInv, ~overtaken, [SweepComparesClaim]_poolVars,
         [PoolNext]_poolVars
  PROVE  WorkInv'
<1>1. CASE SweepComparesClaim
  BY <1>1, WorkStep
<1>2. CASE UNCHANGED poolVars
  <2>1. RowsLive /\ RunningInv'
    BY RowsLiveStep, RunningStep DEF WorkInv
  <2>. QED
    BY <1>2, <2>1, RowsWorkStep DEF WorkInv
<1>. QED
  BY <1>1, <1>2

LEMMA WorkInit == PoolInit => WorkInv
BY DEF PoolInit, WorkInv, AbortedInv, AtWorkInv, SweepInv, RunningInv

\* A job is executed twice at once only if the watchdog let a second poll begin (overtaken), or
\* a sweep recovered a claim made after it read the row: with both excluded, no interleaving of
\* polls, aborts, timers, lapsed leases, cancellations, failed writes and crashes starts a job
\* that a handler is at work on (recoverExpiredRows of claims.writer.ts, which only looks
\* whether the row still runs, and recoverFromStall of worker-polling.service.ts).
THEOREM SecondExecutionIsStale ==
  PoolSpec /\ []~overtaken /\ [][SweepComparesClaim]_poolVars => []NoSecondExecution
<1>1. PoolInit => WorkInv
  BY WorkInit
<1>2. PoolTypeOK /\ PollInv /\ PoolInv /\ WorkInv /\ ~overtaken /\ [SweepComparesClaim]_poolVars
        /\ [PoolNext]_poolVars => WorkInv'
  BY WorkOrStutter
<1>3. PoolTypeOK /\ PoolInv /\ WorkInv => NoSecondExecution
  BY DEF PoolInv, ClaimInv, WorkInv, AtWorkInv, AtWork, NoSecondExecution
<1>. QED
  BY <1>1, <1>2, <1>3, PoolInvariant, PTL DEF PoolSpec

DrainInv ==
    /\ \A w \in PoolWorker : leaving[w] # "no" => w \notin registered
    /\ \A e \in execs : AtWork(e) => leaving[PoolWorkerOf[e.job]] = "no"

LEMMA WorkersDrain ==
  ASSUME PoolTypeOK, WorkInv, DrainInv, NEW w \in PoolWorker, WorkerStep(w)
  PROVE  DrainInv'
<1>1. /\ \A e \in execs : e.job \in PoolJob /\ PoolWorkerOf[e.job] \in PoolWorker
      /\ leaving \in [PoolWorker -> {"no", "cancelling", "out", "draining", "drained", "timedOut"}]
  BY PoolAssumption DEF PoolTypeOK, Execution
<1>2. CASE RequeueAllForWorker(w)
  <2>1. /\ AbortAll(HeldExecs(JobsOf(w)), "rescue")
        /\ UNCHANGED <<rows, held, registered, leaving>>
    BY <1>2 DEF RequeueAllForWorker, rowVars, workerVars
  <2>2. \A d \in execs' : AtWork(d) => d \in execs
    BY <2>1, WorkAborted, HeldExecsType DEF Reason
  <2>. QED
    BY <2>1, <2>2 DEF DrainInv
<1>3. CASE Unregister(w)
  <2>1. /\ AbortAll(HeldExecs(JobsOf(w)), "cancel") /\ UNCHANGED <<rows, held>>
        /\ registered' = registered \ {w}
        /\ leaving' = [leaving EXCEPT ![w] = "cancelling"]
    BY <1>3 DEF Unregister, rowVars
  <2>2. \A d \in execs' : AtWork(d) => d \in execs \ HeldExecs(JobsOf(w))
    BY <2>1, WorkAborted, HeldExecsType DEF Reason
  <2>3. ASSUME NEW d \in execs', AtWork(d) PROVE leaving'[PoolWorkerOf[d.job]] = "no"
    <3>1. d \in execs /\ d \notin HeldExecs(JobsOf(w)) /\ Holds(d)
      BY <2>2, <2>3 DEF WorkInv, AtWorkInv
    <3>2. PoolWorkerOf[d.job] # w
      BY <1>1, <3>1 DEF HeldExecs, JobsOf
    <3>. QED
      BY <1>1, <2>1, <2>3, <3>1, <3>2 DEF DrainInv
  <2>4. ASSUME NEW v \in PoolWorker, leaving'[v] # "no" PROVE v \notin registered'
    BY <1>1, <2>1, <2>4 DEF DrainInv
  <2>. QED
    BY <2>3, <2>4 DEF DrainInv
<1>4. CASE UnregisterCancels(w) \/ DrainBegin(w) \/ DrainEnd(w)
  <2>1. /\ UNCHANGED <<execs, registered>> /\ leaving[w] # "no"
        /\ \A v \in PoolWorker \ {w} : leaving'[v] = leaving[v]
    BY <1>1, <1>4 DEF UnregisterCancels, DrainBegin, DrainEnd, slotVars
  <2>. QED
    BY <1>1, <2>1 DEF DrainInv
<1>5. CASE Register(w)
  <2>1. /\ UNCHANGED execs /\ registered' = registered \cup {w}
        /\ leaving' = [leaving EXCEPT ![w] = "no"]
    BY <1>5 DEF Register, slotVars
  <2>. QED
    BY <1>1, <2>1 DEF DrainInv
<1>. QED
  BY <1>2, <1>3, <1>4, <1>5 DEF WorkerStep

LEMMA DrainStep ==
  ASSUME PoolTypeOK, PollInv, PoolInv, WorkInv, DrainInv, ~overtaken, StartsRegistered,
         [PoolNext]_poolVars
  PROVE  DrainInv'
<1>1. RowsLive
  BY RowsLiveStep
<1>2. ASSUME UNCHANGED <<execs, registered, leaving>> PROVE DrainInv'
  BY <1>2 DEF DrainInv
<1>3. ASSUME NEW p \in Poll, PollClaim(p) PROVE DrainInv'
  <2>1. UNCHANGED <<registered, leaving>>
    BY <1>3 DEF PollClaim, workerVars
  <2>2. ASSUME NEW d \in execs', AtWork(d) PROVE leaving[PoolWorkerOf[d.job]] = "no"
    <3>1. CASE d \in execs
      BY <2>2, <3>1 DEF DrainInv
    <3>2. CASE d \notin execs
      <4>1. PoolWorkerOf[d.job] = polls[p].worker /\ polls[p].worker \in registered
        BY <1>1, <1>3, <2>2, <3>2, ClaimWorkStep DEF StartsRegistered
      <4>. QED
        BY <4>1 DEF DrainInv, PoolTypeOK
    <3>. QED
      BY <3>1, <3>2
  <2>. QED
    BY <2>1, <2>2 DEF DrainInv
<1>4. ASSUME NEW e \in execs, ExecStep(e) PROVE DrainInv'
  BY <1>4, ExecLeavesOthers DEF DrainInv
<1>5. ASSUME NEW w \in PoolWorker, WorkerStep(w) PROVE DrainInv'
  BY <1>5, WorkersDrain
<1>6. CASE (\E j \in PoolJob : CancelItem(j)) \/ Shutdown
  <2>1. PICK S \in SUBSET execs, reason \in Reason \ {"none"} : AbortAll(S, reason)
    BY <1>6, SomeAborted
  <2>2. UNCHANGED <<rows, held, registered, leaving>>
    BY <1>6 DEF CancelItem, Shutdown, rowVars, workerVars
  <2>3. \A d \in execs' : AtWork(d) => d \in execs
    BY <2>1, <2>2, WorkAborted
  <2>. QED
    BY <2>2, <2>3 DEF DrainInv
<1>7. CASE PoolRestart
  BY <1>7 DEF PoolRestart, DrainInv
<1>8. CASE \/ \E p \in Poll : PollBegin(p) \/ PollList(p) \/ PollFails(p)
           \/ \E j \in PoolJob : PoolEnqueue(j) \/ LeaseLapses(j) \/ CancelRow(j)
           \/ RecoverFromStall \/ SweepRead \/ SweepCommit \/ UNCHANGED poolVars
  BY <1>2, <1>8 DEF PollBegin, PollList, PollFails, PoolEnqueue, LeaseLapses, CancelRow,
     RecoverFromStall, SweepRead, SweepCommit, poolVars, slotVars, workerVars
<1>. QED
  BY <1>3, <1>4, <1>5, <1>6, <1>7, <1>8 DEF PoolNext, PollStep, JobStep

\* With those two excluded, a handler outlives the drain of its worker only if a claim that the
\* worker's removal overtook started it: poll looks a worker up before its claim and never
\* after (worker-polling.service.ts), and unregisterWorker aborts what it finds in the pool.
THEOREM HandlersDrained ==
  PoolSpec /\ []~overtaken /\ [][SweepComparesClaim]_poolVars /\ [][StartsRegistered]_poolVars
    => []NoHandlerAfterDrain
<1>1. PoolInit => WorkInv /\ DrainInv
  BY WorkInit, PoolAssumption DEF PoolInit, DrainInv
<1>2. PoolTypeOK /\ PollInv /\ PoolInv /\ WorkInv /\ ~overtaken /\ [SweepComparesClaim]_poolVars
        /\ [PoolNext]_poolVars => WorkInv'
  BY WorkOrStutter
<1>3. PoolTypeOK /\ PollInv /\ PoolInv /\ WorkInv /\ DrainInv /\ ~overtaken
        /\ [StartsRegistered]_poolVars /\ [PoolNext]_poolVars => DrainInv'
  <2>1. UNCHANGED poolVars /\ DrainInv => DrainInv'
    BY DEF DrainInv, AtWork, poolVars, slotVars, workerVars
  <2>. QED
    BY <2>1, DrainStep
<1>4. DrainInv => NoHandlerAfterDrain
  BY DEF DrainInv, AtWork, NoHandlerAfterDrain
<1>. QED
  BY <1>1, <1>2, <1>3, <1>4, PoolInvariant, PTL DEF PoolSpec
=============================================================================
