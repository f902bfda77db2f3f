--------------------------- MODULE ServicesProofs ---------------------------
(***************************************************************************)
(* Theorems about the small services, for every value of their constants:  *)
(* writes of two owners never overlap, wake-ups are never lost, and        *)
(* updates lose no file.                                                   *)
(***************************************************************************)
EXTENDS WriteLock, PollLoop, UpdateInstall, TLAPS

(***************************************************************************)
(* The write lock.  The holder of the lock is the one operation whose      *)
(* promise is not resolved and all earlier ones are.                       *)
(***************************************************************************)
\* The promises are resolved in their order.
InOrder == \A n \in released : \A m \in 0..n : m \in released

OwnTickets == \A a, b \in Op : ticket[a] = ticket[b] /\ ticket[a] # 0 => a = b

NotIssued == \A o \in Op : phase[o] = "unissued" => ticket[o] = 0

Queued ==
    \A o \in Op : phase[o] = "waiting" =>
        /\ ticket[o] # 0
        /\ ticket[o] \notin released
        /\ under[o] = o
        /\ lockScope[o] = o

\* A callback that runs under a promise of its own has had its turn and not given it up.
Turn ==
    \A o \in Op : phase[o] = "running" /\ ticket[o] # 0 =>
        /\ ticket[o] \notin released
        /\ \A m \in 0..(ticket[o] - 1) : m \in released

UnderHolder ==
    \A o \in Op : phase[o] = "running" =>
        /\ under[o] \in Op
        /\ phase[under[o]] = "running"
        /\ ticket[under[o]] # 0

OpenRuns == \A o \in open : phase[o] = "running"

Seen == {x \in Op : phase[x] \in {"running", "ended"}}

\* A transaction is seen by what its callback issued, so after it has begun.
TxSeen == \A o \in Op : txScope[o] \in Seen \cup {o, NoOp}

\* Who sees an open transaction sees its lock.
TxUnderLock == \A o \in Op : txScope[o] \in open => lockScope[o] = txScope[o]

LockInv ==
    /\ LockTypeOK
    /\ InOrder
    /\ OwnTickets
    /\ NotIssued
    /\ Queued
    /\ Turn
    /\ UnderHolder
    /\ OpenRuns
    /\ TxSeen
    /\ TxUnderLock
-----------------------------------------------------------------------------
LEMMA LockInvInit == LockInit => LockInv
<1> SUFFICES ASSUME LockInit PROVE LockInv
  OBVIOUS
<1>1. LockTypeOK
  BY DEF LockInit, LockTypeOK, Scope
<1>2. InOrder
  BY DEF LockInit, InOrder
<1>3. OwnTickets /\ NotIssued /\ Queued /\ Turn /\ UnderHolder /\ OpenRuns
  BY DEF LockInit, OwnTickets, NotIssued, Queued, Turn, UnderHolder, OpenRuns
<1>4. TxSeen /\ TxUnderLock
  BY DEF LockInit, TxSeen, TxUnderLock
<1> QED
  BY <1>1, <1>2, <1>3, <1>4 DEF LockInv

\* The transaction seen from an issuer has begun; if it is open its lock is held.
LEMMA IssuerStores ==
    ASSUME LockInv, NEW p \in Scope, p \in Issuers
    PROVE  /\ LockStore(p) \in Scope
           /\ TxStore(p) \in Seen \cup {NoOp}
           /\ TxStore(p) \in open => LockStore(p) = TxStore(p)
<1>1. CASE p = NoOp
  BY <1>1, WriteLockAssumption DEF LockInv, LockTypeOK, LockStore, TxStore, Scope
<1>2. CASE p \in Op
  <2>1. p \in Seen
    BY <1>2, WriteLockAssumption DEF Issuers, Seen
  <2> QED
    BY <1>2, <2>1, WriteLockAssumption DEF LockInv, LockTypeOK, TxSeen, TxUnderLock,
       LockStore, TxStore
<1> QED
  BY <1>1, <1>2 DEF Scope

\* An operation that queues makes the promise after the last one.
LEMMA EnqueueKeeps ==
    ASSUME LockInv, NEW o \in Op, phase[o] = "unissued", NEW tx \in Seen \cup {o, NoOp}, tx \notin open,
           EnqueueWriter(o, tx)
    PROVE  LockInv'
<1>1. LockTypeOK'
  <2>1. tx \in Scope
    BY DEF Seen, Scope
  <2> QED
    BY <2>1 DEF LockInv, LockTypeOK, EnqueueWriter, Scope
<1>2. InOrder'
  BY DEF LockInv, InOrder, EnqueueWriter
<1>3. OwnTickets'
  <2> SUFFICES ASSUME NEW a \in Op, NEW b \in Op, ticket'[a] = ticket'[b], ticket'[a] # 0
               PROVE  a = b
    BY DEF OwnTickets
  <2>1. \A q \in Op : ticket[q] \in Nat /\ ticket[q] <= transactionLock
    BY DEF LockInv, LockTypeOK
  <2>2. \A q \in Op : ticket'[q] = IF q = o THEN transactionLock + 1 ELSE ticket[q]
    BY DEF LockInv, LockTypeOK, EnqueueWriter
  <2>3. transactionLock \in Nat
    BY DEF LockInv, LockTypeOK
  <2>4. CASE a # o /\ b # o
    BY <2>2, <2>4 DEF LockInv, OwnTickets
  <2>5. CASE a = o /\ b # o
    BY <2>1, <2>2, <2>3, <2>5
  <2>6. CASE a # o /\ b = o
    BY <2>1, <2>2, <2>3, <2>6
  <2> QED
    BY <2>4, <2>5, <2>6
<1>4. NotIssued'
  BY DEF LockInv, LockTypeOK, NotIssued, EnqueueWriter
<1>5. Queued'
  BY DEF LockInv, LockTypeOK, Queued, EnqueueWriter
<1>6. Turn'
  BY DEF LockInv, LockTypeOK, Turn, EnqueueWriter
<1>7. UnderHolder'
  BY DEF LockInv, LockTypeOK, UnderHolder, EnqueueWriter
<1>8. OpenRuns'
  BY DEF LockInv, LockTypeOK, OpenRuns, EnqueueWriter
<1>9. TxSeen'
  <2>1. Seen \subseteq Seen'
    BY DEF LockInv, LockTypeOK, Seen, EnqueueWriter
  <2> QED
    BY <2>1 DEF LockInv, LockTypeOK, TxSeen, EnqueueWriter
<1>10. TxUnderLock'
  BY DEF LockInv, LockTypeOK, TxUnderLock, EnqueueWriter
<1> QED
  BY <1>1, <1>2, <1>3, <1>4, <1>5, <1>6, <1>7, <1>8, <1>9, <1>10 DEF LockInv

\* A nested operation works under the lock of the scope it found open.
LEMMA InlineKeeps ==
    ASSUME LockInv, NEW o \in Op, phase[o] = "unissued",
           NEW p \in Scope, HoldsWriteLock(p),
           NEW lock \in Scope, NEW tx \in Seen \cup {o, NoOp}, Inline(o, p, lock, tx),
           \/ open' = open /\ (tx \in open => lock = tx)
           \/ open' = open \cup {o} /\ lock = o /\ tx = o
    PROVE  LockInv'
<1>1. LockStore(p) \in Op /\ phase[LockStore(p)] = "running"
  BY DEF LockInv, LockTypeOK, OpenRuns, HoldsWriteLock
<1>2. LockTypeOK'
  <2>1. tx \in Scope
    BY DEF Seen, Scope
  <2> QED
    BY <1>1, <2>1 DEF LockInv, LockTypeOK, Inline, Scope
<1>3. InOrder' /\ OwnTickets'
  BY DEF LockInv, InOrder, OwnTickets, Inline
<1>4. NotIssued' /\ Queued'
  BY DEF LockInv, LockTypeOK, NotIssued, Queued, Inline
<1>5. Turn'
  BY DEF LockInv, LockTypeOK, NotIssued, Turn, Inline
<1>6. UnderHolder'
  BY <1>1 DEF LockInv, LockTypeOK, UnderHolder, Inline
<1>7. OpenRuns'
  BY DEF LockInv, LockTypeOK, OpenRuns, Inline
<1>8. TxSeen'
  <2>1. Seen' = Seen \cup {o}
    BY DEF LockInv, LockTypeOK, Seen, Inline
  <2> QED
    BY <2>1 DEF LockInv, LockTypeOK, TxSeen, Inline
<1>9. TxUnderLock'
  <2>1. \A q \in Op \ {o} : txScope[q] # o
    BY WriteLockAssumption DEF LockInv, TxSeen, Seen
  <2>2. CASE open' = open /\ (tx \in open => lock = tx)
    BY <2>2 DEF LockInv, LockTypeOK, TxUnderLock, Inline
  <2>3. CASE open' = open \cup {o} /\ lock = o /\ tx = o
    BY <2>1, <2>3 DEF LockInv, LockTypeOK, TxUnderLock, Inline
  <2> QED
    BY <2>2, <2>3
<1> QED
  BY <1>2, <1>3, <1>4, <1>5, <1>6, <1>7, <1>8, <1>9 DEF LockInv

LEMMA AcquireKeeps ==
    ASSUME LockInv, NEW o \in Op, Acquire(o)
    PROVE  LockInv'
<1>1. LockTypeOK'
  BY DEF LockInv, LockTypeOK, Acquire
<1>2. InOrder' /\ OwnTickets'
  BY DEF LockInv, InOrder, OwnTickets, Acquire
<1>3. NotIssued' /\ Queued'
  BY DEF LockInv, LockTypeOK, NotIssued, Queued, Acquire
<1>4. Turn'
  <2>1. \A m \in 0..(ticket[o] - 1) : m \in released
    BY DEF LockInv, InOrder, Acquire
  <2> QED
    BY <2>1 DEF LockInv, LockTypeOK, Queued, Turn, Acquire
<1>5. UnderHolder'
  BY DEF LockInv, LockTypeOK, Queued, UnderHolder, Acquire
<1>6. OpenRuns'
  BY DEF LockInv, LockTypeOK, OpenRuns, Acquire
<1>7. TxSeen'
  <2>1. Seen \subseteq Seen'
    BY DEF LockInv, LockTypeOK, Seen, Acquire
  <2> QED
    BY <2>1 DEF LockInv, TxSeen, Acquire
<1>8. TxUnderLock'
  <2>1. \A q \in Op \ {o} : txScope[q] # o
    BY WriteLockAssumption DEF LockInv, TxSeen, Seen, Acquire
  <2>2. lockScope[o] = o
    BY DEF LockInv, Queued, Acquire
  <2> QED
    BY <2>1, <2>2 DEF LockInv, TxUnderLock, Acquire
<1> QED
  BY <1>1, <1>2, <1>3, <1>4, <1>5, <1>6, <1>7, <1>8 DEF LockInv

LEMMA EndKeeps ==
    ASSUME LockInv, NEW o \in Op, NEW ok \in BOOLEAN, End(o, ok)
    PROVE  LockInv'
<1>1. LockTypeOK'
  BY DEF LockInv, LockTypeOK, End, Close
<1>2. InOrder'
  <2>1. CASE ticket[o] = 0
    BY <2>1 DEF LockInv, InOrder, End, Close
  <2>2. CASE ticket[o] # 0
    <3>1. released' = released \cup {ticket[o]}
      BY <2>2 DEF End, Close
    <3>2. \A m \in 0..ticket[o] : m \in released'
      BY <2>2, <3>1 DEF LockInv, LockTypeOK, Turn, End
    <3> QED
      BY <3>1, <3>2 DEF LockInv, InOrder
  <2> QED
    BY <2>1, <2>2
<1>3. OwnTickets'
  BY DEF LockInv, OwnTickets, End
<1>4. NotIssued'
  BY DEF LockInv, LockTypeOK, NotIssued, End
<1>5. \A q \in Op \ {o} : ticket[q] # 0 => (ticket[q] \in released' <=> ticket[q] \in released)
  BY DEF LockInv, OwnTickets, End, Close
<1>6. \A q \in Op : phase'[q] = IF q = o THEN "ended" ELSE phase[q]
  BY DEF LockInv, LockTypeOK, End
<1>7. ticket' = ticket /\ under' = under /\ lockScope' = lockScope /\ open' = open \ {o}
  BY DEF End, Close
<1>8. Queued'
  BY <1>5, <1>6, <1>7 DEF LockInv, Queued
<1>9. Turn'
  <2> SUFFICES ASSUME NEW q \in Op, phase'[q] = "running", ticket'[q] # 0
               PROVE  /\ ticket'[q] \notin released'
                      /\ \A m \in 0..(ticket'[q] - 1) : m \in released'
    BY DEF Turn
  <2>1. q # o /\ phase[q] = "running" /\ ticket'[q] = ticket[q]
    BY <1>6, <1>7
  <2>2. ticket[q] \notin released'
    BY <1>5, <1>7, <2>1 DEF LockInv, Turn
  <2>3. \A m \in 0..(ticket[q] - 1) : m \in released'
    BY <1>7, <2>1 DEF LockInv, Turn, End, Close
  <2> QED
    BY <2>1, <2>2, <2>3
<1>10. UnderHolder'
  BY <1>6, <1>7 DEF LockInv, UnderHolder, End
<1>11. OpenRuns'
  BY <1>6, <1>7 DEF LockInv, LockTypeOK, OpenRuns
<1>12. TxSeen'
  <2>1. Seen \subseteq Seen'
    BY <1>6 DEF Seen
  <2> QED
    BY <2>1 DEF LockInv, TxSeen, End
<1>13. TxUnderLock'
  BY <1>7 DEF LockInv, TxUnderLock, End
<1> QED
  BY <1>1, <1>2, <1>3, <1>4, <1>8, <1>9, <1>10, <1>11, <1>12, <1>13 DEF LockInv

LEMMA LockInvStep == LockInv /\ [LockNext]_lockVars => LockInv'
<1> SUFFICES ASSUME LockInv, [LockNext]_lockVars PROVE LockInv'
  OBVIOUS
<1>1. ASSUME NEW o \in Op, phase[o] = "unissued" PROVE o \notin open
  BY <1>1 DEF LockInv, OpenRuns
<1>2. ASSUME NEW o \in Op, NEW p \in Scope, RunWrite(o, p) PROVE LockInv'
  <2>1. phase[o] = "unissued" /\ p \in Issuers
    BY <1>2 DEF RunWrite
  <2>2. CASE HoldsWriteLock(p)
    BY <1>2, <2>1, <2>2, IssuerStores, InlineKeeps DEF RunWrite
  <2>3. CASE ~HoldsWriteLock(p)
    <3>1. TxStore(p) \notin open
      BY <2>1, <2>3, IssuerStores DEF HoldsWriteLock
    <3> QED
      BY <1>2, <2>1, <2>3, <3>1, IssuerStores, EnqueueKeeps DEF RunWrite
  <2> QED
    BY <2>2, <2>3
<1>3. ASSUME NEW o \in Op, NEW p \in Scope, Savepoint(o, p) PROVE LockInv'
  <2>1. phase[o] = "unissued" /\ p \in Issuers /\ TxStore(p) \in open
    BY <1>3 DEF Savepoint, InTransaction
  <2>2. HoldsWriteLock(p)
    BY <2>1, IssuerStores DEF HoldsWriteLock
  <2> QED
    BY <1>3, <2>1, <2>2, IssuerStores, InlineKeeps DEF Savepoint
<1>4. ASSUME NEW o \in Op, NEW p \in Scope, Transaction(o, p) PROVE LockInv'
  <2>1. o \in Scope /\ phase[o] = "unissued" /\ o \notin open
    BY <1>1, <1>4 DEF Scope, Transaction
  <2>2. CASE HoldsWriteLock(p)
    BY <1>4, <2>1, <2>2, InlineKeeps DEF Transaction
  <2>3. CASE ~HoldsWriteLock(p)
    BY <1>4, <2>1, <2>3, EnqueueKeeps DEF Transaction
  <2> QED
    BY <2>2, <2>3
<1>5. CASE UNCHANGED lockVars
  BY <1>5 DEF lockVars, LockInv, LockTypeOK, InOrder, OwnTickets, NotIssued, Queued, Turn,
     UnderHolder,
              OpenRuns, Seen, TxSeen, TxUnderLock
<1> QED
  BY <1>2, <1>3, <1>4, <1>5, AcquireKeeps, EndKeeps DEF LockNext

LEMMA LockInvHolds == LockSpec => []LockInv
  BY LockInvInit, LockInvStep, PTL DEF LockSpec

\* The holder is the operation with the smallest promise that is not resolved, so there is one.
LEMMA LockInvWritesAlone == LockInv => WritesAlone
<1> SUFFICES ASSUME LockInv, NEW a \in Running, NEW b \in Running
             PROVE  under[a] = under[b]
  BY DEF WritesAlone
<1> DEFINE ua == under[a]
<1> DEFINE ub == under[b]
<1>1. /\ ua \in Op /\ ub \in Op
      /\ phase[ua] = "running" /\ phase[ub] = "running"
      /\ ticket[ua] # 0 /\ ticket[ub] # 0
  BY DEF LockInv, UnderHolder, Running
<1>2. ticket[ua] \in Nat /\ ticket[ub] \in Nat
  BY <1>1 DEF LockInv, LockTypeOK
<1> HIDE DEF ua, ub
<1>3. ~(ticket[ua] < ticket[ub])
  BY <1>1, <1>2 DEF LockInv, Turn
<1>4. ~(ticket[ub] < ticket[ua])
  BY <1>1, <1>2 DEF LockInv, Turn
<1>5. ticket[ua] = ticket[ub]
  BY <1>2, <1>3, <1>4
<1>6. ua = ub
  BY <1>1, <1>5 DEF LockInv, OwnTickets
<1> QED
  BY <1>6 DEF ua, ub
-----------------------------------------------------------------------------
\* The chain, the tickets and the scopes stay well-formed in every step of runWrite and transaction.
THEOREM WriteLockTypeCorrect == LockSpec => []LockTypeOK
<1>1. LockInv => LockTypeOK
  BY DEF LockInv
<1> QED
  BY <1>1, LockInvHolds, PTL

\* Whatever the number of operations and however they nest, outlive each other and fail, all that run
\* at one time run under one acquisition of the lock (database.factory.ts:339-453).
THEOREM OneWriterAtATime == LockSpec => []WritesAlone
  BY LockInvHolds, LockInvWritesAlone, PTL
-----------------------------------------------------------------------------
(***************************************************************************)
(* The polling loop.  No announced work is forgotten, whatever the workers *)
(* and however many polls are in flight.                                   *)
(***************************************************************************)
\* WakeUpRemembered made inductive: a loop that was told of work runs, and the wake-up is with the poll
\* in flight while the guard is set, and with the timer otherwise.
Awake ==
    signalled =>
        /\ isRunning
        /\ \/ \E p \in Poll : polls[p].phase = "listing"
           \/ IF isPolling THEN pollAgain ELSE pollDebounceTimer

LoopInv == LoopTypeOK /\ Awake

LEMMA LoopInvInit == LoopInit => LoopInv
<1> SUFFICES ASSUME LoopInit PROVE LoopInv
  OBVIOUS
<1>1. Idle \in PollState
  BY DEF Idle, PollState
<1>2. polls \in [Poll -> PollState]
  BY <1>1 DEF LoopInit
<1>3. stalls \in 0..(EscalateAfterStalls - 1)
  BY DEF LoopInit, EscalateAfterStalls
<1>4. due \subseteq Worker /\ hung \subseteq Poll /\ loopMishaps \in Nat
  BY DEF LoopInit
<1> QED
  BY <1>2, <1>3, <1>4 DEF LoopInit, LoopInv, LoopTypeOK, Awake

\* A call of triggerPoll leaves the wake-up with the poll in flight or with the timer.
LEMMA TriggerWakes ==
  ASSUME NEW polling \in BOOLEAN, NEW again \in BOOLEAN, NEW debounce \in BOOLEAN,
         LoopTypeOK, Trigger(polling, again, debounce)
  PROVE  /\ pollAgain' \in BOOLEAN /\ pollDebounceTimer' \in BOOLEAN
         /\ isRunning => IF polling THEN pollAgain' ELSE pollDebounceTimer'
         /\ again => pollAgain'
         /\ debounce => pollDebounceTimer'
  BY DEF LoopTypeOK, Trigger, Debounce

\* The end of a poll hands a remembered wake-up to the timer.
LEMMA AfterPollWakes ==
  ASSUME NEW debounce \in BOOLEAN, LoopTypeOK, AfterPoll(debounce)
  PROVE  /\ ~isPolling' /\ isPolling' \in BOOLEAN
         /\ pollAgain' \in BOOLEAN /\ pollDebounceTimer' \in BOOLEAN
         /\ pollAgain /\ isRunning => pollDebounceTimer'
         /\ debounce => pollDebounceTimer'
  BY DEF LoopTypeOK, AfterPoll, Trigger, Debounce

\* A poll that a timer begins: no wake-up is left with a timer that has fired.
LEMMA BeginKeeps ==
  ASSUME LoopInv, NEW chained \in BOOLEAN, NEW timer \in BOOLEAN, NEW debounce \in BOOLEAN,
         Begin(chained, timer, debounce),
         UNCHANGED <<isRunning, hung, stalls, due, full, loopMishaps>>
  PROVE  LoopInv'
<1> USE DEF LoopInv
<1>1. CASE InFlight(chained, timer, debounce)
  BY <1>1 DEF InFlight, Rearm, LoopTypeOK, Awake
<1>2. CASE PoolFull(chained, timer, debounce)
  BY <1>2, AfterPollWakes DEF PoolFull, Rearm, LoopTypeOK, Awake
<1>3. CASE BeginListing(chained, timer, debounce)
  <2>1. PICK p \in Poll :
            polls' = [polls EXCEPT ![p] = [Idle EXCEPT !.phase = "listing", !.chained = chained]]
    BY <1>3 DEF BeginListing
  <2>2. polls' \in [Poll -> PollState] /\ polls'[p].phase = "listing"
    BY <2>1 DEF LoopTypeOK, PollState, Idle
  <2> QED
    BY <1>3, <2>2 DEF BeginListing, LoopTypeOK, Awake
<1> QED
  BY <1>1, <1>2, <1>3 DEF Begin

\* A poll that goes on or ends, other than by its list, drops no wake-up.
LEMMA GoOnKeeps ==
  ASSUME LoopInv, NEW p \in Poll, NEW todo \in SUBSET Worker, GoOn(p, todo),
         polls[p].phase # "listing" \/ ~signalled',
         signalled' \in BOOLEAN, signalled' => signalled,
         due' \subseteq Worker, full' \in BOOLEAN, loopMishaps' \in Nat,
         UNCHANGED <<isRunning, hung, stale, stalls>>
  PROVE  LoopInv'
<1> USE DEF LoopInv
<1>1. polls[p].chained \in BOOLEAN /\ polls[p] \in PollState
  BY DEF LoopTypeOK, PollState
<1>2. CASE todo = {}
  <2>1. polls' = [polls EXCEPT ![p] = Idle] /\ AfterPoll(pollDebounceTimer)
        /\ pollTimer' \in BOOLEAN
    BY <1>1, <1>2 DEF GoOn, Rearm, LoopTypeOK
  <2>2. polls' \in [Poll -> PollState]
    BY <2>1 DEF LoopTypeOK, PollState, Idle
  <2>3. \A q \in Poll : q # p => polls'[q] = polls[q]
    BY <2>1 DEF LoopTypeOK
  <2>4. LoopTypeOK'
    BY <2>1, <2>2, AfterPollWakes DEF LoopTypeOK
  <2>5. Awake'
    BY <2>1, <2>3, AfterPollWakes DEF LoopTypeOK, Awake
  <2> QED
    BY <2>4, <2>5
<1>3. CASE todo # {}
  <2>1. /\ polls' = [polls EXCEPT ![p].phase = "claiming", ![p].todo = todo]
        /\ UNCHANGED <<isPolling, pollAgain, pollDebounceTimer, pollTimer>>
    BY <1>3 DEF GoOn
  <2>2. polls' \in [Poll -> PollState]
    BY <2>1, <1>1 DEF LoopTypeOK, PollState
  <2>3. \A q \in Poll : q # p => polls'[q] = polls[q]
    BY <2>1 DEF LoopTypeOK
  <2> QED
    BY <2>1, <2>2, <2>3 DEF LoopTypeOK, Awake
<1> QED
  BY <1>2, <1>3

LEMMA MishapCounted == LoopTypeOK /\ LoopMishap => loopMishaps' \in Nat
  BY DEF LoopTypeOK, LoopMishap

LEMMA PollKeeps ==
  ASSUME LoopInv, NEW p \in Poll,
         List(p) \/ ClaimForWorkers(p) \/ Fails(p) \/ Hangs(p) \/ ComesBack(p)
  PROVE  LoopInv'
<1> USE DEF LoopInv
<1>1. CASE List(p)
  BY <1>1, GoOnKeeps DEF List, LoopTypeOK
<1>2. CASE ClaimForWorkers(p)
  <2>1. PICK todo \in SUBSET Worker : GoOn(p, todo)
    BY <1>2 DEF ClaimForWorkers, LoopTypeOK, PollState
  <2>2. due' \subseteq Worker /\ full' \in BOOLEAN
    BY <1>2 DEF ClaimForWorkers, LoopTypeOK
  <2> QED
    BY <1>2, <2>1, <2>2, GoOnKeeps DEF ClaimForWorkers, LoopTypeOK
<1>3. CASE Fails(p)
  BY <1>3, GoOnKeeps, MishapCounted DEF Fails, LoopTypeOK
<1>4. CASE Hangs(p)
  BY <1>4, MishapCounted DEF Hangs, LoopTypeOK, Awake, loop
<1>5. CASE ComesBack(p)
  BY <1>5 DEF ComesBack, LoopTypeOK, Awake, loop, work
<1> QED
  BY <1>1, <1>2, <1>3, <1>4, <1>5

\* Work that is announced is remembered; recovery takes the guard away and hands on what came meanwhile.
LEMMA OtherKeeps ==
  ASSUME LoopInv,
         \/ Start \/ Stop \/ SlotFreed \/ GoesStale \/ CheckHealth
         \/ \E w \in Worker : OnEnqueue(w) \/ BecomesDue(w)
  PROVE  LoopInv'
<1> USE DEF LoopInv
<1>1. CASE Start
  BY <1>1 DEF Start, LoopTypeOK, Awake
<1>2. CASE Stop
  BY <1>2, MishapCounted DEF Stop, LoopTypeOK, Awake
<1>3. CASE SlotFreed
  BY <1>3, TriggerWakes DEF SlotFreed, Announced, LoopTypeOK, Awake
<1>4. CASE GoesStale
  BY <1>4 DEF GoesStale, LoopTypeOK, Awake, loop, work
<1>5. CASE CheckHealth
  <2>1. stalls' \in 0..(EscalateAfterStalls - 1)
    BY <1>5 DEF CheckHealth, LoopTypeOK, EscalateAfterStalls
  <2>2. CASE stale /\ stalls' = 0
    BY <1>5, <2>1, <2>2, TriggerWakes DEF CheckHealth, Recover, LoopTypeOK, Awake, work
  <2>3. CASE stale /\ stalls' # 0
    BY <1>5, <2>1, <2>3, TriggerWakes DEF CheckHealth, Announced, LoopTypeOK, Awake, work
  <2>4. CASE ~stale
    BY <1>5, <2>1, <2>4 DEF CheckHealth, LoopTypeOK, Awake, work
  <2> QED
    BY <2>2, <2>3, <2>4
<1>6. ASSUME NEW w \in Worker, OnEnqueue(w) PROVE LoopInv'
  BY <1>6, TriggerWakes DEF OnEnqueue, Announced, LoopTypeOK, Awake
<1>7. ASSUME NEW w \in Worker, BecomesDue(w) PROVE LoopInv'
  BY <1>7 DEF BecomesDue, LoopTypeOK, Awake, loop
<1> QED
  BY <1>1, <1>2, <1>3, <1>4, <1>5, <1>6, <1>7

LEMMA LoopInvStep == LoopInv /\ [LoopNext]_loopVars => LoopInv'
<1> SUFFICES ASSUME LoopInv, [LoopNext]_loopVars PROVE LoopInv'
  OBVIOUS
<1>1. CASE PollTimerFires
  BY <1>1, BeginKeeps DEF PollTimerFires, LoopInv, LoopTypeOK
<1>2. CASE DebounceFires
  BY <1>2, BeginKeeps DEF DebounceFires, LoopInv, LoopTypeOK
<1>3. CASE UNCHANGED loopVars
  BY <1>3 DEF loopVars, loop, work, LoopInv, LoopTypeOK, Awake
<1> QED
  BY <1>1, <1>2, <1>3, PollKeeps, OtherKeeps DEF LoopNext

LEMMA LoopInvHolds == LoopSpec => []LoopInv
  BY LoopInvInit, LoopInvStep, PTL DEF LoopSpec
-----------------------------------------------------------------------------
\* Every reachable state of the polling loop is well typed.
THEOREM PollLoopTypeCorrect == LoopSpec => []LoopTypeOK
<1>1. LoopInv => LoopTypeOK
  BY DEF LoopInv
<1> QED
  BY <1>1, LoopInvHolds, PTL

\* For any workers and any number of polls in flight, hung, failed or recovered from: a wake-up
\* is with a timer, with the poll in flight or with a poll about to look (worker-polling.service.ts:77-84, 216-223).
THEOREM NoLostWakeUp == LoopSpec => []WakeUpRemembered
<1>1. LoopInv => WakeUpRemembered
  BY DEF LoopInv, LoopTypeOK, Awake, WakeUpRemembered
<1> QED
  BY <1>1, LoopInvHolds, PTL
-----------------------------------------------------------------------------
(***************************************************************************)
(* The update.  What becomes of the files when an install is stopped or    *)
(* cancelled, for any versions and any number of failures.                 *)
(***************************************************************************)
\* A process that is down has no job, so nothing boots in the middle of an install.
JobNeedsProcess == updateJob # NoJob => running # 0

LEMMA JobNeedsProcessHolds == UpdateSpec => []JobNeedsProcess
<1>1. UpdateInit => JobNeedsProcess
  BY DEF UpdateInit, JobNeedsProcess
<1>2. JobNeedsProcess /\ [UpdateNext]_updateVars => JobNeedsProcess'
  <2> SUFFICES ASSUME JobNeedsProcess, [UpdateNext]_updateVars PROVE JobNeedsProcess'
    OBVIOUS
  <2> USE DEF JobNeedsProcess
  <2>1. ASSUME NEW c \in Component, StartInstall(c) PROVE JobNeedsProcess'
    BY <2>1 DEF StartInstall
  <2>2. ASSUME NEW c \in Component, SwapIn(c) PROVE JobNeedsProcess'
    BY <2>2 DEF SwapIn, Extracted, AtStage, NoJob
  <2>3. ASSUME NEW c \in Component, SwapFails(c) PROVE JobNeedsProcess'
    BY <2>3 DEF SwapFails
  <2>4. ASSUME NEW c \in Component, CrashInSwap(c) PROVE JobNeedsProcess'
    BY <2>4 DEF CrashInSwap, Down
  <2>5. ASSUME NEW c \in Component, Rollback(c) PROVE JobNeedsProcess'
    BY <2>5 DEF Rollback, CanRollBack
  <2>6. ASSUME NEW c \in Component, RollbackFails(c) PROVE JobNeedsProcess'
    BY <2>6 DEF RollbackFails
  <2>7. CASE CancelInstall
    BY <2>7 DEF CancelInstall
  <2>8. CASE Downloaded \/ Verified \/ Checked
    BY <2>8 DEF Downloaded, Verified, Checked, GoTo, AtStage, NoJob
  <2>9. CASE ExtractedForScript
    BY <2>9 DEF ExtractedForScript, AtStage, NoJob
  <2>10. CASE StageEnds
    BY <2>10 DEF StageEnds
  <2>11. CASE Exit \/ Crash
    BY <2>11 DEF Exit, Crash, Down
  <2>12. CASE Boot
    BY <2>12 DEF Boot
  <2>13. CASE UNCHANGED updateVars
    BY <2>13 DEF updateVars
  <2> QED
    BY <2>1, <2>2, <2>3, <2>4, <2>5, <2>6, <2>7, <2>8, <2>9, <2>10, <2>11, <2>12, <2>13
    DEF UpdateNext
<1> QED
  BY <1>1, <1>2, PTL DEF UpdateSpec
-----------------------------------------------------------------------------
(* What the two loops of a swap and its error path keep *)

LEMMA SwapKeeps ==
  ASSUME NEW c \in Component, NEW new, Swap(c, new), NEW n \in Name, Kept(n)
  PROVE  Kept(n)'
  BY DEF Swap, Placed, PreviousWith, RootWithout, Aside, Kept

LEMMA StopsAsideKeeps ==
  ASSUME NEW c \in Component, NEW new, StopsAside(c, new), NEW n \in Name, Kept(n)
  PROVE  Kept(n)'
  BY DEF StopsAside, PreviousWith, RootWithout, Aside, Kept

LEMMA StopsPlacingKeeps ==
  ASSUME NEW c \in Component, NEW new, StopsPlacing(c, new), NEW n \in Name, Kept(n)
  PROVE  Kept(n)'
  BY DEF StopsPlacing, Placed, PreviousWith, RootWithout, Aside, Kept

\* What the error path removes has a backup, or was never there.
LEMMA FailsPlacingKeeps ==
  ASSUME NEW c \in Component, NEW new, FailsPlacing(c, new), NEW n \in Name, Kept(n)
  PROVE  Kept(n)'
<1> DEFINE backup == PreviousWith(c, Aside(c, new, All(c)))
<1> DEFINE back == {m \in First(c, All(c)) : backup[m] # 0}
<1>1. /\ root'[n] = IF n \in back THEN backup[n] ELSE RootWithout(Aside(c, new, All(c)))[n]
      /\ previous'[n] = IF n \in back THEN 0 ELSE backup[n]
  BY DEF FailsPlacing
<1>2. CASE n \in back
  BY <1>1, <1>2 DEF Kept
<1>3. CASE n \notin back
  <2>1. backup[n] = IF n \in Aside(c, new, All(c)) THEN root[n] ELSE previous[n]
    BY DEF PreviousWith
  <2>2. n \notin Aside(c, new, All(c))
    BY <1>3, <2>1 DEF Aside
  <2> QED
    BY <1>1, <1>3, <2>1, <2>2 DEF RootWithout, Kept
<1> QED
  BY <1>2, <1>3

\* The steps an install at this stage can take; the others leave the files alone or are not enabled.
LEMMA ExtractingKeeps ==
  ASSUME JobNeedsProcess, [UpdateNext]_updateVars, AtStage("extracting"), NEW n \in Name, Kept(n)
  PROVE  Kept(n)'
<1>1. updateJob # NoJob /\ running # 0
  BY DEF JobNeedsProcess, AtStage, NoJob
<1>2. ASSUME NEW c \in Component, SwapIn(c) PROVE Kept(n)'
  BY <1>2, SwapKeeps DEF SwapIn
<1>3. ASSUME NEW c \in Component, SwapFails(c) PROVE Kept(n)'
  BY <1>3, StopsAsideKeeps, FailsPlacingKeeps DEF SwapFails
<1>4. ASSUME NEW c \in Component, CrashInSwap(c) PROVE Kept(n)'
  BY <1>4, StopsAsideKeeps, StopsPlacingKeeps DEF CrashInSwap
<1>5. ASSUME NEW c \in Component,
             StartInstall(c) \/ Rollback(c) \/ RollbackFails(c)
      PROVE  FALSE
  BY <1>1, <1>5 DEF StartInstall, Rollback, RollbackFails, CanRollBack
<1>6. CASE CancelInstall \/ StageEnds \/ Crash
  BY <1>6 DEF CancelInstall, StageEnds, Crash, files, Kept
<1>7. CASE Downloaded \/ Verified \/ Checked
  BY <1>7 DEF Downloaded, Verified, Checked, GoTo, files, Kept
<1>8. CASE ExtractedForScript \/ Exit
  BY <1>8 DEF ExtractedForScript, Exit, AtStage
<1>9. CASE Boot
  BY <1>1, <1>9 DEF Boot
<1>10. CASE UNCHANGED updateVars
  BY <1>10 DEF updateVars, files, Kept
<1> QED
  BY <1>2, <1>3, <1>4, <1>5, <1>6, <1>7, <1>8, <1>9, <1>10 DEF UpdateNext

LEMMA CancelledKeeps ==
  ASSUME JobNeedsProcess, [UpdateNext]_updateVars, aborted, updateJob.state \in Cancellable
  PROVE  UNCHANGED <<root, previous>>
<1>1. updateJob # NoJob /\ running # 0
  BY DEF JobNeedsProcess, Cancellable, NoJob
<1>2. ASSUME NEW c \in Component, SwapIn(c) \/ SwapFails(c) \/ CrashInSwap(c) PROVE FALSE
  BY <1>2 DEF SwapIn, SwapFails, CrashInSwap, Extracted
<1>3. ASSUME NEW c \in Component,
             StartInstall(c) \/ Rollback(c) \/ RollbackFails(c)
      PROVE  FALSE
  BY <1>1, <1>3 DEF StartInstall, Rollback, RollbackFails, CanRollBack
<1>4. CASE CancelInstall \/ StageEnds \/ Crash
  BY <1>4 DEF CancelInstall, StageEnds, Crash, files
<1>5. CASE Downloaded \/ Verified \/ Checked
  BY <1>5 DEF Downloaded, Verified, Checked, GoTo, files
<1>6. CASE ExtractedForScript \/ Exit
  BY <1>6 DEF ExtractedForScript, Exit, AtStage, Cancellable
<1>7. CASE Boot
  BY <1>1, <1>7 DEF Boot
<1>8. CASE UNCHANGED updateVars
  BY <1>8 DEF updateVars, files
<1> QED
  BY <1>2, <1>3, <1>4, <1>5, <1>6, <1>7, <1>8 DEF UpdateNext
-----------------------------------------------------------------------------
\* No failure or crash in the renames of a swap, after any earlier ones, takes a file from both the
\* install root and the backup (update-swap.utils.ts:32-70, 77-89).
THEOREM SwapKeepsFiles == UpdateSpec => SwapLosesNothing
<1>1. JobNeedsProcess /\ [UpdateNext]_updateVars
      => [AtStage("extracting") => \A n \in Name : Kept(n) => Kept(n)']_updateVars
  BY ExtractingKeeps
<1> QED
  BY <1>1, JobNeedsProcessHolds, PTL DEF UpdateSpec, SwapLosesNothing

\* From the request to cancel to the end of the install no file is moved, whichever stage it meets
\* (actions.service.ts:76-79, apply.service.ts:30, 46, 60).
THEOREM CancelKeepsFiles == UpdateSpec => CancelledReplacesNothing
<1>1. JobNeedsProcess /\ [UpdateNext]_updateVars
      => [aborted /\ updateJob.state \in Cancellable => UNCHANGED <<root, previous>>]_updateVars
  BY CancelledKeeps
<1> QED
  BY <1>1, JobNeedsProcessHolds, PTL DEF UpdateSpec, CancelledReplacesNothing
-----------------------------------------------------------------------------
(* The types of the update *)

UpdateStages == Cancellable \cup {"swapping", "restarting"}
UpdateJobs == {NoJob} \cup [target : Component, state : UpdateStages]

\* UpdateTypeOK with a conjunct for each variable.
UpdateTyped ==
    /\ root \in [Name -> Version] /\ previous \in [Name -> Version]
    /\ staged \in [Name -> Version] /\ discard \in [Name -> Version]
    /\ marker \in [Component -> Version]
    /\ updateJob \in UpdateJobs
    /\ aborted \in BOOLEAN /\ windows \in BOOLEAN
    /\ running \in Version
    /\ updateMishaps \in 0..UpdateMishaps

LEMMA NamesTyped ==
  /\ Nothing \in [Name -> Version] /\ MaxVersion \in Version /\ 0 \in Version
  /\ \A c \in Component : NamesOf[c][1] \in Name /\ Release(c) \in [Name -> Version]
<1>1. MaxVersion \in Version /\ 0 \in Version
  BY UpdateAssumption DEF Version
<1>2. \A c \in Component : NamesOf[c][1] \in Name
  BY DEF Component, NamesOf, Name
<1>3. QED
  BY <1>1, <1>2 DEF Nothing, Release

\* Whatever has become of a swap, what is in a directory is a release or nothing.
LEMMA SwapTyped ==
  ASSUME UpdateTyped, NEW c \in Component,
         \/ Swap(c, Release(c)) \/ StopsAside(c, Release(c))
         \/ StopsPlacing(c, Release(c)) \/ FailsPlacing(c, Release(c))
  PROVE  /\ root' \in [Name -> Version] /\ previous' \in [Name -> Version]
         /\ marker' \in [Component -> Version]
<1> DEFINE new == Release(c)
<1>1. \A n \in Name : new[n] \in Version
  BY NamesTyped
<1> HIDE DEF new
<1>2. \A n \in Name : root[n] \in Version /\ previous[n] \in Version
  BY DEF UpdateTyped
<1>3. \A A : RootWithout(A) \in [Name -> Version] /\ PreviousWith(c, A) \in [Name -> Version]
  BY <1>2, NamesTyped DEF RootWithout, PreviousWith
<1>4. \A k : Placed(c, new, k) \in [Name -> Version]
  <2>1. \A A : \A n \in Name : RootWithout(A)[n] \in Version
    BY <1>3
  <2>2. QED
    BY <1>1, <2>1 DEF Placed
<1>5. Marked(c) => marker' \in [Component -> Version]
  BY <1>2, NamesTyped DEF Marked, UpdateTyped
<1>6. CASE Swap(c, new)
  BY <1>3, <1>4, <1>5, <1>6 DEF Swap
<1>7. CASE StopsAside(c, new)
  BY <1>3, <1>7 DEF StopsAside, UpdateTyped
<1>8. CASE StopsPlacing(c, new)
  BY <1>3, <1>4, <1>5, <1>8 DEF StopsPlacing
<1>9. CASE FailsPlacing(c, new)
  <2>1. \A A : \A n \in Name : RootWithout(A)[n] \in Version /\ PreviousWith(c, A)[n] \in Version
    BY <1>3
  <2>2. QED
    BY <1>5, <1>9, <2>1, NamesTyped DEF FailsPlacing
<1>10. QED
  BY <1>6, <1>7, <1>8, <1>9 DEF new

LEMMA SwapBackTyped ==
  ASSUME UpdateTyped, NEW N, NEW H, SwapBack(N, H)
  PROVE  root' \in [Name -> Version] /\ discard' \in [Name -> Version]
<1>1. \A n \in Name : root[n] \in Version /\ previous[n] \in Version /\ discard[n] \in Version
  BY DEF UpdateTyped
<1>2. QED
  BY <1>1, NamesTyped DEF SwapBack

\* A stage that is entered from another is one of a job.
LEMMA StageTyped ==
  ASSUME UpdateTyped, NEW from \in UpdateStages, AtStage(from), NEW to \in UpdateStages
  PROVE  [updateJob EXCEPT !.state = to] \in UpdateJobs
<1>1. "none" \notin UpdateStages
  BY DEF UpdateStages, Cancellable
<1>2. updateJob \in [target : Component, state : UpdateStages]
  BY <1>1 DEF UpdateTyped, UpdateJobs, AtStage, NoJob
<1>3. QED
  BY <1>2 DEF UpdateJobs

LEMMA UpdateTypeStep == UpdateTyped /\ [UpdateNext]_updateVars => UpdateTyped'
<1> SUFFICES ASSUME UpdateTyped, [UpdateNext]_updateVars PROVE UpdateTyped'
  OBVIOUS
<1> USE DEF files
<1>1. UpdateMishap => updateMishaps' \in 0..UpdateMishaps
  BY UpdateAssumption DEF UpdateMishap, UpdateTyped
<1>2. NoJob \in UpdateJobs /\ Nothing \in [Name -> Version] /\ 0 \in Version
  BY NamesTyped DEF UpdateJobs
<1>3. ASSUME NEW c \in Component, StartInstall(c) PROVE UpdateTyped'
  BY <1>3 DEF StartInstall, UpdateTyped, UpdateJobs, UpdateStages, Cancellable
<1>4. ASSUME NEW c \in Component, SwapIn(c) PROVE UpdateTyped'
  <2>1. updateJob' \in UpdateJobs
    BY <1>2, <1>4, StageTyped DEF SwapIn, Extracted, UpdateStages, Cancellable
  <2>2. QED
    BY <1>4, <2>1, SwapTyped DEF SwapIn, UpdateTyped
<1>5. ASSUME NEW c \in Component, SwapFails(c) PROVE UpdateTyped'
  BY <1>1, <1>2, <1>5, SwapTyped DEF SwapFails, UpdateTyped
<1>6. ASSUME NEW c \in Component, CrashInSwap(c) PROVE UpdateTyped'
  <2>1. staged' \in [Name -> Version]
    BY <1>6, NamesTyped DEF CrashInSwap
  <2>2. QED
    BY <1>1, <1>2, <1>6, <2>1, SwapTyped DEF CrashInSwap, Down, UpdateTyped
<1>7. ASSUME NEW c \in Component, Rollback(c) PROVE UpdateTyped'
  <2>1. marker' \in [Component -> Version]
    BY <1>2, <1>7 DEF Rollback, UpdateTyped
  <2>2. previous' \in [Name -> Version]
    BY <1>2, <1>7 DEF Rollback, UpdateTyped
  <2>3. root' \in [Name -> Version] /\ discard' \in [Name -> Version]
    BY <1>7, SwapBackTyped DEF Rollback
  <2>4. updateJob' \in UpdateJobs
    BY <1>2, <1>7 DEF Rollback, UpdateJobs, UpdateStages
  <2>5. QED
    BY <1>7, <2>1, <2>2, <2>3, <2>4 DEF Rollback, UpdateTyped
<1>8. ASSUME NEW c \in Component, RollbackFails(c) PROVE UpdateTyped'
  <2>1. updateMishaps' \in 0..UpdateMishaps
    BY <1>1, <1>8 DEF RollbackFails, UpdateTyped
  <2>2. PICK k, H : StopsBack(c, k, H)
    BY <1>8 DEF RollbackFails
  <2>3. root' \in [Name -> Version] /\ discard' \in [Name -> Version]
    BY <2>2, SwapBackTyped DEF StopsBack
  <2>4. previous' \in [Name -> Version]
    BY <1>2, <2>2 DEF StopsBack, UpdateTyped
  <2>5. QED
    BY <1>8, <2>1, <2>2, <2>3, <2>4 DEF RollbackFails, StopsBack, UpdateTyped
<1>9. CASE CancelInstall \/ StageEnds \/ Crash
  BY <1>1, <1>2, <1>9 DEF CancelInstall, StageEnds, Crash, Down, UpdateTyped
<1>10. CASE Downloaded \/ Verified \/ Checked
  <2>1. updateJob' \in UpdateJobs
    BY <1>10, StageTyped DEF Downloaded, Verified, Checked, GoTo, UpdateStages, Cancellable
  <2>2. QED
    BY <1>10, <2>1 DEF Downloaded, Verified, Checked, GoTo, UpdateTyped
<1>11. CASE ExtractedForScript
  <2>1. updateJob' \in UpdateJobs
    BY <1>11, StageTyped DEF ExtractedForScript, UpdateStages
  <2>2. staged' \in [Name -> Version]
    BY <1>11, NamesTyped DEF ExtractedForScript, Component
  <2>3. QED
    BY <1>11, <2>1, <2>2 DEF ExtractedForScript, UpdateTyped
<1>12. CASE Exit
  <2>1. /\ root' \in [Name -> Version] /\ previous' \in [Name -> Version]
        /\ staged' \in [Name -> Version] /\ discard' \in [Name -> Version]
        /\ marker' \in [Component -> Version]
    BY <1>2, <1>12 DEF Exit, SwapScript, UpdateTyped
  <2>2. QED
    BY <1>2, <1>12, <2>1 DEF Exit, Down, UpdateTyped
<1>13. CASE Boot
  BY <1>2, <1>13 DEF Boot, UpdateTyped, Name
<1>14. CASE UNCHANGED updateVars
  BY <1>14 DEF updateVars, UpdateTyped
<1>15. QED
  BY <1>3, <1>4, <1>5, <1>6, <1>7, <1>8, <1>9, <1>10, <1>11, <1>12, <1>13, <1>14 DEF UpdateNext

\* Every directory holds releases there have been, at every point where a swap or a rollback can stop.
THEOREM UpdateTypeCorrect == UpdateSpec => []UpdateTypeOK
<1>1. UpdateInit => UpdateTyped
  <2>1. 1 \in Version /\ 0 \in Version /\ 0 \in 0..UpdateMishaps
    BY UpdateAssumption DEF Version
  <2>2. QED
    BY <2>1, NamesTyped, UpdateAssumption DEF UpdateInit, UpdateTyped, UpdateJobs
<1>2. UpdateTyped => UpdateTypeOK
  BY DEF UpdateTyped, UpdateTypeOK, UpdateJobs, UpdateStages
<1>3. QED
  BY <1>1, <1>2, UpdateTypeStep, PTL DEF UpdateSpec
-----------------------------------------------------------------------------
(* Where the bundled ffmpeg goes *)

LEMMA SwapKeepsBin ==
  ASSUME NEW c \in Component, root["bin"] # 0,
         \/ Swap(c, Release(c)) \/ StopsAside(c, Release(c))
         \/ StopsPlacing(c, Release(c)) \/ FailsPlacing(c, Release(c))
  PROVE  root'["bin"] # 0
<1> DEFINE new == Release(c)
<1>1. "bin" \in Name /\ new["bin"] = 0
  BY DEF Name, Release, Carried, Component
<1>2. \A k : "bin" \notin Aside(c, new, k)
  BY <1>1 DEF Aside
<1> HIDE DEF new
<1>3. \A k : RootWithout(Aside(c, new, k))["bin"] = root["bin"]
  BY <1>1, <1>2 DEF RootWithout
<1>4. \A k : Placed(c, new, k)["bin"] = root["bin"]
  BY <1>1, <1>3 DEF Placed
<1>5. CASE Swap(c, new)
  BY <1>4, <1>5 DEF Swap
<1>6. CASE StopsAside(c, new)
  BY <1>3, <1>6 DEF StopsAside
<1>7. CASE StopsPlacing(c, new)
  BY <1>4, <1>7 DEF StopsPlacing
<1>8. CASE FailsPlacing(c, new)
  <2> DEFINE backup == PreviousWith(c, Aside(c, new, All(c)))
             back   == {n \in First(c, All(c)) : backup[n] # 0}
  <2>1. root'["bin"] = IF "bin" \in back THEN backup["bin"]
                       ELSE RootWithout(Aside(c, new, All(c)))["bin"]
    BY <1>1, <1>8 DEF FailsPlacing
  <2>. QED
    BY <1>3, <2>1
<1>. QED
  BY <1>5, <1>6, <1>7, <1>8 DEF new

LEMMA BinStep ==
  ASSUME [UpdateNext]_updateVars, root["bin"] # 0, root'["bin"] = 0
  PROVE  (windows /\ Exit) \/ Rollback("server") \/ RollbackFails("server")
<1>1. "bin" \in Name /\ First("web", All("web")) = {"web"}
  BY DEF Name, First, All, NamesOf
<1>2. ASSUME NEW c \in Component, SwapIn(c) \/ SwapFails(c) \/ CrashInSwap(c) PROVE FALSE
  BY <1>2, SwapKeepsBin DEF SwapIn, SwapFails, CrashInSwap
<1>3. ASSUME NEW c \in Component, StartInstall(c) PROVE FALSE
  BY <1>3 DEF StartInstall, files
<1>4. CASE Rollback("web")
  BY <1>1, <1>4 DEF Rollback, SwapBack
<1>5. CASE RollbackFails("web")
  <2>1. PICK k \in 0..(All("web") - 1) :
            \E H \in {{}, {NamesOf["web"][k + 1]}} : StopsBack("web", k, H)
    BY <1>5 DEF RollbackFails
  <2>2. k = 0 /\ NamesOf["web"][k + 1] = "web" /\ First("web", k) = {}
    BY <2>1 DEF All, NamesOf, First
  <2>. QED
    BY <1>1, <2>1, <2>2 DEF StopsBack, SwapBack
<1>6. CASE CancelInstall \/ Downloaded \/ Verified \/ Checked \/ ExtractedForScript \/ StageEnds
           \/ Crash \/ Boot \/ UNCHANGED updateVars
  BY <1>6 DEF CancelInstall, Downloaded, Verified, Checked, GoTo, ExtractedForScript, StageEnds,
     Crash, Boot, updateVars, files
<1>7. CASE Exit
  BY <1>7 DEF Exit, files
<1>. QED
  BY <1>2, <1>3, <1>4, <1>5, <1>6, <1>7 DEF UpdateNext, Component

\* The bundled ffmpeg leaves its place only by the script that swaps the files on Windows, or by
\* a rollback of the server: no other step of an update does it, whichever rename fails and
\* wherever the process ends (update-swap.utils.ts:16-18, 42; restart.scheduler.ts:57).
THEOREM BinMovesOnly ==
  UpdateSpec =>
    [][root["bin"] # 0 /\ root'["bin"] = 0 =>
         (windows /\ Exit) \/ Rollback("server") \/ RollbackFails("server")]_updateVars
<1>1. [UpdateNext]_updateVars =>
        [root["bin"] # 0 /\ root'["bin"] = 0 =>
           (windows /\ Exit) \/ Rollback("server") \/ RollbackFails("server")]_updateVars
  BY BinStep
<1>. QED
  BY <1>1, PTL DEF UpdateSpec
=============================================================================
