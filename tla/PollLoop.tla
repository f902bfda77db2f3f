------------------------------ MODULE PollLoop ------------------------------
(***************************************************************************)
(* When the queue is polled: the timers, the in-flight guard and the       *)
(* remembered wake-up of workers/core/worker-polling.service.ts, and the   *)
(* watchdog that restarts a stalled loop (worker-watchdog.service.ts).     *)
(* What a poll claims is the subject of WorkerPool; here it looks at the   *)
(* workers with due jobs, one after the other, until the pool is full.     *)
(*                                                                         *)
(* Time is left to chance: an armed timer may fire, and the last poll may  *)
(* have become too long ago at any moment.                                 *)
(***************************************************************************)
EXTENDS Integers, FiniteSets

CONSTANTS
    Worker,
    Poll,           \* bound: polls in flight at once
    LoopMishaps     \* bound: hung and failed polls, stops of the loop

EscalateAfterStalls == 3

VARIABLES
    isRunning, isPolling, pollAgain,
    pollDebounceTimer, pollTimer,   \* whether they are armed
    polls,          \* the polls in flight
    hung,           \* polls whose query does not come back, for now
    stale,          \* lastPollAt is further back than the watchdog allows
    stalls,         \* consecutiveFailures, modulo EscalateAfterStalls
    due,            \* workers with due jobs
    full,           \* the pool has no free slot
    loopMishaps,
    signalled       \* history: work was announced that no poll has looked for since

loop == <<isRunning, isPolling, pollAgain, pollDebounceTimer, pollTimer>>
work == <<due, full, loopMishaps, signalled>>
loopVars == <<loop, polls, hung, stale, stalls, work>>

Idle == [phase |-> "idle", todo |-> {}, chained |-> FALSE]

PollState ==
    [ phase : {"idle", "listing", "claiming"},
      todo : SUBSET Worker,   \* workers it has still to claim for
      chained : BOOLEAN ]     \* the timer is armed again after it

LoopTypeOK ==
    /\ isRunning \in BOOLEAN /\ isPolling \in BOOLEAN /\ pollAgain \in BOOLEAN
    /\ pollDebounceTimer \in BOOLEAN /\ pollTimer \in BOOLEAN
    /\ polls \in [Poll -> PollState]
    /\ hung \subseteq Poll
    /\ stale \in BOOLEAN /\ full \in BOOLEAN /\ signalled \in BOOLEAN
    /\ stalls \in 0..(EscalateAfterStalls - 1)
    /\ due \subseteq Worker
    /\ loopMishaps \in Nat

LoopMishap == loopMishaps < LoopMishaps /\ loopMishaps' = loopMishaps + 1
-----------------------------------------------------------------------------
\* The timer that is armed when triggerPoll leaves it at "debounce".
Debounce(polling, debounce) == pollDebounceTimer' = (debounce \/ (isRunning /\ ~polling))

\* Faulty variant: a wake-up during a poll is left to the timer, which is not armed.
TriggerDropped(polling, again, debounce) ==
    /\ pollAgain' = again
    /\ Debounce(polling, debounce)

\* triggerPoll, with the in-flight guard, the remembered wake-up and the
\* timer as they are at the call.
Trigger(polling, again, debounce) ==
    /\ pollAgain' = (again \/ (isRunning /\ polling))
    /\ Debounce(polling, debounce)

Announced == Trigger(isPolling, pollAgain, pollDebounceTimer)

\* The end of a poll.  It clears the guard, whoever set it.
AfterPoll(debounce) ==
    /\ isPolling' = FALSE
    /\ IF pollAgain /\ isRunning
       THEN Trigger(FALSE, FALSE, debounce)
       ELSE /\ pollDebounceTimer' = debounce
            /\ UNCHANGED pollAgain

\* scheduleNextPoll, after a poll the timer began.
Rearm(chained, timer) == pollTimer' = (timer \/ (chained /\ isRunning))

\* poll() up to its first await, called by a timer: a poll is in flight already ...
InFlight(chained, timer, debounce) ==
    /\ isPolling
    /\ Rearm(chained, timer)
    /\ pollDebounceTimer' = debounce
    /\ UNCHANGED <<isPolling, pollAgain, polls, stale, signalled>>

\* ... or the pool is full ...
PoolFull(chained, timer, debounce) ==
    /\ ~isPolling /\ full
    /\ stale' = FALSE
    /\ signalled' = FALSE
    /\ AfterPoll(debounce)
    /\ Rearm(chained, timer)
    /\ UNCHANGED polls

\* ... or the workers with due jobs are asked for.
BeginListing(chained, timer, debounce) ==
    /\ ~isPolling /\ ~full
    /\ stale' = FALSE
    /\ isPolling' = TRUE
    /\ \E p \in Poll :
          /\ polls[p] = Idle
          /\ polls' = [polls EXCEPT ![p] = [Idle EXCEPT !.phase = "listing",
                                                        !.chained = chained]]
    /\ pollTimer' = timer
    /\ pollDebounceTimer' = debounce
    /\ UNCHANGED <<pollAgain, signalled>>

Begin(chained, timer, debounce) ==
    \/ InFlight(chained, timer, debounce)
    \/ PoolFull(chained, timer, debounce)
    \/ BeginListing(chained, timer, debounce)

PollTimerFires ==
    /\ pollTimer
    /\ Begin(TRUE, FALSE, pollDebounceTimer)
    /\ UNCHANGED <<isRunning, hung, stalls, due, full, loopMishaps>>

DebounceFires ==
    /\ pollDebounceTimer
    /\ Begin(FALSE, pollTimer, FALSE)
    /\ UNCHANGED <<isRunning, hung, stalls, due, full, loopMishaps>>

\* The poll goes on to the next worker of its list, or is over.
GoOn(p, todo) ==
    IF todo = {}
    THEN /\ polls' = [polls EXCEPT ![p] = Idle]
         /\ AfterPoll(pollDebounceTimer)
         /\ Rearm(polls[p].chained, pollTimer)
    ELSE /\ polls' = [polls EXCEPT ![p].phase = "claiming", ![p].todo = todo]
         /\ UNCHANGED <<isPolling, pollAgain, pollDebounceTimer, pollTimer>>

List(p) ==
    /\ polls[p].phase = "listing" /\ p \notin hung
    /\ GoOn(p, due)
    /\ signalled' = FALSE
    /\ UNCHANGED <<isRunning, hung, stale, stalls, due, full, loopMishaps>>

\* The jobs of a worker are claimed, as many as there are slots.
ClaimForWorkers(p) ==
    /\ polls[p].phase = "claiming" /\ p \notin hung
    /\ \E w \in polls[p].todo :
          \/ /\ ~full
             /\ due' = due \ {w}
             /\ full' \in BOOLEAN
             /\ GoOn(p, IF full' THEN {} ELSE polls[p].todo \ {w})
          \/ /\ full' = TRUE
             /\ GoOn(p, {})
             /\ UNCHANGED due
    /\ UNCHANGED <<isRunning, hung, stale, stalls, loopMishaps, signalled>>

\* A query fails; the work it was to find stays due until a later poll.
Fails(p) ==
    /\ LoopMishap
    /\ polls[p].phase # "idle" /\ p \notin hung
    /\ GoOn(p, {})
    /\ signalled' = FALSE
    /\ UNCHANGED <<isRunning, hung, stale, stalls, due, full>>

Hangs(p) ==
    /\ LoopMishap
    /\ polls[p].phase # "idle" /\ p \notin hung
    /\ hung' = hung \cup {p}
    /\ UNCHANGED <<loop, polls, stale, stalls, due, full, signalled>>

ComesBack(p) ==
    /\ p \in hung
    /\ hung' = hung \ {p}
    /\ UNCHANGED <<loop, polls, stale, stalls, work>>
-----------------------------------------------------------------------------
\* The queue's onEnqueue.
OnEnqueue(w) ==
    /\ due' = due \cup {w}
    /\ signalled' = isRunning
    /\ Announced
    /\ UNCHANGED <<isRunning, isPolling, pollTimer, polls, hung, stale, stalls, full, loopMishaps>>

\* A retry's delay has passed: nobody announces it.
BecomesDue(w) ==
    /\ w \notin due
    /\ due' = due \cup {w}
    /\ UNCHANGED <<loop, polls, hung, stale, stalls, full, loopMishaps, signalled>>

\* The pool's onSlotFreed.
SlotFreed ==
    /\ full
    /\ full' = FALSE
    /\ signalled' = isRunning
    /\ Announced
    /\ UNCHANGED <<isRunning, isPolling, pollTimer, polls, hung, stale, stalls, due, loopMishaps>>

Start ==
    /\ ~isRunning
    /\ isRunning' = TRUE
    /\ pollTimer' = TRUE
    /\ signalled' = TRUE
    /\ pollAgain' = (pollAgain \/ isPolling)
    /\ pollDebounceTimer' = ~isPolling
    /\ UNCHANGED <<isPolling, polls, hung, stale, stalls, due, full, loopMishaps>>

\* The polls in flight go on.
Stop ==
    /\ LoopMishap
    /\ isRunning
    /\ isRunning' = FALSE
    /\ pollTimer' = FALSE
    /\ pollDebounceTimer' = FALSE
    /\ signalled' = FALSE
    /\ UNCHANGED <<isPolling, pollAgain, polls, hung, stale, stalls, due, full>>
-----------------------------------------------------------------------------
(* The watchdog *)

GoesStale ==
    /\ isRunning /\ ~stale
    /\ stale' = TRUE
    /\ UNCHANGED <<loop, polls, hung, stalls, work>>

\* Faulty variant: the guard of the poll that hangs is left set.
RecoverKeepingGuard == Announced /\ UNCHANGED isPolling

\* recoverFromStall: the poll in flight is taken for dead.
Recover ==
    /\ isPolling' = FALSE
    /\ Trigger(FALSE, FALSE, pollDebounceTimer)

\* checkHealth.
CheckHealth ==
    /\ isRunning
    /\ IF stale
       THEN /\ stalls' = (stalls + 1) % EscalateAfterStalls
            /\ IF stalls' = 0 THEN Recover ELSE Announced /\ UNCHANGED isPolling
       ELSE /\ stalls' = 0
            /\ UNCHANGED <<isPolling, pollAgain, pollDebounceTimer>>
    /\ UNCHANGED <<isRunning, pollTimer, polls, hung, stale, work>>
-----------------------------------------------------------------------------
LoopInit ==
    /\ isRunning = FALSE /\ isPolling = FALSE /\ pollAgain = FALSE
    /\ pollDebounceTimer = FALSE /\ pollTimer = FALSE
    /\ polls = [p \in Poll |-> Idle]
    /\ hung = {}
    /\ stale = FALSE
    /\ stalls = 0
    /\ due \in SUBSET Worker
    /\ full = FALSE
    /\ loopMishaps = 0
    /\ signalled = FALSE

LoopNext ==
    \/ Start \/ Stop
    \/ PollTimerFires \/ DebounceFires
    \/ \E p \in Poll : List(p) \/ ClaimForWorkers(p) \/ Fails(p) \/ Hangs(p) \/ ComesBack(p)
    \/ \E w \in Worker : OnEnqueue(w) \/ BecomesDue(w)
    \/ SlotFreed
    \/ GoesStale \/ CheckHealth

LoopSpec == LoopInit /\ [][LoopNext]_loopVars

\* Timers that are armed fire, the watchdog checks, and queries come back,
\* except those that hang.
LoopFairness ==
    /\ WF_loopVars(PollTimerFires) /\ WF_loopVars(DebounceFires)
    /\ \A p \in Poll : WF_loopVars(List(p) \/ ClaimForWorkers(p))
    /\ WF_loopVars(GoesStale) /\ WF_loopVars(CheckHealth)
-----------------------------------------------------------------------------
\* Work that was announced, and that no poll has looked for since, is about to be: the wake-up is not
\* lost to the in-flight guard, the debounce, a stop of the loop or its recovery
\* (worker-polling.service.ts:77-84, 100-106, 216-223).
WakeUpRemembered ==
    signalled =>
        \/ pollDebounceTimer
        \/ pollAgain /\ isPolling
        \/ \E p \in Poll : polls[p].phase = "listing"

\* Jobs that are due are looked at in the end, unless the pool is full or the loop stopped: whether they
\* were announced or not, whatever poll failed, and also while one hangs for ever
\* (worker-polling.service.ts:124-131, worker-watchdog.service.ts:83-113).
DueIsPolled ==
    \A w \in Worker : (w \in due /\ isRunning) ~> (w \notin due \/ full \/ ~isRunning)
=============================================================================
