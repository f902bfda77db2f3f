------------------------- MODULE StreamingSessions -------------------------
(***************************************************************************)
(* The runtime of the streaming sessions: the session entities of the      *)
(* SessionStore, the slots of the SessionReservationTracker and the ffmpeg *)
(* processes that ProcessManager starts and stops for them.                *)
(*                                                                         *)
(* Four kinds of asynchronous function work on one session, and every      *)
(* await of theirs is a place where the others run: the request that       *)
(* creates it (creation), the stream-init job and the restarts by a seek   *)
(* or a software fallback (phase), the reaper (reaper), and releases.  An  *)
(* action is what one of them does between two awaits.  Restarts of one    *)
(* session exclude each other by a mutex; nothing else is serialized.      *)
(*                                                                         *)
(* A session's id is a random UUID and is never used again.  A process is  *)
(* named by its session and a number, its handle; 0 is the null handle.    *)
(* Of time only this is kept: a deadline may pass at any moment.  The      *)
(* temporary directory, the playlist and the worker operation's counters   *)
(* are left out; of the operation only whether its job can still run.      *)
(***************************************************************************)
EXTENDS Naturals, FiniteSets

CONSTANTS
    Session,
    User,
    OwnerOf,            \* the user who opens the session
    MaxSessions,        \* stream.maxSessions
    MaxSessionsPerUser, \* stream.maxSessionsPerUser
    MaxSpawns           \* bound: how many processes are started for a session

ASSUME SessionAssumption == IsFiniteSet(Session)

ASSUME SessionLimitAssumption ==
    /\ OwnerOf \in [Session -> User]
    /\ MaxSessions \in Nat \ {0}
    /\ MaxSessionsPerUser \in Nat \ {0}
    /\ MaxSpawns \in [Session -> Nat]

RestartStart == {"seek", "fallback"}
Start == RestartStart \cup {"init"}   \* what starts a process

VARIABLES
    state,        \* SessionLifecycleState; "new" before, "gone" after the entity
    process,      \* session.process
    generation,   \* session.generation
    named,        \* the sessions whose operationId is set
    reserved,     \* SessionReservationTracker.reservedIds
    bound,        \* SessionReservationTracker.sessionUsers
    creation,     \* where the creating request is
    phase,        \* where each start is
    held,         \* the process a start stops or is about to attach
    seen,         \* the generation a seek captured
    reaper,       \* where the reaper's deadline check of a session is
    deadSeen,     \* sessions whose playlist request saw the process dead
    fellBack,     \* sessions that fell back to the software encoder
    running,      \* processes
    dying,        \* processes sent a signal and not yet gone
    spawned,      \* how many processes a session has had
    started,      \* onSessionStarted was called
    ended         \* onSessionEnded was called

store == <<state, process, generation>>
slots == <<reserved, bound>>
starts == <<phase, held, seen>>
processes == <<running, dying, spawned>>
fallback == <<deadSeen, fellBack>>
events == <<started, ended>>
sessionVars == <<store, named, slots, creation, starts, reaper, fallback, processes, events>>

State == {"new", "creating", "active", "ending", "gone"}
Phase == {"idle", "queued", "stopping", "probing", "spawning", "attaching",
          "killing", "recording", "failed", "done"}

SessionsTypeOK ==
    /\ state \in [Session -> State]
    /\ process \in [Session -> Nat]
    /\ generation \in [Session -> Nat]
    /\ named \subseteq Session
    /\ reserved \subseteq Session
    /\ bound \subseteq Session
    /\ creation \in [Session -> {"none", "preparing", "enqueuing", "enqueued", "done"}]
    /\ phase \in [Session -> [Start -> Phase]]
    /\ held \in [Session -> [Start -> Nat]]
    /\ seen \in [Session -> Nat]
    /\ reaper \in [Session -> {"idle", "unnamed", "reading", "releasing"}]
    /\ deadSeen \subseteq Session
    /\ fellBack \subseteq Session
    /\ running \subseteq Session \X (Nat \ {0})
    /\ dying \subseteq Session \X (Nat \ {0})
    /\ spawned \in [Session -> Nat]
    /\ started \subseteq Session
    /\ ended \subseteq Session

SessionsInit ==
    /\ state = [s \in Session |-> "new"]
    /\ process = [s \in Session |-> 0]
    /\ generation = [s \in Session |-> 0]
    /\ named = {}
    /\ reserved = {}
    /\ bound = {}
    /\ creation = [s \in Session |-> "none"]
    /\ phase = [s \in Session |-> [k \in Start |-> "idle"]]
    /\ held = [s \in Session |-> [k \in Start |-> 0]]
    /\ seen = [s \in Session |-> 0]
    /\ reaper = [s \in Session |-> "idle"]
    /\ deadSeen = {}
    /\ fellBack = {}
    /\ running = {}
    /\ dying = {}
    /\ spawned = [s \in Session |-> 0]
    /\ started = {}
    /\ ended = {}

-----------------------------------------------------------------------------
(* The store and the reservation tracker. *)

\* store.has
PresentSessions == {s \in Session : state[s] \in {"creating", "active", "ending"}}

\* store.isAttached; a dead process that is still attached counts.
Attached == {s \in Session : process[s] # 0}

\* reserve and canReserveStreamingSession, for a session that holds no slot yet.
CanReserve(s) ==
    LET held_by_user == {t \in bound : OwnerOf[t] = OwnerOf[s] /\ t \in Attached \cup reserved}
    IN  /\ Cardinality(Attached) + Cardinality(reserved \ Attached) < MaxSessions
        /\ Cardinality(held_by_user) < MaxSessionsPerUser

\* The user binding stays while the entity exists.
ReleaseReservation(s) ==
    /\ reserved' = reserved \ {s}
    /\ bound' = IF s \in PresentSessions THEN bound ELSE bound \ {s}

\* Faulty variant: the reservation is taken whether or not the entity exists.
ForceReserve(s) ==
    /\ reserved' = reserved \cup {s}
    /\ bound' = bound

\* forceReserve, behind prepareSession's check that the entity still exists.
ReserveAgain(s) ==
    /\ reserved' = IF s \in PresentSessions THEN reserved \cup {s} ELSE reserved
    /\ bound' = bound

\* releaseSessionReservation, then discardSession: an entity that never had a process goes.
ReleaseAndDiscard(s) ==
    LET discarded == state[s] = "creating" /\ process[s] = 0
    IN  /\ reserved' = reserved \ {s}
        /\ state' = [state EXCEPT ![s] = IF discarded THEN "gone" ELSE @]
        /\ bound' = IF discarded \/ s \notin PresentSessions THEN bound \ {s} ELSE bound

\* Faulty variant: an entity that is being released counts as live.
AnyEntity(s) == s \in PresentSessions

\* What claimRelease and attachProcess accept.
Releasable(s) == state[s] \in {"creating", "active"}

\* killFfmpegProcessGracefully: the process, if it still runs, exits some time later.
Signal(p) ==
    /\ running' = running \ {p}
    /\ dying' = dying \cup ({p} \cap running)

Kill(s) == Signal(<<s, process[s]>>) /\ spawned' = spawned

MoveTo(s, k, p) == phase' = [phase EXCEPT ![s][k] = p]

\* What a failed process start leaves to its caller.
AfterFailure(k) == IF k = "init" THEN "failed" ELSE "idle"

-----------------------------------------------------------------------------
(* The request that creates the session. *)

\* createSessionEntity: reserveSlot and registerSession.
Register(s) ==
    /\ state[s] = "new"
    /\ CanReserve(s)
    /\ state' = [state EXCEPT ![s] = "creating"]
    /\ reserved' = reserved \cup {s}
    /\ bound' = bound \cup {s}
    /\ creation' = [creation EXCEPT ![s] = "preparing"]
    /\ UNCHANGED <<process, generation, named, starts, reaper, fallback, processes, events>>

\* prepareSession of a session without a process.
Prepared(s) ==
    /\ creation[s] = "preparing"
    /\ ReserveAgain(s)
    /\ creation' = [creation EXCEPT ![s] = "enqueuing"]
    /\ UNCHANGED <<store, named, starts, reaper, fallback, processes, events>>

\* Faulty variant: the queued job no longer holds the slot.
EnqueueUnreserved(s) ==
    /\ creation[s] = "enqueuing"
    /\ creation' = [creation EXCEPT ![s] = "enqueued"]
    /\ MoveTo(s, "init", "queued")
    /\ ReleaseReservation(s)
    /\ UNCHANGED <<store, named, held, seen, reaper, fallback, processes, events>>

\* The stream-init job is in the queue.
EnqueueInit(s) ==
    /\ creation[s] = "enqueuing"
    /\ creation' = [creation EXCEPT ![s] = "enqueued"]
    /\ MoveTo(s, "init", "queued")
    /\ UNCHANGED <<store, named, slots, held, seen, reaper, fallback, processes, events>>

\* The operation or its job could not be created.
EnqueueFails(s) ==
    /\ creation[s] = "enqueuing"
    /\ creation' = [creation EXCEPT ![s] = "done"]
    /\ ReleaseAndDiscard(s)
    /\ UNCHANGED <<process, generation, named, starts, reaper, fallback, processes, events>>

\* setSessionOperation; it throws when the session was released meanwhile.
SetOperation(s) ==
    /\ creation[s] = "enqueued"
    /\ creation' = [creation EXCEPT ![s] = "done"]
    /\ \/ /\ s \in PresentSessions
          /\ named' = named \cup {s}
          /\ UNCHANGED <<slots, state>>
       \/ /\ s \notin PresentSessions
          /\ ReleaseAndDiscard(s)
          /\ named' = named
    /\ UNCHANGED <<process, generation, starts, reaper, fallback, processes, events>>

-----------------------------------------------------------------------------
(* The stream-init job. *)

\* The job is cancelled in the queue, or it sees its abort signal first: its handler does nothing.
InitDropped(s) ==
    /\ phase[s]["init"] = "queued"
    /\ MoveTo(s, "init", "done")
    /\ UNCHANGED <<store, named, slots, creation, held, seen, reaper, fallback, processes, events>>

\* StreamInitializer.initialize up to the spawn; no entity or no capacity fails it.
InitStart(s) ==
    /\ phase[s]["init"] = "queued"
    /\ \/ /\ s \in PresentSessions
          /\ Cardinality(Attached) < MaxSessions
          /\ MoveTo(s, "init", "spawning")
          /\ named' = named \cup {s}
          /\ UNCHANGED slots
       \/ /\ s \in PresentSessions
          /\ Cardinality(Attached) >= MaxSessions
          /\ MoveTo(s, "init", "failed")
          /\ ReleaseReservation(s)
          /\ named' = named
       \/ /\ s \notin PresentSessions
          /\ MoveTo(s, "init", "failed")
          /\ UNCHANGED <<named, slots>>
    /\ UNCHANGED <<store, creation, held, seen, reaper, fallback, processes, events>>

\* The operation's streaming slot is written; then the started event and the closing release,
\* which is the init's own but names the session only.
InitRecorded(s) ==
    /\ phase[s]["init"] = "recording"
    /\ MoveTo(s, "init", "done")
    /\ ReleaseReservation(s)
    /\ started' = IF generation[s] = 1 THEN started \cup {s} ELSE started
    /\ UNCHANGED <<store, named, creation, held, seen, reaper, fallback, processes, ended>>

\* The failed start's temporary directory is gone: releaseSessionReservation and discardSession.
InitClose(s) ==
    /\ phase[s]["init"] = "failed"
    /\ MoveTo(s, "init", "done")
    /\ ReleaseAndDiscard(s)
    /\ UNCHANGED <<process, generation, named, creation, held, seen, reaper, fallback,
                   processes, events>>

-----------------------------------------------------------------------------
(* Restarts: a seek, or the fallback to the software encoder. *)

\* Faulty variant: a fallback restart does not hold the mutex.
NoSeekRuns(s) == phase[s]["seek"] = "idle"

\* The mutex of SeekScheduler is free.
Unlocked(s) == \A k \in RestartStart : phase[s][k] = "idle"

\* stopRunningProcess: the handle is read, the process is sent its signal.
BeginStop(s, k) ==
    /\ Unlocked(s)
    /\ spawned[s] < MaxSpawns[s]
    /\ held' = [held EXCEPT ![s][k] = process[s]]
    /\ Kill(s)
    /\ MoveTo(s, k, "stopping")

\* doSeek.
SeekBegin(s) ==
    /\ state[s] = "active"
    /\ BeginStop(s, "seek")
    /\ seen' = [seen EXCEPT ![s] = generation[s]]
    /\ UNCHANGED <<store, named, slots, creation, reaper, fallback, events>>

\* waitForPlaylist finds no playlist and a process that exited; the retry may wait for the mutex.
PlaylistSeesDead(s) ==
    /\ s \in Attached
    /\ <<s, process[s]>> \notin running \cup dying
    /\ s \notin fellBack
    /\ deadSeen' = deadSeen \cup {s}
    /\ UNCHANGED <<store, named, slots, creation, starts, reaper, fellBack, processes, events>>

\* retryWithSoftwareEncoder; the decision it stores makes a second one ineligible.
FallbackBegin(s) ==
    /\ s \in deadSeen \ fellBack
    /\ BeginStop(s, "fallback")
    /\ deadSeen' = deadSeen \ {s}
    /\ fellBack' = fellBack \cup {s}
    /\ UNCHANGED <<store, named, slots, creation, seen, reaper, events>>

\* assertSeekStillValid
SeekValid(s) == state[s] = "active" /\ generation[s] = seen[s]

\* prepareSession after its await: exactly the stopped handle is detached.
RestartStopped(s, k) ==
    /\ phase[s][k] = "stopping"
    /\ process' = [process EXCEPT ![s] = IF @ = held[s][k] THEN 0 ELSE @]
    /\ held' = [held EXCEPT ![s][k] = 0]
    /\ ReserveAgain(s)
    /\ \/ /\ k = "seek"
          /\ MoveTo(s, k, IF SeekValid(s) THEN "probing" ELSE "idle")
       \/ /\ k = "fallback"
          /\ MoveTo(s, k, IF s \in PresentSessions THEN "spawning" ELSE "idle")
    /\ UNCHANGED <<state, generation, named, creation, seen, reaper, fallback, processes, events>>

\* The keyframe probe answered.
SeekProbed(s) ==
    /\ phase[s]["seek"] = "probing"
    /\ MoveTo(s, "seek", IF SeekValid(s) THEN "spawning" ELSE "idle")
    /\ UNCHANGED <<store, named, slots, creation, held, seen, reaper, fallback, processes, events>>

RestartRecorded(s, k) ==
    /\ phase[s][k] = "recording"
    /\ MoveTo(s, k, "idle")
    /\ UNCHANGED <<store, named, slots, creation, held, seen, reaper, fallback, processes, events>>

-----------------------------------------------------------------------------
(* ProcessManager.startSession, for every start. *)

\* The strategy starts ffmpeg.
Spawn(s, k) ==
    /\ phase[s][k] = "spawning"
    /\ spawned' = [spawned EXCEPT ![s] = @ + 1]
    /\ running' = running \cup {<<s, spawned[s] + 1>>}
    /\ held' = [held EXCEPT ![s][k] = spawned[s] + 1]
    /\ MoveTo(s, k, "attaching")
    /\ UNCHANGED <<store, named, slots, creation, seen, reaper, fallback, dying, events>>

\* The input file has disappeared, or the directory cannot be made: the manager's catch.
SpawnFails(s, k) ==
    /\ phase[s][k] = "spawning"
    /\ MoveTo(s, k, AfterFailure(k))
    /\ ReleaseReservation(s)
    /\ UNCHANGED <<store, named, creation, held, seen, reaper, fallback, processes, events>>

\* attachProcess and markStarted
Attach(s, k) ==
    /\ phase[s][k] = "attaching"
    /\ Releasable(s)
    /\ process' = [process EXCEPT ![s] = held[s][k]]
    /\ generation' = [generation EXCEPT ![s] = @ + 1]
    /\ state' = [state EXCEPT ![s] = "active"]
    /\ reserved' = reserved \ {s}
    /\ held' = [held EXCEPT ![s][k] = 0]
    /\ MoveTo(s, k, "recording")
    /\ UNCHANGED <<named, bound, creation, seen, reaper, fallback, processes, events>>

\* Faulty variant: the refused process is left running.
RefusedLeftAlone(s, k) == UNCHANGED <<running, dying>>

\* The catch of attachProcess.
KillRefused(s, k) == Signal(<<s, held[s][k]>>)

\* attachProcess throws: the session is being released or is gone.
AttachRefused(s, k) ==
    /\ phase[s][k] = "attaching"
    /\ ~Releasable(s)
    /\ KillRefused(s, k)
    /\ held' = [held EXCEPT ![s][k] = 0]
    /\ MoveTo(s, k, "killing")
    /\ UNCHANGED <<store, named, slots, creation, seen, reaper, fallback, spawned, events>>

\* The wait for the refused process is over, exited or not: the manager's catch.
RefusedStopped(s, k) ==
    /\ phase[s][k] = "killing"
    /\ MoveTo(s, k, AfterFailure(k))
    /\ ReleaseReservation(s)
    /\ UNCHANGED <<store, named, creation, held, seen, reaper, fallback, processes, events>>

\* A process exits: killed, at the end of its file, or by an error of its own.
Exit(p) ==
    /\ p \in running \cup dying
    /\ running' = running \ {p}
    /\ dying' = dying \ {p}
    /\ UNCHANGED <<store, named, slots, creation, starts, reaper, fallback, spawned, events>>

-----------------------------------------------------------------------------
(* Releases, and the reaper's reservation deadline. *)

\* releaseSession and the start of finalizeRelease: the entity ends and its process is killed.
ClaimRelease(s) ==
    /\ Releasable(s)
    /\ state' = [state EXCEPT ![s] = "ending"]
    /\ Kill(s)

\* By the client, an administrator, the inactivity timeout, or for another session of the title.
ReleaseSession(s) ==
    /\ ClaimRelease(s)
    /\ UNCHANGED <<process, generation, named, slots, creation, starts, reaper, fallback, events>>

\* Faulty variant: the release waits for no write.
NothingAwaited(s) == s \in Session

\* Its release of the streaming slot is a write, and waits behind the slot write of a start.
SlotWritten(s) == \A k \in Start : phase[s][k] # "recording"

\* Faulty variant: a reservation taken meanwhile is kept.
UnbindOnly(s) == reserved' = reserved /\ bound' = bound \ {s}

FreeSlot(s) == reserved' = reserved \ {s} /\ bound' = bound \ {s}

\* The rest of finalizeRelease; its wait for the process is bounded, the process may still be dying.
FinalizeRelease(s) ==
    /\ state[s] = "ending"
    /\ SlotWritten(s)
    /\ state' = [state EXCEPT ![s] = "gone"]
    /\ process' = [process EXCEPT ![s] = 0]
    /\ FreeSlot(s)
    /\ ended' = IF generation[s] > 0 THEN ended \cup {s} ELSE ended
    /\ UNCHANGED <<generation, named, creation, starts, reaper, fallback, processes, started>>

\* The tick finds a creating session past its deadline and takes its operation id, if it has one.
ReaperPick(s) ==
    /\ reaper[s] = "idle"
    /\ state[s] = "creating"
    /\ s \notin Attached
    /\ reaper' = [reaper EXCEPT ![s] = IF s \in named THEN "reading" ELSE "unnamed"]
    /\ UNCHANGED <<store, named, slots, creation, starts, fallback, processes, events>>

\* Faulty variant: a finished job counts too.
OperationKnown(s) == phase[s]["init"] # "idle"

\* findActiveOperations: the job is pending or running.
OperationActive(s) == phase[s]["init"] \notin {"idle", "done"}

\* The rows were read; a session whose operation is active is spared.
ReaperRead(s) ==
    /\ reaper[s] \in {"reading", "unnamed"}
    /\ LET spared == reaper[s] = "reading" /\ s \in PresentSessions /\ OperationActive(s)
       IN  reaper' = [reaper EXCEPT ![s] = IF spared THEN "idle" ELSE "releasing"]
    /\ UNCHANGED <<store, named, slots, creation, starts, fallback, processes, events>>

\* releaseSession without a condition: it is not asked again whether the session is still stuck.
ReaperRelease(s) ==
    /\ reaper[s] = "releasing"
    /\ reaper' = [reaper EXCEPT ![s] = "idle"]
    /\ ClaimRelease(s) \/ (~Releasable(s) /\ UNCHANGED <<state, processes>>)
    /\ UNCHANGED <<process, generation, named, slots, creation, starts, fallback, events>>

-----------------------------------------------------------------------------

Creation(s) ==
    Register(s) \/ Prepared(s) \/ EnqueueInit(s) \/ EnqueueFails(s) \/ SetOperation(s)

Starting(s, k) ==
    Spawn(s, k) \/ SpawnFails(s, k) \/ Attach(s, k) \/ AttachRefused(s, k) \/ RefusedStopped(s, k)

InitJob(s) == InitDropped(s) \/ InitStart(s) \/ InitRecorded(s) \/ InitClose(s)

Restarting(s, k) == RestartStopped(s, k) \/ RestartRecorded(s, k)

Reaping(s) == ReaperPick(s) \/ ReaperRead(s) \/ ReaperRelease(s)

SessionsNext ==
    \E s \in Session :
        \/ Creation(s)
        \/ InitJob(s)
        \/ SeekBegin(s) \/ SeekProbed(s)
        \/ PlaylistSeesDead(s) \/ FallbackBegin(s)
        \/ \E k \in RestartStart : Restarting(s, k)
        \/ \E k \in Start : Starting(s, k)
        \/ \E p \in running \cup dying : p[1] = s /\ Exit(p)
        \/ ReleaseSession(s) \/ FinalizeRelease(s)
        \/ Reaping(s)

\* Every await ends: the database answers, bounded waits time out, the job queue runs or drops the
\* job, the reaper ticks.  Clients and processes at work owe nothing; a killed process exits.
SessionsFairness ==
    \A s \in Session :
        /\ WF_sessionVars(Prepared(s) \/ EnqueueInit(s) \/ EnqueueFails(s) \/ SetOperation(s))
        /\ WF_sessionVars(InitJob(s))
        /\ WF_sessionVars(SeekProbed(s))
        /\ \A k \in RestartStart : WF_sessionVars(Restarting(s, k))
        /\ \A k \in Start : WF_sessionVars(Starting(s, k))
        /\ WF_sessionVars(\E p \in dying : p[1] = s /\ Exit(p))
        /\ WF_sessionVars(FinalizeRelease(s))
        /\ WF_sessionVars(Reaping(s))

SessionsSpec == SessionsInit /\ [][SessionsNext]_sessionVars

SessionsFairSpec == SessionsSpec /\ SessionsFairness

-----------------------------------------------------------------------------
(* Properties *)

\* A process at work is attached to its session, or a start of this session holds it and will attach
\* or kill it (process.manager.ts:69-82: no orphan ffmpeg survives a start that lost to a release).
NoOrphanProcess ==
    \A p \in running :
        \/ process[p[1]] = p[2]
        \/ \E k \in Start : phase[p[1]][k] = "attaching" /\ held[p[1]][k] = p[2]

\* Two processes at work never write into one session's directory (seek.scheduler.ts:97-102: a seek
\* and a fallback restart never both tear down and restart the session).
OneWriter == \A p, q \in running : p[1] = q[1] => p = q

\* Every reservation and every user binding belongs to an entity that a release or a discard will
\* still visit (streaming.manager.ts:237-239).
NoLeakedSlot == reserved \cup bound \subseteq PresentSessions

\* While the first process of a session is on its way the session holds its slot
\* (session-reservation.tracker.ts:4-8).
FirstStartHoldsSlot ==
    \A s \in Session :
        state[s] = "creating" /\ phase[s]["init"] \in {"queued", "spawning", "attaching"}
            => s \in reserved

\* A released session never comes back (session.store.ts:185-189).
ReleaseIsFinal ==
    [][\A s \in Session : /\ state[s] = "ending" => state'[s] \in {"ending", "gone"}
                          /\ state[s] = "gone" => state'[s] = "gone"]_sessionVars

\* A session is never reported as started once it was reported as ended.
NoStartAfterEnd == [][\A s \in started' \ started : s \notin ended]_sessionVars

\* Liveness: no session stays in creating (session.reaper.ts:117-141 and stream.initializer.ts:61-66).
CreatingEnds == \A s \in Session : state[s] = "creating" ~> state[s] # "creating"

\* Liveness: a release ends for good, with no process, slot or restart left behind.
Quiet(s) ==
    /\ state[s] = "gone"
    /\ \A p \in running \cup dying : p[1] # s
    /\ s \notin reserved
    /\ \A k \in Start : phase[s][k] \in {"idle", "done"}

ReleaseLeavesNothing == \A s \in Session : state[s] = "ending" ~> []Quiet(s)

-----------------------------------------------------------------------------
(* What the comments say, and the code does not keep. *)

\* session-reservation.tracker.ts:96-100: the slot that forceReserve takes is "guaranteed free".
VacatedSlotIsFree ==
    [][reserved' \ reserved # {} => Cardinality(Attached' \cup reserved') <= MaxSessions]_sessionVars
=============================================================================
