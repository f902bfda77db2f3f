----------------------- MODULE StreamingSessionsProofs -----------------------
(***************************************************************************)
(* Proofs about StreamingSessions.  All safety properties follow from two  *)
(* facts about each session: its starts take turns (TurnInv), and the      *)
(* handle in the entity and the handles the starts hold account for every  *)
(* process that runs (ProcessInv).                                         *)
(***************************************************************************)
EXTENDS StreamingSessions, FiniteSetTheorems, TLAPS

\* The init job starts the first process and only then there are restarts, one at a time.
TurnInv ==
    \A s \in Session :
        /\ generation[s] = 0 =>
            /\ state[s] # "active" /\ process[s] = 0 /\ s \notin deadSeen
            /\ \A k \in RestartStart : phase[s][k] = "idle"
        /\ state[s] \in {"new", "creating"} => generation[s] = 0
        /\ generation[s] > 0 => phase[s]["init"] \in {"recording", "done"}
        /\ phase[s]["init"] = "recording" => generation[s] > 0
        /\ state[s] = "new" => creation[s] = "none"
        /\ creation[s] \in {"none", "preparing", "enqueuing"} => phase[s]["init"] = "idle"
        /\ phase[s]["seek"] = "idle" \/ phase[s]["fallback"] = "idle"

\* A start is about to have a process of its own.
Empty(s, k) == phase[s][k] \in {"probing", "spawning", "attaching"}

\* No process is attached while a start makes one; a stop has killed what it is waiting for; a
\* release has killed the attached process.
ProcessInv ==
    \A s \in Session :
        /\ \A k \in Start : Empty(s, k) => process[s] = 0
        /\ \A k \in RestartStart : phase[s][k] = "stopping" =>
            /\ process[s] \in {0, held[s][k]}
            /\ \A p \in running : p[1] # s
        /\ state[s] = "ending" => <<s, process[s]>> \notin running

\* The slot is held from the registration until the first process is attached.
SlotInv ==
    \A s \in Session :
        state[s] = "creating" /\ creation[s] \in {"preparing", "enqueuing"} => s \in reserved

\* A session that ended is gone, and no start of it is going to report.
EndedInv ==
    \A s \in ended : state[s] = "gone" /\ \A k \in Start : phase[s][k] # "recording"

------------------------------------------------------------------------------
(* The theorems *)

\* A start moves alone.
LEMMA Moved ==
  ASSUME SessionsTypeOK, NEW s \in Session, NEW k \in Start, NEW w \in Phase, MoveTo(s, k, w)
  PROVE  /\ phase' \in [Session -> [Start -> Phase]]
         /\ \A t \in Session, j \in Start :
                phase'[t][j] = IF t = s /\ j = k THEN w ELSE phase[t][j]
  BY DEF SessionsTypeOK, MoveTo

\* So does the init job, and only its failure touches a slot.
LEMMA InitMoves ==
  ASSUME SessionsTypeOK, NEW s \in Session, InitStart(s)
  PROVE  \E w \in {"spawning", "failed"} :
            /\ \A t \in Session, j \in Start :
                  phase'[t][j] = IF t = s /\ j = "init" THEN w ELSE phase[t][j]
            /\ reserved \ {s} \subseteq reserved'
            /\ w = "failed" \/ reserved' = reserved
<1>1. PICK w \in {"spawning", "failed"} :
         /\ MoveTo(s, "init", w)
         /\ reserved \ {s} \subseteq reserved'
         /\ w = "failed" \/ reserved' = reserved
  BY DEF InitStart, ReleaseReservation, slots
<1>. QED
  BY <1>1, Moved DEF Start, Phase

\* A restart goes on or is over.
LEMMA RestartMoves ==
  ASSUME SessionsTypeOK, NEW s \in Session, NEW k \in RestartStart, RestartStopped(s, k)
  PROVE  \E w \in {"probing", "spawning", "idle"} :
            \A t \in Session, j \in Start :
                phase'[t][j] = IF t = s /\ j = k THEN w ELSE phase[t][j]
<1>1. PICK w \in {"probing", "spawning", "idle"} : MoveTo(s, k, w)
  BY DEF RestartStopped
<1>. QED
  BY <1>1, Moved DEF Start, RestartStart, Phase

LEMMA TypeStep ==
  ASSUME SessionsTypeOK, [SessionsNext]_sessionVars
  PROVE  SessionsTypeOK'
<1>2. ASSUME NEW s \in Session, Register(s)
      PROVE  SessionsTypeOK'
  BY <1>2 DEF SessionsTypeOK, Register, starts, processes, fallback, events, Start, RestartStart,
     Phase, State, PresentSessions
<1>3. ASSUME NEW s \in Session, Prepared(s)
      PROVE  SessionsTypeOK'
  BY <1>3 DEF SessionsTypeOK, Prepared, ReserveAgain, store, starts, processes, fallback, events,
     Start, RestartStart, Phase, State, PresentSessions
<1>4. ASSUME NEW s \in Session, EnqueueInit(s)
      PROVE  SessionsTypeOK'
  BY <1>4 DEF SessionsTypeOK, EnqueueInit, MoveTo, store, slots, processes, fallback, events, Start,
     RestartStart, Phase, State, PresentSessions
<1>5. ASSUME NEW s \in Session, EnqueueFails(s)
      PROVE  SessionsTypeOK'
  BY <1>5 DEF SessionsTypeOK, EnqueueFails, ReleaseAndDiscard, starts, processes, fallback,
     events, Start, RestartStart, Phase, State, PresentSessions
<1>6. ASSUME NEW s \in Session, SetOperation(s)
      PROVE  SessionsTypeOK'
  BY <1>6 DEF SessionsTypeOK, SetOperation, ReleaseAndDiscard, PresentSessions, slots, starts, processes,
     fallback, events, Start, RestartStart, Phase, State
<1>7. ASSUME NEW s \in Session, InitDropped(s)
      PROVE  SessionsTypeOK'
  BY <1>7 DEF SessionsTypeOK, InitDropped, MoveTo, store, slots, processes, fallback, events,
     Start, RestartStart, Phase, State, PresentSessions
<1>8. ASSUME NEW s \in Session, InitStart(s)
      PROVE  SessionsTypeOK'
  <2>1. phase' \in [Session -> [Start -> Phase]]
    BY <1>8, Moved DEF InitStart, Start, Phase
  <2>. QED
    BY <1>8, <2>1 DEF SessionsTypeOK, InitStart, ReleaseReservation, store, slots, starts, processes,
       fallback, events, PresentSessions
<1>9. ASSUME NEW s \in Session, InitRecorded(s)
      PROVE  SessionsTypeOK'
  BY <1>9 DEF SessionsTypeOK, InitRecorded, MoveTo, ReleaseReservation, store, processes,
     fallback, Start, RestartStart, Phase, State, PresentSessions
<1>10. ASSUME NEW s \in Session, InitClose(s)
      PROVE  SessionsTypeOK'
  BY <1>10 DEF SessionsTypeOK, InitClose, MoveTo, ReleaseAndDiscard, processes, fallback, events,
     Start, RestartStart, Phase, State, PresentSessions
<1>11. ASSUME NEW s \in Session, SeekBegin(s)
      PROVE  SessionsTypeOK'
  BY <1>11 DEF SessionsTypeOK, SeekBegin, BeginStop, Kill, Signal, MoveTo, store, slots, fallback,
     events, Start, RestartStart, Phase, State, PresentSessions
<1>12. ASSUME NEW s \in Session, SeekProbed(s)
      PROVE  SessionsTypeOK'
  BY <1>12 DEF SessionsTypeOK, SeekProbed, MoveTo, store, slots, processes, fallback, events,
     Start, RestartStart, Phase, State, PresentSessions
<1>13. ASSUME NEW s \in Session, PlaylistSeesDead(s)
      PROVE  SessionsTypeOK'
  BY <1>13 DEF SessionsTypeOK, PlaylistSeesDead, store, slots, starts, processes, events, Start,
     RestartStart, Phase, State, PresentSessions
<1>14. ASSUME NEW s \in Session, FallbackBegin(s)
      PROVE  SessionsTypeOK'
  BY <1>14 DEF SessionsTypeOK, FallbackBegin, BeginStop, Kill, Signal, MoveTo, store, slots,
     fallback, events, Start, RestartStart, Phase, State, PresentSessions
<1>15. ASSUME NEW s \in Session, ReleaseSession(s)
      PROVE  SessionsTypeOK'
  BY <1>15 DEF SessionsTypeOK, ReleaseSession, ClaimRelease, Kill, Signal, slots, starts, fallback,
     events, Start, RestartStart, Phase, State, PresentSessions
<1>16. ASSUME NEW s \in Session, FinalizeRelease(s)
      PROVE  SessionsTypeOK'
  BY <1>16 DEF SessionsTypeOK, FinalizeRelease, FreeSlot, starts, processes, fallback, Start,
     RestartStart, Phase, State, PresentSessions
<1>17. ASSUME NEW s \in Session, ReaperPick(s)
      PROVE  SessionsTypeOK'
  BY <1>17 DEF SessionsTypeOK, ReaperPick, store, slots, starts, processes, fallback, events,
     Start, RestartStart, Phase, State, PresentSessions
<1>18. ASSUME NEW s \in Session, ReaperRead(s)
      PROVE  SessionsTypeOK'
  BY <1>18 DEF SessionsTypeOK, ReaperRead, store, slots, starts, processes, fallback, events,
     Start, RestartStart, Phase, State, PresentSessions
<1>19. ASSUME NEW s \in Session, ReaperRelease(s)
      PROVE  SessionsTypeOK'
  BY <1>19 DEF SessionsTypeOK, ReaperRelease, ClaimRelease, Kill, Signal, slots, starts, processes,
     fallback, events, Start, RestartStart, Phase, State, PresentSessions
<1>20. ASSUME NEW s \in Session, NEW k \in RestartStart, RestartStopped(s, k)
      PROVE  SessionsTypeOK'
  <2>1. phase' \in [Session -> [Start -> Phase]]
    BY <1>20, Moved DEF RestartStopped, Start, RestartStart, Phase
  <2>. QED
    BY <1>20, <2>1 DEF SessionsTypeOK, RestartStopped, ReserveAgain, store, slots, starts, processes,
       fallback, events, Start, RestartStart
<1>21. ASSUME NEW s \in Session, NEW k \in RestartStart, RestartRecorded(s, k)
      PROVE  SessionsTypeOK'
  BY <1>21 DEF SessionsTypeOK, RestartRecorded, MoveTo, store, slots, processes, fallback, events,
     Start, RestartStart, Phase, State, PresentSessions
<1>22. ASSUME NEW s \in Session, NEW k \in Start, Spawn(s, k)
      PROVE  SessionsTypeOK'
  BY <1>22 DEF SessionsTypeOK, Spawn, MoveTo, store, slots, fallback, events, Start, RestartStart,
     Phase, State, PresentSessions
<1>23. ASSUME NEW s \in Session, NEW k \in Start, SpawnFails(s, k)
      PROVE  SessionsTypeOK'
  BY <1>23 DEF SessionsTypeOK, SpawnFails, MoveTo, AfterFailure, ReleaseReservation, store,
     processes, fallback, events, Start, RestartStart, Phase, State, PresentSessions
<1>24. ASSUME NEW s \in Session, NEW k \in Start, Attach(s, k)
      PROVE  SessionsTypeOK'
  BY <1>24 DEF SessionsTypeOK, Attach, MoveTo, processes, fallback, events, Start, RestartStart, Phase,
     State, PresentSessions
<1>25. ASSUME NEW s \in Session, NEW k \in Start, AttachRefused(s, k)
      PROVE  SessionsTypeOK'
  BY <1>25 DEF SessionsTypeOK, AttachRefused, KillRefused, Signal, MoveTo, store, slots, fallback,
     events, Start, RestartStart, Phase, State, PresentSessions
<1>26. ASSUME NEW s \in Session, NEW k \in Start, RefusedStopped(s, k)
      PROVE  SessionsTypeOK'
  BY <1>26 DEF SessionsTypeOK, RefusedStopped, MoveTo, AfterFailure, ReleaseReservation, store,
     processes, fallback, events, Start, RestartStart, Phase, State, PresentSessions
<1>27. ASSUME NEW p \in running \cup dying, Exit(p)
      PROVE  SessionsTypeOK'
  BY <1>27 DEF SessionsTypeOK, Exit, store, slots, starts, fallback, events, Start, RestartStart,
     Phase, State, PresentSessions
<1>28. CASE UNCHANGED sessionVars
  BY <1>28 DEF SessionsTypeOK, sessionVars, store, slots, starts, processes, fallback, events
<1>. QED
  BY <1>2, <1>3, <1>4, <1>5, <1>6, <1>7, <1>8, <1>9, <1>10, <1>11, <1>12, <1>13, <1>14,
     <1>15, <1>16, <1>17, <1>18, <1>19, <1>20, <1>21, <1>22, <1>23, <1>24, <1>25, <1>26,
     <1>27, <1>28
  DEF SessionsNext, Creation, InitJob, Starting, Restarting, Reaping

\* Every reachable state is well typed, for any sessions, users and limits.
THEOREM TypeCorrect == SessionsSpec => []SessionsTypeOK
<1>1. SessionsInit => SessionsTypeOK
  BY DEF SessionsInit, SessionsTypeOK, State, Phase, Start, RestartStart
<1>2. SessionsTypeOK /\ [SessionsNext]_sessionVars => SessionsTypeOK'
  BY TypeStep
<1>. QED
  BY <1>1, <1>2, PTL DEF SessionsSpec

\* The starts of a session take turns, whatever else happens to it.
LEMMA TurnStep ==
  ASSUME SessionsTypeOK, TurnInv, [SessionsNext]_sessionVars
  PROVE  TurnInv'
<1>1. ASSUME NEW s \in Session, Register(s)
      PROVE  TurnInv'
  BY <1>1 DEF SessionsTypeOK, TurnInv, Start, RestartStart, Register, starts, fallback
<1>2. ASSUME NEW s \in Session, Prepared(s)
      PROVE  TurnInv'
  BY <1>2 DEF SessionsTypeOK, TurnInv, Start, RestartStart, Prepared, store, starts, fallback
<1>3. ASSUME NEW s \in Session, EnqueueInit(s)
      PROVE  TurnInv'
  BY <1>3 DEF SessionsTypeOK, TurnInv, Start, RestartStart, EnqueueInit, MoveTo, store, fallback
<1>4. ASSUME NEW s \in Session, EnqueueFails(s)
      PROVE  TurnInv'
  BY <1>4 DEF SessionsTypeOK, TurnInv, Start, RestartStart, EnqueueFails, ReleaseAndDiscard, starts,
     fallback
<1>5. ASSUME NEW s \in Session, SetOperation(s)
      PROVE  TurnInv'
  BY <1>5 DEF SessionsTypeOK, TurnInv, Start, RestartStart, SetOperation, ReleaseAndDiscard, PresentSessions,
     starts, fallback
<1>6. ASSUME NEW s \in Session, InitDropped(s)
      PROVE  TurnInv'
  BY <1>6 DEF SessionsTypeOK, TurnInv, Start, RestartStart, InitDropped, MoveTo, store, fallback
<1>7. ASSUME NEW s \in Session, InitStart(s)
      PROVE  TurnInv'
  <2>1. PICK w \in {"spawning", "failed"} :
            /\ \A t \in Session, j \in Start :
                  phase'[t][j] = IF t = s /\ j = "init" THEN w ELSE phase[t][j]
            /\ reserved \ {s} \subseteq reserved'
            /\ w = "failed" \/ reserved' = reserved
    BY <1>7, InitMoves
  <2>. QED
    BY <1>7, <2>1 DEF SessionsTypeOK, TurnInv, Start, RestartStart, InitStart, store, fallback
<1>8. ASSUME NEW s \in Session, InitRecorded(s)
      PROVE  TurnInv'
  BY <1>8 DEF SessionsTypeOK, TurnInv, Start, RestartStart, InitRecorded, MoveTo, store, fallback
<1>9. ASSUME NEW s \in Session, InitClose(s)
      PROVE  TurnInv'
  BY <1>9 DEF SessionsTypeOK, TurnInv, Start, RestartStart, InitClose, MoveTo, ReleaseAndDiscard,
     fallback
<1>10. ASSUME NEW s \in Session, SeekBegin(s)
      PROVE  TurnInv'
  BY <1>10 DEF SessionsTypeOK, TurnInv, Start, RestartStart, SeekBegin, BeginStop, Unlocked, MoveTo,
     store, fallback
<1>11. ASSUME NEW s \in Session, SeekProbed(s)
      PROVE  TurnInv'
  BY <1>11 DEF SessionsTypeOK, TurnInv, Start, RestartStart, SeekProbed, MoveTo, store, fallback
<1>12. ASSUME NEW s \in Session, PlaylistSeesDead(s)
      PROVE  TurnInv'
  BY <1>12 DEF SessionsTypeOK, TurnInv, Start, RestartStart, PlaylistSeesDead, Attached, store, starts
<1>13. ASSUME NEW s \in Session, FallbackBegin(s)
      PROVE  TurnInv'
  BY <1>13 DEF SessionsTypeOK, TurnInv, Start, RestartStart, FallbackBegin, BeginStop, Unlocked,
     MoveTo, store, fallback
<1>14. ASSUME NEW s \in Session, ReleaseSession(s)
      PROVE  TurnInv'
  BY <1>14 DEF SessionsTypeOK, TurnInv, Start, RestartStart, ReleaseSession, ClaimRelease, Releasable, starts,
     fallback
<1>15. ASSUME NEW s \in Session, FinalizeRelease(s)
      PROVE  TurnInv'
  BY <1>15 DEF SessionsTypeOK, TurnInv, Start, RestartStart, FinalizeRelease, starts, fallback
<1>16. ASSUME NEW s \in Session, ReaperRelease(s)
      PROVE  TurnInv'
  BY <1>16 DEF SessionsTypeOK, TurnInv, Start, RestartStart, ReaperRelease, ClaimRelease, Releasable, starts,
     fallback
<1>17. ASSUME NEW s \in Session, NEW k \in RestartStart, RestartStopped(s, k)
      PROVE  TurnInv'
  BY <1>17 DEF SessionsTypeOK, TurnInv, Start, RestartStart, RestartStopped, MoveTo, fallback
<1>18. ASSUME NEW s \in Session, NEW k \in RestartStart, RestartRecorded(s, k)
      PROVE  TurnInv'
  BY <1>18 DEF SessionsTypeOK, TurnInv, Start, RestartStart, RestartRecorded, MoveTo, store, fallback
<1>19. ASSUME NEW s \in Session, NEW k \in Start, Spawn(s, k)
      PROVE  TurnInv'
  BY <1>19 DEF SessionsTypeOK, TurnInv, Start, RestartStart, Spawn, MoveTo, store, fallback
<1>20. ASSUME NEW s \in Session, NEW k \in Start, SpawnFails(s, k)
      PROVE  TurnInv'
  BY <1>20 DEF SessionsTypeOK, TurnInv, Start, RestartStart, SpawnFails, MoveTo, AfterFailure, store,
     fallback
<1>21. ASSUME NEW s \in Session, NEW k \in Start, Attach(s, k)
      PROVE  TurnInv'
  BY <1>21 DEF SessionsTypeOK, TurnInv, Start, RestartStart, Attach, MoveTo, Releasable, fallback
<1>22. ASSUME NEW s \in Session, NEW k \in Start, AttachRefused(s, k)
      PROVE  TurnInv'
  BY <1>22 DEF SessionsTypeOK, TurnInv, Start, RestartStart, AttachRefused, Releasable, MoveTo, store,
     fallback
<1>23. ASSUME NEW s \in Session, NEW k \in Start, RefusedStopped(s, k)
      PROVE  TurnInv'
  BY <1>23 DEF SessionsTypeOK, TurnInv, Start, RestartStart, RefusedStopped, MoveTo, AfterFailure,
     store, fallback
<1>24. CASE \/ UNCHANGED sessionVars
            \/ \E s \in Session : ReaperPick(s)
            \/ \E s \in Session : ReaperRead(s)
            \/ \E p \in running \cup dying : Exit(p)
  BY <1>24 DEF SessionsTypeOK, TurnInv, Start, RestartStart, Exit, ReaperPick, ReaperRead, sessionVars, store,
     slots, starts, processes, fallback, events
<1>. QED
  BY <1>1, <1>2, <1>3, <1>4, <1>5, <1>6, <1>7, <1>8, <1>9, <1>10, <1>11, <1>12, <1>13,
     <1>14, <1>15, <1>16, <1>17, <1>18, <1>19, <1>20, <1>21, <1>22, <1>23, <1>24
  DEF SessionsNext, Creation, InitJob, Starting, Restarting, Reaping


\* At most one start is busy with a process.
Busy == {"stopping", "probing", "spawning", "attaching"}

LEMMA Alone ==
  ASSUME SessionsTypeOK, TurnInv, NEW s \in Session, NEW k \in Start, NEW j \in Start,
         phase[s][k] \in Busy, phase[s][j] \in Busy
  PROVE  j = k
  BY DEF SessionsTypeOK, TurnInv, Busy, Start, RestartStart

\* The process a restart finds is the only one, and the signal stops it.
LEMMA BeginStopped ==
  ASSUME SessionsTypeOK, TurnInv, NoOrphanProcess, NEW s \in Session, NEW k \in RestartStart,
         generation[s] > 0, BeginStop(s, k)
  PROVE  \A p \in running' : p[1] # s
<1>1. \A p \in running : p[1] = s => p = <<s, process[s]>>
  BY DEF SessionsTypeOK, TurnInv, NoOrphanProcess, BeginStop, Unlocked, Start, RestartStart
<1>. QED
  BY <1>1 DEF BeginStop, Kill, Signal

\* While a process is made, stopped or killed, the entity's handle says so.
LEMMA ProcessStep ==
  ASSUME SessionsTypeOK, TurnInv, ProcessInv, NoOrphanProcess, [SessionsNext]_sessionVars
  PROVE  ProcessInv'
<1>1. ASSUME NEW s \in Session, Register(s)
      PROVE  ProcessInv'
  BY <1>1 DEF SessionsTypeOK, TurnInv, ProcessInv, Empty, NoOrphanProcess, Start, RestartStart,
     Register, starts, processes
<1>2. ASSUME NEW s \in Session, EnqueueInit(s)
      PROVE  ProcessInv'
  BY <1>2 DEF SessionsTypeOK, TurnInv, ProcessInv, Empty, NoOrphanProcess, Start, RestartStart,
     EnqueueInit, MoveTo, store, processes
<1>3. ASSUME NEW s \in Session, EnqueueFails(s)
      PROVE  ProcessInv'
  BY <1>3 DEF SessionsTypeOK, TurnInv, ProcessInv, Empty, NoOrphanProcess, Start, RestartStart,
     EnqueueFails, ReleaseAndDiscard, starts, processes
<1>4. ASSUME NEW s \in Session, SetOperation(s)
      PROVE  ProcessInv'
  BY <1>4 DEF SessionsTypeOK, TurnInv, ProcessInv, Empty, NoOrphanProcess, Start, RestartStart,
     SetOperation, ReleaseAndDiscard, PresentSessions, starts, processes
<1>5. ASSUME NEW s \in Session, InitDropped(s)
      PROVE  ProcessInv'
  BY <1>5 DEF SessionsTypeOK, TurnInv, ProcessInv, Empty, NoOrphanProcess, Start, RestartStart,
     InitDropped, MoveTo, store, processes
<1>6. ASSUME NEW s \in Session, InitStart(s)
      PROVE  ProcessInv'
  <2>1. PICK w \in {"spawning", "failed"} :
            /\ \A t \in Session, j \in Start :
                  phase'[t][j] = IF t = s /\ j = "init" THEN w ELSE phase[t][j]
            /\ reserved \ {s} \subseteq reserved'
            /\ w = "failed" \/ reserved' = reserved
    BY <1>6, InitMoves
  <2>2. process[s] = 0
    BY <1>6 DEF SessionsTypeOK, TurnInv, InitStart
  <2>3. UNCHANGED <<state, process, held, running>>
    BY <1>6 DEF InitStart, store, processes
  <2>. QED
    BY <2>1, <2>2, <2>3 DEF ProcessInv, Empty, Start, RestartStart
<1>7. ASSUME NEW s \in Session, InitRecorded(s)
      PROVE  ProcessInv'
  BY <1>7 DEF SessionsTypeOK, TurnInv, ProcessInv, Empty, NoOrphanProcess, Start, RestartStart,
     InitRecorded, MoveTo, store, processes
<1>8. ASSUME NEW s \in Session, InitClose(s)
      PROVE  ProcessInv'
  BY <1>8 DEF SessionsTypeOK, TurnInv, ProcessInv, Empty, NoOrphanProcess, Start, RestartStart,
     InitClose, MoveTo, ReleaseAndDiscard, processes
<1>9. ASSUME NEW s \in Session, SeekBegin(s)
      PROVE  ProcessInv'
  <2>1. generation[s] > 0
    BY <1>9 DEF SessionsTypeOK, TurnInv, SeekBegin
  <2>2. \A p \in running' : p[1] # s
    BY <1>9, <2>1, BeginStopped DEF SeekBegin, RestartStart
  <2>. QED
    BY <1>9, <2>2 DEF SessionsTypeOK, TurnInv, ProcessInv, Empty, Start, RestartStart, SeekBegin, BeginStop,
       Unlocked, Kill, Signal, MoveTo, store
<1>10. ASSUME NEW s \in Session, SeekProbed(s)
      PROVE  ProcessInv'
  BY <1>10 DEF SessionsTypeOK, TurnInv, ProcessInv, Empty, NoOrphanProcess, Start, RestartStart,
     SeekProbed, MoveTo, store, processes
<1>11. ASSUME NEW s \in Session, FallbackBegin(s)
      PROVE  ProcessInv'
  <2>1. generation[s] > 0
    BY <1>11 DEF SessionsTypeOK, TurnInv, FallbackBegin
  <2>2. \A p \in running' : p[1] # s
    BY <1>11, <2>1, BeginStopped DEF FallbackBegin, RestartStart
  <2>. QED
    BY <1>11, <2>2 DEF SessionsTypeOK, TurnInv, ProcessInv, Empty, Start, RestartStart, FallbackBegin,
       BeginStop,
       Unlocked, Kill, Signal, MoveTo, store
<1>12. ASSUME NEW s \in Session, ReleaseSession(s)
      PROVE  ProcessInv'
  BY <1>12 DEF SessionsTypeOK, TurnInv, ProcessInv, Empty, NoOrphanProcess, Start, RestartStart,
     ReleaseSession, ClaimRelease, Releasable, Kill, Signal, starts
<1>13. ASSUME NEW s \in Session, FinalizeRelease(s)
      PROVE  ProcessInv'
  BY <1>13 DEF SessionsTypeOK, TurnInv, ProcessInv, Empty, NoOrphanProcess, Start, RestartStart,
     FinalizeRelease, starts, processes
<1>14. ASSUME NEW s \in Session, ReaperRelease(s)
      PROVE  ProcessInv'
  BY <1>14 DEF SessionsTypeOK, TurnInv, ProcessInv, Empty, NoOrphanProcess, Start, RestartStart,
     ReaperRelease, ClaimRelease, Releasable, Kill, Signal, starts, processes
<1>15. ASSUME NEW s \in Session, NEW k \in RestartStart, RestartStopped(s, k)
      PROVE  ProcessInv'
  BY <1>15 DEF SessionsTypeOK, TurnInv, ProcessInv, Empty, NoOrphanProcess, Start, RestartStart,
     RestartStopped, MoveTo, processes
<1>16. ASSUME NEW s \in Session, NEW k \in RestartStart, RestartRecorded(s, k)
      PROVE  ProcessInv'
  BY <1>16 DEF SessionsTypeOK, TurnInv, ProcessInv, Empty, NoOrphanProcess, Start, RestartStart,
     RestartRecorded, MoveTo, store, processes
<1>17. ASSUME NEW s \in Session, NEW k \in Start, Spawn(s, k)
      PROVE  ProcessInv'
  <2>1. \A t \in Session, j \in Start :
            phase'[t][j] = IF t = s /\ j = k THEN "attaching" ELSE phase[t][j]
    BY <1>17, Moved DEF Spawn, Phase
  <2>2. process[s] = 0
    BY <1>17 DEF ProcessInv, Empty, Spawn
  <2>3. \A j \in Start : j # k => phase[s][j] \notin Busy
    BY <1>17, Alone DEF Spawn, Busy
  <2>. QED
    BY <1>17, <2>1, <2>2, <2>3 DEF SessionsTypeOK, ProcessInv, Empty, Busy, Start, RestartStart, Spawn, store
<1>18. ASSUME NEW s \in Session, NEW k \in Start, SpawnFails(s, k)
      PROVE  ProcessInv'
  BY <1>18 DEF SessionsTypeOK, TurnInv, ProcessInv, Empty, NoOrphanProcess, Start, RestartStart,
     SpawnFails, MoveTo, AfterFailure, store, processes
<1>19. ASSUME NEW s \in Session, NEW k \in Start, Attach(s, k)
      PROVE  ProcessInv'
  <2>1. \A t \in Session, j \in Start :
            phase'[t][j] = IF t = s /\ j = k THEN "recording" ELSE phase[t][j]
    BY <1>19, Moved DEF Attach, Phase
  <2>2. \A j \in Start : j # k => phase[s][j] \notin Busy
    BY <1>19, Alone DEF Attach, Busy
  <2>. QED
    BY <1>19, <2>1, <2>2 DEF SessionsTypeOK, ProcessInv, Empty, Busy, Start, RestartStart, Attach, Releasable,
       processes
<1>20. ASSUME NEW s \in Session, NEW k \in Start, AttachRefused(s, k)
      PROVE  ProcessInv'
  BY <1>20 DEF SessionsTypeOK, TurnInv, ProcessInv, Empty, NoOrphanProcess, Start, RestartStart,
     AttachRefused, Releasable, KillRefused, Signal, MoveTo, store
<1>21. ASSUME NEW s \in Session, NEW k \in Start, RefusedStopped(s, k)
      PROVE  ProcessInv'
  BY <1>21 DEF SessionsTypeOK, TurnInv, ProcessInv, Empty, NoOrphanProcess, Start, RestartStart,
     RefusedStopped, MoveTo, AfterFailure, store, processes
<1>22. ASSUME NEW p \in running \cup dying, Exit(p)
      PROVE  ProcessInv'
  BY <1>22 DEF SessionsTypeOK, TurnInv, ProcessInv, Empty, NoOrphanProcess, Start, RestartStart, Exit,
     store, starts
<1>23. CASE \/ UNCHANGED sessionVars
            \/ \E s \in Session : Prepared(s)
            \/ \E s \in Session : PlaylistSeesDead(s)
            \/ \E s \in Session : ReaperPick(s)
            \/ \E s \in Session : ReaperRead(s)
  <2>1. UNCHANGED <<state, process, phase, held, running>>
    BY <1>23 DEF Attached, PlaylistSeesDead, Prepared, ReaperPick, ReaperRead, ReserveAgain,
       sessionVars, store, slots, starts, processes, fallback, events
  <2>. QED
    BY <2>1 DEF SessionsTypeOK, TurnInv, ProcessInv, Empty, NoOrphanProcess, Start, RestartStart
<1>. QED
  BY <1>1, <1>2, <1>3, <1>4, <1>5, <1>6, <1>7, <1>8, <1>9, <1>10, <1>11, <1>12, <1>13,
     <1>14, <1>15, <1>16, <1>17, <1>18, <1>19, <1>20, <1>21, <1>22, <1>23
  DEF SessionsNext, Creation, InitJob, Starting, Restarting, Reaping


\* No step loses sight of a process that runs.
LEMMA OrphanStep ==
  ASSUME SessionsTypeOK, TurnInv, ProcessInv, NoOrphanProcess, [SessionsNext]_sessionVars
  PROVE  NoOrphanProcess'
<1>1. ASSUME NEW s \in Session, EnqueueInit(s)
      PROVE  NoOrphanProcess'
  BY <1>1 DEF SessionsTypeOK, TurnInv, ProcessInv, Empty, NoOrphanProcess, Start, RestartStart,
     EnqueueInit, MoveTo, store, processes
<1>2. ASSUME NEW s \in Session, EnqueueFails(s)
      PROVE  NoOrphanProcess'
  BY <1>2 DEF SessionsTypeOK, TurnInv, ProcessInv, Empty, NoOrphanProcess, Start, RestartStart,
     EnqueueFails, ReleaseAndDiscard, starts, processes
<1>3. ASSUME NEW s \in Session, SetOperation(s)
      PROVE  NoOrphanProcess'
  BY <1>3 DEF SessionsTypeOK, TurnInv, ProcessInv, Empty, NoOrphanProcess, Start, RestartStart,
     SetOperation, ReleaseAndDiscard, PresentSessions, starts, processes
<1>4. ASSUME NEW s \in Session, InitDropped(s)
      PROVE  NoOrphanProcess'
  BY <1>4 DEF SessionsTypeOK, TurnInv, ProcessInv, Empty, NoOrphanProcess, Start, RestartStart,
     InitDropped, MoveTo, store, processes
<1>5. ASSUME NEW s \in Session, InitStart(s)
      PROVE  NoOrphanProcess'
  BY <1>5 DEF SessionsTypeOK, TurnInv, ProcessInv, Empty, NoOrphanProcess, Start, RestartStart,
     InitStart, MoveTo, store, processes
<1>6. ASSUME NEW s \in Session, InitRecorded(s)
      PROVE  NoOrphanProcess'
  BY <1>6 DEF SessionsTypeOK, TurnInv, ProcessInv, Empty, NoOrphanProcess, Start, RestartStart,
     InitRecorded, MoveTo, store, processes
<1>7. ASSUME NEW s \in Session, InitClose(s)
      PROVE  NoOrphanProcess'
  BY <1>7 DEF SessionsTypeOK, TurnInv, ProcessInv, Empty, NoOrphanProcess, Start, RestartStart,
     InitClose, MoveTo, ReleaseAndDiscard, processes
<1>8. ASSUME NEW s \in Session, SeekBegin(s)
      PROVE  NoOrphanProcess'
  BY <1>8 DEF SessionsTypeOK, TurnInv, ProcessInv, Empty, NoOrphanProcess, Start, RestartStart,
     SeekBegin, BeginStop, Unlocked, Kill, Signal, MoveTo, store
<1>9. ASSUME NEW s \in Session, SeekProbed(s)
      PROVE  NoOrphanProcess'
  BY <1>9 DEF SessionsTypeOK, TurnInv, ProcessInv, Empty, NoOrphanProcess, Start, RestartStart,
     SeekProbed, MoveTo, store, processes
<1>10. ASSUME NEW s \in Session, FallbackBegin(s)
      PROVE  NoOrphanProcess'
  BY <1>10 DEF SessionsTypeOK, TurnInv, ProcessInv, Empty, NoOrphanProcess, Start, RestartStart,
     FallbackBegin, BeginStop, Unlocked, Kill, Signal, MoveTo, store
<1>11. ASSUME NEW s \in Session, ReleaseSession(s)
      PROVE  NoOrphanProcess'
  BY <1>11 DEF SessionsTypeOK, TurnInv, ProcessInv, Empty, NoOrphanProcess, Start, RestartStart,
     ReleaseSession, ClaimRelease, Releasable, Kill, Signal, starts
<1>12. ASSUME NEW s \in Session, FinalizeRelease(s)
      PROVE  NoOrphanProcess'
  BY <1>12 DEF SessionsTypeOK, TurnInv, ProcessInv, Empty, NoOrphanProcess, Start, RestartStart,
     FinalizeRelease, starts, processes
<1>13. ASSUME NEW s \in Session, ReaperRelease(s)
      PROVE  NoOrphanProcess'
  BY <1>13 DEF SessionsTypeOK, TurnInv, ProcessInv, Empty, NoOrphanProcess, Start, RestartStart,
     ReaperRelease, ClaimRelease, Releasable, Kill, Signal, starts, processes
<1>14. ASSUME NEW s \in Session, NEW k \in RestartStart, RestartStopped(s, k)
      PROVE  NoOrphanProcess'
  <2>1. PICK w \in {"probing", "spawning", "idle"} :
            \A t \in Session, j \in Start :
                phase'[t][j] = IF t = s /\ j = k THEN w ELSE phase[t][j]
    BY <1>14, RestartMoves
  <2>2. \A p \in running : p[1] # s
    BY <1>14 DEF ProcessInv, RestartStopped
  <2>3. \A t \in Session : t # s => process'[t] = process[t] /\ held'[t] = held[t]
    BY <1>14 DEF SessionsTypeOK, RestartStopped
  <2>4. running' = running
    BY <1>14 DEF RestartStopped, processes
  <2>5. \A t \in Session \ {s} : \A j \in Start : phase'[t][j] = phase[t][j]
    BY <2>1
  <2>6. \A p \in running : p[1] \in Session
    BY DEF SessionsTypeOK
  <2>. QED
    BY <2>2, <2>3, <2>4, <2>5, <2>6 DEF NoOrphanProcess
<1>15. ASSUME NEW s \in Session, NEW k \in RestartStart, RestartRecorded(s, k)
      PROVE  NoOrphanProcess'
  BY <1>15 DEF SessionsTypeOK, TurnInv, ProcessInv, Empty, NoOrphanProcess, Start, RestartStart,
     RestartRecorded, MoveTo, store, processes
<1>16. ASSUME NEW s \in Session, NEW k \in Start, Spawn(s, k)
      PROVE  NoOrphanProcess'
  BY <1>16 DEF SessionsTypeOK, TurnInv, ProcessInv, Empty, NoOrphanProcess, Start, RestartStart, Spawn,
     MoveTo, store
<1>17. ASSUME NEW s \in Session, NEW k \in Start, SpawnFails(s, k)
      PROVE  NoOrphanProcess'
  BY <1>17 DEF SessionsTypeOK, TurnInv, ProcessInv, Empty, NoOrphanProcess, Start, RestartStart,
     SpawnFails, MoveTo, AfterFailure, store, processes
<1>18. ASSUME NEW s \in Session, NEW k \in Start, Attach(s, k)
      PROVE  NoOrphanProcess'
  <2>1. \A t \in Session, j \in Start :
            phase'[t][j] = IF t = s /\ j = k THEN "recording" ELSE phase[t][j]
    BY <1>18, Moved DEF Attach, Phase
  <2>2. \A p \in running : p[1] = s => p[2] = held[s][k]
    <3>1. process[s] = 0
      BY <1>18 DEF ProcessInv, Empty, Attach
    <3>2. \A j \in Start : phase[s][j] = "attaching" => j = k
      BY <1>18, Alone DEF Attach, Busy
    <3>. QED
      BY <3>1, <3>2 DEF SessionsTypeOK, NoOrphanProcess
  <2>3. \A t \in Session : t # s => process'[t] = process[t] /\ held'[t] = held[t]
    BY <1>18 DEF SessionsTypeOK, Attach
  <2>4. running' = running
    BY <1>18 DEF Attach, processes
  <2>5. process'[s] = held[s][k]
    BY <1>18 DEF SessionsTypeOK, Attach
  <2>6. \A t \in Session \ {s} : \A j \in Start : phase'[t][j] = phase[t][j]
    BY <2>1
  <2>7. \A p \in running : p[1] \in Session
    BY DEF SessionsTypeOK
  <2>. QED
    BY <2>2, <2>3, <2>4, <2>5, <2>6, <2>7 DEF NoOrphanProcess
<1>19. ASSUME NEW s \in Session, NEW k \in Start, AttachRefused(s, k)
      PROVE  NoOrphanProcess'
  BY <1>19 DEF SessionsTypeOK, TurnInv, ProcessInv, Empty, NoOrphanProcess, Start, RestartStart,
     AttachRefused, Releasable, KillRefused, Signal, MoveTo, store
<1>20. ASSUME NEW s \in Session, NEW k \in Start, RefusedStopped(s, k)
      PROVE  NoOrphanProcess'
  BY <1>20 DEF SessionsTypeOK, TurnInv, ProcessInv, Empty, NoOrphanProcess, Start, RestartStart,
     RefusedStopped, MoveTo, AfterFailure, store, processes
<1>21. ASSUME NEW p \in running \cup dying, Exit(p)
      PROVE  NoOrphanProcess'
  BY <1>21 DEF SessionsTypeOK, TurnInv, ProcessInv, Empty, NoOrphanProcess, Start, RestartStart, Exit,
     store, starts
<1>22. CASE \/ UNCHANGED sessionVars
            \/ \E s \in Session : Register(s)
            \/ \E s \in Session : Prepared(s)
            \/ \E s \in Session : PlaylistSeesDead(s)
            \/ \E s \in Session : ReaperPick(s)
            \/ \E s \in Session : ReaperRead(s)
  <2>1. UNCHANGED <<process, phase, held, running>>
    BY <1>22 DEF Attached, PlaylistSeesDead, Prepared, ReaperPick, ReaperRead, Register,
       ReserveAgain, sessionVars, store, slots, starts, processes, fallback, events
  <2>. QED
    BY <2>1 DEF SessionsTypeOK, TurnInv, ProcessInv, Empty, NoOrphanProcess, Start, RestartStart
<1>. QED
  BY <1>1, <1>2, <1>3, <1>4, <1>5, <1>6, <1>7, <1>8, <1>9, <1>10, <1>11, <1>12, <1>13,
     <1>14, <1>15, <1>16, <1>17, <1>18, <1>19, <1>20, <1>21, <1>22
  DEF SessionsNext, Creation, InitJob, Starting, Restarting, Reaping


\* The invariant that the theorems about processes rest on.
IInv == SessionsTypeOK /\ TurnInv /\ ProcessInv /\ NoOrphanProcess

LEMMA Inductive == SessionsSpec => []IInv
<1>1. SessionsInit => IInv
  BY DEF SessionsInit, IInv, SessionsTypeOK, State, Phase, TurnInv, ProcessInv, Empty, NoOrphanProcess,
     Start, RestartStart
<1>2. IInv /\ [SessionsNext]_sessionVars => IInv'
  BY TypeStep, TurnStep, ProcessStep, OrphanStep DEF IInv
<1>. QED
  BY <1>1, <1>2, PTL DEF SessionsSpec

\* Every ffmpeg process at work is attached to its session, or in the hands of a start that will
\* attach or kill it: a start that loses to a release leaves no orphan (ProcessManager.startSession).
THEOREM NoOrphan == SessionsSpec => []NoOrphanProcess
<1>1. IInv => NoOrphanProcess
  BY DEF IInv
<1>. QED
  BY <1>1, Inductive, PTL

\* A session never has two processes at work in its directory, whatever seeks, fallback restarts,
\* releases and the init job do between each other's awaits (SeekScheduler.runExclusive).
THEOREM OneWriterCorrect == SessionsSpec => []OneWriter
<1>1. IInv => OneWriter
  <2>1. IInv => \A p, q \in running : p[1] = q[1] /\ p[2] = q[2] => p = q
    BY DEF IInv, SessionsTypeOK
  <2>. SUFFICES ASSUME IInv, NEW p \in running, NEW q \in running, p[1] = q[1]
                PROVE  p[2] = q[2]
    BY <2>1 DEF OneWriter
  <2>. QED
    BY DEF IInv, SessionsTypeOK, TurnInv, ProcessInv, Empty, NoOrphanProcess, Start, RestartStart
<1>. QED
  BY <1>1, Inductive, PTL


\* An entity that is being released stays so until it is gone.
Ending ==
    \A s \in Session :
        /\ state[s] = "ending" => state'[s] \in {"ending", "gone"}
        /\ state[s] = "gone" => state'[s] = "gone"

LEMMA EndingStep ==
  ASSUME SessionsTypeOK, [SessionsNext]_sessionVars
  PROVE  Ending
<1>1. ASSUME NEW s \in Session, Register(s)
      PROVE  Ending
  BY <1>1 DEF SessionsTypeOK, Ending, Register
<1>2. ASSUME NEW s \in Session, EnqueueFails(s)
      PROVE  Ending
  BY <1>2 DEF SessionsTypeOK, Ending, EnqueueFails, ReleaseAndDiscard
<1>3. ASSUME NEW s \in Session, SetOperation(s)
      PROVE  Ending
  BY <1>3 DEF SessionsTypeOK, Ending, SetOperation, ReleaseAndDiscard, PresentSessions
<1>4. ASSUME NEW s \in Session, InitClose(s)
      PROVE  Ending
  BY <1>4 DEF SessionsTypeOK, Ending, InitClose, ReleaseAndDiscard
<1>5. ASSUME NEW s \in Session, ReleaseSession(s)
      PROVE  Ending
  BY <1>5 DEF SessionsTypeOK, Ending, ReleaseSession, ClaimRelease, Releasable
<1>6. ASSUME NEW s \in Session, FinalizeRelease(s)
      PROVE  Ending
  BY <1>6 DEF SessionsTypeOK, Ending, FinalizeRelease
<1>7. ASSUME NEW s \in Session, ReaperRelease(s)
      PROVE  Ending
  BY <1>7 DEF SessionsTypeOK, Ending, ReaperRelease, ClaimRelease, Releasable
<1>8. ASSUME NEW s \in Session, NEW k \in RestartStart, RestartStopped(s, k)
      PROVE  Ending
  BY <1>8 DEF SessionsTypeOK, Ending, RestartStopped
<1>9. ASSUME NEW s \in Session, NEW k \in RestartStart, RestartRecorded(s, k)
      PROVE  Ending
  BY <1>9 DEF SessionsTypeOK, Ending, RestartRecorded, store
<1>10. ASSUME NEW s \in Session, NEW k \in Start, Spawn(s, k)
      PROVE  Ending
  BY <1>10 DEF SessionsTypeOK, Ending, Spawn, store
<1>11. ASSUME NEW s \in Session, NEW k \in Start, SpawnFails(s, k)
      PROVE  Ending
  BY <1>11 DEF SessionsTypeOK, Ending, SpawnFails, store
<1>12. ASSUME NEW s \in Session, NEW k \in Start, Attach(s, k)
      PROVE  Ending
  BY <1>12 DEF SessionsTypeOK, Ending, Attach, Releasable
<1>13. ASSUME NEW s \in Session, NEW k \in Start, AttachRefused(s, k)
      PROVE  Ending
  BY <1>13 DEF SessionsTypeOK, Ending, AttachRefused, Releasable, store
<1>14. ASSUME NEW s \in Session, NEW k \in Start, RefusedStopped(s, k)
      PROVE  Ending
  BY <1>14 DEF SessionsTypeOK, Ending, RefusedStopped, store
<1>15. CASE \/ UNCHANGED sessionVars
            \/ \E s \in Session : Prepared(s)
            \/ \E s \in Session : EnqueueInit(s)
            \/ \E s \in Session : InitDropped(s)
            \/ \E s \in Session : InitStart(s)
            \/ \E s \in Session : InitRecorded(s)
            \/ \E s \in Session : SeekBegin(s)
            \/ \E s \in Session : SeekProbed(s)
            \/ \E s \in Session : PlaylistSeesDead(s)
            \/ \E s \in Session : FallbackBegin(s)
            \/ \E s \in Session : ReaperPick(s)
            \/ \E s \in Session : ReaperRead(s)
            \/ \E p \in running \cup dying : Exit(p)
  <2>1. UNCHANGED <<state>>
    BY <1>15 DEF Attached, BeginStop, EnqueueInit, Exit, FallbackBegin, InitDropped,
       InitRecorded, InitStart, Kill, MoveTo, PlaylistSeesDead, Prepared, ReaperPick,
       ReaperRead, ReleaseReservation, ReserveAgain, SeekBegin, SeekProbed, Signal,
       Unlocked, sessionVars, store, slots, starts, processes, fallback, events
  <2>. QED
    BY <2>1 DEF SessionsTypeOK, Ending
<1>. QED
  BY <1>1, <1>2, <1>3, <1>4, <1>5, <1>6, <1>7, <1>8, <1>9, <1>10, <1>11, <1>12, <1>13,
     <1>14, <1>15
  DEF SessionsNext, Creation, InitJob, Starting, Restarting, Reaping

\* A claimed release is never taken back, not by a start that ends after it
\* (SessionStore.claimRelease and attachProcess).
THEOREM ReleaseFinal == SessionsSpec => ReleaseIsFinal
<1>1. SessionsTypeOK /\ [SessionsNext]_sessionVars => [Ending]_sessionVars
  BY EndingStep
<1>. QED
  BY <1>1, TypeCorrect, PTL DEF SessionsSpec, ReleaseIsFinal, Ending


-----------------------------------------------------------------------------
(* Slots and events. *)

LEMMA LeakStep ==
  ASSUME SessionsTypeOK, NoLeakedSlot, [SessionsNext]_sessionVars
  PROVE  NoLeakedSlot'
<1>1. ASSUME NEW s \in Session, Register(s)
      PROVE  NoLeakedSlot'
  BY <1>1 DEF SessionsTypeOK, NoLeakedSlot, PresentSessions, Register
<1>2. ASSUME NEW s \in Session, Prepared(s)
      PROVE  NoLeakedSlot'
  BY <1>2 DEF SessionsTypeOK, NoLeakedSlot, PresentSessions, Prepared, ReserveAgain, store
<1>3. ASSUME NEW s \in Session, EnqueueFails(s)
      PROVE  NoLeakedSlot'
  BY <1>3 DEF SessionsTypeOK, NoLeakedSlot, PresentSessions, EnqueueFails, ReleaseAndDiscard
<1>4. ASSUME NEW s \in Session, SetOperation(s)
      PROVE  NoLeakedSlot'
  BY <1>4 DEF SessionsTypeOK, NoLeakedSlot, PresentSessions, SetOperation, ReleaseAndDiscard, slots
<1>5. ASSUME NEW s \in Session, InitStart(s)
      PROVE  NoLeakedSlot'
  BY <1>5 DEF SessionsTypeOK, NoLeakedSlot, PresentSessions, InitStart, ReleaseReservation, store, slots
<1>6. ASSUME NEW s \in Session, InitRecorded(s)
      PROVE  NoLeakedSlot'
  BY <1>6 DEF SessionsTypeOK, NoLeakedSlot, PresentSessions, InitRecorded, ReleaseReservation, store
<1>7. ASSUME NEW s \in Session, InitClose(s)
      PROVE  NoLeakedSlot'
  BY <1>7 DEF SessionsTypeOK, NoLeakedSlot, PresentSessions, InitClose, ReleaseAndDiscard
<1>8. ASSUME NEW s \in Session, ReleaseSession(s)
      PROVE  NoLeakedSlot'
  BY <1>8 DEF SessionsTypeOK, NoLeakedSlot, PresentSessions, ReleaseSession, ClaimRelease, Releasable, slots
<1>9. ASSUME NEW s \in Session, FinalizeRelease(s)
      PROVE  NoLeakedSlot'
  BY <1>9 DEF SessionsTypeOK, NoLeakedSlot, PresentSessions, FinalizeRelease, FreeSlot
<1>10. ASSUME NEW s \in Session, ReaperRelease(s)
      PROVE  NoLeakedSlot'
  BY <1>10 DEF SessionsTypeOK, NoLeakedSlot, PresentSessions, ReaperRelease, ClaimRelease, Releasable, slots
<1>11. ASSUME NEW s \in Session, NEW k \in RestartStart, RestartStopped(s, k)
      PROVE  NoLeakedSlot'
  BY <1>11 DEF SessionsTypeOK, NoLeakedSlot, PresentSessions, RestartStopped, ReserveAgain
<1>12. ASSUME NEW s \in Session, NEW k \in RestartStart, RestartRecorded(s, k)
      PROVE  NoLeakedSlot'
  BY <1>12 DEF SessionsTypeOK, NoLeakedSlot, PresentSessions, RestartRecorded, store, slots
<1>13. ASSUME NEW s \in Session, NEW k \in Start, Spawn(s, k)
      PROVE  NoLeakedSlot'
  BY <1>13 DEF SessionsTypeOK, NoLeakedSlot, PresentSessions, Spawn, store, slots
<1>14. ASSUME NEW s \in Session, NEW k \in Start, SpawnFails(s, k)
      PROVE  NoLeakedSlot'
  BY <1>14 DEF SessionsTypeOK, NoLeakedSlot, PresentSessions, SpawnFails, ReleaseReservation, store
<1>15. ASSUME NEW s \in Session, NEW k \in Start, Attach(s, k)
      PROVE  NoLeakedSlot'
  BY <1>15 DEF SessionsTypeOK, NoLeakedSlot, PresentSessions, Attach, Releasable
<1>16. ASSUME NEW s \in Session, NEW k \in Start, AttachRefused(s, k)
      PROVE  NoLeakedSlot'
  BY <1>16 DEF SessionsTypeOK, NoLeakedSlot, PresentSessions, AttachRefused, Releasable, store, slots
<1>17. ASSUME NEW s \in Session, NEW k \in Start, RefusedStopped(s, k)
      PROVE  NoLeakedSlot'
  BY <1>17 DEF SessionsTypeOK, NoLeakedSlot, PresentSessions, RefusedStopped, ReleaseReservation, store
<1>18. CASE \/ UNCHANGED sessionVars
            \/ \E s \in Session : EnqueueInit(s)
            \/ \E s \in Session : InitDropped(s)
            \/ \E s \in Session : SeekBegin(s)
            \/ \E s \in Session : SeekProbed(s)
            \/ \E s \in Session : PlaylistSeesDead(s)
            \/ \E s \in Session : FallbackBegin(s)
            \/ \E s \in Session : ReaperPick(s)
            \/ \E s \in Session : ReaperRead(s)
            \/ \E p \in running \cup dying : Exit(p)
  <2>1. UNCHANGED <<state, reserved, bound>>
    BY <1>18 DEF Attached, BeginStop, EnqueueInit, Exit, FallbackBegin, InitDropped, Kill,
       MoveTo, PlaylistSeesDead, ReaperPick, ReaperRead, SeekBegin, SeekProbed, Signal,
       Unlocked, sessionVars, store, slots, starts, processes, fallback, events
  <2>. QED
    BY <2>1 DEF SessionsTypeOK, NoLeakedSlot, PresentSessions
<1>. QED
  BY <1>1, <1>2, <1>3, <1>4, <1>5, <1>6, <1>7, <1>8, <1>9, <1>10, <1>11, <1>12, <1>13,
     <1>14, <1>15, <1>16, <1>17, <1>18
  DEF SessionsNext, Creation, InitJob, Starting, Restarting, Reaping


\* Every reservation and user binding has an entity that is still to be released, although
\* prepareSession reserves again after an await (StreamingManager.prepareSession).
THEOREM NoLeak == SessionsSpec => []NoLeakedSlot
<1>1. SessionsInit => NoLeakedSlot
  BY DEF SessionsInit, NoLeakedSlot
<1>. QED
  BY <1>1, LeakStep, TypeCorrect, PTL DEF SessionsSpec

LEMMA SlotStep ==
  ASSUME SessionsTypeOK, TurnInv, SlotInv, FirstStartHoldsSlot, [SessionsNext]_sessionVars
  PROVE  SlotInv' /\ FirstStartHoldsSlot'
<1>1. ASSUME NEW s \in Session, Register(s)
      PROVE  SlotInv' /\ FirstStartHoldsSlot'
  BY <1>1 DEF SessionsTypeOK, TurnInv, SlotInv, FirstStartHoldsSlot, Start, RestartStart, PresentSessions,
     Register, starts
<1>2. ASSUME NEW s \in Session, Prepared(s)
      PROVE  SlotInv' /\ FirstStartHoldsSlot'
  BY <1>2 DEF SessionsTypeOK, TurnInv, SlotInv, FirstStartHoldsSlot, Start, RestartStart, PresentSessions,
     Prepared, ReserveAgain, store, starts
<1>3. ASSUME NEW s \in Session, EnqueueInit(s)
      PROVE  SlotInv' /\ FirstStartHoldsSlot'
  BY <1>3 DEF SessionsTypeOK, TurnInv, SlotInv, FirstStartHoldsSlot, Start, RestartStart, PresentSessions,
     EnqueueInit, MoveTo, store, slots
<1>4. ASSUME NEW s \in Session, EnqueueFails(s)
      PROVE  SlotInv' /\ FirstStartHoldsSlot'
  BY <1>4 DEF SessionsTypeOK, TurnInv, SlotInv, FirstStartHoldsSlot, Start, RestartStart, PresentSessions,
     EnqueueFails, ReleaseAndDiscard, starts
<1>5. ASSUME NEW s \in Session, SetOperation(s)
      PROVE  SlotInv' /\ FirstStartHoldsSlot'
  BY <1>5 DEF SessionsTypeOK, TurnInv, SlotInv, FirstStartHoldsSlot, Start, RestartStart, PresentSessions,
     SetOperation, ReleaseAndDiscard, slots, starts
<1>6. ASSUME NEW s \in Session, InitDropped(s)
      PROVE  SlotInv' /\ FirstStartHoldsSlot'
  BY <1>6 DEF SessionsTypeOK, TurnInv, SlotInv, FirstStartHoldsSlot, Start, RestartStart, PresentSessions,
     InitDropped, MoveTo, store, slots
<1>7. ASSUME NEW s \in Session, InitStart(s)
      PROVE  SlotInv' /\ FirstStartHoldsSlot'
  <2>1. PICK w \in {"spawning", "failed"} :
            /\ \A t \in Session, j \in Start :
                  phase'[t][j] = IF t = s /\ j = "init" THEN w ELSE phase[t][j]
            /\ reserved \ {s} \subseteq reserved'
            /\ w = "failed" \/ reserved' = reserved
    BY <1>7, InitMoves
  <2>. QED
    BY <1>7, <2>1 DEF SessionsTypeOK, TurnInv, SlotInv, FirstStartHoldsSlot, InitStart, Start, store
<1>8. ASSUME NEW s \in Session, InitRecorded(s)
      PROVE  SlotInv' /\ FirstStartHoldsSlot'
  BY <1>8 DEF SessionsTypeOK, TurnInv, SlotInv, FirstStartHoldsSlot, Start, RestartStart, PresentSessions,
     InitRecorded, MoveTo, ReleaseReservation, store
<1>9. ASSUME NEW s \in Session, InitClose(s)
      PROVE  SlotInv' /\ FirstStartHoldsSlot'
  BY <1>9 DEF SessionsTypeOK, TurnInv, SlotInv, FirstStartHoldsSlot, Start, RestartStart, PresentSessions,
     InitClose, MoveTo, ReleaseAndDiscard
<1>10. ASSUME NEW s \in Session, SeekBegin(s)
      PROVE  SlotInv' /\ FirstStartHoldsSlot'
  BY <1>10 DEF SessionsTypeOK, TurnInv, SlotInv, FirstStartHoldsSlot, Start, RestartStart, PresentSessions,
     SeekBegin, BeginStop, Unlocked, MoveTo, store, slots
<1>11. ASSUME NEW s \in Session, SeekProbed(s)
      PROVE  SlotInv' /\ FirstStartHoldsSlot'
  BY <1>11 DEF SessionsTypeOK, TurnInv, SlotInv, FirstStartHoldsSlot, Start, RestartStart, PresentSessions,
     SeekProbed, MoveTo, store, slots
<1>12. ASSUME NEW s \in Session, FallbackBegin(s)
      PROVE  SlotInv' /\ FirstStartHoldsSlot'
  BY <1>12 DEF SessionsTypeOK, TurnInv, SlotInv, FirstStartHoldsSlot, Start, RestartStart, PresentSessions,
     FallbackBegin, BeginStop, Unlocked, MoveTo, store, slots
<1>13. ASSUME NEW s \in Session, ReleaseSession(s)
      PROVE  SlotInv' /\ FirstStartHoldsSlot'
  BY <1>13 DEF SessionsTypeOK, TurnInv, SlotInv, FirstStartHoldsSlot, Start, RestartStart, PresentSessions,
     ReleaseSession, ClaimRelease, Releasable, slots, starts
<1>14. ASSUME NEW s \in Session, FinalizeRelease(s)
      PROVE  SlotInv' /\ FirstStartHoldsSlot'
  BY <1>14 DEF SessionsTypeOK, TurnInv, SlotInv, FirstStartHoldsSlot, Start, RestartStart, PresentSessions,
     FinalizeRelease, FreeSlot, starts
<1>15. ASSUME NEW s \in Session, ReaperRelease(s)
      PROVE  SlotInv' /\ FirstStartHoldsSlot'
  BY <1>15 DEF SessionsTypeOK, TurnInv, SlotInv, FirstStartHoldsSlot, Start, RestartStart, PresentSessions,
     ReaperRelease, ClaimRelease, Releasable, slots, starts
<1>16. ASSUME NEW s \in Session, NEW k \in RestartStart, RestartStopped(s, k)
      PROVE  SlotInv' /\ FirstStartHoldsSlot'
  BY <1>16 DEF SessionsTypeOK, TurnInv, SlotInv, FirstStartHoldsSlot, Start, RestartStart, PresentSessions,
     RestartStopped, ReserveAgain, MoveTo
<1>17. ASSUME NEW s \in Session, NEW k \in RestartStart, RestartRecorded(s, k)
      PROVE  SlotInv' /\ FirstStartHoldsSlot'
  BY <1>17 DEF SessionsTypeOK, TurnInv, SlotInv, FirstStartHoldsSlot, Start, RestartStart, PresentSessions,
     RestartRecorded, MoveTo, store, slots
<1>18. ASSUME NEW s \in Session, NEW k \in Start, Spawn(s, k)
      PROVE  SlotInv' /\ FirstStartHoldsSlot'
  BY <1>18 DEF SessionsTypeOK, TurnInv, SlotInv, FirstStartHoldsSlot, Start, RestartStart, PresentSessions,
     Spawn, MoveTo, store, slots
<1>19. ASSUME NEW s \in Session, NEW k \in Start, SpawnFails(s, k)
      PROVE  SlotInv' /\ FirstStartHoldsSlot'
  BY <1>19 DEF SessionsTypeOK, TurnInv, SlotInv, FirstStartHoldsSlot, Start, RestartStart, PresentSessions,
     SpawnFails, MoveTo, AfterFailure, ReleaseReservation, store
<1>20. ASSUME NEW s \in Session, NEW k \in Start, Attach(s, k)
      PROVE  SlotInv' /\ FirstStartHoldsSlot'
  BY <1>20 DEF SessionsTypeOK, TurnInv, SlotInv, FirstStartHoldsSlot, Start, RestartStart, PresentSessions,
     Attach, MoveTo, Releasable
<1>21. ASSUME NEW s \in Session, NEW k \in Start, AttachRefused(s, k)
      PROVE  SlotInv' /\ FirstStartHoldsSlot'
  BY <1>21 DEF SessionsTypeOK, TurnInv, SlotInv, FirstStartHoldsSlot, Start, RestartStart, PresentSessions,
     AttachRefused, Releasable, MoveTo, store, slots
<1>22. ASSUME NEW s \in Session, NEW k \in Start, RefusedStopped(s, k)
      PROVE  SlotInv' /\ FirstStartHoldsSlot'
  BY <1>22 DEF SessionsTypeOK, TurnInv, SlotInv, FirstStartHoldsSlot, Start, RestartStart, PresentSessions,
     RefusedStopped, MoveTo, AfterFailure, ReleaseReservation, store
<1>23. CASE \/ UNCHANGED sessionVars
            \/ \E s \in Session : PlaylistSeesDead(s)
            \/ \E s \in Session : ReaperPick(s)
            \/ \E s \in Session : ReaperRead(s)
            \/ \E p \in running \cup dying : Exit(p)
  <2>1. UNCHANGED <<state, creation, phase, reserved>>
    BY <1>23 DEF Attached, Exit, PlaylistSeesDead, ReaperPick, ReaperRead, sessionVars, store,
       slots, starts, processes, fallback, events
  <2>. QED
    BY <2>1 DEF SessionsTypeOK, TurnInv, SlotInv, FirstStartHoldsSlot, Start, RestartStart, PresentSessions
<1>. QED
  BY <1>1, <1>2, <1>3, <1>4, <1>5, <1>6, <1>7, <1>8, <1>9, <1>10, <1>11, <1>12, <1>13,
     <1>14, <1>15, <1>16, <1>17, <1>18, <1>19, <1>20, <1>21, <1>22, <1>23
  DEF SessionsNext, Creation, InitJob, Starting, Restarting, Reaping


\* An admitted session holds its slot until its first process is attached, although the init job,
\* its failures and the requests that give up all release it by the session's id
\* (SessionReservationTracker).
THEOREM FirstStartKeepsSlot == SessionsSpec => []FirstStartHoldsSlot
<1>1. SessionsInit => TurnInv /\ SlotInv /\ FirstStartHoldsSlot
  BY DEF SessionsInit, TurnInv, SlotInv, FirstStartHoldsSlot, Start, RestartStart
<1>. QED
  BY <1>1, SlotStep, TurnStep, TypeCorrect, PTL DEF SessionsSpec

LEMMA EndedStep ==
  ASSUME SessionsTypeOK, EndedInv, [SessionsNext]_sessionVars
  PROVE  EndedInv' /\ \A s \in started' \ started : s \notin ended
<1>1. ASSUME NEW s \in Session, Register(s)
      PROVE  EndedInv' /\ \A t \in started' \ started : t \notin ended
  BY <1>1 DEF SessionsTypeOK, EndedInv, Start, RestartStart, SlotWritten, Register, starts, events
<1>2. ASSUME NEW s \in Session, EnqueueInit(s)
      PROVE  EndedInv' /\ \A t \in started' \ started : t \notin ended
  BY <1>2 DEF SessionsTypeOK, EndedInv, Start, RestartStart, SlotWritten, EnqueueInit, MoveTo, store,
     events
<1>3. ASSUME NEW s \in Session, EnqueueFails(s)
      PROVE  EndedInv' /\ \A t \in started' \ started : t \notin ended
  BY <1>3 DEF SessionsTypeOK, EndedInv, Start, RestartStart, SlotWritten, EnqueueFails,
     ReleaseAndDiscard, starts, events
<1>4. ASSUME NEW s \in Session, SetOperation(s)
      PROVE  EndedInv' /\ \A t \in started' \ started : t \notin ended
  BY <1>4 DEF SessionsTypeOK, EndedInv, Start, RestartStart, SlotWritten, SetOperation,
     ReleaseAndDiscard, PresentSessions, starts, events
<1>5. ASSUME NEW s \in Session, InitDropped(s)
      PROVE  EndedInv' /\ \A t \in started' \ started : t \notin ended
  BY <1>5 DEF SessionsTypeOK, EndedInv, Start, RestartStart, SlotWritten, InitDropped, MoveTo, store,
     events
<1>6. ASSUME NEW s \in Session, InitStart(s)
      PROVE  EndedInv' /\ \A t \in started' \ started : t \notin ended
  <2>1. PICK w \in {"spawning", "failed"} :
            /\ \A t \in Session, j \in Start :
                  phase'[t][j] = IF t = s /\ j = "init" THEN w ELSE phase[t][j]
            /\ reserved \ {s} \subseteq reserved'
            /\ w = "failed" \/ reserved' = reserved
    BY <1>6, InitMoves
  <2>. QED
    BY <1>6, <2>1 DEF SessionsTypeOK, EndedInv, InitStart, Start, store, events
<1>7. ASSUME NEW s \in Session, InitRecorded(s)
      PROVE  EndedInv' /\ \A t \in started' \ started : t \notin ended
  BY <1>7 DEF SessionsTypeOK, EndedInv, Start, RestartStart, SlotWritten, InitRecorded, MoveTo, store
<1>8. ASSUME NEW s \in Session, InitClose(s)
      PROVE  EndedInv' /\ \A t \in started' \ started : t \notin ended
  BY <1>8 DEF SessionsTypeOK, EndedInv, Start, RestartStart, SlotWritten, InitClose, MoveTo,
     ReleaseAndDiscard, events
<1>9. ASSUME NEW s \in Session, SeekBegin(s)
      PROVE  EndedInv' /\ \A t \in started' \ started : t \notin ended
  BY <1>9 DEF SessionsTypeOK, EndedInv, Start, RestartStart, SlotWritten, SeekBegin, BeginStop,
     Unlocked, MoveTo, store, events
<1>10. ASSUME NEW s \in Session, SeekProbed(s)
      PROVE  EndedInv' /\ \A t \in started' \ started : t \notin ended
  BY <1>10 DEF SessionsTypeOK, EndedInv, Start, RestartStart, SlotWritten, SeekProbed, MoveTo, store,
     events
<1>11. ASSUME NEW s \in Session, FallbackBegin(s)
      PROVE  EndedInv' /\ \A t \in started' \ started : t \notin ended
  BY <1>11 DEF SessionsTypeOK, EndedInv, Start, RestartStart, SlotWritten, FallbackBegin, BeginStop,
     Unlocked, MoveTo, store, events
<1>12. ASSUME NEW s \in Session, ReleaseSession(s)
      PROVE  EndedInv' /\ \A t \in started' \ started : t \notin ended
  BY <1>12 DEF SessionsTypeOK, EndedInv, Start, RestartStart, SlotWritten, ReleaseSession, ClaimRelease,
     Releasable, starts, events
<1>13. ASSUME NEW s \in Session, FinalizeRelease(s)
      PROVE  EndedInv' /\ \A t \in started' \ started : t \notin ended
  BY <1>13 DEF SessionsTypeOK, EndedInv, Start, RestartStart, SlotWritten, FinalizeRelease, starts
<1>14. ASSUME NEW s \in Session, ReaperRelease(s)
      PROVE  EndedInv' /\ \A t \in started' \ started : t \notin ended
  BY <1>14 DEF SessionsTypeOK, EndedInv, Start, RestartStart, SlotWritten, ReaperRelease, ClaimRelease,
     Releasable, starts, events
<1>15. ASSUME NEW s \in Session, NEW k \in RestartStart, RestartStopped(s, k)
      PROVE  EndedInv' /\ \A t \in started' \ started : t \notin ended
  <2>1. PICK w \in {"probing", "spawning", "idle"} :
            \A t \in Session, j \in Start :
                phase'[t][j] = IF t = s /\ j = k THEN w ELSE phase[t][j]
    BY <1>15, RestartMoves
  <2>2. UNCHANGED <<state, started, ended>>
    BY <1>15 DEF RestartStopped, events
  <2>3. \A t \in Session : \A j \in Start :
            phase[t][j] # "recording" => phase'[t][j] # "recording"
    BY <2>1
  <2>. QED
    BY <2>2, <2>3 DEF SessionsTypeOK, EndedInv
<1>16. ASSUME NEW s \in Session, NEW k \in RestartStart, RestartRecorded(s, k)
      PROVE  EndedInv' /\ \A t \in started' \ started : t \notin ended
  BY <1>16 DEF SessionsTypeOK, EndedInv, Start, RestartStart, SlotWritten, RestartRecorded, MoveTo,
     store, events
<1>17. ASSUME NEW s \in Session, NEW k \in Start, Spawn(s, k)
      PROVE  EndedInv' /\ \A t \in started' \ started : t \notin ended
  BY <1>17 DEF SessionsTypeOK, EndedInv, Start, RestartStart, SlotWritten, Spawn, MoveTo, store, events
<1>18. ASSUME NEW s \in Session, NEW k \in Start, SpawnFails(s, k)
      PROVE  EndedInv' /\ \A t \in started' \ started : t \notin ended
  BY <1>18 DEF SessionsTypeOK, EndedInv, Start, RestartStart, SlotWritten, SpawnFails, MoveTo,
     AfterFailure, store, events
<1>19. ASSUME NEW s \in Session, NEW k \in Start, Attach(s, k)
      PROVE  EndedInv' /\ \A t \in started' \ started : t \notin ended
  BY <1>19 DEF SessionsTypeOK, EndedInv, Start, RestartStart, SlotWritten, Attach, MoveTo, Releasable,
     events
<1>20. ASSUME NEW s \in Session, NEW k \in Start, AttachRefused(s, k)
      PROVE  EndedInv' /\ \A t \in started' \ started : t \notin ended
  BY <1>20 DEF SessionsTypeOK, EndedInv, Start, RestartStart, SlotWritten, AttachRefused, Releasable,
     MoveTo, store, events
<1>21. ASSUME NEW s \in Session, NEW k \in Start, RefusedStopped(s, k)
      PROVE  EndedInv' /\ \A t \in started' \ started : t \notin ended
  BY <1>21 DEF SessionsTypeOK, EndedInv, Start, RestartStart, SlotWritten, RefusedStopped, MoveTo,
     AfterFailure, store, events
<1>22. CASE \/ UNCHANGED sessionVars
            \/ \E s \in Session : Prepared(s)
            \/ \E s \in Session : PlaylistSeesDead(s)
            \/ \E s \in Session : ReaperPick(s)
            \/ \E s \in Session : ReaperRead(s)
            \/ \E p \in running \cup dying : Exit(p)
  <2>1. UNCHANGED <<state, phase, started, ended>>
    BY <1>22 DEF Attached, Exit, PlaylistSeesDead, Prepared, ReaperPick, ReaperRead,
       ReserveAgain, sessionVars, store, slots, starts, processes, fallback, events
  <2>. QED
    BY <2>1 DEF SessionsTypeOK, EndedInv, Start, RestartStart, SlotWritten
<1>. QED
  BY <1>1, <1>2, <1>3, <1>4, <1>5, <1>6, <1>7, <1>8, <1>9, <1>10, <1>11, <1>12, <1>13,
     <1>14, <1>15, <1>16, <1>17, <1>18, <1>19, <1>20, <1>21, <1>22
  DEF SessionsNext, Creation, InitJob, Starting, Restarting, Reaping


\* A session reported as ended is not reported as started afterwards: the release's slot write waits
\* behind the start's (StreamingManager.startSession and SessionReaper.finalizeRelease).
THEOREM StartBeforeEnd == SessionsSpec => NoStartAfterEnd
<1>1. SessionsInit => EndedInv
  BY DEF SessionsInit, EndedInv
<1>2. SessionsTypeOK /\ EndedInv /\ [SessionsNext]_sessionVars =>
        EndedInv' /\ [\A s \in started' \ started : s \notin ended]_sessionVars
  BY EndedStep
<1>. QED
  BY <1>1, <1>2, TypeCorrect, PTL DEF SessionsSpec, NoStartAfterEnd


-----------------------------------------------------------------------------
(* The limits: they are exceeded only by a restart of a session that has   *)
(* lost its slot.                                                          *)

Holders == Attached \cup reserved

HoldersOf(u) == {t \in bound \cap Holders : OwnerOf[t] = u}

WithinLimits ==
    /\ Cardinality(Holders) <= MaxSessions
    /\ \A u \in User : Cardinality(HoldersOf(u)) <= MaxSessionsPerUser

\* What the comment on forceReserve takes for granted of a restart.
RestartsHoldSlot ==
    \A s \in Session : \A k \in RestartStart :
        RestartStopped(s, k) \/ Attach(s, k) => s \in Holders

\* The request that creates a session reserves the slot again that it has.
PreparingInv ==
    \A s \in Session : creation[s] = "preparing" /\ s \in PresentSessions => s \in reserved

LEMMA PreparingStep ==
  ASSUME SessionsTypeOK, TurnInv, PreparingInv, [SessionsNext]_sessionVars
  PROVE  PreparingInv'
<1> USE DEF SessionsTypeOK, TurnInv, PreparingInv, PresentSessions
<1>1. ASSUME NEW s \in Session, Creation(s)
      PROVE  PreparingInv'
  BY <1>1 DEF Creation, Register, Prepared, EnqueueInit, EnqueueFails, SetOperation,
     ReserveAgain, ReleaseAndDiscard, store, slots
<1>2. ASSUME NEW s \in Session, InitJob(s)
      PROVE  PreparingInv'
  <2>1. creation' = creation /\ creation[s] # "preparing"
    BY <1>2 DEF InitJob, InitDropped, InitStart, InitRecorded, InitClose
  <2>2. \A t \in Session \ {s} : state'[t] = state[t] /\ (t \in reserved => t \in reserved')
    BY <1>2 DEF InitJob, InitDropped, InitStart, InitRecorded, InitClose, ReleaseAndDiscard,
       ReleaseReservation, store, slots
  <2>. QED
    BY <2>1, <2>2
<1>3. ASSUME NEW s \in Session, NEW k \in Start,
             Starting(s, k) \/ (k \in RestartStart /\ Restarting(s, k))
      PROVE  PreparingInv'
  <2>1. creation' = creation
    BY <1>3 DEF Starting, Spawn, SpawnFails, Attach, AttachRefused, RefusedStopped,
       Restarting, RestartStopped, RestartRecorded
  <2>2. creation[s] # "preparing"
    BY <1>3 DEF Starting, Spawn, SpawnFails, Attach, AttachRefused, RefusedStopped,
       Restarting, RestartStopped, RestartRecorded, Start, RestartStart
  <2>3. \A t \in Session \ {s} : state'[t] = state[t] /\ (t \in reserved => t \in reserved')
    BY <1>3 DEF Starting, Spawn, SpawnFails, Attach, AttachRefused, RefusedStopped,
       Restarting, RestartStopped, RestartRecorded, ReleaseReservation, ReserveAgain, store, slots
  <2>. QED
    BY <2>1, <2>2, <2>3
<1>4. ASSUME NEW s \in Session, ReleaseSession(s) \/ ReaperRelease(s)
      PROVE  PreparingInv'
  BY <1>4 DEF ReleaseSession, ReaperRelease, ClaimRelease, Releasable, slots
<1>5. ASSUME NEW s \in Session, FinalizeRelease(s)
      PROVE  PreparingInv'
  BY <1>5 DEF FinalizeRelease, FreeSlot
<1>6. CASE \/ UNCHANGED sessionVars
           \/ \E s \in Session : \/ SeekBegin(s) \/ SeekProbed(s)
                                 \/ PlaylistSeesDead(s) \/ FallbackBegin(s)
                                 \/ ReaperPick(s) \/ ReaperRead(s)
           \/ \E p \in running \cup dying : Exit(p)
  <2>1. UNCHANGED <<state, creation, reserved>>
    BY <1>6 DEF SeekBegin, SeekProbed, PlaylistSeesDead, FallbackBegin, ReaperPick, ReaperRead,
       Exit, sessionVars, store, slots
  <2>. QED
    BY <2>1
<1>. QED
  BY <1>1, <1>2, <1>3, <1>4, <1>5, <1>6 DEF SessionsNext, Reaping, Start

\* Only an admission gives a slot to a session that holds none.
LEMMA HoldersStep ==
  ASSUME SessionsTypeOK, TurnInv, FirstStartHoldsSlot, PreparingInv, RestartsHoldSlot,
         [SessionsNext]_sessionVars, \A s \in Session : ~Register(s)
  PROVE  Holders' \subseteq Holders /\ bound' \subseteq bound
<1> USE DEF SessionsTypeOK, Holders, Attached
<1>1. ASSUME NEW s \in Session, Creation(s)
      PROVE  Holders' \subseteq Holders /\ bound' \subseteq bound
  BY <1>1 DEF Creation, Prepared, EnqueueInit, EnqueueFails, SetOperation, PreparingInv,
     ReserveAgain, ReleaseAndDiscard, store, slots
<1>2. ASSUME NEW s \in Session, InitJob(s)
      PROVE  Holders' \subseteq Holders /\ bound' \subseteq bound
  BY <1>2 DEF InitJob, InitDropped, InitStart, InitRecorded, InitClose, ReleaseAndDiscard,
     ReleaseReservation, store, slots
<1>3. ASSUME NEW s \in Session, NEW k \in RestartStart, Restarting(s, k)
      PROVE  Holders' \subseteq Holders /\ bound' \subseteq bound
  <2>1. CASE RestartStopped(s, k)
    <3>1. s \in Holders
      BY <2>1 DEF RestartsHoldSlot
    <3>. QED
      BY <2>1, <3>1 DEF RestartStopped, ReserveAgain
  <2>2. CASE RestartRecorded(s, k)
    BY <2>2 DEF RestartRecorded, store, slots
  <2>. QED
    BY <1>3, <2>1, <2>2 DEF Restarting
<1>4. ASSUME NEW s \in Session, NEW k \in Start, Starting(s, k)
      PROVE  Holders' \subseteq Holders /\ bound' \subseteq bound
  <2>1. CASE Attach(s, k)
    <3>1. s \in Holders
      <4>1. CASE k = "init"
        BY <2>1, <4>1 DEF Attach, Releasable, TurnInv, FirstStartHoldsSlot
      <4>2. CASE k \in RestartStart
        BY <2>1, <4>2 DEF RestartsHoldSlot
      <4>. QED
        BY <4>1, <4>2 DEF Start
    <3>. QED
      BY <2>1, <3>1 DEF Attach
  <2>2. CASE ~Attach(s, k)
    BY <1>4, <2>2 DEF Starting, Spawn, SpawnFails, AttachRefused, RefusedStopped,
       ReleaseReservation, store, slots
  <2>. QED
    BY <2>1, <2>2
<1>5. ASSUME NEW s \in Session, FinalizeRelease(s)
      PROVE  Holders' \subseteq Holders /\ bound' \subseteq bound
  BY <1>5 DEF FinalizeRelease, FreeSlot
<1>6. CASE \/ UNCHANGED sessionVars
           \/ \E s \in Session : \/ SeekBegin(s) \/ SeekProbed(s)
                                 \/ PlaylistSeesDead(s) \/ FallbackBegin(s)
                                 \/ Reaping(s) \/ ReleaseSession(s)
           \/ \E p \in running \cup dying : Exit(p)
  <2>1. UNCHANGED <<process, reserved, bound>>
    BY <1>6 DEF SeekBegin, SeekProbed, PlaylistSeesDead, FallbackBegin, Reaping, ReaperPick,
       ReaperRead, ReaperRelease, ReleaseSession, Exit, sessionVars, store, slots
  <2>. QED
    BY <2>1
<1>. QED
  BY <1>1, <1>2, <1>3, <1>4, <1>5, <1>6 DEF SessionsNext

\* What admits a session leaves room for it.
LEMMA AdmissionFits ==
  ASSUME SessionsTypeOK, TurnInv, NoLeakedSlot, WithinLimits, NEW s \in Session, Register(s)
  PROVE  WithinLimits'
<1>1. /\ IsFiniteSet(Holders) /\ IsFiniteSet(Attached) /\ IsFiniteSet(reserved \ Attached)
      /\ \A u \in User : IsFiniteSet(HoldersOf(u))
  BY SessionAssumption, FS_Subset DEF SessionsTypeOK, Attached, Holders, HoldersOf
<1>2. /\ s \notin Holders /\ Holders' = Holders \cup {s}
      /\ bound' = bound \cup {s} /\ s \notin bound
  BY DEF SessionsTypeOK, TurnInv, NoLeakedSlot, PresentSessions, Register, Holders, Attached
<1>3. Cardinality(Holders) = Cardinality(Attached) + Cardinality(reserved \ Attached)
  <2>1. Holders = Attached \cup (reserved \ Attached) /\ Attached \cap (reserved \ Attached) = {}
    BY DEF Holders
  <2>2. Cardinality(Attached \cup (reserved \ Attached))
          = Cardinality(Attached) + Cardinality(reserved \ Attached)
            - Cardinality(Attached \cap (reserved \ Attached))
    BY <1>1, FS_Union
  <2>3. /\ Cardinality(Attached \cap (reserved \ Attached)) = 0
        /\ Cardinality(Attached) \in Nat /\ Cardinality(reserved \ Attached) \in Nat
    BY <1>1, <2>1, FS_EmptySet, FS_CardinalityType
  <2>. QED
    BY <2>1, <2>2, <2>3
<1>4. Cardinality(Holders') <= MaxSessions
  <2>1. Cardinality(Holders') = Cardinality(Holders) + 1
    BY <1>1, <1>2, FS_AddElement
  <2>2. Cardinality(Holders) < MaxSessions
    BY <1>3 DEF Register, CanReserve
  <2>. QED
    BY <1>1, <2>1, <2>2, FS_CardinalityType, SessionLimitAssumption
<1>5. ASSUME NEW u \in User PROVE Cardinality(HoldersOf(u)') <= MaxSessionsPerUser
  <2>1. CASE u = OwnerOf[s]
    <3>1. HoldersOf(u)' = HoldersOf(u) \cup {s} /\ s \notin HoldersOf(u)
      BY <1>2, <2>1 DEF HoldersOf
    <3>2. Cardinality(HoldersOf(u)') = Cardinality(HoldersOf(u)) + 1
      BY <1>1, <3>1, FS_AddElement
    <3>3. HoldersOf(u) = {t \in bound : OwnerOf[t] = OwnerOf[s] /\ t \in Attached \cup reserved}
      BY <2>1 DEF HoldersOf, Holders
    <3>4. Cardinality(HoldersOf(u)) < MaxSessionsPerUser
      BY <3>3 DEF Register, CanReserve
    <3>. QED
      BY <1>1, <3>2, <3>4, FS_CardinalityType, SessionLimitAssumption
  <2>2. CASE u # OwnerOf[s]
    <3>1. HoldersOf(u)' = HoldersOf(u)
      BY <1>2, <2>2 DEF HoldersOf
    <3>. QED
      BY <3>1 DEF WithinLimits
  <2>. QED
    BY <2>1, <2>2
<1>. QED
  BY <1>4, <1>5 DEF WithinLimits

LEMMA LimitsStep ==
  ASSUME SessionsTypeOK, TurnInv, NoLeakedSlot, FirstStartHoldsSlot, PreparingInv, WithinLimits,
         RestartsHoldSlot, [SessionsNext]_sessionVars
  PROVE  WithinLimits'
<1>1. CASE \E s \in Session : Register(s)
  BY <1>1, AdmissionFits
<1>2. CASE \A s \in Session : ~Register(s)
  <2>1. Holders' \subseteq Holders /\ \A u \in User : HoldersOf(u)' \subseteq HoldersOf(u)
    BY <1>2, HoldersStep DEF HoldersOf
  <2>2. IsFiniteSet(Holders) /\ \A u \in User : IsFiniteSet(HoldersOf(u))
    BY SessionAssumption, FS_Subset DEF SessionsTypeOK, Attached, Holders, HoldersOf
  <2>3. /\ Cardinality(Holders') <= Cardinality(Holders)
        /\ \A u \in User : Cardinality(HoldersOf(u)') <= Cardinality(HoldersOf(u))
    BY <2>1, <2>2, FS_Subset
  <2>4. /\ Cardinality(Holders) \in Nat /\ Cardinality(Holders') \in Nat
        /\ \A u \in User : Cardinality(HoldersOf(u)) \in Nat /\ Cardinality(HoldersOf(u)') \in Nat
    BY <2>1, <2>2, FS_Subset, FS_CardinalityType
  <2>. QED
    BY <2>3, <2>4, SessionLimitAssumption DEF WithinLimits
<1>. QED
  BY <1>1, <1>2

\* The sessions with a process or a reservation are never more than stream.maxSessions, nor those
\* of a user more than stream.maxSessionsPerUser, as long as a restart only ever concerns a session
\* that still has its slot, as the comment on forceReserve says (session-reservation.tracker.ts):
\* requests, releases, the reaper and failed starts, in any order, cannot exceed the limits.
THEOREM LimitsKept ==
  SessionsSpec /\ [][RestartsHoldSlot]_sessionVars => []WithinLimits
<1>1. SessionsInit => TurnInv /\ SlotInv /\ FirstStartHoldsSlot /\ PreparingInv /\ WithinLimits
  <2> SUFFICES ASSUME SessionsInit
               PROVE  TurnInv /\ SlotInv /\ FirstStartHoldsSlot /\ PreparingInv /\ WithinLimits
    OBVIOUS
  <2>1. TurnInv /\ SlotInv /\ FirstStartHoldsSlot /\ PreparingInv
    BY DEF SessionsInit, TurnInv, SlotInv, FirstStartHoldsSlot, PreparingInv, Start, RestartStart
  <2>2. Holders = {} /\ \A u \in User : HoldersOf(u) = {}
    BY DEF SessionsInit, Holders, HoldersOf, Attached
  <2>3. WithinLimits
    BY <2>2, FS_EmptySet, SessionLimitAssumption DEF WithinLimits
  <2>. QED
    BY <2>1, <2>3
<1>2. SessionsTypeOK /\ TurnInv /\ NoLeakedSlot /\ FirstStartHoldsSlot /\ PreparingInv /\ WithinLimits
        /\ [RestartsHoldSlot]_sessionVars /\ [SessionsNext]_sessionVars => WithinLimits'
  <2>1. UNCHANGED sessionVars /\ WithinLimits => WithinLimits'
    BY DEF WithinLimits, Holders, HoldersOf, Attached, sessionVars, store, slots
  <2>. QED
    BY <2>1, LimitsStep
<1>. QED
  BY <1>1, <1>2, PreparingStep, SlotStep, TurnStep, TypeCorrect, NoLeak, PTL DEF SessionsSpec
=============================================================================
