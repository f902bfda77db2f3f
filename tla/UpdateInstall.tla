---------------------------- MODULE UpdateInstall ----------------------------
(***************************************************************************)
(* Installing an update and rolling it back (services/updates): the job    *)
(* and its stages, cancellation, and the renames that replace the server   *)
(* or the web UI, each of which may fail or be cut off by a crash.         *)
(*                                                                         *)
(* A file is one entry of the install root, or of one of the directories   *)
(* beside it, and is known by the version it is of; 0 is no file.  The two *)
(* scratch directories of a release that is not in place yet are one here. *)
(* One process installs: history, notifications and the clean-up of the    *)
(* download, which have no part in this, are assumed to succeed.           *)
(***************************************************************************)
EXTENDS Integers, Sequences

CONSTANTS
    MaxVersion,     \* bound: the newest version
    Platforms,      \* whether the platform is Windows
    UpdateMishaps   \* bound: failed stages and renames, crashes

ASSUME UpdateAssumption ==
    /\ MaxVersion \in Nat \ {0}
    /\ Platforms \subseteq BOOLEAN
    /\ UpdateMishaps \in Nat

Component == {"server", "web"}

\* componentNames, in its order; the launchers are left out.
NamesOf == [server |-> <<"server", "bun", "bin">>, web |-> <<"web">>]

Name == {"server", "bun", "bin", "web"}

\* What an archive of the component carries: not the bundled ffmpeg.
Carried == [server |-> {"server", "bun"}, web |-> {"web"}]

Version == 0..MaxVersion

Nothing == [n \in Name |-> 0]

VARIABLES
    root, previous, staged, discard, \* the directories
    marker,         \* the version a component can be rolled back to, 0 without a marker
    updateJob,      \* state.job: the component and the stage, or NoJob
    aborted,        \* the signal of the job's AbortController
    running,        \* the version of the server process, 0 when it is down
    windows,        \* the platform
    updateMishaps

files == <<root, previous, staged, discard, marker>>
updateVars == <<files, updateJob, aborted, running, windows, updateMishaps>>

NoJob == [target |-> "none", state |-> "none"]

\* During the backup the code's state still reads "verifying".
Cancellable == {"downloading", "verifying", "backup", "extracting"}

UpdateTypeOK ==
    /\ {root, previous, staged, discard} \subseteq [Name -> Version]
    /\ marker \in [Component -> Version]
    /\ updateJob \in {NoJob} \cup [ target : Component,
                                    state : Cancellable \cup {"swapping", "restarting"} ]
    /\ {aborted, windows} \subseteq BOOLEAN
    /\ running \in Version
    /\ updateMishaps \in 0..UpdateMishaps

UpdateMishap == updateMishaps < UpdateMishaps /\ updateMishaps' = updateMishaps + 1

Installed(c) == IF c = "server" THEN running ELSE root["web"]

AtStage(state) == updateJob.state = state

Stage(state) == updateJob' = [updateJob EXCEPT !.state = state]
-----------------------------------------------------------------------------
(* swapIntoPlace and swapWebDirectory; new is the release that was extracted *)

Release(c) == [n \in Name |-> IF n \in Carried[c] THEN MaxVersion ELSE 0]

First(c, k) == {NamesOf[c][i] : i \in 1..k}

All(c) == Len(NamesOf[c])

\* What the first loop moves of the first k names.
Aside(c, new, k) == {n \in First(c, k) : root[n] # 0 /\ (n = "bin" => new[n] # 0)}

RootWithout(A) == [n \in Name |-> IF n \in A THEN 0 ELSE root[n]]

\* Faulty variant: what is not moved aside loses its backup.
PreviousOnly(c, A) ==
    [n \in Name |-> IF n \in A THEN root[n]
                    ELSE IF n \in First(c, All(c)) THEN 0 ELSE previous[n]]

PreviousWith(c, A) == [n \in Name |-> IF n \in A THEN root[n] ELSE previous[n]]

Marked(c) == marker' = [marker EXCEPT ![c] = root[NamesOf[c][1]]]

\* The second loop has placed the first k names.
Placed(c, new, k) ==
    [n \in Name |-> IF n \in First(c, k) /\ new[n] # 0 THEN new[n]
                    ELSE RootWithout(Aside(c, new, All(c)))[n]]

Swap(c, new) ==
    /\ root' = Placed(c, new, All(c))
    /\ previous' = PreviousWith(c, Aside(c, new, All(c)))
    /\ Marked(c)

\* The first loop or the marker's write stops: what was moved stays aside.
StopsAside(c, new) ==
    \E k \in 0..All(c) :
        /\ root' = RootWithout(Aside(c, new, k))
        /\ previous' = PreviousWith(c, Aside(c, new, k))
        /\ UNCHANGED marker

\* The second loop is cut off.
StopsPlacing(c, new) ==
    /\ \E k \in 0..(All(c) - 1) : root' = Placed(c, new, k)
    /\ previous' = PreviousWith(c, Aside(c, new, All(c)))
    /\ Marked(c)

\* It fails: what was placed is removed and the backups are moved back.  The marker stays.
FailsPlacing(c, new) ==
    LET backup == PreviousWith(c, Aside(c, new, All(c)))
        back   == {n \in First(c, All(c)) : backup[n] # 0}
    IN  /\ root' = [n \in Name |-> IF n \in back THEN backup[n]
                                   ELSE RootWithout(Aside(c, new, All(c)))[n]]
        /\ previous' = [n \in Name |-> IF n \in back THEN 0 ELSE backup[n]]
        /\ Marked(c)
-----------------------------------------------------------------------------
(* The stages of an install *)

StartInstall(c) ==
    /\ running # 0 /\ updateJob = NoJob
    /\ Installed(c) \in 1..(MaxVersion - 1)
    /\ updateJob' = [target |-> c, state |-> "downloading"]
    /\ aborted' = FALSE
    /\ UNCHANGED <<files, running, windows, updateMishaps>>

CancelInstall ==
    /\ updateJob.state \in Cancellable
    /\ aborted' = TRUE
    /\ UNCHANGED <<files, updateJob, running, windows, updateMishaps>>

GoTo(state) ==
    /\ updateJob' = [updateJob EXCEPT !.state = state]
    /\ UNCHANGED <<files, aborted, running, windows, updateMishaps>>

Downloaded == AtStage("downloading") /\ ~aborted /\ GoTo("verifying")

\* The checksum is right.  Only before a server update the database is copied and checked.
Verified ==
    /\ AtStage("verifying") /\ ~aborted
    /\ GoTo(IF updateJob.target = "web" THEN "extracting" ELSE "backup")

\* Files in use cannot be replaced on Windows: the checkpoint comes before
\* the archive is extracted there, and the swap after the process has ended.
Checked ==
    /\ AtStage("backup")
    /\ \/ windows /\ ~aborted /\ GoTo("swapping")
       \/ ~windows /\ GoTo("extracting")

\* Faulty variant: the checkpoint between extraction and swap is missing.
ExtractedOnly == AtStage("extracting")

\* The archive is extracted, and the install was not cancelled meanwhile.
Extracted == AtStage("extracting") /\ ~aborted

\* A web UI is live at once; a server is restarted.
SwapIn(c) ==
    /\ Extracted /\ updateJob.target = c
    /\ Swap(c, Release(c))
    /\ updateJob' = IF c = "web" THEN NoJob ELSE [updateJob EXCEPT !.state = "restarting"]
    /\ UNCHANGED <<staged, discard, aborted, running, windows, updateMishaps>>

ExtractedForScript ==
    /\ AtStage("swapping")
    /\ staged' = Release("server")
    /\ updateJob' = [updateJob EXCEPT !.state = "restarting"]
    /\ UNCHANGED <<root, previous, discard, marker, aborted, running, windows, updateMishaps>>

SwapFails(c) ==
    /\ UpdateMishap
    /\ Extracted /\ updateJob.target = c
    /\ StopsAside(c, Release(c)) \/ FailsPlacing(c, Release(c))
    /\ updateJob' = NoJob
    /\ UNCHANGED <<staged, discard, aborted, running, windows>>

\* The run ends where it is: it was cancelled, which ends a download at once
\* and every other stage at its checkpoint, or its stage failed.
StageEnds ==
    /\ updateJob.state \in Cancellable \cup {"swapping"}
    /\ \/ aborted /\ UNCHANGED updateMishaps
       \/ UpdateMishap
    /\ updateJob' = NoJob
    /\ UNCHANGED <<files, aborted, running, windows>>
-----------------------------------------------------------------------------
(* Rollback, restart and crash *)

\* swapBackFromPrevious, over the names N, H of them moved away only.
SwapBack(N, H) ==
    /\ root' = [n \in Name |-> IF n \in H THEN 0 ELSE IF n \in N THEN previous[n] ELSE root[n]]
    /\ discard' = [n \in Name |-> IF n \in N \cup H /\ root[n] # 0 THEN root[n] ELSE discard[n]]

\* A name cannot be moved where an earlier rollback has left one.
Occupied(n) == root[n] # 0 /\ discard[n] # 0

\* The server's marker is never written on Windows.
CanRollBack(c) == running # 0 /\ updateJob = NoJob /\ marker[c] # 0

Rollback(c) ==
    LET names == First(c, All(c))
    IN  /\ CanRollBack(c)
        /\ \A n \in names : ~Occupied(n)
        /\ SwapBack(names, {})
        /\ marker' = [marker EXCEPT ![c] = 0]
        /\ previous' = [n \in Name |-> IF n \in names \/ marker' = [d \in Component |-> 0]
                                       THEN 0 ELSE previous[n]]
        /\ updateJob' = IF c = "web" THEN NoJob ELSE [target |-> c, state |-> "restarting"]
        /\ UNCHANGED <<staged, aborted, running, windows, updateMishaps>>

\* It stops at a name; the marker stays.
StopsBack(c, k, H) ==
    /\ SwapBack(First(c, k), H)
    /\ previous' = [n \in Name |-> IF n \in First(c, k) THEN 0 ELSE previous[n]]
    /\ UNCHANGED <<staged, marker>>

RollbackFails(c) ==
    /\ CanRollBack(c)
    /\ \E k \in 0..(All(c) - 1) :
          LET n == NamesOf[c][k + 1]
          IN  /\ \A i \in 1..k : ~Occupied(NamesOf[c][i])
              /\ \/ Occupied(n) /\ StopsBack(c, k, {}) /\ UNCHANGED updateMishaps
                 \/ UpdateMishap /\ ~Occupied(n) /\ \E H \in {{}, {n}} : StopsBack(c, k, H)
    /\ UNCHANGED <<updateJob, aborted, running, windows>>

Down == running' = 0 /\ updateJob' = NoJob

\* The script that waits on Windows for the end of the process.
SwapScript ==
    LET names == First("server", All("server"))
    IN  /\ previous' = [n \in Name |-> IF n \in names THEN root[n] ELSE 0]
        /\ root' = [n \in Name |-> IF n \in names THEN staged[n] ELSE root[n]]
        /\ marker' = [c \in Component |-> 0]
        /\ staged' = Nothing
        /\ discard' = Nothing

\* The server ends after its files were swapped, or before on Windows.
Exit ==
    /\ AtStage("restarting")
    /\ Down
    /\ IF windows THEN SwapScript ELSE UNCHANGED files
    /\ UNCHANGED <<aborted, windows, updateMishaps>>

Crash ==
    /\ UpdateMishap
    /\ running # 0 /\ ~AtStage("restarting")
    /\ Down
    /\ UNCHANGED <<files, aborted, windows>>

\* What was extracted is left behind.
CrashInSwap(c) ==
    /\ UpdateMishap
    /\ Extracted /\ updateJob.target = c
    /\ StopsAside(c, Release(c)) \/ StopsPlacing(c, Release(c))
    /\ Down
    /\ \E S \in SUBSET Carried[c] :
          staged' = [n \in Name |-> IF n \in S THEN MaxVersion ELSE 0]
    /\ UNCHANGED <<discard, aborted, windows>>

\* A server whose files are there is started; scratch directories are removed.
Boot ==
    /\ running = 0
    /\ root["server"] # 0 /\ root["bun"] # 0
    /\ running' = root["server"]
    /\ staged' = Nothing
    /\ discard' = Nothing
    /\ aborted' = FALSE
    /\ UNCHANGED <<root, previous, marker, updateJob, windows, updateMishaps>>
-----------------------------------------------------------------------------
UpdateInit ==
    /\ root = [n \in Name |-> 1]
    /\ previous = Nothing
    /\ staged = Nothing
    /\ discard = Nothing
    /\ marker = [c \in Component |-> 0]
    /\ updateJob = NoJob
    /\ aborted = FALSE
    /\ running = 1
    /\ windows \in Platforms
    /\ updateMishaps = 0

UpdateNext ==
    \/ \E c \in Component :
          \/ StartInstall(c) \/ SwapIn(c) \/ SwapFails(c) \/ CrashInSwap(c)
          \/ Rollback(c) \/ RollbackFails(c)
    \/ CancelInstall \/ Downloaded \/ Verified \/ Checked \/ ExtractedForScript
    \/ StageEnds \/ Exit \/ Crash \/ Boot

UpdateSpec == UpdateInit /\ [][UpdateNext]_updateVars
-----------------------------------------------------------------------------
Kept(n) == root[n] # 0 \/ previous[n] # 0

\* Whatever stops a swap, and whatever an earlier one that was stopped left behind: each file is still in
\* place or in the backup (update-swap.utils.ts:32-70, 77-89).
SwapLosesNothing ==
    [][AtStage("extracting") => \A n \in Name : Kept(n) => Kept(n)']_updateVars

\* An install that was cancelled replaces no file, at whatever stage the request comes
\* (actions.service.ts:28, 76-79, apply.service.ts:30, 46, 60).
CancelledReplacesNothing ==
    [][aborted /\ updateJob.state \in Cancellable => UNCHANGED <<root, previous>>]_updateVars

\* The bundled ffmpeg, which no archive carries, stays in place (update-swap.utils.ts:16-18).
BinStaysLive == [][root["bin"] # 0 => root'["bin"] # 0]_updateVars
=============================================================================
