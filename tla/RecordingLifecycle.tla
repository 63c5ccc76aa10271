-------------------------- MODULE RecordingLifecycle --------------------------
(***************************************************************************)
(* Recordings from the operator's request to the finished TS file: the web *)
(* process's StartRecording and StopRecording, the command queue, the      *)
(* worker's start and stop handlers, the recording goroutine,              *)
(* finalizeRecording, the recovery scan after a restart, and every crash   *)
(* between two database writes or file operations.                         *)
(*                                                                         *)
(* The queue is the one of CommandQueue, used through Queue.  How one      *)
(* recording goroutine runs and stops its FFmpeg is RecordingProcess; here *)
(* it is "run" until it ends.  What a conversion does is MediaJobs; here   *)
(* generate_mp4 only has a handler that returns.                           *)
(*                                                                         *)
(* A worker's crash or exit ends its FFmpeg processes with it: they live   *)
(* in the worker's container.                                              *)
(***************************************************************************)
EXTENDS Naturals, Sequences, FiniteSets

CONSTANTS
    Recordings,   \* recordings ever requested
    Streams,
    StreamOf,     \* the stream of each recording
    AutoMP4,      \* recordings whose stream had auto_mp4 set
    MaxActive,    \* cfg.MaxActiveRecordings
    MaxCommands, MaxLimit, MaxStops, MaxFaults,
    MaxLost       \* bound: lost writes to the recordings and their files' rows

ASSUME RecordingsAssumption ==
    /\ Recordings # {}
    /\ StreamOf \in [Recordings -> Streams]
    /\ AutoMP4 \subseteq Recordings
ASSUME BoundsAssumption ==
    /\ {MaxActive, MaxCommands, MaxLimit} \subseteq Nat \ {0}
    /\ {MaxStops, MaxFaults, MaxLost} \subseteq Nat

VARIABLES
    commands, handlers, conversions, limit, worker, requeue, stops, faults,
    rec,     \* recordings.status, or "none" before the request
    path,    \* recordings with a working_path
    disk,    \* the recording's file: "none", "part" with data, "old" if an earlier
             \* run left that, or "final"
    tsRow,   \* recordings with a media_files row of kind ts
    hpc,     \* where the handler of each command is
    proc,    \* Runner.recordings: the goroutine of each registered recording
    stop,    \* recordings whose process has a stopReason
    fin,     \* where finalizeRecording is, for the recording it works on
    todo,    \* recordings recoverInterrupted has still to deal with
    scanned, \* it has read that list
    asked,   \* recordings for which a StopRecording is about to insert a row
    lost     \* lost writes so far

queueVars == <<commands, handlers, conversions, limit, worker, requeue, stops, faults>>
rows      == <<rec, path, tsRow>>
memory    == <<hpc, proc, stop, fin, todo, scanned>>
vars      == <<queueVars, rows, disk, memory, asked, lost>>

Queue == INSTANCE CommandQueue WITH Targets <- Recordings

Active   == {"waiting_input", "recording", "finalizing"}
Terminal == {"ready", "failed"}

ActiveSet == {r \in Recordings : rec[r] \in Active}

Of(r, kind) == {i \in DOMAIN commands : commands[i].kind = kind /\ commands[i].target = r}
Unfinished(i) == commands[i].status \in {"pending", "claimed"}

\* Part of the bound on commands: the web process leaves room for the automatic
\* conversions still to be queued.
Room == Len(commands) + Cardinality({r \in AutoMP4 : Of(r, "generate_mp4") = {}})
            < MaxCommands

Goto(i, s) == hpc' = [hpc EXCEPT ![i] = s]

\* Faulty variant of SetRec: a status that nobody else knows.
SetRecUnknown(r, s) == rec' = [rec EXCEPT ![r] = IF s = "ready" THEN "done" ELSE s]

SetRec(r, s) == rec' = [rec EXCEPT ![r] = s]
SetFin(r, s) == fin' = [fin EXCEPT ![r] = s]

\* One of the worker's writes fails: the bound on such faults.
Lose   == lost < MaxLost /\ lost' = lost + 1
Stored == UNCHANGED lost
NothingLost == faults = 0 /\ lost = 0

-----------------------------------------------------------------------------

Init ==
    /\ Queue!Init
    /\ rec = [r \in Recordings |-> "none"]
    /\ disk = [r \in Recordings |-> "none"]
    /\ path = {} /\ tsRow = {}
    /\ hpc = [i \in 1..MaxCommands |-> "none"]
    /\ proc = [r \in Recordings |-> "none"]
    /\ fin = [r \in Recordings |-> "none"]
    /\ stop = {} /\ todo = {} /\ asked = {}
    /\ scanned = FALSE
    /\ lost = 0

(* The web process --------------------------------------------------------- *)

\* Store.StartRecording: one transaction under the advisory lock; the unique
\* index allows one active recording per stream.
StartRecording(r) ==
    /\ rec[r] = "none"
    /\ Cardinality(ActiveSet) < MaxActive
    /\ \A a \in ActiveSet : StreamOf[a] # StreamOf[r]
    /\ SetRec(r, "waiting_input")
    /\ Room /\ Queue!Enqueue("start_recording", r)
    /\ UNCHANGED <<path, disk, tsRow, memory, asked, lost>>

\* Store.StopRecording reads: there is nothing to do for a recording that has
\* ended, nor if a stop is already on its way.
AskStop(r) ==
    /\ r \notin asked
    /\ rec[r] \in Active
    /\ \A i \in Of(r, "stop_recording") : ~Unfinished(i)
    /\ asked' = asked \cup {r}
    /\ UNCHANGED <<queueVars, rows, disk, memory, lost>>

\* Later, in a statement of its own, it inserts the command; another request may
\* have read the same and insert one too.
InsertStop(r) ==
    /\ r \in asked
    /\ Room /\ Queue!Enqueue("stop_recording", r)
    /\ asked' \in {asked, asked \ {r}}
    /\ UNCHANGED <<rows, disk, memory, lost>>

\* A conversion's job may be over although its handler has not yet returned.
JobMayBeOver(i) == ~Unfinished(i) \/ i \in handlers

\* Faulty variant of Convertible: the row's status is not looked at.
ConvertibleAnyStatus(r) == \A i \in Of(r, "generate_mp4") : JobMayBeOver(i)

\* Store.QueueMP4 inserts a job and its command for a recording that is ready
\* and has no active job.
Convertible(r) == rec[r] = "ready" /\ \A i \in Of(r, "generate_mp4") : JobMayBeOver(i)

\* An operator asks for a conversion.
QueueMP4(r) ==
    /\ Convertible(r)
    /\ Room /\ Queue!Enqueue("generate_mp4", r)
    /\ UNCHANGED <<rows, disk, memory, asked, lost>>

(* The queue ---------------------------------------------------------------- *)

Claim(i) ==
    /\ Queue!Dispatch(i)
    /\ Goto(i, "begin")
    /\ UNCHANGED <<rows, disk, proc, stop, fin, todo, scanned, asked, lost>>

\* A handler that is through returns; a conversion's returns whenever it does.
Finished(i, outcome) ==
    \/ outcome = "done" /\ hpc[i] = "ok"
    \/ outcome = "failed" /\ hpc[i] = "error"
    \/ commands[i].kind = "generate_mp4"

Complete(i) ==
    /\ \/ \E o \in {"done", "failed"} : Finished(i, o) /\ Queue!HandlerReturns(i, o)
       \/ hpc[i] \in {"ok", "error"} /\ Queue!CompletionLost(i)
    /\ Goto(i, "none")
    /\ UNCHANGED <<rows, disk, proc, stop, fin, todo, scanned, asked, lost>>

QueueOnly ==
    /\ \/ Queue!Requeue \/ Queue!RequeueLost
       \/ \E i \in DOMAIN commands : Queue!ClaimWithoutSlot(i) \/ Queue!ClaimUncertain(i)
    /\ UNCHANGED <<rows, disk, memory, asked, lost>>

SettingsTick ==
    /\ \E l \in Queue!Limits : Queue!SettingsTick(l)
    /\ UNCHANGED <<rows, disk, memory, asked, lost>>

(* Runner.startRecording ---------------------------------------------------- *)

Handling(i, kind, place) ==
    /\ i \in handlers /\ commands[i].kind = kind /\ hpc[i] = place

\* Faulty variant of Startable: the row's status is not looked at.
StartableAnyStatus(r) == worker # "stopping"

\* The worker is not stopping and the row still waits for its start.
Startable(r) == worker # "stopping" /\ rec[r] = "waiting_input"

\* Every check passes and the working path is stored.
StartChecks(i) ==
    LET r == commands[i].target IN
    /\ Handling(i, "start_recording", "begin")
    /\ Startable(r)
    /\ path' = path \cup {r}
    /\ Goto(i, "register")
    /\ UNCHANGED <<queueVars, rec, disk, tsRow, proc, stop, fin, todo, scanned, asked, lost>>

\* A check fails: the status, the disk's soft level, the stream, the key, the
\* directory, or the write of the path.
StartRefused(i) ==
    /\ Handling(i, "start_recording", "begin")
    /\ Goto(i, "refuse")
    /\ UNCHANGED <<queueVars, rows, disk, proc, stop, fin, todo, scanned, asked, lost>>

\* handleCommand marks the recording failed, whatever its status is; an error
\* of that write is ignored.
StartFails(i) ==
    LET r == commands[i].target IN
    /\ Handling(i, "start_recording", "refuse")
    /\ \/ SetRec(r, "failed") /\ Stored
       \/ Lose /\ UNCHANGED rec
    /\ Goto(i, "error")
    /\ UNCHANGED <<queueVars, asked, path, tsRow, disk, proc, stop, fin, todo, scanned>>

\* The process is registered and its goroutine started.
StartRegisters(i) ==
    LET r == commands[i].target IN
    /\ Handling(i, "start_recording", "register")
    /\ IF proc[r] # "none"
       THEN Goto(i, "refuse") /\ UNCHANGED <<proc, stop>>
       ELSE /\ Goto(i, "ok")
            /\ proc' = [proc EXCEPT ![r] = "run"]
            /\ stop' = stop \ {r}
    /\ disk' = [disk EXCEPT ![r] = IF proc[r] = "none" /\ @ = "part" THEN "old" ELSE @]
    /\ UNCHANGED <<queueVars, rows, fin, todo, scanned, asked, lost>>

(* Runner.stopRecording and the other stops --------------------------------- *)

Registered == {r \in Recordings : proc[r] # "none"}

\* A registered process is told to stop; without one the command succeeds
\* only if the recording has ended.
StopHandled(i) ==
    LET r == commands[i].target IN
    /\ Handling(i, "stop_recording", "begin")
    /\ stop' = IF r \in Registered THEN stop \cup {r} ELSE stop
    /\ Goto(i, IF r \in Registered \/ rec[r] \in Terminal THEN "ok" ELSE "error")
    /\ UNCHANGED <<queueVars, rows, disk, proc, fin, todo, scanned, asked, lost>>

\* enforceDiskGuard found the hard level.
DiskGuard ==
    /\ worker = "polling" /\ ~ Registered \subseteq stop
    /\ stop' = stop \cup Registered
    /\ UNCHANGED <<queueVars, rows, disk, hpc, proc, fin, todo, scanned, asked, lost>>

(* The recording goroutine --------------------------------------------------- *)

\* FFmpeg writes the first bytes of the .part.ts file, which it empties first (-y).
Media(r) ==
    /\ proc[r] = "run"
    /\ \/ disk[r] # "part" /\ disk' = [disk EXCEPT ![r] = "part"]
       \/ disk[r] = "old" /\ disk' = [disk EXCEPT ![r] = "none"]
    /\ UNCHANGED <<queueVars, rows, memory, asked, lost>>

\* SetRecordingStarted, from the progress goroutine: what FFmpeg reports need not be
\* on the disk yet.
Started(r) ==
    /\ proc[r] = "run" /\ rec[r] # "recording"
    /\ SetRec(r, "recording")
    /\ UNCHANGED <<queueVars, path, tsRow, disk, memory, asked, lost>>

\* Faulty variant of Finalizing: the row is not moved to "finalizing".
FinalizingUnclosed == "probing"

\* Where finalizeRecording begins.
Finalizing == "closing"

FileHasData(r) == disk[r] \in {"part", "old"}

\* The last attempt is over: finalizeRecording, or finishWithoutMedia if it neither
\* wrote nor reported anything.  How it gets there is RecordingProcess.
RunEnds(r) ==
    /\ proc[r] = "run"
    /\ proc' = [proc EXCEPT ![r] = "ending"]
    /\ \/ SetFin(r, Finalizing)
       \/ disk[r] # "part" /\ rec[r] # "recording" /\ SetFin(r, "failing")
    /\ UNCHANGED <<queueVars, rows, disk, hpc, stop, todo, scanned, asked, lost>>

\* The goroutine leaves Runner.recordings.
Unregister(r) ==
    /\ proc[r] = "ending" /\ fin[r] = "end"
    /\ proc' = [proc EXCEPT ![r] = "none"]
    /\ SetFin(r, "none")
    /\ UNCHANGED <<queueVars, rows, disk, hpc, stop, todo, scanned, asked, lost>>

(* Runner.finalizeRecording, in the goroutine or in the recovery scan --------- *)

\* SetRecordingFinalizing; three failed attempts are ignored.
FinClose(r) ==
    /\ fin[r] = "closing"
    /\ \/ SetRec(r, "finalizing") /\ Stored
       \/ Lose /\ UNCHANGED rec
    /\ SetFin(r, "probing")
    /\ UNCHANGED <<queueVars, asked, path, tsRow, disk, hpc, proc, stop, todo, scanned>>

\* ffprobe accepts the file and it gets its final name, or one of them fails.
FinProbe(r, accepted) ==
    /\ fin[r] = "probing" /\ (accepted => FileHasData(r))
    /\ SetFin(r, IF accepted THEN "renaming" ELSE "failing")
    /\ UNCHANGED <<queueVars, rows, disk, hpc, proc, stop, todo, scanned, asked, lost>>

FinRename(r, renamed) ==
    /\ fin[r] = "renaming" /\ (renamed => FileHasData(r))
    /\ disk' = IF renamed THEN [disk EXCEPT ![r] = "final"] ELSE disk
    /\ SetFin(r, IF renamed THEN "saving" ELSE "failing")
    /\ UNCHANGED <<queueVars, rows, hpc, proc, stop, todo, scanned, asked, lost>>

\* Faulty variant of AfterSaveError: the error is ignored.
AfterSaveErrorIgnored == "marking"

AfterSaveError == "failing"

\* AddMediaFile: a reported error may hide a row that was stored.
FinSave(r) ==
    /\ fin[r] = "saving"
    /\ \/ tsRow' = tsRow \cup {r} /\ Stored /\ SetFin(r, "marking")
       \/ Lose /\ tsRow' \in {tsRow, tsRow \cup {r}} /\ SetFin(r, AfterSaveError)
    /\ UNCHANGED <<queueVars, asked, rec, path, disk, hpc, proc, stop, todo, scanned>>

\* Faulty variant of AfterReady: the conversion is queued before the row is
\* ready, and QueueMP4 refuses it.
AfterReadySkips(r) == "end"

AfterReady(r) == IF r \in AutoMP4 THEN "queueing" ELSE "end"

\* FinishRecording "ready"; three failed attempts are ignored.
FinReady(r) ==
    /\ fin[r] = "marking"
    /\ \/ SetRec(r, "ready") /\ Stored
       \/ Lose /\ UNCHANGED rec
    /\ SetFin(r, AfterReady(r))
    /\ UNCHANGED <<queueVars, asked, path, tsRow, disk, hpc, proc, stop, todo, scanned>>

\* QueueAutoMP4 is tried once; a refusal or an error is only logged.
FinQueueMP4(r) ==
    /\ fin[r] = "queueing"
    /\ \/ Convertible(r) /\ Queue!Enqueue("generate_mp4", r) /\ Stored
       \/ /\ Convertible(r) => Of(r, "generate_mp4") # {}
          /\ UNCHANGED queueVars /\ Stored
       \/ Lose /\ UNCHANGED queueVars
    /\ SetFin(r, "end")
    /\ UNCHANGED <<rows, disk, hpc, proc, stop, todo, scanned, asked>>

\* FinishRecording "failed".
FinFail(r) ==
    /\ fin[r] = "failing"
    /\ \/ SetRec(r, "failed") /\ Stored
       \/ Lose /\ UNCHANGED rec
    /\ SetFin(r, "end")
    /\ UNCHANGED <<queueVars, asked, path, tsRow, disk, hpc, proc, stop, todo, scanned>>

(* Crash, restart, recovery -------------------------------------------------- *)

MemoryLost ==
    /\ hpc' = [i \in 1..MaxCommands |-> "none"]
    /\ proc' = [r \in Recordings |-> "none"]
    /\ fin' = [r \in Recordings |-> "none"]
    /\ stop' = {} /\ todo' = {}
    /\ scanned' = FALSE

Die ==
    /\ Queue!Crash \/ Queue!Exit
    /\ MemoryLost
    /\ UNCHANGED <<rows, disk, asked, lost>>

\* shutdown: whatever is registered by now is told to stop.
Shutdown ==
    /\ Queue!Shutdown
    /\ stop' = stop \cup Registered
    /\ UNCHANGED <<rows, disk, hpc, proc, fin, todo, scanned, asked, lost>>

Restart ==
    /\ \E l \in Queue!Limits : Queue!Restart(l)
    /\ UNCHANGED <<rows, disk, memory, asked, lost>>

\* Faulty variant of ToRecover: recordings that wait for input are left out.
ToRecoverStarted == {r \in Recordings : rec[r] \in {"recording", "finalizing"}}

ToRecover == ActiveSet

\* ActiveRecordingsForRecovery; its error is only logged.  (The recordings that
\* failed with a message no longer written by this code are left out.)
Scan ==
    /\ worker = "recovering" /\ ~scanned
    /\ scanned' = TRUE
    /\ \/ todo' = ToRecover /\ Stored
       \/ todo' = {} /\ Lose
    /\ UNCHANGED <<queueVars, asked, rows, disk, hpc, proc, stop, fin>>

Idle == \A r \in Recordings : fin[r] = "none"

\* The next recording of the scan: one with data is finalized, the others fail.
Recover(r) ==
    /\ worker = "recovering" /\ Idle /\ r \in todo
    /\ SetFin(r, IF r \in path /\ FileHasData(r) THEN Finalizing ELSE "failing")
    /\ UNCHANGED <<queueVars, rows, disk, hpc, proc, stop, todo, scanned, asked, lost>>

Recovered(r) ==
    /\ worker = "recovering" /\ fin[r] = "end"
    /\ SetFin(r, "none")
    /\ todo' = todo \ {r}
    /\ UNCHANGED <<queueVars, rows, disk, hpc, proc, stop, scanned, asked, lost>>

RecoveryDone ==
    /\ scanned /\ todo = {} /\ Idle
    /\ Queue!RecoveryDone
    /\ UNCHANGED <<rows, disk, memory, asked, lost>>

-----------------------------------------------------------------------------

Api == \E r \in Recordings : 
    StartRecording(r) \/ AskStop(r) \/ InsertStop(r) \/ QueueMP4(r)

HandlerStep(i) ==
    \/ StartChecks(i) \/ StartRefused(i) \/ StartFails(i) \/ StartRegisters(i)
    \/ StopHandled(i) \/ Complete(i)

FinalizeStep(r) ==
    \/ FinClose(r) \/ FinSave(r) \/ FinReady(r) \/ FinQueueMP4(r) \/ FinFail(r)
    \/ \E ok \in BOOLEAN : FinProbe(r, ok) \/ FinRename(r, ok)

RecoveryStep == Scan \/ RecoveryDone \/ \E r \in Recordings : Recover(r) \/ Recovered(r)

Next ==
    \/ Api
    \/ \E i \in DOMAIN commands : Claim(i) \/ HandlerStep(i)
    \/ QueueOnly
    \/ SettingsTick
    \/ \E r \in Recordings :
          Media(r) \/ Started(r) \/ RunEnds(r) \/ FinalizeStep(r) \/ Unregister(r)
    \/ DiskGuard
    \/ Shutdown \/ Die \/ Restart
    \/ RecoveryStep

Spec == Init /\ [][Next]_vars

\* The loop, the handlers and the goroutines keep running, the process is
\* started again, and a recording that was told to stop ends (RecordingProcess
\* shows that it does).
Fairness ==
    /\ WF_vars(Restart) /\ WF_vars(RecoveryStep) /\ WF_vars(QueueOnly)
    /\ WF_vars(worker = "stopping" /\ Die)
    /\ \A i \in 1..MaxCommands :
          /\ WF_vars(i \in DOMAIN commands /\ Claim(i))
          /\ WF_vars(i \in DOMAIN commands /\ HandlerStep(i))
    /\ \A r \in Recordings :
          /\ WF_vars(FinalizeStep(r)) /\ WF_vars(Unregister(r))
          /\ WF_vars(r \in stop /\ RunEnds(r))

FairSpec == Spec /\ Fairness

-----------------------------------------------------------------------------

TypeOK ==
    /\ Queue!TypeOK
    /\ rec \in [Recordings -> Active \cup Terminal \cup {"none"}]
    /\ disk \in [Recordings -> {"none", "part", "old", "final"}]
    /\ path \subseteq Recordings /\ tsRow \subseteq Recordings
    /\ hpc \in [1..MaxCommands -> {"none", "begin", "register", "refuse", "ok", "error"}]
    /\ proc \in [Recordings -> {"none", "run", "ending"}]
    /\ fin \in [Recordings -> {"none", "closing", "probing", "renaming", "saving",
                               "marking", "queueing", "failing", "end"}]
    /\ stop \subseteq Recordings /\ todo \subseteq Recordings
    /\ asked \subseteq Recordings /\ scanned \in BOOLEAN /\ lost \in 0..MaxLost

\* A recording whose FFmpeg runs is active in the database, so the unique index
\* keeps a second FFmpeg off its stream and its port; no start replayed after a
\* restart, no refusal and no recovery ends its row under it, and, unless a write is
\* lost, none lets it run on or again once a stop was reported done
\* (worker.go:145-225,395-415,638-652).
RunningIsActive ==
    /\ \A r \in Recordings : proc[r] = "run" => rec[r] \in {"waiting_input", "recording"}
    /\ \A r, s \in Recordings :
          r # s /\ proc[r] = "run" /\ proc[s] = "run" => StreamOf[r] # StreamOf[s]
    /\ NothingLost => \A r \in Recordings :
          proc[r] = "run" /\ r \notin stop =>
              \A i \in Of(r, "stop_recording") : commands[i].status # "done"

\* "ready" is never shown without the final file and its row, through crashes and
\* failed writes between the three; and nothing is converted before its TS is complete:
\* the recording of a queued conversion is ready unless a start replayed after a
\* restart failed it (worker.go:478-504, store_recordings.go:83).
HasTs(r) == disk[r] = "final" /\ r \in tsRow
ReadyHasFile ==
    /\ \A r \in Recordings : rec[r] = "ready" => HasTs(r)
    /\ \A r \in Recordings : Of(r, "generate_mp4") # {} =>
          HasTs(r) /\ (rec[r] = "ready" \/ (rec[r] = "failed" /\ stops > 0))

\* No recording holds its stream for ever: while the worker polls and no write
\* was lost, an active row has a start that will be handled or a goroutine that
\* will end it, so that recovery leaves no active row behind.
ActiveIsOwned ==
    NothingLost /\ worker = "polling" =>
        \A r \in Recordings :
            rec[r] \in Active =>
                proc[r] # "none" \/ \E i \in Of(r, "start_recording") : Unfinished(i)

\* A recording that has ended stays ended, and one that failed is never "ready", through
\* replayed starts, recoveries that met a start still to come, and lost writes
\* (worker.go:145-158,638-652, store_worker.go:52-95).
EndedStaysEnded(r) == rec[r] \in Terminal => rec'[r] \in {rec[r], "failed"}

RunPlace(r) == IF proc[r] = "run" THEN "run"
               ELSE IF fin[r] \in {"closing", "failing"} THEN fin[r] ELSE "closed"

\* What happens while a recording runs, up to the first write of finalizeRecording, is
\* a run of RecordingRun, which RecordingProcess implements; a run finds no file of an
\* earlier one, unless a read or a write was lost (worker.go:227-270,452-456).
Run(r) == INSTANCE RecordingRun
              WITH status <- rec[r], data <- disk[r] = "part", place <- RunPlace(r)
RunKeepsPromise(r) ==
    /\ proc[r] # "run" /\ proc'[r] = "run" =>
          Run(r)!Init' /\ (NothingLost => disk'[r] = "none")
    /\ (proc[r] = "run" \/ fin[r] = "closing") /\ worker' # "down" =>
          Run(r)!Next \/ UNCHANGED Run(r)!vars

\* Each row's and each run's steps are what is promised of them; as long as the worker
\* does not stop and no write is lost, that is the contract.
RC(r) == INSTANCE RecordingContract WITH status <- rec[r]
RowsFollowContract ==
    [][\A r \in Recordings :
          /\ EndedStaysEnded(r)
          /\ RunKeepsPromise(r)
          /\ rec[r] # "none" /\ stops = 0 /\ NothingLost =>
                RC(r)!Next \/ UNCHANGED rec[r]]_vars

\* A recording that was told to stop ends, through a crash of the worker at any
\* step of its finalization, unless a write is lost.
StoppedRecordingEnds ==
    \A r \in Recordings :
        (proc[r] = "run" /\ r \in stop) ~> (rec[r] \in Terminal \/ ~NothingLost)

\* A finished recording with automatic conversion gets its conversion, unless the worker
\* stops between "ready" and the conversion's row, or a write is lost: this one is tried
\* once (worker.go:499-504).
AutoConversionIsQueued ==
    \A r \in AutoMP4 :
        (rec[r] = "ready")
            ~> (Of(r, "generate_mp4") # {} \/ rec[r] # "ready" \/ stops > 0 \/ lost > 0)

\* A stop the queue has delivered stops the recording (README.md:186).
StopIsHonoured ==
    \A r \in Recordings : \A i \in Of(r, "stop_recording") :
        ~Unfinished(i) => r \in stop \/ rec[r] \in Terminal

=============================================================================
