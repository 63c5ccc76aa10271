------------------------------- MODULE MediaJobs -------------------------------
(***************************************************************************)
(* What happens to the files of one finished recording: conversions to MP4 *)
(* (QueueMP4, generateMP4), deletions of files (QueueDeleteFile,           *)
(* deleteFile) and the removal of the record from the list                 *)
(* (HideRecordingRecord), in any order, with the worker crashing between   *)
(* any two of their steps and replaying what it had claimed.               *)
(*                                                                         *)
(* The queue is the one of CommandQueue, used through Queue.  A generate   *)
(* command names its job, a delete command the kind of file.  Progress     *)
(* percentages are left out.                                               *)
(***************************************************************************)
EXTENDS Naturals, Sequences, FiniteSets

CONSTANTS
    Jobs,     \* conversions ever requested
    MaxCommands, MaxLimit, MaxStops, MaxFaults,
    MaxLost   \* bound: errors that end a handler without telling its job or row

ASSUME JobsAssumption == Jobs # {} /\ Jobs \cap {"ts", "mp4"} = {}
ASSUME BoundsAssumption ==
    /\ {MaxCommands, MaxLimit} \subseteq Nat \ {0}
    /\ {MaxStops, MaxFaults, MaxLost} \subseteq Nat

VARIABLES
    commands, handlers, conversions, limit, worker, requeue, stops, faults,
    row,      \* media_files.status of each kind, or "none"
    file,     \* files on the disk: kinds, and "part" for the unfinished MP4
    job,      \* mp4_jobs.status of each job, or "none"
    status,   \* recordings.status
    hidden,   \* recordings.hidden_at is set
    hpc,      \* where the handler of each command is
    asked,    \* kinds for which a QueueDeleteFile is about to insert a command
    hiding,   \* how far a HideRecordingRecord is: "no", "unfiled", "idle"
    lost      \* errors so far that ended a handler without telling its job or row

queueVars == <<commands, handlers, conversions, limit, worker, requeue, stops, faults>>
requests  == <<asked, hiding>>
media     == <<row, file, hidden>>
vars      == <<queueVars, media, status, job, hpc, requests, lost>>

Kinds == {"ts", "mp4"}

Queue == INSTANCE CommandQueue WITH Targets <- Jobs \cup Kinds

Unfinished(i)    == commands[i].status \in {"pending", "claimed"}
CommandsFor(t)   == {i \in DOMAIN commands : commands[i].target = t}
ActiveJobs       == {j \in Jobs : job[j] \in {"queued", "running"}}
Goto(i, s)       == hpc' = [hpc EXCEPT ![i] = s]
SetRow(k, s)     == row' = [row EXCEPT ![k] = s]
Lose             == lost < MaxLost /\ lost' = lost + 1   \* a lost read or write, or an early return
Stored           == UNCHANGED lost
NothingLost      == lost = 0 /\ faults = 0

\* Faulty variant of SetJob: the status of a command that succeeded.
SetJobDone(j, s) == job' = [job EXCEPT ![j] = IF s = "ready" THEN "done" ELSE s]

SetJob(j, s) == job' = [job EXCEPT ![j] = s]

-----------------------------------------------------------------------------

\* A recording that has just become ready, or failed although its TS was stored (the
\* error of AddMediaFile can hide that it was).
Init ==
    /\ Queue!Init
    /\ row = [k \in Kinds |-> IF k = "ts" THEN "ready" ELSE "none"]
    /\ file = {"ts"}
    /\ job = [j \in Jobs |-> "none"]
    /\ status \in {"ready", "failed"} /\ hidden = FALSE /\ hiding = "no"
    /\ hpc = [i \in 1..MaxCommands |-> "none"]
    /\ asked = {} /\ lost = 0

(* The web process --------------------------------------------------------- *)

\* Store.QueueMP4, one transaction; an active job is returned as it is, and a
\* stored MP4 is not made again.  Neither hidden_at nor the TS is looked at.
QueueMP4(j) ==
    /\ status = "ready"
    /\ job[j] = "none" /\ ActiveJobs = {} /\ row["mp4"] # "ready"
    /\ SetJob(j, "queued")
    /\ Queue!Enqueue("generate_mp4", j)
    /\ UNCHANGED <<media, status, hpc, requests, lost>>

\* Store.QueueDeleteFile reads ...
AskDelete(k) ==
    /\ k = "ts" => ActiveJobs = {}
    /\ k \notin asked /\ asked' = asked \cup {k}
    /\ UNCHANGED <<queueVars, media, status, job, hpc, hiding, lost>>

\* ... and inserts the command, in a statement of its own; another request may
\* have read the same and insert one too.
InsertDelete(k) ==
    /\ k \in asked
    /\ Queue!Enqueue("delete_file", k)
    /\ asked' \in {asked, asked \ {k}}
    /\ UNCHANGED <<media, status, job, hpc, hiding, lost>>

\* Store.HideRecordingRecord: for a recording that is ready it reads that no file is
\* left ...
AskHide ==
    /\ status = "ready" /\ ~hidden /\ hiding = "no"
    /\ \A k \in Kinds : row[k] # "ready"
    /\ hiding' = "unfiled"
    /\ UNCHANGED <<queueVars, media, status, job, hpc, asked, lost>>

\* ... reads, in a statement of its own, that no job is active, or refuses ...
AskHideJobs ==
    /\ hiding = "unfiled"
    /\ hiding' = IF ActiveJobs = {} THEN "idle" ELSE "no"
    /\ UNCHANGED <<queueVars, media, status, job, hpc, asked, lost>>

\* ... and updates, in a third one.  The files and jobs of a failed recording are not
\* looked at: with nothing to check, and nothing leading out of "failed", that removal
\* is one step.
Hide ==
    /\ hiding = "idle" \/ (status = "failed" /\ ~hidden)
    /\ hidden' = TRUE /\ hiding' = "no"
    /\ UNCHANGED <<queueVars, row, file, status, job, hpc, asked, lost>>

\* handleCommand refuses a start that is replayed for this recording after a restart and
\* marks it failed (RecordingLifecycle has that command).
StartReplayed ==
    /\ worker \in {"polling", "stopping"} /\ status = "ready"
    /\ status' = "failed"
    /\ UNCHANGED <<queueVars, media, job, hpc, requests, lost>>

(* The queue ---------------------------------------------------------------- *)

Claim(i) ==
    /\ Queue!Dispatch(i)
    /\ Goto(i, "begin")
    /\ UNCHANGED <<media, status, job, requests, lost>>

Complete(i) ==
    /\ \/ hpc[i] = "ok" /\ Queue!HandlerReturns(i, "done")
       \/ hpc[i] = "error" /\ Queue!HandlerReturns(i, "failed")
       \/ hpc[i] \in {"ok", "error"} /\ Queue!CompletionLost(i)
    /\ Goto(i, "none")
    /\ UNCHANGED <<media, status, job, requests, lost>>

QueueOnly ==
    /\ \/ Queue!Requeue \/ Queue!RequeueLost
       \/ \E i \in DOMAIN commands : Queue!ClaimWithoutSlot(i) \/ Queue!ClaimUncertain(i)
    /\ UNCHANGED <<media, status, job, hpc, requests, lost>>

(* Runner.generateMP4 -------------------------------------------------------- *)

Converting(i, place) ==
    /\ i \in handlers /\ commands[i].kind = "generate_mp4" /\ hpc[i] = place

Quiet == UNCHANGED <<queueVars, requests, status>>

\* The job, its recording and the TS row are read.  Without a recording to be
\* seen, or on an error, the handler returns and leaves the job as it is.
GenLoad(i) ==
    /\ Converting(i, "begin")
    /\ \/ /\ Goto(i, IF hidden THEN "error"
                     ELSE IF row["ts"] = "ready" THEN "probe" ELSE "failing")
          /\ Stored
       \/ Lose /\ Goto(i, "error")
    /\ UNCHANGED <<media, job>> /\ Quiet

\* Faulty variant of AfterRefusal: the job is not told.
AfterRefusalSilent == "error"

AfterRefusal == "failing"

\* There is room on the disk, ffprobe accepts the TS and FFmpeg has arguments for it;
\* or not.  On an error of SafePath the handler returns and leaves the job as it is.
GenProbe(i) ==
    /\ Converting(i, "probe")
    /\ \/ "ts" \in file /\ Goto(i, "mark") /\ Stored
       \/ Goto(i, AfterRefusal) /\ Stored
       \/ Lose /\ Goto(i, "error")
    /\ UNCHANGED <<media, job>> /\ Quiet

\* Faulty variant of OnlyActive: mp4_jobs has no unique index.
OnlyActiveUnchecked(j) == TRUE

\* The unique index of mp4_jobs: one active job for each recording.
OnlyActive(j) == ActiveJobs \subseteq {j}

\* SetMP4Running; on an error the handler returns and leaves the job as it is.
GenMark(i) ==
    LET j == commands[i].target IN
    /\ Converting(i, "mark")
    /\ \/ OnlyActive(j) /\ SetJob(j, "running") /\ Goto(i, "open") /\ Stored
       \/ ~OnlyActive(j) /\ Goto(i, "error") /\ UNCHANGED job /\ Stored
       \/ Lose /\ Goto(i, "error") /\ UNCHANGED job
    /\ UNCHANGED media /\ Quiet

\* FFmpeg starts, opens the TS and overwrites the .part.mp4 file; or fails.  On an
\* error of StdoutPipe the handler returns and leaves the job running.
GenOpen(i) ==
    /\ Converting(i, "open")
    /\ \/ "ts" \in file /\ file' = file \cup {"part"} /\ Goto(i, "encode") /\ Stored
       \/ UNCHANGED file /\ Goto(i, "failing") /\ Stored
       \/ Lose /\ UNCHANGED file /\ Goto(i, "error")
    /\ UNCHANGED <<row, hidden, job>> /\ Quiet

\* FFmpeg exits, and the output is probed; a TS unlinked by now is still open.
GenEncode(i) ==
    /\ Converting(i, "encode")
    /\ Goto(i, "rename") \/ Goto(i, "failing")
    /\ UNCHANGED <<media, job, lost>> /\ Quiet

GenRename(i) ==
    /\ Converting(i, "rename")
    /\ \/ file' = (file \ {"part"}) \cup {"mp4"} /\ Goto(i, "save")
       \/ UNCHANGED file /\ Goto(i, "failing")
    /\ UNCHANGED <<row, hidden, job, lost>> /\ Quiet

\* Faulty variant of AfterSaveError: the error is ignored.
AfterSaveErrorIgnored == "finish"

AfterSaveError == "failing"

\* AddMediaFile
GenSave(i) ==
    /\ Converting(i, "save")
    /\ \/ SetRow("mp4", "ready") /\ Goto(i, "finish") /\ Stored
       \/ Lose /\ UNCHANGED row /\ Goto(i, AfterSaveError)
    /\ UNCHANGED <<file, hidden, job>> /\ Quiet

\* FinishMP4 "ready"; its error is the handler's.
GenFinish(i) ==
    /\ Converting(i, "finish")
    /\ \/ SetJob(commands[i].target, "ready") /\ Goto(i, "ok") /\ Stored
       \/ Lose /\ UNCHANGED job /\ Goto(i, "error")
    /\ UNCHANGED media /\ Quiet

\* FinishMP4 "failed"; its error is ignored.
GenFail(i) ==
    /\ Converting(i, "failing")
    /\ \/ SetJob(commands[i].target, "failed") /\ Stored
       \/ Lose /\ UNCHANGED job
    /\ Goto(i, "error")
    /\ UNCHANGED media /\ Quiet

(* Runner.deleteFile ---------------------------------------------------------- *)

Deleting(i, place) ==
    /\ i \in handlers /\ commands[i].kind = "delete_file" /\ hpc[i] = place

\* MediaFileByKind
DelLoad(i) ==
    /\ Deleting(i, "begin")
    /\ Goto(i, IF row[commands[i].target] = "ready" THEN "resolve" ELSE "error")
    /\ UNCHANGED <<media, job, lost>> /\ Quiet

\* SafeExistingPath resolves the links of a path that must exist.
DelResolve(i) ==
    /\ Deleting(i, "resolve")
    /\ Goto(i, IF commands[i].target \in file THEN "remove" ELSE "error")
    /\ UNCHANGED <<media, job, lost>> /\ Quiet

\* Faulty variant of AfterRemove: the row is not updated.
AfterRemoveDone == "ok"

AfterRemove == "record"

\* os.Remove, of a file that may be gone already; or it fails.
DelRemove(i) ==
    /\ Deleting(i, "remove")
    /\ \/ file' = file \ {commands[i].target} /\ Goto(i, AfterRemove)
       \/ UNCHANGED file /\ Goto(i, "error")
    /\ UNCHANGED <<row, hidden, job, lost>> /\ Quiet

\* DeleteMediaFileRecord finds a row that is ready, or reports that there is none.
DelRecord(i) ==
    LET k == commands[i].target IN
    /\ Deleting(i, "record")
    /\ \/ row[k] = "ready" /\ SetRow(k, "deleted") /\ Goto(i, "ok") /\ Stored
       \/ row[k] # "ready" /\ UNCHANGED row /\ Goto(i, "error") /\ Stored
       \/ Lose /\ UNCHANGED row /\ Goto(i, "error")
    /\ UNCHANGED <<file, hidden, job>> /\ Quiet

(* Crash and restart ----------------------------------------------------------- *)

\* Unlike recordings, conversions are not stopped by a shutdown.
Shutdown ==
    /\ Queue!Shutdown
    /\ UNCHANGED <<media, status, job, hpc, requests, lost>>

Die ==
    /\ Queue!Crash \/ Queue!Exit
    /\ hpc' = [i \in 1..MaxCommands |-> "none"]
    /\ UNCHANGED <<media, status, job, requests, lost>>

Restart ==
    /\ Queue!RecoveryDone \/ \E l \in Queue!Limits : Queue!Restart(l)
    /\ UNCHANGED <<media, status, job, hpc, requests, lost>>

-----------------------------------------------------------------------------

Api ==
    \/ \E j \in Jobs : QueueMP4(j)
    \/ \E k \in Kinds : AskDelete(k) \/ InsertDelete(k)
    \/ AskHide \/ AskHideJobs \/ Hide

HandlerStep(i) ==
    \/ GenLoad(i) \/ GenProbe(i) \/ GenMark(i) \/ GenOpen(i) \/ GenEncode(i)
    \/ GenRename(i) \/ GenSave(i) \/ GenFinish(i) \/ GenFail(i)
    \/ DelLoad(i) \/ DelResolve(i) \/ DelRemove(i) \/ DelRecord(i)
    \/ Complete(i)

Next ==
    \/ Api
    \/ \E i \in DOMAIN commands : Claim(i) \/ HandlerStep(i)
    \/ QueueOnly
    \/ StartReplayed
    \/ Shutdown \/ Die \/ Restart

Spec == Init /\ [][Next]_vars

\* The loop and the handlers keep running (a conversion ends sooner or later)
\* and the process is started again.
Fairness ==
    /\ WF_vars(Restart) /\ WF_vars(QueueOnly) /\ WF_vars(worker = "stopping" /\ Die)
    /\ \A i \in 1..MaxCommands :
          /\ WF_vars(i \in DOMAIN commands /\ Claim(i))
          /\ WF_vars(i \in DOMAIN commands /\ HandlerStep(i))

FairSpec == Spec /\ Fairness

-----------------------------------------------------------------------------

Places == {"none", "begin", "probe", "mark", "open", "encode", "rename", "save",
           "finish", "failing", "resolve", "remove", "record", "ok", "error"}
Hiding == {"no", "unfiled", "idle"}

TypeOK ==
    /\ Queue!TypeOK
    /\ row \in [Kinds -> {"none", "ready", "deleted"}]
    /\ file \subseteq Kinds \cup {"part"}
    /\ job \in [Jobs -> {"none", "queued", "running", "ready", "failed"}]
    /\ hpc \in [1..MaxCommands -> Places]
    /\ asked \subseteq Kinds
    /\ status \in {"ready", "failed"} /\ hidden \in BOOLEAN /\ hiding \in Hiding
    /\ lost \in 0..MaxLost

\* One FFmpeg at most writes the recording's .part.mp4, although a conversion
\* replayed after a restart can meet the one requested since it failed; the
\* name of the output does not depend on the job (worker.go:535,545,588).
OneConverter ==
    Cardinality({i \in handlers : hpc[i] \in {"open", "encode", "rename"}}) <= 1

NobodyDeletes(k) ==
    \A i \in handlers : ~(commands[i].target = k /\ hpc[i] \in {"remove", "record"})

\* What the rows promise is on the disk.  No TS is ever left behind without its row,
\* through crashes and lost writes, and no job claims an MP4 that was not stored.  As
\* long as the worker does not crash and no write is lost, a file whose row is ready is
\* there when nobody is deleting it: the TS however many deletions overlap, the MP4 if
\* its deletion was asked for once (worker.go:594-602,617-636, store_worker.go:106-115).
\* A ready recording that is removed from the list, or about to be, leaves no TS behind
\* (store_recordings.go:199-218); a failed one may, and an MP4 may be left: see README.
RowsMatchFiles ==
    /\ "ts" \in file => row["ts"] = "ready"
    /\ status = "ready" /\ (hidden \/ hiding # "no") => row["ts"] # "ready"
    /\ \A j \in Jobs : job[j] = "ready" => row["mp4"] # "none"
    /\ stops = 0 /\ NothingLost =>
          \A k \in Kinds :
              row[k] = "ready" /\ NobodyDeletes(k) =>
                  k \in file \/ (k = "mp4" /\ Cardinality(CommandsFor("mp4")) > 1)

\* No conversion keeps the TS undeletable and new conversions refused for ever:
\* unless an error ends the handler without telling the job (lost), an active job has a
\* command that will still be handled, through crashes and replays (worker.go:513-603).
ActiveJobIsOwned ==
    NothingLost /\ ~hidden =>
        \A j \in ActiveJobs : \E i \in CommandsFor(j) : Unfinished(i)

\* Every conversion of a recording that stays visible comes to an end, through
\* crashes at any step of it, unless an error ends the handler without telling the
\* job (worker.go:513-603).
JobsEnd ==
    \A j \in Jobs :
        (job[j] = "queued")
            ~> (job[j] \in {"ready", "failed"} \/ hidden \/ ~NothingLost)

\* The TS is not deleted while it is being converted (store_recordings.go:133).
TsKeptWhileConverting ==
    [][ActiveJobs # {} /\ "ts" \in file => "ts" \in file']_vars

=============================================================================
