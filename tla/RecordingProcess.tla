--------------------------- MODULE RecordingProcess ---------------------------
(***************************************************************************)
(* One recording inside the worker: the goroutine runRecording with its    *)
(* FFmpeg attempts, the goroutines that can stop it (a stop command, the   *)
(* disk guard, the worker's shutdown, the attempt's own stall watchdog),   *)
(* the reader of FFmpeg's progress pipe and the signal escalations.  Each  *)
(* lock-protected section, channel operation and database write is a step  *)
(* of its own.                                                             *)
(*                                                                         *)
(* Time is left out: timers may fire whenever they are armed.  When the    *)
(* watchdog's timer is armed, in seconds, is in StallWatchdog.  What       *)
(* finalizeRecording does after its first write is in RecordingLifecycle,  *)
(* and so is the .part.ts file that an earlier run may have left.          *)
(***************************************************************************)
EXTENDS Naturals, Sequences, FiniteSets

CONSTANTS
    Mode,         \* recordings' stream mode: "listener" or "caller"
    MaxAttempts,  \* bound: FFmpeg processes started
    MaxStops      \* bound: calls of recordingProcess.stop

ASSUME ModeAssumption == Mode \in {"listener", "caller"}
ASSUME BoundsAssumption == MaxAttempts \in Nat \ {0} /\ MaxStops \in Nat

VARIABLES
    pc,         \* where runRecording and runFFmpegAttempt are
    attempt,    \* FFmpeg processes started so far: the current one's number
    ffmpeg,     \* "none", "running", "exited": the current process
    data,       \* the .part.ts file has at least one byte
    cmd,        \* proc.cmd: number of the published process, or 0
    reason,     \* proc.stopReason
    stopCh,     \* proc.stopCh is closed
    caller,     \* where each thread that may call proc.stop is
    copied,     \* the cmd each of those threads read under proc.mu
    escalations,\* <<process, next signal>> of each signalProcess goroutine
    progress,   \* the goroutine that reads the progress pipe
    unread,     \* progress samples in the pipe
    grown,      \* positiveSamples, up to 2
    mediaSeen,  \* the attempt's mediaSeen flag
    status,     \* recordings.status
    ended,      \* end_reason written by the last step of runRecording
    stopsMade,  \* calls of stop so far
    stopAt      \* history: the last attempt the first stop allows, 0 if none

proc  == <<cmd, reason, stopCh>>
media == <<progress, unread, grown, mediaSeen>>
vars  == <<pc, attempt, ffmpeg, data, cmd, reason, stopCh, caller, copied,
           escalations, progress, unread, grown, mediaSeen, status, ended,
           stopsMade, stopAt>>

Watchdog == "source_disconnect"
Stoppers == {"operator_stop", "disk_guard", "worker_shutdown"}
Threads  == Stoppers \cup {Watchdog}

Samples == {"grew", "same"}
PipeSize == 2     \* bound: samples FFmpeg gets ahead of the reader

CmdDone(a) == a < attempt \/ pc \notin {"publish", "signal", "wait"}

-----------------------------------------------------------------------------

Init ==
    /\ pc = "top" /\ attempt = 0 /\ ffmpeg = "none" /\ data = FALSE
    /\ cmd = 0 /\ reason = "" /\ stopCh = FALSE
    /\ caller = [t \in Threads |-> IF t = Watchdog THEN "off" ELSE "idle"]
    /\ copied = [t \in Threads |-> 0]
    /\ escalations = {}
    /\ progress = "off" /\ unread = <<>> /\ grown = 0 /\ mediaSeen = FALSE
    /\ status = "waiting_input" /\ ended = ""
    /\ stopsMade = 0 /\ stopAt = 0

(* runRecording ----------------------------------------------------------- *)

\* Faulty variant of NextTurn: the loop does not look at stopReason.
NextTurnUnchecked == "start"

NextTurn == IF reason # "" THEN "nomedia" ELSE "start"

Top ==
    /\ pc = "top"
    /\ pc' = NextTurn
    /\ UNCHANGED <<attempt, ffmpeg, data, proc, caller, copied, escalations,
                   media, status, ended, stopsMade, stopAt>>

\* cmd.Start: a process of its own group, not yet visible to stop.
Start ==
    /\ pc = "start" /\ attempt < MaxAttempts
    /\ pc' = "publish" /\ attempt' = attempt + 1 /\ ffmpeg' = "running"
    /\ mediaSeen' = FALSE /\ grown' = 0 /\ unread' = <<>>
    /\ UNCHANGED <<data, proc, caller, copied, escalations, progress, status,
                   ended, stopsMade, stopAt>>

\* StdoutPipe, StderrPipe or Start fails: the attempt saw no media.
StartFails ==
    /\ pc = "start"
    /\ pc' = "decide" /\ mediaSeen' = FALSE
    /\ UNCHANGED <<attempt, ffmpeg, data, proc, caller, copied, escalations,
                   progress, unread, grown, status, ended, stopsMade, stopAt>>

\* Faulty variant of StopRequested: stopReason is not read again once the
\* process is visible.
StopNotReread == FALSE

StopRequested == reason # ""

\* Under proc.mu: publish the process and read stopReason.
Publish ==
    /\ pc = "publish"
    /\ cmd' = attempt
    /\ IF StopRequested
       THEN pc' = "signal" /\ UNCHANGED <<progress, caller>>
       ELSE /\ pc' = "wait" /\ progress' = "reading"
            /\ caller' = [caller EXCEPT ![Watchdog] = "idle"]
    /\ UNCHANGED <<attempt, ffmpeg, data, reason, stopCh, copied, escalations,
                   unread, grown, mediaSeen, status, ended, stopsMade, stopAt>>

\* Faulty variant of Signal: SIGINT only, no escalation follows.
SignalOnce(a) == escalations

\* Faulty variant of Signal: the goroutine waits before SIGINT, not SIGTERM.
SignalLate(a) == escalations \cup {<<a, "SIGINT">>}

\* signalProcess: SIGINT to the process group, and an escalation.
Signal(a) == escalations \cup {<<a, "SIGTERM">>}

\* A stop came first: signalProcess, then the goroutines and cmd.Wait.
SignalOwn ==
    /\ pc = "signal"
    /\ escalations' = Signal(attempt)
    /\ pc' = "wait" /\ progress' = "reading"
    /\ caller' = [caller EXCEPT ![Watchdog] = "idle"]
    /\ UNCHANGED <<attempt, ffmpeg, data, proc, copied, unread, grown,
                   mediaSeen, status, ended, stopsMade, stopAt>>

\* cmd.Wait returns and closes the pipe: what the reader has not taken from
\* it is lost, except for a prefix it had buffered.
Wait ==
    /\ pc = "wait" /\ ffmpeg = "exited"
    /\ pc' = "join"
    /\ \E n \in 0..Len(unread) : unread' = SubSeq(unread, 1, n)
    /\ UNCHANGED <<attempt, ffmpeg, data, proc, caller, copied, escalations,
                   progress, grown, mediaSeen, status, ended, stopsMade, stopAt>>

\* Faulty variant of GoroutinesDone: the progress goroutine is not waited for.
ProgressNotJoined == caller[Watchdog] = "off"

GoroutinesDone == caller[Watchdog] = "off" /\ progress = "done"

Join ==
    /\ pc = "join" /\ GoroutinesDone
    /\ pc' = "clear"
    /\ UNCHANGED <<attempt, ffmpeg, data, proc, caller, copied, escalations,
                   media, status, ended, stopsMade, stopAt>>

Clear ==
    /\ pc = "clear"
    /\ cmd' = 0 /\ pc' = "decide"
    /\ UNCHANGED <<attempt, ffmpeg, data, reason, stopCh, caller, copied,
                   escalations, media, status, ended, stopsMade, stopAt>>

\* Faulty variant of HasMedia: the file itself is not looked at.
MediaReported == mediaSeen

HasMedia == mediaSeen \/ data

\* Media, or at least a byte: finalize.  Otherwise only a caller without a
\* stop tries again.
Decide ==
    /\ pc = "decide"
    /\ pc' = IF HasMedia THEN "finalize"
             ELSE IF reason # "" \/ Mode # "caller" THEN "nomedia" ELSE "backoff"
    /\ UNCHANGED <<attempt, ffmpeg, data, proc, caller, copied, escalations,
                   media, status, ended, stopsMade, stopAt>>

\* The back-off timer fires, or stopCh is closed: next turn of the loop.
Backoff ==
    /\ pc = "backoff"
    /\ pc' = "top"
    /\ UNCHANGED <<attempt, ffmpeg, data, proc, caller, copied, escalations,
                   media, status, ended, stopsMade, stopAt>>

EndReason == IF reason = "" THEN "exit" ELSE reason

\* finalizeRecording's first write.
Finalize ==
    /\ pc = "finalize"
    /\ status' = "finalizing" /\ ended' = EndReason /\ pc' = "done"
    /\ UNCHANGED <<attempt, ffmpeg, data, proc, caller, copied, escalations,
                   media, stopsMade, stopAt>>

FinishWithoutMedia ==
    /\ pc = "nomedia"
    /\ status' = "failed" /\ ended' = EndReason /\ pc' = "done"
    /\ UNCHANGED <<attempt, ffmpeg, data, proc, caller, copied, escalations,
                   media, stopsMade, stopAt>>

(* recordingProcess.stop, called by thread t ------------------------------- *)

MayStop(t) ==
    /\ caller[t] = "idle" /\ stopsMade < MaxStops
    /\ t = Watchdog => mediaSeen /\ pc \in {"wait", "join"}

\* The attempt under way: also one past its check of stopReason.
UnderWay == IF pc = "start" THEN attempt + 1 ELSE attempt

\* Under proc.mu: the first reason stays, the published process is copied.
StopLock(t) ==
    /\ MayStop(t)
    /\ reason' = IF reason = "" THEN t ELSE reason
    /\ stopAt' = IF reason = "" THEN UnderWay ELSE stopAt
    /\ copied' = [copied EXCEPT ![t] = cmd]
    /\ caller' = [caller EXCEPT ![t] = "close"]
    /\ stopsMade' = stopsMade + 1
    /\ UNCHANGED <<pc, attempt, ffmpeg, data, cmd, stopCh, escalations, media,
                   status, ended>>

After(t) == IF t = Watchdog THEN "off" ELSE "idle"

StopClose(t) ==
    /\ caller[t] = "close"
    /\ stopCh' = TRUE
    /\ caller' = [caller EXCEPT ![t] = IF copied[t] = 0 THEN After(t) ELSE "signal"]
    /\ UNCHANGED <<pc, attempt, ffmpeg, data, cmd, reason, copied, escalations,
                   media, status, ended, stopsMade, stopAt>>

\* signalProcess, for the process that was copied.
StopSignal(t) ==
    /\ caller[t] = "signal"
    /\ escalations' = Signal(copied[t])
    /\ caller' = [caller EXCEPT ![t] = After(t)]
    /\ UNCHANGED <<pc, attempt, ffmpeg, data, proc, copied, media, status,
                   ended, stopsMade, stopAt>>

\* The attempt is over, or somebody else stopped it: the watchdog returns.
WatchdogEnds ==
    /\ caller[Watchdog] = "idle"
    /\ pc = "join" \/ stopCh
    /\ caller' = [caller EXCEPT ![Watchdog] = "off"]
    /\ UNCHANGED <<pc, attempt, ffmpeg, data, proc, copied, escalations, media,
                   status, ended, stopsMade, stopAt>>

(* signalProcess's goroutine ------------------------------------------------ *)

EscalationEnds(e) ==
    /\ e \in escalations /\ CmdDone(e[1])
    /\ escalations' = escalations \ {e}
    /\ UNCHANGED <<pc, attempt, ffmpeg, data, proc, caller, copied, media,
                   status, ended, stopsMade, stopAt>>

Terminate(e) ==
    /\ e \in escalations /\ e[2] = "SIGTERM"
    /\ escalations' = (escalations \ {e}) \cup {<<e[1], "SIGKILL">>}
    /\ UNCHANGED <<pc, attempt, ffmpeg, data, proc, caller, copied, media,
                   status, ended, stopsMade, stopAt>>

\* Only SIGKILL is certain to end the process.
Kill(e) ==
    /\ e \in escalations /\ e[2] = "SIGKILL"
    /\ escalations' = escalations \ {e}
    /\ ffmpeg' = IF e[1] = attempt /\ ffmpeg = "running" THEN "exited" ELSE ffmpeg
    /\ UNCHANGED <<pc, attempt, data, proc, caller, copied, media, status,
                   ended, stopsMade, stopAt>>

(* FFmpeg ------------------------------------------------------------------- *)

\* It exits by itself or on one of the signals it was sent.
FFmpegExits ==
    /\ ffmpeg = "running" /\ ffmpeg' = "exited"
    /\ UNCHANGED <<pc, attempt, data, proc, caller, copied, escalations, media,
                   status, ended, stopsMade, stopAt>>

FFmpegWrites ==
    /\ ffmpeg = "running" /\ ~data /\ data' = TRUE
    /\ UNCHANGED <<pc, attempt, ffmpeg, proc, caller, copied, escalations,
                   media, status, ended, stopsMade, stopAt>>

FFmpegReports(sample) ==
    /\ ffmpeg = "running" /\ Len(unread) < PipeSize
    /\ unread' = Append(unread, sample)
    /\ UNCHANGED <<pc, attempt, ffmpeg, data, proc, caller, copied, escalations,
                   progress, grown, mediaSeen, status, ended, stopsMade, stopAt>>

(* The progress goroutine --------------------------------------------------- *)

\* A sample; from the second that grew, and until a write succeeded, it goes
\* on to SetRecordingStarted.
ReadSample ==
    /\ progress = "reading" /\ unread # <<>>
    /\ unread' = Tail(unread)
    /\ mediaSeen' = (mediaSeen \/ Head(unread) = "grew")
    /\ grown' = IF Head(unread) = "grew" /\ grown < 2 THEN grown + 1 ELSE grown
    /\ progress' = IF grown' = 2 /\ status # "recording" THEN "saving" ELSE "reading"
    /\ UNCHANGED <<pc, attempt, ffmpeg, data, proc, caller, copied, escalations,
                   status, ended, stopsMade, stopAt>>

\* SetRecordingStarted's UPDATE has no condition on the status it replaces.
SetRecordingStarted ==
    /\ progress = "saving"
    /\ status' = "recording" /\ progress' = "reading"
    /\ UNCHANGED <<pc, attempt, ffmpeg, data, proc, caller, copied, escalations,
                   unread, grown, mediaSeen, ended, stopsMade, stopAt>>

\* It fails or times out; the next sample tries again.
SetRecordingStartedFails ==
    /\ progress = "saving" /\ progress' = "reading"
    /\ UNCHANGED <<pc, attempt, ffmpeg, data, proc, caller, copied, escalations,
                   unread, grown, mediaSeen, status, ended, stopsMade, stopAt>>

PipeEnds ==
    /\ progress = "reading" /\ unread = <<>> /\ ffmpeg = "exited"
    /\ progress' = "done"
    /\ UNCHANGED <<pc, attempt, ffmpeg, data, proc, caller, copied, escalations,
                   unread, grown, mediaSeen, status, ended, stopsMade, stopAt>>

-----------------------------------------------------------------------------

Run ==
    \/ Top \/ Start \/ StartFails \/ Publish \/ SignalOwn \/ Wait \/ Join
    \/ Clear \/ Decide \/ Backoff \/ Finalize \/ FinishWithoutMedia

Reader == ReadSample \/ SetRecordingStarted \/ SetRecordingStartedFails \/ PipeEnds

FFmpeg == FFmpegExits \/ FFmpegWrites \/ \E s \in Samples : FFmpegReports(s)

Stop(t) == StopLock(t) \/ StopClose(t) \/ StopSignal(t)

Escalate == \E e \in escalations : EscalationEnds(e) \/ Terminate(e) \/ Kill(e)

Stopped == pc = "done" /\ UNCHANGED vars

Next ==
    \/ Run \/ Reader \/ FFmpeg \/ Escalate \/ WatchdogEnds
    \/ \E t \in Threads : Stop(t)
    \/ Stopped

Spec == Init /\ [][Next]_vars

\* Every goroutine keeps running and an escalation's timers fire.  Nothing is
\* assumed of FFmpeg: it may ignore SIGINT and SIGTERM and never exit.
Fairness ==
    /\ WF_vars(Run) /\ WF_vars(Reader) /\ WF_vars(WatchdogEnds)
    /\ \A t \in Threads : WF_vars(StopClose(t) \/ StopSignal(t))
    /\ \A a \in 1..MaxAttempts, s \in {"SIGTERM", "SIGKILL"} :
          WF_vars(EscalationEnds(<<a, s>>) \/ Terminate(<<a, s>>) \/ Kill(<<a, s>>))

FairSpec == Spec /\ Fairness

-----------------------------------------------------------------------------

PlacesType ==
    /\ pc \in {"top", "start", "publish", "signal", "wait", "join", "clear",
               "decide", "backoff", "finalize", "nomedia", "done"}
    /\ ffmpeg \in {"none", "running", "exited"}
    /\ progress \in {"off", "reading", "saving", "done"}
    /\ status \in {"waiting_input", "recording", "finalizing", "failed"}
    /\ reason \in Threads \cup {""}
    /\ ended \in Threads \cup {"", "exit"}

CountersType ==
    /\ attempt \in 0..MaxAttempts
    /\ cmd \in Nat
    /\ grown \in 0..2
    /\ stopsMade \in 0..MaxStops
    /\ stopAt \in Nat

FlagsType == data \in BOOLEAN /\ stopCh \in BOOLEAN /\ mediaSeen \in BOOLEAN

ThreadsType ==
    /\ caller \in [Threads -> {"off", "idle", "close", "signal"}]
    /\ copied \in [Threads -> 0..MaxAttempts]

EscalationsType == escalations \subseteq (0..MaxAttempts) \X {"SIGTERM", "SIGKILL"}

PipeType == unread \in Seq(Samples) /\ Len(unread) <= PipeSize

TypeOK ==
    /\ PlacesType
    /\ CountersType
    /\ FlagsType
    /\ ThreadsType
    /\ EscalationsType
    /\ PipeType

Signalled(a)   == \E e \in escalations : e[1] = a
BeingStopped(a) == \E t \in Threads : caller[t] \in {"close", "signal"} /\ copied[t] = a

\* A stop never misses the FFmpeg it is for: once a stop is accepted and
\* cmd.Wait waits for a running process, that process has been signalled and an
\* escalation up to SIGKILL is pending, or a thread that holds it is about to
\* signal it.  The window is between cmd.Start and the publication of proc.cmd
\* (worker.go:283-294,415-450).
StopIsEnforced ==
    reason # "" /\ pc = "wait" /\ ffmpeg = "running" =>
        Signalled(attempt) \/ BeingStopped(attempt)

\* No FFmpeg is started after a stop, but for the one whose turn of the loop had
\* already passed the check of stopReason: a caller stopped before its first
\* attempt, in its back-off or between two attempts starts none
\* (worker.go:229-236,254-267).
NoRetryAfterStop == reason # "" => attempt <= stopAt

\* Whatever reached the disk is finalized, even if FFmpeg's progress was never
\* seen because cmd.Wait closed the pipe before it was read (worker.go:238,379).
MediaIsFinalized == status = "failed" => ~data /\ ~mediaSeen

\* Whoever decides about the file, and finalizeRecording after it, works on a
\* file no FFmpeg writes and on a row no progress goroutine or watchdog of the
\* attempt still updates (worker.go:379-388).
AttemptIsOver ==
    pc \in {"top", "decide", "backoff", "finalize", "nomedia", "done"} =>
        /\ ffmpeg # "running"
        /\ progress \in {"off", "done"}
        /\ caller[Watchdog] = "off"

\* The status moves forward only, and "recording" is never written over
\* "finalizing" by the unconditional UPDATE of a progress sample that arrived
\* late (store_worker.go:52-70).
RC == INSTANCE RecordingContract
StatusFollowsContract == RC!Spec

RunPlace == CASE pc = "finalize" -> "closing" [] pc = "nomedia" -> "failing"
              [] pc = "done" -> "closed" [] OTHER -> "run"

\* All that the attempts, the stops and the readers do is a run of RecordingRun, what
\* RecordingLifecycle assumes of its goroutines: the row is "recording" at most once and
\* before the run ends, and a run that wrote or reported anything is finalized
\* (worker.go:227-270,383).
Promise  == INSTANCE RecordingRun WITH place <- RunPlace
KeepsRun == Promise!Spec

\* Once a stop is accepted the recording ends, even if FFmpeg ignores every
\* signal it can ignore (README.md:186, worker.go:430-450).
StopEndsRecording == (reason # "") ~> (pc = "done")

=============================================================================
