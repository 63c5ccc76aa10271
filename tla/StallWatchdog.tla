----------------------------- MODULE StallWatchdog -----------------------------
(***************************************************************************)
(* When, in seconds, the watchdog of one FFmpeg attempt declares its input *)
(* stalled: FFmpeg reports once a second through the progress pipe, the    *)
(* progress goroutine takes a report only when the database writes of the  *)
(* one before it returned, and the watchdog looks once a second at how     *)
(* long ago the goroutine last saw the output grow.                        *)
(*                                                                         *)
(* A second passes (Tick) only when everything that can be done in it has  *)
(* been done, in any order.  A write takes as long as the database lets it *)
(* but not longer than its context.  Threads that stop a recording for     *)
(* other reasons are in RecordingProcess.                                  *)
(***************************************************************************)
EXTENDS Naturals, Sequences

CONSTANTS
    Timeout,   \* the stream's timeout_ms, in seconds
    Delays,    \* seconds the database may take for a write
    PipeSize   \* reports the progress pipe holds (the kernel's: some hundred)

ASSUME StallAssumption ==
    /\ Timeout \in Nat
    /\ Delays \subseteq Nat /\ 0 \in Delays
    /\ PipeSize \in Nat \ {0}

VARIABLES
    pipe,      \* reports in the pipe: has the output grown since the one before?
    grew,      \* the output has grown since FFmpeg's last report
    reader,    \* the progress goroutine: "reading", "saving" or "reporting"
    busy,      \* seconds until the write it waits for returns
    fails,     \* that write will have failed
    mediaSeen,
    samples,   \* positiveSamples, up to 2
    status,    \* recordings.status
    age,       \* seconds since lastAdvanceNS
    checked,   \* the watchdog's ticker has fired in this second
    stopped,   \* proc.stop("source_disconnect") was called
    begun,     \* history: there is media in the output
    silent,    \* history: seconds since the output last grew, once it has
    pause,     \* history: the longest such time so far
    slow       \* history: the database has kept a write waiting

vars == <<pipe, grew, reader, busy, fails, mediaSeen, samples, status, age,
          checked, stopped, begun, silent, pause, slow>>

\* Faulty variant of WriteTimeout: the worker's other writes have 3 seconds.
WriteTimeoutLong == 3

WriteTimeout == 2

Durations == {d \in 0..WriteTimeout : d \in Delays}

StallTimeout == IF Timeout < 5 THEN 5 ELSE Timeout

Slack   == 2                          \* the ticker's period and FFmpeg's
Horizon == StallTimeout + Slack + 1   \* bound on the clocks
Later(t) == IF t < Horizon THEN t + 1 ELSE t

-----------------------------------------------------------------------------

Init ==
    /\ pipe = <<>> /\ grew = FALSE
    /\ reader = "reading" /\ busy = 0 /\ fails = FALSE
    /\ mediaSeen = FALSE /\ samples = 0 /\ status = "waiting_input"
    /\ age = 0 /\ checked = FALSE /\ stopped = FALSE
    /\ begun = FALSE /\ silent = 0 /\ pause = 0
    /\ slow = FALSE

\* A second passes and the output grows in it, or not.  FFmpeg reports, or waits
\* for room in the pipe; a later report then tells of the growth.
Tick(growth) ==
    /\ ~stopped /\ checked
    /\ reader = "reading" => pipe = <<>>
    /\ reader # "reading" => busy > 0
    /\ busy' = IF busy > 0 THEN busy - 1 ELSE 0
    /\ checked' = FALSE
    /\ age' = IF mediaSeen THEN Later(age) ELSE age
    /\ begun' = (begun \/ growth)
    /\ silent' = IF growth \/ ~begun THEN 0 ELSE Later(silent)
    /\ pause' = IF silent' > pause THEN silent' ELSE pause
    /\ IF Len(pipe) < PipeSize
       THEN pipe' = Append(pipe, grew \/ growth) /\ grew' = FALSE
       ELSE grew' = (grew \/ growth) /\ UNCHANGED pipe
    /\ UNCHANGED <<reader, fails, mediaSeen, samples, status, stopped, slow>>

(* The progress goroutine ----------------------------------------------------- *)

\* Faulty variant of AgeAfter: every report counts as an advance.
AgeAfterAny(advanced) == 0

AgeAfter(advanced) == IF advanced THEN 0 ELSE age

\* A write starts; the goroutine waits for it.
Write(place) ==
    /\ reader' = place
    /\ \E d \in Durations : busy' = d /\ slow' = (slow \/ d > 0)
    /\ fails' \in BOOLEAN

ReadReport ==
    LET advanced == Head(pipe) IN
    /\ reader = "reading" /\ pipe # <<>> /\ ~stopped
    /\ pipe' = Tail(pipe)
    /\ mediaSeen' = (mediaSeen \/ advanced)
    /\ age' = AgeAfter(advanced)
    /\ samples' = IF advanced /\ samples < 2 THEN samples + 1 ELSE samples
    /\ Write(IF samples' = 2 /\ status # "recording" THEN "saving" ELSE "reporting")
    /\ UNCHANGED <<grew, status, checked, stopped, begun, silent, pause>>

\* Faulty variant of Started: another name for the status.
StartedUnknown == "started"

Started == "recording"

\* SetRecordingStarted returns; a failure leaves it to the next report.
SavingReturns ==
    /\ reader = "saving" /\ busy = 0 /\ ~stopped
    /\ status' = IF fails THEN status ELSE Started
    /\ Write("reporting")
    /\ UNCHANGED <<pipe, grew, mediaSeen, samples, age, checked, stopped, begun, silent,
                   pause>>

\* UpdateRecordingProgress returns.
ReportingReturns ==
    /\ reader = "reporting" /\ busy = 0 /\ ~stopped
    /\ reader' = "reading" /\ fails' = FALSE
    /\ UNCHANGED <<pipe, grew, busy, mediaSeen, samples, status, age, checked, stopped,
                   begun, silent, pause, slow>>

(* The watchdog ---------------------------------------------------------------- *)

Check ==
    /\ ~checked /\ ~stopped
    /\ checked' = TRUE
    /\ stopped' = (mediaSeen /\ age >= StallTimeout)
    /\ UNCHANGED <<pipe, grew, reader, busy, fails, mediaSeen, samples, status, age,
                   begun, silent, pause, slow>>

Over == stopped /\ UNCHANGED vars

-----------------------------------------------------------------------------

Next ==
    \/ \E growth \in BOOLEAN : Tick(growth)
    \/ ReadReport \/ SavingReturns \/ ReportingReturns
    \/ Check \/ Over

Spec == Init /\ [][Next]_vars

-----------------------------------------------------------------------------

TypeOK ==
    /\ pipe \in Seq(BOOLEAN) /\ Len(pipe) <= PipeSize
    /\ reader \in {"reading", "saving", "reporting"}
    /\ busy \in 0..WriteTimeout
    /\ samples \in 0..2
    /\ status \in {"waiting_input", "recording"}
    /\ {age, silent, pause} \subseteq 0..Horizon
    /\ {grew, fails, mediaSeen, checked, stopped, begun, slow} \subseteq BOOLEAN

\* An input that never pauses is never declared stalled, however slow the
\* database is: the two writes of a report and the wait for the next one stay
\* under the least timeout (worker.go:296-298,322-336,351).
LiveStreamIsKept == stopped => pause > 0

\* If the database answers at once, an input that has stopped is declared stalled in
\* time, and a recording only ends as stalled after its output has not grown for about
\* the stream's timeout; reports that queue up behind a slow write count as growth when
\* they are read (README.md:197, worker.go:296-298,305-336,347-353).
StallIsJudged ==
    ~slow => /\ silent > StallTimeout + Slack => stopped
             /\ stopped => pause + Slack >= StallTimeout

=============================================================================
