------------------------ MODULE RecordingProcessProofs ------------------------
(***************************************************************************)
(* Proofs about RecordingProcess, for both modes and for any number of     *)
(* FFmpeg attempts and of calls of stop.                                   *)
(***************************************************************************)
EXTENDS RecordingProcess, TLAPS

Between == {"top", "start", "decide", "backoff", "finalize", "nomedia", "done"}

\* proc.cmd is the current process exactly while runFFmpegAttempt has it
\* published.
CmdIsCurrent ==
    cmd = IF pc \in {"signal", "wait", "join", "clear"} THEN attempt ELSE 0

\* A process runs only between cmd.Start and cmd.Wait.
RunsOnlyInAttempt ==
    ffmpeg = "running" => pc \in {"publish", "signal", "wait"}

\* The attempt's goroutines live only between their creation and their join.
GoroutinesScoped ==
    /\ progress \in {"reading", "saving"} => pc \in {"wait", "join"}
    /\ caller[Watchdog] # "off" => pc \in {"wait", "join"}

\* Where the loop goes on or gives up, nothing was recorded.
EmptyHanded ==
    /\ pc \in {"top", "start", "backoff", "nomedia"} => ~data /\ ~mediaSeen
    /\ ~mediaSeen => grown = 0

\* A start past the check of stopReason is the last one.
LastStart == pc = "start" /\ reason # "" => attempt < stopAt

\* There is a process to wait for.
StartedOnce == pc \in {"publish", "signal", "wait"} => attempt # 0

\* How the row follows the goroutines.
StatusFollows ==
    /\ status \in {"finalizing", "failed"} <=> pc = "done"
    /\ status = "recording" =>
          mediaSeen /\ pc \in {"wait", "join", "clear", "decide", "finalize"}
    /\ progress = "saving" => mediaSeen

\* The inductive invariant.
IInv ==
    /\ TypeOK
    /\ CmdIsCurrent
    /\ RunsOnlyInAttempt
    /\ GoroutinesScoped
    /\ EmptyHanded
    /\ LastStart
    /\ StartedOnce
    /\ StatusFollows
    /\ StopIsEnforced
    /\ NoRetryAfterStop
    /\ MediaIsFinalized

-----------------------------------------------------------------------------

LEMMA ThreadNames == Watchdog \in Threads /\ "" \notin Threads
  BY DEF Threads, Stoppers, Watchdog

LEMMA InitEstablishes == Init => IInv
<1> SUFFICES ASSUME Init PROVE IInv
  OBVIOUS
<1> USE DEF Init
<1>1. TypeOK
  <2>1. PlacesType /\ FlagsType
    BY DEF PlacesType, FlagsType
  <2>2. CountersType /\ EscalationsType
    <3>1. /\ attempt = 0 /\ cmd = 0 /\ grown = 0 /\ stopsMade = 0 /\ stopAt = 0
          /\ escalations = {}
      OBVIOUS
    <3> QED
      BY ONLY <3>1, BoundsAssumption DEF CountersType, EscalationsType
  <2>3. ThreadsType
    <3>1. /\ caller = [t \in Threads |-> IF t = Watchdog THEN "off" ELSE "idle"]
          /\ copied = [t \in Threads |-> 0]
      OBVIOUS
    <3> QED
      BY ONLY <3>1, BoundsAssumption DEF ThreadsType
  <2>4. PipeType
    <3>1. unread = <<>>
      OBVIOUS
    <3> QED
      BY ONLY <3>1 DEF PipeType, PipeSize
  <2> QED
    BY <2>1, <2>2, <2>3, <2>4 DEF TypeOK
<1>2. CmdIsCurrent /\ RunsOnlyInAttempt /\ GoroutinesScoped
  BY ThreadNames DEF CmdIsCurrent, RunsOnlyInAttempt, GoroutinesScoped
<1>3. EmptyHanded /\ LastStart /\ StartedOnce /\ StatusFollows
  BY DEF EmptyHanded, LastStart, StartedOnce, StatusFollows
<1>4. StopIsEnforced /\ NoRetryAfterStop /\ MediaIsFinalized
  BY DEF StopIsEnforced, NoRetryAfterStop, MediaIsFinalized
<1> QED
  BY <1>1, <1>2, <1>3, <1>4 DEF IInv

LEMMA LoopStepKeeps ==
    ASSUME IInv, Top \/ StartFails \/ Join \/ Clear \/ Decide \/ Backoff
    PROVE  IInv'
<1> USE DEF IInv, Top, NextTurn, StartFails, Join, GoroutinesDone,
        Clear, Decide, HasMedia, Backoff, proc, media
<1>1. TypeOK'
  <2>1. PlacesType'
    BY DEF TypeOK, PlacesType
  <2>2. CountersType'
    <3>1. CountersType
      BY DEF TypeOK
    <3>2. UNCHANGED <<attempt, cmd, grown, stopsMade, stopAt>> \/ Clear
      OBVIOUS
    <3>3. Clear => cmd' = 0 /\ UNCHANGED <<attempt, grown, stopsMade, stopAt>>
      OBVIOUS
    <3> QED
      BY ONLY <3>1, <3>2, <3>3 DEF CountersType
  <2>3. FlagsType'
    BY DEF TypeOK, FlagsType
  <2>4. ThreadsType'
    BY ThreadNames DEF TypeOK, CountersType, ThreadsType
  <2>5. EscalationsType'
    BY DEF TypeOK, CountersType, ThreadsType, EscalationsType
  <2>6. PipeType'
    BY DEF TypeOK, PipeType, PipeSize
  <2> QED
    BY <2>1, <2>2, <2>3, <2>4, <2>5, <2>6 DEF TypeOK
<1>2. CmdIsCurrent' /\ RunsOnlyInAttempt' /\ GoroutinesScoped'
  BY ThreadNames DEF TypeOK, PlacesType, CountersType, ThreadsType, CmdIsCurrent, RunsOnlyInAttempt,
         GoroutinesScoped
<1>3. EmptyHanded' /\ MediaIsFinalized' /\ StatusFollows'
  <2>1. EmptyHanded /\ MediaIsFinalized /\ StatusFollows /\ GoroutinesScoped
    OBVIOUS
  <2>2. UNCHANGED <<data, progress, grown, status>>
    OBVIOUS
  <2>3. mediaSeen' <=> mediaSeen
    <3>1. CASE StartFails
      <4>1. pc = "start" /\ mediaSeen' = FALSE
        BY <3>1
      <4>2. ~mediaSeen
        BY ONLY <2>1, <4>1 DEF EmptyHanded
      <4> QED
        BY ONLY <4>1, <4>2
    <3>2. CASE ~StartFails
      <4>1. mediaSeen' = mediaSeen
        BY <3>2
      <4> QED
        BY ONLY <4>1
    <3> QED
      BY ONLY <3>1, <3>2
  <2>4. pc # "done" /\ pc' # "done"
    OBVIOUS
  <2>5. pc' \in {"top", "start", "backoff", "nomedia"} => ~data /\ ~mediaSeen
    BY <2>1 DEF EmptyHanded
  <2>6. mediaSeen /\ pc \in {"wait", "join", "clear", "decide", "finalize"} =>
           pc' \in {"wait", "join", "clear", "decide", "finalize"}
    OBVIOUS
  <2> QED
    BY ONLY <2>1, <2>2, <2>3, <2>4, <2>5, <2>6
    DEF EmptyHanded, MediaIsFinalized, StatusFollows
<1>4. LastStart' /\ StartedOnce' /\ NoRetryAfterStop'
  BY DEF TypeOK, PlacesType, CountersType, LastStart, StartedOnce, NoRetryAfterStop
<1>5. StopIsEnforced'
  BY ThreadNames DEF TypeOK, PlacesType, CountersType, ThreadsType, CmdIsCurrent, StopIsEnforced,
         Signalled, BeingStopped
<1> QED
  BY <1>1, <1>2, <1>3, <1>4, <1>5

LEMMA LastStepKeeps ==
    ASSUME IInv, Finalize \/ FinishWithoutMedia
    PROVE  IInv'
<1> USE DEF IInv, Finalize, FinishWithoutMedia, EndReason, proc, media
<1>1. TypeOK'
  <2>1. PlacesType'
    BY DEF TypeOK, PlacesType
  <2>2. CountersType'
    BY BoundsAssumption DEF TypeOK, CountersType
  <2>3. FlagsType'
    BY DEF TypeOK, FlagsType
  <2>4. ThreadsType'
    BY ThreadNames DEF TypeOK, CountersType, ThreadsType
  <2>5. EscalationsType'
    BY DEF TypeOK, CountersType, ThreadsType, EscalationsType
  <2>6. PipeType'
    BY DEF TypeOK, PipeType, PipeSize
  <2> QED
    BY <2>1, <2>2, <2>3, <2>4, <2>5, <2>6 DEF TypeOK
<1>2. CmdIsCurrent' /\ RunsOnlyInAttempt' /\ GoroutinesScoped'
  BY ThreadNames DEF TypeOK, PlacesType, CountersType, ThreadsType, CmdIsCurrent, RunsOnlyInAttempt,
         GoroutinesScoped
<1>3. EmptyHanded' /\ MediaIsFinalized' /\ StatusFollows'
  <2>1. EmptyHanded /\ StatusFollows /\ GoroutinesScoped
    OBVIOUS
  <2>2. UNCHANGED <<data, progress, grown, mediaSeen>> /\ pc' = "done"
    OBVIOUS
  <2>3. status' = "finalizing" \/ (status' = "failed" /\ ~data /\ ~mediaSeen)
    BY <2>1 DEF EmptyHanded
  <2> QED
    BY ONLY <2>1, <2>2, <2>3 DEF EmptyHanded, MediaIsFinalized, StatusFollows
<1>4. LastStart' /\ StartedOnce' /\ NoRetryAfterStop'
  BY DEF TypeOK, PlacesType, CountersType, LastStart, StartedOnce, NoRetryAfterStop
<1>5. StopIsEnforced'
  BY ThreadNames DEF TypeOK, PlacesType, CountersType, ThreadsType, CmdIsCurrent, StopIsEnforced,
         Signalled, BeingStopped
<1> QED
  BY <1>1, <1>2, <1>3, <1>4, <1>5

LEMMA StartKeeps ==
    ASSUME IInv, Start
    PROVE  IInv'
<1> USE DEF IInv, Start, proc, media
<1>1. TypeOK'
  <2>1. PlacesType'
    BY DEF TypeOK, PlacesType
  <2>2. CountersType'
    BY BoundsAssumption DEF TypeOK, CountersType
  <2>3. FlagsType'
    BY DEF TypeOK, FlagsType
  <2>4. ThreadsType'
    BY ThreadNames DEF TypeOK, CountersType, ThreadsType
  <2>5. EscalationsType'
    BY DEF TypeOK, CountersType, ThreadsType, EscalationsType
  <2>6. PipeType'
    BY DEF TypeOK, PipeType, PipeSize
  <2> QED
    BY <2>1, <2>2, <2>3, <2>4, <2>5, <2>6 DEF TypeOK
<1>2. CmdIsCurrent' /\ RunsOnlyInAttempt' /\ GoroutinesScoped'
  BY ThreadNames DEF TypeOK, PlacesType, CountersType, ThreadsType, CmdIsCurrent, RunsOnlyInAttempt,
         GoroutinesScoped
<1>3. EmptyHanded' /\ MediaIsFinalized' /\ StatusFollows'
  BY DEF TypeOK, PlacesType, CountersType, RunsOnlyInAttempt, GoroutinesScoped,
         EmptyHanded, MediaIsFinalized, StatusFollows
<1>4. LastStart' /\ StartedOnce' /\ NoRetryAfterStop'
  <2>1. attempt \in Nat /\ stopAt \in Nat
    BY BoundsAssumption DEF TypeOK, CountersType
  <2>2. attempt' = attempt + 1 /\ stopAt' = stopAt /\ reason' = reason
    OBVIOUS
  <2>3. reason # "" => attempt < stopAt
    BY DEF LastStart
  <2>4. pc' = "publish"
    OBVIOUS
  <2>5. attempt' \in Nat /\ stopAt' \in Nat
    BY ONLY <2>1, <2>2
  <2>6. attempt' # 0
    BY ONLY <2>1, <2>2, <2>5
  <2>7. reason # "" => attempt' <= stopAt'
    <3> SUFFICES ASSUME reason # "" PROVE attempt' <= stopAt'
      OBVIOUS
    <3>1. attempt < stopAt
      BY <2>3
    <3>2. attempt' = attempt + 1 /\ stopAt' = stopAt
      BY <2>2
    <3> QED
      BY ONLY <2>1, <2>5, <3>1, <3>2
  <2> QED
    BY <2>4, <2>6, <2>7 DEF LastStart, StartedOnce, NoRetryAfterStop
<1>5. StopIsEnforced'
  BY ThreadNames DEF TypeOK, PlacesType, CountersType, ThreadsType, CmdIsCurrent, StopIsEnforced,
         Signalled, BeingStopped
<1> QED
  BY <1>1, <1>2, <1>3, <1>4, <1>5

LEMMA PublishKeeps ==
    ASSUME IInv, Publish
    PROVE  IInv'
<1> USE DEF IInv, Publish, StopRequested, proc, media
<1>1. TypeOK'
  <2>1. PlacesType'
    BY DEF TypeOK, PlacesType
  <2>2. CountersType'
    <3>1. CountersType
      BY DEF TypeOK
    <3>2. cmd' = attempt /\ UNCHANGED <<attempt, grown, stopsMade, stopAt>>
      OBVIOUS
    <3> QED
      BY ONLY <3>1, <3>2, BoundsAssumption DEF CountersType
  <2>3. FlagsType'
    BY DEF TypeOK, FlagsType
  <2>4. ThreadsType'
    BY ThreadNames DEF TypeOK, CountersType, ThreadsType
  <2>5. EscalationsType'
    BY DEF TypeOK, CountersType, ThreadsType, EscalationsType
  <2>6. PipeType'
    BY DEF TypeOK, PipeType, PipeSize
  <2> QED
    BY <2>1, <2>2, <2>3, <2>4, <2>5, <2>6 DEF TypeOK
<1>2. CmdIsCurrent' /\ RunsOnlyInAttempt' /\ GoroutinesScoped'
  BY ThreadNames DEF TypeOK, PlacesType, CountersType, ThreadsType, CmdIsCurrent, RunsOnlyInAttempt,
         GoroutinesScoped
<1>3. EmptyHanded' /\ MediaIsFinalized' /\ StatusFollows'
  BY DEF TypeOK, PlacesType, CountersType, RunsOnlyInAttempt, GoroutinesScoped,
         EmptyHanded, MediaIsFinalized, StatusFollows
<1>4. LastStart' /\ StartedOnce' /\ NoRetryAfterStop'
  BY DEF TypeOK, PlacesType, CountersType, LastStart, StartedOnce, NoRetryAfterStop
<1>5. StopIsEnforced'
  BY ThreadNames DEF TypeOK, PlacesType, CountersType, ThreadsType, CmdIsCurrent, StopIsEnforced,
         Signalled, BeingStopped
<1> QED
  BY <1>1, <1>2, <1>3, <1>4, <1>5

LEMMA SignalOwnKeeps ==
    ASSUME IInv, SignalOwn
    PROVE  IInv'
<1> USE DEF IInv, SignalOwn, Signal, proc, media
<1>1. TypeOK'
  <2>1. PlacesType'
    BY DEF TypeOK, PlacesType
  <2>2. CountersType'
    BY BoundsAssumption DEF TypeOK, CountersType
  <2>3. FlagsType'
    BY DEF TypeOK, FlagsType
  <2>4. ThreadsType'
    BY ThreadNames DEF TypeOK, CountersType, ThreadsType
  <2>5. EscalationsType'
    BY DEF TypeOK, CountersType, ThreadsType, EscalationsType
  <2>6. PipeType'
    BY DEF TypeOK, PipeType, PipeSize
  <2> QED
    BY <2>1, <2>2, <2>3, <2>4, <2>5, <2>6 DEF TypeOK
<1>2. CmdIsCurrent' /\ RunsOnlyInAttempt' /\ GoroutinesScoped'
  BY ThreadNames DEF TypeOK, PlacesType, CountersType, ThreadsType, CmdIsCurrent, RunsOnlyInAttempt,
         GoroutinesScoped
<1>3. EmptyHanded' /\ MediaIsFinalized' /\ StatusFollows'
  BY DEF TypeOK, PlacesType, CountersType, RunsOnlyInAttempt, GoroutinesScoped,
         EmptyHanded, MediaIsFinalized, StatusFollows
<1>4. LastStart' /\ StartedOnce' /\ NoRetryAfterStop'
  BY DEF TypeOK, PlacesType, CountersType, LastStart, StartedOnce, NoRetryAfterStop
<1>5. StopIsEnforced'
  <2>1. <<attempt, "SIGTERM">> \in escalations' /\ attempt' = attempt
    OBVIOUS
  <2>2. <<attempt, "SIGTERM">>[1] = attempt
    OBVIOUS
  <2> QED
    BY <2>1, <2>2 DEF StopIsEnforced, Signalled
<1> QED
  BY <1>1, <1>2, <1>3, <1>4, <1>5

LEMMA WaitKeeps ==
    ASSUME IInv, Wait
    PROVE  IInv'
<1> USE DEF IInv, Wait, proc, media
<1>1. TypeOK'
  <2>1. PlacesType'
    BY DEF TypeOK, PlacesType
  <2>2. CountersType'
    BY BoundsAssumption DEF TypeOK, CountersType
  <2>3. FlagsType'
    BY DEF TypeOK, FlagsType
  <2>4. ThreadsType'
    BY ThreadNames DEF TypeOK, CountersType, ThreadsType
  <2>5. EscalationsType'
    BY DEF TypeOK, CountersType, ThreadsType, EscalationsType
  <2>6. PipeType'
    BY DEF TypeOK, PipeType, PipeSize
  <2> QED
    BY <2>1, <2>2, <2>3, <2>4, <2>5, <2>6 DEF TypeOK
<1>2. CmdIsCurrent' /\ RunsOnlyInAttempt' /\ GoroutinesScoped'
  BY ThreadNames DEF TypeOK, PlacesType, CountersType, ThreadsType, CmdIsCurrent, RunsOnlyInAttempt,
         GoroutinesScoped
<1>3. EmptyHanded' /\ MediaIsFinalized' /\ StatusFollows'
  BY DEF TypeOK, PlacesType, CountersType, RunsOnlyInAttempt, GoroutinesScoped,
         EmptyHanded, MediaIsFinalized, StatusFollows
<1>4. LastStart' /\ StartedOnce' /\ NoRetryAfterStop'
  BY DEF TypeOK, PlacesType, CountersType, LastStart, StartedOnce, NoRetryAfterStop
<1>5. StopIsEnforced'
  BY ThreadNames DEF TypeOK, PlacesType, CountersType, ThreadsType, CmdIsCurrent, StopIsEnforced,
         Signalled, BeingStopped
<1> QED
  BY <1>1, <1>2, <1>3, <1>4, <1>5

LEMMA StopLockKeeps ==
    ASSUME IInv, NEW t \in Threads, StopLock(t)
    PROVE  IInv'
<1> USE DEF IInv, StopLock, MayStop, proc, media
<1>1. TypeOK'
  <2>1. PlacesType'
    BY DEF TypeOK, PlacesType
  <2>2. CountersType'
    <3>1. CountersType
      BY DEF TypeOK
    <3>2. stopsMade < MaxStops /\ stopsMade' = stopsMade + 1
      OBVIOUS
    <3>3. stopAt' \in {attempt, attempt + 1, stopAt} /\ UNCHANGED <<attempt, cmd, grown>>
      BY DEF UnderWay
    <3> QED
      BY ONLY <3>1, <3>2, <3>3, BoundsAssumption DEF CountersType
  <2>3. FlagsType'
    BY DEF TypeOK, FlagsType
  <2>4. ThreadsType'
    <3>1. CountersType /\ CmdIsCurrent
      BY DEF TypeOK
    <3>2. cmd \in 0..MaxAttempts
      BY ONLY <3>1, BoundsAssumption DEF CountersType, CmdIsCurrent
    <3> QED
      BY <3>2 DEF TypeOK, ThreadsType
  <2>5. EscalationsType'
    BY DEF TypeOK, CountersType, ThreadsType, EscalationsType
  <2>6. PipeType'
    BY DEF TypeOK, PipeType, PipeSize
  <2> QED
    BY <2>1, <2>2, <2>3, <2>4, <2>5, <2>6 DEF TypeOK
<1>2. CmdIsCurrent' /\ RunsOnlyInAttempt' /\ GoroutinesScoped'
  BY ThreadNames DEF TypeOK, PlacesType, CountersType, ThreadsType, CmdIsCurrent, RunsOnlyInAttempt,
         GoroutinesScoped
<1>3. EmptyHanded' /\ MediaIsFinalized' /\ StatusFollows'
  BY DEF TypeOK, PlacesType, CountersType, RunsOnlyInAttempt, GoroutinesScoped,
         EmptyHanded, MediaIsFinalized, StatusFollows
<1>4. LastStart' /\ StartedOnce' /\ NoRetryAfterStop'
  <2>1. attempt \in Nat
    <3>1. CountersType
      BY DEF TypeOK
    <3> QED
      BY ONLY <3>1, BoundsAssumption DEF CountersType
  <2>2. attempt' = attempt /\ pc' = pc
    OBVIOUS
  <2>3. CASE reason = ""
    <3>1. stopAt' = UnderWay /\ StartedOnce
      BY <2>3
    <3>2. attempt' <= stopAt' /\ (pc' = "start" => attempt' < stopAt')
      BY ONLY <2>1, <2>2, <3>1 DEF UnderWay
    <3> QED
      BY <2>2, <3>1, <3>2 DEF LastStart, StartedOnce, NoRetryAfterStop
  <2>4. CASE reason # ""
    BY <2>2, <2>4 DEF LastStart, StartedOnce, NoRetryAfterStop
  <2> QED
    BY <2>3, <2>4
<1>5. StopIsEnforced'
  BY ThreadNames DEF TypeOK, PlacesType, CountersType, ThreadsType, CmdIsCurrent, StopIsEnforced,
         Signalled, BeingStopped
<1> QED
  BY <1>1, <1>2, <1>3, <1>4, <1>5

LEMMA StopCloseKeeps ==
    ASSUME IInv, NEW t \in Threads, StopClose(t)
    PROVE  IInv'
<1> USE DEF IInv, StopClose, After, proc, media
<1>1. TypeOK'
  <2>1. PlacesType'
    BY DEF TypeOK, PlacesType
  <2>2. CountersType'
    BY BoundsAssumption DEF TypeOK, CountersType
  <2>3. FlagsType'
    BY DEF TypeOK, FlagsType
  <2>4. ThreadsType'
    BY ThreadNames DEF TypeOK, CountersType, ThreadsType
  <2>5. EscalationsType'
    BY DEF TypeOK, CountersType, ThreadsType, EscalationsType
  <2>6. PipeType'
    BY DEF TypeOK, PipeType, PipeSize
  <2> QED
    BY <2>1, <2>2, <2>3, <2>4, <2>5, <2>6 DEF TypeOK
<1>2. CmdIsCurrent' /\ RunsOnlyInAttempt' /\ GoroutinesScoped'
  BY ThreadNames DEF TypeOK, PlacesType, CountersType, ThreadsType, CmdIsCurrent, RunsOnlyInAttempt,
         GoroutinesScoped
<1>3. EmptyHanded' /\ MediaIsFinalized' /\ StatusFollows'
  BY DEF TypeOK, PlacesType, CountersType, RunsOnlyInAttempt, GoroutinesScoped,
         EmptyHanded, MediaIsFinalized, StatusFollows
<1>4. LastStart' /\ StartedOnce' /\ NoRetryAfterStop'
  BY DEF TypeOK, PlacesType, CountersType, LastStart, StartedOnce, NoRetryAfterStop
<1>5. StopIsEnforced'
  <2> SUFFICES ASSUME reason # "", pc = "wait", ffmpeg = "running",
                      ~ Signalled(attempt)
               PROVE  BeingStopped(attempt)'
    BY DEF StopIsEnforced, Signalled
  <2>1. PICK u \in Threads : caller[u] \in {"close", "signal"} /\ copied[u] = attempt
    BY DEF StopIsEnforced, BeingStopped
  <2>2. attempt # 0
    BY DEF StartedOnce
  <2>3. caller'[u] \in {"close", "signal"}
    BY <2>1, <2>2 DEF TypeOK, ThreadsType
  <2> QED
    BY <2>1, <2>3 DEF BeingStopped
<1> QED
  BY <1>1, <1>2, <1>3, <1>4, <1>5

LEMMA StopSignalKeeps ==
    ASSUME IInv, NEW t \in Threads, StopSignal(t)
    PROVE  IInv'
<1> USE DEF IInv, StopSignal, After, Signal, proc, media
<1>1. TypeOK'
  <2>1. PlacesType'
    BY DEF TypeOK, PlacesType
  <2>2. CountersType'
    BY BoundsAssumption DEF TypeOK, CountersType
  <2>3. FlagsType'
    BY DEF TypeOK, FlagsType
  <2>4. ThreadsType'
    BY ThreadNames DEF TypeOK, CountersType, ThreadsType
  <2>5. EscalationsType'
    BY DEF TypeOK, CountersType, ThreadsType, EscalationsType
  <2>6. PipeType'
    BY DEF TypeOK, PipeType, PipeSize
  <2> QED
    BY <2>1, <2>2, <2>3, <2>4, <2>5, <2>6 DEF TypeOK
<1>2. CmdIsCurrent' /\ RunsOnlyInAttempt' /\ GoroutinesScoped'
  BY ThreadNames DEF TypeOK, PlacesType, CountersType, ThreadsType, CmdIsCurrent, RunsOnlyInAttempt,
         GoroutinesScoped
<1>3. EmptyHanded' /\ MediaIsFinalized' /\ StatusFollows'
  BY DEF TypeOK, PlacesType, CountersType, RunsOnlyInAttempt, GoroutinesScoped,
         EmptyHanded, MediaIsFinalized, StatusFollows
<1>4. LastStart' /\ StartedOnce' /\ NoRetryAfterStop'
  BY DEF TypeOK, PlacesType, CountersType, LastStart, StartedOnce, NoRetryAfterStop
<1>5. StopIsEnforced'
  <2> SUFFICES ASSUME reason # "", pc = "wait", ffmpeg = "running"
               PROVE  Signalled(attempt)' \/ BeingStopped(attempt)'
    BY DEF StopIsEnforced
  <2>1. CASE Signalled(attempt)
    BY <2>1 DEF Signalled
  <2>2. CASE BeingStopped(attempt)
    <3>1. PICK u \in Threads : caller[u] \in {"close", "signal"} /\ copied[u] = attempt
      BY <2>2 DEF BeingStopped
    <3>2. CASE u = t
      <4>1. <<copied[t], "SIGTERM">> \in escalations'
        OBVIOUS
      <4>2. <<copied[t], "SIGTERM">>[1] = attempt
        BY <3>1, <3>2
      <4> QED
        BY <4>1, <4>2 DEF Signalled
    <3>3. CASE u # t
      BY <3>1, <3>3 DEF BeingStopped, TypeOK, ThreadsType
    <3> QED
      BY <3>2, <3>3
  <2> QED
    BY <2>1, <2>2 DEF StopIsEnforced
<1> QED
  BY <1>1, <1>2, <1>3, <1>4, <1>5

LEMMA EscalationEndsKeeps ==
    ASSUME IInv, NEW e \in escalations, EscalationEnds(e)
    PROVE  IInv'
<1> USE DEF IInv, EscalationEnds, CmdDone, proc, media
<1>1. TypeOK'
  <2>1. PlacesType'
    BY DEF TypeOK, PlacesType
  <2>2. CountersType'
    BY BoundsAssumption DEF TypeOK, CountersType
  <2>3. FlagsType'
    BY DEF TypeOK, FlagsType
  <2>4. ThreadsType'
    BY ThreadNames DEF TypeOK, CountersType, ThreadsType
  <2>5. EscalationsType'
    BY DEF TypeOK, CountersType, ThreadsType, EscalationsType
  <2>6. PipeType'
    BY DEF TypeOK, PipeType, PipeSize
  <2> QED
    BY <2>1, <2>2, <2>3, <2>4, <2>5, <2>6 DEF TypeOK
<1>2. CmdIsCurrent' /\ RunsOnlyInAttempt' /\ GoroutinesScoped'
  BY ThreadNames DEF TypeOK, PlacesType, CountersType, ThreadsType, CmdIsCurrent, RunsOnlyInAttempt,
         GoroutinesScoped
<1>3. EmptyHanded' /\ MediaIsFinalized' /\ StatusFollows'
  BY DEF TypeOK, PlacesType, CountersType, RunsOnlyInAttempt, GoroutinesScoped,
         EmptyHanded, MediaIsFinalized, StatusFollows
<1>4. LastStart' /\ StartedOnce' /\ NoRetryAfterStop'
  BY DEF TypeOK, PlacesType, CountersType, LastStart, StartedOnce, NoRetryAfterStop
<1>5. StopIsEnforced'
  <2> SUFFICES ASSUME reason # "", pc = "wait", ffmpeg = "running"
               PROVE  Signalled(attempt)' \/ BeingStopped(attempt)'
    BY DEF StopIsEnforced
  <2>1. attempt \in Nat
    <3>1. CountersType
      BY DEF TypeOK
    <3> QED
      BY ONLY <3>1, BoundsAssumption DEF CountersType
  <2>2. e[1] # attempt
    BY ONLY <2>1, CmdDone(e[1]), pc = "wait" DEF CmdDone
  <2>3. Signalled(attempt) => Signalled(attempt)'
    BY <2>2 DEF Signalled
  <2>4. BeingStopped(attempt) => BeingStopped(attempt)'
    BY DEF BeingStopped
  <2> QED
    BY <2>3, <2>4 DEF StopIsEnforced
<1> QED
  BY <1>1, <1>2, <1>3, <1>4, <1>5

LEMMA TerminateKeeps ==
    ASSUME IInv, NEW e \in escalations, Terminate(e)
    PROVE  IInv'
<1> USE DEF IInv, Terminate, proc, media
<1>1. TypeOK'
  <2>1. PlacesType'
    BY DEF TypeOK, PlacesType
  <2>2. CountersType'
    BY BoundsAssumption DEF TypeOK, CountersType
  <2>3. FlagsType'
    BY DEF TypeOK, FlagsType
  <2>4. ThreadsType'
    BY ThreadNames DEF TypeOK, CountersType, ThreadsType
  <2>5. EscalationsType'
    BY DEF TypeOK, CountersType, ThreadsType, EscalationsType
  <2>6. PipeType'
    BY DEF TypeOK, PipeType, PipeSize
  <2> QED
    BY <2>1, <2>2, <2>3, <2>4, <2>5, <2>6 DEF TypeOK
<1>2. CmdIsCurrent' /\ RunsOnlyInAttempt' /\ GoroutinesScoped'
  BY ThreadNames DEF TypeOK, PlacesType, CountersType, ThreadsType, CmdIsCurrent, RunsOnlyInAttempt,
         GoroutinesScoped
<1>3. EmptyHanded' /\ MediaIsFinalized' /\ StatusFollows'
  BY DEF TypeOK, PlacesType, CountersType, RunsOnlyInAttempt, GoroutinesScoped,
         EmptyHanded, MediaIsFinalized, StatusFollows
<1>4. LastStart' /\ StartedOnce' /\ NoRetryAfterStop'
  BY DEF TypeOK, PlacesType, CountersType, LastStart, StartedOnce, NoRetryAfterStop
<1>5. StopIsEnforced'
  <2> SUFFICES ASSUME reason # "", pc = "wait", ffmpeg = "running"
               PROVE  Signalled(attempt)' \/ BeingStopped(attempt)'
    BY DEF StopIsEnforced
  <2>1. Signalled(attempt) => Signalled(attempt)'
    <3>1. <<e[1], "SIGKILL">> \in escalations' /\ <<e[1], "SIGKILL">>[1] = e[1]
      OBVIOUS
    <3> QED
      BY <3>1 DEF Signalled
  <2>2. BeingStopped(attempt) => BeingStopped(attempt)'
    BY DEF BeingStopped
  <2> QED
    BY <2>1, <2>2 DEF StopIsEnforced
<1> QED
  BY <1>1, <1>2, <1>3, <1>4, <1>5

LEMMA KillKeeps ==
    ASSUME IInv, NEW e \in escalations, Kill(e)
    PROVE  IInv'
<1> USE DEF IInv, Kill, proc, media
<1>1. TypeOK'
  <2>1. PlacesType'
    BY DEF TypeOK, PlacesType
  <2>2. CountersType'
    BY BoundsAssumption DEF TypeOK, CountersType
  <2>3. FlagsType'
    BY DEF TypeOK, FlagsType
  <2>4. ThreadsType'
    BY ThreadNames DEF TypeOK, CountersType, ThreadsType
  <2>5. EscalationsType'
    BY DEF TypeOK, CountersType, ThreadsType, EscalationsType
  <2>6. PipeType'
    BY DEF TypeOK, PipeType, PipeSize
  <2> QED
    BY <2>1, <2>2, <2>3, <2>4, <2>5, <2>6 DEF TypeOK
<1>2. CmdIsCurrent' /\ RunsOnlyInAttempt' /\ GoroutinesScoped'
  BY ThreadNames DEF TypeOK, PlacesType, CountersType, ThreadsType, CmdIsCurrent, RunsOnlyInAttempt,
         GoroutinesScoped
<1>3. EmptyHanded' /\ MediaIsFinalized' /\ StatusFollows'
  BY DEF TypeOK, PlacesType, CountersType, RunsOnlyInAttempt, GoroutinesScoped,
         EmptyHanded, MediaIsFinalized, StatusFollows
<1>4. LastStart' /\ StartedOnce' /\ NoRetryAfterStop'
  BY DEF TypeOK, PlacesType, CountersType, LastStart, StartedOnce, NoRetryAfterStop
<1>5. StopIsEnforced'
  BY ThreadNames DEF TypeOK, PlacesType, CountersType, ThreadsType, CmdIsCurrent, StopIsEnforced,
         Signalled, BeingStopped
<1> QED
  BY <1>1, <1>2, <1>3, <1>4, <1>5

LEMMA FFmpegKeeps ==
    ASSUME IInv, FFmpeg
    PROVE  IInv'
<1> USE DEF IInv, FFmpeg, FFmpegExits, FFmpegWrites, FFmpegReports, proc, media
<1>1. TypeOK'
  <2>1. PlacesType'
    BY DEF TypeOK, PlacesType
  <2>2. CountersType'
    BY BoundsAssumption DEF TypeOK, CountersType
  <2>3. FlagsType'
    BY DEF TypeOK, FlagsType
  <2>4. ThreadsType'
    BY ThreadNames DEF TypeOK, CountersType, ThreadsType
  <2>5. EscalationsType'
    BY DEF TypeOK, CountersType, ThreadsType, EscalationsType
  <2>6. PipeType'
    BY DEF TypeOK, PipeType, PipeSize
  <2> QED
    BY <2>1, <2>2, <2>3, <2>4, <2>5, <2>6 DEF TypeOK
<1>2. CmdIsCurrent' /\ RunsOnlyInAttempt' /\ GoroutinesScoped'
  BY ThreadNames DEF TypeOK, PlacesType, CountersType, ThreadsType, CmdIsCurrent, RunsOnlyInAttempt,
         GoroutinesScoped
<1>3. EmptyHanded' /\ MediaIsFinalized' /\ StatusFollows'
  BY DEF TypeOK, PlacesType, CountersType, RunsOnlyInAttempt, GoroutinesScoped,
         EmptyHanded, MediaIsFinalized, StatusFollows
<1>4. LastStart' /\ StartedOnce' /\ NoRetryAfterStop'
  BY DEF TypeOK, PlacesType, CountersType, LastStart, StartedOnce, NoRetryAfterStop
<1>5. StopIsEnforced'
  BY ThreadNames DEF TypeOK, PlacesType, CountersType, ThreadsType, CmdIsCurrent, StopIsEnforced,
         Signalled, BeingStopped
<1> QED
  BY <1>1, <1>2, <1>3, <1>4, <1>5

LEMMA ReadSampleKeeps ==
    ASSUME IInv, ReadSample
    PROVE  IInv'
<1> USE DEF IInv, ReadSample, proc, media
<1>1. TypeOK'
  <2>1. PlacesType'
    BY DEF TypeOK, PlacesType
  <2>2. CountersType'
    <3>1. grown' \in {grown, grown + 1} /\ (grown' = grown + 1 => grown < 2)
      OBVIOUS
    <3>2. CountersType /\ UNCHANGED <<attempt, cmd, stopsMade, stopAt>>
      BY DEF TypeOK
    <3> QED
      BY ONLY <3>1, <3>2 DEF CountersType
  <2>3. FlagsType'
    BY DEF TypeOK, FlagsType, PipeType
  <2>4. ThreadsType'
    BY ThreadNames DEF TypeOK, CountersType, ThreadsType
  <2>5. EscalationsType'
    BY DEF TypeOK, CountersType, ThreadsType, EscalationsType
  <2>6. PipeType'
    <3>1. PipeType /\ unread # <<>> /\ unread' = Tail(unread)
      BY DEF TypeOK
    <3> QED
      BY ONLY <3>1 DEF PipeType, PipeSize
  <2> QED
    BY <2>1, <2>2, <2>3, <2>4, <2>5, <2>6 DEF TypeOK
<1>2. CmdIsCurrent' /\ RunsOnlyInAttempt' /\ GoroutinesScoped'
  BY ThreadNames DEF TypeOK, PlacesType, CountersType, ThreadsType, CmdIsCurrent, RunsOnlyInAttempt,
         GoroutinesScoped, PipeType
<1>3. EmptyHanded' /\ MediaIsFinalized' /\ StatusFollows'
  <2>1. pc \in {"wait", "join"}
    BY DEF GoroutinesScoped
  <2>2. status # "failed" /\ pc' = pc /\ status' = status
    BY <2>1 DEF StatusFollows
  <2>3. mediaSeen => mediaSeen'
    OBVIOUS
  <2>4. ~mediaSeen' => grown' = 0
    BY DEF EmptyHanded
  <2>5. grown' = 2 => mediaSeen'
    BY <2>4
  <2> QED
    BY <2>1, <2>2, <2>3, <2>4, <2>5 DEF EmptyHanded, MediaIsFinalized, StatusFollows
<1>4. LastStart' /\ StartedOnce' /\ NoRetryAfterStop'
  BY DEF TypeOK, PlacesType, CountersType, LastStart, StartedOnce, NoRetryAfterStop
<1>5. StopIsEnforced'
  BY ThreadNames DEF TypeOK, PlacesType, CountersType, ThreadsType, CmdIsCurrent, StopIsEnforced,
         Signalled, BeingStopped
<1> QED
  BY <1>1, <1>2, <1>3, <1>4, <1>5

LEMMA GoroutineStepKeeps ==
    ASSUME IInv, SetRecordingStarted \/ SetRecordingStartedFails \/ PipeEnds \/ WatchdogEnds
    PROVE  IInv'
<1> USE DEF IInv, SetRecordingStarted,
        SetRecordingStartedFails, PipeEnds, WatchdogEnds, proc, media
<1>1. TypeOK'
  <2>1. PlacesType'
    BY DEF TypeOK, PlacesType
  <2>2. CountersType'
    BY BoundsAssumption DEF TypeOK, CountersType
  <2>3. FlagsType'
    BY DEF TypeOK, FlagsType
  <2>4. ThreadsType'
    BY ThreadNames DEF TypeOK, CountersType, ThreadsType
  <2>5. EscalationsType'
    BY DEF TypeOK, CountersType, ThreadsType, EscalationsType
  <2>6. PipeType'
    BY DEF TypeOK, PipeType, PipeSize
  <2> QED
    BY <2>1, <2>2, <2>3, <2>4, <2>5, <2>6 DEF TypeOK
<1>2. CmdIsCurrent' /\ RunsOnlyInAttempt' /\ GoroutinesScoped'
  BY ThreadNames DEF TypeOK, PlacesType, CountersType, ThreadsType, CmdIsCurrent, RunsOnlyInAttempt,
         GoroutinesScoped
<1>3. EmptyHanded' /\ MediaIsFinalized' /\ StatusFollows'
  BY DEF TypeOK, PlacesType, CountersType, RunsOnlyInAttempt, GoroutinesScoped,
         EmptyHanded, MediaIsFinalized, StatusFollows
<1>4. LastStart' /\ StartedOnce' /\ NoRetryAfterStop'
  BY DEF TypeOK, PlacesType, CountersType, LastStart, StartedOnce, NoRetryAfterStop
<1>5. StopIsEnforced'
  BY ThreadNames DEF TypeOK, PlacesType, CountersType, ThreadsType, CmdIsCurrent, StopIsEnforced,
         Signalled, BeingStopped
<1> QED
  BY <1>1, <1>2, <1>3, <1>4, <1>5

-----------------------------------------------------------------------------

\* The inductive invariant holds in every reachable state.
THEOREM ProcessInvariant == Spec => []IInv
<1>1. Init => IInv
  BY InitEstablishes
<1>2. IInv /\ [Next]_vars => IInv'
  <2> SUFFICES ASSUME IInv, [Next]_vars PROVE IInv'
    OBVIOUS
  <2>1. CASE UNCHANGED vars
    <3> USE <2>1 DEF vars, IInv
    <3>1. PlacesType'
      BY DEF TypeOK, PlacesType
    <3>2. FlagsType'
      BY DEF TypeOK, FlagsType
    <3>3. CountersType' /\ ThreadsType' /\ EscalationsType' /\ PipeType'
      BY DEF TypeOK, CountersType, ThreadsType, EscalationsType, PipeType
    <3>4. CmdIsCurrent' /\ RunsOnlyInAttempt' /\ GoroutinesScoped' /\ EmptyHanded'
      BY DEF CmdIsCurrent, RunsOnlyInAttempt, GoroutinesScoped, EmptyHanded
    <3>5. LastStart' /\ StartedOnce' /\ StatusFollows'
      BY DEF LastStart, StartedOnce, StatusFollows
    <3>6. StopIsEnforced'
      BY DEF StopIsEnforced, Signalled, BeingStopped
    <3>7. NoRetryAfterStop' /\ MediaIsFinalized'
      BY DEF NoRetryAfterStop, MediaIsFinalized
    <3> QED
      BY <3>1, <3>2, <3>3, <3>4, <3>5, <3>6, <3>7 DEF TypeOK
  <2>2. CASE Run
    BY <2>2, LoopStepKeeps, LastStepKeeps, StartKeeps, PublishKeeps, SignalOwnKeeps, WaitKeeps
    DEF Run
  <2>3. CASE Reader \/ WatchdogEnds
    BY <2>3, ReadSampleKeeps, GoroutineStepKeeps DEF Reader
  <2>4. CASE FFmpeg
    BY <2>4, FFmpegKeeps
  <2>5. CASE Escalate
    BY <2>5, EscalationEndsKeeps, TerminateKeeps, KillKeeps DEF Escalate
  <2>6. CASE \E t \in Threads : Stop(t)
    BY <2>6, StopLockKeeps, StopCloseKeeps, StopSignalKeeps DEF Stop
  <2> QED
    BY <2>1, <2>2, <2>3, <2>4, <2>5, <2>6 DEF Next, Stopped
<1> QED
  BY <1>1, <1>2, PTL DEF Spec

\* The variables of the recording keep their types.
THEOREM ProcessTypeOK == Spec => []TypeOK
  BY ProcessInvariant, PTL DEF IInv

\* An accepted stop always reaches the FFmpeg it is for, whichever way it
\* interleaves with the start of that process (worker.go:283-294,415-450).
THEOREM ProcessStopIsEnforced == Spec => []StopIsEnforced
  BY ProcessInvariant, PTL DEF IInv

\* After a stop no attempt is started but one already past its check
\* (worker.go:229-236,254-261).
THEOREM ProcessNoRetryAfterStop == Spec => []NoRetryAfterStop
  BY ProcessInvariant, PTL DEF IInv

\* A recording is given up only if nothing reached the disk (worker.go:238).
THEOREM ProcessMediaIsFinalized == Spec => []MediaIsFinalized
  BY ProcessInvariant, PTL DEF IInv

\* The file is decided about, and finalized, when nobody writes it any more
\* (worker.go:379-388).
THEOREM ProcessAttemptIsOver == Spec => []AttemptIsOver
<1>1. IInv => AttemptIsOver
  BY DEF IInv, TypeOK, PlacesType, RunsOnlyInAttempt, GoroutinesScoped, AttemptIsOver
<1> QED
  BY <1>1, ProcessInvariant, PTL

\* Every step of the goroutines is a step of the row's contract or leaves the
\* row alone (store_worker.go:52-70).
THEOREM ProcessFollowsContract == Spec => StatusFollowsContract
<1>1. Init => RC!Init
  BY DEF Init, RC!Init
<1>2. IInv /\ [Next]_vars => [RC!Next]_status
  <2> SUFFICES ASSUME IInv, [Next]_vars, status' # status PROVE RC!Next
    OBVIOUS
  <2>1. CASE Finalize
    <3>1. status \in {"waiting_input", "recording"} /\ status' = "finalizing"
      BY <2>1 DEF Finalize, IInv, TypeOK, PlacesType, StatusFollows
    <3> QED
      BY <3>1 DEF RC!Next, RC!Close
  <2>2. CASE FinishWithoutMedia
    <3>1. status = "waiting_input" /\ status' = "failed"
      BY <2>2 DEF FinishWithoutMedia, IInv, TypeOK, PlacesType, StatusFollows
    <3> QED
      BY <3>1 DEF RC!Next, RC!Fail
  <2>3. CASE SetRecordingStarted
    <3>1. status = "waiting_input" /\ status' = "recording"
      BY <2>3 DEF SetRecordingStarted, IInv, TypeOK, PlacesType, StatusFollows, GoroutinesScoped
    <3> QED
      BY <3>1 DEF RC!Next, RC!Begin
  <2> QED
    BY <2>1, <2>2, <2>3
    DEF vars, Next, Run, Reader, FFmpeg, Escalate, Stop, Stopped, Top, Start, StartFails,
        Publish, SignalOwn, Wait, Join, Clear, Decide, Backoff, ReadSample,
        SetRecordingStartedFails, PipeEnds, FFmpegExits, FFmpegWrites, FFmpegReports,
        EscalationEnds, Terminate, Kill, WatchdogEnds, StopLock, StopClose, StopSignal
<1> QED
  BY <1>1, <1>2, ProcessInvariant, PTL DEF Spec, StatusFollowsContract, RC!Spec

LEMMA StepOfRun ==
    ASSUME IInv, [Next]_vars
    PROVE  Promise!Next \/ UNCHANGED Promise!vars
<1>1. CASE Finalize
  BY <1>1 DEF Finalize, RunPlace, Promise!Next, Promise!Close
<1>2. CASE FinishWithoutMedia
  BY <1>2 DEF FinishWithoutMedia, RunPlace, Promise!Next, Promise!Close
<1>3. CASE SetRecordingStarted
  <2>1. /\ pc \in {"wait", "join"} /\ status \in {"waiting_input", "recording"}
        /\ status' = "recording" /\ UNCHANGED <<pc, data>>
    BY <1>3 DEF SetRecordingStarted, IInv, TypeOK, PlacesType, StatusFollows, GoroutinesScoped
  <2> QED
    BY <2>1 DEF RunPlace, Promise!Next, Promise!Report, Promise!vars
<1>4. CASE FFmpegWrites
  <2>1. pc \in {"publish", "signal", "wait"} /\ data' = TRUE /\ UNCHANGED <<pc, status>>
    BY <1>4 DEF FFmpegWrites, IInv, RunsOnlyInAttempt
  <2> QED
    BY <2>1 DEF RunPlace, Promise!Next, Promise!Write
<1>5. CASE Top \/ Decide
  <2>1. /\ pc \in {"top", "decide"} /\ UNCHANGED <<status, data>>
        /\ \/ pc' \in {"start", "finalize", "backoff"}
           \/ pc' = "nomedia" /\ ~data /\ ~mediaSeen
    BY <1>5 DEF Top, NextTurn, Decide, HasMedia, IInv, EmptyHanded
  <2>2. pc' = "nomedia" => status = "waiting_input"
    BY <2>1 DEF IInv, TypeOK, PlacesType, StatusFollows
  <2>3. CASE pc' = "finalize"
    BY <2>1, <2>3 DEF RunPlace, Promise!Next, Promise!End
  <2>4. CASE pc' = "nomedia"
    BY <2>1, <2>2, <2>4 DEF RunPlace, Promise!Next, Promise!GiveUp
  <2>5. CASE pc' \in {"start", "backoff"}
    BY <2>1, <2>5 DEF RunPlace, Promise!vars
  <2> QED
    BY <2>1, <2>3, <2>4, <2>5
<1>6. CASE Start \/ StartFails \/ Publish \/ SignalOwn \/ Wait \/ Join \/ Clear \/ Backoff
  <2>1. /\ pc \in {"start", "publish", "signal", "wait", "join", "clear", "backoff"}
        /\ pc' \in {"publish", "decide", "signal", "wait", "join", "clear", "top"}
        /\ UNCHANGED <<status, data>>
    BY <1>6 DEF Start, StartFails, Publish, SignalOwn, Wait, Join, Clear, Backoff
  <2> QED
    BY <2>1 DEF RunPlace, Promise!vars
<1>7. CASE UNCHANGED <<pc, status, data>>
  BY <1>7 DEF RunPlace, Promise!vars
<1> QED
  BY <1>1, <1>2, <1>3, <1>4, <1>5, <1>6, <1>7
  DEF vars, Next, Run, Reader, FFmpeg, Escalate, Stop, Stopped, ReadSample,
      SetRecordingStartedFails, PipeEnds, FFmpegExits, FFmpegReports, EscalationEnds,
      Terminate, Kill, WatchdogEnds, StopLock, StopClose, StopSignal

\* A recording's goroutines do what RecordingRun promises of them, for either mode and
\* any number of attempts and stops; RecordingLifecycleProofs shows that its goroutines
\* do that too, and may do all of it (worker.go:227-270,383).
THEOREM ProcessKeepsRun == Spec => KeepsRun
<1>1. Init => Promise!Init
  BY DEF Init, RunPlace, Promise!Init
<1>2. IInv /\ [Next]_vars => [Promise!Next]_(Promise!vars)
  BY StepOfRun
<1> QED
  BY <1>1, <1>2, ProcessInvariant, PTL DEF Spec, KeepsRun, Promise!Spec

=============================================================================
