# TSIngest: specification and verification

TLA+ modules that model TSIngest as its source implements it, TLC configurations
that check them on small instances, and TLAPS proofs for every size. Paths and
line numbers refer to `src/`.

- [The system](#the-system)
- [Inventory](#inventory)
- [Modules and how they correspond to the code](#modules-and-how-they-correspond-to-the-code)
- [Runs](#runs)
- [Bounds](#bounds)
- [Fairness](#fairness)
- [Proofs](#proofs)
- [Where code and documents disagree](#where-code-and-documents-disagree)
- [What is not modelled](#what-is-not-modelled)
- [Plan](#plan)

## The system

TSIngest records SRT streams. A web process (`internal/api`, `internal/app`)
serves the operator and writes PostgreSQL; one worker process
(`internal/worker`, `recorder-01` in `compose.yaml`) claims commands from a
table, runs one FFmpeg per recording and per conversion, and writes all files.
The two processes share nothing but the database and, read-only for the web
process, the recordings directory.

```
 operator -> HTTP handlers -> Store ----> PostgreSQL <---- Store <- Runner.Run
                               |  recordings, streams, media_files,   |  claim loop, one goroutine per command
                               |  mp4_jobs, worker_commands, settings |  one goroutine group per recording
                               +--------------------------------------+--> FFmpeg, disk
```

## Inventory

| Component | State | Operations | Hard behaviour | Correct when |
|---|---|---|---|---|
| Command queue (`store_worker.go:12-45`, `worker.go:60-128,654-669`) | `worker_commands`, `Runner.conversions`, the goroutines alive | insert, claim, requeue, complete, reset at start | crash between claim and completion, errors of unchecked writes, a full set of slots at the head of the queue | a row has one handler, a crash strands none, a finished row is not run again, slots are counted right |
| Recording process (`worker.go:39-48,227-450`) | `recordingProcess` (cmd, stopReason, stopCh), FFmpeg, the progress pipe | attempt, retry, stop from four threads, signal escalation | stop between start and publication of the process; a pipe closed before it is read; a late status write | a stop ends the recording, media is never thrown away, nothing outlives an attempt |
| Stall watchdog (`worker.go:296-359`, `media.go:210-236`) | lastAdvanceNS, mediaSeen, positiveSamples | read a report, write progress, tick | the reader waits for the database while time runs | a live input is kept, a stalled one ends in time |
| Recording lifecycle (`store_recordings.go:16-71`, `worker.go:145-225,395-411,452-511,638-733`) | `recordings` rows, the file, `Runner.recordings` | request, start, stop, finalize, recover, shut down | commands handled concurrently and replayed; crash between any two writes | every active row has somebody who ends it; "ready" means a stored file |
| Media files and conversions (`store_recordings.go:73-142,194-226`, `worker.go:513-636`) | `media_files`, `mp4_jobs`, the files | queue, convert, delete, hide | checks and updates in separate statements; replays after partial work | a job ends; rows and files agree; one writer per output |
| Streams and admission (`store_streams.go:15-216`, `store_recordings.go:16-51`) | `streams`, `recordings` | parse and validate a form or an SRT address; create, update, delete, start | concurrent transactions at READ COMMITTED; an edit in two statements; a value that passes validation and fails later | the limit holds; no recording of a deleted stream; a port has one listener; an edit is whole; a stored stream can be given to FFmpeg |
| Settings and disk guard (`store_settings.go:11-79`, `worker.go:683-711,735-741`) | `settings`, `Runner.settings` | save, copy, measure, refuse, stop | concurrent savers; three stale copies; word arithmetic | saved settings are valid; the hard level stops everything |
| Accounts, sessions, login limiter (`db.go:102-174`, `server.go:115-198,423-461,578-609`) | `users`, `sessions`, a map in memory | log in, authenticate, change the password | | not modelled, see below |
| Migrations and connection (`db.go:25-116`, `main.go:18-57`) | `schema_migrations`, the schema, `users` | wait for the database, apply what is missing, add the first user | two processes start together without a lock; crash or outage inside a transaction; a commit without an answer | each migration takes effect once and in order; nobody serves too early; both serve in the end |
| HTTP, event stream, dashboard, heartbeats, media arguments, configuration, secrets, web client, scripts | | | | not modelled, see below |

The behaviours this code makes hard to test, each at its line and with the
properties about it, are the `hazards` of `PROJECT.json`.

## Modules and how they correspond to the code

**CommandQueue** is the table `worker_commands`, the poll loop and the conversion
slots. `commands` is the table in id order; `handlers` are the goroutines of
`worker.go:114`; `conversions` and `limit` are the two numbers `reserveConversion`
compares; `requeue` is the claimed row between `worker.go:109` and `:110`.
`ClaimUncertain`, `RequeueLost` and `CompletionLost` are database errors: the code
ignores the errors of `RequeueCommand` and `CompleteCommand`, and a commit that
reports an error may have happened. `Crash`, `Exit` and `Restart` are a new process
that runs `ResetStaleWork`. With a single worker id the condition on `worker_id`
always holds, and the other half of that `OR` (`claimed_at` older than two minutes)
adds no row.

**RecordingProcess** is one recording inside the worker. Each step of `pc` is one
lock-protected section, channel operation or database write of `runRecording` and
`runFFmpegAttempt`; `caller[t]` is where each thread is inside
`recordingProcess.stop`; `escalations` are the goroutines of `signalProcess`;
`progress` is the goroutine that reads FFmpeg's reports and writes
`SetRecordingStarted`. FFmpeg is external: it may exit, write or report at any time
and ignore SIGINT and SIGTERM. `Wait` models that `cmd.Wait` closes the pipe: any
suffix of the unread reports is lost.

**RecordingContract** is the abstract specification of a recording's row: waiting,
recording, finalizing, then ready or failed, forward only.

**StallWatchdog** is the same progress goroutine and the watchdog in seconds: reports
once a second, a reader that waits up to two seconds for each of two writes, a
ticker once a second. `begun`, `silent`, `pause` and `slow` are history the code
does not keep.

**RecordingLifecycle** composes the queue (`Queue == INSTANCE CommandQueue`, its own
variables, so that each action of a handler or of the web process conjoins one of
the queue's) with the handlers `startRecording` and `stopRecording`,
`finalizeRecording` step by step (`fin`), `recoverInterrupted` (`todo`), shutdown and
crash. The inside of a running recording is RecordingProcess and is here one place,
"run". `disk`, `tsRow` and `rec` survive a crash, `memory` does not. The file is "part"
once the present run has written to it, and "old" when a run finds what an earlier one
left (after a lost read or write); `fileHasData` cannot tell the two apart, FFmpeg's
`-y` empties it.

**RecordingRun** is what joins the two: one run of a recording as its row and its file
see it. RecordingProcess implements it (`KeepsRun`); each stay of RecordingLifecycle at
"run" is one (`RunKeepsPromise` in `RowsFollowContract`), and RecordingLifecycle allows
every step of it (theorem `LifecycleAdmitsRuns`): "run" leaves nothing out and puts
nothing in.

**MediaJobs** composes the queue with `generateMP4`, `deleteFile` and the web
process's `QueueMP4`, `QueueDeleteFile` and `HideRecordingRecord` for one recording that
is ready or failed (`status`); `StartReplayed` makes a ready one failed, as a replayed
start does. `hiding` is how far a removal of a ready recording from the list has come:
that no file is left and that no job is active are two reads, the update a third
statement. The removal of a failed one checks neither, and is one step. `hpc[i]` is the
place in the handler of command `i`; each place ends with a database statement, a file
operation or FFmpeg's exit. `lost` counts the errors that end a handler without telling
its job or row: lost reads and writes, and the `return`s after errors of `SafePath` and
`StdoutPipe` (`worker.go:536-538,551-553`).

**StreamInput** is what happens to a form before a transaction sees it:
`NormalizeStreamInput` with `firstQuery` (a Go map, so that with two spellings of a key
any value may come first: the operator returns the set of possible results),
`StreamNameFromSRT`, the defaults and checks of `ValidateStreamInput`, and afterwards
the CHECKs of table `streams` and `BuildSRTURL`. A text is a record of its identity
and length; nothing is put together character by character.

**StreamAdmission** extends it with the web process's transactions about streams,
statement by statement: the advisory lock, `FOR SHARE`, the partial unique indexes,
`UpdateStream` whose second statement writes the passphrase, and deletion in two
statements. `StartFFmpeg` copies the address the row has when the worker reads it.
`asked` and `torn` are history: what the edits of a stream, one after another, ask
for, and the streams for which there is no such thing.

**DiskGuard** is `SaveSettings` with its row locks, the worker's 15-second copy,
`diskLevels` with unsigned words, the start's check and the guard, whose ticker,
measurement and stops are three steps (`guard`). The client's
`diskGuardLevel` (`web/src/App.tsx:341`) is the reference for what the levels mean.

**SchemaMigration** is the start of both processes: `OpenStore`, `Migrate` and
`BootstrapAdmin`, each statement a step of its own, a migration's body and the record
of its version in one transaction. The key of `schema_migrations` makes a second
writer wait for the first and then fail. `Late`, `BodyFails` and `RecordFails` are
the ways to lose a race; a loser exits and compose starts it again.

**CommandLedger** is the abstract queue: commands are begun in order, one that is
being worked on is not begun again before the worker lost it, and one that is
finished never changes. CommandQueue implements it: a row is *running* when it has a
handler, *adrift* when it is claimed and has none (`KeepsLedger`).

The modules `MC*` give the constants small sets; the operators
headed "Faulty variant of" are plausible bugs, each used to show that a property
notices the bug.

## Runs

`P` passes; `V` exhibits a disagreement (see below).

| Run | Module, cfg | | Shows |
|---|---|---|---|
| queue | MCCommandQueue | P | the queue keeps CommandLedger through 2 crashes or shutdowns and 1 lost write; slots and claims are counted right; every command finishes unless a write is lost |
| process | RecordingProcess | P | a caller: no missed stop, no attempt after it, no lost media; all of it is one run of RecordingRun; a stop ends the recording |
| lifecycle | MCRecordingLifecycle, RecordingLifecycle | P | two recordings of a stream, 2 crashes or shutdowns, 1 lost write of each kind: what "ready" and a queued conversion promise, who owns an active row, no row ends under its FFmpeg or is revived, nothing runs on after a stop reported done, what happens at "run" is a RecordingRun; RecordingContract until the first crash or lost write |
| lifecycle_live | MCRecordingLifecycle, RecordingLifecycleLive | P | a stopped recording ends, through a crash; the automatic conversion is queued while the worker keeps running and no write is lost |
| lifecycle_lost_stop | MCRecordingLifecycle, RecordingLifecycleLostStop | V | a stop that is handled and stops nothing |
| media | MCMediaJobs, MediaJobs | P | one writer of the MP4, no orphaned job, rows and files agree and a ready recording that is removed leaves no TS (`RowsMatchFiles`), with a crash and an error that ends a handler early |
| media_live | MCMediaJobs, MediaJobsLive | P | a conversion ends, through a crash, unless an error ends its handler without telling the job |
| media_ts_race | MCMediaJobs, MediaJobsTsRace | V | the TS is deleted under its conversion |
| admission | MCStreamAdmission | P | two requests about three streams, from form to FFmpeg: the limit; admitted streams exist; port clashes come from edits; edits are whole; stored streams are usable |
| stall | StallWatchdog | P | a live input is kept however slow the database; with a fast one a stall is declared in time and only then |
| disk | MCDiskGuard | P | valid settings; the client's levels, up to a watermark that wraps; a disk that stays at the hard level ends every recording |
| schema | SchemaMigration | P | two processes on an empty database with 3 crashes, outages or lost answers: migrations once and in order, nobody serves too early, both serve in the end |

`CHECK_DEADLOCK FALSE` stands where the bounds on requests let the system come to rest
with everything done (recordings and media) or the system serves and nothing is left to
happen (migrations); elsewhere deadlock is checked.

The recordings of `lifecycle` include one with automatic conversion and one without.
The mode "listener" of RecordingProcess, which makes one attempt, is covered by the
proofs, which hold for both modes.

## Bounds

- *Commands* (`MaxCommands`, 3 or 4; 2 in `media_live`): a start, a stop that races it and
  a conversion; two conversions and a deletion; the queue's head-of-line blocking needs
  three.
- *Crashes and shutdowns* (`MaxStops`, 1 or 2): two allow a crash during the recovery
  from a crash. *Lost writes* (`MaxFaults` of the queue, `MaxLost` of the rest, 0 or
  1): each property that a lost write may break says `faults = 0` or `lost = 0`
  itself, so one loss shows that nothing else breaks. In MediaJobs `MaxLost` also
  counts the early returns of `generateMP4`.
- *Conversion slots* (`MaxLimit`, 2 in `media`): the constraint `BothSlots` starts its
  worker with both, so that two conversions can meet; `media_live` has one, and `queue`
  changes the limit.
- *Recordings* (1 or 2), *conversions* (2), *streams* (3 with a limit of 2), *requests in
  flight* (2), *savers* (2): every check-then-act race here is between two actors.
- *FFmpeg attempts* (`MaxAttempts`, 2): one that is stopped and one that must not start.
  *Stops* (2): the second meets a process already being stopped. `PipeSize`, 2 reports
  in RecordingProcess: one to be read and one to be lost.
- StallWatchdog: `Timeout` is 5 seconds, the smallest the code uses and the hardest for
  a live input; `Horizon` stops the clocks just above what the properties compare;
  `PipeSize` 6 stands for some hundred reports and is more than two slow writes let
  pile up between two reads.
- *Forms*: one listener and one pasted address that every limit of `ValidateStreamInput`
  is varied on, just inside (stored) and just outside (rejected); no form has two
  spellings of one key. With three streams on two ports every pair of a clash, an edit
  and a deletion occurs.
- SchemaMigration: the two processes and the two migration files of the repository;
  three faults let each process be killed once while the database fails too.
- DiskGuard: a disk of 20 bytes, 2 bytes a GiB, words of 16 values; one percent steps
  are a fifth of a byte, so the comparisons meet equality on both sides. A soft watermark
  of 8 GiB wraps to zero; the theorem has every watermark.

## Fairness

Weak fairness only, and only for what the Go scheduler, timers and compose keep
doing: the poll loop's next step, a started handler's next step, a goroutine's next
step, an armed timer of an escalation, the restart policy (`unless-stopped`), the
worker's tickers. Of the disk guard it says only that a measurement is made, not what it
finds, and that the settings are read again without an error some time. A conversion's
FFmpeg is assumed to exit: `generateMP4` gives it no
deadline, so `EveryCommandFinishes` and `JobsEnd` hold only for inputs on which it
does. A recording's FFmpeg is never assumed to exit or to react to a signal it can
ignore; `StopEndsRecording` shows that a stop ends it all the same, and on that ground
RecordingLifecycle assumes that a stopped recording's run ends. In SchemaMigration
compose starts an ended process again and the database comes back (`restart:
unless-stopped`, `compose.yaml:11,38,64`). Operators, crashes and lost writes have no
fairness.

## Proofs

TLAPS checks these for every value of the constants that satisfies the modules'
`ASSUME`s (positive bounds, a mode that is listener or caller, a positive limit; any
stall timeout in seconds). Every safety property of the passing runs is a theorem.

*CommandQueueProofs.* The invariant `IInv` is the type invariant, `HandlersOwnClaims`,
`SlotsMatchHandlers`, `ClaimsAreHeld` and `QuietWhenDown`: a worker that is down has no
handlers, no slot and nothing to requeue, and one that recovers has no handler yet.
That last part is what makes a restart safe: `ResetStaleWork` turns every claimed row
into a pending one, which contradicts `HandlersOwnClaims` unless nobody runs.
`QueueKeepsLedger` is the refinement: each step of the queue, seen through the
mapping, is a step of CommandLedger or none; `IsNext` gives the order, and
`HandlersOwnClaims` that only running commands finish.

*RecordingProcessProofs.* The invariant relates `pc`, the published process and the
stopping threads; the hard part is `StopIsEnforced`, which needs to know who holds a
copy of which process between `proc.mu`'s release and `signalProcess`, and that an
escalation for the current attempt is not ended by an earlier one. Because the
progress goroutine is joined, nobody can write "recording" after "finalizing", which
gives `ProcessFollowsContract`, the refinement of RecordingContract, and
`ProcessKeepsRun`, the stronger one of RecordingRun.

*RecordingLifecycleProofs.* What has to be known besides the properties: a worker that
is down or recovers has no goroutine (`Memory`); a recording has one start, and until
that is through nothing is registered for it (`OneStart`, `StartFirst`), so that the
refusal of a replayed start cannot end a row under its FFmpeg; the unique index
(`OneStream`); what each place of `finalizeRecording` has already stored (`Ending`); that
a worker that never went down meets no late start (`FirstBoot`); and, unless a write
was lost, who will end each active row (`Ender` in `Owned`: the start to come, the
goroutine, the list of the recovery, or the recovery of the next start). That a stop
reported done is true (the last part of `RunningIsActive`) needs `Stopped`: the recording
of such a stop is told to stop, has ended or will be ended by recovery (`Over`), and
nobody is told to stop before its start is through (`StopAfterStart`), so that no
registration, the only step that clears a stop reason, can follow. The proof has
one lemma for each family of steps: a step of finalizing, of a handler, of the queue,
of a goroutine's or the recovery's scope, and the two ends of the process.
`LifecycleFollowsContract` is about the steps. That nothing revives a recording that ended
(`LifecycleEndedStaysEnded`) needs `StartFirst` and `Ending`: whoever is about to write
"recording", "finalizing" or "ready" has a row that is active. That a run is a
RecordingRun from its registration on (`LifecycleRunsKeepPromise`), whatever handlers,
the web process and the disk guard do meanwhile, needs `Fresh`: a recording that waits for
input without a goroutine has no file, or recovery has still to end it, so that no start
meets the file of an earlier run unless a read or a write was lost. RecordingContract
until the first stop or lost write needs `Follows`: where finalizing is tells the row's
status, and a started row has its goroutine.
`LifecycleAdmitsRuns` is the converse of the second: each step of RecordingRun from a
state where a recording runs is a step of RecordingLifecycle. With `ProcessKeepsRun` it
says that RecordingLifecycle covers every behaviour of RecordingProcess, so that what is
proved of the lifecycle does not depend on how a run is modelled inside.
`LifecycleRunsQueue` is the refinement of CommandQueue, with the identity as mapping:
the theorems of CommandQueueProofs hold of it. `LifecycleAutoIsPromised` (`Promised`) is
what remains of `AutoConversionIsQueued` without fairness, until the worker first stops
or a write is lost.

*MediaJobsProofs.* `OneConverter` holds because at most one job is queued or running
(`OneActive`), a handler that converts works on a running job (`ConvertingRuns`), and a
job has one command (`OwnCommands`). `EndedIsOver` (a handler that is through has ended
its job) and `Owned` give `ActiveJobIsOwned`. `RowsMatchFiles` rests on `FilesOK`: a
deletion that has removed the TS still has its row to update (`TsKept`), and, the
hard part, a row of the MP4 that is ready while a conversion is active was written by
that conversion (`Mp4Kept`), so that with one deletion asked for, nobody who has seen
the row ready removes a file between the rename and `AddMediaFile`. That the removed
record of a ready recording leaves no TS behind needs only that a TS row is never ready
again and that nothing leads out of "failed" (`Removed`).
`MediaRunsQueue` is the refinement of CommandQueue.

*StreamAdmissionProofs.* `RoomIsKept` (a request past its count keeps room for its
insertion, because only the lock's holder adds a recording) makes `ActiveWithinLimit`
inductive; `SharedIsLive` (FOR SHARE keeps the row) gives `AdmittedStreamIsLive`;
`RowsHavePorts` (the index) gives `ClashesComeFromEdits`; `SecretIsLeft` (an edit between
its statements still has the passphrase to write) gives `EditsAreWhole`, and
`SecretsAllowed` with what `ValidateStreamInput` lets through gives
`StoredStreamIsUsable`.

*StallWatchdogProofs.* `Ordered` says what the reports in the pipe tell about the last
seconds, `Timely` what that and the writes' timeouts leave of the watchdog's clock,
`Prompt` what a database that answers at once adds. Together they bound the clock by
the true pause, from which both properties follow.

*DiskGuardProofs.* What a saver is about to commit was validated some steps ago
(`SavingIsValid`). `DiskLevelsMatch` is arithmetic: a product that wraps is only smaller,
so the worker finds a level only where the client shows it, and both find the same as
long as the watermarks of the settings in use fit the word.

*SchemaMigrationProofs.* `OneCommitter` (what is about to be committed is not applied,
and by nobody else), from the key of `schema_migrations`, and `FilesInOrder` make
`SchemaIsWhole` inductive; `PastMigrations` gives `ServingIsReady`.

The facts about a single step of the queue are stated again in MediaJobsProofs and
RecordingLifecycleProofs: the prover does not carry theorems over an INSTANCE with a
substitution.

Only model-checked: liveness under fairness (`EveryCommandFinishes`,
`StopEndsRecording`, `StoppedRecordingEnds`, `AutoConversionIsQueued`, `JobsEnd`,
`EverybodyServes`, `HardStopsRecordings`), which the proof system does not cover.

## Where code and documents disagree

Each of these is a run of its own, and a finding of `PROJECT.json` quotes the line.

1. `lifecycle_lost_stop` (`worker.go:399-407`): handlers run concurrently; a stop handled
   before its start registered the process fails and is not repeated. Only a stop whose row
   is "failed" can be lost so: one that is "done" has stopped its recording, unless a
   write is lost (`RunningIsActive`).
2. `media_ts_race` (`store_recordings.go:127-137`): the check for active conversions and
   the deletion are different statements, so a conversion queued in between loses its TS.

The models contain these behaviours too, and the properties are worded around them:

- A start that is replayed after a restart is refused, and the refusal writes "failed"
  over whatever the row says, "ready" included (`worker.go:149-155`). `RunningIsActive`
  shows that it never ends a running recording; `ReadyHasFile` speaks of conversions
  queued before.
- Two deletions of an MP4 that is made again in between: the late one removes the new
  file and its row stays ready (`worker.go:617-636`; `RowsMatchFiles` excepts it).
- Two overlapping edits of one stream, or one whose second statement fails, leave a mix
  (`store_streams.go:183-193`; `EditsAreWhole` excepts the streams in `torn`).
- A conversion without a free slot is requeued at the head of the queue and hides the
  commands behind it, stops included, until a conversion ends (`worker.go:109-112`).
- Recovery fails a recording whose start is still pending in the queue
  (`worker.go:643-646`); after a crash between the rename and the metadata it leaves a
  complete TS without a row (`worker.go:479-491`), and after one between "ready" and
  `QueueAutoMP4` no conversion is queued (`worker.go:497-504`). Nor is it if that call fails:
  it is tried once, unlike the writes before it, and its error is only logged
  (`worker.go:501-503`; `AutoConversionIsQueued` excepts lost writes).
- A record can be hidden while a conversion of it is queued
  (`store_recordings.go:209-218`), and a stream deleted while a recording of it is
  admitted (`store_streams.go:202-208`): check and update are separate statements.
- `store_recordings.go:207` refuses to hide a record that has files ("该录制已有媒体文件，
  请先删除文件"). If the TS was deleted under its conversion (2. above), the removal can
  count the files before the MP4 is stored and the jobs after the conversion is over,
  and the MP4 then stays on the disk without a record to delete it by. For the TS of a
  recording that stays ready this cannot happen (`RowsMatchFiles`).
- A failed recording is removed without a look at its files and jobs
  (`store_recordings.go:206-217`), and the client offers it (`App.tsx:339`). One that
  failed after its TS was stored, through a replayed start (`worker.go:154`) or an
  `AddMediaFile` whose error hid its commit (`worker.go:489-495`), leaves TS and MP4 on
  the disk without a record to delete them by.
- A deletion replayed after a crash between `os.Remove` and the row's update fails at
  `SafeExistingPath`, and the row stays (`worker.go:628-635`).
- `generateMP4` leaves its job active for ever if a read, `SetMP4Running` or `FinishMP4`
  fails (`worker.go:514-517,545-547,577`), or `SafePath` or `StdoutPipe` do
  (`worker.go:536-538,551-553`): the command ends as failed, and the job still refuses
  the TS's deletion, the recording's removal and every new conversion.
- `lastAdvanceNS` is the time a report is read: behind slow writes a stalled recording
  lives longer, and one whose media paused for a second may be ended
  (`worker.go:314,351`). Two reports of growth with a pause in between are enough for
  "recording", which `README.md:191` calls consecutive (`worker.go:315`).
- A watermark in GiB is multiplied in 64 bits and wraps (`worker.go:692-693`): the worker
  then misses levels that the operator is shown. `LevelsMatchClient` says that it never
  stops at one that is not shown.
- A `Statfs` that fails counts as an empty disk: one failure stops every recording, on
  any disk (`worker.go:684`).
- A start between the two statements of `UpdateStream` has the new address with the old
  passphrase (`store_streams.go:183-193`); a listener's port that an edit or a deletion
  freed can be taken while FFmpeg still listens on it (`ClashesComeFromEdits` excepts
  such streams).

Seen while reading, outside the models:

- `compose.yaml:71-72` gives `MAX_ACTIVE_RECORDINGS` to the worker only, while the web
  process is the one that applies the limit.
- The environment's `MP4_CONCURRENCY` and soft watermark are overwritten by the seeded
  row of `settings`.
- `serveMediaFile` answers 403 for a file that is missing, because `SafeExistingPath`
  fails before the file is opened.
- A hidden recording's queued job is counted by the dashboard for ever.
- `populateRecording` reads the files before the job, so that a page can show a finished
  job without its file, and `ListRecordings` ignores its errors.

## What is not modelled

- HTTP decoding, responses and the event stream: the handlers' effects are the actions
  of the modules; the event stream repeats the dashboard.
- FFmpeg's arguments and ffprobe's output (`media.go`): formatting and parsing. Of the
  address only what it is made of is modelled.
- Heartbeats and the dashboard: one unconditional upsert and read-only aggregation.
- Accounts, sessions and the login limiter: each operation is a single statement or one
  critical section, and nothing else depends on their state. The insertion of the
  first user is in SchemaMigration.
- Configuration, AES-GCM and bcrypt: functions over external data.
- The web client, except `diskGuardLevel`; build and deployment scripts, except the
  restart policy and the single worker.
- Within the modelled parts: progress percentages, error texts, `end_reason` except who
  stopped a recording, the retired error text that recovery also looks for
  (`store_worker.go:121-128`), a `SetRecordingStarted` that times out in the worker and
  is committed later, process numbers (a signal names an attempt, so a signal
  to a number that was reused is not seen), and several workers: `compose.yaml` runs one.
- Beyond the prover: liveness, ENABLED, and what a recursive definition computes. No
  module declares a RECURSIVE operator.

## Plan

Done, in this order: CommandQueue and its proofs; RecordingContract, RecordingProcess
and its proofs; RecordingLifecycle; MediaJobs; StreamAdmission and its proofs;
StallWatchdog; DiskGuard; then StreamInput under StreamAdmission, SchemaMigration,
CommandLedger, and the proofs about DiskGuard, StallWatchdog, SchemaMigration,
MediaJobs and RecordingLifecycle; then RecordingRun, which joins RecordingProcess and
RecordingLifecycle, and the refinements of CommandQueue.

What would come next: the safety part of the remaining liveness properties as theorems
(who can always move in SchemaMigration, which escalation is armed for a stopped
FFmpeg); and a property for each behaviour above that the code's owners decide is not
intended.
