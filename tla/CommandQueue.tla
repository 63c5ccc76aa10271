----------------------------- MODULE CommandQueue -----------------------------
(***************************************************************************)
(* The durable command queue between the web process and the recording     *)
(* worker: table worker_commands, the claim loop of Runner.Run and the     *)
(* conversion slots (Runner.conversions).                                  *)
(*                                                                         *)
(* The web process inserts rows; the only worker (compose.yaml runs one,   *)
(* recorder-01) claims the pending row with the lowest id, runs its        *)
(* handler in a goroutine of its own and records the outcome.  Rows are    *)
(* the elements of the sequence "commands" and a row's id is its index.    *)
(* What a handler does to the rest of the system is not described here:    *)
(* RecordingLifecycle and MediaJobs do that and use this module's actions. *)
(*                                                                         *)
(* A handler's CompleteCommand and its deferred releaseConversion are one  *)
(* step: nothing but a later claim can come between them.                  *)
(***************************************************************************)
EXTENDS Naturals, Sequences, FiniteSets

CONSTANTS
    Targets,      \* recordings, media files and jobs a command can name
    MaxCommands,  \* bound: rows ever inserted
    MaxLimit,     \* largest mp4_concurrency an operator saves (the code: 8)
    MaxStops,     \* bound: crashes and shutdowns of the worker
    MaxFaults     \* bound: database errors that lose a worker's write

ASSUME TargetsAssumption == Targets # {}
ASSUME BoundsAssumption ==
    /\ MaxCommands \in Nat \ {0}
    /\ MaxLimit \in Nat \ {0}
    /\ MaxStops \in Nat
    /\ MaxFaults \in Nat

VARIABLES
    commands,     \* rows of worker_commands, in id order
    handlers,     \* ids whose handleCommand goroutine is alive
    conversions,  \* Runner.conversions: conversion slots in use
    limit,        \* Runner.settings.MP4Concurrency
    worker,       \* where Runner.Run is
    requeue,      \* id claimed without a slot and not yet requeued, or 0
    stops,        \* crashes and shutdowns so far
    faults        \* lost writes so far

vars == <<commands, handlers, conversions, limit, worker, requeue, stops, faults>>

Kinds    == {"start_recording", "stop_recording", "generate_mp4", "delete_file"}
Statuses == {"pending", "claimed", "done", "failed"}
Limits   == 1..MaxLimit

Command   == [kind: Kinds, target: Targets, status: Statuses]
Ids       == DOMAIN commands
Status(i) == commands[i].status
NeedsSlot(i) == commands[i].kind = "generate_mp4"
Mp4Handlers  == {i \in handlers : NeedsSlot(i)}

SetStatus(i, s) == commands' = [commands EXCEPT ![i].status = s]

-----------------------------------------------------------------------------

Init ==
    /\ commands = <<>>
    /\ handlers = {}
    /\ conversions = 0
    /\ limit \in Limits
    /\ worker = "down"
    /\ requeue = 0
    /\ stops = 0
    /\ faults = 0

\* Faulty variant of NewRow: the status of a new mp4_jobs row.
NewRowQueued(kind, target) == [kind |-> kind, target |-> target, status |-> "queued"]

NewRow(kind, target) == [kind |-> kind, target |-> target, status |-> "pending"]

\* The web process commits a row.
Enqueue(kind, target) ==
    /\ Len(commands) < MaxCommands
    /\ commands' = Append(commands, NewRow(kind, target))
    /\ UNCHANGED <<handlers, conversions, limit, worker, requeue, stops, faults>>

\* Faulty variant of IsNext: rows already claimed are not passed over.
IsNextUnfinished(i) ==
    /\ Status(i) \in {"pending", "claimed"}
    /\ \A j \in Ids : Status(j) \in {"pending", "claimed"} => i <= j

\* The row ClaimCommand takes: pending, with the lowest id.
IsNext(i) ==
    /\ Status(i) = "pending"
    /\ \A j \in Ids : Status(j) = "pending" => i <= j

\* The poll loop claims, reserves a slot if the kind needs one, and starts
\* the handler's goroutine.
Dispatch(i) ==
    /\ worker = "polling" /\ requeue = 0
    /\ i \in Ids /\ IsNext(i)
    /\ NeedsSlot(i) => conversions < limit
    /\ SetStatus(i, "claimed")
    /\ handlers' = handlers \cup {i}
    /\ conversions' = IF NeedsSlot(i) THEN conversions + 1 ELSE conversions
    /\ UNCHANGED <<limit, worker, requeue, stops, faults>>

\* It claims a conversion while every slot is taken ...
ClaimWithoutSlot(i) ==
    /\ worker = "polling" /\ requeue = 0
    /\ i \in Ids /\ IsNext(i)
    /\ NeedsSlot(i) /\ conversions >= limit
    /\ SetStatus(i, "claimed")
    /\ requeue' = i
    /\ UNCHANGED <<handlers, conversions, limit, worker, stops, faults>>

\* ... and puts it back, ending this pass over the queue.
Requeue ==
    /\ requeue # 0
    /\ SetStatus(requeue, "pending")
    /\ requeue' = 0
    /\ UNCHANGED <<handlers, conversions, limit, worker, stops, faults>>

\* RequeueCommand ignores the error of its UPDATE.
RequeueLost ==
    /\ requeue # 0
    /\ faults < MaxFaults /\ faults' = faults + 1
    /\ requeue' = 0
    /\ UNCHANGED <<commands, handlers, conversions, limit, worker, stops>>

\* Commit reports an error although the server committed: the row is claimed
\* and the loop, which saw the error, starts no handler.
ClaimUncertain(i) ==
    /\ worker = "polling" /\ requeue = 0
    /\ faults < MaxFaults /\ faults' = faults + 1
    /\ i \in Ids /\ IsNext(i)
    /\ SetStatus(i, "claimed")
    /\ UNCHANGED <<handlers, conversions, limit, worker, requeue, stops>>

\* Faulty variant of ReleaseSlot: every handler releases.
ReleaseSlotAnyKind(i) ==
    conversions' = IF conversions > 0 THEN conversions - 1 ELSE conversions

ReleaseSlot(i) ==
    conversions' = IF NeedsSlot(i) /\ conversions > 0 THEN conversions - 1
                                                      ELSE conversions

\* handleCommand returns: CompleteCommand, then the deferred releaseConversion.
HandlerReturns(i, outcome) ==
    /\ i \in handlers
    /\ SetStatus(i, outcome)
    /\ handlers' = handlers \ {i}
    /\ ReleaseSlot(i)
    /\ UNCHANGED <<limit, worker, requeue, stops, faults>>

\* CompleteCommand ignores the error of its UPDATE.
CompletionLost(i) ==
    /\ i \in handlers
    /\ faults < MaxFaults /\ faults' = faults + 1
    /\ handlers' = handlers \ {i}
    /\ ReleaseSlot(i)
    /\ UNCHANGED <<commands, limit, worker, requeue, stops>>

\* The 15-second tick reads what an operator saved.
SettingsTick(l) ==
    /\ worker = "polling"
    /\ limit' = l
    /\ UNCHANGED <<commands, handlers, conversions, worker, requeue, stops, faults>>

\* SIGTERM: the context ends, Run calls shutdown and claims nothing more. A
\* RequeueCommand under way used the same context and is lost with it.
Shutdown ==
    /\ worker = "polling"
    /\ stops < MaxStops /\ stops' = stops + 1
    /\ worker' = "stopping"
    /\ requeue' = 0
    /\ UNCHANGED <<commands, handlers, conversions, limit, faults>>

ProcessGone ==
    /\ worker' = "down"
    /\ handlers' = {}
    /\ conversions' = 0
    /\ requeue' = 0

\* shutdown waited for the goroutines, or for 25 seconds.
Exit ==
    /\ worker = "stopping"
    /\ ProcessGone
    /\ UNCHANGED <<commands, limit, stops, faults>>

Crash ==
    /\ worker # "down"
    /\ stops < MaxStops /\ stops' = stops + 1
    /\ ProcessGone
    /\ UNCHANGED <<commands, limit, faults>>

\* Faulty variants of ResetStaleWork: it finds no row, because the restarted
\* worker has another id; or it forgets its condition on the status.
ResetNothing(rows) == rows
ResetEverything(rows) == [i \in DOMAIN rows |-> [rows[i] EXCEPT !.status = "pending"]]

ResetStaleWork(rows) ==
    [i \in DOMAIN rows |->
        [rows[i] EXCEPT !.status = IF @ = "claimed" THEN "pending" ELSE @]]

\* compose restarts the process: New, checkCapabilities, ResetStaleWork,
\* GetSettings (the defaults of New stay if that fails).
Restart(l) ==
    /\ worker = "down"
    /\ worker' = "recovering"
    /\ commands' = ResetStaleWork(commands)
    /\ limit' = l
    /\ UNCHANGED <<handlers, conversions, requeue, stops, faults>>

\* recoverInterrupted returns (its error is only logged): the loop begins.
RecoveryDone ==
    /\ worker = "recovering"
    /\ worker' = "polling"
    /\ UNCHANGED <<commands, handlers, conversions, limit, requeue, stops, faults>>

-----------------------------------------------------------------------------

Next ==
    \/ \E k \in Kinds, t \in Targets : Enqueue(k, t)
    \/ \E i \in Ids :
          \/ Dispatch(i)
          \/ ClaimWithoutSlot(i)
          \/ ClaimUncertain(i)
          \/ \E o \in {"done", "failed"} : HandlerReturns(i, o)
          \/ CompletionLost(i)
    \/ \E l \in Limits : SettingsTick(l) \/ Restart(l)
    \/ Requeue
    \/ RequeueLost
    \/ Shutdown
    \/ Exit
    \/ Crash
    \/ RecoveryDone

Spec == Init /\ [][Next]_vars

Returns(i) == \E o \in {"done", "failed"} : HandlerReturns(i, o)

\* What the scheduler and compose's restart policy keep doing; every handler
\* returns.
Fairness ==
    /\ WF_vars(\E l \in Limits : Restart(l))
    /\ WF_vars(RecoveryDone)
    /\ WF_vars(Exit)
    /\ WF_vars(Requeue)
    /\ \A i \in 1..MaxCommands :
          /\ WF_vars(Dispatch(i)) /\ WF_vars(ClaimWithoutSlot(i))
          /\ WF_vars(Returns(i))

FairSpec == Spec /\ Fairness

-----------------------------------------------------------------------------

TypeOK ==
    /\ commands \in Seq(Command)
    /\ Len(commands) <= MaxCommands
    /\ handlers \subseteq Ids
    /\ conversions \in Nat
    /\ limit \in Limits
    /\ worker \in {"down", "recovering", "polling", "stopping"}
    /\ requeue \in Ids \cup {0}
    /\ stops \in 0..MaxStops
    /\ faults \in 0..MaxFaults

\* A live handler owns its row: the row stays claimed for as long as the
\* goroutine runs, so no second handler can be started for it.  ResetStaleWork
\* and RequeueCommand rewrite claimed rows without looking at who runs them
\* (store_worker.go:12,43).
HandlersOwnClaims ==
    /\ \A i \in handlers : Status(i) = "claimed"
    /\ requeue # 0 => Status(requeue) = "claimed" /\ requeue \notin handlers

\* No slot leaks and none is freed twice: Runner.conversions counts exactly the
\* generate_mp4 handlers alive (worker.go:109-118,654-669).
SlotsMatchHandlers == conversions = Cardinality(Mp4Handlers)

\* Unless a write of the worker was lost, a claimed row has somebody who will
\* finish it or put it back, from the moment the worker is up again: a crash
\* never strands a command (worker.go:67,99-126).
ClaimsAreHeld ==
    faults = 0 /\ worker \in {"recovering", "polling"} =>
        \A i \in Ids : Status(i) = "claimed" => i \in handlers \cup {requeue}

\* A claimed row is adrift when no handler works on it.
StageOf(i) ==
    CASE Status(i) = "pending" -> "waiting"
      [] Status(i) = "claimed" -> IF i \in handlers THEN "running" ELSE "adrift"
      [] OTHER -> Status(i)

Ledger == INSTANCE CommandLedger WITH ledger <- [i \in Ids |-> StageOf(i)]

\* The queue keeps what CommandLedger promises: claims in the order of the ids, one
\* handler for a row at a time, and a finished row never handed out again, through
\* any number of crashes, requeues and resets (store_worker.go:12-45).
KeepsLedger == Ledger!Spec

\* Every command is eventually carried out and recorded, through crashes and
\* full conversion slots, unless a write of the worker is lost
\* (worker.go:67,99-126, store_worker.go:12-45).
EveryCommandFinishes ==
    \A i \in 1..MaxCommands :
        (i \in Ids) ~> ((i \in Ids /\ Status(i) \in {"done", "failed"}) \/ faults > 0)

=============================================================================
